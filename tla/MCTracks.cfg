SPECIFICATION FairSpec
CONSTANTS
  Names = {n1, n2}
  Readers = {r1, r2}
  MaxTracks = 2
INVARIANTS
  Deduplicated
  NotFoundUnlessTaken
PROPERTY Answered
CHECK_DEADLOCK FALSE

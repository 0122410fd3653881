SPECIFICATION FairSpec
CONSTANTS
  Names = {n1}
  Readers = {r1}
  MaxTracks = 2
PROPERTY AlwaysAnswered
CHECK_DEADLOCK FALSE

SPECIFICATION FairSpec
CONSTANTS
  Urls = {u1, u2}
  Requests = {q1, q2, q3}
  None = None
INVARIANTS
  RemoteOnce
  NoStaleTrack
PROPERTY
  Answered
CHECK_DEADLOCK FALSE

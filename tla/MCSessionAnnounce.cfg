SPECIFICATION FairSpec
CONSTANTS
  Namespaces = {n1, n2}
  MaxAnnounces = 2
INVARIANTS
  Sound
  EndUnderWay
PROPERTY
  BothLearn
CHECK_DEADLOCK FALSE

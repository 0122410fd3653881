SPECIFICATION FairSpec
CONSTANTS
  Readers = {r1}
  MaxObjects = 3
  Infos <- MCInfos
INVARIANTS
  GivenOnce
  NothingMissed
  CacheIsNewestGroup
PROPERTY
  Delivered
CHECK_DEADLOCK FALSE

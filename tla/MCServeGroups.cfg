SPECIFICATION FairSpec
CONSTANTS
  Readers = {r1}
  MaxGroups = 2
  MaxId = 1
  MaxObjects = 2
  Sizes = {1}
INVARIANTS
  AppendIsFresh
  ObjectIdsContiguous
  NoTruncation
PROPERTIES
  NeverBack
  ImplementsLatestValue
  ReachesEnd
CHECK_DEADLOCK FALSE

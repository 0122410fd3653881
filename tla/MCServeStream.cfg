SPECIFICATION FairSpec
CONSTANTS
  Clones = {w1, w2}
  Readers = {r1}
  MaxGroups = 2
  MaxId = 1
  MaxObjects = 1
  Sizes = {1}
INVARIANTS
  EndIsLast
PROPERTIES
  NeverOlder
  ImplementsLatestValue
  ReachesEnd
CHECK_DEADLOCK FALSE

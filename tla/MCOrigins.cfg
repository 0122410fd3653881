SPECIFICATION OriginsFairSpec
CONSTANTS
  n1 = n1
  n2 = n2
  a1 = a1
  a2 = a2
  a3 = a3
  Nodes = {n1, n2}
  Announces = {a1, a2, a3}
  At <- MCAt
  Nobody = Nobody
INVARIANTS
  LocalOwner
PROPERTIES
  NeverTaken
  OriginHeals
  OneServes

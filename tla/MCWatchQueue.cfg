SPECIFICATION QueueFairSpec
CONSTANTS
  Producers = {p1, p2}
  Consumers = {c1, c2}
  Items = {a, b}
  MaxPush = 3
INVARIANTS
  NoLostWakeup
  QueueIsSuffix
PROPERTIES
  PopReturns
  ImplementsQueue
CHECK_DEADLOCK FALSE

SPECIFICATION FairSpec
CONSTANTS
  Ids = {i1, i2}
  MaxTasks = 1
INVARIANTS
  AnsweredOnce
  EndUnderWay
PROPERTIES
  SubscriberLearns
  UnsubscribeStops
CHECK_DEADLOCK FALSE

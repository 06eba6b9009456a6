SPECIFICATION FairSpec
CONSTANTS
  t1 = t1
  t2 = t2
  t3 = t3
  k1 = k1
  k2 = k2
  NoName = NoName
  Tasks <- Tasks2
  Every <- Every1
  Name <- Unnamed2
  Closers <- OneCloser
  Serialized = FALSE
PROPERTY EveryAddedTaskActivated
CHECK_DEADLOCK FALSE

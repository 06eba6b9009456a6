SPECIFICATION FairSpec
CONSTANTS
  t1 = t1
  t2 = t2
  t3 = t3
  k1 = k1
  k2 = k2
  NoName = NoName
  Tasks <- Tasks2
  Every <- Every1
  Name <- Unnamed2
  Closers <- TwoClosers
  Serialized = TRUE
INVARIANTS
  NothingOutlivesShutdown
  AllMarkedStopped
  AddedTaskIsActive
PROPERTY EveryShutdownReturns
CHECK_DEADLOCK FALSE

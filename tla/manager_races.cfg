SPECIFICATION Spec
CONSTANTS
  t1 = t1
  t2 = t2
  t3 = t3
  k1 = k1
  k2 = k2
  NoName = NoName
  Tasks <- Tasks3
  Every <- Every1
  Name <- SharedName3
  Closers <- OneCloser
  Serialized = FALSE
INVARIANTS
  TypeOK
  NamesAgree
  NoRunOutlivesShutdown
  SchedulerKept
PROPERTY NoRevival
CHECK_DEADLOCK FALSE

SPECIFICATION FairSpec
CONSTANTS
  c1 = c1
  c2 = c2
  k1 = k1
  k2 = k2
  Calls <- Calls2
  Closers <- OneCloser
  MaxFired = 1
  Max = 1
  Overlap = "Merge"
  Outcomes = {"error", "panic"}
  ReportContextCancel = FALSE
PROPERTIES
  ContractSpec
  EveryWaiterReturns
  EveryShutdownReturns
CHECK_DEADLOCK FALSE

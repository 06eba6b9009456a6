SPECIFICATION Spec
CONSTANTS
  c1 = c1
  c2 = c2
  k1 = k1
  k2 = k2
  Calls <- Calls2
  Closers <- TwoClosers
  MaxFired = 1
  Max = 1
  Overlap = "Merge"
  Outcomes = {"ok"}
  ReportContextCancel = FALSE
INVARIANT StoppedAfterShutdown
CHECK_DEADLOCK FALSE

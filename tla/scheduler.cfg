SPECIFICATION FDFairSpec
CONSTANTS
  MaxInt64 = 20
  c1 = c1
  k1 = k1
  Calls <- OneCall
  Closers <- OneCloser
  MaxFired = 3
  Max = 1
  Overlap = "Skip"
  Outcomes = {"ok"}
  ReportContextCancel = FALSE
INVARIANT CompletionNotMissed
PROPERTIES
  TickEnds
  SchedulerEnds
CHECK_DEADLOCK FALSE

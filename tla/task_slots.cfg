SPECIFICATION Spec
CONSTANTS
  c1 = c1
  c2 = c2
  k1 = k1
  k2 = k2
  Calls <- Calls2
  Closers <- TwoClosers
  MaxFired = 2
  Max = 2
  Overlap = "Merge"
  Outcomes = {"ok", "cancel"}
  ReportContextCancel = FALSE
SYMMETRY Interchangeable
INVARIANTS
  TypeOK
  SlotAccounting
  NoOrphanedPending
  OneOwner
  FreshResult
  QuietAfterShutdown
  StatusAgrees
PROPERTY NoRunAfterShutdown
CHECK_DEADLOCK FALSE

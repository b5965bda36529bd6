SPECIFICATION Spec
CONSTANTS
  Events = {e1, e2}
  AuditFile = FALSE
  AuditUrl = FALSE
  MaxWorkers = 4
  MaxRetries = 3
INVARIANTS NoEmptyObserver

SPECIFICATION FairSpec
CONSTANTS
  Events = {e1, e2}
  AuditFile = TRUE
  AuditUrl = TRUE
  MaxWorkers = 4
  MaxRetries = 2
INVARIANTS IInv SuccessIsRecorded
PROPERTIES NothingAfterReturn PublishReturns

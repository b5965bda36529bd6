SPECIFICATION FairSpec
CONSTANTS
  RateLimit = 2
  MaxRetries = 1
  Transport = "http"
  LateDelivery = TRUE
  MaxPolls = 2
  MaxReports = 2
INVARIANTS IInv TypeOK ConfirmedWasApplied SendsOnlyUnsent CleanExitFlushed EveryCollectionCounted
PROPERTIES ShutdownCompletes ImplementsReporter OnlyLateRegresses

SPECIFICATION DeliverySpec
CONSTANTS
  RateLimit = 2
  MaxRetries = 1
  Transport = "grpc"
  LateDelivery = TRUE
  MaxPolls = 2
  MaxReports = 2
  Storages = {"memory", "postgres"}
  MaxInt = 3
INVARIANTS DeliveryInv CountedOncePerDoubt CleanExitCounts

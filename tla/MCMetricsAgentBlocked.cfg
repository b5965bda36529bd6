SPECIFICATION Spec
CONSTANTS
  RateLimit = 1
  MaxRetries = 3
  Transport = "http"
  LateDelivery = FALSE
  MaxPolls = 2
  MaxReports = 1
INVARIANTS CollectionNotBlockedBySends

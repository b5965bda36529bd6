SPECIFICATION Spec
CONSTANTS
  RateLimit = 1
  MaxRetries = 3
  Transport = "http"
  LateDelivery = TRUE
  MaxPolls = 2
  MaxReports = 2
PROPERTIES ServerNeverRegresses

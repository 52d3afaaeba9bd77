SPECIFICATION FairSpec
CONSTANTS
  Calls = {c1}
  MaxInvoices = 2
  MaxRefunds = 2
  MaxRequests = 1
  MaxFaults = 0
  MaxCrashes = 1
PROPERTIES CapturedStays PaidIsHeard FailedRefundReopens
CHECK_DEADLOCK FALSE

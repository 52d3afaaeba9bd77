SPECIFICATION Spec
CONSTANTS
  Calls = {c1, c2}
  MaxInvoices = 1
  MaxRefunds = 1
  MaxRequests = 1
  MaxFaults = 0
  MaxCrashes = 0
INVARIANT RefundIsApproved
CHECK_DEADLOCK FALSE

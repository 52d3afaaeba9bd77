SPECIFICATION Spec
CONSTANTS
  Calls = {c1, c2}
  MaxInvoices = 1
  MaxRefunds = 2
  MaxRequests = 1
  MaxFaults = 1
  MaxCrashes = 0
INVARIANTS OneRefund RefundedNotPaidOut CompletedIsPaid Consistent
PROPERTY FollowsEarnings
SYMMETRY Symmetry
CHECK_DEADLOCK FALSE

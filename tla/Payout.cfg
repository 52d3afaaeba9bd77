SPECIFICATION Spec
CONSTANTS
    Payouts = {p1}
    Calls = {c1, c2}
    MaxRetries = 1
    MaxAttempts = 2
    MaxCrashes = 1
    NoId = NoId
SYMMETRY MCSymmetry
INVARIANTS OneTransfer RefundedIsCancelled PaidHasArrived Inv
PROPERTIES PaidNotSentAgain FollowsEarnings
CHECK_DEADLOCK FALSE

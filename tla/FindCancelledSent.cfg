SPECIFICATION Spec
CONSTANTS
    Payouts = {p1}
    Calls = {c1, c2}
    MaxRetries = 1
    MaxAttempts = 2
    MaxCrashes = 0
    NoId = NoId
SYMMETRY MCSymmetry
PROPERTIES CancelledNeverSent
CHECK_DEADLOCK FALSE

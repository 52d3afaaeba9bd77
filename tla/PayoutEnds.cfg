SPECIFICATION FairSpec
CONSTANTS
    Payouts = {p1}
    Calls = {c1}
    MaxRetries = 1
    MaxAttempts = 2
    MaxCrashes = 1
    NoId = NoId
PROPERTIES PayoutEnds
CHECK_DEADLOCK FALSE

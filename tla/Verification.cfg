SPECIFICATION FairSpec
CONSTANTS
  Kinds = {id, clearance}
  Required = {clearance}
  Expiring = {clearance}
  Validity = 1
  Cooldown = 1
  Calls = {p1, p2}
  Sweeps = {s1}
  MaxRequests = 2
  MaxDocuments = 1
  MaxTime = 1
INVARIANTS TypeOK StatusHasRequest NothingIncomplete
PROPERTY LapseIsFlagged
CHECK_DEADLOCK FALSE

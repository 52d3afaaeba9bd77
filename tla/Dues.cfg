SPECIFICATION FairSpec
CONSTANTS
  j1 = j1
  j2 = j2
  Jobs = {j1}
  Others = others
  Share <- Share_
  Cut <- Cut_
  Charges = {2}
  OddPayments = {3}
  HoldLimit = 2
  MinPayment = 1
  Rows = {d1}
  MaxCharges = 2
  MaxFaults = 1
  MaxCrashes = 1
INVARIANTS TypeOK NeverBoth UndoneInFull WorkersAgree EntriesAgree
PROPERTIES PaidIsCredited FollowsEarnings
CHECK_DEADLOCK FALSE

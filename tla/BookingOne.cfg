\* One booking through its whole life, with two handlers in flight: between the
\* read and the write of each, the other may act, and so may every step that
\* needs no earlier read.
CONSTANTS
  Bookings = {b1}
  Workers = {w1}
  Disputes = {d1, d2}
  Calls = {p1, p2}
  Starts <- MCOneStart
  MaxTime = 2
  Grace = 1
  Early = 1
  MaxRequests = 1
  MaxResends = 1
  None = None
SPECIFICATION Spec
INVARIANTS TypeOK CancelledOnRecord NoInvoiceOverCancelRequest EscalatedNotAgreed JobCountBounded ChargedAsJudged
PROPERTY FollowsLifecycle
CHECK_DEADLOCK FALSE
SYMMETRY Symmetry

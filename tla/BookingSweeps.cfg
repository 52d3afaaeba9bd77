\* What the sweeps bring about, whatever users and admins leave undone.
CONSTANTS
  Bookings = {b1}
  Workers = {w1}
  Disputes = {d1, d2}
  Calls = {p1}
  Starts <- MCOneStart
  MaxTime = 3
  Grace = 1
  Early = 1
  MaxRequests = 0
  MaxResends = 1
  None = None
SPECIFICATION FairSpec
PROPERTIES PendingEnds CancelRequestAnswered NoShowEnds InvoiceChased
CHECK_DEADLOCK FALSE

\* Two bookings of one worker, two handlers in flight, before any invoice.
CONSTANTS
  Bookings = {b1, b2}
  Workers = {w1}
  Disputes = {}
  Calls = {p1, p2}
  Starts <- MCTwoStarts
  MaxTime = 1
  Grace = 1
  Early = 1
  MaxRequests = 1
  MaxResends = 0
  None = None
SPECIFICATION Spec
INVARIANTS NoDoubleBooking CommitmentInv
CONSTRAINT Commitments
SYMMETRY BookingSymmetry
CHECK_DEADLOCK FALSE

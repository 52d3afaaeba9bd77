\* A booking that is asked to move twice, with three times to choose from.
CONSTANTS
  Bookings = {b1}
  Workers = {w1}
  Disputes = {}
  Calls = {p1, p2}
  Starts <- MCThreeStarts
  MaxTime = 1
  Grace = 1
  Early = 1
  MaxRequests = 2
  MaxResends = 0
  None = None
SPECIFICATION Spec
PROPERTY MovesByAgreement
CONSTRAINT Commitments
SYMMETRY Symmetry
CHECK_DEADLOCK FALSE

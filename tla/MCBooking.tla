----------------------------- MODULE MCBooking ------------------------------
(* Booking on small instances. *)
EXTENDS Booking, TLC

MCOneStart == {1}
MCTwoStarts == {1, 2}
MCThreeStarts == {1, 2, 3}

\* Dispute rows and calls in flight are interchangeable, and so are bookings.
Symmetry == Permutations(Disputes) \cup Permutations(Calls)
BookingSymmetry == Symmetry \cup Permutations(Bookings)

\* What happens to a job before its invoice.
BeforeInvoice ==
  \A b \in Bookings :
    booking[b].status \in {"NONE", "PENDING", "CANCELLED"} \cup JobStatuses

\* Only what decides which jobs a worker is committed to, and when.
Commitments ==
  /\ BeforeInvoice
  /\ \A b \in Bookings :
       ~booking[b].cash /\ ~booking[b].asked /\ ~booking[b].visit /\ booking[b].notHere = None
=============================================================================

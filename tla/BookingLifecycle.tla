-------------------------- MODULE BookingLifecycle --------------------------
(***************************************************************************)
(* The lifecycle a booking promises, whoever writes its row: the abstract  *)
(* specification that the handlers, the sweeps and the payment code must   *)
(* implement.  It is the transition table of bookingStateMachine.ts, with  *)
(* one status ("NONE") for a booking that does not exist yet.              *)
(***************************************************************************)

CONSTANT Bookings

VARIABLE status

-----------------------------------------------------------------------------

Terminal == {"COMPLETED", "REJECTED", "CANCELLED"}

Statuses == {"PENDING", "ACCEPTED", "IN_PROGRESS", "PENDING_COMPLETION",
             "AWAITING_PAYMENT", "DISPUTED"} \cup Terminal

\* The statuses a booking may move to.  The two QUOTE statuses of the table
\* are left out: nothing in the code enters them any more.
ValidTransitions(from) ==
  CASE from = "NONE"               -> {"PENDING"}
    [] from = "PENDING"            -> {"ACCEPTED", "REJECTED", "CANCELLED"}
    [] from = "ACCEPTED"           -> {"IN_PROGRESS", "CANCELLED"}
    [] from = "IN_PROGRESS"        -> {"PENDING_COMPLETION", "CANCELLED"}
    [] from = "PENDING_COMPLETION" -> {"AWAITING_PAYMENT", "COMPLETED",
                                       "DISPUTED", "CANCELLED"}
    [] from = "AWAITING_PAYMENT"   -> {"COMPLETED", "DISPUTED", "CANCELLED"}
    [] from = "DISPUTED"           -> {"PENDING_COMPLETION", "AWAITING_PAYMENT",
                                       "COMPLETED", "CANCELLED"}
    [] OTHER                       -> {}

Init == status = [b \in Bookings |-> "NONE"]

Move(b, to) ==
  /\ to \in ValidTransitions(status[b])
  /\ status' = [status EXCEPT ![b] = to]

Next == \E b \in Bookings, to \in Statuses : Move(b, to)

Spec == Init /\ [][Next]_status

=============================================================================

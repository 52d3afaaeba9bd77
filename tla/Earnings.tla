------------------------------ MODULE Earnings ------------------------------
(***************************************************************************)
(* What the platform promises about a worker's earnings for a payment,     *)
(* whoever handles them: they are claimed once, for a payout or against    *)
(* one; a payout that is open is sent or cancelled, and either is final;   *)
(* and the client's money is given back at the worker's expense only while *)
(* they are claimed and no payout is open or sent, at the platform's only  *)
(* where there is a payout.                                                *)
(*                                                                         *)
(* Payout, Payment and Dues look at the same rows each in its own detail:  *)
(* all three implement this specification.                                 *)
(***************************************************************************)
CONSTANT Payments

VARIABLES
    claimed,        \* the earnings are settled, or never will be
    payout,         \* "OPEN" from the row's creation until it is PAID or CANCELLED
    returned        \* the client has his money, as far as is known: "BACK" from
                    \* what the worker was to get, or as a "LOSS"

vars == <<claimed, payout, returned>>

Init ==
    /\ claimed = [p \in Payments |-> FALSE]
    /\ payout = [p \in Payments |-> "NONE"]
    /\ returned = [p \in Payments |-> "NO"]

\* The claim, by the settlement (dues may leave nothing to pay out) or by a
\* refund that comes first.
Claim(p) ==
    /\ ~claimed[p]
    /\ claimed' = [claimed EXCEPT ![p] = TRUE]
    /\ \E first \in {"NONE", "OPEN"} : payout' = [payout EXCEPT ![p] = first]
    /\ UNCHANGED returned

Send(p) ==
    /\ payout[p] = "OPEN"
    /\ payout' = [payout EXCEPT ![p] = "PAID"]
    /\ UNCHANGED <<claimed, returned>>

Stop(p) ==
    /\ payout[p] = "OPEN"
    /\ payout' = [payout EXCEPT ![p] = "CANCELLED"]
    /\ UNCHANGED <<claimed, returned>>

\* The refund is asked for, or made by hand.
Return(p) ==
    /\ claimed[p] /\ payout[p] \in {"NONE", "CANCELLED"}
    /\ returned' = [returned EXCEPT ![p] = "BACK"]
    /\ UNCHANGED <<claimed, payout>>

\* It is made by hand, a payout having been found that could not be stopped.
Lose(p) ==
    /\ claimed[p] /\ payout[p] # "NONE"
    /\ returned' = [returned EXCEPT ![p] = "LOSS"]
    /\ UNCHANGED <<claimed, payout>>

\* The refund failed after all; the earnings are what they are by now.
Restore(p) ==
    /\ returned' = [returned EXCEPT ![p] = "NO"]
    /\ UNCHANGED <<claimed, payout>>

Next ==
    \E p \in Payments : Claim(p) \/ Send(p) \/ Stop(p) \/ Return(p) \/ Lose(p) \/ Restore(p)

Spec == Init /\ [][Next]_vars
=============================================================================

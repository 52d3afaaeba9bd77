----------------------------- MODULE MCPayment ------------------------------
(* Payment on small instances. *)
EXTENDS Payment, TLC

Symmetry == Permutations(Calls)
=============================================================================

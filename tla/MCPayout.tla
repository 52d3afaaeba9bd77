------------------------------ MODULE MCPayout ------------------------------
(* Small instances of Payout. *)
EXTENDS Payout, TLC

MCSymmetry == Permutations(Calls)
=============================================================================

------------------------------- MODULE MCDues -------------------------------
(* Dues on small instances. *)
EXTENDS Dues

CONSTANTS j1, j2

Share_ == [j \in Jobs |-> IF j = j1 THEN 3 ELSE 2]
Cut_ == [j \in Jobs |-> IF j = j1 THEN 1 ELSE 2]
=============================================================================

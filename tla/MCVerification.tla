--------------------------- MODULE MCVerification ---------------------------
(* Verification on a small instance. *)
EXTENDS Verification
=============================================================================

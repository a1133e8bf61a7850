------------------------------ MODULE MCLending ------------------------------
(* Lending for TLC. *)
EXTENDS Lending, TLC
=============================================================================

-------------------------- MODULE MCPropertyEscrow --------------------------
(* PropertyEscrow for TLC.  Fairness and symmetry do not go together: no     *)
(* symmetry here.                                                            *)
EXTENDS PropertyEscrow, TLC
=============================================================================

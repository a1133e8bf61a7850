-------------------------- MODULE MCTransactionNonces --------------------------
(* TransactionNonces for TLC. *)
EXTENDS TransactionNonces, TLC
=============================================================================

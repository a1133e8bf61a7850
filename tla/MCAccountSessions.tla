------------------------- MODULE MCAccountSessions -------------------------
(* AccountSessions for TLC. *)
EXTENDS AccountSessions, TLC

CONSTANTS wallet, apple, t1, t2, t3, n1, n2

MCTokens == {t1, t2, t3}
MCNonces == {n1, n2}
=============================================================================

-------------------------------- MODULE Sums --------------------------------
(* Sums over finite sets: what the ledgers, pools and positions of the other *)
(* modules add up to.                                                        *)
EXTENDS Integers, Functions

\* The sum of the values f has on S.
SumOf(f, S) == FoldFunctionOnSet(+, 0, f, S)
=============================================================================

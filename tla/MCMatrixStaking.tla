--------------------------- MODULE MCMatrixStaking ---------------------------
(* MatrixStaking for TLC: ether is 2 wei, a deposit of 3 accrues in halves,  *)
(* and commission is half of a reward, rounded down.                         *)
EXTENDS MatrixStaking, TLC

CONSTANTS neoSafe, self

MCRecipients == {neoSafe, self}
Symmetry == Permutations(Stakers)
=============================================================================

------------------------- MODULE MCAccountDeletion -------------------------
(* AccountDeletion for TLC: two accounts that sign in with Apple, a named   *)
(* conversation and the reserved one of the first account.                  *)
EXTENDS AccountDeletion, TLC

CONSTANTS alice, bob, shared, own

MCSubjects == {alice, bob}
MCConvs == {shared, own}
MCNamedFor == [c \in MCConvs |-> IF c = own THEN alice ELSE Nobody]

TokenSymmetry == Permutations(Tokens)
=============================================================================

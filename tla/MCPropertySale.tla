--------------------------- MODULE MCPropertySale ---------------------------
(* PropertySale for TLC. *)
EXTENDS PropertySale, TLC

SaleSymmetry == Permutations(EscrowIds) \cup Permutations(Parties)
=============================================================================

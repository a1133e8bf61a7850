--------------------------- MODULE MCEntitlements ---------------------------
(* Entitlements for TLC: a subscription and a consumable. *)
EXTENDS Entitlements, TLC

CONSTANTS pro, coins

MCOriginal == [tx \in Transactions |-> tx]
=============================================================================

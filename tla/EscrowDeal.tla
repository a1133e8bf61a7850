------------------------------ MODULE EscrowDeal ------------------------------
(* What an escrow promises to those who watch it from outside: each deal is   *)
(* made once, by one buyer, and ends once, settled or refunded.               *)
(* PropertyEscrow implements it; PropertySale is written against it.          *)
CONSTANTS Parties, NoParty, EscrowIds

VARIABLE deals

NoDeal == [state |-> "None", buyer |-> NoParty]

Deal(state, p) == [state |-> state, buyer |-> p]

DealInit == deals = [id \in EscrowIds |-> NoDeal]

\* A lock, or a lock that is settled in the same transaction.
Make(id, p) ==
  /\ deals[id].state = "None"
  /\ \E state \in {"Locked", "Settled"} : deals' = [deals EXCEPT ![id] = Deal(state, p)]

End(id) ==
  /\ deals[id].state = "Locked"
  /\ \E state \in {"Settled", "Refunded"} : deals' = [deals EXCEPT ![id].state = state]

DealNext == \E id \in EscrowIds : End(id) \/ \E p \in Parties : Make(id, p)

DealSpec == DealInit /\ [][DealNext]_deals
=============================================================================

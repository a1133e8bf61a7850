------------------------ MODULE PropertyEscrowProofs ------------------------
(* Where a buyer's deposit can go, and the deal the escrow keeps, for any     *)
(* parties, deeds, escrows and prices.                                        *)
EXTENDS PropertyEscrow, TLAPS

\* What of an escrow and its bookkeeping DepositGoesOneWay relates.
GoesOneWay(id) ==
  /\ escrows[id].state # "None" => MadeAsListed(id)
  /\ paidSeller[id] = IF escrows[id].state = "Settled" THEN deposited[id] ELSE 0
  /\ paidBuyer[id] = IF escrows[id].state = "Refunded" THEN deposited[id] ELSE 0
  /\ escrows[id].amount = IF escrows[id].state = "Locked" THEN deposited[id] ELSE 0
  /\ delivered[id] = IF escrows[id].state = "Settled" THEN escrows[id].buyer ELSE NoParty

\* A party's step, or the deadline's; the deed's steps and the clock's leave the
\* escrows and their bookkeeping alone.
Aside ==
  UNCHANGED <<listings, escrows, escrowBalance, deposited, paidSeller, paidBuyer, delivered>>

\* The types of what the state keeps of an escrow.
LEMMA EscrowFields ==
  ASSUME EscrowTypeOK, NEW id \in EscrowIds
  PROVE  /\ escrows[id] \in Escrow /\ listings[id] \in Listing
         /\ deposited[id] \in Nat /\ paidSeller[id] \in Nat /\ paidBuyer[id] \in Nat
         /\ escrowTime \in Nat /\ escrowBalance \in Nat
  BY DEF EscrowTypeOK

\* What is locked is of the right type, if its buyer is a party.
LEMMA LockedType ==
  ASSUME EscrowTypeOK, NEW id \in EscrowIds, NEW p \in Parties
  PROVE  Locked(p, id) \in Escrow
<1>1. escrowTime + LockTimeout \in Nat
  BY EscrowConstants DEF EscrowTypeOK
<1>. QED
  BY <1>1, EscrowFields DEF Locked, Escrow, Listing, EscrowStates

\* A transfer leaves deeds with parties, and only takes approvals back.
LEMMA TransferType ==
  ASSUME EscrowTypeOK, NEW d, NEW from, NEW to \in Parties \cup {NoParty}, TransferFrom(d, from, to)
  PROVE  /\ holder' \in [Deeds -> Parties \cup {NoParty}]
         /\ approvals' \subseteq Deeds \cup Parties
  BY DEF EscrowTypeOK, TransferFrom

\* An exchange keeps the types.
LEMMA ExchangeType ==
  ASSUME EscrowTypeOK, NEW id \in EscrowIds, NEW e \in Escrow, NEW in \in Nat,
         Exchange(id, e, in)
  PROVE  /\ holder' \in [Deeds -> Parties \cup {NoParty}]
         /\ approvals' \subseteq Deeds \cup Parties
         /\ escrows' \in [EscrowIds -> Escrow]
         /\ escrowBalance' \in Nat
         /\ paidSeller' \in [EscrowIds -> Nat]
         /\ delivered' \in [EscrowIds -> Parties \cup {NoParty}]
         /\ UNCHANGED <<escrowTime, paidBuyer>>
<1>1. /\ e.amount \in Nat /\ e.buyer \in Parties \cup {NoParty}
      /\ PaidOut(e, "Settled") \in Escrow
  BY DEF Escrow, PaidOut, EscrowStates
<1>2. TransferFrom(e.deed, e.seller, e.buyer) /\ holder'[e.deed] = e.buyer
  BY DEF Exchange, Received
<1>3. /\ holder' \in [Deeds -> Parties \cup {NoParty}]
      /\ approvals' \subseteq Deeds \cup Parties
  BY <1>1, <1>2, TransferType
<1>4. escrows' \in [EscrowIds -> Escrow]
  BY <1>1 DEF Exchange, EscrowTypeOK
<1>5. escrowBalance' \in Nat
  <2>1. \A x, y, z \in Nat : x + y >= z => x + y - z \in Nat
    OBVIOUS
  <2>2. escrowBalance + in - e.amount \in Nat
    BY <1>1, <2>1, EscrowFields DEF Exchange
  <2>. QED
    BY <2>2, Zenon DEF Exchange
<1>6. paidSeller' \in [EscrowIds -> Nat]
  <2>1. paidSeller[id] + e.amount \in Nat
    BY <1>1, EscrowFields
  <2>. QED
    BY <2>1 DEF Exchange, EscrowTypeOK
<1>7. delivered' \in [EscrowIds -> Parties \cup {NoParty}]
  BY <1>1, <1>2 DEF Exchange, EscrowTypeOK
<1>. QED
  BY <1>3, <1>4, <1>5, <1>6, <1>7 DEF Exchange

\* Paying out changes the state and the amount.
LEMMA PaidOutFields ==
  ASSUME NEW e \in Escrow, NEW state
  PROVE  /\ PaidOut(e, state).state = state /\ PaidOut(e, state).amount = 0
         /\ PaidOut(e, state).buyer = e.buyer /\ PaidOut(e, state).seller = e.seller
         /\ PaidOut(e, state).deed = e.deed
  BY DEF PaidOut, Escrow

\* Every step keeps the types.
LEMMA EscrowTypeStep ==
  ASSUME EscrowTypeOK, [EscrowNext]_escrowVars
  PROVE  EscrowTypeOK'
<1> USE DEF escrowVars, dealVars
<1>1. CASE UNCHANGED escrowVars
  BY <1>1 DEF EscrowTypeOK
<1>2. ASSUME NEW d \in Deeds, NEW p \in Parties,
             Mint(d, p) \/ (\E to \in Parties : SendDeed(p, d, to)) \/ Approve(p, d)
      PROVE  EscrowTypeOK'
  BY <1>2 DEF EscrowTypeOK, Mint, SendDeed, Approve
<1>3. ASSUME NEW id \in EscrowIds, NEW p \in Parties, NEW d \in Deeds, NEW price \in Prices,
             NEW buyer \in Parties \cup {NoParty}, ListDeed(p, id, d, price, buyer)
      PROVE  EscrowTypeOK'
  BY <1>3, EscrowConstants DEF EscrowTypeOK, ListDeed, Listing
<1>4. ASSUME NEW id \in EscrowIds, NEW p \in Parties, CancelListing(p, id)
      PROVE  EscrowTypeOK'
  BY <1>4 DEF EscrowTypeOK, CancelListing, Listing
<1>5. ASSUME NEW id \in EscrowIds, Consumed(id) = listings'
      PROVE  listings' \in [EscrowIds -> Listing]
  <2>1. EscrowTypeOK
    OBVIOUS
  <2>. QED
    BY <1>5, <2>1 DEF Consumed, EscrowTypeOK, Listing
<1>6. ASSUME NEW id \in EscrowIds, NEW p \in Parties, LockFunds(p, id)
      PROVE  EscrowTypeOK'
  <2>. DEFINE e == Locked(p, id)
  <2>1. e \in Escrow /\ e.amount \in Nat
    BY LockedType DEF Escrow
  <2>2. /\ listings' = Consumed(id) /\ escrows' = [escrows EXCEPT ![id] = e]
        /\ escrowBalance' = escrowBalance + e.amount
        /\ deposited' = [deposited EXCEPT ![id] = e.amount]
        /\ UNCHANGED <<escrowTime, holder, approvals, paidSeller, paidBuyer, delivered>>
    BY <1>6 DEF LockFunds
  <2>. HIDE DEF e
  <2>3. escrowBalance + e.amount \in Nat
    BY <2>1, EscrowFields
  <2>. QED
    BY <1>5, <2>1, <2>2, <2>3 DEF EscrowTypeOK
<1>7. ASSUME NEW id \in EscrowIds, NEW p \in Parties, LockAndSettle(p, id)
      PROVE  EscrowTypeOK'
  <2>. DEFINE e == Locked(p, id)
  <2>1. e \in Escrow /\ e.amount \in Nat
    BY LockedType DEF Escrow
  <2>2. /\ listings' = Consumed(id) /\ Exchange(id, e, e.amount)
        /\ deposited' = [deposited EXCEPT ![id] = e.amount]
    BY <1>7 DEF LockAndSettle
  <2>. HIDE DEF e
  <2>3. deposited' \in [EscrowIds -> Nat]
    BY <2>1, <2>2 DEF EscrowTypeOK
  <2>. QED
    BY <1>5, <2>1, <2>2, <2>3, ExchangeType DEF EscrowTypeOK
<1>8. ASSUME NEW id \in EscrowIds, NEW p \in Parties, Settle(p, id)
      PROVE  EscrowTypeOK'
  BY <1>8, EscrowFields, ExchangeType DEF EscrowTypeOK, Settle
<1>9. ASSUME NEW id \in EscrowIds, Refund(id)
      PROVE  EscrowTypeOK'
  <2>. DEFINE e == escrows[id]
  <2>1. /\ e \in Escrow /\ e.amount \in Nat /\ escrowBalance \in Nat /\ paidBuyer[id] \in Nat
        /\ PaidOut(e, "Refunded") \in Escrow
    BY EscrowFields DEF Escrow, PaidOut, EscrowStates
  <2>2. /\ escrowBalance >= e.amount /\ escrowBalance' = escrowBalance - e.amount
        /\ escrows' = [escrows EXCEPT ![id] = PaidOut(e, "Refunded")]
        /\ paidBuyer' = [paidBuyer EXCEPT ![id] = @ + e.amount]
        /\ UNCHANGED <<escrowTime, holder, approvals, listings, deposited, paidSeller, delivered>>
    BY <1>9 DEF Refund
  <2>. HIDE DEF e
  <2>3. escrowBalance - e.amount \in Nat /\ paidBuyer[id] + e.amount \in Nat
    BY <2>1, <2>2
  <2>. QED
    BY <2>1, <2>2, <2>3 DEF EscrowTypeOK
<1>10. CASE EscrowTick
  <2>1. escrowTime + 1 \in Nat
    BY DEF EscrowTypeOK
  <2>. QED
    BY <1>10, <2>1 DEF EscrowTypeOK, EscrowTick
<1>. QED
  BY <1>1, <1>2, <1>3, <1>4, <1>6, <1>7, <1>8, <1>9, <1>10 DEF EscrowNext, DeedNext, PartyNext

\* The variables keep their types.
THEOREM EscrowTypes == EscrowSpec => []EscrowTypeOK
<1>1. EscrowInit => EscrowTypeOK
  BY DEF EscrowInit, EscrowTypeOK, NoListing, NoEscrow, Listing, Escrow, EscrowStates
<1>. QED
  BY <1>1, EscrowTypeStep, PTL DEF EscrowSpec

-----------------------------------------------------------------------------
(* Deposits *)

\* A step about one escrow leaves the others and what is kept of them.
LEMMA OthersStay ==
  ASSUME EscrowTypeOK, DepositGoesOneWay, NEW id \in EscrowIds,
         \A q \in EscrowIds \ {id} :
            UNCHANGED <<escrows[q], listings[q], deposited[q], paidSeller[q], paidBuyer[q],
                        delivered[q]>>,
         GoesOneWay(id)'
  PROVE  DepositGoesOneWay'
<1>1. ASSUME NEW q \in EscrowIds PROVE GoesOneWay(q)'
  <2>1. CASE q = id
    BY <2>1
  <2>2. CASE q # id
    <3>1. GoesOneWay(q)
      BY DEF DepositGoesOneWay, GoesOneWay
    <3>. QED
      BY <2>2, <3>1 DEF GoesOneWay, MadeAsListed
  <2>. QED
    BY <2>1, <2>2
<1>. QED
  BY <1>1 DEF DepositGoesOneWay, GoesOneWay

\* A lock is made as its listing says.
LEMMA LockIsAsListed ==
  ASSUME EscrowTypeOK, NEW id \in EscrowIds, NEW p \in Parties, MayLock(p, id),
         listings' = Consumed(id),
         NEW e \in Escrow, e.seller = Locked(p, id).seller, e.deed = Locked(p, id).deed,
         e.buyer = p, escrows' = [escrows EXCEPT ![id] = e],
         deposited' = [deposited EXCEPT ![id] = listings[id].price]
  PROVE  MadeAsListed(id)'
<1>1. listings'[id] = [listings[id] EXCEPT !.active = FALSE] /\ listings[id] \in Listing
  BY EscrowFields DEF Consumed, EscrowTypeOK
<1>2. escrows'[id] = e /\ deposited'[id] = listings[id].price
  BY DEF EscrowTypeOK
<1>3. /\ ~listings'[id].active
      /\ listings'[id].seller = listings[id].seller /\ listings'[id].deed = listings[id].deed
      /\ listings'[id].price = listings[id].price /\ listings'[id].buyer = listings[id].buyer
  BY <1>1 DEF Listing
<1>. QED
  BY <1>2, <1>3 DEF MadeAsListed, MayLock, Locked

\* The deposit is paid out once, to one of the two.
LEMMA OneWayStep ==
  ASSUME EscrowTypeOK, DepositGoesOneWay, [EscrowNext]_escrowVars
  PROVE  DepositGoesOneWay'
<1> USE DEF escrowVars, dealVars
<1>a. \A id \in EscrowIds : GoesOneWay(id)
  BY DEF DepositGoesOneWay, GoesOneWay
<1>1. CASE Aside
  BY <1>1 DEF Aside, DepositGoesOneWay, MadeAsListed
<1>2. ASSUME NEW id \in EscrowIds, UNCHANGED <<escrows, dealVars>>,
             escrows[id].state = "None" \/ ~listings'[id].active,
             NEW l \in Listing, listings' = [listings EXCEPT ![id] = l],
             escrows[id].state = "None" \/ l = [listings[id] EXCEPT !.active = FALSE]
      PROVE  DepositGoesOneWay'
  <2>1. listings'[id] = l /\ \A q \in EscrowIds \ {id} : listings'[q] = listings[q]
    BY <1>2 DEF EscrowTypeOK
  <2>2. escrows[id].state # "None" =>
          /\ l.seller = listings[id].seller /\ l.deed = listings[id].deed
          /\ l.price = listings[id].price /\ l.buyer = listings[id].buyer
    BY <1>2, EscrowFields DEF Listing
  <2>3. GoesOneWay(id)'
    BY <1>a, <1>2, <2>1, <2>2 DEF GoesOneWay, MadeAsListed
  <2>. QED
    BY <1>2, <2>1, <2>3, OthersStay
<1>3. ASSUME NEW id \in EscrowIds, NEW p \in Parties, NEW d \in Deeds, NEW price \in Prices,
             NEW buyer \in Parties \cup {NoParty}, ListDeed(p, id, d, price, buyer)
      PROVE  DepositGoesOneWay'
  BY <1>2, <1>3, EscrowConstants DEF ListDeed, Listing
<1>4. ASSUME NEW id \in EscrowIds, NEW p \in Parties, CancelListing(p, id)
      PROVE  DepositGoesOneWay'
  <2>1. [listings[id] EXCEPT !.active = FALSE] \in Listing
    BY EscrowFields DEF Listing
  <2>2. /\ listings' = [listings EXCEPT ![id] = [listings[id] EXCEPT !.active = FALSE]]
        /\ UNCHANGED <<escrows, dealVars>>
    BY <1>4 DEF CancelListing
  <2>3. ~listings'[id].active
    BY <2>2, EscrowFields DEF EscrowTypeOK, Listing
  <2>. QED
    BY <1>2, <2>1, <2>2, <2>3
<1>5. ASSUME NEW id \in EscrowIds, NEW p \in Parties, LockFunds(p, id)
      PROVE  DepositGoesOneWay'
  <2>1. /\ MayLock(p, id) /\ listings' = Consumed(id)
        /\ escrows' = [escrows EXCEPT ![id] = Locked(p, id)]
        /\ deposited' = [deposited EXCEPT ![id] = listings[id].price]
        /\ UNCHANGED <<paidSeller, paidBuyer, delivered>>
    BY <1>5 DEF LockFunds, Locked
  <2>2. /\ escrows'[id] = Locked(p, id) /\ deposited'[id] = listings[id].price
        /\ \A q \in EscrowIds \ {id} :
             UNCHANGED <<escrows[q], listings[q], deposited[q], paidSeller[q], paidBuyer[q],
                         delivered[q]>>
    BY <2>1 DEF Consumed, EscrowTypeOK
  <2>3. MadeAsListed(id)'
    BY <2>1, LockedType, LockIsAsListed DEF Locked
  <2>4. paidSeller[id] = 0 /\ paidBuyer[id] = 0 /\ delivered[id] = NoParty
    BY <1>a, <2>1 DEF GoesOneWay, MayLock
  <2>5. GoesOneWay(id)'
    BY <2>1, <2>2, <2>3, <2>4 DEF GoesOneWay, Locked
  <2>. QED
    BY <2>2, <2>5, OthersStay
<1>6. ASSUME NEW id \in EscrowIds, NEW p \in Parties, LockAndSettle(p, id)
      PROVE  DepositGoesOneWay'
  <2>. DEFINE e == Locked(p, id)
  <2>1. /\ MayLock(p, id) /\ listings' = Consumed(id)
        /\ deposited' = [deposited EXCEPT ![id] = listings[id].price]
        /\ escrows' = [escrows EXCEPT ![id] = PaidOut(e, "Settled")]
        /\ paidSeller' = [paidSeller EXCEPT ![id] = @ + listings[id].price]
        /\ delivered' = [delivered EXCEPT ![id] = p]
        /\ UNCHANGED paidBuyer
    BY <1>6 DEF LockAndSettle, Exchange, Received, Locked
  <2>2. PaidOut(e, "Settled") \in Escrow
    BY LockedType DEF PaidOut, Escrow, EscrowStates
  <2>3. /\ escrows'[id] = PaidOut(e, "Settled") /\ deposited'[id] = listings[id].price
        /\ paidSeller'[id] = paidSeller[id] + listings[id].price
        /\ delivered'[id] = p
        /\ \A q \in EscrowIds \ {id} :
             UNCHANGED <<escrows[q], listings[q], deposited[q], paidSeller[q], paidBuyer[q],
                         delivered[q]>>
    BY <2>1 DEF Consumed, EscrowTypeOK
  <2>4. MadeAsListed(id)'
    <3>1. /\ PaidOut(e, "Settled").seller = e.seller /\ PaidOut(e, "Settled").deed = e.deed
          /\ PaidOut(e, "Settled").buyer = p
      BY DEF PaidOut, Locked
    <3>. QED
      BY <2>1, <2>2, <3>1, LockIsAsListed
  <2>5. paidSeller[id] = 0 /\ paidBuyer[id] = 0 /\ listings[id].price \in Nat
    BY <1>a, <2>1, EscrowFields DEF GoesOneWay, MayLock, Listing
  <2>6. paidSeller[id] + listings[id].price = listings[id].price
    BY <2>5
  <2>7. /\ escrows'[id].state = "Settled" /\ escrows'[id].amount = 0
        /\ escrows'[id].buyer = p
    BY <2>3 DEF PaidOut, Locked
  <2>8. paidSeller'[id] = deposited'[id] /\ paidBuyer'[id] = 0 /\ delivered'[id] = p
    BY <2>1, <2>3, <2>5, <2>6
  <2>9. GoesOneWay(id)'
    BY <2>4, <2>7, <2>8 DEF GoesOneWay
  <2>. QED
    BY <2>3, <2>9, OthersStay
<1>7. ASSUME NEW id \in EscrowIds, NEW p \in Parties, Settle(p, id)
      PROVE  DepositGoesOneWay'
  <2>. DEFINE e == escrows[id]
  <2>1. /\ e.state = "Locked" /\ e \in Escrow /\ deposited[id] \in Nat
        /\ GoesOneWay(id)
        /\ escrows' = [escrows EXCEPT ![id] = PaidOut(e, "Settled")]
        /\ paidSeller' = [paidSeller EXCEPT ![id] = @ + e.amount]
        /\ delivered' = [delivered EXCEPT ![id] = e.buyer]
        /\ UNCHANGED <<listings, deposited, paidBuyer>>
    BY <1>7, <1>a, EscrowFields DEF Settle, Exchange, Received
  <2>2. /\ escrows'[id] = PaidOut(e, "Settled")
        /\ paidSeller'[id] = paidSeller[id] + e.amount
        /\ delivered'[id] = e.buyer
        /\ \A q \in EscrowIds \ {id} :
             UNCHANGED <<escrows[q], listings[q], deposited[q], paidSeller[q], paidBuyer[q],
                         delivered[q]>>
    BY <2>1 DEF EscrowTypeOK
  <2>3. paidSeller[id] = 0 /\ e.amount = deposited[id] /\ paidBuyer[id] = 0 /\ MadeAsListed(id)
    BY <2>1 DEF GoesOneWay
  <2>4. paidSeller[id] + e.amount = deposited[id]
    BY <2>1, <2>3
  <2>5. /\ escrows'[id].state = "Settled" /\ escrows'[id].amount = 0
        /\ escrows'[id].buyer = e.buyer /\ escrows'[id].seller = e.seller
        /\ escrows'[id].deed = e.deed
    <3>1. /\ PaidOut(e, "Settled").state = "Settled" /\ PaidOut(e, "Settled").amount = 0
          /\ PaidOut(e, "Settled").buyer = e.buyer /\ PaidOut(e, "Settled").seller = e.seller
          /\ PaidOut(e, "Settled").deed = e.deed
      BY <2>1, PaidOutFields
    <3>. HIDE DEF e
    <3>. QED
      BY <2>2, <3>1
  <2>6. MadeAsListed(id)'
    BY <2>1, <2>3, <2>5 DEF MadeAsListed
  <2>7. /\ paidSeller'[id] = deposited'[id] /\ paidBuyer'[id] = 0
        /\ delivered'[id] = escrows'[id].buyer
    BY <2>1, <2>2, <2>3, <2>4, <2>5
  <2>8. GoesOneWay(id)'
    BY <2>5, <2>6, <2>7 DEF GoesOneWay
  <2>. QED
    BY <2>2, <2>8, OthersStay
<1>8. ASSUME NEW id \in EscrowIds, Refund(id)
      PROVE  DepositGoesOneWay'
  <2>. DEFINE e == escrows[id]
  <2>1. /\ e.state = "Locked" /\ e \in Escrow /\ deposited[id] \in Nat
        /\ GoesOneWay(id)
        /\ escrows' = [escrows EXCEPT ![id] = PaidOut(e, "Refunded")]
        /\ paidBuyer' = [paidBuyer EXCEPT ![id] = @ + e.amount]
        /\ UNCHANGED <<listings, deposited, paidSeller, delivered>>
    BY <1>8, <1>a, EscrowFields DEF Refund
  <2>2. /\ escrows'[id] = PaidOut(e, "Refunded")
        /\ paidBuyer'[id] = paidBuyer[id] + e.amount
        /\ \A q \in EscrowIds \ {id} :
             UNCHANGED <<escrows[q], listings[q], deposited[q], paidSeller[q], paidBuyer[q],
                         delivered[q]>>
    BY <2>1 DEF EscrowTypeOK
  <2>3. /\ paidSeller[id] = 0 /\ e.amount = deposited[id] /\ paidBuyer[id] = 0
        /\ delivered[id] = NoParty /\ MadeAsListed(id)
    BY <2>1 DEF GoesOneWay
  <2>4. paidBuyer[id] + e.amount = deposited[id]
    BY <2>1, <2>3
  <2>5. /\ escrows'[id].state = "Refunded" /\ escrows'[id].amount = 0
        /\ escrows'[id].buyer = e.buyer /\ escrows'[id].seller = e.seller
        /\ escrows'[id].deed = e.deed
    <3>1. /\ PaidOut(e, "Refunded").state = "Refunded" /\ PaidOut(e, "Refunded").amount = 0
          /\ PaidOut(e, "Refunded").buyer = e.buyer /\ PaidOut(e, "Refunded").seller = e.seller
          /\ PaidOut(e, "Refunded").deed = e.deed
      BY <2>1, PaidOutFields
    <3>. HIDE DEF e
    <3>. QED
      BY <2>2, <3>1
  <2>6. MadeAsListed(id)'
    BY <2>1, <2>3, <2>5 DEF MadeAsListed
  <2>7. /\ paidBuyer'[id] = deposited'[id] /\ paidSeller'[id] = 0
        /\ delivered'[id] = NoParty
    BY <2>1, <2>2, <2>3, <2>4
  <2>8. GoesOneWay(id)'
    BY <2>5, <2>6, <2>7 DEF GoesOneWay
  <2>. QED
    BY <2>2, <2>8, OthersStay
<1>9. CASE DeedNext \/ EscrowTick \/ UNCHANGED escrowVars
  BY <1>1, <1>9 DEF Aside, DeedNext, Mint, SendDeed, Approve, EscrowTick
<1>. QED
  BY <1>3, <1>4, <1>5, <1>6, <1>7, <1>8, <1>9 DEF EscrowNext, PartyNext

\* A deposit goes one way only: to the seller against the deed, or back.
THEOREM DepositIsSafe == EscrowSpec => []DepositGoesOneWay
<1>1. EscrowInit => DepositGoesOneWay
  BY DEF EscrowInit, DepositGoesOneWay, NoEscrow
<1>. QED
  BY <1>1, EscrowTypes, OneWayStep, PTL DEF EscrowSpec

-----------------------------------------------------------------------------
(* The deal *)

Outline == [id \in EscrowIds |-> [state |-> escrows[id].state, buyer |-> escrows[id].buyer]]

\* Every step of the escrow makes a deal, ends one, or changes none.
LEMMA DealStep ==
  ASSUME EscrowTypeOK, [EscrowNext]_escrowVars
  PROVE  [Deal!DealNext]_Outline
<1> USE DEF escrowVars, dealVars
<1>1. CASE UNCHANGED escrows
  BY <1>1 DEF Outline
<1>2. ASSUME NEW id \in EscrowIds, NEW e \in Escrow, escrows' = [escrows EXCEPT ![id] = e]
      PROVE  Outline' = [Outline EXCEPT ![id] = [state |-> e.state, buyer |-> e.buyer]]
  BY <1>2 DEF Outline, EscrowTypeOK
<1>3. ASSUME NEW id \in EscrowIds, NEW p \in Parties, NEW e \in Escrow,
             escrows[id].state = "None", e.state \in {"Locked", "Settled"}, e.buyer = p,
             escrows' = [escrows EXCEPT ![id] = e]
      PROVE  Deal!DealNext
  <2>1. Outline' = [Outline EXCEPT ![id] = Deal!Deal(e.state, p)]
    BY <1>2, <1>3 DEF Deal!Deal
  <2>2. Outline[id].state = "None"
    BY <1>3 DEF Outline
  <2>3. Deal!Make(id, p)
    BY <1>3, <2>1, <2>2 DEF Deal!Make, Outline
  <2>. QED
    BY <2>3 DEF Deal!DealNext
<1>4. ASSUME NEW id \in EscrowIds, NEW state \in {"Settled", "Refunded"},
             escrows[id].state = "Locked",
             escrows' = [escrows EXCEPT ![id] = PaidOut(escrows[id], state)]
      PROVE  Deal!DealNext
  <2>1. /\ escrows[id] \in Escrow /\ PaidOut(escrows[id], state) \in Escrow
        /\ PaidOut(escrows[id], state).state = state
        /\ PaidOut(escrows[id], state).buyer = escrows[id].buyer
    BY EscrowFields DEF PaidOut, Escrow, EscrowStates
  <2>2. Outline' = [Outline EXCEPT ![id] = [state |-> state, buyer |-> escrows[id].buyer]]
    BY <1>2, <1>4, <2>1
  <2>3. Outline[id] = [state |-> "Locked", buyer |-> escrows[id].buyer]
    BY <1>4 DEF Outline
  <2>4. Outline' = [Outline EXCEPT ![id].state = state] /\ Outline[id].state = "Locked"
    BY <2>2, <2>3 DEF Outline
  <2>5. Deal!End(id)
    BY <2>4 DEF Deal!End, Outline
  <2>. QED
    BY <2>5 DEF Deal!DealNext
<1>5. ASSUME NEW id \in EscrowIds, NEW p \in Parties, LockFunds(p, id)
      PROVE  Deal!DealNext
  <2>1. /\ escrows[id].state = "None" /\ escrows' = [escrows EXCEPT ![id] = Locked(p, id)]
        /\ Locked(p, id).state = "Locked" /\ Locked(p, id).buyer = p
    BY <1>5 DEF LockFunds, MayLock, Locked
  <2>. QED
    BY <1>3, <2>1, LockedType
<1>6. ASSUME NEW id \in EscrowIds, NEW p \in Parties, LockAndSettle(p, id)
      PROVE  Deal!DealNext
  <2>. DEFINE e == PaidOut(Locked(p, id), "Settled")
  <2>1. /\ escrows[id].state = "None" /\ escrows' = [escrows EXCEPT ![id] = e]
    BY <1>6 DEF LockAndSettle, Exchange, MayLock
  <2>2. e \in Escrow /\ e.state = "Settled" /\ e.buyer = p
    BY LockedType DEF PaidOut, Escrow, EscrowStates, Locked
  <2>. HIDE DEF e
  <2>. QED
    BY <1>3, <2>1, <2>2
<1>7. ASSUME NEW id \in EscrowIds, NEW p \in Parties, Settle(p, id)
      PROVE  Deal!DealNext
  BY <1>4, <1>7 DEF Settle, Exchange
<1>8. ASSUME NEW id \in EscrowIds, Refund(id)
      PROVE  Deal!DealNext
  BY <1>4, <1>8 DEF Refund
<1>9. ASSUME NEW id \in EscrowIds, NEW p \in Parties,
             \/ \E d \in Deeds, price \in Prices, buyer \in Parties \cup {NoParty} :
                   ListDeed(p, id, d, price, buyer)
             \/ CancelListing(p, id)
      PROVE  UNCHANGED escrows
  BY <1>9 DEF ListDeed, CancelListing
<1>10. CASE DeedNext \/ EscrowTick \/ UNCHANGED escrowVars
  BY <1>1, <1>10 DEF DeedNext, Mint, SendDeed, Approve, EscrowTick
<1>. QED
  BY <1>1, <1>5, <1>6, <1>7, <1>8, <1>9, <1>10 DEF EscrowNext, PartyNext

\* To those who watch it the escrow is a deal per id, made once and ended once.
THEOREM KeepsDeals == EscrowSpec => ImplementsDeal
<1>1. EscrowInit => Deal!DealInit
  BY DEF EscrowInit, Deal!DealInit, Deal!NoDeal, NoEscrow
<1>2. EscrowTypeOK /\ [EscrowNext]_escrowVars => [Deal!DealNext]_Outline
  BY DealStep
<1>3. EscrowSpec => [][Deal!DealNext]_Outline
  BY <1>2, EscrowTypes, PTL DEF EscrowSpec
<1>. QED
  BY <1>1, <1>3, PTL DEF EscrowSpec, ImplementsDeal, Deal!DealSpec, Outline
=============================================================================

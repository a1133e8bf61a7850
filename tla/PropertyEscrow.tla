---------------------------- MODULE PropertyEscrow ----------------------------
(***************************************************************************)
(* The escrow a deed is sold through: a listing by the deed's owner, a     *)
(* buyer's deposit under it, and either the exchange of deed for deposit or *)
(* the deposit's return after a deadline.                                  *)
(*                                                                         *)
(* A transaction is one step; one that reverts is none, and so is one whose *)
(* receiver of ETH or deed refuses.  What a receiver does from within its  *)
(* call is a step after it: lock, settle and refund are nonReentrant, and  *)
(* listing touches nothing they have yet to read.  ETH forced into the     *)
(* contract by other means is left out: nothing reads its balance.         *)
(***************************************************************************)
EXTENDS Integers

CONSTANTS
  Parties,
  NoParty,          \* address(0)
  Deeds,           \* deed tokens, each of some deed contract
  RogueDeeds,      \* those of contracts whose transferFrom may silently do nothing
  EscrowIds,
  Prices,          \* amounts of wei listed or sent
  LockTimeout,
  MaxEscrowTime    \* bound

ASSUME EscrowConstants ==
  /\ NoParty \notin Parties
  /\ RogueDeeds \subseteq Deeds
  /\ Prices \subseteq Nat
  /\ LockTimeout \in Nat \ {0}
  /\ MaxEscrowTime \in Nat

VARIABLES
  escrowTime,      \* block.timestamp
  holder,          \* ownerOf, NoParty before the mint
  approvals,       \* deeds (approve) and parties (setApprovalForAll) cleared for the escrow
  listings, escrows,
  escrowBalance,   \* address(this).balance
  \* bookkeeping, per escrow id
  deposited, paidSeller, paidBuyer,
  delivered        \* who held the deed when the seller was paid

dealVars == <<deposited, paidSeller, paidBuyer, delivered>>
escrowVars == <<escrowTime, holder, approvals, listings, escrows, escrowBalance, dealVars>>

EscrowStates == {"None", "Locked", "Settled", "Refunded"}

NoListing == [seller |-> NoParty, deed |-> NoParty, price |-> 0, buyer |-> NoParty, active |-> FALSE]
NoEscrow == [buyer |-> NoParty, seller |-> NoParty, deed |-> NoParty, amount |-> 0,
             deadline |-> 0, state |-> "None"]

EscrowInit ==
  /\ escrowTime = 1
  /\ holder = [d \in Deeds |-> NoParty]
  /\ approvals = {}
  /\ listings = [id \in EscrowIds |-> NoListing]
  /\ escrows = [id \in EscrowIds |-> NoEscrow]
  /\ escrowBalance = 0
  /\ deposited = [id \in EscrowIds |-> 0]
  /\ paidSeller = [id \in EscrowIds |-> 0]
  /\ paidBuyer = [id \in EscrowIds |-> 0]
  /\ delivered = [id \in EscrowIds |-> NoParty]

-----------------------------------------------------------------------------
(* The deed token, as its holders use it outside the escrow *)

Mint(d, to) ==
  /\ holder[d] = NoParty
  /\ holder' = [holder EXCEPT ![d] = to]
  /\ UNCHANGED <<escrowTime, approvals, listings, escrows, escrowBalance, dealVars>>

\* A transfer clears the token's own approval, not its former holder's for all.
SendDeed(p, d, to) ==
  /\ holder[d] = p
  /\ holder' = [holder EXCEPT ![d] = to]
  /\ approvals' = approvals \ {d}
  /\ UNCHANGED <<escrowTime, listings, escrows, escrowBalance, dealVars>>

Approve(p, d) ==
  /\ holder[d] = p
  /\ \E cleared \in {{d}, {p}} :
        approvals' = approvals \cup cleared \/ approvals' = approvals \ cleared
  /\ UNCHANGED <<escrowTime, holder, listings, escrows, escrowBalance, dealVars>>

-----------------------------------------------------------------------------
(* Listing *)

ListDeed(p, id, d, price, buyer) ==
  /\ price > 0
  /\ ~listings[id].active
  /\ escrows[id].state = "None"
  /\ holder[d] = p
  /\ listings' = [listings EXCEPT ![id] =
       [seller |-> p, deed |-> d, price |-> price, buyer |-> buyer, active |-> TRUE]]
  /\ UNCHANGED <<escrowTime, holder, approvals, escrows, escrowBalance, dealVars>>

CancelListing(p, id) ==
  /\ listings[id].active
  /\ listings[id].seller = p
  /\ listings' = [listings EXCEPT ![id].active = FALSE]
  /\ UNCHANGED <<escrowTime, holder, approvals, escrows, escrowBalance, dealVars>>

-----------------------------------------------------------------------------
(* Deposit, exchange, return *)

Locked(p, id) ==
  [buyer |-> p, seller |-> listings[id].seller, deed |-> listings[id].deed,
   amount |-> listings[id].price, deadline |-> escrowTime + LockTimeout, state |-> "Locked"]

\* _lock: msg.value is the listed price, seller and deed are the listing's.  The
\* first conjunct keeps the deadline within the bound on time.
MayLock(p, id) ==
  /\ escrowTime + LockTimeout < MaxEscrowTime
  /\ escrows[id].state = "None"
  /\ listings[id].active
  /\ listings[id].seller # p
  /\ listings[id].price > 0
  /\ listings[id].buyer \in {NoParty, p}

Consumed(id) == [listings EXCEPT ![id].active = FALSE]

Unconsumed(id) == listings  \* mutant: the lock leaves the listing active

LockFunds(p, id) ==
  /\ MayLock(p, id)
  /\ listings' = Consumed(id)
  /\ escrows' = [escrows EXCEPT ![id] = Locked(p, id)]
  /\ escrowBalance' = escrowBalance + Locked(p, id).amount
  /\ deposited' = [deposited EXCEPT ![id] = Locked(p, id).amount]
  /\ UNCHANGED <<escrowTime, holder, approvals, paidSeller, paidBuyer, delivered>>

\* transferFrom: a conforming contract moves the deed if the seller holds it and
\* has cleared the escrow for it, and else reverts.
TransferFrom(d, from, to) ==
  \/ /\ d \in RogueDeeds
     /\ UNCHANGED <<holder, approvals>>
  \/ /\ holder[d] = from
     /\ d \in approvals \/ from \in approvals
     /\ holder' = [holder EXCEPT ![d] = to]
     /\ approvals' = approvals \ {d}

ReceivedUnproved(holders, d, to) == TRUE  \* mutant: transferFrom is believed

\* _settle's "Deed not received": ownerOf is asked after the transfer.
Received(holders, d, to) == holders[d] = to

PaidOutDeleted(e, state) == NoEscrow  \* mutant: the record is deleted for its gas

PaidOut(e, state) == [e EXCEPT !.state = state, !.amount = 0]

\* _settle, of a deposit e just made or made before; in is what comes with the call.
Exchange(id, e, in) ==
  /\ TransferFrom(e.deed, e.seller, e.buyer)
  /\ Received(holder', e.deed, e.buyer)
  /\ escrowBalance + in >= e.amount
  /\ escrowBalance' = escrowBalance + in - e.amount
  /\ escrows' = [escrows EXCEPT ![id] = PaidOut(e, "Settled")]
  /\ paidSeller' = [paidSeller EXCEPT ![id] = @ + e.amount]
  /\ delivered' = [delivered EXCEPT ![id] = holder'[e.deed]]
  /\ UNCHANGED <<escrowTime, paidBuyer>>

LockAndSettle(p, id) ==
  /\ MayLock(p, id)
  /\ listings' = Consumed(id)
  /\ deposited' = [deposited EXCEPT ![id] = Locked(p, id).amount]
  /\ Exchange(id, Locked(p, id), Locked(p, id).amount)

Settle(p, id) ==
  /\ escrows[id].buyer = p
  /\ escrows[id].state = "Locked"
  /\ Exchange(id, escrows[id], 0)
  /\ UNCHANGED <<listings, deposited>>

BeforeDeadline(e) == escrowTime < e.deadline  \* mutant: the comparison is turned round

PastDeadline(e) == escrowTime > e.deadline

Refund(id) ==
  LET e == escrows[id] IN
  /\ e.state = "Locked"
  /\ PastDeadline(e)
  /\ escrowBalance >= e.amount
  /\ escrowBalance' = escrowBalance - e.amount
  /\ escrows' = [escrows EXCEPT ![id] = PaidOut(e, "Refunded")]
  /\ paidBuyer' = [paidBuyer EXCEPT ![id] = @ + e.amount]
  /\ UNCHANGED <<escrowTime, holder, approvals, listings, deposited, paidSeller, delivered>>

EscrowTick ==
  /\ escrowTime < MaxEscrowTime
  /\ escrowTime' = escrowTime + 1
  /\ UNCHANGED <<holder, approvals, listings, escrows, escrowBalance, dealVars>>

DeedNext ==
  \E d \in Deeds, p \in Parties :
     \/ Mint(d, p)
     \/ \E to \in Parties : SendDeed(p, d, to)
     \/ Approve(p, d)

PartyNext ==
  \E id \in EscrowIds, p \in Parties :
     \/ \E d \in Deeds, price \in Prices, buyer \in Parties \cup {NoParty} :
           ListDeed(p, id, d, price, buyer)
     \/ CancelListing(p, id)
     \/ LockFunds(p, id)
     \/ LockAndSettle(p, id)
     \/ Settle(p, id)

EscrowNext ==
  \/ DeedNext
  \/ PartyNext
  \/ \E id \in EscrowIds : Refund(id)
  \/ EscrowTick

\* Blocks go on, and a buyer who can have a deposit back asks for it and takes it.
EscrowFairness ==
  /\ WF_escrowVars(EscrowTick)
  /\ \A id \in EscrowIds : WF_escrowVars(Refund(id))

EscrowSpec == EscrowInit /\ [][EscrowNext]_escrowVars /\ EscrowFairness
-----------------------------------------------------------------------------
(* Properties *)

Deal == INSTANCE EscrowDeal WITH
  deals <- [id \in EscrowIds |-> [state |-> escrows[id].state, buyer |-> escrows[id].buyer]]

Listing == [seller : Parties \cup {NoParty}, deed : Deeds \cup {NoParty}, price : Nat,
            buyer : Parties \cup {NoParty}, active : BOOLEAN]
Escrow == [buyer : Parties \cup {NoParty}, seller : Parties \cup {NoParty},
           deed : Deeds \cup {NoParty}, amount : Nat, deadline : Nat, state : EscrowStates]

EscrowTypeOK ==
  /\ escrowTime \in Nat
  /\ holder \in [Deeds -> Parties \cup {NoParty}]
  /\ approvals \subseteq Deeds \cup Parties
  /\ listings \in [EscrowIds -> Listing]
  /\ escrows \in [EscrowIds -> Escrow]
  /\ escrowBalance \in Nat
  /\ deposited \in [EscrowIds -> Nat]
  /\ paidSeller \in [EscrowIds -> Nat]
  /\ paidBuyer \in [EscrowIds -> Nat]
  /\ delivered \in [EscrowIds -> Parties \cup {NoParty}]

\* A deposit is made at the price its seller listed, by somebody the listing
\* admits, and the listing is spent.
MadeAsListed(id) ==
  LET e == escrows[id]
      l == listings[id]
  IN
  /\ ~l.active
  /\ e.seller = l.seller /\ e.deed = l.deed /\ e.seller # e.buyer
  /\ l.buyer \in {NoParty, e.buyer}
  /\ deposited[id] = l.price /\ l.price > 0

\* "All-or-nothing" and "no function that can move a buyer's locked funds
\* anywhere except (a) to the seller ... or (b) back to the buyer": a deposit is
\* in the escrow, or was paid to the seller once, the buyer then holding the
\* deed, or returned to the buyer once; and was made as the seller listed.
DepositGoesOneWay ==
  \A id \in EscrowIds :
     LET e == escrows[id] IN
     /\ e.state # "None" => MadeAsListed(id)
     /\ paidSeller[id] = IF e.state = "Settled" THEN deposited[id] ELSE 0
     /\ paidBuyer[id] = IF e.state = "Refunded" THEN deposited[id] ELSE 0
     /\ e.amount = IF e.state = "Locked" THEN deposited[id] ELSE 0
     /\ delivered[id] = IF e.state = "Settled" THEN e.buyer ELSE NoParty

\* What the service relies on: an escrow id is one deal, of one buyer, that ends
\* once.
ImplementsDeal == Deal!DealSpec

\* No deposit is ever stuck: whatever becomes of the deed and its approval, and
\* whatever the seller does, its buyer has the deed or the money in the end.
MoneyComesBack ==
  \A id \in EscrowIds : escrows[id].state = "Locked" ~> escrows[id].state # "Locked"
=============================================================================

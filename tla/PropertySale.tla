----------------------------- MODULE PropertySale -----------------------------
(***************************************************************************)
(* The platform's record of a property sale, kept beside the escrow the    *)
(* sale is made through.  The service prepares a purchase, reads the chain *)
(* for its settlement, and walks an escrow row through                     *)
(*   initiated, funds_locked, settled, offchain_recording_pending, complete *)
(* or to refunded; the property's listing follows.                         *)
(*                                                                         *)
(* No request waits for anything once it is begun: there is one at a time, *)
(* and _settling is empty whenever one begins.  But it is of several       *)
(* statements, and may fail at any of them or die with the process; the    *)
(* rows written so far stay.  The chain moves at any time.                 *)
(*                                                                         *)
(* The contract is what it looks like from here, a deal per escrow id      *)
(* (EscrowDeal).  A purchase's readiness is either verdict.  Left out are  *)
(* history, attestation references and hashes of an escrow row.            *)
(***************************************************************************)
EXTENDS EscrowDeal

CONSTANTS
  Properties,
  Deeds,
  NoDeed,          \* deed_token_id before the mint
  Chosen           \* statuses update_listing_status is asked for, of Statuses

VARIABLES
  properties,      \* re_properties: status, deed and seller of each
  records,         \* re_escrows: state, property and buyer, and whether a caller knows the id
  task             \* the request in progress: its escrow and what it writes next

recordVars == <<properties, records, task>>
saleVars == <<deals, recordVars>>

Statuses == {"draft", "listed", "under_escrow", "sold", "delisted"}

ASSUME StatusesAreKnown == Chosen \subseteq Statuses

\* VALID_TRANSITIONS
ValidTransitions ==
  [initiated |-> {"funds_locked", "refunded"},
   funds_locked |-> {"settled", "refunded"},
   settled |-> {"offchain_recording_pending"},
   offchain_recording_pending |-> {"complete"},
   complete |-> {},
   refunded |-> {}]

RecordStates == DOMAIN ValidTransitions

NoProperty == [status |-> "draft", deed |-> NoDeed, seller |-> NoParty]
NoRecord == [state |-> "none", property |-> NoParty, buyer |-> NoParty, known |-> FALSE]
NoTask == [record |-> NoParty, next |-> "nothing"]

SaleInit ==
  /\ DealInit
  /\ properties = [h \in Properties |-> NoProperty]
  /\ records = [id \in EscrowIds |-> NoRecord]
  /\ task = NoTask

Filed(h) == properties[h].seller # NoParty

\* transition_escrow writes the new state, whatever the state is.
Transition(id, state) == records' = [records EXCEPT ![id].state = state]

Continue(id, next) == task' = [record |-> id, next |-> next]

-----------------------------------------------------------------------------
(* create_property, update_listing_status, and the operator's deed *)

CreateProperty(p, h) ==
  /\ task = NoTask /\ ~Filed(h)
  /\ properties' = [properties EXCEPT ![h].seller = p]
  /\ UNCHANGED <<deals, records, task>>

UpdateListingStatus(h, status) ==
  /\ task = NoTask /\ Filed(h)
  /\ properties' = [properties EXCEPT ![h].status = status]
  /\ UNCHANGED <<deals, records, task>>

AssignDeed(h, d) ==
  /\ task = NoTask /\ Filed(h)
  /\ properties' = [properties EXCEPT ![h].deed = d]
  /\ UNCHANGED <<deals, records, task>>

\* The last statement of a purchase, a confirmation or a refund.  A purchase's
\* caller learns the id from the answer, if it comes.
WriteProperty ==
  /\ task.next \in {"under_escrow", "sold", "listed"}
  /\ properties' = [properties EXCEPT ![records[task.record].property].status = task.next]
  /\ \E answered \in BOOLEAN :
        records' = [records EXCEPT ![task.record].known = @ \/ answered]
  /\ task' = NoTask
  /\ UNCHANGED deals

-----------------------------------------------------------------------------
(* execute_purchase *)

\* Without blockers: with some, nothing is written.  What follows rewrites the
\* row as initiated, and then the listing.
Purchase(p, h, id) ==
  /\ task = NoTask /\ Filed(h)
  /\ properties[h].status = "listed"
  /\ properties[h].deed # NoDeed
  /\ records[id] = NoRecord
  /\ records' = [records EXCEPT ![id] =
       [state |-> "initiated", property |-> h, buyer |-> p, known |-> FALSE]]
  /\ Continue(id, "under_escrow")
  /\ UNCHANGED <<deals, properties>>

-----------------------------------------------------------------------------
(* confirm_settlement *)

ConfirmableAgain(id) == TRUE  \* mutant: the record's state is not looked at

Confirmable(id) == records[id].state = "initiated"

ReceiptOfLock(id) ==  \* mutant: the event may be another of the escrow's
  /\ deals[id].state # "None"
  /\ deals[id].buyer = records[id].buyer

\* _receipt_settles_escrow: a receipt with this escrow's Settled event to its
\* buyer exists once the contract settled it so.
ReceiptSettles(id) ==
  /\ deals[id].state = "Settled"
  /\ deals[id].buyer = records[id].buyer

\* With any other transaction, or one not mined, nothing is written.
ConfirmSettlement(id) ==
  /\ task = NoTask
  /\ records[id].known
  /\ Confirmable(id)
  /\ ReceiptSettles(id)
  /\ Transition(id, "funds_locked")
  /\ Continue(id, "settled")
  /\ UNCHANGED <<deals, properties>>

\* What a confirmation writes after each state of the record.
After(state) ==
  CASE state = "settled" -> "offchain_recording_pending"
    [] state = "offchain_recording_pending" -> "sold"

Advance ==
  /\ task.next \in {"settled", "offchain_recording_pending"}
  /\ Transition(task.record, task.next)
  /\ Continue(task.record, After(task.next))
  /\ UNCHANGED <<deals, properties>>

-----------------------------------------------------------------------------
(* mark_recording_complete, refund_escrow *)

\* _assert_transition
MayBecome(id, state) ==
  /\ records[id].known
  /\ state \in ValidTransitions[records[id].state]

MarkRecordingComplete(id) ==
  /\ task = NoTask
  /\ MayBecome(id, "complete")
  /\ Transition(id, "complete")
  /\ UNCHANGED <<deals, properties, task>>

RefundEscrow(id) ==
  /\ task = NoTask
  /\ MayBecome(id, "refunded")
  /\ Transition(id, "refunded")
  /\ Continue(id, "listed")
  /\ UNCHANGED <<deals, properties>>

-----------------------------------------------------------------------------

\* The next statement fails, or the process dies.
CutShort ==
  /\ task # NoTask
  /\ task' = NoTask
  /\ UNCHANGED <<deals, properties, records>>

ServiceNext ==
  \/ \E h \in Properties :
        \/ \E p \in Parties : CreateProperty(p, h)
        \/ \E status \in Chosen : UpdateListingStatus(h, status)
        \/ \E d \in Deeds : AssignDeed(h, d)
        \/ \E p \in Parties, id \in EscrowIds : Purchase(p, h, id)
  \/ \E id \in EscrowIds :
        ConfirmSettlement(id) \/ MarkRecordingComplete(id) \/ RefundEscrow(id)
  \/ Advance \/ WriteProperty \/ CutShort

SaleNext ==
  \/ ServiceNext
  \/ DealNext /\ UNCHANGED recordVars

SaleSpec == SaleInit /\ [][SaleNext]_saleVars
-----------------------------------------------------------------------------
(* Properties *)

Property == [status : Statuses, deed : Deeds \cup {NoDeed}, seller : Parties \cup {NoParty}]
Record == [state : RecordStates \cup {"none"}, property : Properties \cup {NoParty},
           buyer : Parties \cup {NoParty}, known : BOOLEAN]
Task == [record : EscrowIds,
         next : {"settled", "offchain_recording_pending", "under_escrow", "sold", "listed"}]

SaleTypeOK ==
  /\ properties \in [Properties -> Property]
  /\ records \in [EscrowIds -> Record]
  /\ task \in Task \cup {NoTask}

Sold == {"settled", "offchain_recording_pending", "complete"}

\* "An arbitrary successful tx is NOT accepted - that would fabricate a sale":
\* a record says sold only of an escrow that the contract settled, and to the
\* buyer on record.
SoldMeansSettled ==
  \A id \in EscrowIds :
     records[id].state \in Sold =>
        /\ deals[id].state = "Settled"
        /\ deals[id].buyer = records[id].buyer

\* "The ONLY legal transitions": a record goes where VALID_TRANSITIONS says,
\* though a confirmation walks it without asserting any, may have been cut short
\* at any state of the walk, and is asked for again.
LegalTransitions ==
  [][\A id \in EscrowIds :
        records[id].state \in RecordStates =>
          records'[id].state \in ValidTransitions[records[id].state] \cup {records[id].state}]_saleVars
=============================================================================

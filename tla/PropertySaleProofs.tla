-------------------------- MODULE PropertySaleProofs --------------------------
(* What a record of a sale says is what the chain settled, and records move   *)
(* by legal transitions only, for any parties, properties and escrows,        *)
(* wherever requests are cut short.                                           *)
EXTENDS PropertySale, TLAPS

DealStates == {"None", "Locked", "Settled", "Refunded"}

DealsTyped == deals \in [EscrowIds -> [state : DealStates, buyer : Parties \cup {NoParty}]]

\* The chain settled the escrow, and to the buyer on record: once so, for good.
SettledToBuyer(id) == deals[id].state = "Settled" /\ deals[id].buyer = records[id].buyer

\* What a row tells, whatever was cut short.
RecordSound(id) ==
  /\ records[id].state \in Sold => SettledToBuyer(id)
  /\ records[id].known => records[id].state # "none"
  /\ records[id].state # "none" => records[id].property \in Properties

\* What a request in progress has written tells what it may write next.
TaskSound ==
  /\ task # NoTask => records[task.record].state # "none"
  /\ task.next = "settled" =>
       records[task.record].state = "funds_locked" /\ SettledToBuyer(task.record)
  /\ task.next = "offchain_recording_pending" => records[task.record].state = "settled"

\* The inductive invariant.
SaleInv ==
  /\ SaleTypeOK
  /\ DealsTyped
  /\ \A id \in EscrowIds : RecordSound(id)
  /\ TaskSound

-----------------------------------------------------------------------------
(* Lemmas *)

\* The transitions, state by state.
LEMMA Transitions ==
  /\ RecordStates = {"initiated", "funds_locked", "settled", "offchain_recording_pending",
                     "complete", "refunded"}
  /\ ValidTransitions["initiated"] = {"funds_locked", "refunded"}
  /\ ValidTransitions["funds_locked"] = {"settled", "refunded"}
  /\ ValidTransitions["settled"] = {"offchain_recording_pending"}
  /\ ValidTransitions["offchain_recording_pending"] = {"complete"}
  /\ ValidTransitions["complete"] = {}
  /\ ValidTransitions["refunded"] = {}
  BY DEF RecordStates, ValidTransitions

\* The types of the parts.
LEMMA Parts ==
  ASSUME SaleInv
  PROVE  /\ properties \in [Properties -> Property]
         /\ records \in [EscrowIds -> Record]
         /\ \A id \in EscrowIds : records[id] \in Record /\ RecordSound(id)
         /\ task \in Task \cup {NoTask}
         /\ NoTask.next = "nothing"
         /\ DealsTyped /\ TaskSound
  BY DEF SaleInv, SaleTypeOK, NoTask

\* A request in progress is about an escrow on record.
LEMMA InProgress ==
  ASSUME SaleInv, task.next # "nothing"
  PROVE  /\ task \in Task /\ task.record \in EscrowIds
         /\ records[task.record] \in Record /\ RecordSound(task.record)
         /\ records[task.record].state # "none"
         /\ records[task.record].property \in Properties
<1>1. task # NoTask /\ task \in Task
  BY Parts DEF NoTask
<1>2. task.record \in EscrowIds
  BY <1>1 DEF Task
<1>. QED
  BY <1>1, <1>2, Parts DEF TaskSound, RecordSound

\* A row that moves to another state leaves the others as they are.
LEMMA TransitionTypes ==
  ASSUME SaleInv, NEW id \in EscrowIds, NEW state \in RecordStates, Transition(id, state)
  PROVE  /\ records' \in [EscrowIds -> Record]
         /\ records'[id].state = state /\ records'[id].buyer = records[id].buyer
         /\ records'[id].property = records[id].property /\ records'[id].known = records[id].known
         /\ \A e \in EscrowIds \ {id} : records'[e] = records[e]
<1>1. records \in [EscrowIds -> Record] /\ records[id] \in Record
  BY Parts
<1>2. [records[id] EXCEPT !.state = state] \in Record
  BY <1>1 DEF Record
<1>. QED
  BY <1>1, <1>2 DEF Transition, Record

\* A row in its new state, and what the request means to write after it, are all
\* there is to show of a transition.
LEMMA TransitionKeeps ==
  ASSUME SaleInv, NEW id \in EscrowIds, NEW state \in RecordStates, Transition(id, state),
         UNCHANGED <<deals, properties>>,
         records[id].state # "none",
         state \in Sold => SettledToBuyer(id),
         task' \in Task \cup {NoTask}, TaskSound'
  PROVE  SaleInv'
<1>1. SaleTypeOK' /\ DealsTyped'
  BY TransitionTypes, Parts DEF SaleTypeOK, DealsTyped
<1>2. ASSUME NEW e \in EscrowIds PROVE RecordSound(e)'
  <2>1. CASE e = id
    <3>1. state # "none"
      BY Transitions
    <3>. QED
      BY <2>1, <3>1, TransitionTypes, Parts DEF RecordSound, SettledToBuyer
  <2>2. CASE e # id
    BY <2>2, TransitionTypes, Parts DEF RecordSound, SettledToBuyer
  <2>. QED
    BY <2>1, <2>2
<1>. QED
  BY <1>1, <1>2 DEF SaleInv

-----------------------------------------------------------------------------
(* The steps *)

\* Properties filed, listed and given a deed, and requests cut short, leave the
\* records alone.
LEMMA ListingStep ==
  ASSUME SaleInv, NEW h \in Properties,
         \/ \E p \in Parties : CreateProperty(p, h)
         \/ \E status \in Chosen : UpdateListingStatus(h, status)
         \/ \E d \in Deeds : AssignDeed(h, d)
  PROVE  SaleInv'
<1>1. properties \in [Properties -> Property] /\ properties[h] \in Property
  BY Parts
<1>2. properties' \in [Properties -> Property]
  <2>1. ASSUME NEW p \in Parties, CreateProperty(p, h) PROVE properties' \in [Properties -> Property]
    <3>1. [properties[h] EXCEPT !.seller = p] \in Property
      BY <1>1 DEF Property
    <3>. QED
      BY <1>1, <2>1, <3>1 DEF CreateProperty
  <2>2. ASSUME NEW status \in Chosen, UpdateListingStatus(h, status)
        PROVE  properties' \in [Properties -> Property]
    <3>1. [properties[h] EXCEPT !.status = status] \in Property
      BY <1>1, StatusesAreKnown DEF Property
    <3>. QED
      BY <1>1, <2>2, <3>1 DEF UpdateListingStatus
  <2>3. ASSUME NEW d \in Deeds, AssignDeed(h, d) PROVE properties' \in [Properties -> Property]
    <3>1. [properties[h] EXCEPT !.deed = d] \in Property
      BY <1>1 DEF Property
    <3>. QED
      BY <1>1, <2>3, <3>1 DEF AssignDeed
  <2>. QED
    BY <2>1, <2>2, <2>3
<1>3. UNCHANGED <<deals, records, task>>
  BY DEF CreateProperty, UpdateListingStatus, AssignDeed
<1>. QED
  BY <1>2, <1>3 DEF SaleInv, SaleTypeOK, DealsTyped, RecordSound, TaskSound, SettledToBuyer

\* The listing a request leaves behind; a purchase's caller learns the id of a
\* record that exists.
LEMMA WriteStep ==
  ASSUME SaleInv, WriteProperty
  PROVE  SaleInv'
<1>. DEFINE id == task.record
            h == records[task.record].property
<1>1. id \in EscrowIds /\ records[id] \in Record /\ h \in Properties
      /\ records[id].state # "none" /\ task.next \in {"under_escrow", "sold", "listed"}
  BY InProgress DEF WriteProperty
<1>2. [properties[h] EXCEPT !.status = task.next] \in Property
  BY <1>1, Parts DEF Property, Statuses
<1>3. properties' \in [Properties -> Property]
  BY <1>1, <1>2, Parts DEF WriteProperty
<1>4. PICK answered \in BOOLEAN :
        records' = [records EXCEPT ![id].known = @ \/ answered]
  BY DEF WriteProperty
<1>. HIDE DEF id, h
<1>5. [records[id] EXCEPT !.known = records[id].known \/ answered] \in Record
  <2>1. (records[id].known \/ answered) \in BOOLEAN
    BY Zenon
  <2>. QED
    BY <1>1, <2>1 DEF Record
<1>6. records' = [records EXCEPT ![id] = [records[id] EXCEPT !.known = records[id].known \/ answered]]
  BY <1>4
<1>7. /\ records' \in [EscrowIds -> Record]
      /\ \A e \in EscrowIds :
           /\ records'[e].state = records[e].state /\ records'[e].buyer = records[e].buyer
           /\ records'[e].property = records[e].property
           /\ e # id => records'[e] = records[e]
  BY <1>1, <1>5, <1>6, Parts DEF Record
<1>8. task' = NoTask /\ UNCHANGED deals
  BY DEF WriteProperty
<1>9. ASSUME NEW e \in EscrowIds PROVE RecordSound(e)'
  BY <1>1, <1>7, <1>8, Parts DEF RecordSound, SettledToBuyer
<1>10. TaskSound'
  BY <1>8, Parts DEF TaskSound
<1>. QED
  BY <1>3, <1>7, <1>8, <1>9, <1>10, Parts DEF SaleInv, SaleTypeOK, DealsTyped

\* A purchase files a record that nobody knows of yet.
LEMMA PurchaseStep ==
  ASSUME SaleInv, NEW p \in Parties, NEW h \in Properties, NEW id \in EscrowIds, Purchase(p, h, id)
  PROVE  SaleInv'
<1>. DEFINE row == [state |-> "initiated", property |-> h, buyer |-> p, known |-> FALSE]
            n == [record |-> id, next |-> "under_escrow"]
<1>1. row \in Record /\ row.state = "initiated" /\ row.property = h /\ ~row.known
  BY Transitions DEF Record
<1>2. n \in Task /\ n.record = id /\ n.next = "under_escrow"
  BY DEF Task
<1>3. records' = [records EXCEPT ![id] = row] /\ task' = n /\ UNCHANGED <<deals, properties>>
  BY DEF Purchase, Continue
<1>. HIDE DEF row, n
<1>4. /\ records' \in [EscrowIds -> Record] /\ records'[id] = row
      /\ \A e \in EscrowIds \ {id} : records'[e] = records[e]
  BY <1>1, <1>3, Parts
<1>5. ASSUME NEW e \in EscrowIds PROVE RecordSound(e)'
  BY <1>1, <1>3, <1>4, Parts DEF RecordSound, SettledToBuyer, Sold
<1>6. TaskSound'
  BY <1>1, <1>2, <1>3, <1>4 DEF TaskSound
<1>. QED
  BY <1>2, <1>3, <1>4, <1>5, <1>6, Parts DEF SaleInv, SaleTypeOK, DealsTyped

\* A confirmation begins with the chain's settlement in hand.
LEMMA ConfirmStep ==
  ASSUME SaleInv, NEW id \in EscrowIds, ConfirmSettlement(id)
  PROVE  SaleInv'
<1>. DEFINE n == [record |-> id, next |-> "settled"]
<1>1. n \in Task /\ n.record = id /\ n.next = "settled"
  BY DEF Task
<1>2. /\ task' = n /\ Transition(id, "funds_locked") /\ UNCHANGED <<deals, properties>>
      /\ SettledToBuyer(id) /\ records[id].state = "initiated"
  BY DEF ConfirmSettlement, Confirmable, Continue, ReceiptSettles, SettledToBuyer
<1>. HIDE DEF n
<1>3. "funds_locked" \in RecordStates
  BY Transitions
<1>4. TaskSound'
  BY <1>1, <1>2, <1>3, TransitionTypes DEF TaskSound, SettledToBuyer
<1>. QED
  BY <1>1, <1>2, <1>3, <1>4, TransitionKeeps DEF Sold

\* It goes on with what it has written.
LEMMA AdvanceStep ==
  ASSUME SaleInv, Advance
  PROVE  SaleInv'
<1>. DEFINE id == task.record
            state == task.next
            n == [record |-> id, next |-> After(state)]
<1>1. /\ state \in {"settled", "offchain_recording_pending"} /\ Transition(id, state) /\ task' = n
      /\ UNCHANGED <<deals, properties>>
  BY DEF Advance, Continue
<1>2. id \in EscrowIds /\ records[id].state # "none" /\ SettledToBuyer(id)
  BY <1>1, InProgress, Parts DEF TaskSound, RecordSound, Sold
<1>. HIDE DEF id, state
<1>3. /\ state = "settled" => After(state) = "offchain_recording_pending"
      /\ state = "offchain_recording_pending" => After(state) = "sold"
  BY DEF After
<1>4. n \in Task /\ n.record = id /\ n.next = After(state)
  BY <1>1, <1>2, <1>3 DEF Task
<1>. HIDE DEF n
<1>5. state \in RecordStates
  BY <1>1, Transitions
<1>6. TaskSound'
  <2>1. records'[id].state = state
    BY <1>1, <1>2, <1>5, TransitionTypes
  <2>. QED
    BY <1>1, <1>3, <1>4, <2>1 DEF TaskSound
<1>. QED
  BY <1>1, <1>2, <1>4, <1>5, <1>6, TransitionKeeps

\* The recording completes what was settled.
LEMMA CompleteStep ==
  ASSUME SaleInv, NEW id \in EscrowIds, MarkRecordingComplete(id)
  PROVE  SaleInv'
<1>1. /\ records[id].known /\ "complete" \in ValidTransitions[records[id].state]
      /\ Transition(id, "complete") /\ task = NoTask /\ UNCHANGED <<deals, properties, task>>
  BY DEF MarkRecordingComplete, MayBecome
<1>2. records[id].state = "offchain_recording_pending"
  BY <1>1, Transitions, Parts DEF Record, RecordSound
<1>3. SettledToBuyer(id) /\ "complete" \in RecordStates
  BY <1>2, Transitions, Parts DEF RecordSound, Sold
<1>4. TaskSound'
  BY <1>1, Parts DEF TaskSound
<1>. QED
  BY <1>1, <1>2, <1>3, <1>4, Parts, TransitionKeeps

\* A refund says nothing of a sale.
LEMMA RefundStep ==
  ASSUME SaleInv, NEW id \in EscrowIds, RefundEscrow(id)
  PROVE  SaleInv'
<1>. DEFINE n == [record |-> id, next |-> "listed"]
<1>1. n \in Task /\ n.record = id /\ n.next = "listed"
  BY DEF Task
<1>2. records[id].known /\ Transition(id, "refunded") /\ task' = n /\ UNCHANGED <<deals, properties>>
  BY DEF RefundEscrow, MayBecome, Continue
<1>. HIDE DEF n
<1>3. "refunded" \in RecordStates /\ records[id].state # "none"
  BY <1>2, Transitions, Parts DEF RecordSound
<1>4. TaskSound'
  BY <1>1, <1>2, <1>3, TransitionTypes DEF TaskSound
<1>. QED
  BY <1>1, <1>2, <1>3, <1>4, TransitionKeeps DEF Sold

\* A settled deal stays, whatever else the chain does.
LEMMA ChainStep ==
  ASSUME SaleInv, DealNext, UNCHANGED recordVars
  PROVE  SaleInv'
<1>1. UNCHANGED <<properties, records, task>>
  BY DEF recordVars
<1>2. deals \in [EscrowIds -> [state : DealStates, buyer : Parties \cup {NoParty}]]
  BY Parts DEF DealsTyped
<1>3. PICK id \in EscrowIds : End(id) \/ \E p \in Parties : Make(id, p)
  BY DEF DealNext
<1>4. DealsTyped' /\ \A e \in EscrowIds : deals[e].state = "Settled" => deals'[e] = deals[e]
  <2>1. CASE End(id)
    BY <1>2, <2>1 DEF End, DealsTyped, DealStates
  <2>2. ASSUME NEW p \in Parties, Make(id, p)
        PROVE  DealsTyped' /\ \A e \in EscrowIds : deals[e].state = "Settled" => deals'[e] = deals[e]
    BY <1>2, <2>2 DEF Make, Deal, DealsTyped, DealStates
  <2>. QED
    BY <1>3, <2>1, <2>2
<1>5. ASSUME NEW e \in EscrowIds, SettledToBuyer(e) PROVE SettledToBuyer(e)'
  BY <1>1, <1>4, <1>5 DEF SettledToBuyer
<1>6. TaskSound'
  BY <1>1, <1>5, Parts, InProgress DEF TaskSound
<1>. QED
  BY <1>1, <1>4, <1>5, <1>6 DEF SaleInv, SaleTypeOK, RecordSound

\* Every step keeps the invariant.
LEMMA SaleStep == SaleInv /\ [SaleNext]_saleVars => SaleInv'
<1>. SUFFICES ASSUME SaleInv, [SaleNext]_saleVars PROVE SaleInv'
  OBVIOUS
<1>1. CASE ServiceNext
  <2>1. CASE CutShort
    <3>1. TaskSound'
      BY <2>1, Parts DEF CutShort, TaskSound
    <3>. QED
      BY <2>1, <3>1 DEF CutShort, SaleInv, SaleTypeOK, DealsTyped, RecordSound, SettledToBuyer
  <2>. QED
    BY <1>1, <2>1, ListingStep, PurchaseStep, ConfirmStep, CompleteStep, RefundStep, AdvanceStep,
       WriteStep DEF ServiceNext
<1>2. CASE UNCHANGED saleVars
  BY <1>2 DEF saleVars, recordVars, SaleInv, SaleTypeOK, DealsTyped, RecordSound, TaskSound,
              SettledToBuyer
<1>. QED
  BY <1>1, <1>2, ChainStep DEF SaleNext

\* The invariant always holds.
LEMMA SaleInvariant == SaleSpec => []SaleInv
<1>1. SaleInit => SaleInv
  <2>. SUFFICES ASSUME SaleInit PROVE SaleInv
    OBVIOUS
  <2>1. NoRecord \in Record /\ NoProperty \in Property
    BY DEF NoRecord, NoProperty, Record, Property, Statuses
  <2>2. NoRecord.state = "none" /\ ~NoRecord.known /\ NoTask.next = "nothing"
    BY DEF NoRecord, NoTask
  <2>3. SaleTypeOK
    BY <2>1 DEF SaleInit, SaleTypeOK
  <2>4. DealsTyped
    BY DEF SaleInit, DealInit, NoDeal, DealsTyped, DealStates
  <2>. QED
    BY <2>2, <2>3, <2>4 DEF SaleInit, SaleInv, RecordSound, TaskSound, Sold
<1>. QED
  BY <1>1, SaleStep, PTL DEF SaleSpec

-----------------------------------------------------------------------------
(* Theorems *)

\* The variables keep their types.
THEOREM SaleTypes == SaleSpec => []SaleTypeOK
<1>1. SaleInv => SaleTypeOK
  BY DEF SaleInv
<1>. QED
  BY <1>1, SaleInvariant, PTL

\* No request, whatever was cut short before it, records as sold an escrow that
\* the contract did not settle to the buyer on record.
THEOREM SalesAreSettled == SaleSpec => []SoldMeansSettled
<1>1. SaleInv => SoldMeansSettled
  BY DEF SaleInv, SoldMeansSettled, RecordSound, SettledToBuyer
<1>. QED
  BY <1>1, SaleInvariant, PTL

\* A record's state only ever takes transitions that VALID_TRANSITIONS has, those
\* of a confirmation included, which checks none of them.
THEOREM RecordsMoveLegally == SaleSpec => LegalTransitions
<1>. DEFINE Legal ==
       \A id \in EscrowIds :
          records[id].state \in RecordStates =>
            records'[id].state \in ValidTransitions[records[id].state] \cup {records[id].state}
<1>1. SaleInv /\ [SaleNext]_saleVars => [Legal]_saleVars
  <2>. SUFFICES ASSUME SaleInv, SaleNext, NEW e \in EscrowIds, records[e].state \in RecordStates
                PROVE  records'[e].state \in ValidTransitions[records[e].state] \cup {records[e].state}
    BY DEF saleVars
  <2>. DEFINE May == records'[e].state \in ValidTransitions[records[e].state] \cup {records[e].state}
  <2>1. ASSUME NEW id \in EscrowIds, NEW state \in RecordStates, Transition(id, state),
               state \in ValidTransitions[records[id].state]
        PROVE  May
    BY <2>1, TransitionTypes
  <2>2. ASSUME records' = records PROVE May
    BY <2>2
  <2>3. ASSUME NEW p \in Parties, NEW h \in Properties, NEW id \in EscrowIds, Purchase(p, h, id)
        PROVE  May
    <3>1. records[id].state = "none" /\ "none" \notin RecordStates
      BY <2>3, Transitions DEF Purchase, NoRecord
    <3>. QED
      BY <2>3, <3>1, Parts DEF Purchase
  <2>4. ASSUME NEW id \in EscrowIds, ConfirmSettlement(id) PROVE May
    BY <2>1, <2>4, Transitions DEF ConfirmSettlement, Confirmable
  <2>5. ASSUME NEW id \in EscrowIds, MarkRecordingComplete(id) PROVE May
    BY <2>1, <2>5, Transitions DEF MarkRecordingComplete, MayBecome
  <2>6. ASSUME NEW id \in EscrowIds, RefundEscrow(id) PROVE May
    BY <2>1, <2>6, Transitions DEF RefundEscrow, MayBecome
  <2>7. CASE Advance
    <3>1. task.next \in {"settled", "offchain_recording_pending"} /\ Transition(task.record, task.next)
      BY <2>7 DEF Advance
    <3>2. task.record \in EscrowIds
      BY <3>1, InProgress
    <3>3. task.next \in ValidTransitions[records[task.record].state]
      BY <3>1, Transitions, Parts DEF TaskSound
    <3>. QED
      BY <2>1, <3>1, <3>2, <3>3, Transitions
  <2>8. CASE WriteProperty
    <3>1. PICK answered \in BOOLEAN : records' = [records EXCEPT ![task.record].known = @ \/ answered]
      BY <2>8 DEF WriteProperty
    <3>2. records'[e].state = records[e].state
      BY <3>1, Parts DEF Record
    <3>. QED
      BY <3>2
  <2>9. CASE DealNext /\ UNCHANGED recordVars
    BY <2>2, <2>9 DEF recordVars
  <2>10. ASSUME NEW h \in Properties,
                \/ \E p \in Parties : CreateProperty(p, h)
                \/ \E status \in Chosen : UpdateListingStatus(h, status)
                \/ \E d \in Deeds : AssignDeed(h, d)
         PROVE  May
    BY <2>2, <2>10 DEF CreateProperty, UpdateListingStatus, AssignDeed
  <2>11. CASE CutShort
    BY <2>2, <2>11 DEF CutShort
  <2>. QED
    BY <2>3, <2>4, <2>5, <2>6, <2>7, <2>8, <2>9, <2>10, <2>11 DEF SaleNext, ServiceNext
<1>. QED
  BY <1>1, SaleInvariant, PTL DEF SaleSpec, LegalTransitions
=============================================================================

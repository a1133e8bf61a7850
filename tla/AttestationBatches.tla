--------------------------- MODULE AttestationBatches ---------------------------
(***************************************************************************)
(* The attestations of what the platform did.  They wait in the process's   *)
(* memory until there are enough for a batch; a flush submits them one by   *)
(* one, waits for each receipt, and puts back what it was not told of as    *)
(* done, MaxAttempts times.                                                *)
(*                                                                         *)
(* Submission never gives the event loop away, so that nothing is added     *)
(* during a flush; the node goes on meanwhile.  Each transaction takes the  *)
(* nonce after the last mined one: the node holds one of ours at a time.    *)
(***************************************************************************)
EXTENDS Integers, SequencesExt, Filters

CONSTANTS
  BatchSize, MaxAttempts,
  MaxAttestations    \* bound

ASSUME AttestationConstants ==
  /\ {BatchSize, MaxAttempts} \subseteq Nat \ {0}
  /\ MaxAttestations \in Nat

VARIABLES
  queue,             \* the attestations that wait, with their failed attempts
  batch,             \* those of the flush under way still to be submitted
  results,           \* and those submitted, with the result
  phase,             \* "idle", "flushing", or "waiting" for a receipt
  accepted,          \* how many attestations were asked for
  landed, abandoned, \* what the log says of them
  gone,              \* those a process took with it
  floating,          \* the attestation in the node's pool, NoAttestation for none
  receipt,           \* the status of the one waited for, once mined
  written,           \* attestation -> how often it is on the chain
  unheard            \* those whose receipt did not come in time

attVars == <<queue, batch, results, phase, accepted, landed, abandoned, gone,
             floating, receipt, written, unheard>>
nodeVars == <<floating, receipt, written, unheard>>
logVars == <<landed, abandoned, gone>>

NoAttestation == 0
Ids == 1..MaxAttestations

AttInit ==
  /\ queue = <<>> /\ batch = <<>> /\ results = <<>> /\ phase = "idle"
  /\ accepted = 0 /\ landed = {} /\ abandoned = {} /\ gone = {}
  /\ floating = NoAttestation /\ receipt = "none"
  /\ written = [id \in Ids |-> 0] /\ unheard = {}

\* Whatever changed state and says so is attested; a full queue is flushed.
AddAttestation ==
  /\ phase = "idle" /\ accepted < MaxAttestations
  /\ accepted' = accepted + 1
  /\ LET longer == Append(queue, [id |-> accepted + 1, attempts |-> 0])
         full == Len(longer) >= BatchSize
     IN  /\ queue' = IF full THEN <<>> ELSE longer
         /\ batch' = IF full THEN longer ELSE <<>>
         /\ phase' = IF full THEN "flushing" ELSE "idle"
  /\ UNCHANGED <<results, logVars, nodeVars>>

Result(success) ==
  /\ results' = Append(results, [entry |-> Head(batch), success |-> success])
  /\ batch' = Tail(batch)
  /\ phase' = "flushing"

\* Not configured, a dependency missing, the node refuses it: answered, not raised.
NotSent ==
  /\ phase = "flushing" /\ batch # <<>>
  /\ Result(FALSE)
  /\ UNCHANGED <<queue, accepted, logVars, nodeVars>>

\* One of ours that the node still holds loses its nonce.
Send ==
  /\ phase = "flushing" /\ batch # <<>>
  /\ floating' = Head(batch).id
  /\ receipt' = "none"
  /\ phase' = "waiting"
  /\ UNCHANGED <<queue, batch, results, accepted, logVars, written, unheard>>

ReceiptComes ==
  /\ phase = "waiting" /\ receipt # "none"
  /\ Result(receipt = "ok")
  /\ UNCHANGED <<queue, accepted, logVars, nodeVars>>

ReceiptIsLate ==
  /\ phase = "waiting" /\ receipt = "none"
  /\ Result(FALSE)
  /\ unheard' = unheard \cup {Head(batch).id}
  /\ UNCHANGED <<queue, accepted, logVars, floating, receipt, written>>

Successes == {r.entry.id : r \in {x \in Range(results) : x.success}}
GivenUp(r) == ~r.success /\ r.entry.attempts + 1 >= MaxAttempts

\* mutant: one failure is the whole batch's
OwedTogether ==
  IF \A r \in Range(results) : r.success THEN <<>>
  ELSE SelectSeq(results, LAMBDA r : ~GivenUp(r))

Owed == Selected(results, {r \in Range(results) : ~r.success /\ ~GivenUp(r)})

Requeued == [i \in DOMAIN Owed |-> [Owed[i].entry EXCEPT !.attempts = @ + 1]]

\* Each is judged by its own result.
Reconcile ==
  /\ phase = "flushing" /\ batch = <<>>
  /\ phase' = "idle"
  /\ queue' = Requeued \o queue
  /\ results' = <<>>
  /\ landed' = landed \cup Successes
  /\ abandoned' = abandoned \cup {r.entry.id : r \in {x \in Range(results) : GivenUp(x)}}
  /\ UNCHANGED <<batch, accepted, gone, nodeVars>>

InHand == {e.id : e \in Range(queue) \cup Range(batch)} \cup {r.entry.id : r \in Range(results)}

ProcessExits ==
  /\ queue' = <<>> /\ batch' = <<>> /\ results' = <<>> /\ phase' = "idle"
  /\ gone' = gone \cup InHand
  /\ UNCHANGED <<accepted, landed, abandoned, nodeVars>>

Mined ==
  /\ floating # NoAttestation
  /\ \E status \in {"ok", "reverted"} :
       /\ written' = [written EXCEPT ![floating] = @ + (IF status = "ok" THEN 1 ELSE 0)]
       /\ receipt' = IF phase = "waiting" THEN status ELSE receipt
  /\ floating' = NoAttestation
  /\ UNCHANGED <<queue, batch, results, phase, accepted, logVars, unheard>>

\* Another sender of the account counts the same nonce.
Displaced ==
  /\ floating # NoAttestation
  /\ floating' = NoAttestation
  /\ UNCHANGED <<queue, batch, results, phase, accepted, logVars, receipt, written, unheard>>

AttNext ==
  \/ AddAttestation
  \/ NotSent \/ Send \/ ReceiptComes \/ ReceiptIsLate
  \/ Reconcile
  \/ ProcessExits
  \/ Mined \/ Displaced

AttSpec == AttInit /\ [][AttNext]_attVars
-----------------------------------------------------------------------------
(* Properties *)

Entries == [id : Ids, attempts : 0..MaxAttempts - 1]

AttTypeOK ==
  /\ queue \in Seq(Entries) /\ batch \in Seq(Entries)
  /\ results \in Seq([entry : Entries, success : BOOLEAN])
  /\ phase \in {"idle", "flushing", "waiting"} /\ accepted \in 0..MaxAttestations
  /\ landed \cup abandoned \cup gone \cup unheard \subseteq Ids
  /\ floating \in Ids \cup {NoAttestation} /\ receipt \in {"none", "ok", "reverted"}
  /\ written \in [Ids -> Nat]

\* Each one asked for is in hand, on record as landed or given up, or went with
\* its process, and is so in one place: what landed is not tried again.
EachIsInOnePlace ==
  /\ Len(queue) + Len(batch) + Len(results) = Cardinality(InHand)
  /\ 1..accepted = InHand \cup landed \cup abandoned \cup gone
  /\ accepted = Cardinality(InHand) + Cardinality(landed) + Cardinality(abandoned) + Cardinality(gone)

\* What is recorded as landed is on the chain, and what is there twice, or there
\* and given up, is one whose receipt came too late.
RecordIsTrue ==
  /\ \A id \in landed : written[id] > 0
  /\ \A id \in Ids : written[id] > 1 \/ (id \in abandoned /\ written[id] > 0) => id \in unheard

\* An endpoint that never answers does not let the queue grow: what a flush puts
\* back it has tried, and nobody is tried more than MaxAttempts times.
QueueIsBounded == Len(queue) <= BatchSize + MaxAttempts - 2

\* Over batches, refusals, late receipts and exits, an attestation is not lost
\* without a trace, not written twice for a failure of its neighbour, and the
\* queue stays short.
AttestationsAreKept ==
  AttTypeOK /\ EachIsInOnePlace /\ RecordIsTrue /\ QueueIsBounded
=============================================================================

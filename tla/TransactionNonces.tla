---------------------------- MODULE TransactionNonces ----------------------------
(***************************************************************************)
(* The platform account's transactions: the one manager that signs and      *)
(* broadcasts them for every service, the node that keeps one transaction   *)
(* for each nonce, and what the service is told after waiting for a receipt *)
(* as long as it may.                                                      *)
(*                                                                         *)
(* Counting, signing and broadcasting have no await between them: one step. *)
(***************************************************************************)
EXTENDS Integers, FiniteSets

CONSTANTS Sends     \* calls of send_transaction

VARIABLES
  mined,            \* the account's transaction count
  mempool,          \* the broadcast transactions the node holds
  nonce,            \* send -> the nonce it went out with, NoNonce before
  receipts,         \* send -> its receipt's status, "none" before it is mined
  answers           \* send -> what its service was told

nonceVars == <<mined, mempool, nonce, receipts, answers>>

NoNonce == -1

NonceInit ==
  /\ mined = 0 /\ mempool = {}
  /\ nonce = [s \in Sends |-> NoNonce]
  /\ receipts = [s \in Sends |-> "none"]
  /\ answers = [s \in Sends |-> "unasked"]

\* get_transaction_count counts what is mined.
TransactionCount == mined

Holding(n) == {s \in mempool : nonce[s] = n}

\* A nonce the node already holds is refused, or, at a better price, taken over.
SendTransaction(s) ==
  /\ answers[s] = "unasked"
  /\ \/ /\ nonce' = [nonce EXCEPT ![s] = TransactionCount]
        /\ mempool' = (mempool \ Holding(TransactionCount)) \cup {s}
        /\ answers' = [answers EXCEPT ![s] = "waiting"]
     \/ /\ Holding(TransactionCount) # {}
        /\ answers' = [answers EXCEPT ![s] = "raised"]
        /\ UNCHANGED <<nonce, mempool>>
  /\ UNCHANGED <<mined, receipts>>

Mine(s) ==
  /\ s \in Holding(mined)
  /\ mined' = mined + 1
  /\ mempool' = mempool \ {s}
  /\ \E status \in {"ok", "reverted"} : receipts' = [receipts EXCEPT ![s] = status]
  /\ UNCHANGED <<nonce, answers>>

Answer(s, answer) ==
  /\ answers[s] = "waiting"
  /\ answers' = [answers EXCEPT ![s] = answer]
  /\ UNCHANGED <<mined, mempool, nonce, receipts>>

ReceiptArrives(s) ==
  \/ receipts[s] = "ok" /\ Answer(s, "submitted")
  \/ receipts[s] = "reverted" /\ Answer(s, "failed")

NotMined == "failed"

\* What is said of a transaction whose receipt did not come in time.
Unknown == "pending"

\* A receipt that is there may still not be had: the node does not answer.
ReceiptTimesOut(s) == Answer(s, Unknown)

Cancelled(s) == Answer(s, "cancelled")

NonceNext ==
  \E s \in Sends : SendTransaction(s) \/ Mine(s) \/ ReceiptArrives(s) \/ ReceiptTimesOut(s) \/ Cancelled(s)

NonceSpec == NonceInit /\ [][NonceNext]_nonceVars

NonceTypeOK ==
  /\ mined \in Nat /\ mempool \subseteq Sends
  /\ \A s \in Sends :
       /\ nonce[s] \in Nat \cup {NoNonce}
       /\ receipts[s] \in {"none", "ok", "reverted"}

\* "An over-claim is visible to the claimant, an under-claim is visible to
\* nobody": what a service is told to have happened is what happened and stays
\* so, although a transaction it stopped waiting for may be mined afterwards or
\* have been displaced for good.
AnswersStayTrue ==
  \A s \in Sends :
    /\ answers[s] = "submitted" => receipts[s] = "ok"
    /\ answers[s] = "failed" => receipts[s] = "reverted"

\* The manager "handles nonce management automatically" (web3_manager.py:282):
\* two transactions it sent out never compete for one nonce.
NoncesAreTheirOwn ==
  \A s, t \in Sends : s # t /\ nonce[s] # NoNonce => nonce[s] # nonce[t]
=============================================================================

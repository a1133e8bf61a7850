---------------------------- MODULE Entitlements ----------------------------
(***************************************************************************)
(* App Store purchases: the ledger of signed transactions, the row of each *)
(* subscription lineage, and the two routes that write them, a client's    *)
(* /iap/verify and Apple's notifications.                                  *)
(*                                                                         *)
(* Apple orders nothing and repeats what was not answered with 200, and a  *)
(* client sends a transaction again whenever it likes: every request may   *)
(* come at any time.  Once its body is read a request waits for nothing,   *)
(* so there is one at a time; any of its statements may fail, or be the    *)
(* last before a crash.  Signatures, dates, users and tiers are left out,  *)
(* and so are notifications that write nothing but the ledger.             *)
(***************************************************************************)
CONSTANTS
  Transactions,
  Consumables,        \* those that are of no subscription
  Lineages,
  Original            \* originalTransactionId

ASSUME EntitlementConstants ==
  /\ Consumables \subseteq Transactions
  /\ Original \in [Transactions -> Lineages]

VARIABLES
  purchases,          \* iap_transactions: the status of each
  entitlements,       \* iap_entitlements: the status of each lineage
  route,              \* the request in progress
  \* bookkeeping
  verified,           \* transactions a client was told are recorded
  refunds             \* subscriptions whose refund was answered with 200

entVars == <<purchases, entitlements, route, verified, refunds>>

Terminal == {"refunded", "revoked"}

\* DID_RENEW is handled as SUBSCRIBED is.
Notifications == {"SUBSCRIBED", "EXPIRED", "REFUND", "REVOKE"}
Calls == Notifications \cup {"verify"}

\* The status a notification sets.
StatusOf(call) ==
  CASE call = "EXPIRED" -> "expired" [] call = "REFUND" -> "refunded"
    [] call = "REVOKE" -> "revoked"

Waiting == [call |-> "none"]

EntInit ==
  /\ purchases = [tx \in Transactions |-> "none"]
  /\ entitlements = [l \in Lineages |-> "none"]
  /\ route = Waiting
  /\ verified = {}
  /\ refunds = {}

Subscription(tx) == tx \notin Consumables

InRoute(at) == route # Waiting /\ route.at = at
Goto(at) == route' = [route EXCEPT !.at = at]

-----------------------------------------------------------------------------

AfterFreshLedger(call, tx, fresh) ==  \* mutant: a replay is answered there and then
  IF call \notin {"SUBSCRIBED", "verify"} THEN "set"
  ELSE IF Subscription(tx) /\ (fresh \/ call # "verify") THEN "upsert" ELSE "answer"

\* What comes after the ledger.
AfterLedger(call, tx, fresh) ==
  IF call \notin {"SUBSCRIBED", "verify"} THEN "set"
  ELSE IF Subscription(tx) THEN "upsert" ELSE "answer"

\* A request, and record_transaction: nothing for a transaction already there.
RecordTransaction(call, tx) ==
  LET fresh == purchases[tx] = "none" IN
  /\ route = Waiting
  /\ purchases' = IF fresh THEN [purchases EXCEPT ![tx] = "recorded"] ELSE purchases
  /\ route' = [call |-> call, tx |-> tx, at |-> AfterLedger(call, tx, fresh)]
  /\ UNCHANGED <<entitlements, verified, refunds>>

Upserted(old) == IF old \in Terminal THEN old ELSE "active"

UpsertEntitlement ==
  /\ InRoute("upsert")
  /\ entitlements' = [entitlements EXCEPT ![Original[route.tx]] = Upserted(@)]
  /\ Goto("answer")
  /\ UNCHANGED <<purchases, verified, refunds>>

SetOnAnyRow(old, call) == old = "none"  \* mutant: a terminal status is not looked at

\* No row, or a row whose terminal status is not to be left.
LeavesAlone(old, call) ==
  old = "none" \/ (old \in Terminal /\ StatusOf(call) \notin Terminal)

AfterStatus(call) == IF call = "EXPIRED" THEN "answer" ELSE "mark"

SetStatus ==
  /\ InRoute("set")
  /\ entitlements' = [entitlements EXCEPT ![Original[route.tx]] =
       IF LeavesAlone(@, route.call) THEN @ ELSE StatusOf(route.call)]
  /\ Goto(AfterStatus(route.call))
  /\ UNCHANGED <<purchases, verified, refunds>>

MarkTransaction ==
  /\ InRoute("mark")
  /\ purchases' = [purchases EXCEPT ![route.tx] = IF @ = "none" THEN @ ELSE StatusOf(route.call)]
  /\ Goto("answer")
  /\ UNCHANGED <<entitlements, verified, refunds>>

Answer ==
  /\ InRoute("answer")
  /\ route' = Waiting
  /\ verified' = IF route.call = "verify" THEN verified \cup {route.tx} ELSE verified
  /\ refunds' = IF route.call = "REFUND" /\ Subscription(route.tx)
                THEN refunds \cup {Original[route.tx]} ELSE refunds
  /\ UNCHANGED <<purchases, entitlements>>

\* A statement fails and the answer is 503, or there is no answer.
StorageFailure ==
  /\ route # Waiting
  /\ route' = Waiting
  /\ UNCHANGED <<purchases, entitlements, verified, refunds>>

EntNext ==
  \/ \E call \in Calls, tx \in Transactions : RecordTransaction(call, tx)
  \/ UpsertEntitlement \/ SetStatus \/ MarkTransaction
  \/ Answer \/ StorageFailure

EntSpec == EntInit /\ [][EntNext]_entVars
-----------------------------------------------------------------------------
(* Properties *)

Route == [call : Calls, tx : Transactions, at : {"upsert", "set", "mark", "answer"}]

EntTypeOK ==
  /\ purchases \in [Transactions -> {"none", "recorded"} \cup Terminal]
  /\ entitlements \in [Lineages -> {"none", "active", "expired"} \cup Terminal]
  /\ route \in Route \cup {Waiting}
  /\ verified \subseteq Transactions
  /\ refunds \subseteq Lineages

\* A client whose purchase was answered with 200 has it: the transaction is in
\* the ledger and a subscription's lineage has its row, though an earlier attempt
\* may have recorded the transaction and stopped there.
VerifiedIsEntitled ==
  \A tx \in verified :
     /\ purchases[tx] # "none"
     /\ Subscription(tx) => entitlements[Original[tx]] # "none"

\* "A late-arriving renewal or a post-refund client /verify report can NEVER lift
\* the row back to active", nor can an expiry make it a row that a renewal lifts:
\* a lineage once refunded or revoked is refunded or revoked for good.
TerminalIsSticky ==
  [][\A l \in Lineages : entitlements[l] \in Terminal => entitlements'[l] \in Terminal]_entVars

\* "Refund wins regardless of arrival order": a lineage whose refund Apple was
\* told is done is not active.
RefundWins == \A l \in refunds : entitlements[l] # "active"
=============================================================================

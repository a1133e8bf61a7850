------------------------------- MODULE ServicesProofs -------------------------------
(*****************************************************************************)
(* Proofs about purchases and entitlements, the sponsorship ledger, the      *)
(* property documents and the attestation batches, for any people, workers,  *)
(* amounts and sizes of a batch.                                             *)
(*****************************************************************************)
EXTENDS Entitlements, SponsorshipLedger, PropertyDocuments, AttestationBatches,
        DataTheorems, FunctionTheorems, TLAPS

-----------------------------------------------------------------------------
(* Purchases and entitlements *)

\* Where the request is tells what it is for and what it has written: its
\* transaction is in the ledger, and a verified subscription that is about to be
\* answered has its row.
RouteSound ==
  route # Waiting =>
  /\ purchases[route.tx] # "none"
  /\ route.at = "upsert" => route.call \in {"SUBSCRIBED", "verify"}
  /\ route.at = "set" => route.call \in {"EXPIRED", "REFUND", "REVOKE"}
  /\ route.at = "mark" => route.call \in {"REFUND", "REVOKE"}
  /\ route.at = "answer" /\ route.call = "verify" /\ Subscription(route.tx) =>
       entitlements[Original[route.tx]] # "none"

\* The inductive invariant.
EntInv == EntTypeOK /\ RouteSound /\ VerifiedIsEntitled

\* Rows, once written, stay.
Kept ==
  /\ \A tx \in Transactions : purchases[tx] # "none" => purchases'[tx] # "none"
  /\ \A l \in Lineages : entitlements[l] # "none" => entitlements'[l] # "none"

\* A request in progress is a route, of a transaction of some lineage.
LEMMA InProgress ==
  ASSUME EntTypeOK, route # Waiting
  PROVE  /\ route \in Route
         /\ route.tx \in Transactions
         /\ Original[route.tx] \in Lineages
  BY EntitlementConstants DEF EntTypeOK, Route

\* It moves on as the same request.
LEMMA MovedOn ==
  ASSUME EntTypeOK, route # Waiting, NEW at \in {"upsert", "set", "mark", "answer"}, Goto(at)
  PROVE  /\ route' \in Route
         /\ route'.at = at /\ route'.call = route.call /\ route'.tx = route.tx
  BY InProgress DEF Goto, Route

\* Answers given before stay borne out while rows are kept.
LEMMA StillEntitled ==
  ASSUME EntInv, Kept, UNCHANGED verified
  PROVE  VerifiedIsEntitled'
<1>1. \A tx \in verified : tx \in Transactions /\ Original[tx] \in Lineages
  BY EntitlementConstants DEF EntInv, EntTypeOK
<1>. QED
  BY <1>1 DEF EntInv, VerifiedIsEntitled, Kept, Subscription

\* Every step keeps the invariant.
LEMMA EntStep ==
  ASSUME EntInv, [EntNext]_entVars
  PROVE  EntInv'
<1>0. /\ EntTypeOK /\ RouteSound
      /\ purchases \in [Transactions -> {"none", "recorded"} \cup Terminal]
      /\ entitlements \in [Lineages -> {"none", "active", "expired"} \cup Terminal]
      /\ verified \subseteq Transactions /\ refunds \subseteq Lineages
  BY DEF EntInv, EntTypeOK
<1>a. ASSUME route # Waiting
      PROVE  /\ route \in Route /\ route.tx \in Transactions
             /\ Original[route.tx] \in Lineages /\ purchases[route.tx] # "none"
  BY <1>a, <1>0, InProgress DEF RouteSound
<1>1. ASSUME NEW call \in Calls, NEW tx \in Transactions, RecordTransaction(call, tx)
      PROVE  EntInv'
  <2>. DEFINE at == AfterLedger(call, tx, purchases[tx] = "none")
  <2>1. /\ route' = [call |-> call, tx |-> tx, at |-> at]
        /\ UNCHANGED <<entitlements, verified, refunds>>
    BY <1>1 DEF RecordTransaction
  <2>2. /\ at \in {"set", "upsert", "answer"}
        /\ at = "set" => call \in {"EXPIRED", "REFUND", "REVOKE"}
        /\ at = "upsert" => call \in {"SUBSCRIBED", "verify"}
        /\ at = "answer" => ~Subscription(tx)
    BY DEF AfterLedger, Calls, Notifications
  <2>3. Kept /\ purchases'[tx] # "none"
        /\ purchases' \in [Transactions -> {"none", "recorded"} \cup Terminal]
    BY <1>1, <1>0 DEF RecordTransaction, Kept
  <2>. HIDE DEF at
  <2>4. /\ route' \in Route /\ route'.at = at /\ route'.call = call /\ route'.tx = tx
    BY <2>1, <2>2 DEF Route
  <2>5. RouteSound'
    BY <2>2, <2>3, <2>4 DEF RouteSound, Subscription
  <2>. QED
    BY <1>0, <2>1, <2>3, <2>4, <2>5, StillEntitled DEF EntInv, EntTypeOK
<1>2. CASE UpsertEntitlement
  <2>1. /\ route # Waiting /\ route.at = "upsert" /\ Goto("answer")
        /\ entitlements' = [entitlements EXCEPT ![Original[route.tx]] = Upserted(@)]
        /\ UNCHANGED <<purchases, verified, refunds>>
    BY <1>2 DEF UpsertEntitlement, InRoute
  <2>2. Kept /\ entitlements'[Original[route.tx]] # "none"
        /\ entitlements' \in [Lineages -> {"none", "active", "expired"} \cup Terminal]
    BY <2>1, <1>0, <1>a DEF Kept, Upserted, Terminal
  <2>3. RouteSound'
    BY <1>0, <1>a, <2>1, <2>2, MovedOn DEF RouteSound
  <2>. QED
    BY <1>0, <2>1, <2>2, <2>3, MovedOn, StillEntitled DEF EntInv, EntTypeOK
<1>3. CASE SetStatus
  <2>1. /\ route # Waiting /\ route.at = "set" /\ Goto(AfterStatus(route.call))
        /\ entitlements' = [entitlements EXCEPT ![Original[route.tx]] =
             IF LeavesAlone(@, route.call) THEN @ ELSE StatusOf(route.call)]
        /\ UNCHANGED <<purchases, verified, refunds>>
    BY <1>3 DEF SetStatus, InRoute
  <2>2. /\ route.call \in {"EXPIRED", "REFUND", "REVOKE"}
        /\ StatusOf(route.call) \in {"expired"} \cup Terminal
        /\ AfterStatus(route.call) \in {"answer", "mark"}
        /\ AfterStatus(route.call) = "mark" => route.call # "EXPIRED"
    BY <2>1, <1>0 DEF AfterStatus, StatusOf, Terminal, RouteSound
  <2>3. Kept
        /\ entitlements' \in [Lineages -> {"none", "active", "expired"} \cup Terminal]
    BY <2>1, <2>2, <1>0, <1>a DEF Kept, Terminal
  <2>4. /\ route' \in Route /\ route'.at = AfterStatus(route.call)
        /\ route'.call = route.call /\ route'.tx = route.tx
    BY <1>0, <2>1, <2>2, MovedOn
  <2>5. RouteSound'
    BY <1>a, <2>1, <2>2, <2>4 DEF RouteSound
  <2>. QED
    BY <1>0, <2>1, <2>3, <2>4, <2>5, StillEntitled DEF EntInv, EntTypeOK
<1>4. CASE MarkTransaction
  <2>1. /\ route # Waiting /\ route.at = "mark" /\ Goto("answer")
        /\ purchases' = [purchases EXCEPT
             ![route.tx] = IF @ = "none" THEN @ ELSE StatusOf(route.call)]
        /\ UNCHANGED <<entitlements, verified, refunds>>
    BY <1>4 DEF MarkTransaction, InRoute
  <2>2. route.call \in {"REFUND", "REVOKE"} /\ StatusOf(route.call) \in Terminal
    BY <2>1, <1>0 DEF StatusOf, Terminal, RouteSound
  <2>3. Kept /\ purchases'[route.tx] # "none"
        /\ purchases' \in [Transactions -> {"none", "recorded"} \cup Terminal]
    BY <2>1, <2>2, <1>0, <1>a DEF Kept, Terminal
  <2>4. RouteSound'
    BY <1>0, <1>a, <2>1, <2>2, <2>3, MovedOn DEF RouteSound
  <2>. QED
    BY <1>0, <2>1, <2>3, <2>4, MovedOn, StillEntitled DEF EntInv, EntTypeOK
<1>5. CASE Answer
  <2>1. /\ route # Waiting /\ route.at = "answer" /\ route' = Waiting
        /\ verified' = IF route.call = "verify" THEN verified \cup {route.tx} ELSE verified
        /\ refunds' \subseteq Lineages
        /\ UNCHANGED <<purchases, entitlements>>
    BY <1>5, <1>0, <1>a DEF Answer, InRoute
  <2>2. VerifiedIsEntitled'
    BY <2>1, <1>0, <1>a DEF EntInv, VerifiedIsEntitled, RouteSound, Subscription
  <2>. QED
    BY <1>0, <1>a, <2>1, <2>2 DEF EntInv, EntTypeOK, RouteSound
<1>6. CASE StorageFailure \/ UNCHANGED entVars
  BY <1>6 DEF StorageFailure, entVars, EntInv, EntTypeOK, RouteSound, VerifiedIsEntitled,
              Subscription
<1>. QED
  BY <1>1, <1>2, <1>3, <1>4, <1>5, <1>6 DEF EntNext

\* So it always holds.
LEMMA EntInvariant == EntSpec => []EntInv
<1>1. EntInit => EntInv
  BY EntitlementConstants
     DEF EntInit, EntInv, EntTypeOK, RouteSound, VerifiedIsEntitled
<1>. QED
  BY <1>1, EntStep, PTL DEF EntSpec

\* The variables keep their types.
THEOREM EntitlementTypes == EntSpec => []EntTypeOK
<1>1. EntInv => EntTypeOK
  BY DEF EntInv
<1>. QED
  BY <1>1, EntInvariant, PTL

\* Whatever failed before and whatever came in between, a purchase answered with
\* 200 is in the ledger and its subscription has a row.
THEOREM PurchasesAreKept == EntSpec => []VerifiedIsEntitled
<1>1. EntInv => VerifiedIsEntitled
  BY DEF EntInv
<1>. QED
  BY <1>1, EntInvariant, PTL

\* In whatever order verifications, renewals, expiries and refunds come, and
\* whatever fails, a lineage refunded or revoked stays one of the two for good.
THEOREM RefundsStick == EntSpec => TerminalIsSticky
<1>. DEFINE Sticky ==
       \A l \in Lineages : entitlements[l] \in Terminal => entitlements'[l] \in Terminal
<1>1. EntInv /\ [EntNext]_entVars => [Sticky]_entVars
  <2>. SUFFICES ASSUME EntInv, EntNext, NEW l \in Lineages, entitlements[l] \in Terminal
       PROVE entitlements'[l] \in Terminal
    OBVIOUS
  <2>1. CASE UpsertEntitlement
    BY <2>1 DEF UpsertEntitlement, Upserted, EntInv, EntTypeOK
  <2>2. CASE SetStatus
    <3>1. StatusOf(route.call) \in Terminal \/ LeavesAlone(entitlements[l], route.call)
      BY DEF LeavesAlone
    <3>. QED
      BY <2>2, <3>1 DEF SetStatus, EntInv, EntTypeOK
  <2>. QED
    BY <2>1, <2>2 DEF EntNext, RecordTransaction, MarkTransaction, Answer, StorageFailure
<1>2. EntSpec => [][EntNext]_entVars
  BY DEF EntSpec
<1>. QED
  BY <1>1, <1>2, EntInvariant, PTL DEF TerminalIsSticky

-----------------------------------------------------------------------------
(* The sponsorship ledger *)

\* A worker that holds a reservation, or what it signed for it.
Holding(w) == request[w].phase \in {"reserved", "signed"}

\* The signatures that may still land, and those about to be handed over.
Live == sent \cup {AsSent(request[w]) : w \in {v \in Workers : Holding(v)}}

\* ... in the window, of address i.
LiveOf(i) == {s \in Live : s.identity = i /\ InWindow(s.at)}

\* Ids are handed out once.
IdsInv ==
  /\ \A r, s \in ledger : r.id = s.id => r = s
  /\ \A r \in ledger : r.id < nextId
  /\ \A s \in Live : s.id < nextId
  /\ \A w \in Workers : Holding(w) =>
       /\ \A s \in sent : s.id # request[w].id
       /\ \A v \in Workers : Holding(v) /\ request[v].id = request[w].id => v = w

\* A worker's clock reading is not from the future, nor older than it may be.
ClocksInv ==
  \A w \in Workers : request[w].phase # "idle" => request[w].at <= now /\ now <= request[w].at + Stall

\* What may still land has a row that says so, for as long as it is in the window.
HasRow(w) ==
  \E row \in ledger : /\ AsSent(row) = AsSent(request[w])
                      /\ row.state \in Issued \/ (row.state = "reserved" /\ request[w].phase = "reserved")

\* Nothing that may still land is without its row.
RowsInv ==
  /\ \A s \in sent : InWindow(s.at) => \E row \in ledger : AsSent(row) = s /\ row.state \in Issued
  /\ \A w \in Workers : Holding(w) /\ InWindow(request[w].at) => HasRow(w)
  /\ \A w \in Workers : request[w].phase = "reserved" =>
       \A row \in ledger : row.id = request[w].id => row.state = "reserved"

\* ... and a row is one of these, or was left by a worker that died.
OwnersInv ==
  \A row \in ledger :
     \/ \E s \in sent : s.id = row.id
     \/ \E w \in Workers : Holding(w) /\ request[w].id = row.id
     \/ row.id \in lost

\* All of it is within the cap, address by address.
CapInv == \A i \in Spellings : Total(LiveOf(i)) <= Cap

\* The inductive invariant.
LedgerInv ==
  TypeOK /\ IsFiniteSet(ledger) /\ IdsInv /\ ClocksInv /\ RowsInv /\ OwnersInv /\ CapInv

-----------------------------------------------------------------------------
(* Totals *)

\* What is spent is a natural number.
LEMMA TotalType ==
  ASSUME NEW T, IsFiniteSet(T), \A s \in T : s.usd \in Nat
  PROVE  Total(T) \in Nat
<1> DEFINE f == [s \in T |-> s.usd]
<1>1. \A s \in T : f[s] \in Nat
  OBVIOUS
<1> HIDE DEF f
<1>2. SumOf(f, T) \in Nat
  BY <1>1, SumNat
<1> QED BY <1>2 DEF Total, f

\* Fewer signatures spend no more.
LEMMA TotalOfFewer ==
  ASSUME NEW T, IsFiniteSet(T), \A s \in T : s.usd \in Nat, NEW S \in SUBSET T
  PROVE  Total(S) <= Total(T) /\ Total(S) \in Nat
<1> DEFINE f == [s \in T |-> s.usd]
           g == [s \in S |-> s.usd]
<1>1. (\A s \in T : f[s] \in Nat) /\ (\A s \in S : f[s] = g[s])
  OBVIOUS
<1>2. IsFiniteSet(S)
  BY FS_Subset
<1> HIDE DEF f, g
<1>3. SumOf(f, S) <= SumOf(f, T)
  BY <1>1, SumSubset
<1>4. SumOf(f, S) = SumOf(g, S)
  BY <1>1, <1>2, SumSame
<1>5. Total(S) <= Total(T)
  <2>1. Total(S) = SumOf(g, S) /\ Total(T) = SumOf(f, T)
    BY DEF Total, f, g
  <2> QED BY <1>3, <1>4, <2>1
<1>6. Total(S) \in Nat
  BY <1>2, TotalType
<1> QED BY <1>5, <1>6

\* One more spends what it costs.
LEMMA TotalOfOneMore ==
  ASSUME NEW T, IsFiniteSet(T), \A s \in T : s.usd \in Nat, NEW e, e \notin T, e.usd \in Nat
  PROVE  Total(T \cup {e}) = e.usd + Total(T)
<1> DEFINE f == [s \in T \cup {e} |-> s.usd]
           g == [s \in T |-> s.usd]
<1>1. (\A s \in T \cup {e} : f[s] \in Int) /\ (\A s \in T : f[s] = g[s]) /\ f[e] = e.usd
  OBVIOUS
<1>2. Total(T \cup {e}) = SumOf(f, T \cup {e}) /\ Total(T) = SumOf(g, T)
  BY DEF Total
<1> HIDE DEF f, g
<1>3. SumOf(f, T \cup {e}) = f[e] + SumOf(f, T)
  BY <1>1, SumAdd
<1>4. SumOf(f, T) = SumOf(g, T)
  BY <1>1, SumSame
<1> QED BY <1>1, <1>2, <1>3, <1>4

\* What rows of different ids stand for adds up to what they do.
LEMMA TotalAsSent ==
  ASSUME NEW T \in SUBSET Rows, IsFiniteSet(T), \A r, s \in T : r.id = s.id => r = s
  PROVE  /\ IsFiniteSet({AsSent(row) : row \in T})
         /\ Total({AsSent(row) : row \in T}) = Total(T)
<1> DEFINE m == [row \in T |-> AsSent(row)]
           Im == {m[row] : row \in T}
           f == [row \in T |-> row.usd]
           g == [s \in Im |-> s.usd]
<1>1. Im = {AsSent(row) : row \in T}
  OBVIOUS
<1>2. \A row \in T : f[row] \in Int
  BY DEF Rows
<1>3. \A r, s \in T : m[r] = m[s] => r = s
  BY DEF AsSent
<1>4. \A row \in T : g[m[row]] = f[row]
  BY DEF AsSent
<1>5. Total(Im) = SumOf(g, Im) /\ Total(T) = SumOf(f, T)
  BY DEF Total
<1> HIDE DEF m, f, g
<1>6. IsFiniteSet(Im)
  BY ImageFinite
<1>7. SumOf(g, {m[row] : row \in T}) = SumOf(f, T)
  BY <1>2, <1>3, <1>4, SumImage
<1> QED BY <1>1, <1>5, <1>6, <1>7

-----------------------------------------------------------------------------
(* What is live *)

\* The types of what is signed and of the rows.
LEMMA SentType ==
  ASSUME TypeOK
  PROVE  /\ Live \in SUBSET Sent
         /\ \A w \in Workers : request[w] \in Requests /\ AsSent(request[w]) \in Sent
         /\ \A row \in ledger : row \in Rows /\ AsSent(row) \in Sent
<1>1. \A w \in Workers : request[w] \in Requests /\ AsSent(request[w]) \in Sent
  BY DEF TypeOK, Requests, Sent, AsSent
<1>2. \A row \in ledger : row \in Rows /\ AsSent(row) \in Sent
  BY DEF TypeOK, Rows, Sent, AsSent
<1> QED BY <1>1, <1>2 DEF Live, TypeOK

\* A decision counts all that is live: its clock is not ahead of the others'.
LEMMA LiveCounts ==
  ASSUME LedgerInv, NEW w \in Workers, request[w].phase = "asking", NEW i \in Spellings
  PROVE  /\ IsFiniteSet(LiveOf(i))
         /\ Total(LiveOf(i)) <= Spent(i, request[w].at) /\ Total(LiveOf(i)) \in Nat
         /\ Spent(i, request[w].at) \in Nat
<1> DEFINE at == request[w].at
           C == {row \in ledger : row.identity = i /\ Counts(row, at)}
           Im == {AsSent(row) : row \in C}
<1>1. TypeOK /\ at \in Nat /\ now \in Nat /\ at <= now /\ Stall <= Ttl /\ Stall \in Nat /\ Ttl \in Nat /\ Window \in Nat
  BY SentType, LedgerAssumption, StandingAssumption DEF LedgerInv, ClocksInv, TypeOK, Requests
<1>2. C \in SUBSET Rows /\ IsFiniteSet(C) /\ \A r, s \in C : r.id = s.id => r = s
  BY FS_Subset DEF LedgerInv, TypeOK, IdsInv
<1>3. LiveOf(i) \subseteq Im
  <2> SUFFICES ASSUME NEW s \in LiveOf(i) PROVE s \in Im
    OBVIOUS
  <2>1. s \in Live /\ s \in Sent /\ s.identity = i /\ s.at >= now - Window
    BY <1>1, SentType DEF LiveOf, InWindow
  <2>2. ASSUME NEW row \in ledger, AsSent(row) = s, row.state \in Issued PROVE s \in Im
    <3>1. row.identity = i /\ row.at = s.at
      BY <2>1, <2>2 DEF AsSent
    <3>2. row.at >= at - Window
      BY <1>1, <2>1, <3>1 DEF Sent
    <3> QED BY <2>2, <3>1, <3>2 DEF Counts
  <2>3. CASE s \in sent
    BY <2>1, <2>2, <2>3 DEF LedgerInv, RowsInv, InWindow
  <2>4. ASSUME NEW v \in Workers, Holding(v), s = AsSent(request[v]) PROVE s \in Im
    <3>1. s.at = request[v].at /\ request[v].at \in Nat /\ request[v].phase # "idle"
      BY <2>4, <1>1, SentType DEF AsSent, Requests, Holding
    <3>2. InWindow(request[v].at)
      BY <2>1, <3>1 DEF InWindow
    <3>3. PICK row \in ledger : /\ AsSent(row) = AsSent(request[v])
                                /\ row.state \in Issued \/ row.state = "reserved"
      BY <2>4, <3>2 DEF LedgerInv, RowsInv, HasRow
    <3>4. CASE row.state = "reserved"
      <4>1. row.identity = i /\ row.at = s.at
        BY <2>1, <2>4, <3>3 DEF AsSent
      <4>2. now <= request[v].at + Stall
        BY <3>1 DEF LedgerInv, ClocksInv
      <4>3. row.at >= at - Window /\ row.at >= at - Ttl
        BY <1>1, <2>1, <3>1, <4>1, <4>2
      <4> QED BY <2>4, <3>3, <3>4, <4>1, <4>3 DEF Counts
    <3> QED BY <2>2, <2>4, <3>3, <3>4
  <2> QED BY <2>1, <2>3, <2>4 DEF Live
<1>4. IsFiniteSet(Im) /\ Total(Im) = Total(C)
  <2> HIDE DEF C
  <2> QED BY <1>2, TotalAsSent
<1>5. \A s \in Im : s.usd \in Nat
  BY <1>2 DEF AsSent, Rows
<1>6. Total(C) \in Nat
  <2>1. \A r \in C : r.usd \in Nat
    BY <1>2 DEF Rows
  <2> HIDE DEF C
  <2> QED BY <1>2, <2>1, TotalType
<1>7. Spent(i, at) = Total(C)
  BY DEF Spent
<1> HIDE DEF Im, C, at
<1>8. Total(LiveOf(i)) <= Total(Im) /\ Total(LiveOf(i)) \in Nat
  BY <1>3, <1>4, <1>5, TotalOfFewer
<1>9. IsFiniteSet(LiveOf(i))
  BY <1>3, <1>4, FS_Subset
<1>10. /\ IsFiniteSet(LiveOf(i)) /\ Total(LiveOf(i)) <= Spent(i, at) /\ Total(LiveOf(i)) \in Nat
       /\ Spent(i, at) \in Nat
  BY <1>4, <1>6, <1>7, <1>8, <1>9
<1> QED BY <1>10 DEF at

\* What is live is finite at any time, since every one of it has a row.
LEMMA LiveFinite ==
  ASSUME LedgerInv, NEW i \in Spellings
  PROVE  IsFiniteSet(LiveOf(i)) /\ \A s \in LiveOf(i) : s.usd \in Nat
<1> DEFINE m == [row \in ledger |-> AsSent(row)]
           Im == {m[row] : row \in ledger}
<1>1. LiveOf(i) \subseteq Im
  <2> SUFFICES ASSUME NEW s \in LiveOf(i) PROVE \E row \in ledger : AsSent(row) = s
    OBVIOUS
  <2>1. s \in Live /\ InWindow(s.at)
    BY DEF LiveOf
  <2>2. ASSUME NEW v \in Workers, Holding(v), s = AsSent(request[v]) PROVE \E row \in ledger : AsSent(row) = s
    <3>1. InWindow(request[v].at)
      BY <2>1, <2>2 DEF AsSent
    <3> QED BY <2>2, <3>1 DEF LedgerInv, RowsInv, HasRow
  <2> QED BY <2>1, <2>2 DEF Live, LedgerInv, RowsInv
<1>2. IsFiniteSet(ledger)
  BY DEF LedgerInv
<1> HIDE DEF m
<1>3. IsFiniteSet(Im)
  BY <1>2, ImageFinite
<1>4. IsFiniteSet(LiveOf(i))
  BY <1>1, <1>3, FS_Subset
<1>5. \A s \in LiveOf(i) : s.usd \in Nat
  BY SentType DEF LiveOf, LedgerInv, Sent
<1> QED BY <1>4, <1>5

\* Less that is live is still within the cap.
LEMMA LessIsWithin ==
  ASSUME LedgerInv, Live' \subseteq Live, now' >= now, now' \in Nat
  PROVE  CapInv'
<1> SUFFICES ASSUME NEW i \in Spellings PROVE Total(LiveOf(i)') <= Cap
  BY DEF CapInv, Total
<1>1. LiveOf(i)' \subseteq LiveOf(i)
  <2> SUFFICES ASSUME NEW s \in LiveOf(i)' PROVE s \in LiveOf(i)
    OBVIOUS
  <2>1. s \in Live /\ s.identity = i /\ s.at >= now' - Window
    BY DEF LiveOf, InWindow
  <2>2. s.at \in Int /\ now \in Nat /\ Window \in Nat
    BY <2>1, SentType, LedgerAssumption DEF LedgerInv, TypeOK, Sent
  <2>3. s.at >= now - Window
    BY <2>1, <2>2
  <2> QED BY <2>1, <2>3 DEF LiveOf, InWindow
<1>2. Total(LiveOf(i)') <= Total(LiveOf(i)) /\ Total(LiveOf(i)') \in Nat
  BY <1>1, LiveFinite, TotalOfFewer
<1>3. Total(LiveOf(i)) <= Cap
  BY DEF LedgerInv, CapInv
<1>4. Total(LiveOf(i)) \in Nat
  BY LiveFinite, TotalType
<1> QED BY <1>2, <1>3, <1>4, LedgerAssumption

-----------------------------------------------------------------------------
(* Each step *)

\* What is held is live, under an id that was handed out.
LEMMA HeldIds ==
  ASSUME LedgerInv, NEW v \in Workers, Holding(v)
  PROVE  AsSent(request[v]) \in Live /\ request[v].id < nextId /\ request[v].id \in Nat
<1>1. AsSent(request[v]) \in Live
  BY DEF Live
<1>2. AsSent(request[v]).id = request[v].id
  BY DEF AsSent
<1>3. AsSent(request[v]).id < nextId
  BY <1>1 DEF LedgerInv, IdsInv
<1>4. request[v].id \in Nat
  BY SentType DEF LedgerInv, Requests
<1> QED BY <1>1, <1>2, <1>3, <1>4

\* A worker at rest.
LEMMA IdleIsRequest == Idle \in Requests /\ Idle.phase = "idle"
BY LedgerAssumption DEF Idle, Requests, Phases

\* What a worker's own step does to the requests.
LEMMA OneRequest ==
  ASSUME LedgerInv, NEW w \in Workers, NEW r \in Requests, request' = [request EXCEPT ![w] = r]
  PROVE  /\ request' \in [Workers -> Requests] /\ request'[w] = r
         /\ \A v \in Workers \ {w} : request'[v] = request[v] /\ Holding(v)' = Holding(v)
         /\ Holding(w)' <=> r.phase \in {"reserved", "signed"}
BY DEF LedgerInv, TypeOK, Holding

\* A worker that gives up holds nothing; whoever holds something held it before.
LEMMA OneFewer ==
  ASSUME LedgerInv, NEW w \in Workers, NEW r \in Requests, r.phase \in {"idle", "asking"},
         request' = [request EXCEPT ![w] = r], sent' \subseteq sent
  PROVE  /\ Live' \subseteq Live
         /\ \A v \in Workers : Holding(v)' => v # w /\ Holding(v) /\ request'[v] = request[v]
<1>1. \A v \in Workers : Holding(v)' => v # w /\ Holding(v) /\ request'[v] = request[v]
  BY OneRequest
<1> QED BY <1>1 DEF Live

\* A sweep drops nothing that is still in the window.
LEMMA SweptKeeps ==
  ASSUME LedgerInv, NEW w \in Workers, request[w].phase = "asking"
  PROVE  /\ Swept(request[w].at) \subseteq ledger /\ IsFiniteSet(Swept(request[w].at))
         /\ \A row \in ledger : InWindow(row.at) => row \in Swept(request[w].at)
<1>1. request[w].at <= now /\ request[w].at \in Nat /\ now \in Nat /\ Window \in Nat
  BY LedgerAssumption, SentType DEF LedgerInv, ClocksInv, TypeOK, Requests
<1>2. Swept(request[w].at) \subseteq ledger
  BY DEF Swept
<1>3. IsFiniteSet(Swept(request[w].at))
  BY <1>2, FS_Subset DEF LedgerInv
<1>4. ASSUME NEW row \in ledger, InWindow(row.at) PROVE row \in Swept(request[w].at)
  <2>1. row.at \in Int
    BY SentType DEF LedgerInv, Rows
  <2>2. row.at >= request[w].at - Window
    BY <1>1, <1>4, <2>1 DEF InWindow
  <2> QED BY <2>2 DEF Swept
<1> QED BY <1>2, <1>3, <1>4

\* Asking reads the clock and nothing else.
LEMMA AskKeeps ==
  ASSUME LedgerInv, NEW w \in Workers, NEW i \in Spellings, NEW labels \in SUBSET Actions,
         NEW usd \in Costs, Ask(w, i, labels, usd)
  PROVE  LedgerInv'
<1> DEFINE r == [phase |-> "asking", at |-> now, usd |-> usd, id |-> 0, identity |-> Canonical[i]]
<1>1. r \in Requests /\ r.phase = "asking" /\ r.at = now
  BY LedgerAssumption DEF Ask, Requests, Phases, LedgerInv, TypeOK
<1>2. request' = [request EXCEPT ![w] = r] /\ UNCHANGED <<now, ledger, sent, lost, nextId>>
      /\ request[w].phase = "idle"
  BY DEF Ask
<1> HIDE DEF r
<1>3. /\ request' \in [Workers -> Requests] /\ request'[w] = r /\ Live' \subseteq Live
      /\ \A v \in Workers \ {w} : request'[v] = request[v] /\ Holding(v)' = Holding(v)
      /\ \A v \in Workers : Holding(v)' => v # w /\ Holding(v) /\ request'[v] = request[v]
  BY <1>1, <1>2, OneRequest, OneFewer
<1>4. ~ Holding(w)
  BY <1>2 DEF Holding
<1>5. TypeOK' /\ IsFiniteSet(ledger')
  BY <1>2, <1>3 DEF LedgerInv, TypeOK
<1>6. IdsInv'
  BY <1>2, <1>3 DEF LedgerInv, IdsInv
<1>7. ClocksInv'
  BY <1>1, <1>2, <1>3, LedgerAssumption DEF LedgerInv, ClocksInv, TypeOK
<1>8. RowsInv'
  BY <1>1, <1>2, <1>3 DEF LedgerInv, RowsInv, HasRow, InWindow, Holding
<1>9. OwnersInv'
  BY <1>2, <1>3, <1>4 DEF LedgerInv, OwnersInv
<1>10. CapInv'
  BY <1>2, <1>3, LessIsWithin DEF LedgerInv, TypeOK
<1> QED BY <1>5, <1>6, <1>7, <1>8, <1>9, <1>10 DEF LedgerInv

\* A refusal sweeps what is out of the window.
LEMMA DenyKeeps ==
  ASSUME LedgerInv, NEW w \in Workers, Deny(w)
  PROVE  LedgerInv'
<1>1. /\ request[w].phase = "asking" /\ ledger' = Swept(request[w].at)
      /\ request' = [request EXCEPT ![w] = Idle] /\ UNCHANGED <<now, sent, lost, nextId>>
  BY DEF Deny
<1>2. /\ ledger' \subseteq ledger /\ IsFiniteSet(ledger')
      /\ \A row \in ledger : InWindow(row.at) => row \in ledger'
  BY <1>1, SweptKeeps
<1>3. /\ request' \in [Workers -> Requests] /\ request'[w] = Idle /\ Live' \subseteq Live
      /\ \A v \in Workers \ {w} : request'[v] = request[v] /\ Holding(v)' = Holding(v)
      /\ \A v \in Workers : Holding(v)' => v # w /\ Holding(v) /\ request'[v] = request[v]
  BY <1>1, IdleIsRequest, OneRequest, OneFewer
<1>4. ~ Holding(w)
  BY <1>1 DEF Holding
<1>5. TypeOK'
  BY <1>1, <1>2, <1>3 DEF LedgerInv, TypeOK
<1>6. IdsInv'
  BY <1>1, <1>2, <1>3 DEF LedgerInv, IdsInv
<1>7. ClocksInv'
  BY <1>1, <1>3, IdleIsRequest DEF LedgerInv, ClocksInv
<1>8. RowsInv'
  <2>1. \A s \in sent' : InWindow(s.at)' => \E row \in ledger' : AsSent(row) = s /\ row.state \in Issued
    BY <1>1, <1>2 DEF LedgerInv, RowsInv, InWindow, AsSent
  <2>2. ASSUME NEW v \in Workers, Holding(v)', InWindow(request[v].at)' PROVE HasRow(v)'
    <3>1. Holding(v) /\ request'[v] = request[v] /\ InWindow(request[v].at)
      BY <1>1, <1>3, <2>2 DEF InWindow
    <3>2. PICK row \in ledger : /\ AsSent(row) = AsSent(request[v])
                                /\ row.state \in Issued \/ (row.state = "reserved" /\ request[v].phase = "reserved")
      BY <3>1 DEF LedgerInv, RowsInv, HasRow
    <3>3. row.at = request[v].at
      BY <3>2 DEF AsSent
    <3> QED BY <1>2, <3>1, <3>2, <3>3 DEF HasRow
  <2>3. \A v \in Workers : request'[v].phase = "reserved" =>
          \A row \in ledger' : row.id = request'[v].id => row.state = "reserved"
    BY <1>2, <1>3 DEF LedgerInv, RowsInv, Holding
  <2> QED BY <2>1, <2>2, <2>3 DEF RowsInv
<1>9. OwnersInv'
  BY <1>1, <1>2, <1>3, <1>4 DEF LedgerInv, OwnersInv
<1>10. CapInv'
  BY <1>1, <1>3, LessIsWithin DEF LedgerInv, TypeOK
<1> QED BY <1>2, <1>5, <1>6, <1>7, <1>8, <1>9, <1>10 DEF LedgerInv

\* The new row fits beside all that is live.
LEMMA ReserveKeeps ==
  ASSUME LedgerInv, NEW w \in Workers, Reserve(w)
  PROVE  LedgerInv'
<1> DEFINE r == [request[w] EXCEPT !.phase = "reserved", !.id = nextId]
           new == [id |-> nextId, identity |-> request[w].identity, usd |-> request[w].usd,
                   state |-> "reserved", at |-> request[w].at]
           kept == Swept(request[w].at)
<1>1. /\ request[w].phase = "asking" /\ Fits(w) /\ ledger' = kept \cup {new} /\ nextId' = nextId + 1
      /\ request' = [request EXCEPT ![w] = r] /\ UNCHANGED <<now, sent, lost>>
  BY DEF Reserve
<1>2. /\ kept \subseteq ledger /\ IsFiniteSet(kept)
      /\ \A row \in ledger : InWindow(row.at) => row \in kept
  BY <1>1, SweptKeeps
<1>3. request[w] \in Requests /\ nextId \in Nat
  BY SentType DEF LedgerInv, TypeOK
<1>4. /\ r \in Requests /\ r.phase = "reserved" /\ r.id = nextId /\ r.at = request[w].at
      /\ r.identity = request[w].identity /\ r.usd = request[w].usd
  BY <1>3 DEF Requests, Phases
<1>5. /\ new \in Rows /\ AsSent(new) = AsSent(r) /\ new.id = nextId /\ new.state = "reserved"
      /\ AsSent(r).id = nextId /\ AsSent(r).usd = request[w].usd /\ AsSent(r).identity = request[w].identity
  BY <1>3, <1>4 DEF Rows, States, Requests, AsSent
<1> HIDE DEF r, new, kept
<1>6. /\ request' \in [Workers -> Requests] /\ request'[w] = r /\ Holding(w)'
      /\ \A v \in Workers \ {w} : request'[v] = request[v] /\ Holding(v)' = Holding(v)
  BY <1>1, <1>4, OneRequest
<1>7. ~ Holding(w)
  BY <1>1 DEF Holding
<1>8. Live' = Live \cup {AsSent(r)}
  BY <1>1, <1>6, <1>7 DEF Live
<1>9. AsSent(r) \notin Live
  <2>1. \A s \in Live : s.id < nextId
    BY DEF LedgerInv, IdsInv
  <2> QED BY <1>3, <1>5, <2>1
<1>10. TypeOK' /\ IsFiniteSet(ledger')
  <2>1. IsFiniteSet(kept \cup {new})
    BY <1>2, FS_AddElement
  <2> QED BY <1>1, <1>2, <1>3, <1>5, <1>6, <2>1 DEF LedgerInv, TypeOK
<1>11. IdsInv'
  <2>1. \A row \in ledger : row.id < nextId /\ row.id \in Nat
    BY SentType DEF LedgerInv, IdsInv, Rows
  <2>2. \A s \in Live : s.id < nextId /\ s.id \in Nat
    BY SentType DEF LedgerInv, IdsInv, Sent
  <2>3. \A p, q \in ledger' : p.id = q.id => p = q
    BY <1>1, <1>2, <1>3, <1>5, <2>1 DEF LedgerInv, IdsInv
  <2>4. (\A row \in ledger' : row.id < nextId') /\ \A s \in Live' : s.id < nextId'
    BY <1>1, <1>2, <1>3, <1>5, <1>8, <2>1, <2>2
  <2>5. \A v \in Workers : Holding(v) => request[v].id < nextId /\ request[v].id \in Nat
    BY HeldIds
  <2>6. \A s \in sent : s.id < nextId /\ s.id \in Nat
    BY <2>2 DEF Live
  <2>7. \A v \in Workers : Holding(v)' =>
          /\ \A s \in sent' : s.id # request'[v].id
          /\ \A u \in Workers : Holding(u)' /\ request'[u].id = request'[v].id => u = v
    BY <1>1, <1>3, <1>4, <1>6, <2>5, <2>6 DEF LedgerInv, IdsInv
  <2> QED BY <2>3, <2>4, <2>7 DEF IdsInv
<1>12. ClocksInv'
  BY <1>1, <1>4, <1>6 DEF LedgerInv, ClocksInv
<1>13. RowsInv'
  <2>1. \A s \in sent' : InWindow(s.at)' => \E row \in ledger' : AsSent(row) = s /\ row.state \in Issued
    BY <1>1, <1>2 DEF LedgerInv, RowsInv, InWindow, AsSent
  <2>2. ASSUME NEW v \in Workers, Holding(v)', InWindow(request[v].at)' PROVE HasRow(v)'
    <3>1. CASE v = w
      BY <1>1, <1>4, <1>5, <1>6, <3>1 DEF HasRow
    <3>2. CASE v # w
      <4>1. Holding(v) /\ request'[v] = request[v] /\ InWindow(request[v].at)
        BY <1>1, <1>6, <2>2, <3>2 DEF InWindow
      <4>2. PICK row \in ledger : /\ AsSent(row) = AsSent(request[v])
                                  /\ row.state \in Issued \/ (row.state = "reserved" /\ request[v].phase = "reserved")
        BY <4>1 DEF LedgerInv, RowsInv, HasRow
      <4>3. row.at = request[v].at
        BY <4>2 DEF AsSent
      <4> QED BY <1>1, <1>2, <4>1, <4>2, <4>3 DEF HasRow
    <3> QED BY <3>1, <3>2
  <2>3. \A row \in ledger : row.id < nextId /\ row.id \in Nat
    BY SentType DEF LedgerInv, IdsInv, Rows
  <2>4. \A v \in Workers : Holding(v) => request[v].id < nextId /\ request[v].id \in Nat
    BY HeldIds
  <2>5. \A v \in Workers : request'[v].phase = "reserved" =>
          \A row \in ledger' : row.id = request'[v].id => row.state = "reserved"
    BY <1>1, <1>2, <1>3, <1>4, <1>5, <1>6, <2>3, <2>4 DEF LedgerInv, RowsInv, Holding
  <2> QED BY <2>1, <2>2, <2>5 DEF RowsInv
<1>14. OwnersInv'
  <2> SUFFICES ASSUME NEW row \in ledger'
               PROVE  \/ \E s \in sent' : s.id = row.id
                      \/ \E v \in Workers : Holding(v)' /\ request'[v].id = row.id
                      \/ row.id \in lost'
    BY DEF OwnersInv
  <2>1. CASE row = new
    BY <1>4, <1>5, <1>6, <2>1
  <2>2. CASE row \in ledger
    BY <1>1, <1>6, <1>7, <2>2 DEF LedgerInv, OwnersInv
  <2> QED BY <1>1, <1>2, <2>1, <2>2
<1>15. CapInv'
  <2> SUFFICES ASSUME NEW i \in Spellings PROVE Total(LiveOf(i)') <= Cap
    BY DEF CapInv, Total
  <2>1. CASE i = request[w].identity /\ AsSent(r) \in LiveOf(i)'
    <3>1. LiveOf(i)' = LiveOf(i) \cup {AsSent(r)} /\ AsSent(r) \notin LiveOf(i)
      BY <1>1, <1>8, <1>9, <2>1 DEF LiveOf, InWindow
    <3>2. AsSent(r).usd \in Nat /\ request[w].usd \in Nat
      BY <1>3, <1>5 DEF Requests
    <3>3. Total(LiveOf(i) \cup {AsSent(r)}) = AsSent(r).usd + Total(LiveOf(i))
      BY <3>1, <3>2, LiveFinite, TotalOfOneMore
    <3>4. Total(LiveOf(i)) <= Spent(i, request[w].at) /\ Total(LiveOf(i)) \in Nat /\ Spent(i, request[w].at) \in Nat
      BY <1>1, LiveCounts
    <3>5. Spent(i, request[w].at) + request[w].usd <= Cap
      BY <1>1, <2>1 DEF Fits
    <3>6. request[w].usd + Total(LiveOf(i)) <= Cap
      BY <3>2, <3>4, <3>5, LedgerAssumption
    <3> QED BY <1>5, <3>1, <3>3, <3>6
  <2>2. CASE ~(i = request[w].identity /\ AsSent(r) \in LiveOf(i)')
    <3>1. LiveOf(i)' = LiveOf(i)
      BY <1>1, <1>5, <1>8, <2>2 DEF LiveOf, InWindow
    <3> QED BY <3>1 DEF LedgerInv, CapInv
  <2> QED BY <2>1, <2>2
<1> QED BY <1>10, <1>11, <1>12, <1>13, <1>14, <1>15 DEF LedgerInv
\* A signature that fails gives its reservation back before anything can land.
LEMMA SigningFailsKeeps ==
  ASSUME LedgerInv, NEW w \in Workers, SigningFails(w)
  PROVE  LedgerInv'
<1> DEFINE n == request[w].id
<1>1. /\ request[w].phase = "reserved" /\ ledger' = {row \in ledger : ~(row.id = n /\ row.state = "reserved")}
      /\ request' = [request EXCEPT ![w] = Idle] /\ UNCHANGED <<now, sent, lost, nextId>>
  BY DEF SigningFails, Release
<1>2. ledger' \subseteq ledger /\ IsFiniteSet(ledger')
  BY <1>1, FS_Subset DEF LedgerInv
<1>3. /\ request' \in [Workers -> Requests] /\ request'[w] = Idle /\ Live' \subseteq Live
      /\ \A v \in Workers \ {w} : request'[v] = request[v] /\ Holding(v)' = Holding(v)
      /\ \A v \in Workers : Holding(v)' => v # w /\ Holding(v) /\ request'[v] = request[v]
  BY <1>1, IdleIsRequest, OneRequest, OneFewer
<1>4. \A row \in ledger : row.id # n => row \in ledger'
  BY <1>1
<1>5. \A row \in ledger' : row.id # n
  BY <1>1 DEF LedgerInv, RowsInv
<1>6. (\A s \in sent : s.id # n) /\ \A v \in Workers : Holding(v) /\ v # w => request[v].id # n
  BY <1>1 DEF LedgerInv, IdsInv, Holding
<1> HIDE DEF n
<1>7. TypeOK'
  BY <1>1, <1>2, <1>3 DEF LedgerInv, TypeOK
<1>8. IdsInv'
  BY <1>1, <1>2, <1>3 DEF LedgerInv, IdsInv
<1>9. ClocksInv'
  BY <1>1, <1>3, IdleIsRequest DEF LedgerInv, ClocksInv
<1>10. RowsInv'
  <2>1. \A s \in sent' : InWindow(s.at)' => \E row \in ledger' : AsSent(row) = s /\ row.state \in Issued
    BY <1>1, <1>4, <1>6 DEF LedgerInv, RowsInv, InWindow, AsSent
  <2>2. ASSUME NEW v \in Workers, Holding(v)', InWindow(request[v].at)' PROVE HasRow(v)'
    <3>1. Holding(v) /\ v # w /\ request'[v] = request[v] /\ InWindow(request[v].at)
      BY <1>1, <1>3, <2>2 DEF InWindow
    <3>2. PICK row \in ledger : /\ AsSent(row) = AsSent(request[v])
                                /\ row.state \in Issued \/ (row.state = "reserved" /\ request[v].phase = "reserved")
      BY <3>1 DEF LedgerInv, RowsInv, HasRow
    <3>3. row.id = request[v].id
      BY <3>2 DEF AsSent
    <3> QED BY <1>4, <1>6, <3>1, <3>2, <3>3 DEF HasRow
  <2>3. \A v \in Workers : request'[v].phase = "reserved" =>
          \A row \in ledger' : row.id = request'[v].id => row.state = "reserved"
    BY <1>2, <1>3 DEF LedgerInv, RowsInv, Holding
  <2> QED BY <2>1, <2>2, <2>3 DEF RowsInv
<1>11. OwnersInv'
  <2> SUFFICES ASSUME NEW row \in ledger'
               PROVE  \/ \E s \in sent' : s.id = row.id
                      \/ \E v \in Workers : Holding(v)' /\ request'[v].id = row.id
                      \/ row.id \in lost'
    BY DEF OwnersInv
  <2> QED BY <1>1, <1>2, <1>3, <1>5 DEF LedgerInv, OwnersInv, n
<1>12. CapInv'
  BY <1>1, <1>3, LessIsWithin DEF LedgerInv, TypeOK
<1> QED BY <1>2, <1>7, <1>8, <1>9, <1>10, <1>11, <1>12 DEF LedgerInv

\* A signature commits its reservation.
LEMMA SignAndCommitKeeps ==
  ASSUME LedgerInv, NEW w \in Workers, SignAndCommit(w)
  PROVE  LedgerInv'
<1> DEFINE n == request[w].id
           r == [request[w] EXCEPT !.phase = "signed"]
           signed(row) == IF row.id = n /\ row.state = "reserved" THEN [row EXCEPT !.state = "signed"] ELSE row
           m == [row \in ledger |-> signed(row)]
<1>1. /\ request[w].phase = "reserved" /\ ledger' = {signed(row) : row \in ledger}
      /\ request' = [request EXCEPT ![w] = r] /\ UNCHANGED <<now, sent, lost, nextId>>
  BY DEF SignAndCommit, Commit
<1>2. request[w] \in Requests /\ \A row \in ledger : row \in Rows
  BY SentType DEF LedgerInv
<1>3. r \in Requests /\ r.phase = "signed" /\ AsSent(r) = AsSent(request[w]) /\ r.id = n /\ r.at = request[w].at
  BY <1>2 DEF Requests, Phases, AsSent
<1>4. \A row \in ledger : /\ signed(row) \in Rows /\ AsSent(signed(row)) = AsSent(row)
                          /\ signed(row).id = row.id /\ signed(row).at = row.at
                          /\ row.state \in Issued => signed(row).state \in Issued
                          /\ row.id # n => signed(row) = row
                          /\ row.id = n => signed(row).state \in Issued
  <2> SUFFICES ASSUME NEW row \in ledger
               PROVE  /\ signed(row) \in Rows /\ AsSent(signed(row)) = AsSent(row)
                      /\ signed(row).id = row.id /\ signed(row).at = row.at
                      /\ row.state \in Issued => signed(row).state \in Issued
                      /\ row.id # n => signed(row) = row
                      /\ row.id = n => signed(row).state \in Issued
    OBVIOUS
  <2>1. row.id = n => row.state = "reserved"
    BY <1>1 DEF LedgerInv, RowsInv
  <2> QED BY <1>2, <2>1 DEF Rows, States, Issued, AsSent
<1>5. ledger' = {m[row] : row \in ledger}
  BY <1>1
<1> HIDE DEF r, n, signed
<1>6. IsFiniteSet(ledger')
  <2> HIDE DEF m
  <2> QED BY <1>5, ImageFinite DEF LedgerInv
<1>7. \A row \in ledger' : \E p \in ledger : row = signed(p)
  BY <1>1
<1>8. \A p \in ledger : signed(p) \in ledger'
  BY <1>1
<1>9. /\ request' \in [Workers -> Requests] /\ request'[w] = r /\ Holding(w)' /\ Holding(w)
      /\ \A v \in Workers \ {w} : request'[v] = request[v] /\ Holding(v)' = Holding(v)
  BY <1>1, <1>3, OneRequest DEF Holding
<1>10. \A v \in Workers : /\ Holding(v)' = Holding(v) /\ AsSent(request'[v]) = AsSent(request[v])
                          /\ request'[v].id = request[v].id /\ request'[v].at = request[v].at
  <2> SUFFICES ASSUME NEW v \in Workers
               PROVE  /\ Holding(v)' = Holding(v) /\ AsSent(request'[v]) = AsSent(request[v])
                      /\ request'[v].id = request[v].id /\ request'[v].at = request[v].at
    OBVIOUS
  <2>1. CASE v = w
    <3>1. Holding(v)' = Holding(v)
      BY <1>9, <2>1, Zenon
    <3> QED BY <1>3, <1>9, <2>1, <3>1 DEF n
  <2>2. CASE v # w
    <3>1. request'[v] = request[v] /\ Holding(v)' = Holding(v)
      BY <1>9, <2>2
    <3> QED BY <3>1
  <2> QED BY <2>1, <2>2
<1>11. Live' = Live
  <2>1. \A v \in Workers : AsSent(request[v])' = AsSent(request[v])
    BY <1>10
  <2> QED BY <1>1, <1>10, <2>1 DEF Live
<1>12. TypeOK'
  BY <1>1, <1>4, <1>7, <1>9 DEF LedgerInv, TypeOK
<1>13. IdsInv'
  <2>1. (\A p, q \in ledger' : p.id = q.id => p = q) /\ \A p \in ledger' : p.id < nextId'
    BY <1>1, <1>4, <1>7 DEF LedgerInv, IdsInv
  <2> QED BY <1>1, <1>10, <1>11, <2>1 DEF LedgerInv, IdsInv
<1>14. ClocksInv'
  BY <1>1, <1>3, <1>9 DEF LedgerInv, ClocksInv
<1>15. RowsInv'
  <2>1. \A s \in sent' : InWindow(s.at)' => \E row \in ledger' : AsSent(row) = s /\ row.state \in Issued
    BY <1>1, <1>4, <1>8 DEF LedgerInv, RowsInv, InWindow
  <2>2. ASSUME NEW v \in Workers, Holding(v)', InWindow(request[v].at)' PROVE HasRow(v)'
    <3>1. Holding(v) /\ AsSent(request'[v]) = AsSent(request[v]) /\ InWindow(request[v].at)
      BY <1>1, <1>10, <2>2 DEF InWindow
    <3>2. PICK row \in ledger : /\ AsSent(row) = AsSent(request[v])
                                /\ row.state \in Issued \/ (row.state = "reserved" /\ request[v].phase = "reserved")
      BY <3>1 DEF LedgerInv, RowsInv, HasRow
    <3>3. row.id = request[v].id
      BY <3>2 DEF AsSent
    <3>4. signed(row) \in ledger' /\ AsSent(signed(row)) = AsSent(request'[v])
      BY <1>4, <1>8, <3>1, <3>2
    <3>5. CASE v = w
      <4>1. signed(row).state \in Issued
        BY <1>4, <3>3, <3>5 DEF n
      <4> QED BY <3>4, <4>1 DEF HasRow
    <3>6. CASE v # w
      <4>1. request[v].id # n
        BY <1>9, <3>1, <3>6 DEF LedgerInv, IdsInv, n
      <4> QED BY <1>4, <1>9, <3>2, <3>3, <3>4, <3>6, <4>1 DEF HasRow
    <3> QED BY <3>5, <3>6
  <2>3. ASSUME NEW v \in Workers, request'[v].phase = "reserved", NEW row \in ledger', row.id = request'[v].id
        PROVE  row.state = "reserved"
    <3>1. v # w /\ Holding(v) /\ request'[v] = request[v]
      BY <1>3, <1>9, <2>3 DEF Holding
    <3>2. request[v].id # n
      BY <1>9, <3>1 DEF LedgerInv, IdsInv, n
    <3>3. PICK p \in ledger : row = signed(p)
      BY <1>7
    <3>4. p.id = request[v].id /\ row = p
      BY <1>4, <2>3, <3>1, <3>2, <3>3
    <3> QED BY <2>3, <3>1, <3>4 DEF LedgerInv, RowsInv
  <2> QED BY <2>1, <2>2, <2>3 DEF RowsInv
<1>16. OwnersInv'
  <2> SUFFICES ASSUME NEW row \in ledger'
               PROVE  \/ \E s \in sent' : s.id = row.id
                      \/ \E v \in Workers : Holding(v)' /\ request'[v].id = row.id
                      \/ row.id \in lost'
    BY DEF OwnersInv
  <2>1. PICK p \in ledger : row = signed(p)
    BY <1>7
  <2>2. p.id = row.id
    BY <1>4, <2>1
  <2> QED BY <1>1, <1>10, <2>2 DEF LedgerInv, OwnersInv
<1>17. CapInv'
  BY <1>1, <1>11, LessIsWithin DEF LedgerInv, TypeOK
<1> QED BY <1>6, <1>12, <1>13, <1>14, <1>15, <1>16, <1>17 DEF LedgerInv

\* What is handed over may land from then on.
LEMMA HandOverKeeps ==
  ASSUME LedgerInv, NEW w \in Workers, HandOver(w)
  PROVE  LedgerInv'
<1> DEFINE s0 == AsSent(request[w])
<1>1. /\ request[w].phase = "signed" /\ sent' = sent \cup {s0}
      /\ request' = [request EXCEPT ![w] = Idle] /\ UNCHANGED <<now, ledger, lost, nextId>>
  BY DEF HandOver
<1>2. /\ request' \in [Workers -> Requests] /\ request'[w] = Idle /\ ~ Holding(w)' /\ Holding(w)
      /\ \A v \in Workers \ {w} : request'[v] = request[v] /\ Holding(v)' = Holding(v)
  BY <1>1, IdleIsRequest, OneRequest DEF Holding
<1>3. s0 \in Sent /\ s0.id = request[w].id /\ s0.at = request[w].at
  BY SentType DEF AsSent, LedgerInv
<1> HIDE DEF s0
<1>4. Live' = Live
  BY <1>1, <1>2 DEF Live, s0
<1>5. \A v \in Workers : Holding(v)' => v # w /\ Holding(v) /\ request'[v] = request[v]
  BY <1>2
<1>6. TypeOK'
  BY <1>1, <1>2, <1>3 DEF LedgerInv, TypeOK
<1>7. IdsInv'
  <2>1. \A v \in Workers : Holding(v)' => request[v].id # s0.id
    BY <1>2, <1>3, <1>5 DEF LedgerInv, IdsInv
  <2> QED BY <1>1, <1>4, <1>5, <2>1 DEF LedgerInv, IdsInv
<1>8. ClocksInv'
  BY <1>1, <1>2, IdleIsRequest DEF LedgerInv, ClocksInv
<1>9. RowsInv'
  <2>1. ASSUME NEW s \in sent', InWindow(s.at)'
        PROVE  \E row \in ledger' : AsSent(row) = s /\ row.state \in Issued
    <3>1. CASE s \in sent
      BY <1>1, <2>1, <3>1 DEF LedgerInv, RowsInv, InWindow
    <3>2. CASE s = s0
      <4>1. HasRow(w)
        BY <1>1, <1>2, <1>3, <2>1, <3>2 DEF LedgerInv, RowsInv, InWindow
      <4> QED BY <1>1, <3>2, <4>1 DEF HasRow, s0
    <3> QED BY <1>1, <2>1, <3>1, <3>2
  <2>2. ASSUME NEW v \in Workers, Holding(v)', InWindow(request[v].at)' PROVE HasRow(v)'
    BY <1>1, <1>5, <2>2 DEF LedgerInv, RowsInv, HasRow, InWindow
  <2>3. \A v \in Workers : request'[v].phase = "reserved" =>
          \A row \in ledger' : row.id = request'[v].id => row.state = "reserved"
    BY <1>1, <1>2, IdleIsRequest DEF LedgerInv, RowsInv
  <2> QED BY <2>1, <2>2, <2>3 DEF RowsInv
<1>10. OwnersInv'
  <2> SUFFICES ASSUME NEW row \in ledger
               PROVE  \/ \E s \in sent' : s.id = row.id
                      \/ \E v \in Workers : Holding(v)' /\ request'[v].id = row.id
                      \/ row.id \in lost'
    BY <1>1 DEF OwnersInv
  <2> QED BY <1>1, <1>2, <1>3 DEF LedgerInv, OwnersInv
<1>11. CapInv'
  BY <1>1, <1>4, LessIsWithin DEF LedgerInv, TypeOK
<1> QED BY <1>1, <1>6, <1>7, <1>8, <1>9, <1>10, <1>11 DEF LedgerInv

\* A worker that dies leaves its row behind.
LEMMA DiesKeeps ==
  ASSUME LedgerInv, NEW w \in Workers, Dies(w)
  PROVE  LedgerInv'
<1>1. /\ request[w].phase # "idle" /\ lost' = IF request[w].phase = "asking" THEN lost ELSE lost \cup {request[w].id}
      /\ request' = [request EXCEPT ![w] = Idle] /\ UNCHANGED <<now, ledger, sent, nextId>>
  BY DEF Dies
<1>2. /\ request' \in [Workers -> Requests] /\ request'[w] = Idle /\ Live' \subseteq Live
      /\ \A v \in Workers \ {w} : request'[v] = request[v] /\ Holding(v)' = Holding(v)
      /\ \A v \in Workers : Holding(v)' => v # w /\ Holding(v) /\ request'[v] = request[v]
  BY <1>1, IdleIsRequest, OneRequest, OneFewer
<1>3. request[w].id \in Nat
  BY SentType DEF LedgerInv, Requests
<1>4. TypeOK'
  BY <1>1, <1>2, <1>3 DEF LedgerInv, TypeOK
<1>5. IdsInv'
  BY <1>1, <1>2 DEF LedgerInv, IdsInv
<1>6. ClocksInv'
  BY <1>1, <1>2, IdleIsRequest DEF LedgerInv, ClocksInv
<1>7. RowsInv'
  <2>1. \A s \in sent' : InWindow(s.at)' => \E row \in ledger' : AsSent(row) = s /\ row.state \in Issued
    BY <1>1 DEF LedgerInv, RowsInv, InWindow
  <2>2. ASSUME NEW v \in Workers, Holding(v)', InWindow(request[v].at)' PROVE HasRow(v)'
    BY <1>1, <1>2, <2>2 DEF LedgerInv, RowsInv, HasRow, InWindow
  <2>3. \A v \in Workers : request'[v].phase = "reserved" =>
          \A row \in ledger' : row.id = request'[v].id => row.state = "reserved"
    BY <1>1, <1>2, IdleIsRequest DEF LedgerInv, RowsInv
  <2> QED BY <2>1, <2>2, <2>3 DEF RowsInv
<1>8. OwnersInv'
  <2> SUFFICES ASSUME NEW row \in ledger
               PROVE  \/ \E s \in sent' : s.id = row.id
                      \/ \E v \in Workers : Holding(v)' /\ request'[v].id = row.id
                      \/ row.id \in lost'
    BY <1>1 DEF OwnersInv
  <2>1. CASE Holding(w) /\ request[w].id = row.id
    BY <1>1, <2>1 DEF Holding
  <2>2. CASE ~(Holding(w) /\ request[w].id = row.id)
    BY <1>1, <1>2, <2>2 DEF LedgerInv, OwnersInv
  <2> QED BY <2>1, <2>2
<1>9. CapInv'
  BY <1>1, <1>2, LessIsWithin DEF LedgerInv, TypeOK
<1> QED BY <1>1, <1>4, <1>5, <1>6, <1>7, <1>8, <1>9 DEF LedgerInv

\* A receipt turns what was issued into what was spent.
LEMMA SettleKeeps ==
  ASSUME LedgerInv, NEW s0 \in sent, Settle(s0)
  PROVE  LedgerInv'
<1> DEFINE settled(row) == IF row.id = s0.id THEN [row EXCEPT !.state = "spent"] ELSE row
           m == [row \in ledger |-> settled(row)]
<1>1. ledger' = {settled(row) : row \in ledger} /\ UNCHANGED <<now, request, sent, lost, nextId>>
  BY DEF Settle
<1>2. \A row \in ledger : /\ settled(row) \in Rows /\ AsSent(settled(row)) = AsSent(row)
                          /\ settled(row).id = row.id /\ settled(row).at = row.at
                          /\ row.state \in Issued => settled(row).state \in Issued
                          /\ row.id # s0.id => settled(row) = row
  BY SentType DEF LedgerInv, Rows, States, Issued, AsSent
<1>3. ledger' = {m[row] : row \in ledger}
  BY <1>1
<1>4. \A v \in Workers : Holding(v) => request[v].id # s0.id
  BY DEF LedgerInv, IdsInv
<1> HIDE DEF settled
<1>5. IsFiniteSet(ledger')
  <2> HIDE DEF m
  <2> QED BY <1>3, ImageFinite DEF LedgerInv
<1>6. (\A row \in ledger' : \E p \in ledger : row = settled(p)) /\ \A p \in ledger : settled(p) \in ledger'
  BY <1>1
<1>7. Live' = Live /\ \A v \in Workers : Holding(v)' = Holding(v)
  BY <1>1 DEF Live, Holding
<1>8. TypeOK'
  BY <1>1, <1>2, <1>6 DEF LedgerInv, TypeOK
<1>9. IdsInv'
  <2>1. (\A p, q \in ledger' : p.id = q.id => p = q) /\ \A p \in ledger' : p.id < nextId'
    BY <1>1, <1>2, <1>6 DEF LedgerInv, IdsInv
  <2> QED BY <1>1, <1>7, <2>1 DEF LedgerInv, IdsInv
<1>10. ClocksInv'
  BY <1>1 DEF LedgerInv, ClocksInv
<1>11. RowsInv'
  <2>1. \A s \in sent' : InWindow(s.at)' => \E row \in ledger' : AsSent(row) = s /\ row.state \in Issued
    BY <1>1, <1>2, <1>6 DEF LedgerInv, RowsInv, InWindow
  <2>2. ASSUME NEW v \in Workers, Holding(v)', InWindow(request[v].at)' PROVE HasRow(v)'
    <3>1. Holding(v) /\ InWindow(request[v].at)
      BY <1>1, <1>7, <2>2 DEF InWindow
    <3>2. PICK row \in ledger : /\ AsSent(row) = AsSent(request[v])
                                /\ row.state \in Issued \/ (row.state = "reserved" /\ request[v].phase = "reserved")
      BY <3>1 DEF LedgerInv, RowsInv, HasRow
    <3>3. row.id = request[v].id
      BY <3>2 DEF AsSent
    <3>4. settled(row) = row /\ row \in ledger'
      BY <1>2, <1>4, <1>6, <3>1, <3>3
    <3> QED BY <1>1, <3>2, <3>4 DEF HasRow
  <2>3. ASSUME NEW v \in Workers, request'[v].phase = "reserved", NEW row \in ledger', row.id = request'[v].id
        PROVE  row.state = "reserved"
    <3>1. Holding(v) /\ request'[v] = request[v]
      BY <1>1, <2>3 DEF Holding
    <3>2. PICK p \in ledger : row = settled(p)
      BY <1>6
    <3>3. p.id = request[v].id /\ row = p
      BY <1>2, <1>4, <2>3, <3>1, <3>2
    <3> QED BY <2>3, <3>1, <3>3 DEF LedgerInv, RowsInv
  <2> QED BY <2>1, <2>2, <2>3 DEF RowsInv
<1>12. OwnersInv'
  <2> SUFFICES ASSUME NEW row \in ledger'
               PROVE  \/ \E s \in sent' : s.id = row.id
                      \/ \E v \in Workers : Holding(v)' /\ request'[v].id = row.id
                      \/ row.id \in lost'
    BY DEF OwnersInv
  <2>1. PICK p \in ledger : row = settled(p)
    BY <1>6
  <2>2. p.id = row.id
    BY <1>2, <2>1
  <2> QED BY <1>1, <1>7, <2>2 DEF LedgerInv, OwnersInv
<1>13. CapInv'
  BY <1>1, <1>7, LessIsWithin DEF LedgerInv, TypeOK
<1> QED BY <1>5, <1>8, <1>9, <1>10, <1>11, <1>12, <1>13 DEF LedgerInv

\* What is given up can land no more.
LEMMA AbandonKeeps ==
  ASSUME LedgerInv, NEW s0 \in sent, Abandon(s0)
  PROVE  LedgerInv'
<1>1. /\ ledger' = {row \in ledger : ~(row.id = s0.id /\ row.state # "spent")}
      /\ sent' = {t \in sent : t.id # s0.id \/ \E row \in ledger : row.id = s0.id /\ row.state = "spent"}
      /\ UNCHANGED <<now, request, lost, nextId>>
  BY DEF Abandon, Drop
<1>2. ledger' \subseteq ledger /\ IsFiniteSet(ledger') /\ sent' \subseteq sent
  BY <1>1, FS_Subset DEF LedgerInv
<1>3. \A row \in ledger : row.id # s0.id => row \in ledger'
  BY <1>1
<1>4. \A v \in Workers : Holding(v) => request[v].id # s0.id
  BY DEF LedgerInv, IdsInv
<1>5. Live' \subseteq Live /\ \A v \in Workers : Holding(v)' = Holding(v)
  BY <1>1, <1>2 DEF Live, Holding
<1>6. TypeOK'
  BY <1>1, <1>2 DEF LedgerInv, TypeOK
<1>7. IdsInv'
  BY <1>1, <1>2, <1>5 DEF LedgerInv, IdsInv
<1>8. ClocksInv'
  BY <1>1 DEF LedgerInv, ClocksInv
<1>9. RowsInv'
  <2>1. ASSUME NEW s \in sent', InWindow(s.at)'
        PROVE  \E row \in ledger' : AsSent(row) = s /\ row.state \in Issued
    <3>1. PICK row \in ledger : AsSent(row) = s /\ row.state \in Issued
      BY <1>1, <1>2, <2>1 DEF LedgerInv, RowsInv, InWindow
    <3>2. row.id = s.id
      BY <3>1 DEF AsSent
    <3>3. CASE s.id # s0.id
      BY <1>3, <3>1, <3>2, <3>3
    <3>4. CASE s.id = s0.id
      <4>1. PICK p \in ledger : p.id = s0.id /\ p.state = "spent"
        BY <1>1, <3>4
      <4>2. p = row
        BY <3>2, <3>4, <4>1 DEF LedgerInv, IdsInv
      <4> QED BY <1>1, <3>1, <4>1, <4>2
    <3> QED BY <3>3, <3>4
  <2>2. ASSUME NEW v \in Workers, Holding(v)', InWindow(request[v].at)' PROVE HasRow(v)'
    <3>1. Holding(v) /\ InWindow(request[v].at)
      BY <1>1, <1>5, <2>2 DEF InWindow
    <3>2. PICK row \in ledger : /\ AsSent(row) = AsSent(request[v])
                                /\ row.state \in Issued \/ (row.state = "reserved" /\ request[v].phase = "reserved")
      BY <3>1 DEF LedgerInv, RowsInv, HasRow
    <3>3. row.id = request[v].id
      BY <3>2 DEF AsSent
    <3> QED BY <1>1, <1>3, <1>4, <3>1, <3>2, <3>3 DEF HasRow
  <2>3. \A v \in Workers : request'[v].phase = "reserved" =>
          \A row \in ledger' : row.id = request'[v].id => row.state = "reserved"
    BY <1>1, <1>2 DEF LedgerInv, RowsInv
  <2> QED BY <2>1, <2>2, <2>3 DEF RowsInv
<1>10. OwnersInv'
  <2> SUFFICES ASSUME NEW row \in ledger'
               PROVE  \/ \E s \in sent' : s.id = row.id
                      \/ \E v \in Workers : Holding(v)' /\ request'[v].id = row.id
                      \/ row.id \in lost'
    BY DEF OwnersInv
  <2>1. row \in ledger /\ (row.id = s0.id => row.state = "spent")
    BY <1>1
  <2>2. ASSUME NEW s \in sent, s.id = row.id PROVE s \in sent'
    BY <1>1, <2>1, <2>2
  <2> QED BY <1>1, <1>5, <2>1, <2>2 DEF LedgerInv, OwnersInv
<1>11. CapInv'
  BY <1>1, <1>5, LessIsWithin DEF LedgerInv, TypeOK
<1> QED BY <1>2, <1>6, <1>7, <1>8, <1>9, <1>10, <1>11 DEF LedgerInv

\* Time passes no further than the workers' clocks allow.
LEMMA TickKeeps ==
  ASSUME LedgerInv, Tick
  PROVE  LedgerInv'
<1>1. /\ now' = now + 1 /\ UNCHANGED <<ledger, request, sent, lost, nextId>>
      /\ \A w \in Workers : request[w].phase # "idle" => now < request[w].at + Stall
  BY DEF Tick
<1>2. now \in Nat /\ Window \in Nat /\ Stall \in Nat /\ \A w \in Workers : request[w].at \in Nat
  BY SentType, LedgerAssumption DEF LedgerInv, TypeOK, Requests
<1>3. Live' = Live /\ \A v \in Workers : Holding(v)' = Holding(v)
  BY <1>1 DEF Live, Holding
<1>4. \A at \in Int : InWindow(at)' => InWindow(at)
  BY <1>1, <1>2 DEF InWindow
<1>5. TypeOK'
  BY <1>1, <1>2 DEF LedgerInv, TypeOK
<1>6. IdsInv'
  BY <1>1, <1>3 DEF LedgerInv, IdsInv
<1>7. ClocksInv'
  BY <1>1, <1>2 DEF LedgerInv, ClocksInv
<1>8. RowsInv'
  <2>1. ASSUME NEW s \in sent', InWindow(s.at)'
        PROVE  \E row \in ledger' : AsSent(row) = s /\ row.state \in Issued
    <3>1. s \in sent /\ s.at \in Int
      BY <1>1, SentType DEF Live, Sent, LedgerInv
    <3> QED BY <1>1, <1>4, <2>1, <3>1 DEF LedgerInv, RowsInv
  <2>2. ASSUME NEW v \in Workers, Holding(v)', InWindow(request[v].at)' PROVE HasRow(v)'
    <3>1. Holding(v) /\ InWindow(request[v].at)
      BY <1>1, <1>2, <1>3, <2>2 DEF InWindow
    <3> QED BY <1>1, <3>1 DEF LedgerInv, RowsInv, HasRow
  <2>3. \A v \in Workers : request'[v].phase = "reserved" =>
          \A row \in ledger' : row.id = request'[v].id => row.state = "reserved"
    BY <1>1 DEF LedgerInv, RowsInv
  <2> QED BY <2>1, <2>2, <2>3 DEF RowsInv
<1>9. OwnersInv'
  BY <1>1, <1>3 DEF LedgerInv, OwnersInv
<1>10. CapInv'
  BY <1>1, <1>2, <1>3, LessIsWithin DEF LedgerInv
<1> QED BY <1>1, <1>5, <1>6, <1>7, <1>8, <1>9, <1>10 DEF LedgerInv

\* Every step keeps the invariant.
LEMMA LedgerStep == LedgerInv /\ [Next]_vars => LedgerInv'
<1> SUFFICES ASSUME LedgerInv, [Next]_vars PROVE LedgerInv'
  OBVIOUS
<1>1. ASSUME UNCHANGED vars PROVE LedgerInv'
  BY <1>1 DEF vars, LedgerInv, TypeOK, IdsInv, ClocksInv, RowsInv, HasRow, OwnersInv, CapInv, LiveOf, Live,
              Holding, InWindow, Total, AsSent
<1> QED
  BY <1>1, AskKeeps, ReserveKeeps, DenyKeeps, SigningFailsKeeps, SignAndCommitKeeps, HandOverKeeps,
     DiesKeeps, SettleKeeps, AbandonKeeps, TickKeeps
  DEF Next

\* At first nothing is sponsored.
LEMMA LedgerStart == Init => LedgerInv
<1> SUFFICES ASSUME Init PROVE LedgerInv
  OBVIOUS
<1>1. \A w \in Workers : request[w] = Idle /\ ~ Holding(w)
  BY IdleIsRequest DEF Init, Holding
<1>2. \A row \in Legacy : row \in Rows /\ AsSent(row) \in Sent /\ row.state \in Issued /\ AsSent(row).id = row.id
                          /\ row.at = 0 /\ AsSent(row).at = 0 /\ AsSent(row).identity = row.identity
  BY LedgerAssumption DEF LegacyRows, Rows, States, Issued, Sent, AsSent
<1>3. Cardinality(Legacy) \in Nat
  BY LedgerAssumption, FS_CardinalityType
<1>4. Live = {AsSent(row) : row \in Legacy}
  BY <1>1 DEF Init, Live
<1>5. TypeOK
  BY <1>2, <1>3, IdleIsRequest DEF Init, TypeOK
<1>6. IsFiniteSet(ledger)
  BY LedgerAssumption DEF Init
<1>7. IdsInv
  BY <1>1, <1>2, <1>4, LedgerAssumption DEF Init, IdsInv
<1>8. ClocksInv
  BY <1>1, IdleIsRequest DEF ClocksInv
<1>9. RowsInv
  BY <1>1, <1>2, IdleIsRequest DEF Init, RowsInv
<1>10. OwnersInv
  <2> SUFFICES ASSUME NEW row \in Legacy PROVE \E s \in sent : s.id = row.id
    BY DEF Init, OwnersInv
  <2> QED BY <1>2 DEF Init
<1>11. CapInv
  <2> SUFFICES ASSUME NEW i \in Spellings PROVE Total(LiveOf(i)) <= Cap
    BY DEF CapInv
  <2> DEFINE T == {row \in Legacy : row.identity = i}
  <2>1. T \in SUBSET Rows /\ IsFiniteSet(T) /\ \A r, s \in T : r.id = s.id => r = s
    BY <1>2, LedgerAssumption, FS_Subset
  <2>2. LiveOf(i) = {AsSent(row) : row \in T}
    BY <1>2, <1>4, LedgerAssumption DEF Init, LiveOf, InWindow
  <2>3. Total(T) <= Cap
    BY StandingAssumption
  <2> HIDE DEF T
  <2>4. Total({AsSent(row) : row \in T}) = Total(T)
    BY <2>1, TotalAsSent
  <2> QED BY <2>2, <2>3, <2>4
<1> QED BY <1>5, <1>6, <1>7, <1>8, <1>9, <1>10, <1>11 DEF LedgerInv

\* The sponsorship ledger's inductive invariant.
THEOREM LedgerInvariant == Spec => []LedgerInv
BY LedgerStart, LedgerStep, PTL DEF Spec

\* The signatures an address was given in the last window and that may still land
\* are within the daily cap, whatever the workers interleave and however many die.
THEOREM CapHolds == Spec => []DailyCapHolds
<1>1. LedgerInv => DailyCapHolds
  <2> SUFFICES ASSUME LedgerInv, NEW i \in Spellings
               PROVE  Total({s \in sent : s.identity = i /\ InWindow(s.at)}) <= Cap
    BY DEF DailyCapHolds
  <2> DEFINE T == {s \in sent : s.identity = i /\ InWindow(s.at)}
  <2>1. T \subseteq LiveOf(i)
    BY DEF LiveOf, Live
  <2> HIDE DEF T
  <2>2. Total(T) <= Total(LiveOf(i)) /\ Total(T) \in Nat
    BY <2>1, LiveFinite, TotalOfFewer
  <2>3. Total(LiveOf(i)) <= Cap /\ Total(LiveOf(i)) \in Nat
    BY LiveFinite, TotalType DEF LedgerInv, CapInv
  <2>4. Total(T) <= Cap
    BY <2>2, <2>3, LedgerAssumption
  <2> QED BY <2>4 DEF T
<1> QED BY <1>1, LedgerInvariant, PTL

\* A row that holds budget is an issued signature's, a live request's, or was left
\* by a worker that died.
THEOREM BudgetAccounted == Spec => []BudgetIsAccountedFor
<1>1. LedgerInv => BudgetIsAccountedFor
  BY DEF LedgerInv, OwnersInv, Holding, BudgetIsAccountedFor
<1> QED BY <1>1, LedgerInvariant, PTL

\* Gas that was paid stays in the ledger as long as it is in the window.
THEOREM PaidGasCounted == Spec => PaidGasStaysCounted
<1>1. LedgerInv /\ [Next]_vars =>
        \A row \in ledger : row.state = "spent" /\ InWindow(row.at) => row \in ledger'
  <2> SUFFICES ASSUME LedgerInv, [Next]_vars, NEW row \in ledger, row.state = "spent", InWindow(row.at)
               PROVE  row \in ledger'
    OBVIOUS
  <2>1. ASSUME NEW w \in Workers, Reserve(w) \/ Deny(w) PROVE row \in ledger'
    <3>1. request[w].phase = "asking" /\ Swept(request[w].at) \subseteq ledger'
      BY <2>1 DEF Reserve, Deny
    <3> QED BY <3>1, SweptKeeps
  <2>2. ASSUME NEW w \in Workers, SigningFails(w) PROVE row \in ledger'
    BY <2>2 DEF SigningFails, Release
  <2>3. ASSUME NEW w \in Workers, SignAndCommit(w) PROVE row \in ledger'
    BY <2>3 DEF SignAndCommit, Commit
  <2>4. ASSUME NEW s \in sent, Settle(s) PROVE row \in ledger'
    <3>1. row \in Rows
      BY SentType DEF LedgerInv
    <3>2. [row EXCEPT !.state = "spent"] = row
      BY <3>1 DEF Rows
    <3> QED BY <2>4, <3>2 DEF Settle
  <2>5. ASSUME NEW s \in sent, Abandon(s) PROVE row \in ledger'
    BY <2>5 DEF Abandon, Drop
  <2>6. ASSUME UNCHANGED ledger PROVE row \in ledger'
    BY <2>6
  <2> QED
    BY <2>1, <2>2, <2>3, <2>4, <2>5, <2>6 DEF Next, Ask, HandOver, Dies, Tick, vars
<1> QED BY <1>1, LedgerInvariant, PTL DEF Spec, PaidGasStaysCounted

-----------------------------------------------------------------------------
(* Property documents *)

\* The row to be stamped is older than the last, so the last is never stamped:
\* what the verdict reads as current is the newest.
DocumentInv ==
  /\ DocumentTypeOK
  /\ stamping # NoRow => stamping.row \in 1..Len(papers[stamping.kind])
                         /\ stamping.row # Len(papers[stamping.kind])
  /\ \A k \in Kinds : papers[k] # <<>> => ~ papers[k][Len(papers[k])].superseded

\* The current document is the newest.
LEMMA CurrentIsNewest ==
  ASSUME DocumentInv, NEW k \in Kinds
  PROVE  CurrentDocument(k) = Newest(k)
<1> DEFINE s == papers[k]
           n == Len(s)
<1>1. s \in Seq(Paper) /\ n \in Nat /\ DOMAIN s = 1..n
  BY DEF DocumentInv, DocumentTypeOK
<1>2. CASE s = <<>>
  <2>1. CurrentRows(k) = {}
    BY <1>2 DEF CurrentRows
  <2> QED BY <1>2, <2>1 DEF CurrentDocument, Newest
<1>3. CASE s # <<>>
  <2>1. n \in 1..n /\ ~ s[n].superseded
    BY <1>1, <1>3 DEF DocumentInv
  <2>2. CurrentRows(k) \subseteq 1..n /\ n \in CurrentRows(k)
    BY <1>1, <2>1 DEF CurrentRows
  <2> HIDE DEF n
  <2>3. LastRow(CurrentRows(k)) = n
    <3>1. \A i \in CurrentRows(k) : (\A j \in CurrentRows(k) : j <= i) <=> i = n
      BY <1>1, <2>2
    <3> QED BY <2>2, <3>1 DEF LastRow
  <2>4. CurrentDocument(k) = s[n]
    BY <2>2, <2>3 DEF CurrentDocument
  <2>5. Newest(k) = s[n]
    BY <1>3 DEF Newest, Last, n
  <2> QED BY <2>4, <2>5
<1> QED BY <1>2, <1>3

\* At first there is none.
LEMMA DocumentStart == DocumentInit => DocumentInv
<1> SUFFICES ASSUME DocumentInit PROVE DocumentInv
  OBVIOUS
<1> QED
  BY EmptySeq DEF DocumentInit, DocumentInv, DocumentTypeOK

\* The row found current is one of those there are.
LEMMA FirstWithin ==
  ASSUME NEW n \in Nat, NEW S \in SUBSET (1..n), S # {}
  PROVE  FirstRow(S) \in 1..n
<1>1. IsFiniteSet(1..n)
  BY FS_Interval
<1>2. IsFiniteSet(S)
  BY <1>1, FS_Subset
<1>3. S \subseteq Int
  OBVIOUS
<1>4. \E i \in S : \A j \in S : i <= j
  BY <1>2, <1>3, LeastMember
<1>5. FirstRow(S) \in S
  BY <1>4 DEF FirstRow
<1> QED BY <1>5

\* A row inserted is the last, and not stamped.
LEMMA InsertKeeps ==
  ASSUME DocumentInv, NEW k \in Kinds, NEW balance \in Nat, Insert(k, balance)
  PROVE  DocumentInv'
<1> DEFINE current == CurrentRows(k)
           n == Len(papers[k])
           row(good) == [good |-> good, amount |-> balance, expires |-> today + Freshness[k],
                         superseded |-> FALSE]
           next == IF current = {} THEN NoRow ELSE [kind |-> k, row |-> FirstRow(current)]
<1>1. papers[k] \in Seq(Paper) /\ n \in Nat /\ today \in Nat /\ Freshness[k] \in Nat
  BY DocumentConstants DEF DocumentInv, DocumentTypeOK
<1>2. PICK good \in BOOLEAN : papers' = [papers EXCEPT ![k] = Append(papers[k], row(good))]
  BY DEF Insert
<1>3. stamping' = next /\ UNCHANGED today
  BY DEF Insert
<1>4. row(good) \in Paper /\ ~ row(good).superseded
  BY <1>1 DEF Paper
<1>5. current \subseteq 1..n
  BY <1>1 DEF CurrentRows
<1> HIDE DEF row, current
<1>6. ASSUME stamping' # NoRow
      PROVE  /\ stamping' \in [kind : Kinds, row : Nat]
             /\ stamping'.kind = k /\ stamping'.row \in 1..n
  <2>1. current # {} /\ stamping' = [kind |-> k, row |-> FirstRow(current)]
    BY <1>3, <1>6
  <2> HIDE DEF n
  <2>2. FirstRow(current) \in 1..n
    BY <1>1, <1>5, <2>1, FirstWithin
  <2> QED BY <1>1, <2>1, <2>2
<1> HIDE DEF next, n
<1>7. /\ papers' \in [Kinds -> Seq(Paper)]
      /\ \A j \in Kinds : papers'[j] = IF j = k THEN Append(papers[k], row(good)) ELSE papers[j]
  BY <1>1, <1>2, <1>4 DEF DocumentInv, DocumentTypeOK
<1>8. Len(papers'[k]) = n + 1 /\ papers'[k][n + 1] = row(good)
  BY <1>1, <1>4, <1>7, AppendProperties DEF n
<1>9. \A j \in Kinds : papers'[j] # <<>> => ~ papers'[j][Len(papers'[j])].superseded
  BY <1>4, <1>7, <1>8 DEF DocumentInv
<1>10. stamping' # NoRow => /\ stamping'.row \in 1..Len(papers'[stamping'.kind])
                            /\ stamping'.row # Len(papers'[stamping'.kind])
  BY <1>1, <1>6, <1>8
<1>11. DocumentTypeOK'
  BY <1>1, <1>3, <1>6, <1>7 DEF DocumentTypeOK
<1> QED BY <1>9, <1>10, <1>11 DEF DocumentInv

\* The row stamped is an older one.
LEMMA SupersedeKeeps ==
  ASSUME DocumentInv, Supersede
  PROVE  DocumentInv'
<1> DEFINE k == stamping.kind
           i == stamping.row
           n == Len(papers[k])
           stamped == [papers[k][i] EXCEPT !.superseded = TRUE]
           t == [papers[k] EXCEPT ![i] = stamped]
<1>1. k \in Kinds /\ i \in 1..n /\ i # n
  BY DEF Supersede, DocumentInv, DocumentTypeOK
<1>2. papers[k] \in Seq(Paper) /\ n \in Nat
  BY <1>1 DEF DocumentInv, DocumentTypeOK
<1>3. papers' = [papers EXCEPT ![k] = t] /\ stamping' = NoRow /\ UNCHANGED today
  BY DEF Supersede
<1>4. papers[k][i] \in Paper
  BY <1>1, <1>2
<1>5. stamped \in Paper
  BY <1>4 DEF Paper
<1> HIDE DEF stamped, k, i, n
<1>6. t \in Seq(Paper) /\ Len(t) = n /\ \A j \in 1..n : j # i => t[j] = papers[k][j]
  BY <1>1, <1>2, <1>5, ExceptSeq DEF n
<1> HIDE DEF t
<1>7. /\ papers' \in [Kinds -> Seq(Paper)]
      /\ \A j \in Kinds : papers'[j] = IF j = k THEN t ELSE papers[j]
  BY <1>1, <1>3, <1>6 DEF DocumentInv, DocumentTypeOK
<1>8. \A j \in Kinds : papers'[j] # <<>> => ~ papers'[j][Len(papers'[j])].superseded
  <2> SUFFICES ASSUME NEW j \in Kinds, papers'[j] # <<>>
      PROVE ~ papers'[j][Len(papers'[j])].superseded
    OBVIOUS
  <2>1. CASE j = k
    <3>1. n \in 1..n /\ papers[k] # <<>>
      BY <1>1, <1>2 DEF n
    <3>2. t[n] = papers[k][n] /\ ~ papers[k][n].superseded
      BY <1>1, <1>6, <3>1 DEF DocumentInv, n
    <3> QED BY <1>6, <1>7, <2>1, <3>2
  <2>2. CASE j # k
    BY <1>7, <2>2 DEF DocumentInv
  <2> QED BY <2>1, <2>2
<1> QED
  BY <1>3, <1>7, <1>8 DEF DocumentInv, DocumentTypeOK

\* Every step keeps the invariant.
LEMMA DocumentStep == DocumentInv /\ [DocumentNext]_documentVars => DocumentInv'
<1> SUFFICES ASSUME DocumentInv, [DocumentNext]_documentVars PROVE DocumentInv'
  OBVIOUS
<1>1. ASSUME \/ \E k \in DocTypes : Insert(k, 0)
             \/ \E balance \in Balances : Insert(Funds, balance)
      PROVE  DocumentInv'
  BY <1>1, InsertKeeps, DocumentConstants DEF Kinds
<1>2. CASE Interrupted \/ NextDay \/ UNCHANGED documentVars
  BY <1>2 DEF Interrupted, NextDay, documentVars, DocumentInv, DocumentTypeOK
<1> QED
  BY <1>1, <1>2, SupersedeKeeps DEF DocumentNext

\* A sale is cleared only if the newest document of every required type was attested
\* and is fresh, whatever uploads stopped half way before.
THEOREM NewestClear == DocumentSpec => []NewestDocumentsClear
<1>1. ASSUME DocumentInv PROVE NewestDocumentsClear
  BY <1>1, CurrentIsNewest DEF NewestDocumentsClear, Ready, Kinds
<1> QED BY <1>1, DocumentStart, DocumentStep, PTL DEF DocumentSpec

-----------------------------------------------------------------------------
(* Attestations in line *)

\* A sequence of results, of entries with their outcome.
Outcomes == [entry : Entries, success : BOOLEAN]

\* The entries of a flush, those already submitted first.
Line(res, rest) ==
  [i \in 1..(Len(res) + Len(rest)) |-> IF i <= Len(res) THEN res[i].entry ELSE rest[i - Len(res)]]

\* Whose attestations the entries are.
IdsIn(s) == {s[p].id : p \in 1..Len(s)}

\* No attestation is twice in line.
Distinct(s) == \A p, r \in 1..Len(s) : p # r => s[p].id # s[r].id

\* From the place of a full batch on, each entry has failed more often than those
\* behind it.
Staggered(s) ==
  \A p, r \in 1..Len(s) : BatchSize <= p /\ p < r => s[r].attempts < s[p].attempts

\* What is in a queue that was not flushed when it was full has failed before.
Tried(s) == \A p \in 1..Len(s) : BatchSize <= p => s[p].attempts >= 1

\* Where a flush is, and who is in it.
PhaseInv ==
  /\ phase = "idle" => batch = <<>> /\ results = <<>>
  /\ phase # "idle" => queue = <<>>
  /\ phase = "waiting" => batch # <<>>

LineInv ==
  /\ Distinct(queue) /\ Staggered(queue) /\ Tried(queue)
  /\ Distinct(Line(results, batch)) /\ Staggered(Line(results, batch))

\* The attestation somebody waits for.
IsAwaited(id) == phase = "waiting" /\ batch # <<>> /\ id = Head(batch).id

\* Each of those asked for is in one place.
PlacesInv ==
  /\ InHand \cup landed \cup abandoned \cup gone = 1..accepted
  /\ InHand \cap (landed \cup abandoned \cup gone) = {}
  /\ landed \cap (abandoned \cup gone) = {} /\ abandoned \cap gone = {}

\* What the chain and the node's pool have of them.
ChainInv ==
  /\ \A id \in landed \cup Successes : written[id] > 0
  /\ \A id \in Ids : IsAwaited(id) /\ receipt = "ok" => written[id] > 0
  /\ \A id \in Ids \ unheard :
       /\ written[id] <= 1
       /\ written[id] = 1 => id \in landed \cup gone \cup Successes \/ (IsAwaited(id) /\ receipt = "ok")
  /\ phase = "waiting" /\ floating # NoAttestation => IsAwaited(floating) /\ receipt = "none"
  /\ floating # NoAttestation /\ floating \notin unheard =>
       written[floating] = 0 /\ (IsAwaited(floating) \/ floating \in gone)

\* The inductive invariant.
AttInv == AttTypeOK /\ PhaseInv /\ LineInv /\ PlacesInv /\ ChainInv

\* The fields of an entry and of an outcome.
LEMMA EntryFields ==
  /\ \A e \in Entries : e.id \in Ids /\ e.id \in Int /\ e.attempts \in 0..MaxAttempts - 1 /\ e.attempts \in Int
  /\ \A r \in Outcomes : r.entry \in Entries /\ r.success \in BOOLEAN
<1>1. \A e \in Entries : e.id \in Ids /\ e.attempts \in 0..MaxAttempts - 1
  BY DEF Entries
<1>2. \A i \in Ids : i \in Int
  BY AttestationConstants DEF Ids
<1>3. \A i \in 0..MaxAttempts - 1 : i \in Int
  BY AttestationConstants
<1>4. \A r \in Outcomes : r.entry \in Entries /\ r.success \in BOOLEAN
  BY DEF Outcomes
<1> QED BY <1>1, <1>2, <1>3, <1>4

\* A line is its results and its rest.
LEMMA LineIs ==
  ASSUME NEW res \in Seq(Outcomes), NEW rest \in Seq(Entries)
  PROVE  /\ Line(res, rest) \in Seq(Entries) /\ Len(Line(res, rest)) = Len(res) + Len(rest)
         /\ Len(res) \in Nat /\ Len(rest) \in Nat
         /\ \A i \in 1..Len(res) : i \in 1..(Len(res) + Len(rest)) /\ Line(res, rest)[i] = res[i].entry
         /\ \A i \in 1..Len(rest) : Len(res) + i \in 1..(Len(res) + Len(rest)) /\ Line(res, rest)[Len(res) + i] = rest[i]
         /\ \A i \in 1..(Len(res) + Len(rest)) : i \in 1..Len(res) \/ \E j \in 1..Len(rest) : i = Len(res) + j
<1> DEFINE n == Len(res)
           m == Len(rest)
           l == Line(res, rest)
<1>1. n \in Nat /\ m \in Nat /\ \A i \in 1..n : res[i] \in Outcomes
  BY LenProperties
<1>2. \A i \in 1..m : rest[i] \in Entries
  BY LenProperties
<1>3. l = [i \in 1..(n + m) |-> IF i <= n THEN res[i].entry ELSE rest[i - n]]
  BY DEF Line
<1> HIDE DEF n, m, l
<1>4. \A i \in 1..n : i \in 1..(n + m) /\ i <= n
  BY <1>1
<1>5. \A j \in 1..m : n + j \in 1..(n + m) /\ ~ (n + j <= n) /\ (n + j) - n = j
  BY <1>1
<1>6. \A i \in 1..(n + m) : i \in 1..n \/ (i - n \in 1..m /\ i = n + (i - n))
  BY <1>1
<1>7. \A i \in 1..n : l[i] = res[i].entry
  BY <1>3, <1>4
<1>8. \A j \in 1..m : l[n + j] = rest[j]
  BY <1>3, <1>5
<1>9. \A i \in 1..(n + m) : l[i] \in Entries
  <2> SUFFICES ASSUME NEW i \in 1..(n + m) PROVE l[i] \in Entries
    OBVIOUS
  <2>1. CASE i \in 1..n
    BY <1>1, <1>7, <2>1, EntryFields
  <2>2. CASE i - n \in 1..m /\ i = n + (i - n)
    BY <1>2, <1>8, <2>2
  <2> QED BY <1>6, <2>1, <2>2
<1>10. l \in [1..(n + m) -> Entries] /\ n + m \in Nat
  <2>1. l = [i \in 1..(n + m) |-> l[i]]
    BY <1>3, Zenon
  <2>2. l \in [1..(n + m) -> Entries]
    BY <1>9, <2>1, Zenon
  <2> QED BY <1>1, <2>2
<1>11. l \in Seq(Entries) /\ Len(l) = n + m
  BY <1>10
<1> QED BY <1>1, <1>4, <1>5, <1>6, <1>7, <1>8, <1>11 DEF n, m, l

\* Sequences of the same length with the same members are the same.
LEMMA SameLine ==
  ASSUME NEW s \in Seq(Entries), NEW t \in Seq(Entries), Len(s) = Len(t), \A i \in 1..Len(s) : s[i] = t[i]
  PROVE  s = t
BY SeqEqual

\* Submitting one moves it from the rest to the results, and nobody's place.
LEMMA LineMoves ==
  ASSUME NEW res \in Seq(Outcomes), NEW rest \in Seq(Entries), rest # <<>>, NEW b \in BOOLEAN,
         NEW r, r = [entry |-> Head(rest), success |-> b]
  PROVE  /\ r \in Outcomes /\ Append(res, r) \in Seq(Outcomes) /\ Tail(rest) \in Seq(Entries)
         /\ Line(Append(res, r), Tail(rest)) = Line(res, rest)
<1> DEFINE a == Append(res, r)
           t == Tail(rest)
           n == Len(res)
           m == Len(rest)
<1>1. /\ m \in Nat /\ Head(rest) = rest[1] /\ Head(rest) \in Entries /\ m # 0
      /\ t \in Seq(Entries) /\ Len(t) = m - 1 /\ \A i \in 1..Len(t) : t[i] = rest[i + 1]
  BY HeadTailProperties, EmptySeq
<1>2. r \in Outcomes
  BY <1>1 DEF Outcomes
<1>3. a \in Seq(Outcomes) /\ n \in Nat /\ Len(a) = n + 1 /\ a[n + 1] = r /\ \A i \in 1..n : a[i] = res[i]
  BY <1>2, AppendProperties
<1> HIDE DEF a, t, n, m
<1> DEFINE k == Line(a, t)
           l == Line(res, rest)
<1>4. /\ k \in Seq(Entries) /\ Len(k) = n + m
      /\ \A i \in 1..(n + 1) : k[i] = a[i].entry
      /\ \A i \in 1..(m - 1) : k[n + 1 + i] = t[i]
  <2>1. /\ k \in Seq(Entries) /\ Len(k) = Len(a) + Len(t)
        /\ \A i \in 1..Len(a) : k[i] = a[i].entry
        /\ \A i \in 1..Len(t) : k[Len(a) + i] = t[i]
    BY <1>1, <1>3, LineIs
  <2>2. Len(a) + Len(t) = n + m
    BY <1>1, <1>3
  <2>3. Len(a) = n + 1 /\ Len(t) = m - 1
    BY <1>1, <1>3
  <2> HIDE DEF k
  <2> QED BY <2>1, <2>2, <2>3
<1>5. /\ l \in Seq(Entries) /\ Len(l) = n + m
      /\ \A i \in 1..n : l[i] = res[i].entry
      /\ \A i \in 1..m : l[n + i] = rest[i]
  BY LineIs DEF n, m
<1> HIDE DEF k, l
<1>6. \A i \in 1..(n + m) : k[i] = l[i]
  <2> SUFFICES ASSUME NEW i \in 1..(n + m) PROVE k[i] = l[i]
    OBVIOUS
  <2>1. CASE i <= n
    <3>1. i \in 1..n /\ i \in 1..(n + 1)
      BY <1>3, <2>1
    <3> QED BY <1>3, <1>4, <1>5, <3>1
  <2>2. CASE i = n + 1
    <3>1. i \in 1..(n + 1) /\ 1 \in 1..m
      BY <1>1, <1>3, <2>2
    <3>2. k[i] = r.entry /\ r.entry = rest[1]
      BY <1>1, <1>3, <1>4, <2>2, <3>1
    <3> QED BY <1>5, <2>2, <3>1, <3>2
  <2>3. CASE n + 1 < i
    <3> DEFINE j == i - (n + 1)
    <3>1. j \in 1..(m - 1) /\ i = n + 1 + j /\ i = n + (j + 1) /\ j + 1 \in 1..m
      BY <1>1, <1>3, <2>3
    <3> HIDE DEF j
    <3>2. k[i] = t[j] /\ l[i] = rest[j + 1]
      BY <1>4, <1>5, <3>1
    <3>3. j \in 1..Len(t)
      BY <1>1, <3>1
    <3> QED BY <1>1, <3>2, <3>3
  <2> QED BY <1>1, <1>3, <2>1, <2>2, <2>3
<1>7. k = l
  BY <1>4, <1>5, <1>6, SameLine
<1> QED BY <1>1, <1>2, <1>3, <1>7 DEF a, t, k, l

\* A flush that begins has everybody before it; one that is over, everybody behind.
LEMMA LineEnds ==
  ASSUME NEW res \in Seq(Outcomes), NEW rest \in Seq(Entries)
  PROVE  /\ Line(<<>>, rest) = rest
         /\ Len(Line(res, <<>>)) = Len(res) /\ \A i \in 1..Len(res) : Line(res, <<>>)[i] = res[i].entry
<1>1. <<>> \in Seq(Outcomes) /\ Len(<<>>) = 0 /\ <<>> \in Seq(Entries)
  OBVIOUS
<1>2. /\ Line(<<>>, rest) \in Seq(Entries) /\ Len(Line(<<>>, rest)) = 0 + Len(rest) /\ Len(rest) \in Nat
      /\ \A i \in 1..Len(rest) : Line(<<>>, rest)[0 + i] = rest[i]
  BY <1>1, LineIs
<1>3. \A i \in 1..Len(rest) : Line(<<>>, rest)[i] = rest[i]
  <2>1. \A i \in 1..Len(rest) : 0 + i = i
    OBVIOUS
  <2> QED BY <1>2, <2>1
<1>4. Len(Line(<<>>, rest)) = Len(rest)
  BY <1>2
<1>5. Line(<<>>, rest) = rest
  BY <1>2, <1>3, <1>4, SameLine
<1>6. /\ Len(Line(res, <<>>)) = Len(res) + 0 /\ Len(res) \in Nat
      /\ \A i \in 1..Len(res) : Line(res, <<>>)[i] = res[i].entry
  BY <1>1, LineIs
<1>7. Len(Line(res, <<>>)) = Len(res)
  BY <1>6
<1> QED BY <1>5, <1>6, <1>7

\* Those in hand are those in the queue and in line.
LEMMA HandIs ==
  ASSUME NEW q \in Seq(Entries), NEW b \in Seq(Entries), NEW res \in Seq(Outcomes)
  PROVE  {e.id : e \in Range(q) \cup Range(b)} \cup {r.entry.id : r \in Range(res)}
           = IdsIn(q) \cup IdsIn(Line(res, b))
<1> DEFINE l == Line(res, b)
           R == {r.entry.id : r \in Range(res)}
           H == {e.id : e \in Range(q) \cup Range(b)}
<1>1. /\ Len(l) = Len(res) + Len(b)
      /\ \A i \in 1..Len(res) : i \in 1..(Len(res) + Len(b)) /\ l[i] = res[i].entry
      /\ \A i \in 1..Len(b) : Len(res) + i \in 1..(Len(res) + Len(b)) /\ l[Len(res) + i] = b[i]
      /\ \A i \in 1..(Len(res) + Len(b)) : i \in 1..Len(res) \/ \E j \in 1..Len(b) : i = Len(res) + j
  BY LineIs
<1> HIDE DEF l
<1>2. ASSUME NEW i \in H PROVE i \in IdsIn(q) \cup IdsIn(l)
  <2>1. PICK e \in Range(q) \cup Range(b) : i = e.id
    BY <1>2
  <2>2. CASE e \in Range(q)
    <3>1. PICK p \in 1..Len(q) : q[p] = e
      BY <2>2, RangeOf
    <3> QED BY <2>1, <3>1 DEF IdsIn
  <2>3. CASE e \in Range(b)
    <3>1. PICK p \in 1..Len(b) : b[p] = e
      BY <2>3, RangeOf
    <3>2. Len(res) + p \in 1..Len(l) /\ l[Len(res) + p] = e
      BY <1>1, <3>1
    <3> QED BY <2>1, <3>2 DEF IdsIn
  <2> QED BY <2>1, <2>2, <2>3
<1>3. ASSUME NEW i \in R PROVE i \in IdsIn(l)
  <2>1. PICK r \in Range(res) : i = r.entry.id
    BY <1>3
  <2>2. PICK p \in 1..Len(res) : res[p] = r
    BY RangeOf
  <2>3. p \in 1..Len(l) /\ l[p] = r.entry
    BY <1>1, <2>2
  <2> QED BY <2>1, <2>3 DEF IdsIn
<1>4. ASSUME NEW i \in IdsIn(q) PROVE i \in H
  <2>1. PICK p \in 1..Len(q) : i = q[p].id
    BY <1>4 DEF IdsIn
  <2>2. q[p] \in Range(q)
    BY RangeOf
  <2> QED BY <2>1, <2>2
<1>5. ASSUME NEW i \in IdsIn(l) PROVE i \in H \cup R
  <2>1. PICK p \in 1..(Len(res) + Len(b)) : i = l[p].id
    BY <1>1, <1>5 DEF IdsIn
  <2>2. CASE p \in 1..Len(res)
    <3>1. res[p] \in Range(res) /\ i = res[p].entry.id
      BY <1>1, <2>1, <2>2, RangeOf
    <3> QED BY <3>1
  <2>3. ASSUME NEW j \in 1..Len(b), p = Len(res) + j PROVE i \in H
    <3>1. b[j] \in Range(b) /\ i = b[j].id
      BY <1>1, <2>1, <2>3, RangeOf
    <3> QED BY <3>1
  <2> QED BY <1>1, <2>2, <2>3
<1> QED BY <1>2, <1>3, <1>4, <1>5 DEF l

\* As many attestations as there are places.
LEMMA DistinctCount ==
  ASSUME NEW s \in Seq(Entries), Distinct(s)
  PROVE  IsFiniteSet(IdsIn(s)) /\ Cardinality(IdsIn(s)) = Len(s)
<1> DEFINE f == [p \in 1..Len(s) |-> s[p].id]
<1>1. Len(s) \in Nat
  BY LenProperties
<1>2. IsFiniteSet(1..Len(s)) /\ Cardinality(1..Len(s)) = Len(s)
  BY <1>1, FS_Interval
<1>3. f \in [1..Len(s) -> IdsIn(s)] /\ \A p \in 1..Len(s) : f[p] = s[p].id
  BY DEF IdsIn
<1> HIDE DEF f
<1>4. \A p, r \in 1..Len(s) : f[p] = f[r] => p = r
  BY <1>3 DEF Distinct
<1>5. \A i \in IdsIn(s) : \E p \in 1..Len(s) : f[p] = i
  BY <1>3 DEF IdsIn
<1>6. f \in Bijection(1..Len(s), IdsIn(s))
  BY <1>3, <1>4, <1>5, Fun_IsBij
<1>7. ExistsBijection(1..Len(s), IdsIn(s))
  BY <1>6 DEF ExistsBijection
<1> QED BY <1>2, <1>7, FS_Bijection

\* A queue that lets nobody have MaxAttempts failures stays short.
LEMMA StaggeredBound ==
  ASSUME NEW s \in Seq(Entries), Staggered(s), Tried(s)
  PROVE  Len(s) <= BatchSize + MaxAttempts - 2
<1> DEFINE n == Len(s)
           P == BatchSize..n
           A == 1..(MaxAttempts - 1)
           f == [p \in P |-> s[p].attempts]
<1>1. n \in Nat /\ BatchSize \in Nat \ {0} /\ MaxAttempts \in Nat \ {0}
  BY AttestationConstants, LenProperties
<1>2. CASE n < BatchSize
  BY <1>1, <1>2
<1>3. CASE BatchSize <= n
  <2>1. \A p \in P : p \in 1..n /\ BatchSize <= p /\ p \in Int
    BY <1>1
  <2>2. ASSUME NEW p \in P PROVE s[p].attempts \in A
    <3>1. s[p] \in Entries
      BY <2>1, LenProperties
    <3>2. s[p].attempts \in 0..MaxAttempts - 1 /\ s[p].attempts \in Int
      BY <3>1, EntryFields
    <3>3. s[p].attempts >= 1
      BY <2>1 DEF Tried
    <3> DEFINE a == s[p].attempts
    <3> HIDE DEF a
    <3>4. a \in 0..MaxAttempts - 1 /\ a \in Int /\ a >= 1
      BY <3>2, <3>3 DEF a
    <3>5. a \in A
      BY <1>1, <3>4
    <3> QED BY <3>5 DEF a
  <2>3. f \in [P -> A] /\ \A p \in P : f[p] = s[p].attempts
    BY <2>2
  <2>4. ASSUME NEW p \in P, NEW r \in P, p < r PROVE f[p] # f[r]
    <3>1. s[r].attempts < s[p].attempts
      BY <2>1, <2>4 DEF Staggered
    <3>2. f[r] < f[p] /\ f[p] \in A /\ f[r] \in A
      BY <2>3, <3>1
    <3> QED BY <1>1, <3>2
  <2> HIDE DEF f
  <2>5. \A p, r \in P : f[p] = f[r] => p = r
    <3> SUFFICES ASSUME NEW p \in P, NEW r \in P, f[p] = f[r], p # r PROVE FALSE
      OBVIOUS
    <3>1. p < r \/ r < p
      BY <2>1
    <3> QED BY <2>4, <3>1
  <2>6. f \in Injection(P, A)
    BY <2>3, <2>5, Fun_IsInj
  <2>7. IsFiniteSet(A) /\ Cardinality(A) = MaxAttempts - 1
    BY <1>1, FS_Interval
  <2>8. Cardinality(P) = n - BatchSize + 1
    BY <1>1, <1>3, FS_Interval
  <2>9. Cardinality(P) <= Cardinality(A)
    BY <2>6, <2>7, FS_Injection
  <2> QED BY <1>1, <2>7, <2>8, <2>9
<1> QED BY <1>1, <1>2, <1>3

\* What is owed of a line that was as it should be.
LEMMA OwedHas ==
  ASSUME results \in Seq(Outcomes)
  PROVE  /\ Owed \in Seq(Outcomes) /\ Len(Owed) \in Nat
         /\ \A i \in 1..Len(Owed) : Owed[i] \in Outcomes /\ ~ Owed[i].success /\ ~ GivenUp(Owed[i])
         /\ \E place \in [1..Len(Owed) -> 1..Len(results)] :
              /\ \A i, j \in 1..Len(Owed) : i < j => place[i] < place[j]
              /\ \A i \in 1..Len(Owed) : i <= place[i] /\ Owed[i] = results[place[i]]
              /\ \A m \in 1..Len(results) : ~ results[m].success /\ ~ GivenUp(results[m]) =>
                   \E i \in 1..Len(Owed) : place[i] = m
<1> DEFINE T == {r \in Range(results) : ~ r.success /\ ~ GivenUp(r)}
           o == Owed
           n == Len(results)
<1>1. o = Selected(results, T)
  BY DEF Owed
<1> HIDE DEF o, T
<1>2. o \in Seq(Outcomes) /\ HoldsOf(o, results, T, n)
  BY <1>1, KeptHolds
<1>3. Len(o) \in Nat /\ n \in Nat /\ \A i \in 1..Len(o) : o[i] \in Outcomes
  BY <1>2, LenProperties
<1>4. PICK place \in [1..Len(o) -> 1..n] :
        /\ \A i, j \in 1..Len(o) : i < j => place[i] < place[j]
        /\ \A i \in 1..Len(o) : o[i] = results[place[i]] /\ o[i] \in T
        /\ \A m \in 1..n : results[m] \in T => \E i \in 1..Len(o) : place[i] = m
  BY <1>2 DEF HoldsOf
<1> HIDE DEF n
<1>5. \A i \in 1..Len(o) : i <= place[i]
  BY <1>3, <1>4, PlacesGrow
<1>6. \A i \in 1..Len(o) : ~ o[i].success /\ ~ GivenUp(o[i])
  BY <1>4 DEF T
<1>7. \A m \in 1..n : results[m] \in Range(results)
  BY RangeOf DEF n
<1>8. \A m \in 1..n : ~ results[m].success /\ ~ GivenUp(results[m]) => results[m] \in T
  BY <1>7 DEF T
<1> QED BY <1>2, <1>3, <1>4, <1>5, <1>6, <1>8 DEF o, n

\* What goes back to the queue is as it should be there.
LEMMA RequeuedHas ==
  ASSUME results \in Seq(Outcomes), Distinct(Line(results, <<>>)), Staggered(Line(results, <<>>))
  PROVE  /\ Requeued \in Seq(Entries) /\ Distinct(Requeued) /\ Staggered(Requeued) /\ Tried(Requeued)
         /\ IdsIn(Requeued) = {results[p].entry.id :
                                 p \in {m \in 1..Len(results) : ~ results[m].success /\ ~ GivenUp(results[m])}}
<1> DEFINE l == Line(results, <<>>)
           q == Requeued
           o == Owed
           k == Len(Owed)
           n == Len(results)
<1>1. /\ Len(l) = n /\ \A i \in 1..n : l[i] = results[i].entry
  <2>1. <<>> \in Seq(Entries)
    OBVIOUS
  <2> QED BY <2>1, LineEnds
<1>2. o \in Seq(Outcomes) /\ k \in Nat /\ \A i \in 1..k : o[i] \in Outcomes /\ ~ o[i].success /\ ~ GivenUp(o[i])
  BY OwedHas
<1>3. PICK place \in [1..k -> 1..n] :
        /\ \A i, j \in 1..k : i < j => place[i] < place[j]
        /\ \A i \in 1..k : i <= place[i] /\ o[i] = results[place[i]]
        /\ \A m \in 1..n : ~ results[m].success /\ ~ GivenUp(results[m]) => \E i \in 1..k : place[i] = m
  BY OwedHas
<1>4. q = [i \in 1..k |-> [o[i].entry EXCEPT !.attempts = @ + 1]]
  <2>1. DOMAIN o = 1..k
    BY <1>2
  <2> QED BY <2>1 DEF Requeued
<1> HIDE DEF q, o, k, l, n
<1>5. n \in Nat
  BY DEF n
<1>6. ASSUME NEW i \in 1..k
      PROVE  /\ q[i] \in Entries /\ place[i] \in 1..n /\ i <= place[i]
             /\ q[i].id = l[place[i]].id /\ q[i].attempts = l[place[i]].attempts + 1
             /\ l[place[i]].attempts \in Int /\ l[place[i]].attempts >= 0
             /\ q[i].id = results[place[i]].entry.id
             /\ ~ results[place[i]].success /\ ~ GivenUp(results[place[i]])
  <2> DEFINE e == o[i].entry
             a == e.attempts
  <2>1. e \in Entries /\ ~ o[i].success
    BY <1>2, EntryFields
  <2>2. a \in 0..MaxAttempts - 1 /\ a \in Int
    BY <2>1, EntryFields
  <2>3. ~ (a + 1 >= MaxAttempts)
    BY <1>2 DEF GivenUp
  <2>4. q[i] = [e EXCEPT !.attempts = a + 1]
    BY <1>4
  <2>5. place[i] \in 1..n /\ i <= place[i] /\ o[i] = results[place[i]] /\ l[place[i]] = e
    BY <1>1, <1>3
  <2> HIDE DEF a
  <2>6. a + 1 \in 0..MaxAttempts - 1 /\ a >= 0
    BY <2>2, <2>3, AttestationConstants
  <2>7. [e EXCEPT !.attempts = a + 1] \in Entries /\ [e EXCEPT !.attempts = a + 1].id = e.id
        /\ [e EXCEPT !.attempts = a + 1].attempts = a + 1
    BY <2>1, <2>6 DEF Entries
  <2>8. q[i] \in Entries /\ q[i].id = e.id /\ q[i].attempts = a + 1
    BY <2>4, <2>7
  <2>9. l[place[i]].attempts = a /\ l[place[i]].id = e.id
    BY <2>5 DEF a
  <2>10. results[place[i]].entry.id = e.id /\ ~ results[place[i]].success /\ ~ GivenUp(results[place[i]])
    BY <1>2, <2>5
  <2> QED BY <2>2, <2>5, <2>6, <2>8, <2>9, <2>10
<1>7. q \in Seq(Entries) /\ Len(q) = k
  <2>1. q = [i \in 1..k |-> q[i]]
    BY <1>4, Zenon
  <2>2. q \in [1..k -> Entries]
    BY <1>6, <2>1, Zenon
  <2> QED BY <1>2, <2>2
<1>8. Distinct(q)
  <2> SUFFICES ASSUME NEW p \in 1..k, NEW r \in 1..k, p # r PROVE q[p].id # q[r].id
    BY <1>7 DEF Distinct
  <2>1. p < r \/ r < p
    BY <1>2
  <2>2. place[p] \in 1..n /\ place[r] \in 1..n /\ (place[p] < place[r] \/ place[r] < place[p])
    BY <1>3, <1>6, <2>1
  <2>3. place[p] # place[r]
    BY <1>5, <2>2
  <2> QED BY <1>1, <1>6, <2>2, <2>3 DEF Distinct, l
<1>9. Staggered(q)
  <2> SUFFICES ASSUME NEW p \in 1..k, NEW r \in 1..k, BatchSize <= p, p < r PROVE q[r].attempts < q[p].attempts
    BY <1>7 DEF Staggered
  <2>1. place[p] \in 1..n /\ place[r] \in 1..n /\ place[p] < place[r] /\ p <= place[p]
    BY <1>3, <1>6
  <2>2. BatchSize <= place[p]
    BY <1>2, <1>5, <2>1, AttestationConstants
  <2>3. l[place[r]].attempts < l[place[p]].attempts
    BY <1>1, <2>1, <2>2 DEF Staggered, l
  <2> DEFINE a == l[place[p]].attempts
             b == l[place[r]].attempts
  <2>4. q[r].attempts = b + 1 /\ q[p].attempts = a + 1 /\ a \in Int /\ b \in Int
    BY <1>6
  <2> HIDE DEF a, b
  <2>5. b + 1 < a + 1
    BY <2>3, <2>4 DEF a, b
  <2> QED BY <2>4, <2>5
<1>10. Tried(q)
  <2> SUFFICES ASSUME NEW p \in 1..k PROVE q[p].attempts >= 1
    BY <1>7 DEF Tried
  <2> DEFINE a == l[place[p]].attempts
  <2>1. q[p].attempts = a + 1 /\ a \in Int /\ a >= 0
    BY <1>6
  <2> HIDE DEF a
  <2> QED BY <2>1
<1>11. ASSUME NEW i \in IdsIn(q)
       PROVE  \E p \in 1..n : ~ results[p].success /\ ~ GivenUp(results[p]) /\ i = results[p].entry.id
  <2>1. PICK p \in 1..k : i = q[p].id
    BY <1>7, <1>11 DEF IdsIn
  <2> QED BY <1>6, <2>1
<1>12. ASSUME NEW p \in 1..n, ~ results[p].success, ~ GivenUp(results[p])
       PROVE  results[p].entry.id \in IdsIn(q)
  <2>1. PICK i \in 1..k : place[i] = p
    BY <1>3, <1>12
  <2>2. q[i].id = results[p].entry.id
    BY <1>6, <2>1
  <2> QED BY <1>7, <2>2 DEF IdsIn
<1> QED BY <1>7, <1>8, <1>9, <1>10, <1>11, <1>12 DEF q, n

-----------------------------------------------------------------------------
(* The steps *)

\* Whose result was a success.
LEMMA SuccessesIn ==
  ASSUME NEW res \in Seq(Outcomes), NEW rest \in Seq(Entries)
  PROVE  /\ {r.entry.id : r \in {x \in Range(res) : x.success}}
              = {res[p].entry.id : p \in {i \in 1..Len(res) : res[i].success}}
         /\ {res[p].entry.id : p \in {i \in 1..Len(res) : res[i].success}} \subseteq IdsIn(Line(res, rest))
<1>1. /\ \A p \in 1..Len(res) : res[p] \in Range(res)
      /\ \A e \in Range(res) : \E p \in 1..Len(res) : res[p] = e
  BY RangeOf
<1> DEFINE l == Line(res, rest)
<1>2. Len(l) = Len(res) + Len(rest) /\ \A i \in 1..Len(res) : i \in 1..(Len(res) + Len(rest)) /\ l[i] = res[i].entry
  BY LineIs
<1> HIDE DEF l
<1>3. \A p \in 1..Len(res) : res[p].entry.id \in IdsIn(l)
  BY <1>2 DEF IdsIn
<1> QED BY <1>1, <1>3 DEF l

\* The first of the rest is in line, and none of those already submitted.
LEMMA HeadIsIn ==
  ASSUME NEW res \in Seq(Outcomes), NEW rest \in Seq(Entries), rest # <<>>
  PROVE  /\ Head(rest) \in Entries /\ Head(rest).id \in Ids /\ Head(rest).id \in IdsIn(Line(res, rest))
         /\ Distinct(Line(res, rest)) => \A p \in 1..Len(res) : res[p].entry.id # Head(rest).id
<1> DEFINE l == Line(res, rest)
           n == Len(res)
<1>1. Head(rest) \in Entries /\ Head(rest) = rest[1] /\ 1 \in 1..Len(rest)
  BY HeadTailProperties, EmptySeq
<1>2. /\ Len(l) = n + Len(rest) /\ n \in Nat
      /\ \A i \in 1..n : i \in 1..(n + Len(rest)) /\ l[i] = res[i].entry
      /\ \A i \in 1..Len(rest) : n + i \in 1..(n + Len(rest)) /\ l[n + i] = rest[i]
  BY LineIs
<1> HIDE DEF l, n
<1>3. n + 1 \in 1..Len(l) /\ l[n + 1] = Head(rest)
  BY <1>1, <1>2
<1>4. Head(rest).id \in IdsIn(l)
  BY <1>3 DEF IdsIn
<1>5. ASSUME Distinct(l), NEW p \in 1..n PROVE res[p].entry.id # Head(rest).id
  <2>1. p \in 1..Len(l) /\ l[p] = res[p].entry /\ p # n + 1
    BY <1>2
  <2> QED BY <1>3, <1>5, <2>1 DEF Distinct
<1>6. Head(rest).id \in Ids
  BY <1>1, EntryFields
<1> QED BY <1>1, <1>4, <1>5, <1>6 DEF l, n

\* The invariant says of the sequences.
LEMMA AttFacts ==
  ASSUME AttInv
  PROVE  /\ queue \in Seq(Entries) /\ batch \in Seq(Entries) /\ results \in Seq(Outcomes)
         /\ accepted \in Nat /\ accepted <= MaxAttestations /\ Ids \subseteq Int /\ 1..accepted \subseteq Ids
         /\ InHand = IdsIn(queue) \cup IdsIn(Line(results, batch))
         /\ Successes = {results[p].entry.id : p \in {i \in 1..Len(results) : results[i].success}}
         /\ Successes \subseteq IdsIn(Line(results, batch)) /\ Successes \subseteq InHand
         /\ batch # <<>> => Head(batch).id \in Ids /\ Head(batch).id \in InHand /\ Head(batch).id \notin Successes
<1>1. queue \in Seq(Entries) /\ batch \in Seq(Entries) /\ results \in Seq(Outcomes)
  BY DEF AttInv, AttTypeOK, Outcomes
<1>2. accepted \in Nat /\ accepted <= MaxAttestations /\ Ids \subseteq Int /\ 1..accepted \subseteq Ids
  <2>1. accepted \in 0..MaxAttestations
    BY DEF AttInv, AttTypeOK
  <2> QED BY <2>1, AttestationConstants DEF Ids
<1>3. InHand = IdsIn(queue) \cup IdsIn(Line(results, batch))
  BY <1>1, HandIs DEF InHand
<1>4. /\ Successes = {results[p].entry.id : p \in {i \in 1..Len(results) : results[i].success}}
      /\ Successes \subseteq IdsIn(Line(results, batch))
  BY <1>1, SuccessesIn DEF Successes
<1>5. ASSUME batch # <<>>
      PROVE  Head(batch).id \in Ids /\ Head(batch).id \in InHand /\ Head(batch).id \notin Successes
  <2>1. Distinct(Line(results, batch))
    BY DEF AttInv, LineInv
  <2> QED BY <1>1, <1>3, <1>4, <1>5, <2>1, HeadIsIn
<1> QED BY <1>1, <1>2, <1>3, <1>4, <1>5

\* An answer to the first of the rest.
LEMMA ResultFacts ==
  ASSUME AttInv, batch # <<>>, phase # "idle", NEW success \in BOOLEAN, Result(success)
  PROVE  /\ batch' \in Seq(Entries) /\ results' \in Seq(Outcomes) /\ phase' = "flushing"
         /\ Line(results', batch') = Line(results, batch)
         /\ queue' = queue => InHand' = InHand
         /\ Successes' = Successes \cup (IF success THEN {Head(batch).id} ELSE {})
<1> DEFINE r == [entry |-> Head(batch), success |-> success]
<1>1. queue \in Seq(Entries) /\ batch \in Seq(Entries) /\ results \in Seq(Outcomes)
  BY AttFacts
<1>2. results' = Append(results, r) /\ batch' = Tail(batch) /\ phase' = "flushing"
  BY DEF Result
<1>3. r.entry = Head(batch) /\ r.success = success
  OBVIOUS
<1>4. r = [entry |-> Head(batch), success |-> success]
  OBVIOUS
<1> HIDE DEF r
<1>5. /\ r \in Outcomes /\ Append(results, r) \in Seq(Outcomes) /\ Tail(batch) \in Seq(Entries)
      /\ Line(Append(results, r), Tail(batch)) = Line(results, batch)
  BY <1>1, <1>4, LineMoves
<1>6. /\ r \in Outcomes /\ results' \in Seq(Outcomes) /\ batch' \in Seq(Entries)
      /\ Line(results', batch') = Line(results, batch)
  BY <1>2, <1>5
<1>7. ASSUME queue' = queue PROVE InHand' = InHand
  <2>1. InHand' = IdsIn(queue) \cup IdsIn(Line(results', batch'))
    BY <1>1, <1>6, <1>7, HandIs DEF InHand
  <2> QED BY <1>6, <2>1, AttFacts
<1>8. Successes' = Successes \cup (IF success THEN {Head(batch).id} ELSE {})
  <2> DEFINE a == results'
             n == Len(results)
  <2>1. a \in Seq(Outcomes) /\ n \in Nat /\ Len(a) = n + 1 /\ a[n + 1] = r /\ \A i \in 1..n : a[i] = results[i]
    BY <1>1, <1>2, <1>6, AppendProperties
  <2>2. Successes' = {a[p].entry.id : p \in {i \in 1..Len(a) : a[i].success}}
    BY <1>1, <1>6, SuccessesIn DEF Successes
  <2>3. Successes = {results[p].entry.id : p \in {i \in 1..n : results[i].success}}
    BY AttFacts
  <2> HIDE DEF a, n
  <2>4. \A i : i \in 1..(n + 1) <=> i \in 1..n \/ i = n + 1
    BY <2>1
  <2>5. ASSUME NEW id \in Successes' PROVE id \in Successes \cup (IF success THEN {Head(batch).id} ELSE {})
    <3>1. PICK p \in 1..Len(a) : a[p].success /\ id = a[p].entry.id
      BY <2>2, <2>5
    <3>2. p \in 1..n \/ p = n + 1
      BY <2>1, <2>4, <3>1
    <3>3. CASE p \in 1..n
      BY <2>1, <2>3, <3>1, <3>3
    <3>4. CASE p = n + 1
      BY <1>3, <2>1, <3>1, <3>4
    <3> QED BY <3>2, <3>3, <3>4
  <2>6. ASSUME NEW id \in Successes PROVE id \in Successes'
    <3>1. PICK p \in 1..n : results[p].success /\ id = results[p].entry.id
      BY <2>3, <2>6
    <3>2. p \in 1..Len(a) /\ a[p] = results[p]
      BY <2>1, <2>4, <3>1
    <3> QED BY <2>2, <3>1, <3>2
  <2>7. ASSUME success PROVE Head(batch).id \in Successes'
    <3>1. n + 1 \in 1..Len(a) /\ a[n + 1].success /\ a[n + 1].entry.id = Head(batch).id
      BY <1>3, <2>1, <2>4, <2>7
    <3> QED BY <2>2, <3>1
  <2> QED BY <2>5, <2>6, <2>7
<1> QED BY <1>2, <1>6, <1>7, <1>8

\* One asked for goes to the end of a queue that was flushed when it was full.
LEMMA JoinsLine ==
  ASSUME NEW s \in Seq(Entries), Distinct(s), Staggered(s), Tried(s), NEW id \in Ids, id \notin IdsIn(s),
         NEW t, t = Append(s, [id |-> id, attempts |-> 0])
  PROVE  /\ t \in Seq(Entries) /\ Distinct(t) /\ Staggered(t)
         /\ Len(t) < BatchSize => Tried(t)
         /\ IdsIn(t) = IdsIn(s) \cup {id}
<1> DEFINE e == [id |-> id, attempts |-> 0]
           n == Len(s)
<1>1. 0 \in 0..MaxAttempts - 1 /\ BatchSize \in Nat
  BY AttestationConstants
<1>2. e \in Entries /\ e.id = id /\ e.attempts = 0
  BY <1>1 DEF Entries
<1> HIDE DEF e
<1>3. t \in Seq(Entries) /\ n \in Nat /\ Len(t) = n + 1 /\ t[n + 1] = e /\ \A i \in 1..n : t[i] = s[i]
  BY <1>2, AppendProperties DEF e
<1> HIDE DEF n
<1>4. \A i : i \in 1..(n + 1) <=> i \in 1..n \/ i = n + 1
  BY <1>3
<1>5. \A i \in 1..n : t[i].id # id
  BY <1>3 DEF IdsIn, n
<1>6. Distinct(t)
  <2> SUFFICES ASSUME NEW p \in 1..(n + 1), NEW r \in 1..(n + 1), p # r PROVE t[p].id # t[r].id
    BY <1>3 DEF Distinct
  <2>1. CASE p \in 1..n /\ r \in 1..n
    BY <1>3, <2>1 DEF Distinct, n
  <2>2. CASE p = n + 1 \/ r = n + 1
    BY <1>2, <1>3, <1>4, <1>5, <2>2
  <2> QED BY <1>4, <2>1, <2>2
<1>7. Staggered(t)
  <2> SUFFICES ASSUME NEW p \in 1..(n + 1), NEW r \in 1..(n + 1), BatchSize <= p, p < r
               PROVE  t[r].attempts < t[p].attempts
    BY <1>3 DEF Staggered
  <2>1. p \in 1..n
    BY <1>3
  <2>2. CASE r \in 1..n
    BY <1>3, <2>1, <2>2 DEF Staggered, n
  <2>3. CASE r = n + 1
    <3>1. s[p].attempts >= 1 /\ s[p] \in Entries
      BY <2>1, LenProperties DEF Tried, n
    <3>2. s[p].attempts \in Int
      BY <3>1, EntryFields
    <3> DEFINE a == s[p].attempts
    <3>3. t[p].attempts = a /\ t[r].attempts = 0
      BY <1>2, <1>3, <2>1, <2>3
    <3> HIDE DEF a
    <3>4. 0 < a
      BY <3>1, <3>2 DEF a
    <3> QED BY <3>3, <3>4
  <2> QED BY <1>4, <2>2, <2>3
<1>8. Len(t) < BatchSize => Tried(t)
  BY <1>1, <1>3 DEF Tried
<1>9. ASSUME NEW i \in IdsIn(t) PROVE i \in IdsIn(s) \cup {id}
  <2>1. PICK p \in 1..(n + 1) : i = t[p].id
    BY <1>3, <1>9 DEF IdsIn
  <2> QED BY <1>2, <1>3, <1>4, <2>1 DEF IdsIn, n
<1>10. ASSUME NEW i \in IdsIn(s) \cup {id} PROVE i \in IdsIn(t)
  <2>1. CASE i = id
    <3>1. n + 1 \in 1..Len(t) /\ t[n + 1].id = id
      BY <1>2, <1>3, <1>4
    <3> QED BY <2>1, <3>1 DEF IdsIn
  <2>2. CASE i \in IdsIn(s)
    <3>1. PICK p \in 1..n : i = s[p].id
      BY <2>2 DEF IdsIn, n
    <3>2. p \in 1..Len(t) /\ t[p] = s[p]
      BY <1>3, <1>4
    <3> QED BY <3>1, <3>2 DEF IdsIn
  <2> QED BY <1>10, <2>1, <2>2
<1> QED BY <1>3, <1>6, <1>7, <1>8, <1>9, <1>10

\* Nobody is in an empty line, and all is well there.
LEMMA EmptyLine ==
  /\ <<>> \in Seq(Entries) /\ <<>> \in Seq(Outcomes) /\ Len(<<>>) = 0 /\ IdsIn(<<>>) = {}
  /\ Distinct(<<>>) /\ Staggered(<<>>) /\ Tried(<<>>) /\ Line(<<>>, <<>>) = <<>>
<1>1. <<>> \in Seq(Entries) /\ <<>> \in Seq(Outcomes) /\ Len(<<>>) = 0 /\ 1..0 = {}
  OBVIOUS
<1>2. IdsIn(<<>>) = {}
  BY <1>1 DEF IdsIn
<1>3. Distinct(<<>>) /\ Staggered(<<>>) /\ Tried(<<>>)
  BY <1>1 DEF Distinct, Staggered, Tried
<1>4. Line(<<>>, <<>>) = <<>>
  BY <1>1, LineEnds
<1> QED BY <1>1, <1>2, <1>3, <1>4

\* One more is asked for.
LEMMA AddKeeps ==
  ASSUME AttInv, AddAttestation
  PROVE  AttInv'
<1> DEFINE id == accepted + 1
           longer == Append(queue, [id |-> id, attempts |-> 0])
           full == Len(longer) >= BatchSize
<1>1. /\ phase = "idle" /\ accepted < MaxAttestations /\ accepted' = id
      /\ queue' = (IF full THEN <<>> ELSE longer) /\ batch' = (IF full THEN longer ELSE <<>>)
      /\ phase' = (IF full THEN "flushing" ELSE "idle")
      /\ results' = results /\ landed' = landed /\ abandoned' = abandoned /\ gone' = gone
      /\ floating' = floating /\ receipt' = receipt /\ written' = written /\ unheard' = unheard
  BY DEF AddAttestation, logVars, nodeVars
<1>2. batch = <<>> /\ results = <<>> /\ Distinct(queue) /\ Staggered(queue) /\ Tried(queue)
  BY <1>1 DEF AttInv, PhaseInv, LineInv
<1>3. queue \in Seq(Entries) /\ accepted \in Nat /\ InHand = IdsIn(queue)
  BY <1>2, AttFacts, EmptyLine
<1>4. id \in Ids /\ id \in Nat /\ id \in 0..MaxAttestations /\ id \notin 1..accepted /\ 1..id = 1..accepted \cup {id}
  BY <1>1, <1>3, AttestationConstants DEF Ids
<1>5. InHand \cup landed \cup abandoned \cup gone = 1..accepted
  BY DEF AttInv, PlacesInv
<1> HIDE DEF id, longer
<1>6. /\ longer \in Seq(Entries) /\ Distinct(longer) /\ Staggered(longer) /\ IdsIn(longer) = InHand \cup {id}
      /\ ~ full => Tried(longer)
  <2>1. /\ longer \in Seq(Entries) /\ Distinct(longer) /\ Staggered(longer) /\ IdsIn(longer) = IdsIn(queue) \cup {id}
        /\ Len(longer) < BatchSize => Tried(longer)
    <3>1. id \notin IdsIn(queue)
      BY <1>3, <1>4, <1>5
    <3>2. longer = Append(queue, [id |-> id, attempts |-> 0])
      BY DEF longer
    <3> QED BY <1>2, <1>3, <1>4, <3>1, <3>2, JoinsLine
  <2>2. Len(longer) \in Nat /\ BatchSize \in Nat
    BY <2>1, AttestationConstants
  <2>3. ~ full => Len(longer) < BatchSize
    BY <2>2
  <2> QED BY <1>3, <2>1, <2>3
<1> HIDE DEF full
<1>7. queue' \in Seq(Entries) /\ batch' \in Seq(Entries) /\ results' \in Seq(Outcomes) /\ results' = <<>>
  BY <1>1, <1>2, <1>6, EmptyLine
<1>8. Line(results', batch') = batch'
  BY <1>7, LineEnds
<1>9. InHand' = InHand \cup {id}
  <2>1. InHand' = IdsIn(queue') \cup IdsIn(Line(results', batch'))
    BY <1>7, HandIs DEF InHand
  <2> QED BY <1>1, <1>6, <1>8, <2>1, EmptyLine
<1>10. Successes' = Successes
  BY <1>1 DEF Successes
<1>11. AttTypeOK'
  BY <1>1, <1>4, <1>7 DEF AttInv, AttTypeOK, Outcomes
<1>12. PhaseInv'
  BY <1>1, <1>2 DEF PhaseInv
<1>13. LineInv'
  BY <1>1, <1>6, <1>8, EmptyLine DEF LineInv
<1>14. PlacesInv'
  <2>1. id \notin landed \cup abandoned \cup gone
    BY <1>4, <1>5
  <2> QED BY <1>1, <1>4, <1>9, <2>1 DEF AttInv, PlacesInv
<1>15. ChainInv'
  <2>1. \A i : ~ IsAwaited(i) /\ ~ IsAwaited(i)'
    BY <1>1 DEF IsAwaited
  <2>2. phase' # "waiting" /\ phase # "waiting"
    BY <1>1
  <2>3. ~ IsAwaited(floating) /\ ~ IsAwaited(floating)'
    BY <2>2 DEF IsAwaited
  <2>4. ChainInv
    BY DEF AttInv
  <2> QED BY <1>1, <1>10, <2>1, <2>2, <2>3, <2>4 DEF ChainInv
<1> QED BY <1>11, <1>12, <1>13, <1>14, <1>15 DEF AttInv

\* An answer to the first of the rest keeps everybody's place.
LEMMA AnswersKeep ==
  ASSUME AttInv, batch # <<>>, phase # "idle", NEW success \in BOOLEAN, Result(success),
         UNCHANGED <<queue, accepted, landed, abandoned, gone, floating, receipt, written>>,
         unheard' \subseteq Ids, ChainInv'
  PROVE  AttInv'
<1>1. /\ batch' \in Seq(Entries) /\ results' \in Seq(Outcomes) /\ phase' = "flushing"
      /\ Line(results', batch') = Line(results, batch) /\ InHand' = InHand
  BY ResultFacts
<1>2. AttTypeOK'
  BY <1>1 DEF AttInv, AttTypeOK, Outcomes
<1>3. PhaseInv'
  BY <1>1 DEF AttInv, PhaseInv
<1>4. LineInv'
  BY <1>1 DEF AttInv, LineInv
<1>5. PlacesInv'
  BY <1>1 DEF AttInv, PlacesInv
<1> QED BY <1>2, <1>3, <1>4, <1>5 DEF AttInv

\* One that is not sent.
LEMMA NotSentKeeps ==
  ASSUME AttInv, NotSent
  PROVE  AttInv'
<1>1. /\ phase = "flushing" /\ batch # <<>> /\ Result(FALSE)
      /\ queue' = queue /\ accepted' = accepted /\ landed' = landed /\ abandoned' = abandoned /\ gone' = gone
      /\ floating' = floating /\ receipt' = receipt /\ written' = written /\ unheard' = unheard
  BY DEF NotSent, logVars, nodeVars
<1>2. phase' = "flushing" /\ Successes' = Successes
  BY <1>1, ResultFacts
<1>3. \A i : ~ IsAwaited(i) /\ ~ IsAwaited(i)'
  BY <1>1, <1>2 DEF IsAwaited
<1>4. ChainInv'
  <2>1. ~ IsAwaited(floating) /\ ~ IsAwaited(floating)'
    BY <1>1, <1>2 DEF IsAwaited
  <2>2. ChainInv
    BY DEF AttInv
  <2> QED BY <1>1, <1>2, <1>3, <2>1, <2>2 DEF ChainInv
<1>5. unheard' \subseteq Ids
  BY <1>1 DEF AttInv, AttTypeOK
<1> QED BY <1>1, <1>4, <1>5, AnswersKeep

\* What the invariant says of one attestation.
LEMMA ChainFacts ==
  ASSUME AttInv
  PROVE  /\ written \in [Ids -> Nat] /\ receipt \in {"none", "ok", "reverted"} /\ unheard \subseteq Ids
         /\ \A id \in Ids \ unheard : written[id] \in Nat /\ (written[id] = 0 \/ written[id] = 1)
         /\ floating # NoAttestation => floating \in Ids
<1>1. written \in [Ids -> Nat] /\ receipt \in {"none", "ok", "reverted"} /\ unheard \subseteq Ids
  BY DEF AttInv, AttTypeOK
<1>2. floating # NoAttestation => floating \in Ids
  BY DEF AttInv, AttTypeOK
<1>3. \A id \in Ids \ unheard : written[id] <= 1
  BY DEF AttInv, ChainInv
<1> QED BY <1>1, <1>2, <1>3

\* The first of the rest is sent: nobody heard of it before, or not in time.
LEMMA SendKeeps ==
  ASSUME AttInv, Send
  PROVE  AttInv'
<1> DEFINE h == Head(batch).id
<1>1. /\ phase = "flushing" /\ batch # <<>> /\ floating' = h /\ receipt' = "none" /\ phase' = "waiting"
      /\ queue' = queue /\ batch' = batch /\ results' = results /\ accepted' = accepted
      /\ landed' = landed /\ abandoned' = abandoned /\ gone' = gone /\ written' = written /\ unheard' = unheard
  BY DEF Send, logVars
<1>2. h \in Ids /\ h \in InHand /\ h \notin Successes /\ Ids \subseteq Int
  BY <1>1, AttFacts
<1>3. h \notin landed \cup abandoned \cup gone
  BY <1>2 DEF AttInv, PlacesInv
<1>4. \A i : ~ IsAwaited(i)
  BY <1>1 DEF IsAwaited
<1>5. h \notin unheard => written[h] = 0
  <2> SUFFICES ASSUME h \notin unheard PROVE written[h] = 0
    OBVIOUS
  <2> HIDE DEF h
  <2>1. h \in Ids \ unheard
    BY <1>2
  <2>2. written[h] = 1 => h \in landed \cup gone \cup Successes
    BY <1>4, <2>1 DEF AttInv, ChainInv
  <2>3. written[h] = 0 \/ written[h] = 1
    BY <2>1, ChainFacts
  <2> QED BY <1>2, <1>3, <2>2, <2>3
<1>6. AttTypeOK'
  BY <1>1, <1>2 DEF AttInv, AttTypeOK
<1>7. PhaseInv' /\ LineInv'
  BY <1>1 DEF AttInv, PhaseInv, LineInv
<1>8. InHand' = InHand /\ Successes' = Successes
  BY <1>1 DEF InHand, Successes
<1>9. PlacesInv'
  BY <1>1, <1>8 DEF AttInv, PlacesInv
<1>10. ChainInv'
  <2>1. IsAwaited(floating)'
    BY <1>1 DEF IsAwaited
  <2>2. receipt' # "ok"
    BY <1>1
  <2>3. \A id \in landed' \cup Successes' : written'[id] > 0
    BY <1>1, <1>8 DEF AttInv, ChainInv
  <2>4. \A id \in Ids \ unheard' :
          written'[id] <= 1 /\ (written'[id] = 1 => id \in landed' \cup gone' \cup Successes')
    BY <1>1, <1>4, <1>8 DEF AttInv, ChainInv
  <2>5. floating' \notin unheard' => written'[floating'] = 0
    BY <1>1, <1>5
  <2> QED BY <1>1, <2>1, <2>2, <2>3, <2>4, <2>5 DEF ChainInv
<1> QED BY <1>6, <1>7, <1>9, <1>10 DEF AttInv

\* The receipt of the one waited for says what is on the chain.
LEMMA ReceiptComesKeeps ==
  ASSUME AttInv, ReceiptComes
  PROVE  AttInv'
<1> DEFINE h == Head(batch).id
           ok == (receipt = "ok")
<1>1. /\ phase = "waiting" /\ receipt # "none" /\ Result(receipt = "ok")
      /\ queue' = queue /\ accepted' = accepted /\ landed' = landed /\ abandoned' = abandoned /\ gone' = gone
      /\ floating' = floating /\ receipt' = receipt /\ written' = written /\ unheard' = unheard
  BY DEF ReceiptComes, logVars, nodeVars
<1>2. batch # <<>>
  BY <1>1 DEF AttInv, PhaseInv
<1>3. h \in Ids
  BY <1>2, AttFacts
<1>4. Result(ok) /\ ok \in BOOLEAN
  BY <1>1
<1>5. \A i : IsAwaited(i) <=> i = h
  BY <1>1, <1>2 DEF IsAwaited
<1> HIDE DEF ok
<1>6. phase' = "flushing" /\ Successes' = Successes \cup (IF ok THEN {h} ELSE {})
  BY <1>1, <1>2, <1>4, ResultFacts
<1> HIDE DEF h
<1>7. floating = NoAttestation
  BY <1>1 DEF AttInv, ChainInv
<1>8. ChainInv'
  <2>1. \A i : ~ IsAwaited(i)'
    BY <1>6 DEF IsAwaited
  <2>2. \A id \in landed' \cup Successes' : written'[id] > 0
    BY <1>1, <1>3, <1>5, <1>6 DEF AttInv, ChainInv, ok
  <2>3. \A id \in Ids \ unheard' :
          written'[id] <= 1 /\ (written'[id] = 1 => id \in landed' \cup gone' \cup Successes')
    BY <1>1, <1>5, <1>6 DEF AttInv, ChainInv, ok
  <2> QED BY <1>1, <1>6, <1>7, <2>1, <2>2, <2>3 DEF ChainInv
<1>9. unheard' \subseteq Ids
  BY <1>1 DEF AttInv, AttTypeOK
<1> QED BY <1>1, <1>2, <1>4, <1>8, <1>9, AnswersKeep

\* ... and one that did not come in time is known not to have come.
LEMMA ReceiptIsLateKeeps ==
  ASSUME AttInv, ReceiptIsLate
  PROVE  AttInv'
<1> DEFINE h == Head(batch).id
<1>1. /\ phase = "waiting" /\ receipt = "none" /\ Result(FALSE) /\ unheard' = unheard \cup {h}
      /\ queue' = queue /\ accepted' = accepted /\ landed' = landed /\ abandoned' = abandoned /\ gone' = gone
      /\ floating' = floating /\ receipt' = receipt /\ written' = written
  BY DEF ReceiptIsLate, logVars
<1>2. batch # <<>>
  BY <1>1 DEF AttInv, PhaseInv
<1>3. h \in Ids
  BY <1>2, AttFacts
<1>4. \A i : IsAwaited(i) <=> i = h
  BY <1>1, <1>2 DEF IsAwaited
<1>5. phase' = "flushing" /\ Successes' = Successes
  BY <1>1, <1>2, ResultFacts
<1> HIDE DEF h
<1>6. unheard' \subseteq Ids
  BY <1>1, <1>3 DEF AttInv, AttTypeOK
<1>7. ChainInv'
  <2>1. \A i : ~ IsAwaited(i)'
    BY <1>5 DEF IsAwaited
  <2>2. \A id \in landed' \cup Successes' : written'[id] > 0
    BY <1>1, <1>5 DEF AttInv, ChainInv
  <2>3. \A id \in Ids \ unheard' :
          written'[id] <= 1 /\ (written'[id] = 1 => id \in landed' \cup gone' \cup Successes')
    BY <1>1, <1>5 DEF AttInv, ChainInv
  <2>4. floating' # NoAttestation => floating' \in unheard'
    <3>1. floating # NoAttestation => IsAwaited(floating)
      BY <1>1 DEF AttInv, ChainInv
    <3> QED BY <1>1, <1>4, <3>1
  <2> QED BY <1>1, <1>5, <2>1, <2>2, <2>3, <2>4 DEF ChainInv
<1> QED BY <1>1, <1>2, <1>6, <1>7, AnswersKeep

\* The flush is over: each is on record, back in the queue, or given up.
LEMMA ReconcileKeeps ==
  ASSUME AttInv, Reconcile
  PROVE  AttInv'
<1> DEFINE over == {r.entry.id : r \in {x \in Range(results) : GivenUp(x)}}
           owed == IdsIn(Requeued)
<1>1. /\ phase = "flushing" /\ batch = <<>> /\ phase' = "idle" /\ queue' = Requeued \o queue /\ results' = <<>>
      /\ landed' = landed \cup Successes /\ abandoned' = abandoned \cup over
      /\ batch' = batch /\ accepted' = accepted /\ gone' = gone
      /\ floating' = floating /\ receipt' = receipt /\ written' = written /\ unheard' = unheard
  BY DEF Reconcile, nodeVars
<1>2. /\ queue = <<>> /\ results \in Seq(Outcomes)
      /\ Distinct(Line(results, <<>>)) /\ Staggered(Line(results, <<>>))
  BY <1>1, AttFacts DEF AttInv, PhaseInv, LineInv
<1>3. /\ Requeued \in Seq(Entries) /\ Distinct(Requeued) /\ Staggered(Requeued) /\ Tried(Requeued)
      /\ owed = {results[p].entry.id :
                   p \in {m \in 1..Len(results) : ~ results[m].success /\ ~ GivenUp(results[m])}}
  BY <1>2, RequeuedHas
<1>4. queue' = Requeued
  BY <1>1, <1>2, <1>3, ConcatEmptySeq
<1>5. /\ \A p \in 1..Len(results) : results[p] \in Range(results) /\ results[p] \in Outcomes
      /\ \A e \in Range(results) : \E p \in 1..Len(results) : results[p] = e
  BY <1>2, RangeOf, LenProperties
<1>6. over = {results[p].entry.id : p \in {m \in 1..Len(results) : GivenUp(results[m])}}
  BY <1>5
<1>7. Successes = {results[p].entry.id : p \in {m \in 1..Len(results) : results[m].success}}
  BY AttFacts
<1>8. InHand = {results[p].entry.id : p \in 1..Len(results)}
  <2> DEFINE l == Line(results, <<>>)
  <2>1. InHand = IdsIn(<<>>) \cup IdsIn(l)
    BY <1>1, <1>2, AttFacts
  <2>2. Len(l) = Len(results) /\ \A i \in 1..Len(results) : l[i] = results[i].entry
    BY <1>2, EmptyLine, LineEnds
  <2> HIDE DEF l
  <2>3. IdsIn(l) = {results[p].entry.id : p \in 1..Len(results)}
    BY <2>2 DEF IdsIn
  <2> QED BY <2>1, <2>3, EmptyLine
<1>9. \A p, r \in 1..Len(results) : p # r => results[p].entry.id # results[r].entry.id
  <2> DEFINE l == Line(results, <<>>)
  <2>1. Len(l) = Len(results) /\ \A i \in 1..Len(results) : l[i] = results[i].entry
    BY <1>2, EmptyLine, LineEnds
  <2> HIDE DEF l
  <2>2. Distinct(l)
    BY <1>2 DEF l
  <2> QED BY <2>1, <2>2 DEF Distinct
<1>10. \A p \in 1..Len(results) : GivenUp(results[p]) => ~ results[p].success
  BY DEF GivenUp
<1>11. InHand = Successes \cup over \cup owed
  BY <1>3, <1>6, <1>7, <1>8
<1>12. Successes \cap over = {} /\ Successes \cap owed = {} /\ over \cap owed = {}
  <2> DEFINE Of(P) == {results[p].entry.id : p \in P}
             N == 1..Len(results)
             L == {m \in N : results[m].success}
             G == {m \in N : GivenUp(results[m])}
             O == {m \in N : ~ results[m].success /\ ~ GivenUp(results[m])}
  <2>1. L \subseteq N /\ G \subseteq N /\ O \subseteq N /\ L \cap G = {} /\ L \cap O = {} /\ G \cap O = {}
    BY <1>10
  <2>2. Successes = Of(L) /\ over = Of(G) /\ owed = Of(O)
    BY <1>3, <1>6, <1>7
  <2> HIDE DEF L, G, O
  <2>3. ASSUME NEW P \in SUBSET N, NEW Q \in SUBSET N, P \cap Q = {} PROVE Of(P) \cap Of(Q) = {}
    <3> SUFFICES ASSUME NEW p \in P, NEW q \in Q, results[p].entry.id = results[q].entry.id PROVE FALSE
      OBVIOUS
    <3>1. p \in N /\ q \in N /\ p # q
      BY <2>3
    <3> QED BY <1>9, <3>1
  <2> HIDE DEF Of, over, owed
  <2> QED BY <2>1, <2>2, <2>3
<1> HIDE DEF over, owed
<1>13. batch' = <<>> /\ results' = <<>> /\ Line(results', batch') = <<>>
  BY <1>1, EmptyLine
<1>14. InHand' = owed
  <2>1. InHand' = IdsIn(queue') \cup IdsIn(Line(results', batch'))
    BY <1>3, <1>4, <1>13, EmptyLine, HandIs DEF InHand
  <2> QED BY <1>4, <1>13, <2>1, EmptyLine DEF owed
<1>15. Successes' = {}
  BY <1>13, SuccessesIn, EmptyLine DEF Successes
<1>16. InHand \subseteq Ids
  BY AttFacts DEF AttInv, PlacesInv
<1>17. AttTypeOK'
  BY <1>1, <1>3, <1>4, <1>11, <1>13, <1>16, EmptyLine DEF AttInv, AttTypeOK, Outcomes
<1>18. PhaseInv'
  BY <1>1 DEF PhaseInv
<1>19. LineInv'
  BY <1>3, <1>4, <1>13, EmptyLine DEF LineInv
<1>20. PlacesInv'
  BY <1>1, <1>11, <1>12, <1>14 DEF AttInv, PlacesInv
<1>21. ChainInv'
  <2>1. \A i : ~ IsAwaited(i) /\ ~ IsAwaited(i)'
    BY <1>1 DEF IsAwaited
  <2>2. ~ IsAwaited(floating) /\ ~ IsAwaited(floating)'
    BY <1>1 DEF IsAwaited
  <2>3. ChainInv
    BY DEF AttInv
  <2> QED BY <1>1, <1>15, <2>1, <2>2, <2>3 DEF ChainInv
<1> QED BY <1>17, <1>18, <1>19, <1>20, <1>21 DEF AttInv

\* Those a process took with it.
LEMMA ExitKeeps ==
  ASSUME AttInv, ProcessExits
  PROVE  AttInv'
<1>1. /\ queue' = <<>> /\ batch' = <<>> /\ results' = <<>> /\ phase' = "idle" /\ gone' = gone \cup InHand
      /\ accepted' = accepted /\ landed' = landed /\ abandoned' = abandoned
      /\ floating' = floating /\ receipt' = receipt /\ written' = written /\ unheard' = unheard
  BY DEF ProcessExits, nodeVars
<1>2. InHand' = {}
  <2>1. InHand' = IdsIn(queue') \cup IdsIn(Line(results', batch'))
    BY <1>1, EmptyLine, HandIs DEF InHand
  <2> QED BY <1>1, <2>1, EmptyLine
<1>3. Successes' = {}
  BY <1>1, SuccessesIn, EmptyLine DEF Successes
<1>4. InHand \subseteq Ids /\ Successes \subseteq InHand
  BY AttFacts DEF AttInv, PlacesInv
<1>5. \A i : IsAwaited(i) => i \in InHand
  BY AttFacts DEF IsAwaited
<1>6. AttTypeOK'
  BY <1>1, <1>4, EmptyLine DEF AttInv, AttTypeOK, Outcomes
<1>7. PhaseInv' /\ LineInv'
  BY <1>1, EmptyLine DEF PhaseInv, LineInv
<1>8. PlacesInv'
  BY <1>1, <1>2 DEF AttInv, PlacesInv
<1>9. ChainInv'
  <2>1. \A i : ~ IsAwaited(i)'
    BY <1>1 DEF IsAwaited
  <2>2. \A id \in landed' \cup Successes' : written'[id] > 0
    BY <1>1, <1>3 DEF AttInv, ChainInv
  <2>3. \A id \in Ids \ unheard' :
          written'[id] <= 1 /\ (written'[id] = 1 => id \in landed' \cup gone' \cup Successes')
    <3> SUFFICES ASSUME NEW id \in Ids \ unheard
                 PROVE  written[id] <= 1 /\ (written[id] = 1 => id \in landed \cup gone')
      BY <1>1
    <3>1. /\ written[id] <= 1
          /\ written[id] = 1 => id \in landed \cup gone \cup Successes \/ IsAwaited(id)
      BY DEF AttInv, ChainInv
    <3> QED BY <1>1, <1>4, <1>5, <3>1
  <2>4. floating # NoAttestation /\ floating \notin unheard => written[floating] = 0 /\ floating \in gone'
    BY <1>1, <1>5 DEF AttInv, ChainInv
  <2> QED BY <1>1, <2>1, <2>2, <2>3, <2>4 DEF ChainInv
<1> QED BY <1>6, <1>7, <1>8, <1>9 DEF AttInv

\* The node mines the one it holds.
LEMMA MinedKeeps ==
  ASSUME AttInv, Mined
  PROVE  AttInv'
<1> DEFINE f == floating
<1>1. PICK status \in {"ok", "reverted"} :
        /\ written' = [written EXCEPT ![f] = @ + (IF status = "ok" THEN 1 ELSE 0)]
        /\ receipt' = IF phase = "waiting" THEN status ELSE receipt
  BY DEF Mined
<1>2. /\ f # NoAttestation /\ floating' = NoAttestation
      /\ queue' = queue /\ batch' = batch /\ results' = results /\ phase' = phase /\ accepted' = accepted
      /\ landed' = landed /\ abandoned' = abandoned /\ gone' = gone /\ unheard' = unheard
  BY DEF Mined, logVars
<1>3. f \in Ids /\ written \in [Ids -> Nat] /\ Ids \subseteq Int
  BY <1>2, ChainFacts, AttFacts
<1> HIDE DEF f
<1> DEFINE more == written[f] + (IF status = "ok" THEN 1 ELSE 0)
<1>4. written[f] \in Nat /\ more \in Nat /\ more >= written[f] /\ (status = "ok" => more = written[f] + 1)
      /\ (status # "ok" => more = written[f])
  BY <1>3
<1>5. written' = [written EXCEPT ![f] = more]
  BY <1>1
<1> HIDE DEF more
<1>6. written' \in [Ids -> Nat] /\ written'[f] = more /\ \A id \in Ids \ {f} : written'[id] = written[id]
  BY <1>3, <1>4, <1>5
<1>7. \A id \in Ids : written[id] \in Nat /\ written'[id] \in Nat /\ written'[id] >= written[id]
  BY <1>3, <1>4, <1>6
<1>8. InHand' = InHand /\ Successes' = Successes /\ \A i : IsAwaited(i)' <=> IsAwaited(i)
  BY <1>2 DEF InHand, Successes, IsAwaited
<1>9. AttTypeOK'
  <2>1. receipt' \in {"none", "ok", "reverted"}
    BY <1>1 DEF AttInv, AttTypeOK
  <2> QED BY <1>2, <1>6, <2>1 DEF AttInv, AttTypeOK
<1>10. PhaseInv' /\ LineInv'
  BY <1>2 DEF AttInv, PhaseInv, LineInv
<1>11. PlacesInv'
  BY <1>2, <1>8 DEF AttInv, PlacesInv
<1>12. phase = "waiting" => IsAwaited(f) /\ receipt = "none" /\ receipt' = status
  BY <1>1, <1>2 DEF AttInv, ChainInv, f
<1>13. phase # "waiting" => receipt' = receipt /\ \A i : ~ IsAwaited(i)
  BY <1>1 DEF IsAwaited
<1>14. \A i : IsAwaited(i) => phase = "waiting" /\ i = f
  BY <1>12 DEF IsAwaited
<1>15. f \notin unheard => written[f] = 0 /\ (IsAwaited(f) \/ f \in gone)
  BY <1>2 DEF AttInv, ChainInv, f
<1>16. ChainInv'
  <2>1. \A id \in landed \cup Successes : written'[id] > 0
    <3> SUFFICES ASSUME NEW id \in landed \cup Successes PROVE written'[id] > 0
      OBVIOUS
    <3>1. id \in Ids /\ written[id] > 0
      BY AttFacts DEF AttInv, PlacesInv, ChainInv
    <3> QED BY <1>7, <3>1
  <2>2. ASSUME NEW id \in Ids, IsAwaited(id), receipt' = "ok" PROVE written'[id] > 0
    <3>1. id = f /\ status = "ok"
      BY <1>12, <1>14, <2>2
    <3> QED BY <1>4, <1>6, <3>1
  <2>3. ASSUME NEW id \in Ids \ unheard
        PROVE  /\ written'[id] <= 1
               /\ written'[id] = 1 => id \in landed \cup gone \cup Successes \/ (IsAwaited(id) /\ receipt' = "ok")
    <3>1. CASE id = f
      <4>1. written[f] = 0 /\ (IsAwaited(f) \/ f \in gone)
        BY <1>15, <2>3, <3>1
      <4>2. more <= 1 /\ (more = 1 => status = "ok")
        BY <1>4, <4>1
      <4>3. IsAwaited(f) => receipt' = status
        BY <1>12, <1>14
      <4> QED BY <1>6, <3>1, <4>1, <4>2, <4>3
    <3>2. CASE id # f
      <4>1. ~ IsAwaited(id)
        BY <1>14, <3>2
      <4>2. written'[id] = written[id]
        BY <1>6, <3>2
      <4> QED BY <2>3, <4>1, <4>2 DEF AttInv, ChainInv
    <3> QED BY <3>1, <3>2
  <2> QED BY <1>2, <1>8, <2>1, <2>2, <2>3 DEF ChainInv
<1> QED BY <1>9, <1>10, <1>11, <1>16 DEF AttInv

\* ... or lets it go.
LEMMA DisplacedKeeps ==
  ASSUME AttInv, Displaced
  PROVE  AttInv'
<1>1. /\ floating' = NoAttestation
      /\ queue' = queue /\ batch' = batch /\ results' = results /\ phase' = phase /\ accepted' = accepted
      /\ landed' = landed /\ abandoned' = abandoned /\ gone' = gone /\ unheard' = unheard
      /\ receipt' = receipt /\ written' = written
  BY DEF Displaced, logVars
<1>2. InHand' = InHand /\ Successes' = Successes /\ \A i : IsAwaited(i)' <=> IsAwaited(i)
  BY <1>1 DEF InHand, Successes, IsAwaited
<1>3. AttTypeOK' /\ PhaseInv' /\ LineInv' /\ PlacesInv'
  BY <1>1, <1>2 DEF AttInv, AttTypeOK, PhaseInv, LineInv, PlacesInv
<1>4. ChainInv'
  BY <1>1, <1>2 DEF AttInv, ChainInv
<1> QED BY <1>3, <1>4 DEF AttInv

\* It holds of a process that was asked for nothing.
LEMMA AttStart == AttInit => AttInv
<1> SUFFICES ASSUME AttInit PROVE AttInv
  OBVIOUS
<1>1. /\ queue = <<>> /\ batch = <<>> /\ results = <<>> /\ phase = "idle" /\ accepted = 0
      /\ landed = {} /\ abandoned = {} /\ gone = {} /\ floating = NoAttestation /\ receipt = "none"
      /\ written = [id \in Ids |-> 0] /\ unheard = {}
  BY DEF AttInit
<1>2. InHand = {} /\ Successes = {}
  <2>1. InHand = IdsIn(queue) \cup IdsIn(Line(results, batch))
    BY <1>1, EmptyLine, HandIs DEF InHand
  <2> QED BY <1>1, <2>1, SuccessesIn, EmptyLine DEF Successes
<1>3. AttTypeOK
  BY <1>1, EmptyLine, AttestationConstants DEF AttTypeOK, Outcomes
<1>4. PhaseInv /\ LineInv
  BY <1>1, EmptyLine DEF PhaseInv, LineInv
<1>5. PlacesInv
  BY <1>1, <1>2 DEF PlacesInv
<1>6. ChainInv
  BY <1>1, <1>2 DEF ChainInv, IsAwaited
<1> QED BY <1>3, <1>4, <1>5, <1>6 DEF AttInv

\* Every step keeps it.
LEMMA AttStep == AttInv /\ [AttNext]_attVars => AttInv'
<1> SUFFICES ASSUME AttInv, [AttNext]_attVars PROVE AttInv'
  OBVIOUS
<1>1. ASSUME UNCHANGED attVars PROVE AttInv'
  <2>1. /\ floating' = floating
        /\ queue' = queue /\ batch' = batch /\ results' = results /\ phase' = phase /\ accepted' = accepted
        /\ landed' = landed /\ abandoned' = abandoned /\ gone' = gone /\ unheard' = unheard
        /\ receipt' = receipt /\ written' = written
    BY <1>1 DEF attVars
  <2>2. InHand' = InHand /\ Successes' = Successes /\ \A i : IsAwaited(i)' <=> IsAwaited(i)
    BY <2>1 DEF InHand, Successes, IsAwaited
  <2>3. IsAwaited(floating)' <=> IsAwaited(floating)
    BY <2>1 DEF IsAwaited
  <2>4. AttTypeOK' /\ PhaseInv' /\ LineInv' /\ PlacesInv'
    BY <2>1, <2>2 DEF AttInv, AttTypeOK, PhaseInv, LineInv, PlacesInv
  <2>5. ChainInv'
    BY <2>1, <2>2, <2>3 DEF AttInv, ChainInv
  <2> QED BY <2>4, <2>5 DEF AttInv
<1> QED BY <1>1, AddKeeps, NotSentKeeps, SendKeeps, ReceiptComesKeeps, ReceiptIsLateKeeps, ReconcileKeeps,
           ExitKeeps, MinedKeeps, DisplacedKeeps DEF AttNext

\* Those in hand are as many as have a place.
LEMMA PlacesCounted ==
  ASSUME AttInv
  PROVE  EachIsInOnePlace
<1>1. /\ queue \in Seq(Entries) /\ batch \in Seq(Entries) /\ results \in Seq(Outcomes)
      /\ accepted \in Nat /\ InHand = IdsIn(queue) \cup IdsIn(Line(results, batch))
  BY AttFacts
<1>2. Distinct(queue) /\ Distinct(Line(results, batch))
  BY DEF AttInv, LineInv
<1>3. /\ Line(results, batch) \in Seq(Entries) /\ Len(Line(results, batch)) = Len(results) + Len(batch)
      /\ Len(results) \in Nat /\ Len(batch) \in Nat /\ Len(queue) \in Nat
  BY <1>1, LineIs
<1>4. IsFiniteSet(InHand) /\ Cardinality(InHand) = Len(queue) + Len(batch) + Len(results)
  <2>1. CASE phase = "idle"
    <3>1. batch = <<>> /\ results = <<>>
      BY <2>1 DEF AttInv, PhaseInv
    <3>2. InHand = IdsIn(queue) /\ Len(batch) = 0 /\ Len(results) = 0
      BY <1>1, <3>1, EmptyLine
    <3>3. IsFiniteSet(IdsIn(queue)) /\ Cardinality(IdsIn(queue)) = Len(queue)
      BY <1>1, <1>2, DistinctCount
    <3> QED BY <1>3, <3>2, <3>3
  <2>2. CASE phase # "idle"
    <3> DEFINE l == Line(results, batch)
    <3>1. queue = <<>>
      BY <2>2 DEF AttInv, PhaseInv
    <3>2. InHand = IdsIn(l) /\ Len(queue) = 0
      BY <1>1, <3>1, EmptyLine
    <3> HIDE DEF l
    <3>3. IsFiniteSet(IdsIn(l)) /\ Cardinality(IdsIn(l)) = Len(l)
      BY <1>2, <1>3, DistinctCount DEF l
    <3>4. Len(l) = Len(results) + Len(batch)
      BY <1>3 DEF l
    <3> QED BY <1>3, <3>2, <3>3, <3>4
  <2> QED BY <2>1, <2>2
<1>5. /\ InHand \cup landed \cup abandoned \cup gone = 1..accepted
      /\ InHand \cap (landed \cup abandoned \cup gone) = {}
      /\ landed \cap (abandoned \cup gone) = {} /\ abandoned \cap gone = {}
  BY DEF AttInv, PlacesInv
<1>6. IsFiniteSet(1..accepted) /\ Cardinality(1..accepted) = accepted
  BY <1>1, FS_Interval
<1>7. IsFiniteSet(landed) /\ IsFiniteSet(abandoned) /\ IsFiniteSet(gone)
  <2>1. landed \in SUBSET (1..accepted) /\ abandoned \in SUBSET (1..accepted) /\ gone \in SUBSET (1..accepted)
    BY <1>5
  <2> QED BY <1>6, <2>1, FS_Subset
<1>8. IsFiniteSet(abandoned \cup gone) /\ Cardinality(abandoned \cup gone) = Cardinality(abandoned) + Cardinality(gone)
  BY <1>5, <1>7, DisjointCount
<1>9. /\ IsFiniteSet(landed \cup (abandoned \cup gone))
      /\ Cardinality(landed \cup (abandoned \cup gone)) = Cardinality(landed) + Cardinality(abandoned \cup gone)
  BY <1>5, <1>7, <1>8, DisjointCount
<1>10. Cardinality(InHand \cup (landed \cup (abandoned \cup gone)))
         = Cardinality(InHand) + Cardinality(landed \cup (abandoned \cup gone))
  <2>1. InHand \cap (landed \cup (abandoned \cup gone)) = {}
    BY <1>5
  <2> QED BY <1>4, <1>9, <2>1, DisjointCount
<1>11. InHand \cup (landed \cup (abandoned \cup gone)) = 1..accepted /\ InHand \cup landed \cup abandoned \cup gone = 1..accepted
  BY <1>5
<1>12. /\ Cardinality(InHand) \in Nat /\ Cardinality(landed) \in Nat
       /\ Cardinality(abandoned) \in Nat /\ Cardinality(gone) \in Nat
  BY <1>4, <1>7, FS_CardinalityType
<1>13. accepted = Cardinality(InHand) + Cardinality(landed) + Cardinality(abandoned) + Cardinality(gone)
  <2> DEFINE h == Cardinality(InHand)
             m == Cardinality(landed)
             a == Cardinality(abandoned)
             g == Cardinality(gone)
             ag == Cardinality(abandoned \cup gone)
             lag == Cardinality(landed \cup (abandoned \cup gone))
  <2>1. accepted = h + lag
    BY <1>6, <1>10, <1>11, Zenon
  <2>2. lag = m + ag /\ ag = a + g
    BY <1>8, <1>9
  <2>3. h \in Nat /\ m \in Nat /\ a \in Nat /\ g \in Nat
    BY <1>12
  <2> HIDE DEF h, m, a, g, ag, lag
  <2>4. accepted = h + m + a + g
    BY <2>1, <2>2, <2>3
  <2> QED BY <2>4 DEF h, m, a, g
<1> QED BY <1>4, <1>11, <1>13 DEF EachIsInOnePlace

\* Over batches, refusals, late receipts and exits, an attestation is not lost
\* without a trace nor written twice for a failure of its neighbour, and the queue
\* stays short: for any batch size and number of attempts (batch_processor.py).
THEOREM AttestationsKept == AttSpec => []AttestationsAreKept
<1>1. AttInv => AttestationsAreKept
  <2> SUFFICES ASSUME AttInv PROVE AttestationsAreKept
    OBVIOUS
  <2>1. AttTypeOK
    BY DEF AttInv
  <2>2. EachIsInOnePlace
    BY PlacesCounted
  <2>3. RecordIsTrue
    <3>1. \A id \in landed : written[id] > 0
      BY DEF AttInv, ChainInv
    <3>2. ASSUME NEW id \in Ids, id \notin unheard PROVE ~ (written[id] > 1)
      BY <3>2, ChainFacts
    <3>3. ASSUME NEW id \in abandoned, id \notin unheard PROVE ~ (written[id] > 0)
      <4>1. id \in Ids /\ id \notin landed \cup gone \cup InHand
        BY AttFacts DEF AttInv, PlacesInv
      <4>2. id \notin Successes /\ ~ IsAwaited(id)
        BY <4>1, AttFacts DEF IsAwaited
      <4>3. written[id] # 1
        BY <3>3, <4>1, <4>2 DEF AttInv, ChainInv
      <4>4. written[id] = 0
        BY <3>3, <4>1, <4>3, ChainFacts
      <4> QED BY <4>4
    <3> QED BY <3>1, <3>2, <3>3 DEF RecordIsTrue
  <2>4. QueueIsBounded
    BY AttFacts, StaggeredBound DEF AttInv, LineInv, QueueIsBounded
  <2> QED BY <2>1, <2>2, <2>3, <2>4 DEF AttestationsAreKept
<1> QED BY <1>1, AttStart, AttStep, PTL DEF AttSpec
=============================================================================

------------------------- MODULE SponsorshipLedger -------------------------
(***************************************************************************)
(* The ledger behind the platform's gas sponsorship: what a signature may   *)
(* cost an address in a day.                                               *)
(*                                                                         *)
(* Several worker processes share one SQLite file.  A worker reads the      *)
(* clock, decides and reserves in one write transaction, signs, commits    *)
(* the row and hands the signature over, with no await in between; so a    *)
(* step is one transaction, and workers interleave, and die, between them. *)
(* A signature is sent when it leaves the worker: one that a crash keeps   *)
(* in memory spends nothing.                                               *)
(*                                                                         *)
(* The module is the policy with a cap configured; without one the ledger  *)
(* is never touched.                                                       *)
(***************************************************************************)
EXTENDS FiniteSets, Sums

CONSTANTS
  Workers,         \* worker processes, one request at a time each
  Spellings,       \* spellings of a spender, as a request carries them
  Canonical,       \* the one spelling each is metered under, NoSpender if it names no one
  NoSpender,
  Actions,         \* action labels
  AllowedActions,  \* the configured allowlist
  Costs,           \* estimates, in dollars
  Legacy,          \* rows of builds before signed was told from spent
  Cap,             \* daily_cap_usd
  Window,          \* WINDOW_SECONDS (24 h)
  Ttl,             \* RESERVATION_TTL_SECONDS (300 s)
  Stall,           \* bound: how long a live request takes from its clock reading on
  MaxTime,         \* bound: the clock
  MaxRows          \* bound: rows ever reserved

LegacyRows == [id : Nat, identity : Spellings, usd : Nat, state : {"committed"}, at : {0}]

ASSUME LedgerAssumption ==
  /\ Spellings # {} /\ Canonical \in [Spellings -> Spellings \cup {NoSpender}]
  /\ AllowedActions \subseteq Actions
  /\ Costs \subseteq Nat
  /\ Legacy \subseteq LegacyRows
  /\ IsFiniteSet(Legacy) /\ \A row \in Legacy : row.id < Cardinality(Legacy)
  /\ \A r, s \in Legacy : r.id = s.id => r = s
  /\ Cap \in Nat
  /\ Window \in Nat /\ Ttl \in Nat /\ Ttl <= Window
  /\ Stall \in Nat /\ MaxTime \in Nat /\ MaxRows \in Nat

VARIABLES
  now,        \* the clock the workers share
  ledger,     \* sponsorship_spend: its rows
  request,    \* what each worker is doing
  sent,       \* signatures handed over that may still land, as their rows were reserved
  lost,       \* ids of the reservations whose worker died or could not write
  nextId      \* ids are fresh

vars == <<now, ledger, request, sent, lost, nextId>>

States == {"reserved", "signed", "committed", "spent"}
Issued == {"signed", "committed", "spent"}
Rows == [id : Nat, identity : Spellings, usd : Nat, state : States, at : Int]
Sent == [id : Nat, identity : Spellings, usd : Nat, at : Int]
Phases == {"idle", "asking", "reserved", "signed"}
Requests == [phase : Phases, at : Nat, identity : Spellings, usd : Nat, id : Nat]

Idle == [phase |-> "idle", at |-> 0, identity |-> CHOOSE i \in Spellings : TRUE,
         usd |-> 0, id |-> 0]

AsSent(row) == [id |-> row.id, identity |-> row.identity, usd |-> row.usd, at |-> row.at]

Total(rows) == SumOf([row \in rows |-> row.usd], rows)

\* A live request is over before its reservation expires, and the cap was not
\* lowered below what earlier builds had already signed.
ASSUME StandingAssumption ==
  /\ Stall <= Ttl
  /\ \A i \in Spellings : Total({row \in Legacy : row.identity = i}) <= Cap

-----------------------------------------------------------------------------
CountsOnceSigned(row, at) ==  \* mutant: a reservation is not counted
  row.at >= at - Window /\ row.state \in Issued

\* Whether a row holds budget at a time.
Counts(row, at) ==
  /\ row.at >= at - Window
  /\ \/ row.state \in Issued
     \/ row.state = "reserved" /\ row.at >= at - Ttl

Spent(identity, at) ==
  Total({row \in ledger : row.identity = identity /\ Counts(row, at)})

\* Rows no decision can count again are dropped.
Swept(at) == {row \in ledger : row.at >= at - Window}

Init ==
  /\ now = 0
  /\ ledger = Legacy
  /\ request = [w \in Workers |-> Idle]
  /\ sent = {AsSent(row) : row \in Legacy}
  /\ lost = {}
  /\ nextId = Cardinality(Legacy)

AskUnidentified(w, identity, labels, usd) ==  \* mutant: a request that names no one passes
  /\ request[w].phase = "idle"
  /\ labels # {} /\ labels \subseteq AllowedActions
  /\ request' = [request EXCEPT ![w] = [phase |-> "asking", at |-> now, usd |-> usd, id |-> 0,
                                        identity |-> Canonical[identity]]]
  /\ UNCHANGED <<now, ledger, sent, lost, nextId>>

\* A request passes the allowlist and names someone; the clock is read.
Ask(w, identity, labels, usd) ==
  /\ request[w].phase = "idle"
  /\ labels # {} /\ labels \subseteq AllowedActions
  /\ Canonical[identity] # NoSpender
  /\ request' = [request EXCEPT ![w] = [phase |-> "asking", at |-> now, usd |-> usd, id |-> 0,
                                        identity |-> Canonical[identity]]]
  /\ UNCHANGED <<now, ledger, sent, lost, nextId>>

Fits(w) == Spent(request[w].identity, request[w].at) + request[w].usd <= Cap

\* Within the cap: swept, counted and reserved in one transaction.
Reserve(w) ==
  LET r == request[w] IN
  /\ r.phase = "asking"
  /\ Fits(w)
  /\ nextId < MaxRows
  /\ ledger' = Swept(r.at) \cup {[id |-> nextId, identity |-> r.identity, usd |-> r.usd,
                                  state |-> "reserved", at |-> r.at]}
  /\ nextId' = nextId + 1
  /\ request' = [request EXCEPT ![w] = [r EXCEPT !.phase = "reserved", !.id = nextId]]
  /\ UNCHANGED <<now, sent, lost>>

\* Over the cap: refused, and the sweep is committed all the same.
Deny(w) ==
  /\ request[w].phase = "asking"
  /\ ~Fits(w)
  /\ ledger' = Swept(request[w].at)
  /\ request' = [request EXCEPT ![w] = Idle]
  /\ UNCHANGED <<now, sent, lost, nextId>>

KeepReserved(id) == UNCHANGED ledger  \* mutant: the release is forgotten

Release(id) == ledger' = {row \in ledger : ~(row.id = id /\ row.state = "reserved")}

\* The signature is not issued: the budget goes back.
SigningFails(w) ==
  /\ request[w].phase = "reserved"
  /\ Release(request[w].id)
  /\ request' = [request EXCEPT ![w] = Idle]
  /\ UNCHANGED <<now, sent, lost, nextId>>

Commit(id) ==
  ledger' = {IF row.id = id /\ row.state = "reserved"
               THEN [row EXCEPT !.state = "signed"] ELSE row : row \in ledger}

\* The signature is issued and its row says so, before anyone has it.
SignAndCommit(w) ==
  /\ request[w].phase = "reserved"
  /\ Commit(request[w].id)
  /\ request' = [request EXCEPT ![w].phase = "signed"]
  /\ UNCHANGED <<now, sent, lost, nextId>>

HandOver(w) ==
  /\ request[w].phase = "signed"
  /\ sent' = sent \cup {AsSent(request[w])}
  /\ request' = [request EXCEPT ![w] = Idle]
  /\ UNCHANGED <<now, ledger, lost, nextId>>

\* The worker dies, or its next write fails: whatever it held stays as it is.
Dies(w) ==
  /\ request[w].phase # "idle"
  /\ lost' = IF request[w].phase = "asking" THEN lost ELSE lost \cup {request[w].id}
  /\ request' = [request EXCEPT ![w] = Idle]
  /\ UNCHANGED <<now, ledger, sent, nextId>>

\* The transaction of a sent signature is mined.
Settle(s) ==
  /\ s \in sent
  /\ ledger' = {IF row.id = s.id THEN [row EXCEPT !.state = "spent"] ELSE row : row \in ledger}
  /\ UNCHANGED <<now, request, sent, lost, nextId>>

AbandonAny(id) == ledger' = {row \in ledger : row.id # id}  \* mutant: a spent row too

Drop(id) == ledger' = {row \in ledger : ~(row.id = id /\ row.state # "spent")}

\* Its caller gives it up, which a settled one does not heed.
Abandon(s) ==
  /\ s \in sent
  /\ Drop(s.id)
  /\ sent' = {t \in sent : t.id # s.id \/ \E row \in ledger : row.id = s.id /\ row.state = "spent"}
  /\ UNCHANGED <<now, request, lost, nextId>>

Tick ==
  /\ now < MaxTime
  /\ \A w \in Workers : request[w].phase # "idle" => now < request[w].at + Stall
  /\ now' = now + 1
  /\ UNCHANGED <<ledger, request, sent, lost, nextId>>

Next ==
  \/ \E w \in Workers :
        \/ \E i \in Spellings, labels \in SUBSET Actions, usd \in Costs : Ask(w, i, labels, usd)
        \/ Reserve(w)
        \/ Deny(w)
        \/ SigningFails(w)
        \/ SignAndCommit(w)
        \/ HandOver(w)
        \/ Dies(w)
  \/ \E s \in sent : Settle(s) \/ Abandon(s)
  \/ Tick

Spec == Init /\ [][Next]_vars
-----------------------------------------------------------------------------
(* Properties *)

TypeOK ==
  /\ now \in Nat
  /\ ledger \in SUBSET Rows
  /\ request \in [Workers -> Requests]
  /\ sent \in SUBSET Sent
  /\ lost \in SUBSET Nat
  /\ nextId \in Nat

InWindow(at) == at >= now - Window

\* Whatever the workers interleave, however many of them die, the signatures an
\* address was given in the last window and that may still land are within the cap.
DailyCapHolds ==
  \A i \in Spellings : Total({s \in sent : s.identity = i /\ InWindow(s.at)}) <= Cap

\* Nobody is charged for what was not signed: a row that holds budget is an
\* issued signature's, a live request's, or was left by a worker that died.
BudgetIsAccountedFor ==
  \A row \in ledger : Counts(row, now) =>
     \/ \E s \in sent : s.id = row.id
     \/ \E w \in Workers : request[w].phase \in {"reserved", "signed"} /\ request[w].id = row.id
     \/ row.id \in lost

\* Gas that was paid stays on the books until it leaves the window, whatever is
\* settled, abandoned, released or swept by a worker with an older clock.
PaidGasStaysCounted ==
  [][\A row \in ledger : row.state = "spent" /\ InWindow(row.at) => row \in ledger']_vars
=============================================================================

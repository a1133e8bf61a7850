------------------------- MODULE ConversationClaims -------------------------
(***************************************************************************)
(* Conversations of the gateway: who holds one, which turn may still write *)
(* into it, and what an account's deletion takes away.                     *)
(*                                                                         *)
(* One process serves every request on one event loop, so a step here is   *)
(* what a handler does between two points where it really gives the loop   *)
(* away: the model call, the knowledge fetch of the protocol pre-process,  *)
(* a write to the client.  The database lock is never held across such a   *)
(* point, so a database await is not one of them.                          *)
(*                                                                         *)
(* A message is a tag: the conversation, the caller, and the epoch of the  *)
(* conversation in which its turn was ADMITTED.  Epochs are bookkeeping of *)
(* this module (nothing in the code reads one): a claim and an erasure each*)
(* begin a new one.                                                        *)
(***************************************************************************)
EXTENDS Integers, FiniteSets

CONSTANTS
  Convs,       \* conversation ids
  Subjects,    \* account subjects
  Nobody,      \* the empty subject
  Turns,       \* slots for turns in flight
  NamedFor,    \* the subject s of each "user:<s>" id, Nobody for other ids
  Evictable,   \* conversations and scopes that other traffic pushes out of the caches
  HistoryCap,  \* bound of a stored history (100 messages; 50 turns of memory)
  MaxClaims,   \* bound: claims made
  MaxSeq       \* bound: erasure sequence numbers

Identities == Subjects \cup {Nobody}

\* A memory scope is an account, or a conversation ("conv:<id>").
Scopes == Subjects \cup Convs

ASSUME ConstantsAssumption ==
  /\ Convs # {}
  /\ Nobody \notin Subjects
  /\ Subjects \cap Convs = {}
  /\ NamedFor \in [Convs -> Identities]
  /\ Evictable \subseteq Scopes
  /\ HistoryCap \in Nat
  /\ MaxClaims \in Nat
  /\ MaxSeq \in Nat

VARIABLES
  \* the store
  owner,           \* conversation_owners.owner
  claimId,         \* conversation_owners.claim_id, 0 for "" (no claim, or one from before ids)
  stored,          \* conversation_turns: the messages
  storedOwner,     \* conversation_turns.owner, one value on all rows of a conversation
  memory,          \* agent_turns, by scope
  erasures,        \* conversation_erasures
  stateRow,        \* whether conversation_erasure_state has its row,
  erasureSeq,      \*   its seq
  prunedThrough,   \*   and its pruned_through (both 0 without the row)
  \* the memory manager's caches
  loadedConvs, convCache, convOwner,
  loadedScopes, turnCache,
  erasureSeqSeen,
  \* the gateway's working set and the loop's protocol stacks
  working, conversations, stacks,
  \* the turns in flight
  turn,
  \* bookkeeping
  epoch, erasedBefore, nextClaimId

claimVars == <<owner, claimId, epoch, nextClaimId>>
rowVars == <<stored, storedOwner>>
logVars == <<erasures, stateRow, erasureSeq, prunedThrough>>
convCacheVars == <<loadedConvs, convCache, convOwner>>
scopeCacheVars == <<loadedScopes, turnCache>>
gatewayVars == <<working, conversations>>

vars == <<claimVars, rowVars, memory, logVars, convCacheVars, scopeCacheVars,
          erasureSeqSeen, gatewayVars, stacks, turn, erasedBefore>>

Tags == [conv : Convs, epoch : Nat, who : Identities]
Claims == [conv : Convs, owner : Identities, id : Nat, seq : Nat \cup {-1}]
Phases == {"idle", "admitted", "preparing", "running", "replied"}
TurnRecords == [phase : Phases, who : Identities, scope : Scopes, claim : Claims, epoch : Nat]

AnyConv == CHOOSE c \in Convs : TRUE
NoClaim == [conv |-> AnyConv, owner |-> Nobody, id |-> 0, seq |-> 0]
IdleTurn == [phase |-> "idle", who |-> Nobody, scope |-> AnyConv, claim |-> NoClaim, epoch |-> 0]

Larger(m, n) == IF m >= n THEN m ELSE n

\* What is kept of a history when one more turn joins it: all of it, until it is
\* at its cap, then some newer part.
Kept(history) == IF Cardinality(history) < HistoryCap THEN {history} ELSE SUBSET history

-----------------------------------------------------------------------------
(* Reading the store *)

IsAccountConversation(c) == NamedFor[c] # Nobody

NamesAnotherAccountSignedIn(c, who) ==  \* mutant: an anonymous caller is let in
  IsAccountConversation(c) /\ who # Nobody /\ NamedFor[c] # who

NamesAnotherAccount(c, who) == IsAccountConversation(c) /\ NamedFor[c] # who

\* The claim a turn is admitted under: the claim row and the erasure sequence
\* number, -1 when the state row is missing.
ClaimRead(c, held, id) ==
  [conv |-> c, owner |-> held, id |-> id, seq |-> IF stateRow THEN erasureSeq ELSE -1]

ConversationClaim(c) == ClaimRead(c, owner[c], claimId[c])

\* Mutants of Stands: the owner alone is compared; the log is not read; an
\* admission older than the pruned log passes; any erasure refuses every turn.
StandsByOwner(claim) ==
  /\ owner[claim.conv] = claim.owner
  /\ claim.owner # Nobody \/ erasureSeq = claim.seq

StandsWithoutLog(claim) ==
  owner[claim.conv] = claim.owner /\ claimId[claim.conv] = claim.id

StandsUnpruned(claim) ==
  /\ owner[claim.conv] = claim.owner
  /\ claimId[claim.conv] = claim.id
  /\ claim.owner # Nobody \/ \A e \in erasures : e.conv = claim.conv => e.seq <= claim.seq

StandsUntilAnyErasure(claim) ==
  /\ owner[claim.conv] = claim.owner
  /\ claimId[claim.conv] = claim.id
  /\ claim.owner # Nobody \/ erasureSeq = claim.seq

\* Whether a claim still stands in the store.
Stands(claim) ==
  /\ owner[claim.conv] = claim.owner
  /\ claimId[claim.conv] = claim.id
  /\ \/ claim.owner # Nobody
     \/ /\ stateRow
        /\ ~IsAccountConversation(claim.conv)
        /\ \/ erasureSeq = claim.seq
           \/ /\ erasureSeq > claim.seq
              /\ prunedThrough <= claim.seq
              /\ \A e \in erasures : e.conv = claim.conv => e.seq <= claim.seq

-----------------------------------------------------------------------------
(* Caches.  Entries are also dropped one by one (Evict... below): the      *)
(* conversations of the model share the bounded caches with many others.   *)

CachedRows(c) == IF c \in loadedConvs THEN convCache[c] ELSE stored[c]
CachedOwner(c) == IF c \in loadedConvs THEN convOwner[c] ELSE owner[c]
CachedMemory(s) == IF s \in loadedScopes THEN turnCache[s] ELSE memory[s]

CacheConversation(c, rows, held) ==
  /\ loadedConvs' = loadedConvs \cup {c}
  /\ convCache' = [convCache EXCEPT ![c] = rows]
  /\ convOwner' = [convOwner EXCEPT ![c] = held]

LoadConversation(c) == CacheConversation(c, CachedRows(c), CachedOwner(c))

ForgetOwnersOnly(C) ==  \* mutant: the messages stay cached
  /\ convOwner' = [c \in Convs |-> IF c \in C THEN Nobody ELSE convOwner[c]]
  /\ UNCHANGED <<loadedConvs, convCache>>

ForgetConversations(C) ==
  /\ loadedConvs' = loadedConvs \ C
  /\ convCache' = [c \in Convs |-> IF c \in C THEN {} ELSE convCache[c]]
  /\ convOwner' = [c \in Convs |-> IF c \in C THEN Nobody ELSE convOwner[c]]

CacheScope(s, tags) ==
  /\ loadedScopes' = loadedScopes \cup {s}
  /\ turnCache' = [turnCache EXCEPT ![s] = tags]

ForgetConversationScopes(S) ==  \* mutant: the account's own scope stays cached
  /\ loadedScopes' = loadedScopes \ (S \cap Convs)
  /\ turnCache' = [s \in Scopes |-> IF s \in S \cap Convs THEN {} ELSE turnCache[s]]

ForgetScopes(S) ==
  /\ loadedScopes' = loadedScopes \ S
  /\ turnCache' = [s \in Scopes |-> IF s \in S THEN {} ELSE turnCache[s]]

\* The gateway's working set: one copy of the history per conversation.
Hold(c, tags) ==
  /\ working' = working \cup {c}
  /\ conversations' = [conversations EXCEPT ![c] = tags]

DropWorking(C) ==
  /\ working' = working \ C
  /\ conversations' = [c \in Convs |-> IF c \in C THEN {} ELSE conversations[c]]

ConversationHistory(c) == IF c \in working THEN conversations[c] ELSE CachedRows(c)

\* A miss of the working set goes through the manager's cache.
LoadOnMiss(c) == IF c \in working THEN UNCHANGED convCacheVars ELSE LoadConversation(c)

DropConversationStacks(S) ==  \* mutant: the account's own stack stays
  stacks' = [s \in Scopes |-> IF s \in S \cap Convs THEN {} ELSE stacks[s]]

DropStacks(S) == stacks' = [s \in Scopes |-> IF s \in S THEN {} ELSE stacks[s]]

-----------------------------------------------------------------------------
Init ==
  \* Claims made before claims had ids may be in the store from the start.
  /\ owner \in {o \in [Convs -> Identities] :
                  \A c \in Convs : IsAccountConversation(c) => o[c] \in {Nobody, NamedFor[c]}}
  /\ claimId = [c \in Convs |-> 0]
  /\ stored = [c \in Convs |-> {}]
  /\ storedOwner = [c \in Convs |-> Nobody]
  /\ memory = [s \in Scopes |-> {}]
  /\ erasures = {}
  /\ stateRow = TRUE
  /\ erasureSeq = 0
  /\ prunedThrough = 0
  /\ loadedConvs = {}
  /\ convCache = [c \in Convs |-> {}]
  /\ convOwner = [c \in Convs |-> Nobody]
  /\ loadedScopes = {}
  /\ turnCache = [s \in Scopes |-> {}]
  /\ erasureSeqSeen = 0
  /\ working = {}
  /\ conversations = [c \in Convs |-> {}]
  /\ stacks = [s \in Scopes |-> {}]
  /\ turn = [t \in Turns |-> IdleTurn]
  /\ epoch = [c \in Convs |-> 0]
  /\ erasedBefore = [c \in Convs |-> 0]
  /\ nextClaimId = 1

-----------------------------------------------------------------------------
(* A turn: admitted, run, remembered, recorded *)

Admit(t, who, claim, ep) ==
  turn' = [turn EXCEPT ![t] = [phase |-> "admitted", who |-> who, scope |-> AnyConv,
                               claim |-> claim, epoch |-> ep]]

\* A caller names a conversation that has an owner, or names it anonymously:
\* admitted under the claim as it is, unless the conversation is another's.
OpenTurn(t, who, c) ==
  /\ turn[t].phase = "idle"
  /\ ~NamesAnotherAccount(c, who)
  /\ owner[c] # Nobody \/ who = Nobody
  /\ owner[c] \in {Nobody, who}
  /\ Admit(t, who, ConversationClaim(c), epoch[c])
  /\ erasureSeqSeen' = Larger(erasureSeqSeen, ConversationClaim(c).seq)
  /\ UNCHANGED <<claimVars, rowVars, memory, logVars, convCacheVars, scopeCacheVars,
                 gatewayVars, stacks, erasedBefore>>

\* Refused after the claim was read.
OpenRefused(who, c) ==
  /\ ~NamesAnotherAccount(c, who)
  /\ owner[c] \notin {Nobody, who}
  /\ erasureSeqSeen' = Larger(erasureSeqSeen, ConversationClaim(c).seq)
  /\ UNCHANGED <<claimVars, rowVars, memory, logVars, convCacheVars, scopeCacheVars,
                 gatewayVars, stacks, turn, erasedBefore>>

\* The claim of an unclaimed conversation by who: inserted with a fresh id
\* unless the cache already names an owner.
Claimable(c) == CachedOwner(c) = Nobody

InsertClaim(c, who) ==
  /\ nextClaimId <= MaxClaims
  /\ IF Claimable(c)
       THEN /\ owner' = [owner EXCEPT ![c] = who]
            /\ claimId' = [claimId EXCEPT ![c] = nextClaimId]
            /\ epoch' = [epoch EXCEPT ![c] = @ + 1]
            /\ nextClaimId' = nextClaimId + 1
            /\ CacheConversation(c, CachedRows(c), who)
       ELSE /\ UNCHANGED claimVars
            /\ LoadConversation(c)

\* The rows anonymous callers left go to the new owner.
AdoptRows(c, who) ==
  storedOwner' = IF Claimable(c) /\ stored[c] # {} /\ storedOwner[c] = Nobody
                   THEN [storedOwner EXCEPT ![c] = who]
                   ELSE storedOwner

\* A signed-in caller names an unclaimed conversation: claimed, then admitted
\* under the claim read again.
OpenAndClaim(t, who, c) ==
  /\ turn[t].phase = "idle"
  /\ who # Nobody
  /\ ~NamesAnotherAccount(c, who)
  /\ owner[c] = Nobody
  /\ InsertClaim(c, who)
  /\ AdoptRows(c, who)
  /\ Admit(t, who, ClaimRead(c, owner'[c], claimId'[c]), epoch'[c])
  /\ erasureSeqSeen' = Larger(erasureSeqSeen, ConversationClaim(c).seq)
  /\ UNCHANGED <<stored, memory, logVars, scopeCacheVars, gatewayVars, stacks, erasedBefore>>

\* The claim is inserted and the statement after it fails: the caller is
\* answered an error, the claim is durable, the rows keep no owner.
ClaimHalfDone(who, c) ==
  /\ who # Nobody
  /\ ~NamesAnotherAccount(c, who)
  /\ owner[c] = Nobody
  /\ InsertClaim(c, who)
  /\ erasureSeqSeen' = Larger(erasureSeqSeen, ConversationClaim(c).seq)
  /\ UNCHANGED <<rowVars, memory, logVars, scopeCacheVars, gatewayVars, stacks, turn, erasedBefore>>

TagByScope(t) ==  \* mutant: the scope taken for the caller
  [conv |-> turn[t].claim.conv, epoch |-> turn[t].epoch, who |-> turn[t].scope]

TagOf(t) == [conv |-> turn[t].claim.conv, epoch |-> turn[t].epoch, who |-> turn[t].who]

\* The caller's memory scope, read from the session when the turn starts: its
\* account, or the conversation when it has none or its session has lapsed.
MemoryScopes(t) == ({turn[t].who} \ {Nobody}) \cup {turn[t].claim.conv}

\* The loop starts: the history is fetched, the claim is checked, the protocol
\* stack of the scope is fetched and fed the turn's messages.
StartTurn(t, scope) ==
  LET c == turn[t].claim.conv IN
  /\ turn[t].phase = "admitted"
  /\ Stands(turn[t].claim)
  /\ turn' = [turn EXCEPT ![t].phase = "preparing", ![t].scope = scope]
  /\ LoadOnMiss(c)
  /\ Hold(c, ConversationHistory(c))
  /\ stacks' = [stacks EXCEPT ![scope] = @ \cup ConversationHistory(c) \cup {TagOf(t)}]
  /\ UNCHANGED <<claimVars, rowVars, memory, logVars, scopeCacheVars, erasureSeqSeen, erasedBefore>>

\* The claim is gone: answered without a model call, and still recorded below.
StartRefused(t) ==
  LET c == turn[t].claim.conv IN
  /\ turn[t].phase = "admitted"
  /\ ~Stands(turn[t].claim)
  /\ turn' = [turn EXCEPT ![t].phase = "replied"]
  /\ LoadOnMiss(c)
  /\ Hold(c, ConversationHistory(c))
  /\ UNCHANGED <<claimVars, rowVars, memory, logVars, scopeCacheVars, erasureSeqSeen,
                 stacks, erasedBefore>>

\* After the pre-process has awaited its knowledge fetch, the scope's memory
\* goes into the prompt and the model is called.
ReadMemory(t) ==
  LET s == turn[t].scope IN
  /\ turn[t].phase = "preparing"
  /\ turn' = [turn EXCEPT ![t].phase = "running"]
  /\ CacheScope(s, CachedMemory(s))
  /\ UNCHANGED <<claimVars, rowVars, memory, logVars, convCacheVars, erasureSeqSeen,
                 gatewayVars, stacks, erasedBefore>>

\* The turn is saved into the scope's memory, in one transaction with the
\* check of its claim; past the cap the oldest turns go.
RememberTurn(t) ==
  LET s == turn[t].scope IN
  /\ turn[t].phase = "running"
  /\ turn' = [turn EXCEPT ![t].phase = "replied"]
  /\ IF Stands(turn[t].claim)
       THEN \E kept \in Kept(memory[s]) :
              /\ memory' = [memory EXCEPT ![s] = kept \cup {TagOf(t)}]
              /\ CacheScope(s, kept \cup {TagOf(t)})
       ELSE /\ CacheScope(s, CachedMemory(s))
            /\ UNCHANGED memory
  /\ UNCHANGED <<claimVars, rowVars, logVars, convCacheVars, erasureSeqSeen,
                 gatewayVars, stacks, erasedBefore>>

\* The model keeps calling tools up to the limit of its steps: the turn is
\* answered and is not remembered.
OutOfSteps(t) ==
  /\ turn[t].phase = "running"
  /\ turn' = [turn EXCEPT ![t].phase = "replied"]
  /\ UNCHANGED <<claimVars, rowVars, memory, logVars, convCacheVars, scopeCacheVars,
                 erasureSeqSeen, gatewayVars, stacks, erasedBefore>>

\* The finished turn joins the working copy, which replaces the stored
\* conversation in one transaction with the check of the claim.
RecordTurn(t) ==
  LET c == turn[t].claim.conv IN
  /\ turn[t].phase = "replied"
  /\ Stands(turn[t].claim)
  /\ turn' = [turn EXCEPT ![t] = IdleTurn]
  /\ \E kept \in Kept(ConversationHistory(c)) :
       LET now == kept \cup {TagOf(t)} IN
       /\ stored' = [stored EXCEPT ![c] = now]
       /\ storedOwner' = [storedOwner EXCEPT ![c] = owner[c]]
       /\ CacheConversation(c, now, owner[c])
       /\ Hold(c, now)
  /\ UNCHANGED <<claimVars, memory, logVars, scopeCacheVars, erasureSeqSeen, stacks, erasedBefore>>

\* The store refuses the turn: both copies of the conversation are dropped.
RecordRefused(t) ==
  LET c == turn[t].claim.conv IN
  /\ turn[t].phase = "replied"
  /\ ~Stands(turn[t].claim)
  /\ turn' = [turn EXCEPT ![t] = IdleTurn]
  /\ ForgetConversations({c})
  /\ DropWorking({c})
  /\ UNCHANGED <<claimVars, rowVars, memory, logVars, scopeCacheVars, erasureSeqSeen,
                 stacks, erasedBefore>>

\* The store fails: nothing is stored and the working copy is dropped.
RecordFails(t) ==
  LET c == turn[t].claim.conv IN
  /\ turn[t].phase = "replied"
  /\ turn' = [turn EXCEPT ![t] = IdleTurn]
  /\ LoadOnMiss(c)
  /\ DropWorking({c})
  /\ UNCHANGED <<claimVars, rowVars, memory, logVars, scopeCacheVars, erasureSeqSeen,
                 stacks, erasedBefore>>

\* The model call fails, the client goes away or the memory write raises: the
\* turn ends and stores nothing more.
TurnFails(t) ==
  /\ turn[t].phase # "idle"
  /\ turn' = [turn EXCEPT ![t] = IdleTurn]
  /\ UNCHANGED <<claimVars, rowVars, memory, logVars, convCacheVars, scopeCacheVars,
                 erasureSeqSeen, gatewayVars, stacks, erasedBefore>>

\* A leg that describes a conversation without continuing it loads it to learn
\* its owner, whatever it then answers.
ResumeConversation(who, c) ==
  /\ ~NamesAnotherAccount(c, who)
  /\ LoadConversation(c)
  /\ UNCHANGED <<claimVars, rowVars, memory, logVars, scopeCacheVars, erasureSeqSeen,
                 gatewayVars, stacks, turn, erasedBefore>>

-----------------------------------------------------------------------------
(* Deleting an account *)

ConversationIdsOf(s) ==
  {c \in Convs : \/ owner[c] = s
                 \/ stored[c] # {} /\ storedOwner[c] = s
                 \/ c \in loadedConvs /\ convOwner[c] = s}

RestoredPastTheLog(seen) ==  \* mutant: numbers handed to turns are forgotten
  {m + 1 : m \in {n \in {0} \cup {e.seq : e \in erasures} : \A e \in erasures : n >= e.seq}}

\* The sequence number the state row is put back with when it is missing: past
\* the highest one seen and every logged one (the set has one member).
RestoredSeqs(seen) ==
  {m + 1 : m \in {n \in {seen} \cup {e.seq : e \in erasures} :
                    n >= seen /\ \A e \in erasures : n >= e.seq}}

\* Mutants: one of the two erasures of scoped memory is left out.
EraseConversationMemory(S) ==
  memory' = [m \in Scopes |-> IF m \in S \cap Convs THEN {} ELSE memory[m]]

EraseAccountMemory(S) ==
  memory' = [m \in Scopes |-> IF m \in S \ Convs THEN {} ELSE memory[m]]

EraseScopedMemory(S) == memory' = [m \in Scopes |-> IF m \in S THEN {} ELSE memory[m]]

DropStacksOnly(s, C) ==  \* mutant: the working set keeps its copies
  DropStacks({s} \cup C) /\ UNCHANGED gatewayVars

\* What this process holds of the conversations goes, erased or not.
DropCopies(s, C) ==
  /\ DropWorking(C)
  /\ DropStacks({s} \cup C)

\* The sequence number an erasure finds, the row restored first if missing.
FoundSeqs == IF stateRow THEN {erasureSeq} ELSE RestoredSeqs(erasureSeqSeen)

\* Log entries up to through are past the retention window and dropped; with
\* through = 0 none is, or the prune failed, which is only logged.
Unpruned(log, through) == {e \in log : e.seq > through}

\* One transaction, then the caches, then the prune in a transaction of its own.
EraseOwner(s, found, through) ==
  LET ids == ConversationIdsOf(s)
      logged == {[conv |-> c, seq |-> found + 1] : c \in {c \in ids : ~IsAccountConversation(c)}}
  IN
  /\ ids # {}
  /\ found < MaxSeq
  /\ owner' = [c \in Convs |-> IF owner[c] = s THEN Nobody ELSE owner[c]]
  /\ claimId' = [c \in Convs |-> IF owner[c] = s THEN 0 ELSE claimId[c]]
  /\ stored' = [c \in Convs |-> IF c \in ids THEN {} ELSE stored[c]]
  /\ storedOwner' = [c \in Convs |-> IF c \in ids THEN Nobody ELSE storedOwner[c]]
  /\ EraseScopedMemory({s} \cup ids)
  /\ stateRow' = TRUE
  /\ erasureSeq' = found + 1
  /\ erasures' = Unpruned(erasures \cup logged, through)
  /\ prunedThrough' = Larger(IF stateRow THEN prunedThrough ELSE found, through)
  /\ erasureSeqSeen' = Larger(erasureSeqSeen, found + 1)
  /\ ForgetConversations(ids)
  /\ ForgetScopes({s} \cup ids)
  /\ DropCopies(s, ids)
  /\ epoch' = [c \in Convs |-> IF c \in ids THEN epoch[c] + 1 ELSE epoch[c]]
  /\ erasedBefore' = [c \in Convs |-> IF c \in ids THEN epoch[c] + 1 ELSE erasedBefore[c]]
  /\ UNCHANGED <<nextClaimId, turn>>

\* The account holds no conversation: its own memory and stacks go, and the log
\* is pruned all the same.
EraseOwnerOfNothing(s, through) ==
  /\ ConversationIdsOf(s) = {}
  /\ EraseScopedMemory({s})
  /\ erasures' = Unpruned(erasures, through)
  /\ prunedThrough' = IF stateRow THEN Larger(prunedThrough, through) ELSE prunedThrough
  /\ ForgetScopes({s})
  /\ DropStacks({s})
  /\ UNCHANGED <<claimVars, rowVars, stateRow, erasureSeq, convCacheVars, erasureSeqSeen,
                 gatewayVars, turn, erasedBefore>>

\* The transaction fails and is rolled back; the sequence number it had taken
\* may already count as seen.
EraseFails(s, found) ==
  LET ids == ConversationIdsOf(s) IN
  /\ ids # {} => found < MaxSeq
  /\ erasureSeqSeen' \in {erasureSeqSeen} \cup
                         (IF ids = {} THEN {} ELSE {Larger(erasureSeqSeen, found + 1)})
  /\ DropCopies(s, ids)
  /\ UNCHANGED <<claimVars, rowVars, memory, logVars, convCacheVars, scopeCacheVars,
                 turn, erasedBefore>>

\* The periodic sweep finds log entries past the retention window.
PruneErasureLog(through) ==
  /\ erasures' = Unpruned(erasures, through)
  /\ prunedThrough' = IF stateRow THEN Larger(prunedThrough, through) ELSE prunedThrough
  /\ UNCHANGED <<claimVars, rowVars, memory, stateRow, erasureSeq, convCacheVars, scopeCacheVars,
                 erasureSeqSeen, gatewayVars, stacks, turn, erasedBefore>>

-----------------------------------------------------------------------------
(* Evictions, crashes and hand edits *)

EvictConversation(c) ==
  /\ c \in loadedConvs
  /\ ForgetConversations({c})
  /\ UNCHANGED <<claimVars, rowVars, memory, logVars, scopeCacheVars, erasureSeqSeen,
                 gatewayVars, stacks, turn, erasedBefore>>

EvictScope(s) ==
  /\ s \in loadedScopes
  /\ ForgetScopes({s})
  /\ UNCHANGED <<claimVars, rowVars, memory, logVars, convCacheVars, erasureSeqSeen,
                 gatewayVars, stacks, turn, erasedBefore>>

EvictWorking(c) ==
  /\ c \in working
  /\ DropWorking({c})
  /\ UNCHANGED <<claimVars, rowVars, memory, logVars, convCacheVars, scopeCacheVars,
                 erasureSeqSeen, stacks, turn, erasedBefore>>

EvictStack(s) ==
  /\ stacks[s] # {}
  /\ DropStacks({s})
  /\ UNCHANGED <<claimVars, rowVars, memory, logVars, convCacheVars, scopeCacheVars,
                 erasureSeqSeen, gatewayVars, turn, erasedBefore>>

\* The process stops between two steps and a new one opens the store.
Restart ==
  /\ loadedConvs' = {}
  /\ convCache' = [c \in Convs |-> {}]
  /\ convOwner' = [c \in Convs |-> Nobody]
  /\ loadedScopes' = {}
  /\ turnCache' = [s \in Scopes |-> {}]
  /\ working' = {}
  /\ conversations' = [c \in Convs |-> {}]
  /\ stacks' = [s \in Scopes |-> {}]
  /\ turn' = [t \in Turns |-> IdleTurn]
  /\ erasureSeqSeen' = 0
  /\ stateRow' = TRUE
  /\ erasureSeq' \in IF stateRow THEN {erasureSeq} ELSE RestoredSeqs(0)
  /\ prunedThrough' = IF stateRow THEN prunedThrough ELSE erasureSeq'
  /\ UNCHANGED <<claimVars, rowVars, memory, erasures, erasedBefore>>

\* A hand edit removes the state row while the process runs.
LoseStateRow ==
  /\ stateRow
  /\ stateRow' = FALSE
  /\ erasureSeq' = 0
  /\ prunedThrough' = 0
  /\ UNCHANGED <<claimVars, rowVars, memory, erasures, convCacheVars, scopeCacheVars,
                 erasureSeqSeen, gatewayVars, stacks, turn, erasedBefore>>

-----------------------------------------------------------------------------
TurnStep(t) ==
  \/ \E who \in Identities, c \in Convs : OpenTurn(t, who, c) \/ OpenAndClaim(t, who, c)
  \/ \E scope \in MemoryScopes(t) : StartTurn(t, scope)
  \/ StartRefused(t)
  \/ ReadMemory(t)
  \/ RememberTurn(t)
  \/ OutOfSteps(t)
  \/ RecordTurn(t)
  \/ RecordRefused(t)
  \/ RecordFails(t)
  \/ TurnFails(t)

CallerStep(who, c) ==
  \/ OpenRefused(who, c)
  \/ ClaimHalfDone(who, c)
  \/ ResumeConversation(who, c)

DeletionStep(s) ==
  \/ \E found \in FoundSeqs, through \in {0} \cup {e.seq : e \in erasures} :
        EraseOwner(s, found, through)
  \/ \E through \in {0} \cup {e.seq : e \in erasures} : EraseOwnerOfNothing(s, through)
  \/ \E found \in FoundSeqs : EraseFails(s, found)

EvictionStep ==
  \/ \E c \in Convs \cap Evictable : EvictConversation(c) \/ EvictWorking(c)
  \/ \E s \in Evictable : EvictScope(s) \/ EvictStack(s)

Next ==
  \/ \E t \in Turns : TurnStep(t)
  \/ \E who \in Identities, c \in Convs : CallerStep(who, c)
  \/ \E s \in Subjects : DeletionStep(s)
  \/ \E e \in erasures : PruneErasureLog(e.seq)
  \/ EvictionStep
  \/ Restart
  \/ LoseStateRow

Spec == Init /\ [][Next]_vars
-----------------------------------------------------------------------------
(* Properties *)

InFlight(t) == turn[t].phase # "idle"

\* Every variable has its type.
TypeOK ==
  /\ owner \in [Convs -> Identities]
  /\ claimId \in [Convs -> Nat]
  /\ stored \in [Convs -> SUBSET Tags]
  /\ storedOwner \in [Convs -> Identities]
  /\ memory \in [Scopes -> SUBSET Tags]
  /\ erasures \in SUBSET [conv : Convs, seq : Nat]
  /\ stateRow \in BOOLEAN
  /\ erasureSeq \in Nat
  /\ prunedThrough \in Nat
  /\ loadedConvs \in SUBSET Convs
  /\ convCache \in [Convs -> SUBSET Tags]
  /\ convOwner \in [Convs -> Identities]
  /\ loadedScopes \in SUBSET Scopes
  /\ turnCache \in [Scopes -> SUBSET Tags]
  /\ erasureSeqSeen \in Nat
  /\ working \in SUBSET Convs
  /\ conversations \in [Convs -> SUBSET Tags]
  /\ stacks \in [Scopes -> SUBSET Tags]
  /\ turn \in [Turns -> TurnRecords]
  /\ epoch \in [Convs -> Nat]
  /\ erasedBefore \in [Convs -> Nat]
  /\ nextClaimId \in Nat

\* A claim that still stands in the store is one of the conversation's present
\* epoch: no claim and no erasure has happened since the turn was admitted.  It
\* is what save_conversation and save_turn rely on when they write.
StandingClaimsAreCurrent ==
  \A t \in Turns :
     InFlight(t) /\ Stands(turn[t].claim) => turn[t].epoch = epoch[turn[t].claim.conv]

\* And a turn is never refused for nothing: if its conversation has seen no
\* claim and no erasure since it was admitted, its claim stands, unless the
\* erasure log can no longer tell (pruned past the admission, or no state row).
CurrentClaimsStand ==
  \A t \in Turns :
     LET claim == turn[t].claim IN
     /\ InFlight(t)
     /\ turn[t].epoch = epoch[claim.conv]
     /\ claim.owner # Nobody \/ (stateRow /\ prunedThrough <= claim.seq)
     => Stands(claim)

Erased(tag) == tag.epoch < erasedBefore[tag.conv]

\* Nothing that was said in a conversation before it was erased is left: not in
\* the store, not in the scoped memory, not in a cache, in the working set or
\* in a protocol stack, whatever turns were running during the erasure.
NothingErasedRemains ==
  /\ \A c \in Convs : \A tag \in stored[c] \cup convCache[c] \cup conversations[c] : ~Erased(tag)
  /\ \A s \in Scopes : \A tag \in memory[s] \cup turnCache[s] \cup stacks[s] : ~Erased(tag)

\* The memory of an account's scope is what that account said in conversations
\* it holds to this day.
AccountMemoryIsItsOwn ==
  \A s \in Subjects : \A tag \in memory[s] : tag.who = s /\ owner[tag.conv] = s

\* An account's own conversation is never held, continued or written by anyone
\* else.
AccountConversationIsItsAccounts ==
  \A c \in Convs : IsAccountConversation(c) =>
     /\ owner[c] \in {Nobody, NamedFor[c]}
     /\ \A tag \in stored[c] : tag.who = NamedFor[c]
     /\ \A t \in Turns : InFlight(t) /\ turn[t].claim.conv = c => turn[t].who = NamedFor[c]

\* Every copy of a conversation in the process is the stored one, and the
\* cached owner is the durable one.
CopiesMatchStore ==
  /\ \A c \in loadedConvs : convCache[c] = stored[c] /\ convOwner[c] = owner[c]
  /\ \A c \in working : conversations[c] = stored[c]
  /\ \A s \in loadedScopes : turnCache[s] = memory[s]

\* A turn that no longer stands never stands again, whatever is claimed, erased,
\* pruned, lost or restored while it runs: the answer the loop gets at its start
\* and the one the store gives at the end cannot disagree that way round.
RefusedStaysRefused ==
  [][\A t \in Turns :
        InFlight(t) /\ turn'[t].claim = turn[t].claim /\ ~Stands(turn[t].claim)
          => ~Stands(turn[t].claim)']_vars

\* A turn that is started sees the history of its conversation and the protocol
\* stack of its scope, and in them only what its own caller or an anonymous one
\* said, since the conversation was last erased.
StartsWithItsOwnHistory ==
  [][\A t \in Turns :
        turn[t].phase = "admitted" /\ turn'[t].phase = "preparing"
          => \A tag \in conversations'[turn[t].claim.conv] \cup stacks'[turn'[t].scope] :
                tag.who \in {turn[t].who, Nobody} /\ ~Erased(tag)]_vars

(* The inductive invariant behind StandingClaimsAreCurrent. *)

\* No cached or stored owner but the one conversation_owners names, and every
\* claim id given out is below the next one.
OwnersAgree ==
  /\ \A c \in loadedConvs : convOwner[c] = owner[c]
  /\ \A c \in Convs : storedOwner[c] \in {Nobody, owner[c]}
  /\ \A c \in Convs : claimId[c] < nextClaimId

\* The state row, while it is there, is past everything logged and pruned.
StateRowIsAhead ==
  stateRow => /\ prunedThrough <= erasureSeq
              /\ \A e \in erasures : e.seq <= erasureSeq

\* The log can still tell that c was erased after sequence number seq.
ErasureIsKnown(c, seq) ==
  \/ IsAccountConversation(c)
  \/ ~stateRow
  \/ prunedThrough > seq
  \/ \E e \in erasures : e.conv = c /\ e.seq > seq

\* A turn is of the present epoch and under its claim, or of an earlier one: then
\* its claim is gone for good, or, unclaimed, its erasure is known.
TurnIsAccountedFor(t) ==
  LET claim == turn[t].claim
      c == claim.conv
  IN
  /\ turn[t].epoch <= epoch[c]
  /\ turn[t].epoch = epoch[c] => owner[c] = claim.owner /\ claimId[c] = claim.id
  /\ claim.id < nextClaimId
  /\ claim.seq <= erasureSeqSeen
  /\ stateRow => claim.seq <= erasureSeq
  /\ turn[t].epoch < epoch[c] =>
       IF claim.owner = Nobody
         THEN owner[c] = Nobody => ErasureIsKnown(c, claim.seq)
         ELSE owner[c] # claim.owner \/ claimId[c] # claim.id

ClaimsInv ==
  /\ OwnersAgree
  /\ StateRowIsAhead
  /\ \A t \in Turns : InFlight(t) => TurnIsAccountedFor(t)

(* The inductive invariant behind the properties of the histories. *)

\* The copies of the process are the store's, and what is not loaded is empty.
CopiesInv ==
  /\ CopiesMatchStore
  /\ \A c \in Convs \ loadedConvs : convCache[c] = {}
  /\ \A c \in Convs \ working : conversations[c] = {}
  /\ \A s \in Scopes \ loadedScopes : turnCache[s] = {}

\* What is told of a conversation was said, since its last erasure, by its
\* present owner or by a caller without an account.
IsLive(tag) == tag.who \in {owner[tag.conv], Nobody} /\ ~Erased(tag)

\* Every tag is live; a conversation's copies and scope hold its own tags, an
\* account's scope those of the conversations it owns.
TagsInv ==
  /\ \A c \in Convs : erasedBefore[c] <= epoch[c]
  /\ \A c \in Convs : \A tag \in stored[c] \cup memory[c] \cup stacks[c] :
        tag.conv = c /\ IsLive(tag)
  /\ \A s \in Subjects : \A tag \in memory[s] \cup stacks[s] :
        owner[tag.conv] = s /\ IsLive(tag)
  /\ \A s \in Subjects : \A tag \in memory[s] : tag.who = s

\* A turn writes as the owner of its claim and for a scope of its caller; while
\* no claim and no erasure has come between, the log has no later erasure.
TurnIsItsCallers(t) ==
  LET claim == turn[t].claim IN
  /\ claim.owner = turn[t].who
  /\ ~NamesAnotherAccount(claim.conv, turn[t].who)
  /\ turn[t].phase \in {"preparing", "running"} => turn[t].scope \in MemoryScopes(t)
  /\ turn[t].epoch = epoch[claim.conv] /\ claim.seq # -1 =>
       \A e \in erasures : e.conv = claim.conv => e.seq <= claim.seq

AccountConversationsInv ==
  \A c \in Convs : IsAccountConversation(c) =>
     owner[c] \in {Nobody, NamedFor[c]} /\ \A tag \in stored[c] : tag.who = NamedFor[c]

HistoriesInv ==
  /\ CopiesInv
  /\ TagsInv
  /\ \A t \in Turns : InFlight(t) => TurnIsItsCallers(t)
  /\ AccountConversationsInv

\* The store implements what ConversationAuthority promises of it.
Authority == INSTANCE ConversationAuthority
               WITH holder <- owner, messages <- stored
AuthoritySpec == Authority!Spec
=============================================================================

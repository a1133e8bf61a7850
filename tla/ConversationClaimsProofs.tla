---------------------- MODULE ConversationClaimsProofs ----------------------
(* What holds of ConversationClaims for every set of conversations, accounts *)
(* and turns, proved with TLAPS.                                             *)
EXTENDS ConversationClaims, TLAPS

\* Trimming a history only drops from it.
LEMMA KeptIsPart == ASSUME NEW h, NEW kept \in Kept(h) PROVE kept \subseteq h
  BY DEF Kept

LEMMA TypeInit == Init => TypeOK
  BY ConstantsAssumption
  DEF Init, TypeOK, Scopes, Identities, IdleTurn, NoClaim, AnyConv, TurnRecords, Claims, Phases

\* A tag of a turn in flight is a tag, and the claim read now is a claim.
LEMMA TurnTypes ==
  ASSUME TypeOK, NEW t \in Turns
  PROVE  /\ TagOf(t) \in Tags
         /\ turn[t].claim \in Claims
         /\ turn[t].claim.conv \in Convs
         /\ MemoryScopes(t) \subseteq Scopes
  BY DEF TypeOK, TurnRecords, Claims, TagOf, Tags, MemoryScopes, Scopes, Identities

LEMMA ClaimTypes ==
  ASSUME TypeOK, NEW c \in Convs
  PROVE  /\ ConversationClaim(c) \in Claims
         /\ \A held \in Identities, id \in Nat : ClaimRead(c, held, id) \in Claims
         /\ CachedRows(c) \in SUBSET Tags
         /\ CachedOwner(c) \in Identities
         /\ ConversationHistory(c) \in SUBSET Tags
         /\ Larger(erasureSeqSeen, ConversationClaim(c).seq) \in Nat
  BY DEF TypeOK, ConversationClaim, ClaimRead, Claims, CachedRows, CachedOwner,
         ConversationHistory, Larger, Identities

\* What Admit writes is a turn record.
LEMMA AdmitTypes ==
  ASSUME TypeOK, NEW t \in Turns, NEW who \in Identities, NEW claim \in Claims, NEW ep \in Nat,
         Admit(t, who, claim, ep)
  PROVE  turn' \in [Turns -> TurnRecords]
  BY ConstantsAssumption DEF Admit, TypeOK, TurnRecords, Phases, Scopes, AnyConv

LEMMA OpenTurnType ==
  ASSUME TypeOK, NEW t \in Turns, NEW who \in Identities, NEW c \in Convs, OpenTurn(t, who, c)
  PROVE  TypeOK'
  BY ClaimTypes, ConstantsAssumption DEF OpenTurn, Admit, TypeOK, TurnRecords, Phases, Scopes, AnyConv, claimVars, rowVars, logVars, convCacheVars, scopeCacheVars, gatewayVars

\* The cache operations keep the types of the caches.
ConvCacheTypes == /\ loadedConvs \in SUBSET Convs
                  /\ convCache \in [Convs -> SUBSET Tags]
                  /\ convOwner \in [Convs -> Identities]

LEMMA CacheConversationTypes ==
  ASSUME TypeOK, NEW c \in Convs, NEW rows \in SUBSET Tags, NEW held \in Identities,
         CacheConversation(c, rows, held)
  PROVE  ConvCacheTypes'
  BY DEF TypeOK, CacheConversation, ConvCacheTypes

LEMMA LoadConversationTypes ==
  ASSUME TypeOK, NEW c \in Convs, LoadConversation(c)
  PROVE  ConvCacheTypes'
  BY ClaimTypes, CacheConversationTypes DEF LoadConversation

LEMMA OpenAndClaimType ==
  ASSUME TypeOK, NEW t \in Turns, NEW who \in Identities, NEW c \in Convs, OpenAndClaim(t, who, c)
  PROVE  TypeOK'
<1>1. owner' \in [Convs -> Identities] /\ claimId' \in [Convs -> Nat] /\ epoch' \in [Convs -> Nat]
      /\ nextClaimId' \in Nat
  BY DEF OpenAndClaim, InsertClaim, TypeOK, claimVars
<1>2. ConvCacheTypes'
  BY CacheConversationTypes, LoadConversationTypes, ClaimTypes DEF OpenAndClaim, InsertClaim
<1>3. storedOwner' \in [Convs -> Identities]
  BY DEF OpenAndClaim, AdoptRows, TypeOK
<1>4. turn' \in [Turns -> TurnRecords]
  <2>1. ClaimRead(c, owner'[c], claimId'[c]) \in Claims /\ epoch'[c] \in Nat
    BY <1>1, ClaimTypes
  <2> QED BY <2>1, AdmitTypes DEF OpenAndClaim
<1>5. erasureSeqSeen' \in Nat
  BY ClaimTypes DEF OpenAndClaim
<1> QED
  BY <1>1, <1>2, <1>3, <1>4, <1>5
  DEF OpenAndClaim, TypeOK, ConvCacheTypes, rowVars, logVars, scopeCacheVars, gatewayVars

LEMMA CallerStepType ==
  ASSUME TypeOK, NEW who \in Identities, NEW c \in Convs, CallerStep(who, c)
  PROVE  TypeOK'
<1>1. CASE OpenRefused(who, c)
  BY <1>1, ClaimTypes
  DEF OpenRefused, TypeOK, claimVars, rowVars, logVars, convCacheVars, scopeCacheVars, gatewayVars
<1>2. CASE ClaimHalfDone(who, c)
  <2>1. owner' \in [Convs -> Identities] /\ claimId' \in [Convs -> Nat] /\ epoch' \in [Convs -> Nat]
        /\ nextClaimId' \in Nat
    BY <1>2 DEF ClaimHalfDone, InsertClaim, TypeOK, claimVars
  <2>2. ConvCacheTypes'
    BY <1>2, CacheConversationTypes, LoadConversationTypes, ClaimTypes DEF ClaimHalfDone, InsertClaim
  <2>3. erasureSeqSeen' \in Nat
    BY <1>2, ClaimTypes DEF ClaimHalfDone
  <2> QED
    BY <1>2, <2>1, <2>2, <2>3
    DEF ClaimHalfDone, TypeOK, ConvCacheTypes, rowVars, logVars, scopeCacheVars, gatewayVars
<1>3. CASE ResumeConversation(who, c)
  <2>1. ConvCacheTypes'
    BY <1>3, LoadConversationTypes DEF ResumeConversation
  <2> QED
    BY <1>3, <2>1
    DEF ResumeConversation, TypeOK, ConvCacheTypes, claimVars, rowVars, logVars, scopeCacheVars, gatewayVars
<1> QED BY <1>1, <1>2, <1>3 DEF CallerStep

\* The steps of a turn.
LEMMA HistoryTypes ==
  ASSUME TypeOK, NEW c \in Convs, LoadOnMiss(c)
  PROVE  ConvCacheTypes'
  BY LoadConversationTypes DEF LoadOnMiss, TypeOK, ConvCacheTypes, convCacheVars

LEMMA CacheScopeTypes ==
  ASSUME TypeOK, NEW s \in Scopes, NEW tags \in SUBSET Tags, CacheScope(s, tags)
  PROVE  loadedScopes' \in SUBSET Scopes /\ turnCache' \in [Scopes -> SUBSET Tags]
  BY DEF CacheScope, TypeOK

LEMMA HoldTypes ==
  ASSUME TypeOK, NEW c \in Convs, NEW tags \in SUBSET Tags, Hold(c, tags)
  PROVE  working' \in SUBSET Convs /\ conversations' \in [Convs -> SUBSET Tags]
  BY DEF Hold, TypeOK

LEMMA CachedMemoryTypes ==
  ASSUME TypeOK, NEW s \in Scopes
  PROVE  CachedMemory(s) \in SUBSET Tags
  BY DEF CachedMemory, TypeOK

\* A turn that ends leaves an idle slot.
LEMMA IdleTypes == IdleTurn \in TurnRecords
  BY ConstantsAssumption
  DEF IdleTurn, NoClaim, AnyConv, TurnRecords, Claims, Phases, Scopes, Identities

LEMMA StartTurnType ==
  ASSUME TypeOK, NEW t \in Turns, NEW scope \in MemoryScopes(t), StartTurn(t, scope)
  PROVE  TypeOK'
<1> DEFINE c == turn[t].claim.conv
<1>1. c \in Convs /\ scope \in Scopes /\ TagOf(t) \in Tags
  BY TurnTypes
<1>2. ConvCacheTypes'
  BY <1>1, HistoryTypes DEF StartTurn
<1>3. ConversationHistory(c) \in SUBSET Tags
  BY <1>1, ClaimTypes
<1>4. working' \in SUBSET Convs /\ conversations' \in [Convs -> SUBSET Tags]
  BY <1>1, <1>3, HoldTypes DEF StartTurn
<1>5. stacks' \in [Scopes -> SUBSET Tags]
  <2>1. stacks' = [stacks EXCEPT ![scope] = @ \cup ConversationHistory(c) \cup {TagOf(t)}]
    BY DEF StartTurn
  <2> QED BY <1>1, <1>3, <2>1 DEF TypeOK
<1>6. turn' \in [Turns -> TurnRecords]
  BY <1>1 DEF StartTurn, TypeOK, TurnRecords, Phases
<1> QED
  BY <1>2, <1>4, <1>5, <1>6
  DEF StartTurn, TypeOK, ConvCacheTypes, claimVars, rowVars, logVars, scopeCacheVars

LEMMA StartRefusedType ==
  ASSUME TypeOK, NEW t \in Turns, StartRefused(t)
  PROVE  TypeOK'
<1> DEFINE c == turn[t].claim.conv
<1>1. c \in Convs
  BY TurnTypes
<1>2. ConvCacheTypes'
  BY <1>1, HistoryTypes DEF StartRefused
<1>3. working' \in SUBSET Convs /\ conversations' \in [Convs -> SUBSET Tags]
  BY <1>1, ClaimTypes, HoldTypes DEF StartRefused
<1>4. turn' \in [Turns -> TurnRecords]
  BY DEF StartRefused, TypeOK, TurnRecords, Phases
<1> QED
  BY <1>2, <1>3, <1>4
  DEF StartRefused, TypeOK, ConvCacheTypes, claimVars, rowVars, logVars, scopeCacheVars

LEMMA ReadMemoryType ==
  ASSUME TypeOK, NEW t \in Turns, ReadMemory(t)
  PROVE  TypeOK'
<1>1. turn[t].scope \in Scopes
  BY DEF TypeOK, TurnRecords
<1>2. loadedScopes' \in SUBSET Scopes /\ turnCache' \in [Scopes -> SUBSET Tags]
  BY <1>1, CachedMemoryTypes, CacheScopeTypes DEF ReadMemory
<1>3. turn' \in [Turns -> TurnRecords]
  BY DEF ReadMemory, TypeOK, TurnRecords, Phases
<1> QED
  BY <1>2, <1>3
  DEF ReadMemory, TypeOK, claimVars, rowVars, logVars, convCacheVars, gatewayVars

LEMMA RememberTurnType ==
  ASSUME TypeOK, NEW t \in Turns, RememberTurn(t)
  PROVE  TypeOK'
<1> DEFINE s == turn[t].scope
<1>1. s \in Scopes /\ TagOf(t) \in Tags
  BY TurnTypes DEF TypeOK, TurnRecords
<1>2. /\ memory' \in [Scopes -> SUBSET Tags]
      /\ loadedScopes' \in SUBSET Scopes
      /\ turnCache' \in [Scopes -> SUBSET Tags]
  <2>1. CASE Stands(turn[t].claim)
    <3>1. PICK kept \in Kept(memory[s]) :
            /\ memory' = [memory EXCEPT ![s] = kept \cup {TagOf(t)}]
            /\ CacheScope(s, kept \cup {TagOf(t)})
      BY <2>1 DEF RememberTurn
    <3>2. kept \cup {TagOf(t)} \in SUBSET Tags
      BY <1>1, KeptIsPart DEF TypeOK
    <3> QED BY <1>1, <3>1, <3>2, CacheScopeTypes DEF TypeOK
  <2>2. CASE ~Stands(turn[t].claim)
    BY <1>1, <2>2, CachedMemoryTypes, CacheScopeTypes DEF RememberTurn, TypeOK
  <2> QED BY <2>1, <2>2
<1>3. turn' \in [Turns -> TurnRecords]
  BY DEF RememberTurn, TypeOK, TurnRecords, Phases
<1> QED
  BY <1>2, <1>3
  DEF RememberTurn, TypeOK, claimVars, rowVars, logVars, convCacheVars, gatewayVars

LEMMA RecordTurnType ==
  ASSUME TypeOK, NEW t \in Turns, RecordTurn(t)
  PROVE  TypeOK'
<1> DEFINE c == turn[t].claim.conv
<1>1. c \in Convs /\ TagOf(t) \in Tags /\ ConversationHistory(c) \in SUBSET Tags
  BY TurnTypes, ClaimTypes
<1>2. PICK kept \in Kept(ConversationHistory(c)) :
        /\ stored' = [stored EXCEPT ![c] = kept \cup {TagOf(t)}]
        /\ storedOwner' = [storedOwner EXCEPT ![c] = owner[c]]
        /\ CacheConversation(c, kept \cup {TagOf(t)}, owner[c])
        /\ Hold(c, kept \cup {TagOf(t)})
  BY DEF RecordTurn
<1>3. kept \cup {TagOf(t)} \in SUBSET Tags /\ owner[c] \in Identities
  BY <1>1, KeptIsPart DEF TypeOK
<1>4. /\ stored' \in [Convs -> SUBSET Tags]
      /\ storedOwner' \in [Convs -> Identities]
      /\ ConvCacheTypes'
      /\ working' \in SUBSET Convs
      /\ conversations' \in [Convs -> SUBSET Tags]
  BY <1>1, <1>2, <1>3, CacheConversationTypes, HoldTypes DEF TypeOK
<1>5. turn' \in [Turns -> TurnRecords]
  BY IdleTypes DEF RecordTurn, TypeOK
<1> QED
  BY <1>4, <1>5 DEF RecordTurn, TypeOK, ConvCacheTypes, claimVars, logVars, scopeCacheVars

LEMMA RecordRefusedType ==
  ASSUME TypeOK, NEW t \in Turns, RecordRefused(t)
  PROVE  TypeOK'
  BY IdleTypes
  DEF RecordRefused, ForgetConversations, DropWorking, TypeOK, Identities,
      claimVars, rowVars, logVars, scopeCacheVars

LEMMA RecordFailsType ==
  ASSUME TypeOK, NEW t \in Turns, RecordFails(t)
  PROVE  TypeOK'
<1>1. ConvCacheTypes'
  BY TurnTypes, HistoryTypes DEF RecordFails
<1> QED
  BY <1>1, IdleTypes
  DEF RecordFails, DropWorking, TypeOK, ConvCacheTypes, claimVars, rowVars, logVars, scopeCacheVars

LEMMA TurnStepType ==
  ASSUME TypeOK, NEW t \in Turns, TurnStep(t)
  PROVE  TypeOK'
<1>1. CASE TurnFails(t)
  BY <1>1, IdleTypes
  DEF TurnFails, TypeOK, claimVars, rowVars, logVars, convCacheVars, scopeCacheVars, gatewayVars
<1>2. CASE OutOfSteps(t)
  BY <1>2
  DEF OutOfSteps, TypeOK, TurnRecords, Phases, claimVars, rowVars, logVars, convCacheVars,
      scopeCacheVars, gatewayVars
<1> QED
  BY <1>1, <1>2, OpenTurnType, OpenAndClaimType, StartTurnType, StartRefusedType, ReadMemoryType,
     RememberTurnType, RecordTurnType, RecordRefusedType, RecordFailsType
  DEF TurnStep

\* The steps of a deletion.
LEMMA DropCopiesTypes ==
  ASSUME TypeOK, NEW s \in Subjects, NEW C \in SUBSET Convs, DropCopies(s, C)
  PROVE  /\ working' \in SUBSET Convs
         /\ conversations' \in [Convs -> SUBSET Tags]
         /\ stacks' \in [Scopes -> SUBSET Tags]
  BY DEF DropCopies, DropWorking, DropStacks, TypeOK

LEMMA RestoredTypes ==
  ASSUME TypeOK, NEW seen \in Nat, NEW n \in RestoredSeqs(seen)
  PROVE  n \in Nat
  BY DEF TypeOK, RestoredSeqs

LEMMA FoundTypes ==
  ASSUME TypeOK, NEW found \in FoundSeqs
  PROVE  found \in Nat
  BY RestoredTypes DEF TypeOK, FoundSeqs

LEMMA EraseOwnerType ==
  ASSUME TypeOK, NEW s \in Subjects, NEW found \in FoundSeqs,
         NEW through \in {0} \cup {e.seq : e \in erasures}, EraseOwner(s, found, through)
  PROVE  TypeOK'
<1> DEFINE ids == ConversationIdsOf(s)
<1>1. found \in Nat /\ through \in Nat /\ ids \in SUBSET Convs
  BY FoundTypes DEF TypeOK, ConversationIdsOf
<1>2. /\ owner' \in [Convs -> Identities]
      /\ claimId' \in [Convs -> Nat]
      /\ stored' \in [Convs -> SUBSET Tags]
      /\ storedOwner' \in [Convs -> Identities]
      /\ epoch' \in [Convs -> Nat]
      /\ erasedBefore' \in [Convs -> Nat]
  BY DEF EraseOwner, TypeOK, Identities
<1>3. memory' \in [Scopes -> SUBSET Tags]
  BY DEF EraseOwner, EraseScopedMemory, TypeOK
<1>4. erasures' \in SUBSET [conv : Convs, seq : Nat]
  BY <1>1 DEF EraseOwner, Unpruned, TypeOK
<1>5. stateRow' \in BOOLEAN /\ erasureSeq' \in Nat /\ prunedThrough' \in Nat /\ erasureSeqSeen' \in Nat
  BY <1>1 DEF EraseOwner, Larger, TypeOK
<1>6. ConvCacheTypes'
  BY DEF EraseOwner, ForgetConversations, ConvCacheTypes, TypeOK, Identities
<1>7. loadedScopes' \in SUBSET Scopes /\ turnCache' \in [Scopes -> SUBSET Tags]
  BY DEF EraseOwner, ForgetScopes, TypeOK
<1>8. working' \in SUBSET Convs /\ conversations' \in [Convs -> SUBSET Tags]
      /\ stacks' \in [Scopes -> SUBSET Tags]
  BY <1>1, DropCopiesTypes DEF EraseOwner
<1> QED
  BY <1>2, <1>3, <1>4, <1>5, <1>6, <1>7, <1>8 DEF EraseOwner, ConvCacheTypes, TypeOK

LEMMA DeletionStepType ==
  ASSUME TypeOK, NEW s \in Subjects, DeletionStep(s)
  PROVE  TypeOK'
<1>1. ASSUME NEW through \in {0} \cup {e.seq : e \in erasures}, EraseOwnerOfNothing(s, through)
      PROVE  TypeOK'
  <2>1. through \in Nat
    BY DEF TypeOK
  <2> QED
    BY <1>1, <2>1
    DEF EraseOwnerOfNothing, EraseScopedMemory, ForgetScopes, DropStacks, Unpruned, Larger, TypeOK,
        claimVars, rowVars, convCacheVars, gatewayVars
<1>2. ASSUME NEW found \in FoundSeqs, EraseFails(s, found)
      PROVE  TypeOK'
  <2>1. found \in Nat /\ ConversationIdsOf(s) \in SUBSET Convs
    BY FoundTypes DEF ConversationIdsOf
  <2>2. erasureSeqSeen' \in Nat
    BY <1>2, <2>1 DEF EraseFails, Larger, TypeOK
  <2>3. /\ working' \in SUBSET Convs
        /\ conversations' \in [Convs -> SUBSET Tags]
        /\ stacks' \in [Scopes -> SUBSET Tags]
    BY <1>2, <2>1, DropCopiesTypes DEF EraseFails
  <2> QED
    BY <1>2, <2>2, <2>3
    DEF EraseFails, TypeOK, claimVars, rowVars, logVars, convCacheVars, scopeCacheVars
<1> QED BY <1>1, <1>2, EraseOwnerType DEF DeletionStep

\* Every step of the system.
LEMMA TypeStep == TypeOK /\ [Next]_vars => TypeOK'
<1> SUFFICES ASSUME TypeOK, [Next]_vars PROVE TypeOK'
  OBVIOUS
<1>1. ASSUME NEW e \in erasures, PruneErasureLog(e.seq) PROVE TypeOK'
  <2>1. e.seq \in Nat
    BY DEF TypeOK
  <2> QED
    BY <1>1, <2>1
    DEF PruneErasureLog, Unpruned, Larger, TypeOK,
        claimVars, rowVars, convCacheVars, scopeCacheVars, gatewayVars
<1>2. CASE EvictionStep
  BY <1>2
  DEF EvictionStep, EvictConversation, EvictWorking, EvictScope, EvictStack, ForgetConversations,
      DropWorking, ForgetScopes, DropStacks, TypeOK, Identities,
      claimVars, rowVars, logVars, convCacheVars, scopeCacheVars, gatewayVars
<1>3. CASE Restart
  <2>1. erasureSeq' \in Nat /\ prunedThrough' \in Nat
    BY <1>3, RestoredTypes DEF Restart, TypeOK
  <2> QED
    BY <1>3, <2>1, IdleTypes DEF Restart, TypeOK, Identities, claimVars, rowVars
<1>4. CASE LoseStateRow
  BY <1>4
  DEF LoseStateRow, TypeOK, claimVars, rowVars, convCacheVars, scopeCacheVars, gatewayVars
<1>5. CASE UNCHANGED vars
  BY <1>5
  DEF vars, TypeOK, claimVars, rowVars, logVars, convCacheVars, scopeCacheVars, gatewayVars
<1> QED
  BY <1>1, <1>2, <1>3, <1>4, <1>5, TurnStepType, CallerStepType, DeletionStepType DEF Next

\* Every reachable state of the store, the caches and the turns is well formed.
THEOREM TypeCorrect == Spec => []TypeOK
  BY TypeInit, TypeStep, PTL DEF Spec

-----------------------------------------------------------------------------
(* What a step may do to the claims, to the erasure log and to the turns in  *)
(* flight: one of six things.                                                *)

\* Slot t stays with its turn, or its turn ends.
KeptOrEnded(t) ==
  InFlight(t)' => /\ InFlight(t)
                  /\ turn'[t].claim = turn[t].claim
                  /\ turn'[t].epoch = turn[t].epoch

TurnsKept == \A t \in Turns : KeptOrEnded(t)

\* Slot t gets a turn under the claim c has after the step.
Admitted(t, c) ==
  /\ turn'[t].claim = ClaimRead(c, owner'[c], claimId'[c])
  /\ turn'[t].epoch = epoch'[c]
  /\ erasureSeqSeen' >= turn'[t].claim.seq

SeenGrows == erasureSeqSeen' \in Nat /\ erasureSeqSeen' >= erasureSeqSeen

\* The turns that are admitted are admitted on c.
TurnsAdmitted(c) == \A t \in Turns : KeptOrEnded(t) \/ Admitted(t, c)

QuietStep(c) == UNCHANGED <<claimVars, logVars>> /\ TurnsAdmitted(c) /\ SeenGrows

ClaimedStep(c, who) ==
  /\ owner[c] = Nobody
  /\ who \in Subjects
  /\ owner' = [owner EXCEPT ![c] = who]
  /\ claimId' = [claimId EXCEPT ![c] = nextClaimId]
  /\ epoch' = [epoch EXCEPT ![c] = @ + 1]
  /\ nextClaimId' = nextClaimId + 1
  /\ UNCHANGED logVars
  /\ TurnsAdmitted(c)
  /\ SeenGrows

PrunedStep(through) ==
  /\ erasures' = Unpruned(erasures, through)
  /\ prunedThrough' = IF stateRow THEN Larger(prunedThrough, through) ELSE prunedThrough
  /\ through \in {0} \cup {e.seq : e \in erasures}
  /\ UNCHANGED <<claimVars, stateRow, erasureSeq>>
  /\ TurnsKept
  /\ SeenGrows

ErasedStep ==
  \E s \in Subjects, found \in FoundSeqs, through \in {0} \cup {e.seq : e \in erasures} :
     EraseOwner(s, found, through)

StepKind ==
  \/ \E c \in Convs : QuietStep(c)
  \/ \E c \in Convs, who \in Subjects : ClaimedStep(c, who)
  \/ \E through \in Nat : PrunedStep(through)
  \/ ErasedStep
  \/ Restart
  \/ LoseStateRow

\* Reading a claim never lowers the sequence number seen.
LEMMA SeenTypes ==
  ASSUME TypeOK, NEW c \in Convs
  PROVE  LET seen == Larger(erasureSeqSeen, ConversationClaim(c).seq) IN
         /\ seen \in Nat
         /\ seen >= erasureSeqSeen
         /\ \A held, id : seen >= ClaimRead(c, held, id).seq
  BY DEF Larger, ConversationClaim, ClaimRead, TypeOK

LEMMA OpenTurnKind ==
  ASSUME TypeOK, NEW t \in Turns, NEW who \in Identities, NEW c \in Convs, OpenTurn(t, who, c)
  PROVE  QuietStep(c)
<1>1. UNCHANGED <<claimVars, logVars>> /\ SeenGrows
  BY SeenTypes DEF OpenTurn, SeenGrows
<1>2. owner' = owner /\ claimId' = claimId /\ epoch' = epoch
  BY <1>1 DEF claimVars
<1>3. Admitted(t, c)
  BY <1>2, SeenTypes DEF OpenTurn, Admit, Admitted, ConversationClaim, TypeOK
<1>4. ASSUME NEW u \in Turns, u # t PROVE KeptOrEnded(u)
  BY <1>4 DEF OpenTurn, Admit, KeptOrEnded, InFlight, TypeOK
<1> QED BY <1>1, <1>3, <1>4 DEF QuietStep, TurnsAdmitted

\* A claim is inserted: the cache agrees with the store that nobody has one.
LEMMA InsertClaimKind ==
  ASSUME TypeOK, OwnersAgree, NEW who \in Identities, NEW c \in Convs,
         who # Nobody, owner[c] = Nobody, InsertClaim(c, who)
  PROVE  /\ owner' = [owner EXCEPT ![c] = who]
         /\ claimId' = [claimId EXCEPT ![c] = nextClaimId]
         /\ epoch' = [epoch EXCEPT ![c] = @ + 1]
         /\ nextClaimId' = nextClaimId + 1
         /\ CacheConversation(c, CachedRows(c), who)
<1>1. Claimable(c)
  BY DEF Claimable, CachedOwner, OwnersAgree
<1> QED BY <1>1 DEF InsertClaim

LEMMA OpenAndClaimKind ==
  ASSUME TypeOK, OwnersAgree, NEW t \in Turns, NEW who \in Identities, NEW c \in Convs,
         OpenAndClaim(t, who, c)
  PROVE  who \in Subjects /\ ClaimedStep(c, who)
<1>1. who \in Subjects /\ who # Nobody /\ owner[c] = Nobody /\ InsertClaim(c, who)
  BY DEF OpenAndClaim, Identities
<1>2. UNCHANGED logVars /\ SeenGrows
  BY SeenTypes DEF OpenAndClaim, SeenGrows
<1>3. Admitted(t, c)
  BY SeenTypes DEF OpenAndClaim, Admit, Admitted, TypeOK
<1>4. ASSUME NEW u \in Turns, u # t PROVE KeptOrEnded(u)
  BY <1>4 DEF OpenAndClaim, Admit, KeptOrEnded, InFlight, TypeOK
<1> QED BY <1>1, <1>2, <1>3, <1>4, InsertClaimKind DEF ClaimedStep, TurnsAdmitted

LEMMA TurnStepKind ==
  ASSUME TypeOK, OwnersAgree, NEW t \in Turns, TurnStep(t)
  PROVE  StepKind
<1>1. ASSUME NEW who \in Identities, NEW c \in Convs, OpenTurn(t, who, c) PROVE StepKind
  BY <1>1, OpenTurnKind DEF StepKind
<1>2. ASSUME NEW who \in Identities, NEW c \in Convs, OpenAndClaim(t, who, c) PROVE StepKind
  BY <1>2, OpenAndClaimKind DEF StepKind
<1>3. ASSUME UNCHANGED <<claimVars, logVars, erasureSeqSeen>>, TurnsKept PROVE StepKind
  <2>1. AnyConv \in Convs
    BY ConstantsAssumption DEF AnyConv
  <2>2. SeenGrows
    BY <1>3 DEF SeenGrows, TypeOK
  <2> QED BY <1>3, <2>1, <2>2 DEF StepKind, QuietStep, TurnsAdmitted, TurnsKept
<1>4. ASSUME NEW scope \in MemoryScopes(t), StartTurn(t, scope) PROVE StepKind
  <2>1. TurnsKept
    BY <1>4 DEF StartTurn, TurnsKept, KeptOrEnded, InFlight, TypeOK, TurnRecords
  <2> QED BY <1>3, <1>4, <2>1 DEF StartTurn
<1>5. CASE StartRefused(t)
  <2>1. TurnsKept
    BY <1>5 DEF StartRefused, TurnsKept, KeptOrEnded, InFlight, TypeOK, TurnRecords
  <2> QED BY <1>3, <1>5, <2>1 DEF StartRefused
<1>6. CASE ReadMemory(t)
  <2>1. TurnsKept
    BY <1>6 DEF ReadMemory, TurnsKept, KeptOrEnded, InFlight, TypeOK, TurnRecords
  <2> QED BY <1>3, <1>6, <2>1 DEF ReadMemory
<1>7. CASE RememberTurn(t)
  <2>1. TurnsKept
    BY <1>7 DEF RememberTurn, TurnsKept, KeptOrEnded, InFlight, TypeOK, TurnRecords
  <2> QED BY <1>3, <1>7, <2>1 DEF RememberTurn
<1>8. CASE RecordTurn(t) \/ RecordRefused(t) \/ RecordFails(t) \/ TurnFails(t)
  <2>1. turn' = [turn EXCEPT ![t] = IdleTurn]
    BY <1>8 DEF RecordTurn, RecordRefused, RecordFails, TurnFails
  <2>2. TurnsKept
    BY <2>1 DEF TurnsKept, KeptOrEnded, InFlight, IdleTurn, TypeOK
  <2>3. UNCHANGED <<claimVars, logVars, erasureSeqSeen>>
    BY <1>8 DEF RecordTurn, RecordRefused, RecordFails, TurnFails
  <2> QED BY <1>3, <2>2, <2>3
<1>9. CASE OutOfSteps(t)
  <2>1. TurnsKept
    BY <1>9 DEF OutOfSteps, TurnsKept, KeptOrEnded, InFlight, TypeOK, TurnRecords
  <2> QED BY <1>3, <1>9, <2>1 DEF OutOfSteps
<1> QED BY <1>1, <1>2, <1>4, <1>5, <1>6, <1>7, <1>8, <1>9 DEF TurnStep

\* A step that leaves the turns alone keeps them.
LEMMA UnchangedTurnsKept ==
  ASSUME turn' = turn
  PROVE  TurnsKept /\ \A c \in Convs : TurnsAdmitted(c)
  BY DEF TurnsKept, TurnsAdmitted, KeptOrEnded, InFlight

LEMMA CallerStepKind ==
  ASSUME TypeOK, OwnersAgree, NEW who \in Identities, NEW c \in Convs, CallerStep(who, c)
  PROVE  StepKind
<1>1. CASE OpenRefused(who, c)
  <2>1. QuietStep(c)
    BY <1>1, SeenTypes, UnchangedTurnsKept DEF OpenRefused, QuietStep, SeenGrows
  <2> QED BY <2>1 DEF StepKind
<1>2. CASE ClaimHalfDone(who, c)
  <2>1. who \in Subjects /\ who # Nobody /\ owner[c] = Nobody /\ InsertClaim(c, who)
    BY <1>2 DEF ClaimHalfDone, Identities
  <2>2. UNCHANGED logVars /\ SeenGrows /\ TurnsAdmitted(c)
    BY <1>2, SeenTypes, UnchangedTurnsKept DEF ClaimHalfDone, SeenGrows
  <2>3. ClaimedStep(c, who)
    BY <2>1, <2>2, InsertClaimKind DEF ClaimedStep
  <2> QED BY <2>1, <2>3 DEF StepKind
<1>3. CASE ResumeConversation(who, c)
  <2>1. QuietStep(c)
    BY <1>3, UnchangedTurnsKept DEF ResumeConversation, QuietStep, SeenGrows, TypeOK
  <2> QED BY <2>1 DEF StepKind
<1> QED BY <1>1, <1>2, <1>3 DEF CallerStep

\* Every step is of one of the kinds.
LEMMA NextKind == TypeOK /\ OwnersAgree /\ [Next]_vars => StepKind
<1> SUFFICES ASSUME TypeOK, OwnersAgree, [Next]_vars PROVE StepKind
  OBVIOUS
<1>1. ASSUME NEW s \in Subjects, DeletionStep(s) PROVE StepKind
  <2>1. ASSUME NEW found \in FoundSeqs, EraseFails(s, found) PROVE StepKind
    <3>1. found \in Nat
      BY FoundTypes
    <3>2. SeenGrows
      BY <2>1, <3>1 DEF EraseFails, SeenGrows, Larger, TypeOK
    <3>3. AnyConv \in Convs
      BY ConstantsAssumption DEF AnyConv
    <3> QED BY <2>1, <3>2, <3>3, UnchangedTurnsKept DEF EraseFails, StepKind, QuietStep
  <2>2. ASSUME NEW through \in {0} \cup {e.seq : e \in erasures}, EraseOwnerOfNothing(s, through)
        PROVE  StepKind
    <3>1. through \in Nat
      BY DEF TypeOK
    <3> QED
      BY <2>2, <3>1, UnchangedTurnsKept DEF EraseOwnerOfNothing, StepKind, PrunedStep, SeenGrows, TypeOK
  <2> QED BY <1>1, <2>1, <2>2 DEF DeletionStep, StepKind, ErasedStep
<1>2. ASSUME NEW e \in erasures, PruneErasureLog(e.seq) PROVE StepKind
  <2>1. e.seq \in Nat
    BY DEF TypeOK
  <2> QED BY <1>2, <2>1, UnchangedTurnsKept DEF PruneErasureLog, StepKind, PrunedStep, SeenGrows, TypeOK
<1>3. CASE EvictionStep \/ UNCHANGED vars
  <2>1. UNCHANGED <<claimVars, logVars, erasureSeqSeen, turn>>
    BY <1>3 DEF EvictionStep, EvictConversation, EvictWorking, EvictScope, EvictStack, vars
  <2>2. AnyConv \in Convs
    BY ConstantsAssumption DEF AnyConv
  <2> QED BY <2>1, <2>2, UnchangedTurnsKept DEF StepKind, QuietStep, SeenGrows, TypeOK
<1> QED
  BY <1>1, <1>2, <1>3, TurnStepKind, CallerStepKind DEF Next, StepKind

-----------------------------------------------------------------------------
(* The cached and the stored owners agree. *)

LEMMA LoadAgrees ==
  ASSUME TypeOK, OwnersAgree, NEW c \in Convs, LoadConversation(c), owner' = owner
  PROVE  \A x \in loadedConvs' : convOwner'[x] = owner'[x]
  BY DEF OwnersAgree, LoadConversation, CacheConversation, CachedOwner, TypeOK

LEMMA InsertAgrees ==
  ASSUME TypeOK, OwnersAgree, NEW who \in Identities, NEW c \in Convs,
         who # Nobody, owner[c] = Nobody, InsertClaim(c, who),
         AdoptRows(c, who) \/ storedOwner' = storedOwner
  PROVE  OwnersAgree'
<1>1. /\ owner' = [owner EXCEPT ![c] = who]
      /\ claimId' = [claimId EXCEPT ![c] = nextClaimId]
      /\ nextClaimId' = nextClaimId + 1
      /\ CacheConversation(c, CachedRows(c), who)
  BY InsertClaimKind
<1>2. \A x \in loadedConvs' : convOwner'[x] = owner'[x]
  BY <1>1 DEF OwnersAgree, CacheConversation, TypeOK
<1>3. \A x \in Convs : storedOwner'[x] \in {Nobody, owner'[x]}
  BY <1>1 DEF OwnersAgree, AdoptRows, TypeOK
<1>4. \A x \in Convs : claimId'[x] < nextClaimId'
  BY <1>1 DEF OwnersAgree, TypeOK
<1> QED BY <1>2, <1>3, <1>4 DEF OwnersAgree

LEMMA TurnStepAgrees ==
  ASSUME TypeOK, OwnersAgree, NEW t \in Turns, TurnStep(t)
  PROVE  OwnersAgree'
<1> DEFINE c == turn[t].claim.conv
<1>1. c \in Convs
  BY TurnTypes
<1>2. ASSUME UNCHANGED <<claimVars, rowVars>>, LoadOnMiss(c) PROVE OwnersAgree'
  BY <1>1, <1>2, LoadAgrees
  DEF LoadOnMiss, OwnersAgree, claimVars, rowVars, convCacheVars
<1>3. ASSUME UNCHANGED <<claimVars, rowVars, convCacheVars>> PROVE OwnersAgree'
  BY <1>3 DEF OwnersAgree, claimVars, rowVars, convCacheVars
<1>4. ASSUME NEW who \in Identities, NEW x \in Convs, OpenTurn(t, who, x) PROVE OwnersAgree'
  BY <1>3, <1>4 DEF OpenTurn
<1>5. ASSUME NEW who \in Identities, NEW x \in Convs, OpenAndClaim(t, who, x) PROVE OwnersAgree'
  BY <1>5, InsertAgrees DEF OpenAndClaim
<1>6. ASSUME NEW scope \in MemoryScopes(t), StartTurn(t, scope) PROVE OwnersAgree'
  BY <1>2, <1>6 DEF StartTurn
<1>7. CASE StartRefused(t)
  BY <1>2, <1>7 DEF StartRefused
<1>8. CASE ReadMemory(t) \/ RememberTurn(t) \/ OutOfSteps(t) \/ TurnFails(t)
  BY <1>3, <1>8 DEF ReadMemory, RememberTurn, OutOfSteps, TurnFails
<1>9. CASE RecordTurn(t)
  <2>1. PICK kept \in Kept(ConversationHistory(c)) :
          /\ storedOwner' = [storedOwner EXCEPT ![c] = owner[c]]
          /\ CacheConversation(c, kept \cup {TagOf(t)}, owner[c])
    BY <1>9 DEF RecordTurn
  <2>2. UNCHANGED claimVars
    BY <1>9 DEF RecordTurn
  <2> QED
    BY <1>1, <2>1, <2>2 DEF CacheConversation, OwnersAgree, TypeOK, claimVars
<1>10. CASE RecordRefused(t)
  BY <1>10 DEF RecordRefused, ForgetConversations, OwnersAgree, TypeOK, claimVars, rowVars
<1>11. CASE RecordFails(t)
  BY <1>2, <1>11 DEF RecordFails
<1> QED
  BY <1>4, <1>5, <1>6, <1>7, <1>8, <1>9, <1>10, <1>11 DEF TurnStep

\* While the owners agree, an account's conversations are those it has claimed.
LEMMA IdsAreClaimed ==
  ASSUME TypeOK, OwnersAgree, NEW s \in Subjects
  PROVE  ConversationIdsOf(s) = {c \in Convs : owner[c] = s}
  BY ConstantsAssumption DEF ConversationIdsOf, OwnersAgree, TypeOK

LEMMA EraseAgrees ==
  ASSUME TypeOK, OwnersAgree, NEW s \in Subjects, NEW found, NEW through,
         EraseOwner(s, found, through)
  PROVE  OwnersAgree'
<1> DEFINE ids == ConversationIdsOf(s)
<1>1. \A c \in loadedConvs' : convOwner'[c] = owner'[c]
  <2>1. loadedConvs' = loadedConvs \ ids
        /\ convOwner' = [c \in Convs |-> IF c \in ids THEN Nobody ELSE convOwner[c]]
    BY DEF EraseOwner, ForgetConversations
  <2>2. owner' = [c \in Convs |-> IF owner[c] = s THEN Nobody ELSE owner[c]]
    BY DEF EraseOwner
  <2> QED BY <2>1, <2>2, IdsAreClaimed DEF OwnersAgree, TypeOK
<1>2. \A c \in Convs : storedOwner'[c] \in {Nobody, owner'[c]}
  BY IdsAreClaimed DEF EraseOwner, OwnersAgree, TypeOK
<1>3. \A c \in Convs : claimId'[c] < nextClaimId'
  <2>1. claimId' = [c \in Convs |-> IF owner[c] = s THEN 0 ELSE claimId[c]]
        /\ nextClaimId' = nextClaimId
    BY DEF EraseOwner
  <2> QED BY <2>1 DEF OwnersAgree, TypeOK
<1> QED BY <1>1, <1>2, <1>3 DEF OwnersAgree

LEMMA OwnersAgreeStep == TypeOK /\ OwnersAgree /\ [Next]_vars => OwnersAgree'
<1> SUFFICES ASSUME TypeOK, OwnersAgree, [Next]_vars PROVE OwnersAgree'
  OBVIOUS
<1>1. ASSUME UNCHANGED <<claimVars, rowVars, convCacheVars>> PROVE OwnersAgree'
  BY <1>1 DEF OwnersAgree, claimVars, rowVars, convCacheVars
<1>2. ASSUME NEW who \in Identities, NEW c \in Convs, CallerStep(who, c) PROVE OwnersAgree'
  <2>1. CASE OpenRefused(who, c)
    BY <1>1, <2>1 DEF OpenRefused
  <2>2. CASE ClaimHalfDone(who, c)
    BY <2>2, InsertAgrees DEF ClaimHalfDone, rowVars
  <2>3. CASE ResumeConversation(who, c)
    BY <2>3, LoadAgrees DEF ResumeConversation, OwnersAgree, claimVars, rowVars
  <2> QED BY <1>2, <2>1, <2>2, <2>3 DEF CallerStep
<1>3. ASSUME NEW s \in Subjects, DeletionStep(s) PROVE OwnersAgree'
  <2>1. ASSUME NEW through, EraseOwnerOfNothing(s, through) PROVE OwnersAgree'
    BY <1>1, <2>1 DEF EraseOwnerOfNothing
  <2>2. ASSUME NEW found, EraseFails(s, found) PROVE OwnersAgree'
    BY <1>1, <2>2 DEF EraseFails
  <2> QED BY <1>3, <2>1, <2>2, EraseAgrees DEF DeletionStep
<1>4. ASSUME NEW e \in erasures, PruneErasureLog(e.seq) PROVE OwnersAgree'
  BY <1>1, <1>4 DEF PruneErasureLog
<1>5. CASE EvictionStep
  <2>1. ASSUME NEW c \in Convs, EvictConversation(c) PROVE OwnersAgree'
    BY <2>1 DEF EvictConversation, ForgetConversations, OwnersAgree, TypeOK, claimVars, rowVars
  <2>2. ASSUME NEW c \in Convs, EvictWorking(c) PROVE OwnersAgree'
    BY <1>1, <2>2 DEF EvictWorking
  <2>3. ASSUME NEW s \in Evictable, EvictScope(s) \/ EvictStack(s) PROVE OwnersAgree'
    BY <1>1, <2>3 DEF EvictScope, EvictStack
  <2> QED BY <1>5, <2>1, <2>2, <2>3 DEF EvictionStep
<1>6. CASE Restart
  BY <1>6 DEF Restart, OwnersAgree, claimVars, rowVars
<1>7. CASE LoseStateRow \/ UNCHANGED vars
  BY <1>1, <1>7 DEF LoseStateRow, vars
<1> QED
  BY <1>2, <1>3, <1>4, <1>5, <1>6, <1>7, TurnStepAgrees DEF Next

-----------------------------------------------------------------------------
(* The erasure log: the state row, while it is there, is ahead of it. *)

\* The sequence number an erasure finds is past everything logged, and past
\* everything any turn has been given.
LEMMA FoundIsAhead ==
  ASSUME TypeOK, StateRowIsAhead, NEW found \in FoundSeqs
  PROVE  /\ found \in Nat
         /\ \A e \in erasures : e.seq <= found
         /\ stateRow => found = erasureSeq /\ prunedThrough <= found
         /\ ~stateRow => found > erasureSeqSeen
<1>1. found \in Nat
  BY FoundTypes
<1>2. CASE stateRow
  BY <1>1, <1>2 DEF FoundSeqs, StateRowIsAhead
<1>3. CASE ~stateRow
  <2>1. found \in RestoredSeqs(erasureSeqSeen)
    BY <1>3 DEF FoundSeqs
  <2>2. PICK m \in {erasureSeqSeen} \cup {e.seq : e \in erasures} :
          m >= erasureSeqSeen /\ (\A e \in erasures : m >= e.seq) /\ found = m + 1
    BY <2>1 DEF RestoredSeqs
  <2>3. m \in Nat /\ \A e \in erasures : e.seq \in Nat
    BY DEF TypeOK
  <2> QED BY <1>1, <1>3, <2>2, <2>3 DEF TypeOK
<1> QED BY <1>2, <1>3

\* A logged or a zero number to prune through is not past the one found.
LEMMA ThroughIsBehind ==
  ASSUME TypeOK, StateRowIsAhead, NEW found \in FoundSeqs,
         NEW through \in {0} \cup {e.seq : e \in erasures}
  PROVE  through \in Nat /\ through <= found
  BY FoundIsAhead DEF TypeOK

LEMMA EraseKeepsRowAhead ==
  ASSUME TypeOK, StateRowIsAhead, NEW s \in Subjects, NEW found \in FoundSeqs,
         NEW through \in {0} \cup {e.seq : e \in erasures}, EraseOwner(s, found, through)
  PROVE  StateRowIsAhead'
<1>1. found \in Nat /\ through \in Nat /\ through <= found
  BY FoundIsAhead, ThroughIsBehind
<1>2. \A e \in erasures' : e.seq <= found + 1
  <2>1. ASSUME NEW e \in erasures PROVE e.seq <= found + 1
    BY <1>1, FoundIsAhead DEF TypeOK
  <2> QED BY <1>1, <2>1 DEF EraseOwner, Unpruned
<1>3. prunedThrough' <= found + 1
  BY <1>1, FoundIsAhead DEF EraseOwner, Larger, TypeOK
<1> QED BY <1>2, <1>3 DEF EraseOwner, StateRowIsAhead

LEMMA RestartKeepsRowAhead ==
  ASSUME TypeOK, StateRowIsAhead, Restart
  PROVE  StateRowIsAhead'
<1>1. CASE stateRow
  BY <1>1 DEF Restart, StateRowIsAhead
<1>2. CASE ~stateRow
  <2>1. erasureSeq' \in RestoredSeqs(0) /\ prunedThrough' = erasureSeq' /\ erasures' = erasures
    BY <1>2 DEF Restart
  <2>2. PICK m \in {0} \cup {e.seq : e \in erasures} :
          (\A e \in erasures : m >= e.seq) /\ erasureSeq' = m + 1
    BY <2>1 DEF RestoredSeqs
  <2> QED BY <2>1, <2>2 DEF StateRowIsAhead, TypeOK
<1> QED BY <1>1, <1>2

LEMMA LogStep == TypeOK /\ StateRowIsAhead /\ StepKind => StateRowIsAhead'
<1> SUFFICES ASSUME TypeOK, StateRowIsAhead, StepKind PROVE StateRowIsAhead'
  OBVIOUS
<1>1. ASSUME UNCHANGED logVars PROVE StateRowIsAhead'
  BY <1>1 DEF StateRowIsAhead, logVars
<1>2. ASSUME NEW through \in Nat, PrunedStep(through) PROVE StateRowIsAhead'
  <2>1. stateRow => through <= erasureSeq
    BY <1>2 DEF PrunedStep, StateRowIsAhead, TypeOK
  <2> QED BY <1>2, <2>1 DEF PrunedStep, Unpruned, Larger, StateRowIsAhead, TypeOK
<1>3. CASE LoseStateRow
  BY <1>3 DEF LoseStateRow, StateRowIsAhead
<1> QED
  BY <1>1, <1>2, <1>3, EraseKeepsRowAhead, RestartKeepsRowAhead
  DEF StepKind, QuietStep, ClaimedStep, ErasedStep

-----------------------------------------------------------------------------
(* Every turn in flight stays accounted for. *)

\* A known erasure stays known as long as the turn that must learn of it runs.
LEMMA KnownStays ==
  ASSUME TypeOK, StateRowIsAhead, NEW c \in Convs, NEW seq \in Nat \cup {-1},
         seq <= erasureSeqSeen, ErasureIsKnown(c, seq), StepKind, ~Restart
  PROVE  ErasureIsKnown(c, seq)'
<1>1. ASSUME UNCHANGED logVars PROVE ErasureIsKnown(c, seq)'
  BY <1>1 DEF ErasureIsKnown, logVars
<1>2. ASSUME NEW through \in Nat, PrunedStep(through) PROVE ErasureIsKnown(c, seq)'
  BY <1>2 DEF PrunedStep, Unpruned, Larger, ErasureIsKnown, TypeOK
<1>3. ASSUME NEW s \in Subjects, NEW found \in FoundSeqs,
             NEW through \in {0} \cup {e.seq : e \in erasures}, EraseOwner(s, found, through)
      PROVE  ErasureIsKnown(c, seq)'
  <2>1. found \in Nat /\ through \in Nat /\ through <= found
    BY FoundIsAhead, ThroughIsBehind
  <2>2. prunedThrough' = Larger(IF stateRow THEN prunedThrough ELSE found, through)
    BY <1>3 DEF EraseOwner
  <2>3. CASE ~stateRow
    <3>1. prunedThrough' > seq
      BY <2>1, <2>2, <2>3, FoundIsAhead DEF Larger, TypeOK
    <3> QED BY <3>1 DEF ErasureIsKnown
  <2>4. CASE stateRow /\ prunedThrough > seq
    <3>1. prunedThrough' > seq
      BY <2>1, <2>2, <2>4 DEF Larger, TypeOK
    <3> QED BY <3>1 DEF ErasureIsKnown
  <2>5. ASSUME stateRow, NEW e \in erasures, e.conv = c, e.seq > seq
        PROVE  ErasureIsKnown(c, seq)'
    <3>1. e.seq \in Nat
      BY DEF TypeOK
    <3>2. CASE e.seq > through
      <4>1. e \in erasures'
        BY <1>3, <3>2 DEF EraseOwner, Unpruned
      <4> QED BY <2>5, <4>1 DEF ErasureIsKnown
    <3>3. CASE e.seq <= through
      <4>1. prunedThrough' > seq
        BY <2>1, <2>2, <2>5, <3>1, <3>3 DEF Larger, TypeOK
      <4> QED BY <4>1 DEF ErasureIsKnown
    <3> QED BY <2>1, <3>1, <3>2, <3>3
  <2>6. CASE IsAccountConversation(c)
    BY <2>6 DEF ErasureIsKnown, IsAccountConversation
  <2> QED BY <2>3, <2>4, <2>5, <2>6 DEF ErasureIsKnown
<1>4. CASE LoseStateRow
  BY <1>4 DEF LoseStateRow, ErasureIsKnown
<1> QED
  BY <1>1, <1>2, <1>3, <1>4 DEF StepKind, QuietStep, ClaimedStep, ErasedStep

\* A turn just admitted is accounted for.
LEMMA AdmittedIsAccountedFor ==
  ASSUME TypeOK, TypeOK', OwnersAgree', UNCHANGED logVars,
         NEW t \in Turns, NEW c \in Convs, Admitted(t, c)
  PROVE  TurnIsAccountedFor(t)'
  BY DEF Admitted, ClaimRead, OwnersAgree, TurnIsAccountedFor, TypeOK, logVars

\* A turn in flight under an untouched claim, over a log that only grew.
LEMMA UntouchedIsAccountedFor ==
  ASSUME TypeOK, StateRowIsAhead, StepKind, ~Restart, SeenGrows, nextClaimId' >= nextClaimId,
         NEW t \in Turns, TurnIsAccountedFor(t), turn'[t].claim = turn[t].claim,
         turn'[t].epoch = turn[t].epoch, nextClaimId' \in Nat,
         LET c == turn[t].claim.conv IN
           owner'[c] = owner[c] /\ claimId'[c] = claimId[c] /\ epoch'[c] = epoch[c],
         stateRow' => turn[t].claim.seq <= erasureSeq'
  PROVE  TurnIsAccountedFor(t)'
<1> DEFINE claim == turn[t].claim
<1> DEFINE c == claim.conv
<1>1. claim \in Claims /\ c \in Convs /\ claim.id \in Nat /\ claim.seq \in Nat \cup {-1}
  BY TurnTypes DEF Claims
<1>2. ErasureIsKnown(c, claim.seq) => ErasureIsKnown(c, claim.seq)'
  BY <1>1, KnownStays DEF TurnIsAccountedFor
<1>3. claim.id < nextClaimId' /\ claim.seq <= erasureSeqSeen'
  BY <1>1 DEF TurnIsAccountedFor, SeenGrows, TypeOK
<1> QED BY <1>1, <1>2, <1>3 DEF TurnIsAccountedFor, ErasureIsKnown

\* A claim by who, of the turn's conversation or of another.
LEMMA ClaimedKeepsAccount ==
  ASSUME TypeOK, TypeOK', OwnersAgree, StateRowIsAhead,
         NEW x \in Convs, NEW who \in Subjects, ClaimedStep(x, who),
         NEW t \in Turns, TurnIsAccountedFor(t), turn'[t].claim = turn[t].claim,
         turn'[t].epoch = turn[t].epoch
  PROVE  TurnIsAccountedFor(t)'
<1> DEFINE claim == turn[t].claim
<1> DEFINE c == claim.conv
<1>1. claim \in Claims /\ c \in Convs /\ claim.id \in Nat /\ claim.seq \in Nat \cup {-1}
      /\ turn[t].epoch \in Nat
  BY TurnTypes DEF Claims, TypeOK, TurnRecords
<1>2. who # Nobody
  BY ConstantsAssumption
<1>3. UNCHANGED logVars /\ SeenGrows /\ nextClaimId' = nextClaimId + 1
  BY DEF ClaimedStep
<1>4. stateRow' => claim.seq <= erasureSeq'
  BY <1>3 DEF TurnIsAccountedFor, logVars
<1>5. CASE c = x
  <2>1. owner'[c] = who /\ claimId'[c] = nextClaimId /\ epoch'[c] = epoch[c] + 1
    BY <1>5, <1>1 DEF ClaimedStep, TypeOK
  <2>2. turn[t].epoch < epoch'[c] /\ turn[t].epoch # epoch'[c] /\ turn[t].epoch <= epoch'[c]
    BY <1>1, <2>1 DEF TurnIsAccountedFor, TypeOK
  <2>3. claim.id < nextClaimId' /\ claim.id # nextClaimId /\ claim.seq <= erasureSeqSeen'
    BY <1>1, <1>3 DEF TurnIsAccountedFor, SeenGrows, TypeOK
  <2> QED BY <1>2, <1>4, <2>1, <2>2, <2>3 DEF TurnIsAccountedFor
<1>6. CASE c # x
  <2>1. owner'[c] = owner[c] /\ claimId'[c] = claimId[c] /\ epoch'[c] = epoch[c]
    BY <1>1, <1>6 DEF ClaimedStep, TypeOK
  <2>2. ErasureIsKnown(c, claim.seq) => ErasureIsKnown(c, claim.seq)'
    BY <1>3 DEF ErasureIsKnown, logVars
  <2>3. claim.id < nextClaimId' /\ claim.seq <= erasureSeqSeen'
    BY <1>1, <1>3 DEF TurnIsAccountedFor, SeenGrows, TypeOK
  <2> QED BY <1>4, <2>1, <2>2, <2>3 DEF TurnIsAccountedFor, ErasureIsKnown
<1> QED BY <1>5, <1>6

\* The erasure of an account that holds the turn's conversation, or does not.
LEMMA ErasedKeepsAccount ==
  ASSUME TypeOK, TypeOK', OwnersAgree, StateRowIsAhead,
         NEW s \in Subjects, NEW found \in FoundSeqs,
         NEW through \in {0} \cup {e.seq : e \in erasures}, EraseOwner(s, found, through),
         NEW t \in Turns, TurnIsAccountedFor(t), turn'[t].claim = turn[t].claim,
         turn'[t].epoch = turn[t].epoch
  PROVE  TurnIsAccountedFor(t)'
<1> DEFINE claim == turn[t].claim
<1> DEFINE c == claim.conv
<1> DEFINE ids == ConversationIdsOf(s)
<1>1. claim \in Claims /\ c \in Convs /\ claim.id \in Nat /\ claim.seq \in Nat \cup {-1}
      /\ turn[t].epoch \in Nat
  BY TurnTypes DEF Claims, TypeOK, TurnRecords
<1>2. found \in Nat /\ through \in Nat /\ through <= found
  BY FoundIsAhead, ThroughIsBehind
<1>3. claim.seq <= found
  BY <1>1, <1>2, FoundIsAhead DEF TurnIsAccountedFor, TypeOK
<1>4. /\ erasureSeq' = found + 1
      /\ erasureSeqSeen' = Larger(erasureSeqSeen, found + 1)
      /\ nextClaimId' = nextClaimId
      /\ owner' = [x \in Convs |-> IF owner[x] = s THEN Nobody ELSE owner[x]]
      /\ claimId' = [x \in Convs |-> IF owner[x] = s THEN 0 ELSE claimId[x]]
      /\ epoch' = [x \in Convs |-> IF x \in ids THEN epoch[x] + 1 ELSE epoch[x]]
  BY DEF EraseOwner
<1>5. ids = {x \in Convs : owner[x] = s}
  BY IdsAreClaimed
<1>6. SeenGrows /\ claim.seq <= erasureSeqSeen' /\ claim.seq <= erasureSeq'
  BY <1>1, <1>2, <1>3, <1>4 DEF SeenGrows, Larger, TurnIsAccountedFor, TypeOK
<1>7. CASE c \in ids
  <2>1. owner'[c] = Nobody /\ epoch'[c] = epoch[c] + 1
    BY <1>4, <1>5, <1>7
  <2>2. turn[t].epoch < epoch'[c] /\ turn[t].epoch # epoch'[c] /\ turn[t].epoch <= epoch'[c]
    BY <1>1, <2>1 DEF TurnIsAccountedFor, TypeOK
  <2>3. ErasureIsKnown(c, claim.seq)'
    <3>1. CASE IsAccountConversation(c)
      BY <3>1 DEF ErasureIsKnown, IsAccountConversation
    <3>2. CASE ~IsAccountConversation(c)
      <4>1. [conv |-> c, seq |-> found + 1] \in erasures'
        BY <1>2, <1>7, <3>2 DEF EraseOwner, Unpruned
      <4>2. found + 1 > claim.seq
        BY <1>1, <1>2, <1>3
      <4> QED BY <4>1, <4>2 DEF ErasureIsKnown
    <3> QED BY <3>1, <3>2
  <2>4. claim.id < nextClaimId'
    BY <1>4 DEF TurnIsAccountedFor
  <2> QED BY <1>6, <2>1, <2>2, <2>3, <2>4 DEF TurnIsAccountedFor, ErasureIsKnown
<1>8. CASE c \notin ids
  <2>1. owner'[c] = owner[c] /\ claimId'[c] = claimId[c] /\ epoch'[c] = epoch[c]
    BY <1>1, <1>4, <1>5, <1>8 DEF TypeOK
  <2>2. StepKind
    BY DEF StepKind, ErasedStep
  <2>3. ~Restart
    BY <1>2, <1>4 DEF EraseOwner, Restart, Larger, TypeOK
  <2>4. nextClaimId' >= nextClaimId /\ nextClaimId' \in Nat
    BY <1>4 DEF TypeOK
  <2> QED BY <1>6, <2>1, <2>2, <2>3, <2>4, UntouchedIsAccountedFor
<1> QED BY <1>7, <1>8

\* A step that touches no claim: a turn admitted, the log pruned, the row lost.
LEMMA UnclaimedKeepsAccount ==
  ASSUME TypeOK, TypeOK', StateRowIsAhead, UNCHANGED claimVars, SeenGrows,
         (\E x \in Convs : QuietStep(x)) \/ (\E through \in Nat : PrunedStep(through)) \/ LoseStateRow,
         erasureSeq' = erasureSeq \/ ~stateRow', stateRow' => stateRow,
         NEW t \in Turns, TurnIsAccountedFor(t), turn'[t].claim = turn[t].claim,
         turn'[t].epoch = turn[t].epoch
  PROVE  TurnIsAccountedFor(t)'
<1> DEFINE claim == turn[t].claim
<1> DEFINE c == claim.conv
<1>1. claim \in Claims /\ c \in Convs /\ claim.id \in Nat /\ claim.seq \in Nat \cup {-1}
  BY TurnTypes DEF Claims
<1>2. ErasureIsKnown(c, claim.seq) => ErasureIsKnown(c, claim.seq)'
  <2>1. ASSUME UNCHANGED logVars, ErasureIsKnown(c, claim.seq) PROVE ErasureIsKnown(c, claim.seq)'
    BY <2>1 DEF ErasureIsKnown, logVars
  <2>2. ASSUME NEW through \in Nat, PrunedStep(through), ErasureIsKnown(c, claim.seq)
        PROVE  ErasureIsKnown(c, claim.seq)'
    BY <1>1, <2>2 DEF PrunedStep, Unpruned, Larger, ErasureIsKnown, TypeOK
  <2>3. ASSUME LoseStateRow PROVE ErasureIsKnown(c, claim.seq)'
    BY <2>3 DEF LoseStateRow, ErasureIsKnown
  <2> QED BY <2>1, <2>2, <2>3 DEF QuietStep
<1>3. claim.seq <= erasureSeqSeen'
  BY <1>1 DEF TurnIsAccountedFor, SeenGrows, TypeOK
<1> QED BY <1>2, <1>3 DEF TurnIsAccountedFor, ErasureIsKnown, claimVars

\* In every step, every turn that stays in flight stays accounted for.
LEMMA AccountStep ==
  ASSUME TypeOK, TypeOK', ClaimsInv, OwnersAgree', StepKind, NEW t \in Turns, InFlight(t)'
  PROVE  TurnIsAccountedFor(t)'
<1> USE DEF ClaimsInv
<1>1. ASSUME KeptOrEnded(t)
      PROVE  TurnIsAccountedFor(t) /\ turn'[t].claim = turn[t].claim /\ turn'[t].epoch = turn[t].epoch
  BY <1>1 DEF KeptOrEnded
<1>2. ASSUME NEW x \in Convs, QuietStep(x) PROVE TurnIsAccountedFor(t)'
  <2>1. CASE Admitted(t, x)
    BY <1>2, <2>1, AdmittedIsAccountedFor DEF QuietStep
  <2>2. CASE KeptOrEnded(t)
    <3>1. erasureSeq' = erasureSeq /\ stateRow' = stateRow
      BY <1>2 DEF QuietStep, logVars
    <3> QED BY <1>1, <1>2, <2>2, <3>1, UnclaimedKeepsAccount DEF QuietStep
  <2> QED BY <1>2, <2>1, <2>2 DEF QuietStep, TurnsAdmitted
<1>3. ASSUME NEW x \in Convs, NEW who \in Subjects, ClaimedStep(x, who) PROVE TurnIsAccountedFor(t)'
  <2>1. CASE Admitted(t, x)
    BY <1>3, <2>1, AdmittedIsAccountedFor DEF ClaimedStep
  <2>2. CASE KeptOrEnded(t)
    BY <1>1, <1>3, <2>2, ClaimedKeepsAccount
  <2> QED BY <1>3, <2>1, <2>2 DEF ClaimedStep, TurnsAdmitted
<1>4. ASSUME NEW through \in Nat, PrunedStep(through) PROVE TurnIsAccountedFor(t)'
  BY <1>1, <1>4, UnclaimedKeepsAccount DEF PrunedStep, TurnsKept
<1>5. ASSUME NEW s \in Subjects, NEW found \in FoundSeqs,
             NEW through \in {0} \cup {e.seq : e \in erasures}, EraseOwner(s, found, through)
      PROVE  TurnIsAccountedFor(t)'
  <2>1. KeptOrEnded(t)
    BY <1>5 DEF EraseOwner, KeptOrEnded, InFlight
  <2> QED BY <1>1, <1>5, <2>1, ErasedKeepsAccount
<1>6. CASE Restart
  BY <1>6 DEF Restart, InFlight, IdleTurn
<1>7. CASE LoseStateRow
  <2>1. KeptOrEnded(t) /\ SeenGrows /\ UNCHANGED claimVars
    BY <1>7 DEF LoseStateRow, KeptOrEnded, InFlight, SeenGrows, TypeOK
  <2> QED BY <1>1, <1>7, <2>1, UnclaimedKeepsAccount DEF LoseStateRow
<1> QED BY <1>2, <1>3, <1>4, <1>5, <1>6, <1>7 DEF StepKind, ErasedStep

LEMMA ClaimsInit == Init => ClaimsInv
  BY DEF Init, ClaimsInv, OwnersAgree, StateRowIsAhead, InFlight, IdleTurn

LEMMA ClaimsStep == TypeOK /\ TypeOK' /\ ClaimsInv /\ [Next]_vars => ClaimsInv'
<1> SUFFICES ASSUME TypeOK, TypeOK', ClaimsInv, [Next]_vars PROVE ClaimsInv'
  OBVIOUS
<1>1. StepKind
  BY NextKind DEF ClaimsInv
<1>2. OwnersAgree'
  BY OwnersAgreeStep DEF ClaimsInv
<1>3. StateRowIsAhead'
  BY <1>1, LogStep DEF ClaimsInv
<1> QED BY <1>1, <1>2, <1>3, AccountStep DEF ClaimsInv

\* What the claims and the log are at every moment, turn by turn.
THEOREM ClaimsInvariant == Spec => [](TypeOK /\ ClaimsInv)
  BY TypeInit, TypeStep, ClaimsInit, ClaimsStep, PTL DEF Spec

\* No turn whose claim stands was admitted before the last claim or the last
\* erasure of its conversation.
LEMMA AccountedForIsCurrent == TypeOK /\ ClaimsInv => StandingClaimsAreCurrent
<1> SUFFICES ASSUME TypeOK, ClaimsInv, NEW t \in Turns, InFlight(t), Stands(turn[t].claim)
             PROVE  turn[t].epoch = epoch[turn[t].claim.conv]
  BY DEF StandingClaimsAreCurrent
<1> DEFINE claim == turn[t].claim
<1> DEFINE c == claim.conv
<1>1. /\ c \in Convs /\ turn[t].epoch \in Nat /\ epoch[c] \in Nat
      /\ claim.seq \in Nat \cup {-1} /\ \A e \in erasures : e.seq \in Nat
  BY TurnTypes DEF Claims, TypeOK, TurnRecords
<1>2. TurnIsAccountedFor(t)
  BY DEF ClaimsInv
<1>3. SUFFICES ASSUME turn[t].epoch < epoch[c] PROVE FALSE
  BY <1>1, <1>2 DEF TurnIsAccountedFor
<1>4. owner[c] = claim.owner /\ claimId[c] = claim.id
  BY DEF Stands
<1>5. claim.owner = Nobody /\ ErasureIsKnown(c, claim.seq)
  BY <1>2, <1>3, <1>4 DEF TurnIsAccountedFor
<1>6. stateRow /\ ~IsAccountConversation(c)
  BY <1>5 DEF Stands
<1>7. prunedThrough <= claim.seq /\ \A e \in erasures : e.conv = c => e.seq <= claim.seq
  BY <1>1, <1>5, <1>6 DEF Stands, ClaimsInv, StateRowIsAhead
<1> QED BY <1>1, <1>5, <1>6, <1>7 DEF ErasureIsKnown, TypeOK

\* A turn that may still write is of its conversation's present epoch.
THEOREM StandingClaims == Spec => []StandingClaimsAreCurrent
  BY ClaimsInvariant, AccountedForIsCurrent, PTL

-----------------------------------------------------------------------------
(* The copies of the process are the store's. *)

ConvCopies ==
  \A c \in Convs : IF c \in loadedConvs THEN convCache[c] = stored[c] /\ convOwner[c] = owner[c]
                                        ELSE convCache[c] = {}

WorkingCopies == \A c \in Convs : conversations[c] = IF c \in working THEN stored[c] ELSE {}

ScopeCopies == \A s \in Scopes : turnCache[s] = IF s \in loadedScopes THEN memory[s] ELSE {}

LEMMA CopiesParts ==
  ASSUME TypeOK
  PROVE  CopiesInv <=> ConvCopies /\ WorkingCopies /\ ScopeCopies
  BY DEF TypeOK, CopiesInv, CopiesMatchStore, ConvCopies, WorkingCopies, ScopeCopies

\* Every copy there is to read reads as the store.
LEMMA ReadsAreStored ==
  ASSUME TypeOK, ConvCopies, WorkingCopies, ScopeCopies, NEW c \in Convs, NEW s \in Scopes
  PROVE  /\ CachedRows(c) = stored[c] /\ CachedOwner(c) = owner[c]
         /\ ConversationHistory(c) = stored[c]
         /\ CachedMemory(s) = memory[s]
  BY DEF ConvCopies, WorkingCopies, ScopeCopies, CachedRows, CachedOwner, ConversationHistory, CachedMemory

LEMMA CacheKeepsCopies ==
  ASSUME TypeOK, ConvCopies, NEW c \in Convs, CacheConversation(c, stored'[c], owner'[c]),
         \A x \in Convs : x # c => stored'[x] = stored[x] /\ owner'[x] = owner[x]
  PROVE  ConvCopies'
  BY DEF TypeOK, ConvCopies, CacheConversation

LEMMA LoadKeepsCopies ==
  ASSUME TypeOK, ConvCopies, NEW c \in Convs, LoadConversation(c) \/ LoadOnMiss(c),
         UNCHANGED <<owner, stored>>
  PROVE  ConvCopies'
<1>1. CachedRows(c) = stored[c] /\ CachedOwner(c) = owner[c]
  BY DEF ConvCopies, CachedRows, CachedOwner
<1>2. CASE LoadConversation(c)
  BY <1>1, <1>2, CacheKeepsCopies DEF LoadConversation
<1>3. CASE UNCHANGED convCacheVars
  BY <1>3 DEF ConvCopies, convCacheVars
<1> QED BY <1>2, <1>3 DEF LoadOnMiss

LEMMA ForgetKeepsCopies ==
  ASSUME TypeOK, ConvCopies, NEW C \in SUBSET Convs, ForgetConversations(C),
         \A x \in Convs \ C : stored'[x] = stored[x] /\ owner'[x] = owner[x]
  PROVE  ConvCopies'
  BY DEF TypeOK, ConvCopies, ForgetConversations

LEMMA HoldKeepsCopies ==
  ASSUME TypeOK, WorkingCopies, NEW c \in Convs, Hold(c, stored'[c]),
         \A x \in Convs : x # c => stored'[x] = stored[x]
  PROVE  WorkingCopies'
  BY DEF TypeOK, WorkingCopies, Hold

LEMMA DropKeepsCopies ==
  ASSUME TypeOK, WorkingCopies, NEW C \in SUBSET Convs, DropWorking(C),
         \A x \in Convs \ C : stored'[x] = stored[x]
  PROVE  WorkingCopies'
  BY DEF TypeOK, WorkingCopies, DropWorking

LEMMA CacheScopeKeepsCopies ==
  ASSUME TypeOK, ScopeCopies, NEW s \in Scopes, CacheScope(s, memory'[s]),
         \A x \in Scopes : x # s => memory'[x] = memory[x]
  PROVE  ScopeCopies'
  BY DEF TypeOK, ScopeCopies, CacheScope

LEMMA ForgetScopesKeepsCopies ==
  ASSUME TypeOK, ScopeCopies, NEW S \in SUBSET Scopes, ForgetScopes(S),
         \A x \in Scopes \ S : memory'[x] = memory[x]
  PROVE  ScopeCopies'
  BY DEF TypeOK, ScopeCopies, ForgetScopes

\* Copies nothing touches, of a store nothing touches.
LEMMA UntouchedCopies ==
  ASSUME TypeOK, ConvCopies, WorkingCopies, ScopeCopies
  PROVE  /\ UNCHANGED <<owner, stored, convCacheVars>> => ConvCopies'
         /\ UNCHANGED <<stored, gatewayVars>> => WorkingCopies'
         /\ UNCHANGED <<memory, scopeCacheVars>> => ScopeCopies'
  BY DEF ConvCopies, WorkingCopies, ScopeCopies, convCacheVars, gatewayVars, scopeCacheVars

LEMMA TurnStepCopies ==
  ASSUME TypeOK, ClaimsInv, ConvCopies, WorkingCopies, ScopeCopies, NEW t \in Turns, TurnStep(t)
  PROVE  (ConvCopies /\ WorkingCopies /\ ScopeCopies)'
<1> DEFINE c == turn[t].claim.conv
<1> DEFINE s == turn[t].scope
<1>1. c \in Convs /\ s \in Scopes
  BY TurnTypes DEF TypeOK, TurnRecords
<1>2. ASSUME NEW who \in Identities, NEW d \in Convs, OpenTurn(t, who, d)
      PROVE  (ConvCopies /\ WorkingCopies /\ ScopeCopies)'
  BY <1>2, UntouchedCopies DEF OpenTurn, claimVars, rowVars
<1>3. ASSUME NEW who \in Identities, NEW d \in Convs, OpenAndClaim(t, who, d)
      PROVE  (ConvCopies /\ WorkingCopies /\ ScopeCopies)'
  <2>1. owner' = [owner EXCEPT ![d] = who] /\ CacheConversation(d, stored[d], who)
    BY <1>3, InsertClaimKind, ReadsAreStored DEF OpenAndClaim, ClaimsInv, ConvCopies, CachedRows
  <2>2. stored' = stored /\ owner'[d] = who /\ \A x \in Convs : x # d => owner'[x] = owner[x]
    BY <1>3, <2>1 DEF OpenAndClaim, TypeOK
  <2>3. ConvCopies'
    BY <2>1, <2>2, CacheKeepsCopies
  <2> QED BY <1>3, <2>2, <2>3, UntouchedCopies DEF OpenAndClaim
<1>4. ASSUME NEW scope \in MemoryScopes(t), StartTurn(t, scope)
      PROVE  (ConvCopies /\ WorkingCopies /\ ScopeCopies)'
  <2>1. UNCHANGED <<owner, stored, memory, scopeCacheVars>>
    BY <1>4 DEF StartTurn, claimVars, rowVars
  <2>2. Hold(c, stored'[c])
    BY <1>1, <1>4, <2>1, ReadsAreStored DEF StartTurn
  <2>3. ConvCopies'
    BY <1>1, <1>4, <2>1, LoadKeepsCopies DEF StartTurn
  <2> QED BY <1>1, <2>1, <2>2, <2>3, HoldKeepsCopies, UntouchedCopies
<1>5. CASE StartRefused(t)
  <2>1. UNCHANGED <<owner, stored, memory, scopeCacheVars>>
    BY <1>5 DEF StartRefused, claimVars, rowVars
  <2>2. Hold(c, stored'[c])
    BY <1>1, <1>5, <2>1, ReadsAreStored DEF StartRefused
  <2>3. ConvCopies'
    BY <1>1, <1>5, <2>1, LoadKeepsCopies DEF StartRefused
  <2> QED BY <1>1, <2>1, <2>2, <2>3, HoldKeepsCopies, UntouchedCopies
<1>6. CASE ReadMemory(t)
  <2>1. UNCHANGED <<owner, stored, memory, convCacheVars, gatewayVars>>
    BY <1>6 DEF ReadMemory, claimVars, rowVars
  <2>2. CacheScope(s, memory'[s])
    BY <1>1, <1>6, <2>1, ReadsAreStored DEF ReadMemory
  <2> QED BY <1>1, <2>1, <2>2, CacheScopeKeepsCopies, UntouchedCopies
<1>7. CASE RememberTurn(t)
  <2>1. UNCHANGED <<owner, stored, convCacheVars, gatewayVars>>
    BY <1>7 DEF RememberTurn, claimVars, rowVars
  <2>2. CacheScope(s, memory'[s]) /\ \A x \in Scopes : x # s => memory'[x] = memory[x]
    <3>1. CASE Stands(turn[t].claim)
      <4>1. PICK kept \in Kept(memory[s]) :
              /\ memory' = [memory EXCEPT ![s] = kept \cup {TagOf(t)}]
              /\ CacheScope(s, kept \cup {TagOf(t)})
        BY <1>7, <3>1 DEF RememberTurn
      <4> QED BY <1>1, <4>1 DEF TypeOK
    <3>2. CASE ~Stands(turn[t].claim)
      BY <1>1, <1>7, <3>2, ReadsAreStored DEF RememberTurn
    <3> QED BY <3>1, <3>2
  <2> QED BY <1>1, <2>1, <2>2, CacheScopeKeepsCopies, UntouchedCopies
<1>8. CASE RecordTurn(t)
  <2>1. UNCHANGED <<owner, memory, scopeCacheVars>>
    BY <1>8 DEF RecordTurn, claimVars
  <2>2. PICK now : /\ stored' = [stored EXCEPT ![c] = now]
                   /\ CacheConversation(c, now, owner[c])
                   /\ Hold(c, now)
    BY <1>8 DEF RecordTurn
  <2>3. stored'[c] = now /\ \A x \in Convs : x # c => stored'[x] = stored[x]
    BY <1>1, <2>2 DEF TypeOK
  <2> QED BY <1>1, <2>1, <2>2, <2>3, CacheKeepsCopies, HoldKeepsCopies, UntouchedCopies
<1>9. CASE RecordRefused(t)
  BY <1>1, <1>9, ForgetKeepsCopies, DropKeepsCopies, UntouchedCopies DEF RecordRefused, claimVars, rowVars
<1>10. CASE RecordFails(t)
  BY <1>1, <1>10, LoadKeepsCopies, DropKeepsCopies, UntouchedCopies DEF RecordFails, claimVars, rowVars
<1>11. CASE OutOfSteps(t) \/ TurnFails(t)
  BY <1>11, UntouchedCopies DEF OutOfSteps, TurnFails, claimVars, rowVars
<1> QED
  BY <1>2, <1>3, <1>4, <1>5, <1>6, <1>7, <1>8, <1>9, <1>10, <1>11 DEF TurnStep

LEMMA EraseOwnerCopies ==
  ASSUME TypeOK, OwnersAgree, ConvCopies, WorkingCopies, ScopeCopies,
         NEW s \in Subjects, NEW found, NEW through, EraseOwner(s, found, through)
  PROVE  (ConvCopies /\ WorkingCopies /\ ScopeCopies)'
<1> DEFINE ids == ConversationIdsOf(s)
<1>1. ids \in SUBSET Convs /\ ids = {c \in Convs : owner[c] = s}
  BY IdsAreClaimed
<1>2. /\ ForgetConversations(ids) /\ DropWorking(ids) /\ ForgetScopes({s} \cup ids)
      /\ owner' = [c \in Convs |-> IF owner[c] = s THEN Nobody ELSE owner[c]]
      /\ stored' = [c \in Convs |-> IF c \in ids THEN {} ELSE stored[c]]
      /\ memory' = [m \in Scopes |-> IF m \in {s} \cup ids THEN {} ELSE memory[m]]
  BY DEF EraseOwner, DropCopies, EraseScopedMemory
<1>3. \A x \in Convs \ ids : stored'[x] = stored[x] /\ owner'[x] = owner[x]
  BY <1>1, <1>2
<1>4. {s} \cup ids \in SUBSET Scopes /\ \A x \in Scopes \ ({s} \cup ids) : memory'[x] = memory[x]
  BY <1>1, <1>2 DEF Scopes
<1>5. ConvCopies'
  BY <1>1, <1>2, <1>3, ForgetKeepsCopies
<1>6. WorkingCopies'
  BY <1>1, <1>2, <1>3, DropKeepsCopies
<1>7. ScopeCopies'
  BY <1>2, <1>4, ForgetScopesKeepsCopies
<1> QED BY <1>5, <1>6, <1>7

LEMMA DeletionCopies ==
  ASSUME TypeOK, OwnersAgree, ConvCopies, WorkingCopies, ScopeCopies,
         NEW s \in Subjects, DeletionStep(s)
  PROVE  (ConvCopies /\ WorkingCopies /\ ScopeCopies)'
<1>1. ASSUME NEW through, EraseOwnerOfNothing(s, through)
      PROVE  (ConvCopies /\ WorkingCopies /\ ScopeCopies)'
  <2>1. /\ UNCHANGED <<owner, stored, convCacheVars, gatewayVars>> /\ ForgetScopes({s})
        /\ memory' = [m \in Scopes |-> IF m \in {s} THEN {} ELSE memory[m]]
    BY <1>1 DEF EraseOwnerOfNothing, EraseScopedMemory, claimVars, rowVars
  <2>2. {s} \in SUBSET Scopes /\ \A x \in Scopes \ {s} : memory'[x] = memory[x]
    BY <2>1 DEF Scopes
  <2> QED BY <2>1, <2>2, ForgetScopesKeepsCopies, UntouchedCopies
<1>2. ASSUME NEW found, EraseFails(s, found)
      PROVE  (ConvCopies /\ WorkingCopies /\ ScopeCopies)'
  <2>1. /\ UNCHANGED <<owner, stored, memory, convCacheVars, scopeCacheVars>>
        /\ DropWorking(ConversationIdsOf(s)) /\ ConversationIdsOf(s) \in SUBSET Convs
    BY <1>2 DEF EraseFails, DropCopies, ConversationIdsOf, claimVars, rowVars
  <2> QED BY <2>1, DropKeepsCopies, UntouchedCopies
<1> QED BY <1>1, <1>2, EraseOwnerCopies DEF DeletionStep

LEMMA CopiesStep ==
  ASSUME TypeOK, TypeOK', ClaimsInv, CopiesInv, [Next]_vars
  PROVE  CopiesInv'
<1>1. ConvCopies /\ WorkingCopies /\ ScopeCopies
  BY CopiesParts
<1>2. CopiesInv' <=> (ConvCopies /\ WorkingCopies /\ ScopeCopies)'
  BY DEF TypeOK, CopiesInv, CopiesMatchStore, ConvCopies, WorkingCopies, ScopeCopies
<1> SUFFICES (ConvCopies /\ WorkingCopies /\ ScopeCopies)'
  BY <1>2
<1>3. ASSUME NEW who \in Identities, NEW c \in Convs, CallerStep(who, c)
      PROVE  (ConvCopies /\ WorkingCopies /\ ScopeCopies)'
  <2>1. CASE OpenRefused(who, c)
    BY <1>1, <2>1, UntouchedCopies DEF OpenRefused, claimVars, rowVars
  <2>2. CASE ClaimHalfDone(who, c)
    <3>1. owner' = [owner EXCEPT ![c] = who] /\ CacheConversation(c, stored[c], who)
      BY <1>1, <2>2, InsertClaimKind, ReadsAreStored DEF ClaimHalfDone, ClaimsInv, ConvCopies, CachedRows
    <3>2. stored' = stored /\ owner'[c] = who /\ \A x \in Convs : x # c => owner'[x] = owner[x]
      BY <2>2, <3>1 DEF ClaimHalfDone, TypeOK, rowVars
    <3>3. ConvCopies'
      BY <1>1, <3>1, <3>2, CacheKeepsCopies
    <3> QED BY <1>1, <2>2, <3>2, <3>3, UntouchedCopies DEF ClaimHalfDone
  <2>3. CASE ResumeConversation(who, c)
    BY <1>1, <2>3, LoadKeepsCopies, UntouchedCopies DEF ResumeConversation, claimVars, rowVars
  <2> QED BY <1>3, <2>1, <2>2, <2>3 DEF CallerStep
<1>4. CASE EvictionStep
  <2>1. ASSUME NEW c \in Convs, EvictConversation(c) PROVE (ConvCopies /\ WorkingCopies /\ ScopeCopies)'
    BY <1>1, <2>1, ForgetKeepsCopies, UntouchedCopies DEF EvictConversation, claimVars, rowVars
  <2>2. ASSUME NEW c \in Convs, EvictWorking(c) PROVE (ConvCopies /\ WorkingCopies /\ ScopeCopies)'
    BY <1>1, <2>2, DropKeepsCopies, UntouchedCopies DEF EvictWorking, claimVars, rowVars
  <2>3. ASSUME NEW s \in Scopes, EvictScope(s) PROVE (ConvCopies /\ WorkingCopies /\ ScopeCopies)'
    BY <1>1, <2>3, ForgetScopesKeepsCopies, UntouchedCopies DEF EvictScope, claimVars, rowVars
  <2>4. ASSUME NEW s, EvictStack(s) PROVE (ConvCopies /\ WorkingCopies /\ ScopeCopies)'
    BY <1>1, <2>4, UntouchedCopies DEF EvictStack, claimVars, rowVars
  <2>5. Evictable \subseteq Scopes
    BY ConstantsAssumption
  <2> QED BY <1>4, <2>1, <2>2, <2>3, <2>4, <2>5 DEF EvictionStep
<1>5. CASE Restart
  BY <1>5 DEF Restart, ConvCopies, WorkingCopies, ScopeCopies
<1>6. CASE (\E e \in erasures : PruneErasureLog(e.seq)) \/ LoseStateRow \/ UNCHANGED vars
  BY <1>1, <1>6, UntouchedCopies DEF PruneErasureLog, LoseStateRow, vars, claimVars, rowVars
<1> QED
  BY <1>1, <1>3, <1>4, <1>5, <1>6, TurnStepCopies, DeletionCopies DEF Next, ClaimsInv

-----------------------------------------------------------------------------
(* Every turn writes as the owner of its claim. *)

CallerHolds(t) ==
  /\ turn[t].claim.owner = turn[t].who
  /\ ~NamesAnotherAccount(turn[t].claim.conv, turn[t].who)
  /\ turn[t].phase \in {"preparing", "running"} => turn[t].scope \in MemoryScopes(t)

LogHasNoLater(t) ==
  LET claim == turn[t].claim IN
  turn[t].epoch = epoch[claim.conv] /\ claim.seq # -1 =>
     \A e \in erasures : e.conv = claim.conv => e.seq <= claim.seq

LEMMA CallerParts ==
  ASSUME NEW t \in Turns
  PROVE  TurnIsItsCallers(t) <=> CallerHolds(t) /\ LogHasNoLater(t)
  BY DEF TurnIsItsCallers, CallerHolds, LogHasNoLater

\* Only the turn of the step changes, and it keeps its caller or is admitted.
LEMMA TurnStepCallers ==
  ASSUME TypeOK, OwnersAgree, NEW t \in Turns, TurnStep(t), NEW u \in Turns, InFlight(u)',
         InFlight(u) => CallerHolds(u)
  PROVE  CallerHolds(u)'
<1>1. CASE u # t
  <2>1. turn'[u] = turn[u]
    BY <1>1 DEF TurnStep, OpenTurn, OpenAndClaim, StartTurn, StartRefused, ReadMemory, RememberTurn,
                OutOfSteps, RecordTurn, RecordRefused, RecordFails, TurnFails, Admit, TypeOK
  <2> QED BY <2>1 DEF InFlight, CallerHolds, MemoryScopes, NamesAnotherAccount, IsAccountConversation
<1>2. CASE u = t
  <2>1. ASSUME NEW who \in Identities, NEW c \in Convs, OpenTurn(t, who, c) PROVE CallerHolds(t)'
    <3>1. turn'[t] = [phase |-> "admitted", who |-> who, scope |-> AnyConv,
                      claim |-> ConversationClaim(c), epoch |-> epoch[c]]
      BY <2>1 DEF OpenTurn, Admit, TypeOK
    <3>2. owner[c] = who /\ ~NamesAnotherAccount(c, who)
      BY <2>1 DEF OpenTurn
    <3> QED BY <3>1, <3>2 DEF CallerHolds, ConversationClaim, ClaimRead, NamesAnotherAccount,
                              IsAccountConversation
  <2>2. ASSUME NEW who \in Identities, NEW c \in Convs, OpenAndClaim(t, who, c) PROVE CallerHolds(t)'
    <3>1. turn'[t] = [phase |-> "admitted", who |-> who, scope |-> AnyConv,
                      claim |-> ClaimRead(c, owner'[c], claimId'[c]), epoch |-> epoch'[c]]
      BY <2>2 DEF OpenAndClaim, Admit, TypeOK
    <3>2. owner' = [owner EXCEPT ![c] = who] /\ ~NamesAnotherAccount(c, who)
      BY <2>2, InsertClaimKind DEF OpenAndClaim
    <3>3. owner'[c] = who
      BY <3>2 DEF TypeOK
    <3> QED BY <3>1, <3>2, <3>3 DEF CallerHolds, ClaimRead, NamesAnotherAccount, IsAccountConversation
  <2>3. ASSUME NEW scope \in MemoryScopes(t), StartTurn(t, scope) PROVE CallerHolds(t)'
    <3>1. turn'[t] = [turn[t] EXCEPT !.phase = "preparing", !.scope = scope] /\ InFlight(t)
      BY <2>3 DEF StartTurn, InFlight, TypeOK, TurnRecords
    <3> QED BY <1>2, <2>3, <3>1
            DEF CallerHolds, MemoryScopes, NamesAnotherAccount, IsAccountConversation, TypeOK, TurnRecords
  <2>4. CASE StartRefused(t) \/ RememberTurn(t) \/ OutOfSteps(t)
    <3>1. turn'[t] = [turn[t] EXCEPT !.phase = "replied"] /\ InFlight(t)
      BY <2>4 DEF StartRefused, RememberTurn, OutOfSteps, InFlight, TypeOK
    <3> QED BY <1>2, <3>1
            DEF CallerHolds, NamesAnotherAccount, IsAccountConversation, TypeOK, TurnRecords
  <2>5. CASE ReadMemory(t)
    <3>1. turn'[t] = [turn[t] EXCEPT !.phase = "running"] /\ InFlight(t) /\ turn[t].phase = "preparing"
      BY <2>5 DEF ReadMemory, InFlight, TypeOK
    <3> QED BY <1>2, <3>1
            DEF CallerHolds, MemoryScopes, NamesAnotherAccount, IsAccountConversation, TypeOK, TurnRecords
  <2>6. ~(RecordTurn(t) \/ RecordRefused(t) \/ RecordFails(t) \/ TurnFails(t))
    BY <1>2 DEF RecordTurn, RecordRefused, RecordFails, TurnFails, InFlight, IdleTurn, TypeOK
  <2> QED BY <1>2, <2>1, <2>2, <2>3, <2>4, <2>5, <2>6 DEF TurnStep
<1> QED BY <1>1, <1>2

\* A step of no turn leaves the turns alone or ends them all.
LEMMA OtherStepTurns ==
  ASSUME [Next]_vars, \A t \in Turns : ~TurnStep(t)
  PROVE  turn' = turn \/ turn' = [t \in Turns |-> IdleTurn]
  BY DEF Next, CallerStep, OpenRefused, ClaimHalfDone, ResumeConversation, DeletionStep, EraseOwner,
         EraseOwnerOfNothing, EraseFails, PruneErasureLog, EvictionStep, EvictConversation, EvictWorking,
         EvictScope, EvictStack, Restart, LoseStateRow, vars

LEMMA CallersStep ==
  ASSUME TypeOK, OwnersAgree, [Next]_vars, NEW u \in Turns, InFlight(u)',
         InFlight(u) => CallerHolds(u)
  PROVE  CallerHolds(u)'
<1>1. CASE \E t \in Turns : TurnStep(t)
  BY <1>1, TurnStepCallers
<1>2. CASE turn' = turn
  BY <1>2 DEF InFlight, CallerHolds, MemoryScopes, NamesAnotherAccount, IsAccountConversation
<1>3. CASE turn' = [t \in Turns |-> IdleTurn]
  BY <1>3 DEF InFlight, IdleTurn
<1> QED BY <1>1, <1>2, <1>3, OtherStepTurns

\* While no claim and no erasure comes between, nothing later is logged.
LEMMA LogStaysEarlier ==
  ASSUME TypeOK, TypeOK', ClaimsInv, StepKind, NEW t \in Turns, InFlight(t)',
         InFlight(t) => LogHasNoLater(t)
  PROVE  LogHasNoLater(t)'
<1> DEFINE claim == turn[t].claim
<1> DEFINE c == claim.conv
<1>1. c \in Convs /\ turn[t].epoch \in Nat /\ epoch[c] \in Nat
  BY TurnTypes DEF TypeOK, TurnRecords
<1>2. ASSUME KeptOrEnded(t)
      PROVE  /\ turn'[t].claim = claim /\ turn'[t].epoch = turn[t].epoch
             /\ turn[t].epoch <= epoch[c] /\ LogHasNoLater(t)
  BY <1>2 DEF KeptOrEnded, ClaimsInv, TurnIsAccountedFor
<1>3. ASSUME NEW x \in Convs, Admitted(t, x), UNCHANGED logVars PROVE LogHasNoLater(t)'
  BY <1>3 DEF Admitted, ClaimRead, LogHasNoLater, ClaimsInv, StateRowIsAhead, logVars
<1>4. ASSUME KeptOrEnded(t), erasures' \subseteq erasures, epoch'[c] = epoch[c] \/ epoch'[c] = epoch[c] + 1
      PROVE  LogHasNoLater(t)'
  <2>1. CASE epoch'[c] = epoch[c]
    BY <1>2, <1>4, <2>1 DEF LogHasNoLater
  <2>2. CASE epoch'[c] = epoch[c] + 1
    BY <1>1, <1>2, <1>4, <2>2 DEF LogHasNoLater
  <2> QED BY <1>4, <2>1, <2>2
<1>5. ASSUME NEW x \in Convs, QuietStep(x) PROVE LogHasNoLater(t)'
  BY <1>3, <1>4, <1>5 DEF QuietStep, TurnsAdmitted, claimVars, logVars
<1>6. ASSUME NEW x \in Convs, NEW who \in Subjects, ClaimedStep(x, who) PROVE LogHasNoLater(t)'
  <2>1. epoch'[c] = epoch[c] \/ epoch'[c] = epoch[c] + 1
    BY <1>1, <1>6 DEF ClaimedStep, TypeOK
  <2> QED BY <1>3, <1>4, <1>6, <2>1 DEF ClaimedStep, TurnsAdmitted, logVars
<1>7. ASSUME NEW through \in Nat, PrunedStep(through) PROVE LogHasNoLater(t)'
  BY <1>4, <1>7 DEF PrunedStep, TurnsKept, Unpruned, claimVars
<1>8. ASSUME NEW s \in Subjects, NEW found, NEW through, EraseOwner(s, found, through)
      PROVE  LogHasNoLater(t)'
  <2>1. KeptOrEnded(t)
    BY <1>8 DEF EraseOwner, KeptOrEnded, InFlight
  <2>2. CASE c \in ConversationIdsOf(s)
    <3>1. epoch'[c] = epoch[c] + 1
      BY <1>1, <1>8, <2>2 DEF EraseOwner
    <3> QED BY <1>1, <1>2, <2>1, <3>1 DEF LogHasNoLater
  <2>3. CASE c \notin ConversationIdsOf(s)
    <3>1. epoch'[c] = epoch[c]
      BY <1>1, <1>8, <2>3 DEF EraseOwner
    <3>2. \A e \in erasures' : e.conv = c => e \in erasures
      BY <1>8, <2>3 DEF EraseOwner, Unpruned
    <3> QED BY <1>2, <2>1, <3>1, <3>2 DEF LogHasNoLater
  <2> QED BY <2>2, <2>3
<1>9. ~Restart
  BY DEF Restart, InFlight, IdleTurn
<1>10. CASE LoseStateRow
  BY <1>4, <1>10 DEF LoseStateRow, KeptOrEnded, InFlight, claimVars
<1> QED BY <1>5, <1>6, <1>7, <1>8, <1>9, <1>10 DEF StepKind, ErasedStep

-----------------------------------------------------------------------------
(* What is told in the store, the scopes and the stacks. *)

NoNewTags ==
  /\ \A c \in Convs : stored'[c] \subseteq stored[c]
  /\ \A s \in Scopes : memory'[s] \subseteq memory[s] /\ stacks'[s] \subseteq stacks[s]

OwnershipKept == UNCHANGED <<owner, epoch, erasedBefore>>

\* who takes c.
Takes(c, who) ==
  /\ owner[c] = Nobody
  /\ ~NamesAnotherAccount(c, who)
  /\ owner' = [owner EXCEPT ![c] = who]
  /\ epoch' = [epoch EXCEPT ![c] = @ + 1]
  /\ erasedBefore' = erasedBefore

\* The steps that add a tag.
TagStep(t) ==
  \/ \E scope \in MemoryScopes(t) : StartTurn(t, scope)
  \/ Stands(turn[t].claim) /\ RememberTurn(t)
  \/ RecordTurn(t)

TagKind ==
  \/ OwnershipKept /\ NoNewTags
  \/ \E c \in Convs, who \in Subjects : Takes(c, who) /\ NoNewTags
  \/ ErasedStep
  \/ \E t \in Turns : TagStep(t)

LEMMA ClaimTakes ==
  ASSUME TypeOK, OwnersAgree, NEW who \in Identities, NEW c \in Convs,
         (\E t \in Turns : OpenAndClaim(t, who, c)) \/ ClaimHalfDone(who, c)
  PROVE  TagKind
<1>1. /\ who \in Subjects /\ who # Nobody /\ owner[c] = Nobody /\ InsertClaim(c, who)
      /\ ~NamesAnotherAccount(c, who)
      /\ UNCHANGED <<stored, memory, stacks, erasedBefore>>
  BY DEF OpenAndClaim, ClaimHalfDone, Identities, rowVars
<1>2. Takes(c, who)
  BY <1>1, InsertClaimKind DEF Takes
<1> QED BY <1>1, <1>2 DEF TagKind, NoNewTags

LEMMA TagKinds ==
  ASSUME TypeOK, OwnersAgree, [Next]_vars
  PROVE  TagKind
<1>1. ASSUME OwnershipKept, stored' = stored, memory' = memory, stacks' = stacks PROVE TagKind
  BY <1>1 DEF TagKind, NoNewTags
<1>2. ASSUME NEW t \in Turns, TurnStep(t) PROVE TagKind
  <2>1. ASSUME NEW who \in Identities, NEW c \in Convs, OpenTurn(t, who, c) PROVE TagKind
    BY <1>1, <2>1 DEF OpenTurn, OwnershipKept, claimVars, rowVars
  <2>2. CASE \/ StartRefused(t) \/ ReadMemory(t) \/ OutOfSteps(t)
             \/ RecordRefused(t) \/ RecordFails(t) \/ TurnFails(t)
    BY <1>1, <2>2 DEF StartRefused, ReadMemory, OutOfSteps, RecordRefused, RecordFails, TurnFails,
                      OwnershipKept, claimVars, rowVars
  <2>3. CASE RememberTurn(t) /\ ~Stands(turn[t].claim)
    BY <1>1, <2>3 DEF RememberTurn, OwnershipKept, claimVars, rowVars
  <2> QED BY <1>2, <2>1, <2>2, <2>3, ClaimTakes DEF TurnStep, TagKind, TagStep
<1>3. ASSUME NEW who \in Identities, NEW c \in Convs, CallerStep(who, c) PROVE TagKind
  <2>1. CASE OpenRefused(who, c) \/ ResumeConversation(who, c)
    BY <1>1, <2>1 DEF OpenRefused, ResumeConversation, OwnershipKept, claimVars, rowVars
  <2> QED BY <1>3, <2>1, ClaimTakes DEF CallerStep
<1>4. ASSUME NEW s \in Subjects, DeletionStep(s) PROVE TagKind
  <2>1. ASSUME NEW through, EraseOwnerOfNothing(s, through) PROVE TagKind
    <3>1. /\ OwnershipKept /\ stored' = stored
          /\ memory' = [m \in Scopes |-> IF m \in {s} THEN {} ELSE memory[m]]
          /\ stacks' = [m \in Scopes |-> IF m \in {s} THEN {} ELSE stacks[m]]
      BY <2>1 DEF EraseOwnerOfNothing, EraseScopedMemory, DropStacks, OwnershipKept, claimVars, rowVars
    <3> QED BY <3>1 DEF TagKind, NoNewTags
  <2>2. ASSUME NEW found, EraseFails(s, found) PROVE TagKind
    <3>1. /\ OwnershipKept /\ stored' = stored /\ memory' = memory
          /\ stacks' = [m \in Scopes |-> IF m \in {s} \cup ConversationIdsOf(s) THEN {} ELSE stacks[m]]
      BY <2>2 DEF EraseFails, DropCopies, DropStacks, OwnershipKept, claimVars, rowVars
    <3> QED BY <3>1 DEF TagKind, NoNewTags
  <2> QED BY <1>4, <2>1, <2>2 DEF DeletionStep, TagKind, ErasedStep
<1>5. CASE EvictionStep
  <2>1. CASE stacks' = stacks
    BY <1>1, <1>5, <2>1 DEF EvictionStep, EvictConversation, EvictWorking, EvictScope, EvictStack,
                            OwnershipKept, claimVars, rowVars
  <2>2. ASSUME NEW s, EvictStack(s) PROVE TagKind
    BY <2>2 DEF EvictStack, DropStacks, TagKind, NoNewTags, OwnershipKept, claimVars, rowVars
  <2> QED BY <1>5, <2>1, <2>2 DEF EvictionStep, EvictConversation, EvictWorking, EvictScope
<1>6. CASE Restart
  BY <1>6 DEF Restart, TagKind, NoNewTags, OwnershipKept, claimVars, rowVars
<1>7. CASE (\E e \in erasures : PruneErasureLog(e.seq)) \/ LoseStateRow \/ UNCHANGED vars
  BY <1>1, <1>7 DEF PruneErasureLog, LoseStateRow, OwnershipKept, vars, claimVars, rowVars
<1> QED BY <1>2, <1>3, <1>4, <1>5, <1>6, <1>7 DEF Next

\* A turn whose claim stands writes as the present owner, since the last erasure.
LEMMA WrittenTagIsLive ==
  ASSUME TypeOK, ClaimsInv, TagsInv, NEW t \in Turns, InFlight(t), CallerHolds(t),
         Stands(turn[t].claim)
  PROVE  /\ TagOf(t).conv = turn[t].claim.conv /\ TagOf(t).who = turn[t].who
         /\ TagOf(t).epoch = epoch[turn[t].claim.conv]
         /\ owner[turn[t].claim.conv] = turn[t].who
         /\ IsLive(TagOf(t))
<1> DEFINE c == turn[t].claim.conv
<1>1. c \in Convs /\ turn[t].epoch \in Nat /\ epoch[c] \in Nat /\ erasedBefore[c] \in Nat
  BY TurnTypes DEF TypeOK, TurnRecords
<1>2. turn[t].epoch = epoch[c]
  BY AccountedForIsCurrent DEF StandingClaimsAreCurrent
<1>3. owner[c] = turn[t].who
  BY DEF Stands, CallerHolds
<1>4. erasedBefore[c] <= epoch[c]
  BY <1>1 DEF TagsInv
<1> QED BY <1>1, <1>2, <1>3, <1>4 DEF TagOf, IsLive, Erased

\* What a tag says stays true of it while its conversation is not touched.
LEMMA LiveStays ==
  ASSUME NEW tag, IsLive(tag), owner'[tag.conv] = owner[tag.conv],
         erasedBefore'[tag.conv] = erasedBefore[tag.conv]
  PROVE  IsLive(tag)'
  BY DEF IsLive, Erased

LEMMA KeptTags ==
  ASSUME TypeOK, TagsInv, OwnershipKept, NoNewTags
  PROVE  TagsInv'
<1>1. ASSUME NEW tag, IsLive(tag) PROVE IsLive(tag)'
  BY <1>1, LiveStays DEF OwnershipKept
<1> QED BY <1>1 DEF TagsInv, OwnershipKept, NoNewTags, Scopes

LEMMA TakenTags ==
  ASSUME TypeOK, TagsInv, NEW c \in Convs, NEW who \in Subjects, Takes(c, who), NoNewTags
  PROVE  TagsInv'
<1>1. /\ owner'[c] = who /\ \A x \in Convs : x # c => owner'[x] = owner[x]
      /\ \A x \in Convs : epoch'[x] >= epoch[x] /\ epoch'[x] \in Nat
      /\ erasedBefore' = erasedBefore /\ owner[c] = Nobody
  BY DEF Takes, TypeOK
<1>2. ASSUME NEW tag \in Tags, IsLive(tag) PROVE IsLive(tag)'
  BY <1>1, <1>2 DEF IsLive, Erased, Tags
<1>3. \A x \in Convs : erasedBefore'[x] <= epoch'[x]
  <2>1. ASSUME NEW x \in Convs PROVE erasedBefore'[x] <= epoch'[x]
    <3>1. erasedBefore[x] \in Nat /\ epoch[x] \in Nat /\ erasedBefore[x] <= epoch[x]
      BY DEF TypeOK, TagsInv
    <3> QED BY <1>1, <3>1
  <2> QED BY <2>1
<1>4. ASSUME NEW x \in Convs, NEW tag \in stored'[x] \cup memory'[x] \cup stacks'[x]
      PROVE  tag.conv = x /\ IsLive(tag)'
  <2>1. tag \in stored[x] \cup memory[x] \cup stacks[x]
    BY <1>4 DEF NoNewTags, Scopes
  <2>2. tag \in Tags
    BY <2>1 DEF TypeOK, Scopes
  <2> QED BY <1>2, <2>1, <2>2 DEF TagsInv
<1>5. ASSUME NEW s \in Subjects, NEW tag \in memory'[s] \cup stacks'[s]
      PROVE  owner'[tag.conv] = s /\ IsLive(tag)'
  <2>1. tag \in memory[s] \cup stacks[s]
    BY <1>5 DEF NoNewTags, Scopes
  <2>2. tag \in Tags /\ tag.conv \in Convs
    BY <2>1 DEF TypeOK, Scopes, Tags
  <2>3. owner[tag.conv] = s /\ IsLive(tag) /\ s # Nobody
    BY <2>1, ConstantsAssumption DEF TagsInv
  <2> QED BY <1>1, <1>2, <2>2, <2>3
<1>6. \A s \in Subjects : \A tag \in memory'[s] : tag.who = s
  BY DEF TagsInv, NoNewTags, Scopes
<1> QED BY <1>3, <1>4, <1>5, <1>6 DEF TagsInv

LEMMA ErasedTags ==
  ASSUME TypeOK, OwnersAgree, TagsInv, NEW s \in Subjects, NEW found, NEW through,
         EraseOwner(s, found, through)
  PROVE  TagsInv'
<1> DEFINE ids == ConversationIdsOf(s)
<1>1. ids = {c \in Convs : owner[c] = s}
  BY IdsAreClaimed
<1>2. /\ owner' = [c \in Convs |-> IF owner[c] = s THEN Nobody ELSE owner[c]]
      /\ stored' = [c \in Convs |-> IF c \in ids THEN {} ELSE stored[c]]
      /\ memory' = [m \in Scopes |-> IF m \in {s} \cup ids THEN {} ELSE memory[m]]
      /\ stacks' = [m \in Scopes |-> IF m \in {s} \cup ids THEN {} ELSE stacks[m]]
      /\ epoch' = [c \in Convs |-> IF c \in ids THEN epoch[c] + 1 ELSE epoch[c]]
      /\ erasedBefore' = [c \in Convs |-> IF c \in ids THEN epoch[c] + 1 ELSE erasedBefore[c]]
  BY DEF EraseOwner, EraseScopedMemory, DropCopies, DropStacks
<1>3. ASSUME NEW tag, IsLive(tag), tag.conv \in Convs \ ids
      PROVE  IsLive(tag)' /\ owner'[tag.conv] = owner[tag.conv]
  <2>1. owner'[tag.conv] = owner[tag.conv] /\ erasedBefore'[tag.conv] = erasedBefore[tag.conv]
    BY <1>1, <1>2, <1>3
  <2> QED BY <1>3, <2>1, LiveStays
<1>4. \A c \in Convs : erasedBefore'[c] <= epoch'[c]
  BY <1>2 DEF TagsInv, TypeOK
<1>5. ASSUME NEW x \in Convs, NEW tag \in stored'[x] \cup memory'[x] \cup stacks'[x]
      PROVE  tag.conv = x /\ IsLive(tag)'
  <2>1. x \notin ids /\ tag \in stored[x] \cup memory[x] \cup stacks[x]
    BY <1>2, <1>5 DEF Scopes
  <2>2. tag.conv = x /\ IsLive(tag)
    BY <2>1 DEF TagsInv
  <2> QED BY <1>3, <2>1, <2>2
<1>6. ASSUME NEW m \in Subjects, NEW tag \in memory'[m] \cup stacks'[m]
      PROVE  owner'[tag.conv] = m /\ IsLive(tag)'
  <2>1. m # s /\ tag \in memory[m] \cup stacks[m]
    BY <1>2, <1>6 DEF Scopes
  <2>2. tag.conv \in Convs /\ owner[tag.conv] = m /\ IsLive(tag)
    BY <2>1 DEF TagsInv, TypeOK, Scopes, Tags
  <2> QED BY <1>1, <1>3, <2>1, <2>2
<1>7. \A m \in Subjects : \A tag \in memory'[m] : tag.who = m
  BY <1>2 DEF TagsInv, Scopes
<1> QED BY <1>4, <1>5, <1>6, <1>7 DEF TagsInv

\* An account's scope belongs to the caller, a conversation's to the claim.
LEMMA ScopeOfTurn ==
  ASSUME TypeOK, NEW t \in Turns, NEW s \in MemoryScopes(t)
  PROVE  /\ s \in Scopes
         /\ s \in Subjects => s = turn[t].who
         /\ s \in Convs => s = turn[t].claim.conv
  BY TurnTypes, ConstantsAssumption DEF MemoryScopes, Scopes, TypeOK, TurnRecords, Identities

LEMMA StartedTags ==
  ASSUME TypeOK, ClaimsInv, CopiesInv, TagsInv, NEW t \in Turns, CallerHolds(t),
         NEW scope \in MemoryScopes(t), StartTurn(t, scope)
  PROVE  TagsInv'
<1> DEFINE c == turn[t].claim.conv
<1>1. c \in Convs /\ InFlight(t) /\ Stands(turn[t].claim)
  BY TurnTypes DEF StartTurn, InFlight
<1>2. ConversationHistory(c) = stored[c]
  BY <1>1, ReadsAreStored, CopiesParts DEF Scopes
<1>3. /\ UNCHANGED <<owner, epoch, erasedBefore, stored, memory>>
      /\ stacks' = [stacks EXCEPT ![scope] = @ \cup stored[c] \cup {TagOf(t)}]
  BY <1>2 DEF StartTurn, claimVars, rowVars
<1>4. \A tag \in stored[c] \cup {TagOf(t)} :
        tag.conv = c /\ owner[tag.conv] = turn[t].who /\ IsLive(tag)
  BY <1>1, WrittenTagIsLive DEF TagsInv
<1>5. ASSUME NEW tag, IsLive(tag) PROVE IsLive(tag)'
  BY <1>3, <1>5, LiveStays
<1>6. ASSUME NEW s \in Scopes, NEW tag \in stacks'[s]
      PROVE  tag \in stacks[s] \/ (s = scope /\ tag \in stored[c] \cup {TagOf(t)})
  BY <1>3, <1>6 DEF TypeOK
<1>7. ASSUME NEW x \in Convs, NEW tag \in stored'[x] \cup memory'[x] \cup stacks'[x]
      PROVE  tag.conv = x /\ IsLive(tag)'
  <2>1. CASE tag \in stored[x] \cup memory[x] \cup stacks[x]
    BY <1>5, <2>1 DEF TagsInv
  <2>2. CASE x = scope /\ tag \in stored[c] \cup {TagOf(t)}
    BY <1>4, <1>5, <2>2, ScopeOfTurn
  <2> QED BY <1>3, <1>6, <1>7, <2>1, <2>2 DEF Scopes
<1>8. ASSUME NEW s \in Subjects, NEW tag \in memory'[s] \cup stacks'[s]
      PROVE  owner'[tag.conv] = s /\ IsLive(tag)'
  <2>1. CASE tag \in memory[s] \cup stacks[s]
    BY <1>3, <1>5, <2>1 DEF TagsInv
  <2>2. CASE s = scope /\ tag \in stored[c] \cup {TagOf(t)}
    BY <1>3, <1>4, <1>5, <2>2, ScopeOfTurn
  <2> QED BY <1>3, <1>6, <1>8, <2>1, <2>2 DEF Scopes
<1> QED BY <1>3, <1>7, <1>8 DEF TagsInv

LEMMA RememberedTags ==
  ASSUME TypeOK, ClaimsInv, TagsInv, NEW t \in Turns, CallerHolds(t),
         RememberTurn(t), Stands(turn[t].claim)
  PROVE  TagsInv'
<1> DEFINE c == turn[t].claim.conv
<1> DEFINE scope == turn[t].scope
<1>1. c \in Convs /\ InFlight(t) /\ scope \in MemoryScopes(t) /\ scope \in Scopes
  BY TurnTypes DEF RememberTurn, InFlight, CallerHolds
<1>2. PICK kept \in Kept(memory[scope]) : memory' = [memory EXCEPT ![scope] = kept \cup {TagOf(t)}]
  BY DEF RememberTurn
<1>3. UNCHANGED <<owner, epoch, erasedBefore, stored, stacks>>
  BY DEF RememberTurn, claimVars, rowVars
<1>4. /\ TagOf(t).conv = c /\ TagOf(t).who = turn[t].who /\ owner[c] = turn[t].who
      /\ IsLive(TagOf(t))
  BY <1>1, WrittenTagIsLive
<1>5. ASSUME NEW tag, IsLive(tag) PROVE IsLive(tag)'
  BY <1>3, <1>5, LiveStays
<1>6. ASSUME NEW s \in Scopes, NEW tag \in memory'[s]
      PROVE  tag \in memory[s] \/ (s = scope /\ tag = TagOf(t))
  BY <1>1, <1>2, <1>6, KeptIsPart DEF TypeOK
<1>7. ASSUME NEW x \in Convs, NEW tag \in stored'[x] \cup memory'[x] \cup stacks'[x]
      PROVE  tag.conv = x /\ IsLive(tag)'
  <2>1. CASE tag \in stored[x] \cup memory[x] \cup stacks[x]
    BY <1>5, <2>1 DEF TagsInv
  <2>2. CASE x = scope /\ tag = TagOf(t)
    BY <1>1, <1>4, <1>5, <2>2, ScopeOfTurn
  <2> QED BY <1>3, <1>6, <1>7, <2>1, <2>2 DEF Scopes
<1>8. ASSUME NEW s \in Subjects, NEW tag \in memory'[s] \cup stacks'[s]
      PROVE  owner'[tag.conv] = s /\ IsLive(tag)'
  <2>1. CASE tag \in memory[s] \cup stacks[s]
    BY <1>3, <1>5, <2>1 DEF TagsInv
  <2>2. CASE s = scope /\ tag = TagOf(t)
    BY <1>1, <1>3, <1>4, <1>5, <2>2, ScopeOfTurn
  <2> QED BY <1>3, <1>6, <1>8, <2>1, <2>2 DEF Scopes
<1>9. ASSUME NEW s \in Subjects, NEW tag \in memory'[s] PROVE tag.who = s
  BY <1>1, <1>4, <1>6, <1>9, ScopeOfTurn DEF TagsInv, Scopes
<1> QED BY <1>3, <1>7, <1>8, <1>9 DEF TagsInv

LEMMA RecordedTags ==
  ASSUME TypeOK, ClaimsInv, CopiesInv, TagsInv, NEW t \in Turns, CallerHolds(t), RecordTurn(t)
  PROVE  TagsInv'
<1> DEFINE c == turn[t].claim.conv
<1>1. c \in Convs /\ InFlight(t) /\ Stands(turn[t].claim)
  BY TurnTypes DEF RecordTurn, InFlight
<1>2. PICK kept \in Kept(ConversationHistory(c)) : stored' = [stored EXCEPT ![c] = kept \cup {TagOf(t)}]
  BY DEF RecordTurn
<1>3. UNCHANGED <<owner, epoch, erasedBefore, memory, stacks>>
  BY DEF RecordTurn, claimVars
<1>4. TagOf(t).conv = c /\ IsLive(TagOf(t))
  BY <1>1, WrittenTagIsLive
<1>5. ASSUME NEW tag, IsLive(tag) PROVE IsLive(tag)'
  BY <1>3, <1>5, LiveStays
<1>6. ConversationHistory(c) = stored[c]
  BY <1>1, ReadsAreStored, CopiesParts DEF Scopes
<1>7. ASSUME NEW x \in Convs, NEW tag \in stored'[x]
      PROVE  tag \in stored[x] \/ (x = c /\ tag = TagOf(t))
  BY <1>1, <1>2, <1>6, <1>7, KeptIsPart DEF TypeOK
<1>8. ASSUME NEW x \in Convs, NEW tag \in stored'[x] \cup memory'[x] \cup stacks'[x]
      PROVE  tag.conv = x /\ IsLive(tag)'
  BY <1>3, <1>4, <1>5, <1>7, <1>8 DEF TagsInv
<1> QED BY <1>3, <1>5, <1>8 DEF TagsInv

LEMMA TagsStep ==
  ASSUME TypeOK, ClaimsInv, CopiesInv, TagsInv, \A t \in Turns : InFlight(t) => CallerHolds(t),
         [Next]_vars
  PROVE  TagsInv'
<1>1. OwnersAgree
  BY DEF ClaimsInv
<1>2. TagKind
  BY <1>1, TagKinds
<1>3. ASSUME NEW t \in Turns, TagStep(t) PROVE TagsInv'
  <2>1. InFlight(t)
    BY <1>3 DEF TagStep, StartTurn, RememberTurn, RecordTurn, InFlight
  <2> QED BY <1>3, <2>1, StartedTags, RememberedTags, RecordedTags DEF TagStep
<1> QED BY <1>1, <1>2, <1>3, KeptTags, TakenTags, ErasedTags DEF TagKind, ErasedStep

LEMMA AccountConversationsStep ==
  ASSUME TypeOK, ClaimsInv, CopiesInv, AccountConversationsInv,
         \A t \in Turns : InFlight(t) => CallerHolds(t), [Next]_vars
  PROVE  AccountConversationsInv'
<1> SUFFICES ASSUME NEW c \in Convs, IsAccountConversation(c)
             PROVE  owner'[c] \in {Nobody, NamedFor[c]} /\ \A tag \in stored'[c] : tag.who = NamedFor[c]
  BY DEF AccountConversationsInv, IsAccountConversation
<1>1. TagKind
  BY TagKinds DEF ClaimsInv
<1>2. owner[c] \in {Nobody, NamedFor[c]} /\ \A tag \in stored[c] : tag.who = NamedFor[c]
  BY DEF AccountConversationsInv
<1>3. CASE OwnershipKept /\ NoNewTags
  BY <1>2, <1>3 DEF OwnershipKept, NoNewTags
<1>4. ASSUME NEW x \in Convs, NEW who \in Subjects, Takes(x, who), NoNewTags
      PROVE  owner'[c] \in {Nobody, NamedFor[c]} /\ \A tag \in stored'[c] : tag.who = NamedFor[c]
  BY <1>2, <1>4 DEF Takes, NoNewTags, NamesAnotherAccount, TypeOK
<1>5. CASE ErasedStep
  BY <1>2, <1>5 DEF ErasedStep, EraseOwner
<1>6. ASSUME NEW t \in Turns, TagStep(t)
      PROVE  owner'[c] \in {Nobody, NamedFor[c]} /\ \A tag \in stored'[c] : tag.who = NamedFor[c]
  <2>1. owner' = owner
    BY <1>6 DEF TagStep, StartTurn, RememberTurn, RecordTurn, claimVars
  <2>2. CASE stored' = stored
    BY <1>2, <2>1, <2>2
  <2>3. CASE RecordTurn(t) /\ turn[t].claim.conv = c
    <3>1. TagOf(t).who = NamedFor[c]
      BY <2>3 DEF RecordTurn, InFlight, CallerHolds, NamesAnotherAccount, TagOf
    <3>2. ConversationHistory(c) = stored[c]
      BY ReadsAreStored, CopiesParts DEF Scopes
    <3>3. PICK kept \in Kept(stored[c]) : stored' = [stored EXCEPT ![c] = kept \cup {TagOf(t)}]
      BY <2>3, <3>2 DEF RecordTurn
    <3> QED BY <1>2, <2>1, <3>1, <3>3, KeptIsPart DEF TypeOK
  <2>4. CASE RecordTurn(t) /\ turn[t].claim.conv # c
    <3>1. stored'[c] = stored[c]
      BY <2>4 DEF RecordTurn, TypeOK
    <3> QED BY <1>2, <2>1, <3>1
  <2> QED BY <1>6, <2>2, <2>3, <2>4 DEF TagStep, StartTurn, RememberTurn, rowVars
<1> QED BY <1>1, <1>3, <1>4, <1>5, <1>6 DEF TagKind

-----------------------------------------------------------------------------
(* All together, and the theorems. *)

LEMMA HistoriesInit == Init => HistoriesInv
<1> SUFFICES ASSUME Init PROVE HistoriesInv
  OBVIOUS
<1>1. CopiesInv
  BY DEF Init, CopiesInv, CopiesMatchStore
<1>2. TagsInv
  BY DEF Init, TagsInv, Scopes
<1>3. \A t \in Turns : ~InFlight(t)
  BY DEF Init, InFlight, IdleTurn
<1>4. AccountConversationsInv
  BY DEF Init, AccountConversationsInv
<1> QED BY <1>1, <1>2, <1>3, <1>4 DEF HistoriesInv

LEMMA HistoriesStep ==
  ASSUME TypeOK, TypeOK', ClaimsInv, HistoriesInv, [Next]_vars
  PROVE  HistoriesInv'
<1>1. CopiesInv /\ TagsInv /\ AccountConversationsInv /\ OwnersAgree
  BY DEF HistoriesInv, ClaimsInv
<1>2. \A t \in Turns : InFlight(t) => CallerHolds(t) /\ LogHasNoLater(t)
  BY CallerParts DEF HistoriesInv
<1>3. CopiesInv'
  BY <1>1, CopiesStep
<1>4. TagsInv'
  BY <1>1, <1>2, TagsStep
<1>5. AccountConversationsInv'
  BY <1>1, <1>2, AccountConversationsStep
<1>6. ASSUME NEW t \in Turns, InFlight(t)' PROVE TurnIsItsCallers(t)'
  <2>1. CallerHolds(t)'
    BY <1>1, <1>2, <1>6, CallersStep
  <2>2. StepKind
    BY <1>1, NextKind
  <2>3. LogHasNoLater(t)'
    BY <1>2, <1>6, <2>2, LogStaysEarlier
  <2> QED BY <2>1, <2>3 DEF TurnIsItsCallers, CallerHolds, LogHasNoLater
<1> QED BY <1>3, <1>4, <1>5, <1>6 DEF HistoriesInv

\* What the store, its copies and the turns are to one another at every moment.
THEOREM HistoriesInvariant == Spec => [](TypeOK /\ ClaimsInv /\ HistoriesInv)
  BY TypeInit, TypeStep, ClaimsInit, ClaimsStep, HistoriesInit, HistoriesStep, PTL DEF Spec

\* Every copy of a conversation or of a memory is the stored one.
THEOREM CopiesAreStored == Spec => []CopiesMatchStore
<1>1. HistoriesInv => CopiesMatchStore
  BY DEF HistoriesInv, CopiesInv
<1> QED BY <1>1, HistoriesInvariant, PTL

\* Nothing said before an erasure is left anywhere.
THEOREM NothingErasedIsLeft == Spec => []NothingErasedRemains
<1>1. ASSUME TypeOK, HistoriesInv PROVE NothingErasedRemains
  <2>1. ConvCopies /\ WorkingCopies /\ ScopeCopies /\ TagsInv
    BY <1>1, CopiesParts DEF HistoriesInv
  <2>2. ASSUME NEW c \in Convs, NEW tag \in stored[c] \cup convCache[c] \cup conversations[c]
        PROVE  ~Erased(tag)
    <3>1. tag \in stored[c]
      BY <2>1, <2>2 DEF ConvCopies, WorkingCopies
    <3> QED BY <2>1, <3>1 DEF TagsInv, IsLive
  <2>3. ASSUME NEW s \in Scopes, NEW tag \in memory[s] \cup turnCache[s] \cup stacks[s]
        PROVE  ~Erased(tag)
    <3>1. tag \in memory[s] \cup stacks[s]
      BY <2>1, <2>3 DEF ScopeCopies
    <3> QED BY <2>1, <3>1 DEF TagsInv, IsLive, Scopes
  <2> QED BY <2>2, <2>3 DEF NothingErasedRemains
<1> QED BY <1>1, HistoriesInvariant, PTL

\* An account's memory is what that account said in conversations it owns.
THEOREM MemoryIsItsOwn == Spec => []AccountMemoryIsItsOwn
<1>1. HistoriesInv => AccountMemoryIsItsOwn
  BY DEF HistoriesInv, TagsInv, AccountMemoryIsItsOwn
<1> QED BY <1>1, HistoriesInvariant, PTL

\* Nobody else holds, continues or writes an account's own conversation.
THEOREM AccountConversationsAreTheirs == Spec => []AccountConversationIsItsAccounts
<1>1. HistoriesInv => AccountConversationIsItsAccounts
  BY DEF HistoriesInv, AccountConversationsInv, AccountConversationIsItsAccounts,
         TurnIsItsCallers, NamesAnotherAccount
<1> QED BY <1>1, HistoriesInvariant, PTL

\* No turn is refused for nothing.
THEOREM CurrentClaims == Spec => []CurrentClaimsStand
<1>1. ASSUME TypeOK, ClaimsInv, HistoriesInv PROVE CurrentClaimsStand
  <2> SUFFICES ASSUME NEW t \in Turns, InFlight(t), turn[t].epoch = epoch[turn[t].claim.conv],
                      turn[t].claim.owner # Nobody
                        \/ (stateRow /\ prunedThrough <= turn[t].claim.seq)
               PROVE  Stands(turn[t].claim)
    BY DEF CurrentClaimsStand
  <2> DEFINE claim == turn[t].claim
  <2>1. claim \in Claims /\ claim.seq \in Nat \cup {-1}
    BY <1>1, TurnTypes DEF Claims
  <2>2. TurnIsAccountedFor(t) /\ TurnIsItsCallers(t)
    BY <1>1 DEF ClaimsInv, HistoriesInv
  <2>3. owner[claim.conv] = claim.owner /\ claimId[claim.conv] = claim.id
    BY <2>2 DEF TurnIsAccountedFor
  <2>4. ASSUME claim.owner = Nobody, stateRow, prunedThrough <= claim.seq
        PROVE  ~IsAccountConversation(claim.conv) /\ erasureSeq >= claim.seq
               /\ \A e \in erasures : e.conv = claim.conv => e.seq <= claim.seq
    <3>1. claim.seq # -1
      BY <1>1, <2>4 DEF TypeOK
    <3>2. ~IsAccountConversation(claim.conv)
      BY <2>2, <2>4 DEF TurnIsItsCallers, NamesAnotherAccount, IsAccountConversation
    <3>3. erasureSeq >= claim.seq
      BY <1>1, <2>1, <2>2, <2>4 DEF TurnIsAccountedFor, TypeOK
    <3> QED BY <2>2, <3>1, <3>2, <3>3 DEF TurnIsItsCallers
  <2>5. CASE claim.owner # Nobody
    BY <2>3, <2>5 DEF Stands
  <2>6. CASE claim.owner = Nobody
    <3>1. erasureSeq = claim.seq \/ erasureSeq > claim.seq
      BY <1>1, <2>1, <2>4, <2>6 DEF TypeOK
    <3> QED BY <2>3, <2>4, <2>6, <3>1 DEF Stands
  <2> QED BY <2>5, <2>6
<1> QED BY <1>1, HistoriesInvariant, PTL

\* A logged or lost erasure refuses a claim made without an owner.
LEMMA KnownRefuses ==
  ASSUME TypeOK, StateRowIsAhead, NEW claim \in Claims, claim.owner = Nobody,
         ErasureIsKnown(claim.conv, claim.seq)
  PROVE  ~Stands(claim)
<1>1. claim.seq \in Nat \cup {-1} /\ claim.conv \in Convs /\ \A e \in erasures : e.seq \in Nat
  BY DEF Claims, TypeOK
<1> QED BY <1>1 DEF ErasureIsKnown, Stands, StateRowIsAhead, TypeOK

\* A claim that is refused stays refused.
LEMMA RefusedStep ==
  ASSUME TypeOK, TypeOK', ClaimsInv, ClaimsInv', [Next]_vars,
         NEW t \in Turns, InFlight(t), turn'[t].claim = turn[t].claim, ~Stands(turn[t].claim)
  PROVE  ~Stands(turn[t].claim)'
<1> DEFINE claim == turn[t].claim
<1> DEFINE c == claim.conv
<1>1. /\ claim \in Claims /\ c \in Convs /\ claim.seq \in Nat \cup {-1}
      /\ claim.id \in Nat /\ \A e \in erasures : e.seq \in Nat
  BY TurnTypes DEF Claims, TypeOK
<1>2. TurnIsAccountedFor(t) /\ StateRowIsAhead /\ OwnersAgree /\ StateRowIsAhead'
  BY DEF ClaimsInv
<1>3. claim.seq <= erasureSeqSeen /\ claim.id < nextClaimId
  BY <1>2 DEF TurnIsAccountedFor
<1>4. StepKind
  BY <1>2, NextKind
<1>5. ASSUME claim.owner = Nobody, ErasureIsKnown(c, claim.seq)' PROVE ~Stands(turn[t].claim)'
  <2>1. \A e \in erasures' : e.seq \in Nat
    BY DEF TypeOK
  <2>2. ErasureIsKnown(c, claim.seq)' =>
          \/ IsAccountConversation(c) \/ ~stateRow' \/ prunedThrough' > claim.seq
          \/ \E e \in erasures' : e.conv = c /\ e.seq > claim.seq
    BY DEF ErasureIsKnown, IsAccountConversation
  <2>3. Stands(turn[t].claim)' =>
          /\ stateRow' /\ ~IsAccountConversation(c)
          /\ \/ erasureSeq' = claim.seq
             \/ /\ prunedThrough' <= claim.seq
                /\ \A e \in erasures' : e.conv = c => e.seq <= claim.seq
    BY <1>5 DEF Stands, IsAccountConversation
  <2>4. stateRow' => prunedThrough' <= erasureSeq' /\ \A e \in erasures' : e.seq <= erasureSeq'
    BY <1>2 DEF StateRowIsAhead
  <2> QED BY <1>1, <1>5, <2>1, <2>2, <2>3, <2>4 DEF TypeOK
<1>6. ASSUME owner'[c] # claim.owner \/ claimId'[c] # claim.id PROVE ~Stands(turn[t].claim)'
  BY <1>6 DEF Stands
<1>7. CASE Restart
  <2>1. claim = NoClaim /\ claim.seq = 0 /\ claim.owner = Nobody
    BY <1>7 DEF Restart, IdleTurn, NoClaim
  <2>2. UNCHANGED claimVars /\ erasures' = erasures /\ stateRow'
    BY <1>7 DEF Restart
  <2>3. CASE stateRow
    <3>1. erasureSeq' = erasureSeq /\ prunedThrough' = prunedThrough
      BY <1>7, <2>3 DEF Restart
    <3> QED BY <2>2, <2>3, <3>1 DEF Stands, claimVars, IsAccountConversation
  <2>4. CASE ~stateRow
    <3>1. erasureSeq' \in RestoredSeqs(0) /\ prunedThrough' = erasureSeq'
      BY <1>7, <2>4 DEF Restart
    <3>2. PICK m \in {0} \cup {e.seq : e \in erasures} : m >= 0 /\ erasureSeq' = m + 1
      BY <3>1 DEF RestoredSeqs
    <3>3. erasureSeq' > 0
      BY <1>1, <3>2
    <3>4. prunedThrough' > claim.seq
      BY <2>1, <3>1, <3>3
    <3> QED BY <1>5, <2>1, <3>4 DEF ErasureIsKnown
  <2> QED BY <2>3, <2>4
<1>8. CASE ~Restart /\ owner[c] = claim.owner /\ claimId[c] = claim.id
  <2>1. claim.owner = Nobody /\ ErasureIsKnown(c, claim.seq)
    BY <1>1, <1>2, <1>8 DEF Stands, ErasureIsKnown, TurnIsAccountedFor, TypeOK
  <2>2. ErasureIsKnown(c, claim.seq)'
    BY <1>1, <1>2, <1>3, <1>4, <1>8, <2>1, KnownStays
  <2> QED BY <1>5, <2>1, <2>2
<1>9. CASE ~Restart /\ (owner[c] # claim.owner \/ claimId[c] # claim.id)
  <2>1. CASE UNCHANGED claimVars
    BY <1>6, <1>9, <2>1 DEF claimVars
  <2>2. ASSUME NEW x \in Convs, NEW who \in Subjects, ClaimedStep(x, who)
        PROVE  ~Stands(turn[t].claim)'
    <3>1. CASE x = c
      <4>1. claimId'[c] = nextClaimId
        BY <1>1, <2>2, <3>1 DEF ClaimedStep, TypeOK
      <4> QED BY <1>1, <1>3, <1>6, <4>1 DEF TypeOK
    <3>2. CASE x # c
      <4>1. owner'[c] = owner[c] /\ claimId'[c] = claimId[c]
        BY <1>1, <2>2, <3>2 DEF ClaimedStep, TypeOK
      <4> QED BY <1>6, <1>9, <4>1
    <3> QED BY <3>1, <3>2
  <2>3. ASSUME NEW s \in Subjects, NEW found \in FoundSeqs,
               NEW through \in {0} \cup {e.seq : e \in erasures}, EraseOwner(s, found, through)
        PROVE  ~Stands(turn[t].claim)'
    <3>1. ConversationIdsOf(s) = {x \in Convs : owner[x] = s}
      BY <1>2, IdsAreClaimed
    <3>2. CASE owner[c] = s
      <4>1. owner'[c] = Nobody
        BY <1>1, <2>3, <3>2 DEF EraseOwner
      <4>2. found \in Nat /\ through \in Nat /\ through <= found
        BY <1>2, FoundIsAhead, ThroughIsBehind
      <4>3. claim.seq <= found
        BY <1>1, <1>2, <4>2, FoundIsAhead DEF TurnIsAccountedFor, TypeOK
      <4>4. CASE IsAccountConversation(c)
        BY <1>5, <1>6, <4>1, <4>4 DEF ErasureIsKnown, IsAccountConversation
      <4>5. CASE ~IsAccountConversation(c)
        <5>1. [conv |-> c, seq |-> found + 1] \in erasures'
          BY <1>1, <2>3, <3>1, <3>2, <4>2, <4>5 DEF EraseOwner, Unpruned
        <5>2. found + 1 > claim.seq
          BY <1>1, <4>2, <4>3
        <5>3. ErasureIsKnown(c, claim.seq)'
          BY <5>1, <5>2 DEF ErasureIsKnown
        <5> QED BY <1>5, <1>6, <4>1, <5>3
      <4> QED BY <4>4, <4>5
    <3>3. CASE owner[c] # s
      <4>1. owner'[c] = owner[c] /\ claimId'[c] = claimId[c]
        BY <1>1, <2>3, <3>3 DEF EraseOwner
      <4> QED BY <1>6, <1>9, <4>1
    <3> QED BY <3>2, <3>3
  <2> QED
    BY <1>4, <1>9, <2>1, <2>2, <2>3
    DEF StepKind, QuietStep, PrunedStep, ErasedStep, LoseStateRow
<1> QED BY <1>7, <1>8, <1>9

\* A turn whose claim no longer stands never gets it back.
THEOREM RefusedForGood == Spec => RefusedStaysRefused
<1>1. TypeOK /\ ClaimsInv /\ TypeOK' /\ ClaimsInv' /\ [Next]_vars =>
        [\A t \in Turns :
           InFlight(t) /\ turn'[t].claim = turn[t].claim /\ ~Stands(turn[t].claim)
             => ~Stands(turn[t].claim)']_vars
  BY RefusedStep
<1> QED BY <1>1, ClaimsInvariant, PTL DEF Spec, RefusedStaysRefused

\* The step that takes a turn from admitted to preparing is its start.
LEMMA StartsBy ==
  ASSUME TypeOK, [Next]_vars, NEW t \in Turns,
         turn[t].phase = "admitted", turn'[t].phase = "preparing"
  PROVE  \E scope \in MemoryScopes(t) : StartTurn(t, scope)
<1>1. ASSUME NEW u \in Turns, TurnStep(u) PROVE \E scope \in MemoryScopes(t) : StartTurn(t, scope)
  <2>1. CASE u # t
    <3>1. turn'[t] = turn[t]
      BY <1>1, <2>1
      DEF TurnStep, OpenTurn, OpenAndClaim, StartTurn, StartRefused, ReadMemory, RememberTurn,
          OutOfSteps, RecordTurn, RecordRefused, RecordFails, TurnFails, Admit, TypeOK
    <3> QED BY <3>1
  <2>2. CASE u = t
    <3>1. /\ ~ReadMemory(t) /\ ~RememberTurn(t) /\ ~OutOfSteps(t)
          /\ ~RecordTurn(t) /\ ~RecordRefused(t) /\ ~RecordFails(t)
      BY DEF ReadMemory, RememberTurn, OutOfSteps, RecordTurn, RecordRefused, RecordFails
    <3>2. ~StartRefused(t)
      <4>1. StartRefused(t) => turn' = [turn EXCEPT ![t].phase = "replied"]
        BY DEF StartRefused
      <4> QED BY <4>1 DEF TypeOK, TurnRecords
    <3>4. ~TurnFails(t)
      BY DEF TurnFails, IdleTurn, TypeOK
    <3>3. ASSUME NEW who, NEW c, OpenTurn(t, who, c) \/ OpenAndClaim(t, who, c) PROVE FALSE
      BY <3>3 DEF OpenTurn, OpenAndClaim
    <3> QED BY <1>1, <2>2, <3>1, <3>2, <3>3, <3>4 DEF TurnStep
  <2> QED BY <2>1, <2>2
<1>2. turn' # turn /\ turn' # [u \in Turns |-> IdleTurn]
  BY DEF IdleTurn
<1> QED BY <1>1, <1>2, OtherStepTurns

LEMMA OwnHistoryStep ==
  ASSUME TypeOK, TypeOK', ClaimsInv, HistoriesInv, HistoriesInv', [Next]_vars,
         NEW t \in Turns, turn[t].phase = "admitted", turn'[t].phase = "preparing",
         NEW tag \in conversations'[turn[t].claim.conv] \cup stacks'[turn'[t].scope]
  PROVE  tag.who \in {turn[t].who, Nobody} /\ ~Erased(tag)
<1> DEFINE c == turn[t].claim.conv
<1>1. PICK scope \in MemoryScopes(t) : StartTurn(t, scope)
  BY StartsBy
<1>2. /\ c \in Convs /\ scope \in Scopes /\ InFlight(t)
      /\ (scope \in Subjects => scope = turn[t].who) /\ (scope \in Convs => scope = c)
  BY TurnTypes, ScopeOfTurn DEF InFlight
<1>3. turn'[t].scope = scope /\ erasedBefore' = erasedBefore /\ owner' = owner
      /\ working' = working \cup {c}
  BY <1>1 DEF StartTurn, Hold, claimVars, TypeOK, TurnRecords
<1>4. owner[c] = turn[t].who
  BY <1>1, <1>2 DEF StartTurn, Stands, HistoriesInv, TurnIsItsCallers
<1>5. conversations'[c] = stored'[c]
  BY <1>2, <1>3 DEF HistoriesInv, CopiesInv, CopiesMatchStore
<1>6. IsLive(tag)' /\ (tag.conv = c \/ owner'[tag.conv] = turn[t].who)
  BY <1>2, <1>3, <1>5 DEF HistoriesInv, TagsInv, Scopes
<1> QED BY <1>3, <1>4, <1>6 DEF IsLive, Erased

\* A turn starts with what its own caller or an anonymous one said, and nothing
\* from before an erasure.
THEOREM OwnHistoryOnly == Spec => StartsWithItsOwnHistory
<1>1. TypeOK /\ ClaimsInv /\ HistoriesInv /\ TypeOK' /\ HistoriesInv' /\ [Next]_vars =>
        [\A t \in Turns :
            turn[t].phase = "admitted" /\ turn'[t].phase = "preparing"
              => \A tag \in conversations'[turn[t].claim.conv] \cup stacks'[turn'[t].scope] :
                    tag.who \in {turn[t].who, Nobody} /\ ~Erased(tag)]_vars
  BY OwnHistoryStep
<1> QED BY <1>1, HistoriesInvariant, PTL DEF Spec, StartsWithItsOwnHistory

-----------------------------------------------------------------------------
(* The store implements its abstract specification. *)

LEMMA AuthorityInit == Init => Authority!Init
  BY DEF Init, Authority!Init, Identities

LEMMA ClaimImplements ==
  ASSUME TypeOK, OwnersAgree, NEW who \in Identities, NEW c \in Convs,
         (\E t \in Turns : OpenAndClaim(t, who, c)) \/ ClaimHalfDone(who, c)
  PROVE  Authority!Next
<1>1. who \in Subjects /\ who # Nobody /\ owner[c] = Nobody /\ InsertClaim(c, who) /\ stored' = stored
  BY DEF OpenAndClaim, ClaimHalfDone, Identities, rowVars
<1>2. Authority!Claim(c, who)
  BY <1>1, InsertClaimKind DEF Authority!Claim
<1> QED BY <1>1, <1>2 DEF Authority!Next

LEMMA RecordImplements ==
  ASSUME TypeOK, ClaimsInv, HistoriesInv, NEW t \in Turns, RecordTurn(t)
  PROVE  Authority!Next
<1> DEFINE c == turn[t].claim.conv
<1>1. c \in Convs /\ InFlight(t) /\ Stands(turn[t].claim) /\ CallerHolds(t)
  BY TurnTypes, CallerParts DEF RecordTurn, InFlight, HistoriesInv
<1>2. TagOf(t) = [conv |-> c, epoch |-> epoch[c], who |-> owner[c]]
  BY <1>1, WrittenTagIsLive DEF TagOf, HistoriesInv
<1>3. ConversationHistory(c) = stored[c]
  BY <1>1, ReadsAreStored, CopiesParts DEF Scopes, HistoriesInv
<1>4. PICK kept \in Kept(stored[c]) : stored' = [stored EXCEPT ![c] = kept \cup {TagOf(t)}]
  BY <1>3 DEF RecordTurn
<1>5. owner' = owner /\ epoch' = epoch
  BY DEF RecordTurn, claimVars
<1>6. kept \in SUBSET stored[c]
  BY KeptIsPart
<1>7. stored' = [stored EXCEPT ![c] = kept \cup {[conv |-> c, epoch |-> epoch[c], who |-> owner[c]]}]
  BY <1>2, <1>4
<1>8. Authority!Write(c)
  BY <1>5, <1>6, <1>7 DEF Authority!Write
<1> QED BY <1>1, <1>8 DEF Authority!Next

LEMMA EraseImplements ==
  ASSUME TypeOK, OwnersAgree, NEW s \in Subjects, NEW found, NEW through,
         EraseOwner(s, found, through)
  PROVE  Authority!Next
<1>1. ConversationIdsOf(s) = {c \in Convs : owner[c] = s}
  BY IdsAreClaimed
<1>2. Authority!Erase(s)
  BY <1>1 DEF EraseOwner, Authority!Erase
<1> QED BY <1>2 DEF Authority!Next

LEMMA AuthorityStep ==
  ASSUME TypeOK, ClaimsInv, HistoriesInv, [Next]_vars
  PROVE  [Authority!Next]_Authority!vars
<1>1. ASSUME UNCHANGED <<owner, epoch, stored>> PROVE UNCHANGED Authority!vars
  BY <1>1 DEF Authority!vars
<1>2. OwnersAgree
  BY DEF ClaimsInv
<1>3. ASSUME NEW t \in Turns, TurnStep(t) PROVE [Authority!Next]_Authority!vars
  <2>1. ASSUME NEW who \in Identities, NEW c \in Convs, OpenTurn(t, who, c)
        PROVE  UNCHANGED <<owner, epoch, stored>>
    BY <2>1 DEF OpenTurn, claimVars, rowVars
  <2>2. ASSUME NEW scope, StartTurn(t, scope) PROVE UNCHANGED <<owner, epoch, stored>>
    BY <2>2 DEF StartTurn, claimVars, rowVars
  <2>3. CASE \/ StartRefused(t) \/ ReadMemory(t) \/ RememberTurn(t) \/ OutOfSteps(t)
             \/ RecordRefused(t) \/ RecordFails(t) \/ TurnFails(t)
    <3>1. UNCHANGED <<owner, epoch, stored>>
      BY <2>3 DEF StartRefused, ReadMemory, RememberTurn, OutOfSteps, RecordRefused, RecordFails, TurnFails,
                  claimVars, rowVars
    <3> QED BY <1>1, <3>1
  <2> QED BY <1>1, <1>2, <1>3, <2>1, <2>2, <2>3, ClaimImplements, RecordImplements DEF TurnStep
<1>4. ASSUME NEW who \in Identities, NEW c \in Convs, CallerStep(who, c)
      PROVE  [Authority!Next]_Authority!vars
  <2>1. CASE OpenRefused(who, c) \/ ResumeConversation(who, c)
    BY <1>1, <2>1 DEF OpenRefused, ResumeConversation, claimVars, rowVars
  <2> QED BY <1>2, <1>4, <2>1, ClaimImplements DEF CallerStep
<1>5. ASSUME NEW s \in Subjects, DeletionStep(s) PROVE [Authority!Next]_Authority!vars
  <2>1. ASSUME NEW through, EraseOwnerOfNothing(s, through) PROVE UNCHANGED <<owner, epoch, stored>>
    BY <2>1 DEF EraseOwnerOfNothing, claimVars, rowVars
  <2>2. ASSUME NEW found, EraseFails(s, found) PROVE UNCHANGED <<owner, epoch, stored>>
    BY <2>2 DEF EraseFails, claimVars, rowVars
  <2> QED BY <1>1, <1>2, <1>5, <2>1, <2>2, EraseImplements DEF DeletionStep
<1>6. CASE EvictionStep
  BY <1>1, <1>6 DEF EvictionStep, EvictConversation, EvictWorking, EvictScope, EvictStack, claimVars, rowVars
<1>7. CASE Restart \/ LoseStateRow \/ (\E e \in erasures : PruneErasureLog(e.seq)) \/ UNCHANGED vars
  BY <1>1, <1>7 DEF Restart, LoseStateRow, PruneErasureLog, vars, claimVars, rowVars
<1> QED BY <1>3, <1>4, <1>5, <1>6, <1>7 DEF Next

\* The store, its caches, its log and its turns implement ConversationAuthority:
\* only the holder writes, in the present epoch, and an erasure takes all.
THEOREM ImplementsAuthority == Spec => AuthoritySpec
<1>1. TypeOK /\ ClaimsInv /\ HistoriesInv /\ [Next]_vars => [Authority!Next]_Authority!vars
  BY AuthorityStep
<1> QED BY <1>1, AuthorityInit, HistoriesInvariant, PTL DEF Spec, AuthoritySpec, Authority!Spec
=============================================================================

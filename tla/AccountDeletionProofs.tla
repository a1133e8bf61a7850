------------------------ MODULE AccountDeletionProofs ------------------------
(* Of signing in: types, single use of nonces, and restarts.  Of deletion:  *)
(* what it may not undo and may not take.  For any accounts, nonces,        *)
(* devices, conversations and tokens.                                       *)
EXTENDS AccountDeletion, FiniteSetTheorems, TLAPS

\* Every step of signing in preserves the types of the variables.
LEMMA SessionTypeStep ==
  ASSUME SessionTypeOK, [SessionNext]_sessionStateVars
  PROVE  SessionTypeOK'
<1> USE SessionConstants DEF SessionTypeOK, sessionStateVars, nonceVars, sessionVars
<1>1. CASE UNCHANGED sessionStateVars
  BY <1>1
<1>2. ASSUME NEW n \in Nonces, AskNonce(n) PROVE SessionTypeOK'
  BY <1>2 DEF AskNonce
<1>3. ASSUME NEW n \in Nonces, VerifyRefused(n) PROVE SessionTypeOK'
  BY <1>3 DEF VerifyRefused, Consume
<1>4. ASSUME NEW n \in Nonces, VerifyFails(n) PROVE SessionTypeOK'
  BY <1>4 DEF VerifyFails
<1>5. ASSUME NEW n \in Nonces, NonceAges(n) PROVE SessionTypeOK'
  BY <1>5 DEF NonceAges
<1>6. ASSUME NEW n \in Nonces, NEW s \in Subjects, NEW t \in Tokens, Verify(n, s, t)
      PROVE  SessionTypeOK'
  BY <1>6 DEF Verify, Consume, Grant, Identities
<1>7. ASSUME NEW s \in Subjects, NEW t \in Tokens, AppleSignIn(s, t) PROVE SessionTypeOK'
  BY <1>7 DEF AppleSignIn, Grant, Identities
<1>8. ASSUME NEW t \in Tokens, Expire(t) PROVE SessionTypeOK'
  BY <1>8 DEF Expire
<1>9. CASE Cleanup
  BY <1>9 DEF Cleanup, Without, SweptSessions, SweptNonces, Identities
<1>10. CASE Restart
  BY <1>10 DEF Restart, ReloadSessions, Without, Identities
<1>. QED
  BY <1>1, <1>2, <1>3, <1>4, <1>5, <1>6, <1>7, <1>8, <1>9, <1>10 DEF SessionNext

\* The variables keep their types.
THEOREM SessionTypes == SessionSpec => []SessionTypeOK
<1>1. SessionInit => SessionTypeOK
  BY DEF SessionInit, SessionTypeOK, Identities
<1>. QED
  BY <1>1, SessionTypeStep, PTL DEF SessionSpec

-----------------------------------------------------------------------------
\* A nonce is exchanged for a token at most; once it is, neither the cache nor
\* the table holds it, and it is never made again.
SpentNonces ==
  /\ nonceCache \subseteq made /\ nonceRows \subseteq made
  /\ \A n \in Nonces : grants[n] # {} =>
       /\ n \in made \ (nonceCache \cup nonceRows)
       /\ \E t \in Tokens : grants[n] = {t}

\* No step of signing in un-spends a nonce.
LEMMA SpentStep ==
  ASSUME SessionTypeOK, SpentNonces, [SessionNext]_sessionStateVars
  PROVE  SpentNonces'
<1> USE DEF SessionTypeOK, SpentNonces, sessionStateVars, nonceVars, sessionVars
<1>1. CASE UNCHANGED sessionStateVars
  BY <1>1
<1>2. ASSUME NEW n \in Nonces, AskNonce(n) PROVE SpentNonces'
  BY <1>2 DEF AskNonce
<1>3. ASSUME NEW n \in Nonces, VerifyRefused(n) PROVE SpentNonces'
  BY <1>3 DEF VerifyRefused, Consume
<1>4. ASSUME NEW n \in Nonces, VerifyFails(n) PROVE SpentNonces'
  BY <1>4 DEF VerifyFails
<1>5. ASSUME NEW n \in Nonces, NonceAges(n) PROVE SpentNonces'
  BY <1>5 DEF NonceAges
<1>6. ASSUME NEW n \in Nonces, NEW s \in Subjects, NEW t \in Tokens, Verify(n, s, t)
      PROVE  SpentNonces'
  <2>1. grants[n] = {} /\ grants' = [grants EXCEPT ![n] = {t}] /\ n \in made
    BY <1>6 DEF Verify, Presents
  <2>2. n \in made' \ (nonceCache' \cup nonceRows')
    BY <1>6, <2>1 DEF Verify, Consume
  <2>3. /\ nonceCache' \subseteq nonceCache /\ nonceRows' \subseteq nonceRows
        /\ made \subseteq made'
    BY <1>6 DEF Verify, Consume
  <2>. QED
    BY <2>1, <2>2, <2>3
<1>7. ASSUME NEW s \in Subjects, NEW t \in Tokens, AppleSignIn(s, t) PROVE SpentNonces'
  BY <1>7 DEF AppleSignIn
<1>8. ASSUME NEW t \in Tokens, Expire(t) PROVE SpentNonces'
  BY <1>8 DEF Expire
<1>9. CASE Cleanup
  BY <1>9 DEF Cleanup, SweptNonces
<1>10. CASE Restart
  BY <1>10 DEF Restart
<1>. QED
  BY <1>1, <1>2, <1>3, <1>4, <1>5, <1>6, <1>7, <1>8, <1>9, <1>10, SessionConstants DEF SessionNext

\* A spent nonce was spent on one token.
LEMMA SpentOnce == SpentNonces => NonceAdmitsOnce
<1> SUFFICES ASSUME SpentNonces, NEW n \in Nonces PROVE Cardinality(grants[n]) <= 1
  BY DEF NonceAdmitsOnce
<1>1. CASE grants[n] = {}
  BY <1>1, FS_EmptySet
<1>2. CASE grants[n] # {}
  <2>1. PICK t \in Tokens : grants[n] = {t}
    BY <1>2 DEF SpentNonces
  <2>. QED
    BY <2>1, FS_Singleton
<1>. QED
  BY <1>1, <1>2

\* However often a signed message is sent, its nonce is exchanged once.
THEOREM NonceSingleUse == SessionSpec => []NonceAdmitsOnce
<1>1. SessionInit => SpentNonces
  BY DEF SessionInit, SpentNonces
<1>. QED
  BY <1>1, SessionTypes, SpentStep, SpentOnce, PTL DEF SessionSpec

-----------------------------------------------------------------------------
\* A token a client was answered with is stored until it has expired.
AnsweredAreStored ==
  /\ \A t \in Tokens \ made : sessionCache[t] = Nobody /\ sessionRows[t] = Nobody
  /\ SignedInSurvivesRestart

\* Every step keeps answered sessions stored.
LEMMA StoredStep ==
  ASSUME SessionTypeOK, AnsweredAreStored, [SessionNext]_sessionStateVars
  PROVE  AnsweredAreStored'
<1> USE SessionConstants
    DEF SessionTypeOK, AnsweredAreStored, SignedInSurvivesRestart, Live,
        sessionStateVars, nonceVars, sessionVars
<1>1. CASE UNCHANGED sessionStateVars
  BY <1>1
<1>2. ASSUME NEW n \in Nonces, AskNonce(n) PROVE AnsweredAreStored'
  BY <1>2 DEF AskNonce
<1>3. ASSUME NEW n \in Nonces, VerifyRefused(n) PROVE AnsweredAreStored'
  BY <1>3 DEF VerifyRefused
<1>4. ASSUME NEW n \in Nonces, VerifyFails(n) PROVE AnsweredAreStored'
  BY <1>4 DEF VerifyFails
<1>5. ASSUME NEW n \in Nonces, NonceAges(n) PROVE AnsweredAreStored'
  BY <1>5 DEF NonceAges
<1>6. ASSUME NEW s \in Subjects, NEW t \in Tokens \ made, Grant(t, s),
             made' = made \cup {t}, UNCHANGED expired
      PROVE  AnsweredAreStored'
  BY <1>6 DEF Grant
<1>7. ASSUME NEW t \in Tokens, Expire(t) PROVE AnsweredAreStored'
  BY <1>7 DEF Expire
<1>8. CASE Cleanup
  BY <1>8 DEF Cleanup, Without, SweptSessions
<1>9. CASE Restart
  BY <1>9 DEF Restart, ReloadSessions, Without
<1>. QED
  BY <1>1, <1>2, <1>3, <1>4, <1>5, <1>6, <1>7, <1>8, <1>9 DEF SessionNext, Verify, AppleSignIn

\* A restart signs nobody out who was answered with a session in its time.
THEOREM RestartKeepsSessions == SessionSpec => []SignedInSurvivesRestart
<1>1. SessionInit => AnsweredAreStored
  BY DEF SessionInit, AnsweredAreStored, SignedInSurvivesRestart, Live
<1>2. AnsweredAreStored => SignedInSurvivesRestart
  BY DEF AnsweredAreStored
<1>. QED
  BY <1>1, <1>2, SessionTypes, StoredStep, PTL DEF SessionSpec

-----------------------------------------------------------------------------
\* Every step of the composed system preserves the types of the variables.
LEMMA TypeStep ==
  ASSUME TypeOK, [Next]_vars
  PROVE  TypeOK'
<1> USE SessionConstants, DeletionConstants
    DEF TypeOK, vars, ghostVars, deviceVars, Stages, Outcomes
<1>1. ASSUME UNCHANGED sessionStateVars PROVE SessionTypeOK'
  BY <1>1, SessionTypeStep
<1>2. CASE UNCHANGED vars
  BY <1>1, <1>2
<1>3. ASSUME SessionNext, UNCHANGED <<owner, deviceVars, deletion, outcome, ghostVars>>
      PROVE  TypeOK'
  BY <1>3, SessionTypeStep
<1>4. ASSUME NEW t \in Tokens, NEW c \in Convs, OpenConversation(t, c) PROVE TypeOK'
  BY <1>1, <1>4 DEF OpenConversation, SessionTypeOK
<1>5. ASSUME NEW d \in Devices, NEW who \in Identities, NEW c \in Convs, Register(d, who, c)
      PROVE  TypeOK'
  BY <1>1, <1>5 DEF Register, OwnerAfter, Files
<1>6. ASSUME NEW t \in Tokens, Ask(t) PROVE TypeOK'
  BY <1>1, <1>6 DEF Ask, SessionTypeOK
<1>7. ASSUME DeletionStep PROVE TypeOK'
  <2> USE DEF Answers, IdleDeletion, GoesTo
  <2>1. ASSUME NEW D \in SUBSET Devices, Adopt(D)
        PROVE  deviceOwner' \in [Devices -> Identities]
    BY <2>1 DEF Adopt
  <2>2. ASSUME NEW D \in SUBSET Devices, Unregister(D)
        PROVE  /\ filed' \in [Devices -> Files \cup {NotFiled}]
               /\ deviceOwner' \in [Devices -> Identities]
               /\ registrant' \in [Devices -> Identities]
               /\ due' \in [Subjects -> SUBSET Devices]
    BY <2>2 DEF Unregister, Identities
  <2>3. /\ Ownerless(FiledUnder) \in SUBSET Devices
        /\ DevicesFound \in SUBSET Devices
    BY DEF Ownerless, DevicesFound, OwnedBy, Registered
  <2>4. /\ Some(Ownerless(FiledUnder)) \subseteq SUBSET Devices
        /\ Some(DevicesFound) \subseteq SUBSET Devices
    BY <2>3 DEF Some
  <2>5. CASE AdoptOwnerless
    BY <1>1, <2>1, <2>3, <2>5 DEF AdoptOwnerless
  <2>6. CASE AdoptionFails
    BY <1>1, <2>1, <2>4, <2>6, Zenon DEF AdoptionFails, Identities
  <2>7. CASE EraseOwner
    BY <1>1, <2>7 DEF EraseOwner, Identities
  <2>8. CASE ErasureFails
    BY <1>1, <2>8 DEF ErasureFails, Identities
  <2>9. CASE RemoveForAccount
    BY <1>1, <2>2, <2>3, <2>9 DEF RemoveForAccount
  <2>10. CASE RemovalFails
    BY <1>1, <2>2, <2>4, <2>10 DEF RemovalFails, Identities
  <2>11. CASE RemoveSession
    BY <2>11 DEF RemoveSession, SessionTypeOK, Without, nonceVars, Identities
  <2>12. CASE RemoveSessionFails
    BY <2>12 DEF RemoveSessionFails, SessionTypeOK, Without, nonceVars, Identities
  <2>. QED
    BY <1>7, <2>5, <2>6, <2>7, <2>8, <2>9, <2>10, <2>11, <2>12 DEF DeletionStep
<1>8. CASE Dies
  BY <1>8, SessionTypeStep DEF Dies, SessionNext, IdleDeletion, Identities
<1>. QED
  BY <1>2, <1>3, <1>4, <1>5, <1>6, <1>7, <1>8 DEF Next

\* The variables keep their types.
THEOREM DeletionTypes == Spec => []TypeOK
<1>1. Init => TypeOK
  BY SessionConstants, DeletionConstants
  DEF Init, SessionInit, TypeOK, SessionTypeOK, IdleDeletion, Stages, Outcomes, Identities
<1>. QED
  BY <1>1, TypeStep, PTL DEF Spec
-----------------------------------------------------------------------------
\* A token closed by a deletion is closed in the cache and in the table.
ClosedTokens ==
  \A t \in Tokens : outcome[t] = "success" =>
    t \in made /\ sessionCache[t] = Nobody /\ sessionRows[t] = Nobody

\* A token no deletion has closed, answered and in its time, is cached and stored.
OpenTokens ==
  \A t \in answered \cap Tokens : t \notin expired /\ outcome[t] \in {"none", "retry"} =>
    sessionCache[t] # Nobody /\ sessionRows[t] # Nobody

\* A deletion is asked with a stored session of its account.
InFlight ==
  ~Idle => /\ deletion.token \in answered \cap Tokens
           /\ deletion.subject \in Subjects
           /\ sessionCache[deletion.token] = deletion.subject
           /\ sessionRows[deletion.token] = deletion.subject

TokensInv == ClosedTokens /\ OpenTokens /\ AnsweredAreStored /\ InFlight

\* Signing in, time and restarts close and open no token of these.
LEMMA TokensSessionStep ==
  ASSUME TypeOK, ClosedTokens, OpenTokens, SessionNext, UNCHANGED outcome
  PROVE  ClosedTokens' /\ OpenTokens'
<1> USE SessionConstants, DeletionConstants
    DEF TypeOK, SessionTypeOK, ClosedTokens, OpenTokens, nonceVars, sessionVars
<1>1. ASSUME NEW n \in Nonces, AskNonce(n) PROVE ClosedTokens' /\ OpenTokens'
  BY <1>1 DEF AskNonce
<1>2. ASSUME NEW n \in Nonces, VerifyRefused(n) \/ VerifyFails(n) \/ NonceAges(n)
      PROVE  ClosedTokens' /\ OpenTokens'
  BY <1>2 DEF VerifyRefused, VerifyFails, NonceAges
<1>3. ASSUME NEW s \in Subjects, NEW t \in Tokens \ made, Grant(t, s),
             made' = made \cup {t}, UNCHANGED expired
      PROVE  ClosedTokens' /\ OpenTokens'
  BY <1>3 DEF Grant
<1>4. ASSUME NEW t \in Tokens, Expire(t) PROVE ClosedTokens' /\ OpenTokens'
  BY <1>4 DEF Expire
<1>5. CASE Cleanup
  BY <1>5 DEF Cleanup, Without, SweptSessions
<1>6. CASE Restart
  BY <1>6 DEF Restart, ReloadSessions, Without
<1>. QED
  BY <1>1, <1>2, <1>3, <1>4, <1>5, <1>6 DEF SessionNext, Verify, AppleSignIn

\* Every step closes tokens for good, and only with the session's removal.
LEMMA TokensStep ==
  ASSUME TypeOK, TokensInv, [Next]_vars
  PROVE  TokensInv'
<1> USE SessionConstants, DeletionConstants DEF TokensInv, Idle
<1>1. CASE UNCHANGED vars
  BY <1>1 DEF vars, sessionStateVars, nonceVars, sessionVars, ClosedTokens, OpenTokens,
              AnsweredAreStored, SignedInSurvivesRestart, Live, InFlight
<1>2. ASSUME SessionNext, UNCHANGED <<deletion, outcome>>, Idle PROVE TokensInv'
  <2>1. AnsweredAreStored'
    BY <1>2, StoredStep DEF TypeOK
  <2>. QED
    BY <1>2, <2>1, TokensSessionStep DEF InFlight
<1>3. ASSUME UNCHANGED <<sessionStateVars, deletion, outcome>> PROVE TokensInv'
  BY <1>3 DEF sessionStateVars, nonceVars, sessionVars, ClosedTokens, OpenTokens,
              AnsweredAreStored, SignedInSurvivesRestart, Live, InFlight
<1>4. ASSUME NEW t \in Tokens, Ask(t) PROVE TokensInv'
  <2>1. /\ sessionRows[t] = sessionCache[t] /\ sessionCache[t] \in Subjects /\ t \in answered
    BY <1>4 DEF Ask, Live, AnsweredAreStored, SignedInSurvivesRestart, TypeOK, SessionTypeOK, Identities
  <2>2. InFlight'
    BY <1>4, <2>1 DEF Ask, InFlight, sessionStateVars, sessionVars
  <2>. QED
    BY <1>4, <2>2 DEF Ask, sessionStateVars, nonceVars, sessionVars, ClosedTokens, OpenTokens,
              AnsweredAreStored, SignedInSurvivesRestart, Live
<1>5. ASSUME UNCHANGED sessionStateVars, ~Idle, Answers("retry") PROVE TokensInv'
  BY <1>5 DEF Answers, IdleDeletion, TypeOK, sessionStateVars, nonceVars, sessionVars, ClosedTokens,
              OpenTokens, AnsweredAreStored, SignedInSurvivesRestart, Live, InFlight
<1>6. ASSUME UNCHANGED <<sessionStateVars, outcome>>, ~Idle, NEW a \in Stages, GoesTo(a) PROVE TokensInv'
  BY <1>6 DEF GoesTo, TypeOK, sessionStateVars, nonceVars, sessionVars, ClosedTokens,
              OpenTokens, AnsweredAreStored, SignedInSurvivesRestart, Live, InFlight
<1>7. CASE RemoveSession
  BY <1>7 DEF RemoveSession, Without, Answers, IdleDeletion, TypeOK, SessionTypeOK, nonceVars,
              ClosedTokens, OpenTokens, AnsweredAreStored, SignedInSurvivesRestart, Live, InFlight
<1>8. CASE RemoveSessionFails
  BY <1>8 DEF RemoveSessionFails, Without, Answers, IdleDeletion, TypeOK, SessionTypeOK, nonceVars,
              ClosedTokens, OpenTokens, AnsweredAreStored, SignedInSurvivesRestart, Live, InFlight
<1>9. CASE Dies
  <2>1. SessionNext /\ UNCHANGED outcome /\ deletion'.stage = "idle"
    BY <1>9 DEF Dies, SessionNext, IdleDeletion
  <2>2. AnsweredAreStored'
    BY <2>1, StoredStep DEF TypeOK
  <2>. QED
    BY <2>1, <2>2, TokensSessionStep DEF InFlight
<1>10. CASE DeletionStep
  BY <1>5, <1>6, <1>7, <1>8, <1>10
  DEF DeletionStep, Stages, AdoptOwnerless, AdoptionFails, EraseOwner, ErasureFails,
      RemoveForAccount, RemovalFails
<1>. QED
  BY <1>1, <1>2, <1>3, <1>4, <1>9, <1>10 DEF Next, OpenConversation, Register

\* Tokens are opened and closed as TokensInv says.
THEOREM TokensInvariant == Spec => [](TypeOK /\ TokensInv)
<1>1. Init => TokensInv
  BY DEF Init, SessionInit, TokensInv, ClosedTokens, OpenTokens, AnsweredAreStored,
         SignedInSurvivesRestart, Live, InFlight, Idle, IdleDeletion
<1>. QED
  BY <1>1, DeletionTypes, TokensStep, PTL DEF Spec

\* A token whose deletion was answered as a success never opens its account again.
THEOREM DeletedTokens == Spec => []DeletedTokenStaysClosed
<1>1. TokensInv => DeletedTokenStaysClosed
  BY DEF TokensInv, ClosedTokens, DeletedTokenStaysClosed, Live
<1>. QED
  BY <1>1, TokensInvariant, PTL

\* A client whose deletion was not answered as a success, and had not come as far
\* as the session, still holds a token that opens its account.
THEOREM Retries == Spec => []RetryIsPossible
<1>1. TokensInv => RetryIsPossible
  BY DEF TokensInv, OpenTokens, RetryIsPossible
<1>. QED
  BY <1>1, TokensInvariant, PTL
-----------------------------------------------------------------------------
\* From the erasure on, the account of the deletion holds no conversation; from
\* the removal of its devices on, it owns none.
DeletionProgress ==
  /\ deletion.stage \in {"unregistering", "closing"} => \A c \in Convs : owner[c] # deletion.subject
  /\ deletion.stage = "closing" => OwnedBy(deletion.subject) = {}

\* Whoever last registered a device signed in owns it, and what a deletion has
\* found to be due is written down as its account's.
DevicesKnown ==
  /\ \A d \in Devices : registrant[d] # Nobody => deviceOwner[d] = registrant[d]
  /\ \A s \in Subjects : \A d \in due[s] : d \in Registered /\ deviceOwner[d] = s

DevicesInv == DeletionProgress /\ DevicesKnown

\* Every step keeps the owners of devices known.
LEMMA DevicesKnownStep ==
  ASSUME TypeOK, InFlight, DevicesKnown, [Next]_vars
  PROVE  DevicesKnown'
<1> USE SessionConstants, DeletionConstants DEF TypeOK, Idle, DevicesKnown, Registered
<1>1. ASSUME UNCHANGED <<deviceVars, ghostVars>> PROVE DevicesKnown'
  BY <1>1 DEF deviceVars, ghostVars
<1>2. ASSUME NEW d \in Devices, NEW who \in Identities, NEW c \in Convs, Register(d, who, c)
      PROVE  DevicesKnown'
  <2>1. filed' = [filed EXCEPT ![d] = c] /\ c # NotFiled
    BY <1>2 DEF Register, Files
  <2>2. CASE who = Nobody
    BY <1>2, <2>1, <2>2 DEF Register, OwnerAfter, ghostVars
  <2>3. CASE who # Nobody
    BY <1>2, <2>1, <2>3 DEF Register, OwnerAfter, Identities
  <2>. QED
    BY <2>2, <2>3
<1>3. ASSUME ~Idle, NEW D \in SUBSET Ownerless(FiledUnder), Adopt(D), UNCHANGED <<filed, ghostVars>>
      PROVE  DevicesKnown'
  BY <1>3 DEF Adopt, Ownerless, InFlight, ghostVars
<1>4. CASE AdoptOwnerless
  <2>1. ~Idle /\ deletion.subject \in Subjects
    BY <1>4 DEF AdoptOwnerless, InFlight
  <2>2. \A d \in DevicesFound : d \in Registered' /\ deviceOwner'[d] = deletion.subject
    BY <1>4, <2>1 DEF AdoptOwnerless, Adopt, DevicesFound, OwnedBy, Ownerless
  <2>3. \A d \in Devices : deviceOwner[d] # Nobody => deviceOwner'[d] = deviceOwner[d]
    BY <1>4 DEF AdoptOwnerless, Adopt, Ownerless
  <2>4. Registered' = Registered /\ UNCHANGED registrant
    BY <1>4 DEF AdoptOwnerless
  <2>5. ASSUME NEW s \in Subjects, NEW d \in due'[s]
        PROVE  d \in Registered' /\ deviceOwner'[d] = s
    <3>1. d \in due[s] \/ (s = deletion.subject /\ d \in DevicesFound)
      BY <1>4, <2>1, <2>5 DEF AdoptOwnerless
    <3>2. CASE d \in due[s]
      BY <2>3, <2>4, <3>2
    <3>. QED
      BY <2>2, <3>1, <3>2
  <2>. QED
    BY <2>3, <2>4, <2>5
<1>5. CASE AdoptionFails
  <2>1. PICK D \in Some(Ownerless(FiledUnder)) : Adopt(D)
    BY <1>5 DEF AdoptionFails
  <2>2. D \in SUBSET Ownerless(FiledUnder)
    BY <2>1 DEF Some
  <2>. QED
    BY <1>3, <1>5, <2>1, <2>2 DEF AdoptionFails
<1>6. ASSUME NEW D \in SUBSET Devices, Unregister(D) PROVE DevicesKnown'
  BY <1>6 DEF Unregister
<1>7. CASE RemoveForAccount
  BY <1>6, <1>7 DEF RemoveForAccount, DevicesFound, OwnedBy, Ownerless
<1>8. CASE RemovalFails
  <2>1. PICK D \in Some(DevicesFound) : Unregister(D)
    BY <1>8 DEF RemovalFails
  <2>2. D \in SUBSET Devices
    BY <2>1 DEF Some, DevicesFound, OwnedBy, Ownerless
  <2>. QED
    BY <1>6, <2>1, <2>2
<1>9. CASE DeletionStep
  BY <1>1, <1>4, <1>5, <1>7, <1>8, <1>9
  DEF DeletionStep, EraseOwner, ErasureFails, RemoveSession, RemoveSessionFails
<1>. QED
  BY <1>1, <1>2, <1>9 DEF Next, vars, OpenConversation, Ask, Dies

\* Every step leaves what the deletion has done before it done.
LEMMA ProgressStep ==
  ASSUME TypeOK, InFlight, DeletionProgress, [Next]_vars
  PROVE  DeletionProgress'
<1> USE DEF TypeOK, Idle, DeletionProgress, OwnedBy, Registered
<1>1. ASSUME UNCHANGED <<owner, deviceVars, deletion>> PROVE DeletionProgress'
  BY <1>1 DEF deviceVars
<1>2. ASSUME deletion'.stage \notin {"unregistering", "closing"} PROVE DeletionProgress'
  BY <1>2
<1>3. CASE EraseOwner
  BY <1>3, SessionConstants DEF EraseOwner, GoesTo, InFlight
<1>4. CASE RemoveForAccount
  BY <1>4, SessionConstants DEF RemoveForAccount, GoesTo, Unregister, DevicesFound
<1>5. ASSUME Idle, UNCHANGED deletion PROVE DeletionProgress'
  BY <1>2, <1>5
<1>6. CASE DeletionStep
  BY <1>2, <1>3, <1>4, <1>6
  DEF DeletionStep, AdoptOwnerless, AdoptionFails, ErasureFails, RemovalFails, RemoveSession,
      RemoveSessionFails, GoesTo, Answers, IdleDeletion
<1>. QED
  BY <1>1, <1>2, <1>5, <1>6
  DEF Next, vars, OpenConversation, Register, Ask, Dies, IdleDeletion

\* Owners of devices are known, and what a deletion has done stays done.
THEOREM DevicesInvariant == Spec => []DevicesInv
<1>1. Init => DevicesInv
  BY DEF Init, DevicesInv, DeletionProgress, DevicesKnown, IdleDeletion
<1>2. TypeOK /\ TokensInv /\ DevicesInv /\ [Next]_vars => DevicesInv'
  BY DevicesKnownStep, ProgressStep DEF DevicesInv, TokensInv
<1>. QED
  BY <1>1, <1>2, TokensInvariant, PTL DEF Spec

\* A deletion never unregisters a device another account was the last to register.
THEOREM OthersDevices == Spec => OthersDevicesStay
<1>1. ASSUME TypeOK, DevicesKnown, [Next]_vars,
             NEW d \in Devices, filed[d] # NotFiled, filed'[d] = NotFiled
      PROVE  registrant[d] \in {Nobody, deletion.subject}
  <2> USE DeletionConstants DEF TypeOK
  <2>1. ~ UNCHANGED filed
    BY <1>1
  <2>2. ASSUME NEW e \in Devices, NEW who \in Identities, NEW c \in Convs, Register(e, who, c)
        PROVE  FALSE
    BY <1>1, <2>2 DEF Register, Files
  <2>3. ASSUME NEW D \in SUBSET DevicesFound, Unregister(D)
        PROVE  d \in DevicesFound
    BY <1>1, <2>3 DEF Unregister
  <2>4. d \in DevicesFound => registrant[d] \in {Nobody, deletion.subject}
    BY <1>1 DEF DevicesFound, OwnedBy, Ownerless, DevicesKnown
  <2>5. CASE RemoveForAccount
    BY <2>3, <2>4, <2>5 DEF RemoveForAccount
  <2>6. CASE RemovalFails
    <3>1. PICK D \in Some(DevicesFound) : Unregister(D)
      BY <2>6 DEF RemovalFails
    <3>. QED
      BY <2>3, <2>4, <3>1 DEF Some
  <2>. QED
    BY <1>1, <2>1, <2>2, <2>5, <2>6
    DEF Next, vars, deviceVars, OpenConversation, Ask, Dies, DeletionStep, AdoptOwnerless,
        AdoptionFails, EraseOwner, ErasureFails, RemoveSession, RemoveSessionFails
<1>2. TypeOK /\ DevicesKnown /\ [Next]_vars =>
        [\A d \in Devices : filed[d] # NotFiled /\ filed'[d] = NotFiled =>
           registrant[d] \in {Nobody, deletion.subject}]_vars
  BY <1>1
<1>3. DevicesInv => DevicesKnown
  BY DEF DevicesInv
<1>. QED
  BY <1>2, <1>3, DeletionTypes, DevicesInvariant, PTL DEF Spec, OthersDevicesStay

\* A deletion answered as a success has taken every device and every conversation
\* of its account, whatever attempts before it left half done.
THEOREM CompleteDeletion == Spec => DeletionIsComplete
<1>1. ASSUME TypeOK, InFlight, DevicesInv, [Next]_vars, NEW t \in Tokens, Succeeds(t)
      PROVE  LET s == sessionCache[t] IN
             /\ \A d \in Registered : registrant[d] # s /\ d \notin due[s]
             /\ \A c \in Convs : owner[c] # s
  <2>1. RemoveSession
    <3>1. ~ UNCHANGED outcome
      BY <1>1 DEF Succeeds
    <3>2. ASSUME Answers("retry") \/ Answers("unclosed") PROVE FALSE
      BY <1>1, <3>2 DEF Succeeds, Answers, TypeOK
    <3>. QED
      BY <1>1, <3>1, <3>2
      DEF Next, vars, OpenConversation, Register, Ask, Dies, DeletionStep, AdoptOwnerless,
          AdoptionFails, EraseOwner, ErasureFails, RemoveForAccount, RemovalFails, RemoveSessionFails
  <2>2. deletion.stage = "closing" /\ t = deletion.token
    BY <1>1, <2>1 DEF RemoveSession, Answers, Succeeds, TypeOK
  <2>3. sessionCache[t] = deletion.subject /\ deletion.subject \in Subjects
    BY <1>1, <2>2 DEF InFlight, Idle
  <2>4. OwnedBy(deletion.subject) = {} /\ \A c \in Convs : owner[c] # deletion.subject
    BY <1>1, <2>2 DEF DevicesInv, DeletionProgress
  <2>5. \A d \in Registered : registrant[d] # deletion.subject /\ d \notin due[deletion.subject]
    BY <1>1, <2>3, <2>4, SessionConstants DEF DevicesInv, DevicesKnown, OwnedBy, Registered
  <2>. QED
    BY <2>3, <2>4, <2>5
<1>2. TypeOK /\ TokensInv /\ DevicesInv /\ [Next]_vars =>
        [\A t \in Tokens : Succeeds(t) =>
           LET s == sessionCache[t] IN
           /\ \A d \in Registered : registrant[d] # s /\ d \notin due[s]
           /\ \A c \in Convs : owner[c] # s]_vars
  BY <1>1 DEF TokensInv
<1>. QED
  BY <1>2, TokensInvariant, DevicesInvariant, PTL DEF Spec, DeletionIsComplete
=============================================================================

--------------------------- MODULE AccountDeletion ---------------------------
(***************************************************************************)
(* DELETE /api/v1/auth/account, with what it takes away: the account's     *)
(* claims on conversations, the devices registered for pushes, and the     *)
(* session it was asked with.  Each is committed on its own; the handler   *)
(* stops at the first that raises and answers 503, or the process dies     *)
(* between two of them.  The client asks again.                            *)
(*                                                                         *)
(* What a conversation holds, and how its claim is won, is                 *)
(* ConversationClaims'; here a conversation is its owner.                  *)
(***************************************************************************)
EXTENDS AccountSessions

CONSTANTS
  Convs,        \* conversation ids
  NamedFor,     \* the subject s of each "user:<s>" id, Nobody for other ids
  Devices       \* APNs device tokens

\* The ids a device is filed under: a client once used its bearer token as one.
Files == Convs \cup Tokens

NotFiled == "nowhere"

ASSUME DeletionConstants ==
  /\ NamedFor \in [Convs -> Identities]
  /\ Convs \cap Tokens = {} /\ Nobody \notin Tokens
  /\ NotFiled \notin Files

Stages == {"idle", "adopting", "erasing", "unregistering", "closing"}
Outcomes == {"none", "retry", "unclosed", "success"}

VARIABLES
  owner,       \* conversation_owners, Nobody for no claim
  filed,       \* push_tokens.session_id, NotFiled for a device not in the table
  deviceOwner, \* push_tokens.owner, Nobody for NULL and ""
  deletion,    \* the deletion being handled: its token, and the ids read before the erasure
  outcome,     \* what a token's last deletion was answered: 503 before its session
               \*   was touched, 503 for the session, 200
  registrant,  \* bookkeeping: the account that last registered the device, signed in
  due          \* bookkeeping: the devices a deletion found to be an account's, and still are

deviceVars == <<filed, deviceOwner>>
ghostVars == <<registrant, due>>
vars == <<sessionStateVars, owner, deviceVars, deletion, outcome, ghostVars>>

Idle == deletion.stage = "idle"
IdleDeletion == [stage |-> "idle", token |-> Nobody, subject |-> Nobody, holding |-> {}]

Registered == {d \in Devices : filed[d] # NotFiled}

\* Devices registered before the table had owners.
Init ==
  /\ SessionInit
  /\ owner = [c \in Convs |-> Nobody]
  /\ filed \in [Devices -> Files \cup {NotFiled}]
  /\ deviceOwner = [d \in Devices |-> Nobody]
  /\ deletion = IdleDeletion
  /\ outcome = [t \in Tokens |-> "none"]
  /\ registrant = [d \in Devices |-> Nobody]
  /\ due = [s \in Subjects |-> {}]

-----------------------------------------------------------------------------
(* What callers do meanwhile: continue a conversation, register a device *)

HeldElsewhere(c, who) ==
  \/ NamedFor[c] # Nobody /\ NamedFor[c] # who
  \/ owner[c] # Nobody /\ owner[c] # who

OpenConversation(t, c) ==
  LET s == sessionCache[t] IN
  /\ Live(t)
  /\ owner[c] = Nobody /\ ~HeldElsewhere(c, s)
  /\ owner' = [owner EXCEPT ![c] = s]
  /\ UNCHANGED <<sessionStateVars, deviceVars, deletion, outcome, ghostVars>>

LastWho(d, who) == who  \* mutant: registering without a session clears the owner

OwnerAfter(d, who) == IF who = Nobody THEN deviceOwner[d] ELSE who

\* POST /bridge/v1/push/register, by the account of a live session or by nobody.
Register(d, who, c) ==
  /\ who # Nobody => \E t \in Tokens : Live(t) /\ sessionCache[t] = who
  /\ ~HeldElsewhere(c, who)
  /\ filed' = [filed EXCEPT ![d] = c]
  /\ deviceOwner' = [deviceOwner EXCEPT ![d] = OwnerAfter(d, who)]
  /\ IF who = Nobody
     THEN UNCHANGED ghostVars
     ELSE /\ registrant' = [registrant EXCEPT ![d] = who]
          /\ due' = [s \in Subjects |-> IF s = who THEN due[s] ELSE due[s] \ {d}]
  /\ UNCHANGED <<sessionStateVars, owner, deletion, outcome>>

-----------------------------------------------------------------------------
(* The deletion *)

\* The devices of deletion.subject: its own, and the ownerless ones filed under
\* one of its conversations, its "user:<subject>" or the token presented.
FiledUnder == deletion.holding \cup {c \in Convs : NamedFor[c] = deletion.subject} \cup {deletion.token}

FiledAmong(F) == {d \in Registered : filed[d] \in F}  \* mutant: whoever owns them

Ownerless(F) == {d \in Registered : filed[d] \in F /\ deviceOwner[d] = Nobody}

OwnedBy(s) == {d \in Registered : deviceOwner[d] = s}

DevicesFound == OwnedBy(deletion.subject) \cup Ownerless(FiledUnder)

GoesTo(stage) == deletion' = [deletion EXCEPT !.stage = stage]

Answers(a) ==
  /\ deletion' = IdleDeletion
  /\ outcome' = [outcome EXCEPT ![deletion.token] = a]

Ask(t) ==
  LET s == sessionCache[t] IN
  /\ Idle /\ Live(t)
  /\ deletion' = [stage |-> "adopting", token |-> t, subject |-> s,
                  holding |-> {c \in Convs : owner[c] = s}]
  /\ UNCHANGED <<sessionStateVars, owner, deviceVars, outcome, ghostVars>>

\* One statement per device: what was done before one raised, or before the first read did.
Some(S) == ((SUBSET S) \ {S}) \cup {{}}

AdoptByToken(D) ==  \* mutant: the bearer token for the account
  deviceOwner' = [d \in Devices |-> IF d \in D THEN deletion.token ELSE deviceOwner[d]]

Adopt(D) ==
  deviceOwner' = [d \in Devices |-> IF d \in D THEN deletion.subject ELSE deviceOwner[d]]

SkipAdoption ==  \* mutant: the owners are not written down before the erasure
  /\ deletion.stage = "adopting"
  /\ GoesTo("erasing")
  /\ due' = [due EXCEPT ![deletion.subject] = @ \cup DevicesFound]
  /\ UNCHANGED <<sessionStateVars, owner, deviceVars, outcome, registrant>>

AdoptOwnerless ==
  /\ deletion.stage = "adopting"
  /\ Adopt(Ownerless(FiledUnder))
  /\ GoesTo("erasing")
  /\ due' = [due EXCEPT ![deletion.subject] = @ \cup DevicesFound]
  /\ UNCHANGED <<sessionStateVars, owner, filed, outcome, registrant>>

AdoptionFails ==
  /\ deletion.stage = "adopting"
  /\ \E D \in Some(Ownerless(FiledUnder)) : Adopt(D)
  /\ Answers("retry")
  /\ UNCHANGED <<sessionStateVars, owner, filed, ghostVars>>

EraseOwner ==
  /\ deletion.stage = "erasing"
  /\ owner' = [c \in Convs |-> IF owner[c] = deletion.subject THEN Nobody ELSE owner[c]]
  /\ GoesTo("unregistering")
  /\ UNCHANGED <<sessionStateVars, deviceVars, outcome, ghostVars>>

\* The erasure is one transaction: rolled back.
ErasureFails ==
  /\ deletion.stage = "erasing"
  /\ Answers("retry")
  /\ UNCHANGED <<sessionStateVars, owner, deviceVars, ghostVars>>

Unregister(D) ==
  /\ filed' = [d \in Devices |-> IF d \in D THEN NotFiled ELSE filed[d]]
  /\ deviceOwner' = [d \in Devices |-> IF d \in D THEN Nobody ELSE deviceOwner[d]]
  /\ registrant' = [d \in Devices |-> IF d \in D THEN Nobody ELSE registrant[d]]
  /\ due' = [s \in Subjects |-> due[s] \ D]

RemoveForAccount ==
  /\ deletion.stage = "unregistering"
  /\ Unregister(DevicesFound)
  /\ GoesTo("closing")
  /\ UNCHANGED <<sessionStateVars, owner, outcome>>

RemovalFailsClosed ==  \* mutant: the session is removed first
  /\ deletion.stage = "unregistering"
  /\ \E D \in Some(DevicesFound) : Unregister(D)
  /\ Answers("retry")
  /\ sessionCache' = Without(sessionCache, {deletion.token})
  /\ sessionRows' = Without(sessionRows, {deletion.token})
  /\ UNCHANGED <<nonceVars, expired, made, answered, owner>>

RemovalFails ==
  /\ deletion.stage = "unregistering"
  /\ \E D \in Some(DevicesFound) : Unregister(D)
  /\ Answers("retry")
  /\ UNCHANGED <<sessionStateVars, owner>>

RemoveCachedSession ==  \* mutant: a DELETE that raised is answered as a success
  /\ deletion.stage = "closing"
  /\ sessionCache' = Without(sessionCache, {deletion.token})
  /\ Answers("success")
  /\ UNCHANGED <<nonceVars, sessionRows, expired, made, answered, owner, deviceVars, ghostVars>>

RemoveSession ==
  /\ deletion.stage = "closing"
  /\ sessionCache' = Without(sessionCache, {deletion.token})
  /\ sessionRows' = Without(sessionRows, {deletion.token})
  /\ Answers("success")
  /\ UNCHANGED <<nonceVars, expired, made, answered, owner, deviceVars, ghostVars>>

\* The DELETE raises after the token has left the cache.
RemoveSessionFails ==
  /\ deletion.stage = "closing"
  /\ sessionCache' = Without(sessionCache, {deletion.token})
  /\ Answers("unclosed")
  /\ UNCHANGED <<nonceVars, sessionRows, expired, made, answered, owner, deviceVars, ghostVars>>

DeletionStep ==
  \/ AdoptOwnerless \/ AdoptionFails
  \/ EraseOwner \/ ErasureFails
  \/ RemoveForAccount \/ RemovalFails
  \/ RemoveSession \/ RemoveSessionFails

\* The process dies between two steps of the deletion, and is started again.
Dies ==
  /\ ~Idle
  /\ Restart
  /\ deletion' = IdleDeletion
  /\ UNCHANGED <<owner, deviceVars, outcome, ghostVars>>

Next ==
  \/ Idle /\ SessionNext /\ UNCHANGED <<owner, deviceVars, deletion, outcome, ghostVars>>
  \/ \E t \in Tokens, c \in Convs : Idle /\ OpenConversation(t, c)
  \/ \E d \in Devices, who \in Identities, c \in Convs : Idle /\ Register(d, who, c)
  \/ \E t \in Tokens : Ask(t)
  \/ DeletionStep
  \/ Dies

Spec == Init /\ [][Next]_vars

-----------------------------------------------------------------------------
\* Types of the variables.
TypeOK ==
  /\ SessionTypeOK
  /\ owner \in [Convs -> Identities]
  /\ filed \in [Devices -> Files \cup {NotFiled}]
  /\ deviceOwner \in [Devices -> Identities]
  /\ deletion \in [stage : Stages, token : Tokens \cup {Nobody}, subject : Identities, holding : SUBSET Convs]
  /\ outcome \in [Tokens -> Outcomes]
  /\ registrant \in [Devices -> Identities]
  /\ due \in [Subjects -> SUBSET Devices]

Succeeds(t) == outcome[t] # "success" /\ outcome'[t] = "success"

\* A deletion answered 200 leaves registered no device the account was the last to
\* sign in and register, nor one that it, or an attempt before it that stopped
\* half way, found to be the account's; and no conversation the account holds.
DeletionIsComplete ==
  [][\A t \in Tokens : Succeeds(t) =>
       LET s == sessionCache[t] IN
       /\ \A d \in Registered : registrant[d] # s /\ d \notin due[s]
       /\ \A c \in Convs : owner[c] # s]_vars

\* "A device another account registered is never removed through a conversation id."
OthersDevicesStay ==
  [][\A d \in Devices :
       filed[d] # NotFiled /\ filed'[d] = NotFiled => registrant[d] \in {Nobody, deletion.subject}]_vars

\* "Ordered so a retry can finish the job": until its deletion has come as far as
\* the session, a client's token opens its account, however the deletion ended.
RetryIsPossible ==
  Idle => \A t \in answered \cap Tokens :
            t \notin expired /\ outcome[t] \in {"none", "retry"} => sessionCache[t] # Nobody

\* A token whose deletion was answered 200 opens nothing again, whatever restarts.
DeletedTokenStaysClosed == \A t \in Tokens : outcome[t] = "success" => ~Live(t)

\* "session removal failed; the session token is still valid".
FailedRemovalKeepsSession ==
  \A t \in answered \cap Tokens : t \notin expired /\ outcome[t] = "unclosed" => Live(t)
=============================================================================

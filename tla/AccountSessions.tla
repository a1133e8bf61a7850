--------------------------- MODULE AccountSessions ---------------------------
(***************************************************************************)
(* Signing in to the gateway: the nonces offered for SIWE, the session     *)
(* tokens given for a signed one (or for an Apple identity), and the       *)
(* write-through caches that answer for both.                              *)
(*                                                                         *)
(* A database await never gives the event loop away (the lock around the   *)
(* connection is never held across a real suspension), so a handler is one *)
(* step.  A statement that raises ends the step where it stands: what was  *)
(* cached before it stays cached.  A process that dies there has left the  *)
(* same rows behind, and Restart follows.                                  *)
(***************************************************************************)
EXTENDS Integers, FiniteSets

CONSTANTS
  Subjects,       \* accounts: a wallet address, or "apple:<sub>"
  AppleSubjects,  \* those that sign in with an Apple identity token
  Nobody,         \* the empty subject
  Tokens,         \* session tokens create_session_token may make
  Nonces          \* nonces generate_nonce may make

ASSUME SessionConstants ==
  /\ Nobody \notin Subjects
  /\ AppleSubjects \subseteq Subjects
  /\ Tokens \cap Nonces = {}

Identities == Subjects \cup {Nobody}

VARIABLES
  nonceCache,    \* NonceStore._cache
  nonceRows,     \* wallet_nonces
  oldNonces,     \* nonces issued longer than NONCE_TTL_SECONDS ago
  sessionCache,  \* WalletSessionStore._cache: the address of a token, Nobody without one
  sessionRows,   \* wallet_sessions
  expired,       \* tokens past their expires_at
  made,          \* the nonces and tokens made so far: both are random, none is made twice
  answered,      \* the nonces and tokens a client was answered with
  grants         \* the tokens each nonce was exchanged for

nonceVars == <<nonceCache, nonceRows, oldNonces, grants>>
sessionVars == <<sessionCache, sessionRows, expired>>
sessionStateVars == <<nonceVars, sessionVars, made, answered>>

\* The session a request presents is live: a token a client holds, cached, in its time.
Live(t) == t \in answered /\ sessionCache[t] # Nobody /\ t \notin expired

SessionInit ==
  /\ nonceCache = {} /\ nonceRows = {} /\ oldNonces = {}
  /\ sessionCache = [t \in Tokens |-> Nobody]
  /\ sessionRows = [t \in Tokens |-> Nobody]
  /\ expired = {} /\ made = {} /\ answered = {}
  /\ grants = [n \in Nonces |-> {}]

-----------------------------------------------------------------------------
(* POST /auth/nonce *)

AskNonce(n) ==
  /\ n \notin made
  /\ made' = made \cup {n}
  /\ nonceCache' = nonceCache \cup {n}
  /\ \/ nonceRows' = nonceRows \cup {n} /\ answered' = answered \cup {n}
     \/ UNCHANGED <<nonceRows, answered>>  \* the INSERT raises: 500, and no nonce
  /\ UNCHANGED <<oldNonces, grants, sessionVars>>

(* POST /auth/verify: the nonce is taken whatever becomes of the signature *)

TakeFromCache(n) ==  \* mutant: the row stays
  /\ nonceCache' = nonceCache \ {n}
  /\ UNCHANGED nonceRows

Consume(n) ==
  /\ nonceCache' = nonceCache \ {n}
  /\ nonceRows' = nonceRows \ {n}

\* The client is not answered with the token of a session that was not stored;
\* that it was stored does not mean the answer arrives.
GrantUnstored(t, s) ==  \* mutant: the client is answered although the INSERT raised
  /\ sessionCache' = [sessionCache EXCEPT ![t] = s]
  /\ sessionRows' \in {sessionRows, [sessionRows EXCEPT ![t] = s]}
  /\ answered' = answered \cup {t}

Grant(t, s) ==
  /\ sessionCache' = [sessionCache EXCEPT ![t] = s]
  /\ \/ /\ sessionRows' = [sessionRows EXCEPT ![t] = s]
        /\ answered' \in {answered, answered \cup {t}}
     \/ UNCHANGED <<sessionRows, answered>>

Presents(n) == n \in answered /\ n \in nonceCache

VerifyRefused(n) ==
  /\ Presents(n)
  /\ Consume(n)
  /\ UNCHANGED <<oldNonces, grants, sessionVars, made, answered>>

\* consume() raises: the nonce has left the cache and not the table.
VerifyFails(n) ==
  /\ Presents(n)
  /\ nonceCache' = nonceCache \ {n}
  /\ UNCHANGED <<nonceRows, oldNonces, grants, sessionVars, made, answered>>

Verify(n, s, t) ==
  /\ Presents(n)
  /\ t \notin made
  /\ Consume(n)
  /\ Grant(t, s)
  /\ made' = made \cup {t}
  /\ grants' = [grants EXCEPT ![n] = @ \cup {t}]
  /\ UNCHANGED <<oldNonces, expired>>

(* POST /api/v1/auth/apple, for an identity token that verified *)
AppleSignIn(s, t) ==
  /\ t \notin made
  /\ Grant(t, s)
  /\ made' = made \cup {t}
  /\ UNCHANGED <<nonceVars, expired>>

-----------------------------------------------------------------------------
(* Time, the cleanup loop, restarts *)

Expire(t) ==
  /\ t \in made \ expired
  /\ expired' = expired \cup {t}
  /\ UNCHANGED <<nonceVars, sessionCache, sessionRows, made, answered>>

NonceAges(n) ==
  /\ n \in made \ oldNonces
  /\ oldNonces' = oldNonces \cup {n}
  /\ UNCHANGED <<nonceCache, nonceRows, grants, sessionVars, made, answered>>

Without(sessions, T) == [t \in Tokens |-> IF t \in T THEN Nobody ELSE sessions[t]]

CachedExpired == {t \in expired : sessionCache[t] # Nobody}
CachedOld == nonceCache \cap oldNonces

\* The rows go only when the cache held something to drop.
SweptSessions == IF CachedExpired = {} THEN sessionRows ELSE Without(sessionRows, expired)
SweptNonces == IF CachedOld = {} THEN nonceRows ELSE nonceRows \ oldNonces

Cleanup ==
  /\ CachedExpired \cup CachedOld # {}
  /\ sessionCache' = Without(sessionCache, expired)
  /\ \/ /\ sessionRows' = SweptSessions
        /\ nonceCache' = nonceCache \ oldNonces
        /\ nonceRows' = SweptNonces
     \/ /\ sessionRows' = SweptSessions             \* nonces.cleanup raises
        /\ CachedOld # {}
        /\ nonceCache' = nonceCache \ oldNonces
        /\ UNCHANGED nonceRows
     \/ /\ CachedExpired # {}                       \* sessions.cleanup raises
        /\ UNCHANGED <<sessionRows, nonceCache, nonceRows>>
  /\ UNCHANGED <<oldNonces, grants, expired, made, answered>>

ReloadSessions == sessionCache' = Without(sessionRows, expired)

Restart ==
  /\ ReloadSessions
  /\ nonceCache' = nonceRows \ oldNonces
  /\ UNCHANGED <<nonceRows, oldNonces, grants, sessionRows, expired, made, answered>>

SessionNext ==
  \/ \E n \in Nonces : AskNonce(n) \/ VerifyRefused(n) \/ VerifyFails(n) \/ NonceAges(n)
  \/ \E n \in Nonces, s \in Subjects \ AppleSubjects, t \in Tokens : Verify(n, s, t)
  \/ \E s \in AppleSubjects, t \in Tokens : AppleSignIn(s, t)
  \/ \E t \in Tokens : Expire(t)
  \/ Cleanup
  \/ Restart

SessionSpec == SessionInit /\ [][SessionNext]_sessionStateVars

-----------------------------------------------------------------------------
\* Types of the variables.
SessionTypeOK ==
  /\ nonceCache \subseteq Nonces /\ nonceRows \subseteq Nonces /\ oldNonces \subseteq Nonces
  /\ grants \in [Nonces -> SUBSET Tokens]
  /\ sessionCache \in [Tokens -> Identities]
  /\ sessionRows \in [Tokens -> Identities]
  /\ expired \subseteq Tokens
  /\ made \subseteq Nonces \cup Tokens /\ answered \subseteq made

\* A nonce is exchanged for one session at most, however often the signed
\* message is sent again and whatever the process forgot in between.
NonceAdmitsOnce == \A n \in Nonces : Cardinality(grants[n]) <= 1

\* "A process restart doesn't kick every signed-in user back to the auth flow":
\* a live session is the stored one.
SignedInSurvivesRestart == \A t \in Tokens : Live(t) => sessionRows[t] = sessionCache[t]
=============================================================================

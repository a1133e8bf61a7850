----------------------- MODULE ConversationAuthority -----------------------
(***************************************************************************)
(* What the conversation store promises, with nothing of how it keeps the  *)
(* promise: no caches, no claims in flight, no erasure log.  A conversation*)
(* has a holder and an epoch; a message is stored only in the epoch, and   *)
(* by the holder, of the moment it is stored; the holder changes only from *)
(* nobody to an account (a claim) and back (the erasure of that account),  *)
(* and the erasure takes every message with it.  ConversationClaims is     *)
(* shown to implement this specification.                                  *)
(***************************************************************************)
EXTENDS Naturals

CONSTANTS Convs,      \* conversation ids
          Subjects,   \* account subjects
          Nobody      \* the empty subject: an anonymous caller, no holder

VARIABLES holder,     \* who holds each conversation
          epoch,      \* how often its holder has changed
          messages    \* what is stored of it, as a set of message tags

vars == <<holder, epoch, messages>>

Init ==
  /\ holder \in [Convs -> Subjects \cup {Nobody}]
  /\ epoch = [c \in Convs |-> 0]
  /\ messages = [c \in Convs |-> {}]

\* An account takes a conversation nobody holds; what anonymous callers wrote
\* into it stays.
Claim(c, s) ==
  /\ holder[c] = Nobody
  /\ holder' = [holder EXCEPT ![c] = s]
  /\ epoch' = [epoch EXCEPT ![c] = @ + 1]
  /\ UNCHANGED messages

\* The holder adds a message; older ones may be trimmed away.
Write(c) ==
  \E kept \in SUBSET messages[c] :
     /\ messages' = [messages EXCEPT ![c] =
                       kept \cup {[conv |-> c, epoch |-> epoch[c], who |-> holder[c]]}]
     /\ UNCHANGED <<holder, epoch>>

\* An account is erased: everything it holds is emptied and held by nobody.
Erase(s) ==
  LET mine == {c \in Convs : holder[c] = s} IN
  /\ holder' = [c \in Convs |-> IF c \in mine THEN Nobody ELSE holder[c]]
  /\ epoch' = [c \in Convs |-> IF c \in mine THEN epoch[c] + 1 ELSE epoch[c]]
  /\ messages' = [c \in Convs |-> IF c \in mine THEN {} ELSE messages[c]]

Next ==
  \/ \E c \in Convs, s \in Subjects : Claim(c, s)
  \/ \E c \in Convs : Write(c)
  \/ \E s \in Subjects : Erase(s)

Spec == Init /\ [][Next]_vars
=============================================================================

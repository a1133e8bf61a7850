------------------------ MODULE MCConversationClaims ------------------------
(* Instances of ConversationClaims for TLC. *)
EXTENDS ConversationClaims, TLC

CONSTANTS c1, u1, s1, s2, t1, t2

\* Only ordinary conversations.
NamedForNobody == [c \in Convs |-> Nobody]

\* The account's own conversation beside an ordinary one.
WithAccountConversation == [c \in Convs |-> IF c = u1 THEN s1 ELSE Nobody]

\* The erasure state row is never edited away by hand.
KeepsStateRow == stateRow'

Symmetry == Permutations(Subjects) \cup Permutations(Turns)
=============================================================================

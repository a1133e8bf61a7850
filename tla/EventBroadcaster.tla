---------------------------- MODULE EventBroadcaster ----------------------------
(***************************************************************************)
(* The live event stream: the hub that fans events out to one queue per     *)
(* connection and keeps the latest for replay, and the handler that serves  *)
(* a connection, from its registration to its end.                         *)
(*                                                                         *)
(* An event is known by its place in published.  Whatever a handler does    *)
(* between two awaits is one step.  A client that is gone without the       *)
(* gateway having noticed leaves its connection behind, which takes what is *)
(* written to it and gives it to nobody.                                   *)
(***************************************************************************)
EXTENDS Integers, SequencesExt, Filters

CONSTANTS
  Clients, NoConn,
  Conns,
  Address,           \* client -> the address it comes from
  Wants,             \* client -> the kinds of event that pass its filters
  Kinds,
  ReplaySize, MaxQueue, MaxSubscribers, MaxPerAddress,
  MaxEvents          \* bound

ASSUME StreamConstants ==
  /\ NoConn \notin Conns
  /\ {ReplaySize, MaxQueue, MaxSubscribers, MaxPerAddress, MaxEvents} \subseteq Nat \ {0}

VARIABLES
  published,         \* the kinds of all events so far
  ring,              \* the events kept for replay
  conn,              \* what the gateway knows of each connection
  current,           \* client -> the connection it holds
  cursor,            \* client -> the last event it received, 0 for none
  received,          \* client -> the events it received
  lost               \* client -> those a counter or a restart accounts for

streamVars == <<published, ring, conn, current, cursor, received, lost>>

NoClient == [stage |-> "free"]
Registered == {k \in Conns : conn[k].stage # "free"}

StreamInit ==
  /\ published = <<>> /\ ring = <<>>
  /\ conn = [k \in Conns |-> NoClient]
  /\ current = [c \in Clients |-> NoConn]
  /\ cursor = [c \in Clients |-> 0]
  /\ received = [c \in Clients |-> {}]
  /\ lost = [c \in Clients |-> {}]

Matches(c, kind) == kind \in Wants[c]

\* The oldest makes room.
Appended(s, i, size) == IF Len(s) < size THEN Append(s, i) ELSE Append(Tail(s), i)

DroppedFor(c) ==
  {Head(conn[k].queue) : k \in {j \in Registered : j = current[c] /\ Len(conn[j].queue) = MaxQueue}}

Publish(kind) ==
  LET i == Len(published) + 1
  IN  /\ i <= MaxEvents
      /\ published' = Append(published, kind)
      /\ ring' = Appended(ring, i, ReplaySize)
      /\ conn' = [k \in Conns |->
                    IF k \in Registered /\ Matches(conn[k].client, kind)
                    THEN [conn[k] EXCEPT !.queue = Appended(@, i, MaxQueue)]
                    ELSE conn[k]]
      /\ lost' = [c \in Clients |-> lost[c] \cup IF Matches(c, kind) THEN DroppedFor(c) ELSE {}]
      /\ UNCHANGED <<current, cursor, received>>

\* A client reconnects from the last event it saw.
Connect(c, k) ==
  /\ current[c] = NoConn /\ conn[k].stage = "free"
  /\ Cardinality(Registered) < MaxSubscribers
  /\ Cardinality({j \in Registered : Address[conn[j].client] = Address[c]}) < MaxPerAddress
  /\ conn' = [conn EXCEPT ![k] = [stage |-> "preparing", client |-> c, since |-> cursor[c],
                                  missed |-> <<>>, queue |-> <<>>]]
  /\ current' = [current EXCEPT ![c] = k]
  /\ UNCHANGED <<published, ring, cursor, received, lost>>

\* A cursor the ring no longer holds gets nothing.
NewerIfKnown(i) ==
  IF Contains(ring, i) THEN SubSeq(ring, SelectInSeq(ring, LAMBDA j : j = i) + 1, Len(ring))
  ELSE <<>>

\* What the ring holds after an event; all of it when it no longer holds that one.
Newer(i) ==
  IF Contains(ring, i) THEN SubSeq(ring, SelectInSeq(ring, LAMBDA j : j = i) + 1, Len(ring))
  ELSE ring

ReplaySince(c, i) == Selected(Newer(i), {j \in 1..Len(published) : Matches(c, published[j])})

\* A miss is counted: what the ring let go of is known to be lost.
RotatedOut(i) == IF ring = <<>> THEN {} ELSE {j \in 1..Len(published) : i < j /\ j < Head(ring)}

\* The headers are out; what was missed is taken from the ring at once.
Prepared(k) ==
  /\ conn[k].stage = "preparing"
  /\ LET c == conn[k].client
         resumes == conn[k].since # 0
     IN  /\ conn' = [conn EXCEPT ![k].stage = "replaying",
                                 ![k].missed = IF resumes THEN ReplaySince(c, conn[k].since) ELSE <<>>]
         /\ lost' = [lost EXCEPT ![c] = @ \cup IF resumes THEN RotatedOut(conn[k].since) ELSE {}]
  /\ UNCHANGED <<published, ring, current, cursor, received>>

\* What is written reaches the client if this is still its connection.
Write(k, i) ==
  LET c == conn[k].client
  IN  IF current[c] = k
      THEN /\ cursor' = [cursor EXCEPT ![c] = i]
           /\ received' = [received EXCEPT ![c] = @ \cup {i}]
      ELSE UNCHANGED <<cursor, received>>

WriteMissed(k) ==
  /\ conn[k].stage = "replaying" /\ conn[k].missed # <<>>
  /\ Write(k, Head(conn[k].missed))
  /\ conn' = [conn EXCEPT ![k].missed = Tail(@)]
  /\ UNCHANGED <<published, ring, current, lost>>

Hello(k) ==
  /\ conn[k].stage = "replaying" /\ conn[k].missed = <<>>
  /\ conn' = [conn EXCEPT ![k].stage = "open"]
  /\ UNCHANGED <<published, ring, current, cursor, received, lost>>

WriteLive(k) ==
  /\ conn[k].stage = "open" /\ conn[k].queue # <<>>
  /\ Write(k, Head(conn[k].queue))
  /\ conn' = [conn EXCEPT ![k].queue = Tail(@)]
  /\ UNCHANGED <<published, ring, current, lost>>

\* A write fails or the handler is cancelled, at any await.
HandlerEnds(k) ==
  /\ k \in Registered
  /\ conn' = [conn EXCEPT ![k] = NoClient]
  /\ current' = [c \in Clients |-> IF current[c] = k THEN NoConn ELSE current[c]]
  /\ UNCHANGED <<published, ring, cursor, received, lost>>

Leaves(c) ==
  /\ current[c] # NoConn
  /\ current' = [current EXCEPT ![c] = NoConn]
  /\ UNCHANGED <<published, ring, conn, cursor, received, lost>>

\* Nothing is persisted.
GatewayRestarts ==
  /\ ring' = <<>>
  /\ conn' = [k \in Conns |-> NoClient]
  /\ current' = [c \in Clients |-> NoConn]
  /\ lost' = [c \in Clients |-> lost[c] \cup (1..Len(published) \ received[c])]
  /\ UNCHANGED <<published, cursor, received>>

StreamNext ==
  \/ \E kind \in Kinds : Publish(kind)
  \/ \E c \in Clients : Leaves(c) \/ \E k \in Conns : Connect(c, k)
  \/ \E k \in Conns : Prepared(k) \/ WriteMissed(k) \/ Hello(k) \/ WriteLive(k) \/ HandlerEnds(k)
  \/ GatewayRestarts

StreamSpec == StreamInit /\ [][StreamNext]_streamVars

StreamTypeOK ==
  /\ published \in Seq(Kinds) /\ Len(ring) <= ReplaySize
  /\ \A c \in Clients : current[c] \in Conns \cup {NoConn} /\ cursor[c] \in received[c] \cup {0}
  /\ \A k \in Registered : Len(conn[k].queue) <= MaxQueue
  /\ Cardinality(Registered) <= MaxSubscribers

\* A client that saw one event and later another has seen every event between
\* them that it asked for, except those a counter tells of: over reconnections,
\* connections left behind, events published while the handler is still
\* preparing, and a cursor the ring no longer holds.
NothingIsLostSilently ==
  \A c \in Clients :
    \A i \in 1..Len(published) :
      /\ Matches(c, published[i])
      /\ \E before, after \in received[c] : before < i /\ i < after
      => i \in received[c] \cup lost[c]

=============================================================================

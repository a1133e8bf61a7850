-------------------------- MODULE MCEventBroadcaster --------------------------
(* EventBroadcaster for TLC. *)
EXTENDS EventBroadcaster, TLC

CONSTANTS wanted, other

OneAddress == [c \in Clients |-> 1]
WantsSome == [c \in Clients |-> {wanted}]
=============================================================================

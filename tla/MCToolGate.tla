------------------------------ MODULE MCToolGate ------------------------------
(* ToolGate for TLC: a read, an action named like one that resolves to a     *)
(* transfer, a deployment from source, and a request to Neo.                 *)
EXTENDS ToolGate, TLC

MCReach == [neo |-> {"read", "renamed", "deploy"}, trinity |-> {"read", "request"}]

\* What their own routes refuse: an anonymous caller, every change of state.
MCRefused == [session |-> {"renamed"}, anonymous |-> {"renamed", "request"}]
=============================================================================

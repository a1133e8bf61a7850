-------------------------------- MODULE ToolGate --------------------------------
(***************************************************************************)
(* What stands between a model that asks for a tool and the tool: the ReAct *)
(* loop, the protocol stack's gates, each of which may be missing or fail,  *)
(* the dispatcher's boundaries, and the hand-off through which Trinity has  *)
(* Neo execute.  Every gate is awaited, so each decides in a step of its    *)
(* own.  Advice, risk and learning decide nothing and are left out.        *)
(***************************************************************************)
EXTENDS Integers, SequencesExt

CONSTANTS
  Calls,             \* a tool with its arguments
  LabelMoves,        \* those whose action's name could move value
  OperationMoves,    \* those that resolve to an operation that changes state
  Signed,            \* those signed with the platform's key
  Sources,           \* contract tools given source code
  Escalations,       \* request_execution
  Reach,             \* agent -> the calls it may make
  Refused,           \* caller without the operator key -> calls its routes refuse
  MaxAsked           \* bound

ASSUME GateConstants ==
  /\ Escalations \subseteq Calls /\ Sources \subseteq Calls /\ Signed \subseteq Calls
  /\ LabelMoves \subseteq Calls /\ OperationMoves \subseteq Calls
  /\ {"neo", "trinity"} \subseteq DOMAIN Reach
  /\ MaxAsked \in Nat

VARIABLES
  built,             \* the stack's gates that were constructed, or NoStack
  agent, caller,     \* of the turn
  asked,             \* tool_call_history
  stage,
  verdicts           \* what each gate made of the call

gateVars == <<built, agent, caller, asked, stage, verdicts>>

call == Last(asked)

Gates == <<"morpheus", "rexhepi", "glasswing">>     \* in the order they are consulted
NoStack == {"no stack"}
Callers == {"operator", "session", "anonymous", "internal"}
LoopThreshold == 3

Undecided == [g \in Range(Gates) \cup {"handoff"} |-> "undecided"]

\* The stack as it could be built.
Stacks == (SUBSET Range(Gates)) \cup {NoStack}

GateInit ==
  /\ agent = "neo" /\ caller = "internal" /\ built = NoStack
  /\ asked = <<>> /\ stage = "idle" /\ verdicts = Undecided

\* Each turn has its own agent, caller and stack.
TurnStarts ==
  /\ stage = "idle"
  /\ agent' \in DOMAIN Reach /\ caller' \in Callers /\ built' \in Stacks
  /\ asked' = <<>> /\ stage' = "thinking"
  /\ UNCHANGED verdicts

\* The third identical call of a turn is skipped.
Repeats(c) == Len(SelectSeq(asked, LAMBDA d : d = c)) + 1 >= LoopThreshold

Ask(c) ==
  /\ stage = "thinking" /\ Len(asked) < MaxAsked
  /\ asked' = Append(asked, c)
  /\ IF Repeats(c) THEN UNCHANGED <<stage, verdicts>>
     ELSE stage' = "gating" /\ verdicts' = Undecided
  /\ UNCHANGED <<built, agent, caller>>

Goto(s) == stage' = s /\ UNCHANGED <<built, agent, caller, asked, verdicts>>

\* By the action's name alone.
LabelDenies(c) == c \in LabelMoves

\* The direction every fault takes: what could move value is refused, by its
\* name or by what it resolves to.
FaultDenies(c) == c \in LabelMoves \cup OperationMoves

AfterFault == Goto(IF FaultDenies(call) THEN "thinking" ELSE "dispatching")

\* No stack, or the gate as a whole raised.
StackFails == stage = "gating" /\ AfterFault

\* Somebody else's address, or an approval above the cap, under the platform's key.
SeamRefuses ==
  /\ stage = "gating" /\ built # NoStack /\ call \in Signed
  /\ verdicts = Undecided
  /\ Goto("thinking")

Consults(g) == g # "glasswing" \/ call \in Sources

Before(i) == {Gates[j] : j \in 1..(i - 1)}

IsDecided(g) == Consults(g) => verdicts[g] # "undecided"

\* A gate that was not built has failed.
Verdicts(g) == IF g \in built THEN {"allow", "deny", "fault"} ELSE {"fault"}

GateDecides(i) ==
  LET g == Gates[i]
  IN  /\ stage = "gating" /\ built # NoStack
      /\ \A h \in Before(i) : IsDecided(h)
      /\ ~ IsDecided(g)
      /\ \E v \in Verdicts(g) :
           /\ verdicts' = [verdicts EXCEPT ![g] = v]
           /\ stage' = IF v = "deny" \/ (v = "fault" /\ FaultDenies(call)) THEN "thinking" ELSE "gating"
      /\ UNCHANGED <<built, agent, caller, asked>>

Approved ==
  /\ stage = "gating" /\ built # NoStack
  /\ \A g \in Range(Gates) : IsDecided(g)
  /\ Goto("dispatching")

IsPrivileged == caller \in {"operator", "internal"}

\* The agent's reach, and for whoever has no operator key Trinity's as well and
\* what its own routes refuse it.
WithinReach ==
  /\ call \in Reach[agent]
  /\ ~ IsPrivileged => call \in Reach["trinity"] \ Refused[caller]

Dispatch ==
  /\ stage = "dispatching"
  /\ Goto(IF ~ WithinReach THEN "thinking" ELSE IF call \in Escalations THEN "handoff" ELSE "running")

\* Morpheus once more, about the operation itself; here any fault refuses.
HandOff ==
  /\ stage = "handoff"
  /\ \E v \in {"allow", "deny", "fault"} :
       /\ verdicts' = [verdicts EXCEPT !["handoff"] = v]
       /\ stage' = IF v = "allow" THEN "running" ELSE "thinking"
  /\ UNCHANGED <<built, agent, caller, asked>>

\* It answers, fails or is timed out: the model goes on in every case.
ToolEnds == stage = "running" /\ Goto("thinking")

TurnEnds == stage = "thinking" /\ Goto("idle")

GateNext ==
  \/ TurnStarts \/ TurnEnds \/ StackFails \/ SeamRefuses \/ Approved \/ Dispatch \/ HandOff \/ ToolEnds
  \/ \E c \in Calls : Ask(c)
  \/ \E i \in 1..Len(Gates) : GateDecides(i)

GateSpec == GateInit /\ [][GateNext]_gateVars

GateTypeOK ==
  /\ built \in Stacks
  /\ agent \in DOMAIN Reach /\ caller \in Callers
  /\ asked \in Seq(Calls)
  /\ stage \in {"idle", "thinking", "gating", "dispatching", "handoff", "running"}

\* A fault is never an approval: while a call that could move value runs, every
\* gate it passes was there and said yes, the hand-off's too, and a caller
\* without the operator key got there only by what Trinity may do.
RunsOnlyIfAllowed ==
  stage = "running" =>
    /\ call \in LabelMoves \cup OperationMoves =>
         /\ \A g \in Range(Gates) : Consults(g) => verdicts[g] = "allow"
         /\ call \in Escalations => verdicts["handoff"] = "allow"
    /\ ~ IsPrivileged => call \in Reach["trinity"] \ Refused[caller]
=============================================================================

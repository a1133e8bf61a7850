------------------------------ MODULE MatrixDAO ------------------------------
(***************************************************************************)
(* The governance contract: deposits that are votes, checkpoints of them   *)
(* per block, proposals voted on with the power of the block before they   *)
(* were made, a timelock, and execution out of the ETH the deposits are in. *)
(*                                                                         *)
(* A transaction is one step; one that reverts is none.  Blocks and time   *)
(* advance together.  A proposal's calls are what they cost the contract:  *)
(* a plain value or a treasury withdrawal with its fee, both sent away;    *)
(* calls back into the contract's voting functions are left out.           *)
(***************************************************************************)
EXTENDS Sequences, FiniteSets, Sums

CONSTANTS
  Voters, Owner,
  Models,          \* voting models the owner may set
  VotingDelay, VotingPeriod, TimelockDelay,   \* in blocks
  QuorumBps, VotesDenominator,
  VoteDeposits, Spendings,
  MaxProposals, MaxVotingPower, MaxCheckpoints, MaxBlock  \* bounds

ASSUME DaoConstants ==
  /\ Owner \notin Voters /\ IsFiniteSet(Voters)
  /\ Models \subseteq {"SimpleMajority", "SuperMajority", "QuadraticVoting"}
  /\ VotingDelay \in Nat \ {0} /\ VotingPeriod \in Nat /\ TimelockDelay \in Nat \ {0}
  /\ VotesDenominator \in Nat \ {0} /\ QuorumBps \in 0 .. VotesDenominator
  /\ VoteDeposits \subseteq Nat \ {0} /\ Spendings \subseteq Nat
  /\ MaxProposals \in Nat /\ MaxVotingPower \in Nat /\ MaxCheckpoints \in Nat
  /\ MaxBlock \in Nat \ {0}

VARIABLES
  blockNumber,
  treasury,        \* address(this).balance
  votingPower, totalVotingPower,
  checkpoints, totalCheckpoints,
  proposals, nextProposalId,
  defaultVotingModel,
  past             \* bookkeeping: the power each earlier block ended with

powerVars == <<votingPower, totalVotingPower, checkpoints, totalCheckpoints>>
daoVars == <<blockNumber, treasury, powerVars, proposals, nextProposalId,
             defaultVotingModel, past>>

ProposalIds == 0 .. MaxProposals - 1
Support == {"against", "for", "abstain"}

NoProposal ==
  [proposer |-> Owner, model |-> "SimpleMajority", snapshot |-> 0, startBlock |-> 0,
   endBlock |-> 0, votes |-> [s \in Support |-> 0], voted |-> {}, executed |-> FALSE,
   cancelled |-> FALSE, spends |-> 0, eta |-> 0]

DaoInit ==
  /\ blockNumber = 1
  /\ treasury = 0
  /\ votingPower = [u \in Voters |-> 0]
  /\ totalVotingPower = 0
  /\ checkpoints = [u \in Voters |-> << >>]
  /\ totalCheckpoints = << >>
  /\ proposals = [id \in ProposalIds |-> NoProposal]
  /\ nextProposalId = 0
  /\ defaultVotingModel = "SimpleMajority"
  /\ past = << >>

-----------------------------------------------------------------------------
(* Checkpoints *)

\* The last checkpoint of this block is written over.
WriteCheckpoint(ckpts, votes) ==
  LET n == Len(ckpts)
      latest == [fromBlock |-> blockNumber, votes |-> votes]
  IN
  IF n > 0 /\ ckpts[n].fromBlock = blockNumber
    THEN [ckpts EXCEPT ![n] = latest]
    ELSE Append(ckpts, latest)

\* The binary search: how many checkpoints are not after block b.
Upto(ckpts, b) ==
  LET search[range \in (0 .. Len(ckpts)) \X (0 .. Len(ckpts))] ==
        LET low == range[1]
            high == range[2]
            mid == (low + high) \div 2
        IN
        IF low >= high THEN high
        ELSE IF ckpts[mid + 1].fromBlock > b
          THEN search[<<low, mid>>]
          ELSE search[<<mid + 1, high>>]
  IN search[<<0, Len(ckpts)>>]

Lookup(ckpts, b) == IF Upto(ckpts, b) = 0 THEN 0 ELSE ckpts[Upto(ckpts, b)].votes

\* _sqrt, Newton's iteration from x.
Sqrt(x) ==
  LET z == (x + 1) \div 2
      iterate[y \in 1 .. x] ==
        LET next == (x \div y + y) \div 2 IN
        IF next < y THEN iterate[next] ELSE y
  IN IF x = 0 THEN 0 ELSE IF z < x THEN iterate[z] ELSE x

-----------------------------------------------------------------------------
(* Voting power *)

Hold(u, power, total) ==
  /\ votingPower' = [votingPower EXCEPT ![u] = power]
  /\ totalVotingPower' = total
  /\ checkpoints' = [checkpoints EXCEPT ![u] = WriteCheckpoint(@, power)]
  /\ totalCheckpoints' = WriteCheckpoint(totalCheckpoints, total)
  /\ Len(totalCheckpoints') <= MaxCheckpoints
  /\ UNCHANGED <<blockNumber, proposals, nextProposalId, defaultVotingModel, past>>

DepositVotingPower(u, value) ==
  /\ totalVotingPower + value <= MaxVotingPower
  /\ Hold(u, votingPower[u] + value, totalVotingPower + value)
  /\ treasury' = treasury + value

WithdrawVotingPower(u, amount) ==
  /\ votingPower[u] >= amount
  /\ treasury >= amount
  /\ Hold(u, votingPower[u] - amount, totalVotingPower - amount)
  /\ treasury' = treasury - amount

-----------------------------------------------------------------------------
(* Proposals *)

WeightNow(u, p) == votingPower[u]  \* mutant: power bought after the proposal votes

\* Votes are counted against the power of the snapshot.
Weight(u, p) == Lookup(checkpoints[u], p.snapshot)

TotalPowerNow(p) == totalVotingPower  \* mutant: the quorum moves with the deposits

TotalPower(p) == Lookup(totalCheckpoints, p.snapshot)

Cast(p) == p.votes["for"] + p.votes["against"] + p.votes["abstain"]

Passed(p) ==
  IF p.model = "SuperMajority"
    THEN p.votes["for"] * 3 > (p.votes["for"] + p.votes["against"]) * 2
    ELSE p.votes["for"] > p.votes["against"]

State(id) ==
  LET p == proposals[id] IN
  CASE p.cancelled -> "Cancelled"
    [] ~p.cancelled /\ p.executed -> "Executed"
    [] ~p.cancelled /\ ~p.executed /\ blockNumber < p.startBlock -> "Pending"
    [] ~p.cancelled /\ ~p.executed /\ blockNumber \in p.startBlock .. p.endBlock -> "Active"
    [] OTHER ->
         IF Cast(p) < (TotalPower(p) * QuorumBps) \div VotesDenominator \/ ~Passed(p)
           THEN "Defeated"
           ELSE IF p.eta # 0 THEN "Queued" ELSE "Succeeded"

\* A proposal is written over what is there but for its two flags.
Propose(u, spends, model) ==
  LET id == nextProposalId IN
  /\ id < MaxProposals
  /\ votingPower[u] > 0
  /\ model = defaultVotingModel
  /\ proposals' = [proposals EXCEPT ![id] =
       [@ EXCEPT !.proposer = u, !.model = model, !.snapshot = blockNumber - 1,
                 !.startBlock = blockNumber + VotingDelay,
                 !.endBlock = blockNumber + VotingDelay + VotingPeriod,
                 !.spends = spends]]
  /\ nextProposalId' = id + 1
  /\ UNCHANGED <<blockNumber, treasury, powerVars, defaultVotingModel, past>>

Counted(p, u, support, effective) ==
  [p EXCEPT !.voted = @ \cup {u}, !.votes[support] = @ + effective]

CastVote(u, id, support) ==
  LET p == proposals[id]
      weight == Weight(u, p)
      effective == IF p.model = "QuadraticVoting" THEN Sqrt(weight) ELSE weight
  IN
  /\ State(id) = "Active"
  /\ u \notin p.voted
  /\ weight > 0
  /\ proposals' = [proposals EXCEPT ![id] = Counted(@, u, support, effective)]
  /\ UNCHANGED <<blockNumber, treasury, powerVars, nextProposalId, defaultVotingModel, past>>

Queue(id) ==
  /\ State(id) = "Succeeded"
  /\ proposals' = [proposals EXCEPT ![id].eta = blockNumber + TimelockDelay]
  /\ UNCHANGED <<blockNumber, treasury, powerVars, nextProposalId, defaultVotingModel, past>>

StillQueued(p) == p  \* mutant: the calls are made again

Executed(p) == [p EXCEPT !.executed = TRUE]

Execute(id) ==
  LET p == proposals[id] IN
  /\ State(id) = "Queued"
  /\ blockNumber >= p.eta
  /\ treasury >= p.spends
  /\ treasury' = treasury - p.spends
  /\ proposals' = [proposals EXCEPT ![id] = Executed(p)]
  /\ UNCHANGED <<blockNumber, powerVars, nextProposalId, defaultVotingModel, past>>

\* The owner may cancel an id before it is proposed, and what is proposed under
\* it then stays cancelled.
Cancel(u, id) ==
  /\ u = Owner \/ (id < nextProposalId /\ u = proposals[id].proposer)
  /\ ~proposals[id].executed
  /\ proposals' = [proposals EXCEPT ![id].cancelled = TRUE]
  /\ UNCHANGED <<blockNumber, treasury, powerVars, nextProposalId, defaultVotingModel, past>>

SetVotingModel(model) ==
  /\ defaultVotingModel' = model
  /\ UNCHANGED <<blockNumber, treasury, powerVars, proposals, nextProposalId, past>>

ReceiveDonation(value) ==
  /\ treasury + value <= MaxVotingPower
  /\ treasury' = treasury + value
  /\ UNCHANGED <<blockNumber, powerVars, proposals, nextProposalId, defaultVotingModel, past>>

NextBlock ==
  /\ blockNumber < MaxBlock
  /\ blockNumber' = blockNumber + 1
  /\ past' = Append(past, [power |-> votingPower, total |-> totalVotingPower])
  /\ UNCHANGED <<treasury, powerVars, proposals, nextProposalId, defaultVotingModel>>

DaoNext ==
  \/ \E u \in Voters :
        \/ \E value \in VoteDeposits : DepositVotingPower(u, value) \/ WithdrawVotingPower(u, value)
        \/ \E spends \in Spendings, model \in Models : Propose(u, spends, model)
        \/ \E id \in ProposalIds, support \in Support : CastVote(u, id, support)
  \/ \E id \in ProposalIds : Queue(id) \/ Execute(id)
  \/ \E u \in Voters \cup {Owner}, id \in ProposalIds : Cancel(u, id)
  \/ \E model \in Models : SetVotingModel(model)
  \/ \E value \in VoteDeposits : ReceiveDonation(value)
  \/ NextBlock

DaoSpec == DaoInit /\ [][DaoNext]_daoVars
-----------------------------------------------------------------------------
(* Properties *)

Checkpoint == [fromBlock : 1 .. MaxBlock, votes : Nat]
Proposal ==
  [proposer : Voters \cup {Owner}, model : Models \cup {"SimpleMajority"}, snapshot : Nat,
   startBlock : Nat, endBlock : Nat, votes : [Support -> Nat], voted : SUBSET Voters,
   executed : BOOLEAN, cancelled : BOOLEAN, spends : Nat, eta : Nat]

DaoTypeOK ==
  /\ blockNumber \in 1 .. MaxBlock
  /\ treasury \in Nat
  /\ votingPower \in [Voters -> Nat]
  /\ totalVotingPower = SumOf(votingPower, Voters)
  /\ checkpoints \in [Voters -> Seq(Checkpoint)]
  /\ totalCheckpoints \in Seq(Checkpoint)
  /\ proposals \in [ProposalIds -> Proposal]
  /\ nextProposalId \in 0 .. MaxProposals
  /\ defaultVotingModel \in Models \cup {"SimpleMajority"}
  /\ Len(past) = blockNumber - 1

\* What the search finds for a block that is over is what everybody held when it
\* ended, however often the power changed within it and whatever happened since.
CheckpointsTellThePast ==
  \A b \in 1 .. Len(past) :
     /\ \A u \in Voters : Lookup(checkpoints[u], b) = past[b].power[u]
     /\ Lookup(totalCheckpoints, b) = past[b].total

\* "Power bought after a proposal exists cannot vote on it": no more votes are
\* cast than there was power in the block before the proposal, however it is
\* withdrawn, handed on and deposited again while the vote is open.
VotesWithinSnapshot ==
  \A id \in ProposalIds :
     LET p == proposals[id] IN
     Cast(p) <= (IF p.snapshot = 0 THEN 0 ELSE past[p.snapshot].total)

\* A vote is by what was held before the proposal, and that stays what it was.
SnapshotsHold == CheckpointsTellThePast /\ VotesWithinSnapshot

Follows == [Pending   |-> {"Active"}, Active |-> {"Defeated", "Succeeded"},
            Defeated  |-> {}, Succeeded |-> {"Queued"}, Queued |-> {"Executed"},
            Executed  |-> {}, Cancelled |-> {}]

\* A proposal goes through its states in order, once, and may be cancelled until
\* it is executed; once its vote is over no deposit, exit or later vote changes
\* what it came to.  (An id is followed from when it is proposed.)
OutcomeIsFinal ==
  [][\A id \in ProposalIds : id < nextProposalId =>
        \/ State(id)' = State(id)
        \/ State(id)' \in Follows[State(id)]
        \/ State(id) # "Executed" /\ State(id)' = "Cancelled"]_daoVars

\* The ETH of depositors leaves by their own exits and by proposals that were
\* executed, by each of these once and for what it asked.
DepositorsAreWhole ==
  LET executed == {id \in ProposalIds : proposals[id].executed} IN
  treasury + SumOf([id \in ProposalIds |-> proposals[id].spends], executed) >= totalVotingPower
=============================================================================

--------------------------- MODULE MatrixInsurance ---------------------------
(***************************************************************************)
(* The insurance contract: one pool that sells coverage against what it    *)
(* holds, pays claims and refunds out of it, and lets its owner take what  *)
(* is left beyond its reserve and its liabilities.                         *)
(*                                                                         *)
(* A transaction is one step; one that reverts is none.  What a receiver of *)
(* ETH does from within its call is a step before or after it: everything  *)
(* that pays is nonReentrant, and what is not only lowers what a purchase  *)
(* has yet to compare.  Totals kept for display are left out, and so is an *)
(* overpayment, which is sent back before anything is written.             *)
(***************************************************************************)
EXTENDS FiniteSets, Sums

CONSTANTS
  Holders,
  NoHolder,        \* address(0), the holder of a policy never written
  Oracles,         \* whom the owner may name as oracle
  FeeRecipients, Pool,  \* whom the owner may name for fees; the contract's own address
  Conditions,
  Rates, RateDenominator,   \* premium rates in bps, by tier
  Coverages, MinCoverage, MaxCoverage,
  PolicyDuration, MinPolicyAge, MaxActivePolicies, ReserveRatio,
  Donations,       \* values received plainly
  MaxPolicies, MaxPool, MaxInsuranceTime   \* bounds

ASSUME InsuranceConstants ==
  /\ NoHolder \notin Holders
  /\ RateDenominator \in Nat \ {0}
  /\ Rates \subseteq 0 .. RateDenominator
  /\ Coverages \subseteq Nat /\ MinCoverage \in Nat /\ MaxCoverage \in Nat
  /\ PolicyDuration \in Nat /\ MinPolicyAge \in Nat \ {0} /\ MaxActivePolicies \in Nat
  /\ ReserveRatio \in 0 .. RateDenominator
  /\ Donations \subseteq Nat
  /\ MaxPolicies \in Nat /\ MaxPool \in Nat /\ MaxInsuranceTime \in Nat

VARIABLES
  insuranceTime,   \* block.timestamp
  pool,            \* address(this).balance
  policies, nextPolicyId,
  reported,        \* triggerEvents: when a condition was reported, 0 if it was not
  reserveFund, totalOutstandingCoverage,
  activePoliciesCount, activePoliciesOf,
  oracle, feeRecipient

roleVars == <<oracle, feeRecipient>>
counterVars == <<totalOutstandingCoverage, activePoliciesCount, activePoliciesOf>>
insuranceVars == <<insuranceTime, pool, policies, nextPolicyId, reported, reserveFund,
                   counterVars, roleVars>>

PolicyIds == 0 .. MaxPolicies
PolicyStates == {"Active", "Claimed", "Expired", "Cancelled"}

\* What the mapping holds for an id nobody has bought: all zero, and zero is Active.
Unwritten == [holder |-> NoHolder, coverage |-> 0, premium |-> 0, policyState |-> "Active",
              start |-> 0, end |-> 0, condition |-> NoHolder]

InsuranceInit ==
  /\ insuranceTime = 1
  /\ pool = 0
  /\ policies = [id \in PolicyIds |-> Unwritten]
  /\ nextPolicyId = 0
  /\ reported = [c \in Conditions |-> 0]
  /\ reserveFund = 0
  /\ totalOutstandingCoverage = 0
  /\ activePoliciesCount = 0
  /\ activePoliciesOf = [h \in Holders \cup {NoHolder} |-> 0]
  /\ oracle \in Oracles
  /\ feeRecipient \in FeeRecipients

-----------------------------------------------------------------------------
CalculatePremium(coverage, rate) == (coverage * rate) \div RateDenominator

\* Coverage is sold only against what the pool holds, the premium included.
Backed(coverage, premium) == totalOutstandingCoverage + coverage <= pool + premium

BackedAlone(coverage, premium) == coverage <= pool + premium  \* mutant: other policies forgotten

PurchasePolicy(h, coverage, rate, condition) ==
  LET premium == CalculatePremium(coverage, rate) IN
  /\ nextPolicyId < MaxPolicies
  /\ coverage \in MinCoverage .. MaxCoverage
  /\ Backed(coverage, premium)
  /\ activePoliciesOf[h] < MaxActivePolicies
  /\ pool' = pool + premium
  /\ reserveFund' = reserveFund + (premium * ReserveRatio) \div RateDenominator
  /\ totalOutstandingCoverage' = totalOutstandingCoverage + coverage
  /\ activePoliciesOf' = [activePoliciesOf EXCEPT ![h] = @ + 1]
  /\ activePoliciesCount' = activePoliciesCount + 1
  /\ policies' = [policies EXCEPT ![nextPolicyId] =
       [holder |-> h, coverage |-> coverage, premium |-> premium, policyState |-> "Active",
        start |-> insuranceTime, end |-> insuranceTime + PolicyDuration, condition |-> condition]]
  /\ nextPolicyId' = nextPolicyId + 1
  /\ UNCHANGED <<insuranceTime, reported, roleVars>>

CloseUnowned(id, state) ==  \* mutant: no count per holder stops an id nobody bought
  LET p == policies[id] IN
  /\ p.policyState = "Active"
  /\ activePoliciesCount > 0
  /\ totalOutstandingCoverage >= p.coverage
  /\ policies' = [policies EXCEPT ![id].policyState = state]
  /\ activePoliciesCount' = activePoliciesCount - 1
  /\ activePoliciesOf' = [activePoliciesOf EXCEPT ![p.holder] = IF @ > 0 THEN @ - 1 ELSE 0]
  /\ totalOutstandingCoverage' = totalOutstandingCoverage - p.coverage
  /\ UNCHANGED <<insuranceTime, nextPolicyId, reported, reserveFund, roleVars>>

\* An active policy leaves the books; checked arithmetic reverts below zero.
Close(id, state) ==
  LET p == policies[id] IN
  /\ p.policyState = "Active"
  /\ activePoliciesCount > 0
  /\ activePoliciesOf[p.holder] > 0
  /\ totalOutstandingCoverage >= p.coverage
  /\ policies' = [policies EXCEPT ![id].policyState = state]
  /\ activePoliciesCount' = activePoliciesCount - 1
  /\ activePoliciesOf' = [activePoliciesOf EXCEPT ![p.holder] = @ - 1]
  /\ totalOutstandingCoverage' = totalOutstandingCoverage - p.coverage
  /\ UNCHANGED <<insuranceTime, nextPolicyId, reported, reserveFund, roleVars>>

\* The trigger came after the policy was old enough.
Triggered(p) ==
  /\ reported[p.condition] > p.start
  /\ reported[p.condition] >= p.start + MinPolicyAge

ClaimPolicy(h, id) ==
  LET p == policies[id] IN
  /\ p.holder = h
  /\ insuranceTime <= p.end
  /\ Triggered(p)
  /\ Close(id, "Claimed")
  /\ pool >= p.coverage
  /\ pool' = pool - p.coverage

ExpirePolicy(id) ==
  /\ insuranceTime > policies[id].end
  /\ Close(id, "Expired")
  /\ UNCHANGED pool

CancelPolicy(h, id) ==
  LET refund == policies[id].premium \div 2 IN
  /\ policies[id].holder = h
  /\ Close(id, "Cancelled")
  /\ pool' = IF pool >= refund THEN pool - refund ELSE pool

ReportTrigger(o, c) ==
  /\ o = oracle
  /\ reported[c] = 0
  /\ reported' = [reported EXCEPT ![c] = insuranceTime]
  /\ UNCHANGED <<insuranceTime, pool, policies, nextPolicyId, reserveFund, counterVars, roleVars>>

UpdateOracle(o) ==
  /\ oracle' = o
  /\ UNCHANGED <<insuranceTime, pool, policies, nextPolicyId, reported, reserveFund,
                 counterVars, feeRecipient>>

UpdateInsuranceFeeRecipient(r) ==
  /\ feeRecipient' = r
  /\ UNCHANGED <<insuranceTime, pool, policies, nextPolicyId, reported, reserveFund,
                 counterVars, oracle>>

ReserveAlone == reserveFund  \* mutant: the owner withdraws into the coverage

Liabilities == reserveFund + totalOutstandingCoverage

\* The contract pays itself when it is its own recipient.
WithdrawExcess ==
  /\ pool > Liabilities
  /\ pool' = IF feeRecipient = Pool THEN pool ELSE Liabilities
  /\ UNCHANGED <<insuranceTime, policies, nextPolicyId, reported, reserveFund, counterVars,
                 roleVars>>

Receive(value) ==
  /\ pool + value <= MaxPool
  /\ pool' = pool + value
  /\ UNCHANGED <<insuranceTime, policies, nextPolicyId, reported, reserveFund, counterVars,
                 roleVars>>

InsuranceTick ==
  /\ insuranceTime < MaxInsuranceTime
  /\ insuranceTime' = insuranceTime + 1
  /\ UNCHANGED <<pool, policies, nextPolicyId, reported, reserveFund, counterVars, roleVars>>

InsuranceNext ==
  \/ \E h \in Holders, coverage \in Coverages, rate \in Rates, c \in Conditions :
        PurchasePolicy(h, coverage, rate, c)
  \/ \E h \in Holders, id \in PolicyIds : ClaimPolicy(h, id) \/ CancelPolicy(h, id)
  \/ \E id \in PolicyIds : ExpirePolicy(id)
  \/ \E o \in Oracles, c \in Conditions : ReportTrigger(o, c)
  \/ \E o \in Oracles : UpdateOracle(o)
  \/ \E r \in FeeRecipients : UpdateInsuranceFeeRecipient(r)
  \/ WithdrawExcess
  \/ \E value \in Donations : Receive(value)
  \/ InsuranceTick

InsuranceSpec == InsuranceInit /\ [][InsuranceNext]_insuranceVars
-----------------------------------------------------------------------------
(* Properties *)

Policy == [holder : Holders \cup {NoHolder}, coverage : Nat, premium : Nat,
           policyState : PolicyStates, start : Nat, end : Nat,
           condition : Conditions \cup {NoHolder}]

InsuranceTypeOK ==
  /\ insuranceTime \in Nat
  /\ pool \in Nat
  /\ policies \in [PolicyIds -> Policy]
  /\ nextPolicyId \in 0 .. MaxPolicies
  /\ reported \in [Conditions -> Nat]
  /\ reserveFund \in Nat
  /\ totalOutstandingCoverage \in Nat
  /\ activePoliciesCount \in Nat
  /\ activePoliciesOf \in [Holders \cup {NoHolder} -> Nat]
  /\ oracle \in Oracles
  /\ feeRecipient \in FeeRecipients

\* "Coverage the pool owes if every active policy triggered - a liability: no
\* policy is sold beyond what the pool holds, and the owner cannot withdraw into
\* it": whatever is bought, claimed, cancelled and withdrawn in any order, the
\* pool holds what it counts as outstanding.
CoverageIsBacked == pool >= totalOutstandingCoverage

ActiveIds == {id \in PolicyIds : id < nextPolicyId /\ policies[id].policyState = "Active"}
ActiveIdsOf(h) == {id \in ActiveIds : policies[id].holder = h}

\* The three counters are those of the policies that are active, so that closing
\* one never reverts, nobody holds more than the limit, and closing an id that
\* was never bought - whose state is Active by default - does nothing.
PoliciesAreCounted ==
  /\ totalOutstandingCoverage = SumOf([id \in PolicyIds |-> policies[id].coverage], ActiveIds)
  /\ activePoliciesCount = Cardinality(ActiveIds)
  /\ \A h \in Holders : /\ activePoliciesOf[h] = Cardinality(ActiveIdsOf(h))
                        /\ activePoliciesOf[h] <= MaxActivePolicies
  /\ \A id \in PolicyIds : id >= nextPolicyId => policies[id] = Unwritten
=============================================================================

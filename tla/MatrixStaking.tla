---------------------------- MODULE MatrixStaking ----------------------------
(***************************************************************************)
(* The staking contract: principal, a reserve that alone pays rewards, what *)
(* is owed when the reserve is short, and commission its recipient would   *)
(* not take.                                                               *)
(*                                                                         *)
(* A transaction is one step; one that reverts is none.  What a receiver   *)
(* of ETH may do to the contract from within its call is a step of its own *)
(* after it: the functions without nonReentrant touch nothing the caller   *)
(* has yet to read.  startTime and totalClaimed are for display and left   *)
(* out; sums do not overflow (checked arithmetic would revert).            *)
(***************************************************************************)
EXTENDS FiniteSets, Sums

CONSTANTS
  Stakers,
  Recipients,       \* addresses the owner may name for commission
  Contract,         \* the contract's own address
  MinimumStake,
  Ether,            \* the unit RewardRate is for (1 ether)
  RewardRate,       \* REWARD_RATE_PER_SECOND
  CommissionBps, BpsDenominator,
  Deposits,         \* values sent with stake()
  Funds,            \* values sent with fundRewards() or plainly
  Prefunded,        \* balances the address may have before the contract exists
  MaxTime, MaxStaked, MaxFunded  \* bounds

ASSUME StakingConstants ==
  /\ IsFiniteSet(Stakers)
  /\ MinimumStake \in Nat \ {0} /\ Ether \in Nat \ {0} /\ RewardRate \in Nat
  /\ BpsDenominator \in Nat \ {0} /\ CommissionBps \in 0 .. BpsDenominator
  /\ Deposits \subseteq Nat /\ Funds \subseteq Nat /\ Prefunded \subseteq Nat
  /\ MaxTime \in Nat /\ MaxStaked \in Nat /\ MaxFunded \in Nat

VARIABLES
  now,          \* block.timestamp
  balance,      \* address(this).balance
  positions, totalStaked,
  rewardReserve, owedRewards,
  pendingFees, platformFeeRecipient,
  \* bookkeeping
  funded,       \* all that was ever put into the reserve (for its bound)
  earned,       \* rate * stake * time, in units of wei * Ether
  paid,         \* rewards paid, commission included
  roundings     \* how often a staker's accrual was cut to whole wei

ghostVars == <<earned, paid, roundings>>
vars == <<now, balance, positions, totalStaked, rewardReserve, owedRewards, pendingFees,
          platformFeeRecipient, funded, ghostVars>>

NoPosition == [amount |-> 0, lastClaimTime |-> 0]

Init ==
  /\ now = 1
  /\ balance \in Prefunded
  /\ positions = [u \in Stakers |-> NoPosition]
  /\ totalStaked = 0
  /\ rewardReserve = 0
  /\ owedRewards = [u \in Stakers |-> 0]
  /\ pendingFees = 0
  /\ platformFeeRecipient \in Recipients
  /\ funded = 0
  /\ earned = [u \in Stakers |-> 0]
  /\ paid = [u \in Stakers |-> 0]
  /\ roundings = [u \in Stakers |-> 0]

-----------------------------------------------------------------------------
Accruing(u) == positions[u].amount * RewardRate * (now - positions[u].lastClaimTime)

GrossReward(u) == (Accruing(u) \div Ether) + owedRewards[u]

Commission(reward) == (reward * CommissionBps) \div BpsDenominator

PayableFromBalance(gross) == gross  \* mutant: principal pays rewards

Payable(gross) == IF gross <= rewardReserve THEN gross ELSE rewardReserve

\* A fee recipient takes what it is sent or does not; the contract itself does,
\* and its receive() puts it into the reserve.
Taken == IF platformFeeRecipient = Contract THEN {TRUE} ELSE BOOLEAN

ErasedShortfall(u, rest) ==  \* mutant: what the reserve cannot pay is forgotten
  owedRewards' = [owedRewards EXCEPT ![u] = 0]

Owe(u, rest) == owedRewards' = [owedRewards EXCEPT ![u] = rest]

\* u's gross reward is paid as far as the reserve goes and the rest owed; of the
\* contract's ETH, in comes and out goes beside it.
Settle(u, gross, in, out, taken) ==
  LET payable == Payable(gross)
      commission == Commission(payable)
      sent == IF taken /\ platformFeeRecipient # Contract THEN commission ELSE 0
      returned == IF taken /\ platformFeeRecipient = Contract THEN commission ELSE 0
  IN
  /\ balance + in >= sent + (payable - commission) + out
  /\ balance' = balance + in - sent - (payable - commission) - out
  /\ rewardReserve' = rewardReserve - payable + returned
  /\ pendingFees' = IF taken THEN pendingFees ELSE pendingFees + commission
  /\ funded' = funded + returned
  /\ Owe(u, gross - payable)
  /\ paid' = [paid EXCEPT ![u] = @ + payable]
  /\ roundings' = IF Accruing(u) = 0 THEN roundings ELSE [roundings EXCEPT ![u] = @ + 1]
  /\ UNCHANGED <<now, platformFeeRecipient, earned>>

Holds(u, amount, since) ==
  positions' = [positions EXCEPT ![u] = [amount |-> amount, lastClaimTime |-> since]]

\* The first stake settles nothing, whatever is owed from a former one.
FirstStake(u, value) ==
  /\ positions[u].amount = 0
  /\ Holds(u, value, now)
  /\ balance' = balance + value
  /\ UNCHANGED <<now, rewardReserve, owedRewards, pendingFees, platformFeeRecipient, funded,
                 ghostVars>>

FurtherStake(u, value, taken) ==
  /\ positions[u].amount > 0
  /\ Holds(u, positions[u].amount + value, now)
  /\ Settle(u, GrossReward(u), value, 0, taken)

Stake(u, value) ==
  /\ value >= MinimumStake
  /\ totalStaked + value <= MaxStaked
  /\ totalStaked' = totalStaked + value
  /\ FirstStake(u, value) \/ \E taken \in Taken : FurtherStake(u, value, taken)

Unstake(u, taken) ==
  LET amount == positions[u].amount IN
  /\ amount > 0
  /\ totalStaked >= amount
  /\ totalStaked' = totalStaked - amount
  /\ positions' = [positions EXCEPT ![u] = NoPosition]
  /\ Settle(u, GrossReward(u), 0, amount, taken)

ClaimRewards(u, taken) ==
  /\ GrossReward(u) > Commission(GrossReward(u))
  /\ Holds(u, positions[u].amount, now)
  /\ Settle(u, GrossReward(u), 0, 0, taken)
  /\ UNCHANGED totalStaked

KeepPendingFees ==  \* mutant: the fees are sent and stay pending
  /\ pendingFees > 0
  /\ balance >= pendingFees
  /\ platformFeeRecipient # Contract
  /\ balance' = balance - pendingFees
  /\ UNCHANGED <<now, positions, totalStaked, rewardReserve, owedRewards, pendingFees,
                 platformFeeRecipient, funded, ghostVars>>

WithdrawFees ==
  /\ pendingFees > 0
  /\ balance >= pendingFees
  /\ pendingFees' = 0
  /\ IF platformFeeRecipient = Contract
       THEN /\ rewardReserve' = rewardReserve + pendingFees
            /\ funded' = funded + pendingFees
            /\ UNCHANGED balance
       ELSE /\ balance' = balance - pendingFees
            /\ UNCHANGED <<rewardReserve, funded>>
  /\ UNCHANGED <<now, positions, totalStaked, owedRewards, platformFeeRecipient, ghostVars>>

UpdateFeeRecipient(recipient) ==
  /\ platformFeeRecipient' = recipient
  /\ UNCHANGED <<now, balance, positions, totalStaked, rewardReserve, owedRewards, pendingFees,
                 funded, ghostVars>>

FundRewards(value) ==
  /\ funded + value <= MaxFunded
  /\ rewardReserve' = rewardReserve + value
  /\ balance' = balance + value
  /\ funded' = funded + value
  /\ UNCHANGED <<now, positions, totalStaked, owedRewards, pendingFees, platformFeeRecipient,
                 ghostVars>>

\* The next block.
Tick ==
  /\ now < MaxTime
  /\ now' = now + 1
  /\ earned' = [u \in Stakers |-> earned[u] + positions[u].amount * RewardRate]
  /\ UNCHANGED <<balance, positions, totalStaked, rewardReserve, owedRewards, pendingFees,
                 platformFeeRecipient, funded, paid, roundings>>

Next ==
  \/ \E u \in Stakers, value \in Deposits : Stake(u, value)
  \/ \E u \in Stakers, taken \in Taken : Unstake(u, taken) \/ ClaimRewards(u, taken)
  \/ WithdrawFees
  \/ \E recipient \in Recipients : UpdateFeeRecipient(recipient)
  \/ \E value \in Funds : FundRewards(value)
  \/ Tick

Spec == Init /\ [][Next]_vars
-----------------------------------------------------------------------------
(* Properties *)

TypeOK ==
  /\ now \in Nat
  /\ balance \in Nat
  /\ positions \in [Stakers -> [amount : Nat, lastClaimTime : 0 .. now]]
  /\ totalStaked \in Nat
  /\ rewardReserve \in Nat
  /\ owedRewards \in [Stakers -> Nat]
  /\ pendingFees \in Nat
  /\ platformFeeRecipient \in Recipients
  /\ funded \in Nat
  /\ earned \in [Stakers -> Nat]
  /\ paid \in [Stakers -> Nat]
  /\ roundings \in [Stakers -> Nat]

Staked == SumOf([u \in Stakers |-> positions[u].amount], Stakers)

\* "Principal is always there": every staker can leave with all of it, in any
\* order, after the reserve and the pending fees have left too.  So the check
\* "Insufficient pool" in unstake() never fires.
PrincipalIsThere == balance >= Staked + rewardReserve + pendingFees

\* The same by the contract's own count of what is staked.
BooksAreCovered == balance >= totalStaked + rewardReserve + pendingFees

\* "Nothing is erased", and nothing is paid twice or for time a stake was not
\* there: what u was paid, is owed and is accruing is rate * stake * time, less
\* than one wei short for each time it was cut to whole wei.
RewardsAreForStakeAndTime ==
  \A u \in Stakers :
     LET settled == Ether * (paid[u] + owedRewards[u]) + Accruing(u) IN
     /\ settled <= earned[u]
     /\ earned[u] <= settled + (Ether - 1) * roundings[u]
=============================================================================

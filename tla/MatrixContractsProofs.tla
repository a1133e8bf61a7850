--------------------------- MODULE MatrixContractsProofs ---------------------------
(*****************************************************************************)
(* Proofs about the staking, insurance, account and governance contracts,    *)
(* for any people, rates and amounts.  Staking: what the arithmetic of       *)
(* rewards and commission gives, the books, that rewards are for stake and   *)
(* time, and that the principal is there.  Insurance: that the pool backs    *)
(* its coverage and counts its policies.  Account: that guardians decide.    *)
(* Governance: that the lookups by binary search and the root by iteration   *)
(* find what they should, that the checkpoints remember every block, and     *)
(* with them snapshots, deposits and outcomes.                               *)
(*****************************************************************************)
EXTENDS MatrixStaking, MatrixInsurance, MatrixDAO, MatrixAccount,
        DataTheorems, TLAPS

-----------------------------------------------------------------------------
(* The operators of the contract *)

\* Commission is a part of the reward it is taken from.
LEMMA CommissionIsAPart ==
  ASSUME NEW reward \in Nat
  PROVE  Commission(reward) \in Nat /\ Commission(reward) <= reward
PROOF
<1> DEFINE q == (reward * CommissionBps) \div BpsDenominator
<1>1. CommissionBps \in Nat /\ BpsDenominator \in Nat \ {0} /\ CommissionBps <= BpsDenominator
  BY StakingConstants
<1>2. reward * CommissionBps \in Nat
  BY <1>1, Products
<1>3. q \in Nat /\ BpsDenominator * q <= reward * CommissionBps
  BY <1>1, <1>2, Division
<1>4. reward * CommissionBps <= reward * BpsDenominator
  BY <1>1, Monotone
<1>5. reward * BpsDenominator = BpsDenominator * reward
  BY <1>1, Commutes
<1>6. BpsDenominator * q <= BpsDenominator * reward
  <2>1. BpsDenominator * q \in Nat /\ BpsDenominator * reward \in Nat
    BY <1>1, <1>3, Products
  <2> HIDE DEF q
  <2> QED  BY <1>2, <1>3, <1>4, <1>5, <2>1
<1>7. q <= reward
  <2> HIDE DEF q
  <2> QED  BY <1>1, <1>3, <1>6, CancelFactor
<1> QED  BY <1>3, <1>7 DEF Commission

\* What is paid of a reward is within the reward and within the reserve.
LEMMA PayableIsCovered ==
  ASSUME NEW gross \in Nat, rewardReserve \in Nat
  PROVE  /\ Payable(gross) \in Nat
         /\ Payable(gross) <= gross
         /\ Payable(gross) <= rewardReserve
PROOF BY DEF Payable

\* What a stake accrues is a natural number, and so is the reward it makes: as
\* many whole wei as are in it, and what is owed.
LEMMA RewardOf ==
  ASSUME TypeOK, NEW u \in Stakers
  PROVE  /\ Accruing(u) \in Nat
         /\ GrossReward(u) \in Nat
         /\ GrossReward(u) >= owedRewards[u]
         /\ Ether * (GrossReward(u) - owedRewards[u]) <= Accruing(u)
         /\ Accruing(u) <= Ether * (GrossReward(u) - owedRewards[u]) + (Ether - 1)
         /\ Accruing(u) = 0 => GrossReward(u) = owedRewards[u]
PROOF
<1> DEFINE elapsed == now - positions[u].lastClaimTime
           rate == positions[u].amount * RewardRate
           q == Accruing(u) \div Ether
<1>1. /\ positions[u].amount \in Nat /\ elapsed \in Nat /\ RewardRate \in Nat
      /\ owedRewards[u] \in Nat /\ Ether \in Nat \ {0}
  BY StakingConstants DEF TypeOK
<1>2. rate \in Nat
  BY <1>1, Products
<1>3. Accruing(u) \in Nat
  <2>1. rate * elapsed \in Nat
    <3> HIDE DEF rate, elapsed
    <3> QED  BY <1>1, <1>2, Products
  <2> QED  BY <2>1 DEF Accruing
<1>4. /\ q \in Nat /\ Ether * q <= Accruing(u) /\ Accruing(u) <= Ether * q + (Ether - 1)
  BY <1>1, <1>3, Division
<1>5. GrossReward(u) = q + owedRewards[u]
  BY DEF GrossReward
<1>6. Accruing(u) = 0 => q = 0
  <2> SUFFICES ASSUME Accruing(u) = 0 PROVE q = 0
    OBVIOUS
  <2>1. Ether * q <= Ether * 0
    <3>1. Ether * 0 = 0
      BY <1>1
    <3> HIDE DEF q
    <3> QED  BY <1>4, <3>1
  <2> HIDE DEF q
  <2> QED  BY <1>1, <1>4, <2>1, CancelFactor
<1> HIDE DEF q
<1>7. GrossReward(u) - owedRewards[u] = q
  BY <1>1, <1>4, <1>5
<1> QED  BY <1>1, <1>3, <1>4, <1>5, <1>6, <1>7

-----------------------------------------------------------------------------
(* Types, and the books *)

\* The inductive invariant of the books.
BooksInv == TypeOK /\ BooksAreCovered

\* A settlement keeps amounts natural numbers and, with its deposit or withdrawal
\* counted as staked, the books covered.
LEMMA SettleKeepsBooks ==
  ASSUME BooksInv, NEW u \in Stakers, NEW gross \in Nat, NEW in \in Nat, NEW out \in Nat,
         NEW staked \in Nat, NEW taken \in Taken, Settle(u, gross, in, out, taken),
         totalStaked' = staked, staked + out = totalStaked + in,
         positions' \in [Stakers -> [amount : Nat, lastClaimTime : 0 .. now]]
  PROVE  BooksInv'
PROOF
<1> DEFINE payable == Payable(gross)
           commission == Commission(payable)
<1>1. payable \in Nat /\ payable <= gross /\ payable <= rewardReserve
  BY PayableIsCovered DEF BooksInv, TypeOK
<1>2. commission \in Nat /\ commission <= payable
  BY <1>1, CommissionIsAPart
<1> HIDE DEF payable, commission
<1>3. taken \in BOOLEAN /\ (platformFeeRecipient = Contract => taken)
  BY DEF Taken
<1>4. /\ balance \in Nat /\ rewardReserve \in Nat /\ pendingFees \in Nat /\ funded \in Nat
      /\ totalStaked \in Nat /\ balance >= totalStaked + rewardReserve + pendingFees
  BY DEF BooksInv, TypeOK, BooksAreCovered
<1>5. /\ owedRewards' \in [Stakers -> Nat]
      /\ paid' \in [Stakers -> Nat]
      /\ roundings' \in [Stakers -> Nat]
  <2>1. /\ owedRewards' = [owedRewards EXCEPT ![u] = gross - payable]
        /\ paid' = [paid EXCEPT ![u] = @ + payable]
        /\ roundings' \in {roundings, [roundings EXCEPT ![u] = @ + 1]}
    BY DEF Settle, Owe, payable
  <2> QED  BY <1>1, <2>1 DEF BooksInv, TypeOK
<1> DEFINE sent == IF taken /\ platformFeeRecipient # Contract THEN commission ELSE 0
           returned == IF taken /\ platformFeeRecipient = Contract THEN commission ELSE 0
           kept == IF taken THEN 0 ELSE commission
<1>6. /\ sent \in Nat /\ returned \in Nat /\ kept \in Nat
      /\ sent + returned + kept = commission
  BY <1>2, <1>3
<1>7. /\ balance + in >= sent + (payable - commission) + out
      /\ balance' = balance + in - sent - (payable - commission) - out
      /\ rewardReserve' = rewardReserve - payable + returned
      /\ pendingFees' = pendingFees + kept
      /\ funded' = funded + returned
  <2>1. pendingFees' = pendingFees + kept
    BY <1>2, <1>3, <1>4 DEF Settle, payable, commission
  <2> QED  BY <2>1 DEF Settle, payable, commission
<1> HIDE DEF sent, returned, kept
<1>8. /\ balance' \in Nat /\ rewardReserve' \in Nat /\ pendingFees' \in Nat
      /\ balance' >= totalStaked' + rewardReserve' + pendingFees'
  <2> DEFINE left == balance + in - sent - (payable - commission) - out
             reserved == rewardReserve - payable + returned
             pending == pendingFees + kept
  <2>1. /\ left \in Nat /\ reserved \in Nat /\ pending \in Nat
        /\ left >= staked + reserved + pending
    <3>1. balance + in >= sent + (payable - commission) + out
      BY <1>7
    <3> QED  BY <1>1, <1>2, <1>4, <1>6, <3>1
  <2>2. balance' = left /\ rewardReserve' = reserved /\ pendingFees' = pending
    BY <1>7, Zenon
  <2> HIDE DEF left, reserved, pending
  <2> QED  BY <2>1, <2>2, Zenon
<1>9. funded' \in Nat
  BY <1>4, <1>6, <1>7
<1>10. UNCHANGED <<now, platformFeeRecipient, earned>>
  BY DEF Settle
<1>11. totalStaked' \in Nat
  BY Zenon
<1>12. TypeOK'
  BY <1>5, <1>8, <1>9, <1>10, <1>11 DEF BooksInv, TypeOK
<1> QED  BY <1>8, <1>12 DEF BooksInv, BooksAreCovered

\* Every step keeps the types and the books.
LEMMA BooksStep ==
  ASSUME BooksInv, [Next]_vars
  PROVE  BooksInv'
PROOF
<1> USE DEF BooksInv
<1>1. ASSUME NEW u \in Stakers, NEW value \in Deposits, Stake(u, value)
      PROVE  BooksInv'
  <2>1. /\ value \in Nat /\ totalStaked \in Nat
        /\ totalStaked' = totalStaked + value
    BY <1>1, StakingConstants DEF Stake, TypeOK
  <2>2. CASE FirstStake(u, value)
    BY <2>1, <2>2 DEF FirstStake, Holds, TypeOK, BooksAreCovered, ghostVars
  <2>3. ASSUME NEW taken \in Taken, FurtherStake(u, value, taken)
        PROVE  BooksInv'
    <3>1. GrossReward(u) \in Nat /\ Settle(u, GrossReward(u), value, 0, taken)
      BY <2>3, RewardOf DEF FurtherStake
    <3>2. positions' \in [Stakers -> [amount : Nat, lastClaimTime : 0 .. now]]
      BY <2>1, <2>3 DEF FurtherStake, Holds, TypeOK
    <3>3. totalStaked + value \in Nat /\ (totalStaked + value) + 0 = totalStaked + value
      BY <2>1
    <3> QED  BY <2>1, <3>1, <3>2, <3>3, SettleKeepsBooks
  <2> QED  BY <1>1, <2>2, <2>3 DEF Stake
<1>2. ASSUME NEW u \in Stakers, NEW taken \in Taken, Unstake(u, taken)
      PROVE  BooksInv'
  <2> DEFINE amount == positions[u].amount
  <2>1. /\ GrossReward(u) \in Nat /\ amount \in Nat
        /\ Settle(u, GrossReward(u), 0, amount, taken)
        /\ totalStaked \in Nat /\ totalStaked >= amount /\ totalStaked' = totalStaked - amount
    BY <1>2, RewardOf DEF Unstake, TypeOK
  <2>2. positions' \in [Stakers -> [amount : Nat, lastClaimTime : 0 .. now]]
    BY <1>2 DEF Unstake, NoPosition, TypeOK
  <2> HIDE DEF amount
  <2>3. totalStaked - amount \in Nat /\ (totalStaked - amount) + amount = totalStaked + 0
    BY <2>1
  <2> QED  BY <2>1, <2>2, <2>3, SettleKeepsBooks
<1>3. ASSUME NEW u \in Stakers, NEW taken \in Taken, ClaimRewards(u, taken)
      PROVE  BooksInv'
  <2>1. /\ GrossReward(u) \in Nat /\ Settle(u, GrossReward(u), 0, 0, taken)
        /\ totalStaked \in Nat /\ totalStaked' = totalStaked
    BY <1>3, RewardOf DEF ClaimRewards, TypeOK
  <2>2. positions' \in [Stakers -> [amount : Nat, lastClaimTime : 0 .. now]]
    BY <1>3 DEF ClaimRewards, Holds, TypeOK
  <2>3. totalStaked \in Nat /\ totalStaked + 0 = totalStaked + 0
    BY <2>1
  <2> QED  BY <2>1, <2>2, <2>3, SettleKeepsBooks
<1>4. CASE WithdrawFees
  BY <1>4 DEF WithdrawFees, TypeOK, BooksAreCovered, ghostVars
<1>5. ASSUME NEW recipient \in Recipients, UpdateFeeRecipient(recipient)
      PROVE  BooksInv'
  BY <1>5 DEF UpdateFeeRecipient, TypeOK, BooksAreCovered, ghostVars
<1>6. ASSUME NEW value \in Funds, FundRewards(value)
      PROVE  BooksInv'
  <2>1. value \in Nat
    BY StakingConstants
  <2> QED  BY <1>6, <2>1 DEF FundRewards, TypeOK, BooksAreCovered, ghostVars
<1>7. CASE Tick
  <2>1. \A u \in Stakers : earned[u] + positions[u].amount * RewardRate \in Nat
    <3> SUFFICES ASSUME NEW u \in Stakers
                 PROVE  earned[u] + positions[u].amount * RewardRate \in Nat
      OBVIOUS
    <3>1. earned[u] \in Nat /\ positions[u].amount \in Nat /\ RewardRate \in Nat
      BY StakingConstants DEF TypeOK
    <3>2. positions[u].amount * RewardRate \in Nat
      BY <3>1, Products
    <3> QED  BY <3>1, <3>2
  <2>2. earned' \in [Stakers -> Nat]
    BY <1>7, <2>1, Zenon DEF Tick
  <2>3. /\ now' = now + 1 /\ now \in Nat
        /\ UNCHANGED <<balance, positions, totalStaked, rewardReserve, owedRewards, pendingFees,
                       platformFeeRecipient, funded, paid, roundings>>
    BY <1>7 DEF Tick, TypeOK
  <2>4. positions' \in [Stakers -> [amount : Nat, lastClaimTime : 0 .. now']]
    BY <2>3 DEF TypeOK
  <2> QED  BY <2>2, <2>3, <2>4 DEF TypeOK, BooksAreCovered
<1>8. CASE UNCHANGED vars
  BY <1>8 DEF vars, ghostVars, TypeOK, BooksAreCovered
<1> QED  BY <1>1, <1>2, <1>3, <1>4, <1>5, <1>6, <1>7, <1>8 DEF Next

\* The state of a new contract has its type and covers its books.
LEMMA BooksInit == Init => BooksInv
PROOF BY StakingConstants DEF Init, BooksInv, TypeOK, BooksAreCovered, NoPosition

\* Of every reachable state: all variables have their types; in particular the
\* reserve and what is owed never fall below zero, where the contract would revert.
THEOREM StakingTypes == Spec => []TypeOK
PROOF
<1>1. BooksInv => TypeOK
  BY DEF BooksInv
<1> QED  BY <1>1, BooksInit, BooksStep, PTL DEF Spec

\* The balance covers what the contract counts as staked, the reserve and the
\* pending fees, whatever is staked, paid, refused and withdrawn in whatever order.
THEOREM CoveredBooks == Spec => []BooksAreCovered
PROOF
<1>1. BooksInv => BooksAreCovered
  BY DEF BooksInv
<1> QED  BY <1>1, BooksInit, BooksStep, PTL DEF Spec

-----------------------------------------------------------------------------
(* Rewards are for stake and time *)

\* What was paid, is owed and accrues is what was earned, cut r times to whole wei.
WithinCuts(p, owed, accruing, e, r) ==
  /\ Ether * (p + owed) + accruing <= e
  /\ e <= Ether * (p + owed) + accruing + (Ether - 1) * r

\* A block adds the same to what accrues and to what is earned.
LEMMA AccrualIsEarned ==
  ASSUME NEW p \in Nat, NEW owed \in Nat, NEW accruing \in Nat, NEW e \in Nat, NEW r \in Nat,
         NEW x \in Nat, WithinCuts(p, owed, accruing, e, r)
  PROVE  WithinCuts(p, owed, accruing + x, e + x, r)
PROOF
<1>1. Ether \in Nat \ {0} /\ p + owed \in Nat
  BY StakingConstants
<1>2. Ether * (p + owed) \in Nat /\ (Ether - 1) * r \in Nat
  BY <1>1, Products
<1> DEFINE whole == Ether * (p + owed)
           cuts == (Ether - 1) * r
<1>3. whole + accruing <= e /\ e <= whole + accruing + cuts
  BY DEF WithinCuts
<1>4. whole \in Nat /\ cuts \in Nat
  BY <1>2
<1> HIDE DEF whole, cuts
<1>5. whole + (accruing + x) <= e + x /\ e + x <= whole + (accruing + x) + cuts
  BY <1>3, <1>4
<1> QED  BY <1>5 DEF WithinCuts, whole, cuts

\* A settlement turns what accrued into whole wei, some paid and the rest owed, at
\* the cost of one cut; of none, when nothing had accrued.
LEMMA SettlementCutsOnce ==
  ASSUME NEW p \in Nat, NEW owed \in Nat, NEW accruing \in Nat, NEW e \in Nat, NEW r \in Nat,
         NEW gross \in Nat, NEW pay \in Nat, pay <= gross, owed <= gross,
         Ether * (gross - owed) <= accruing,
         accruing <= Ether * (gross - owed) + (Ether - 1),
         WithinCuts(p, owed, accruing, e, r)
  PROVE  /\ WithinCuts(p + pay, gross - pay, 0, e, r + 1)
         /\ accruing = 0 => WithinCuts(p + pay, gross - pay, 0, e, r)
PROOF
<1> DEFINE whole == Ether * (p + owed)
           new == Ether * (gross - owed)
           cuts == (Ether - 1) * r
           settled == Ether * ((p + pay) + (gross - pay))
<1>1. /\ Ether \in Nat \ {0} /\ Ether - 1 \in Nat /\ p + owed \in Nat /\ gross - owed \in Nat
      /\ (p + pay) + (gross - pay) = (p + owed) + (gross - owed)
  BY StakingConstants
<1>2. whole \in Nat /\ new \in Nat /\ cuts \in Nat
  BY <1>1, Products
<1>3. settled = whole + new
  <2>1. Ether * ((p + owed) + (gross - owed)) = whole + new
    BY <1>1, Distributes
  <2> QED  BY <1>1, <2>1
<1>4. (Ether - 1) * (r + 1) = cuts + (Ether - 1)
  <2>1. (Ether - 1) * (r + 1) = (Ether - 1) * r + (Ether - 1) * 1
    BY <1>1, Distributes
  <2>2. (Ether - 1) * 1 = Ether - 1
    BY <1>1
  <2> QED  BY <2>1, <2>2
<1>5. new <= accruing /\ accruing <= new + (Ether - 1)
  OBVIOUS
<1>6. whole + accruing <= e /\ e <= whole + accruing + cuts
  BY DEF WithinCuts
<1> HIDE DEF whole, new, cuts
<1>7. /\ (whole + new) + 0 <= e
      /\ e <= (whole + new) + 0 + (cuts + (Ether - 1))
      /\ accruing = 0 => e <= (whole + new) + 0 + cuts
  BY <1>1, <1>2, <1>5, <1>6
<1>8. /\ settled + 0 <= e
      /\ e <= settled + 0 + (Ether - 1) * (r + 1)
      /\ accruing = 0 => e <= settled + 0 + (Ether - 1) * r
  BY <1>3, <1>4, <1>7 DEF cuts
<1> QED  BY <1>8 DEF WithinCuts

\* Nothing accrues on no stake, or in no time.
LEMMA NothingAccrues ==
  ASSUME NEW amount \in Nat, NEW rate \in Nat, NEW time \in Nat, NEW since \in Nat,
         amount = 0 \/ time = since
  PROVE  amount * rate * (time - since) = 0
PROOF
<1>1. CASE amount = 0
  <2>1. amount * rate = 0
    BY <1>1
  <2>2. 0 * (time - since) = 0
    OBVIOUS
  <2> QED  BY <2>1, <2>2
<1>2. CASE time = since
  <2>1. amount * rate \in Nat /\ time - since = 0
    BY <1>2, Products
  <2> DEFINE perSecond == amount * rate
  <2> HIDE DEF perSecond
  <2>2. perSecond * 0 = 0
    BY <2>1 DEF perSecond
  <2> QED  BY <2>1, <2>2 DEF perSecond
<1> QED  BY <1>1, <1>2

\* The rewards of staker u are for the stake and the time they were earned with.
RewardsOf(u) == WithinCuts(paid[u], owedRewards[u], Accruing(u), earned[u], roundings[u])

\* The property, staker by staker.
LEMMA ByStaker == RewardsAreForStakeAndTime <=> \A u \in Stakers : RewardsOf(u)
PROOF BY DEF RewardsAreForStakeAndTime, RewardsOf, WithinCuts

\* A step that leaves a staker's position and accounts, and the time, as they are.
LEMMA OthersKeepTheirs ==
  ASSUME NEW v \in Stakers, RewardsOf(v), now' = now, positions'[v] = positions[v],
         paid'[v] = paid[v], owedRewards'[v] = owedRewards[v], earned'[v] = earned[v],
         roundings'[v] = roundings[v]
  PROVE  RewardsOf(v)'
PROOF
<1>1. Accruing(v)' = Accruing(v)
  BY Zenon DEF Accruing
<1> QED  BY <1>1, Zenon DEF RewardsOf

\* A settlement that restarts the clock of the stake, or takes the stake out.
LEMMA SettleKeepsRewards ==
  ASSUME TypeOK, RewardsAreForStakeAndTime, NEW u \in Stakers, NEW in, NEW out, NEW taken,
         Settle(u, GrossReward(u), in, out, taken),
         NEW amount \in Nat, NEW since \in Nat, amount = 0 \/ now = since,
         positions' = [positions EXCEPT ![u] = [amount |-> amount, lastClaimTime |-> since]]
  PROVE  RewardsAreForStakeAndTime'
PROOF
<1> DEFINE gross == GrossReward(u)
           pay == Payable(gross)
<1>1. /\ Accruing(u) \in Nat /\ gross \in Nat /\ owedRewards[u] <= gross
      /\ Ether * (gross - owedRewards[u]) <= Accruing(u)
      /\ Accruing(u) <= Ether * (gross - owedRewards[u]) + (Ether - 1)
  BY RewardOf
<1>2. pay \in Nat /\ pay <= gross
  BY <1>1, PayableIsCovered DEF TypeOK
<1>3. /\ owedRewards' = [owedRewards EXCEPT ![u] = gross - pay]
      /\ paid' = [paid EXCEPT ![u] = @ + pay]
      /\ roundings' = IF Accruing(u) = 0 THEN roundings ELSE [roundings EXCEPT ![u] = @ + 1]
      /\ now' = now /\ earned' = earned
  BY DEF Settle, Owe
<1> HIDE DEF gross, pay
<1>4. /\ paid[u] \in Nat /\ owedRewards[u] \in Nat /\ earned[u] \in Nat /\ roundings[u] \in Nat
      /\ now \in Nat /\ RewardRate \in Nat
  BY StakingConstants DEF TypeOK
<1>5. ASSUME NEW v \in Stakers, v # u  PROVE RewardsOf(v)'
  <2>1. /\ positions'[v] = positions[v] /\ paid'[v] = paid[v] /\ owedRewards'[v] = owedRewards[v]
        /\ earned'[v] = earned[v] /\ roundings'[v] = roundings[v]
    BY <1>3, <1>5 DEF TypeOK
  <2> QED  BY <1>3, <1>5, <2>1, ByStaker, OthersKeepTheirs
<1>6. RewardsOf(u)'
  <2>1. Accruing(u)' = 0
    <3>1. /\ positions'[u].amount = amount /\ positions'[u].lastClaimTime = since
      BY DEF TypeOK
    <3>2. amount * RewardRate * (now - since) = 0
      BY <1>4, NothingAccrues
    <3>3. Accruing(u)' = amount * RewardRate * (now - since)
      BY <1>3, <3>1, Zenon DEF Accruing
    <3> QED  BY <3>2, <3>3, Zenon
  <2>2. paid'[u] = paid[u] + pay /\ owedRewards'[u] = gross - pay /\ earned'[u] = earned[u]
    <3>1. u \in DOMAIN paid /\ u \in DOMAIN owedRewards
      BY DEF TypeOK
    <3> QED  BY <1>3, <3>1, Zenon
  <2>3. WithinCuts(paid[u], owedRewards[u], Accruing(u), earned[u], roundings[u])
    BY ByStaker DEF RewardsOf
  <2>4. /\ WithinCuts(paid[u] + pay, gross - pay, 0, earned[u], roundings[u] + 1)
        /\ Accruing(u) = 0 => WithinCuts(paid[u] + pay, gross - pay, 0, earned[u], roundings[u])
    BY <1>1, <1>2, <1>4, <2>3, SettlementCutsOnce
  <2>5. CASE Accruing(u) = 0
    <3>1. roundings' = roundings
      BY <1>3, <2>5
    <3> QED  BY <2>1, <2>2, <2>4, <2>5, <3>1, Zenon DEF RewardsOf
  <2>6. CASE Accruing(u) # 0
    <3>1. u \in DOMAIN roundings /\ roundings' = [roundings EXCEPT ![u] = @ + 1]
      BY <1>3, <2>6 DEF TypeOK
    <3>2. roundings'[u] = roundings[u] + 1
      BY <3>1, Zenon
    <3> QED  BY <2>1, <2>2, <2>4, <3>2, Zenon DEF RewardsOf
  <2> QED  BY <2>5, <2>6
<1>7. \A v \in Stakers : RewardsOf(v)'
  BY <1>5, <1>6
<1> QED  BY <1>7 DEF RewardsAreForStakeAndTime, RewardsOf, WithinCuts

\* The inductive invariant of the rewards.
RewardsInv == BooksInv /\ RewardsAreForStakeAndTime

\* Every step keeps rewards within what stake and time earned.
LEMMA RewardsStep ==
  ASSUME RewardsInv, [Next]_vars
  PROVE  RewardsAreForStakeAndTime'
PROOF
<1> USE DEF RewardsInv, BooksInv
<1>1. ASSUME NEW u \in Stakers, NEW value \in Deposits, Stake(u, value)
      PROVE  RewardsAreForStakeAndTime'
  <2>1. value \in Nat /\ positions[u].amount \in Nat /\ now \in Nat
    BY StakingConstants DEF TypeOK
  <2>2. CASE FirstStake(u, value)
    <3>1. /\ positions' = [positions EXCEPT ![u] = [amount |-> value, lastClaimTime |-> now]]
          /\ now' = now /\ paid' = paid /\ owedRewards' = owedRewards /\ earned' = earned
          /\ roundings' = roundings /\ positions[u].amount = 0
      BY <2>2 DEF FirstStake, Holds, ghostVars
    <3>2. ASSUME NEW v \in Stakers, v # u  PROVE RewardsOf(v)'
      <4>1. positions'[v] = positions[v]
        BY <3>1, <3>2 DEF TypeOK
      <4> QED  BY <3>1, <3>2, <4>1, ByStaker, OthersKeepTheirs
    <3>3. RewardsOf(u)'
      <4>1. /\ positions'[u].amount = value /\ positions'[u].lastClaimTime = now
        BY <3>1 DEF TypeOK
      <4>2. /\ value * RewardRate * (now - now) = 0
            /\ positions[u].amount * RewardRate * (now - positions[u].lastClaimTime) = 0
        <5>1. RewardRate \in Nat /\ positions[u].lastClaimTime \in Nat
          BY StakingConstants DEF TypeOK
        <5> QED  BY <2>1, <3>1, <5>1, NothingAccrues
      <4>3. Accruing(u)' = value * RewardRate * (now - now)
        BY <3>1, <4>1, Zenon DEF Accruing
      <4>4. Accruing(u)' = Accruing(u)
        BY <4>2, <4>3, Zenon DEF Accruing
      <4> QED  BY <3>1, <4>4, ByStaker, Zenon DEF RewardsOf
    <3>4. \A v \in Stakers : RewardsOf(v)'
      BY <3>2, <3>3
    <3> QED  BY <3>4 DEF RewardsAreForStakeAndTime, RewardsOf, WithinCuts
  <2>3. ASSUME NEW taken \in Taken, FurtherStake(u, value, taken)
        PROVE  RewardsAreForStakeAndTime'
    <3>1. /\ Settle(u, GrossReward(u), value, 0, taken)
          /\ positions' = [positions EXCEPT ![u] = [amount |-> positions[u].amount + value,
                                                    lastClaimTime |-> now]]
      BY <2>3 DEF FurtherStake, Holds
    <3>2. positions[u].amount + value \in Nat
      BY <2>1
    <3> QED  BY <2>1, <3>1, <3>2, SettleKeepsRewards
  <2> QED  BY <1>1, <2>2, <2>3 DEF Stake
<1>2. ASSUME NEW u \in Stakers, NEW taken \in Taken, Unstake(u, taken)
      PROVE  RewardsAreForStakeAndTime'
  <2>1. /\ Settle(u, GrossReward(u), 0, positions[u].amount, taken)
        /\ positions' = [positions EXCEPT ![u] = [amount |-> 0, lastClaimTime |-> 0]]
    BY <1>2 DEF Unstake, NoPosition
  <2> QED  BY <2>1, SettleKeepsRewards
<1>3. ASSUME NEW u \in Stakers, NEW taken \in Taken, ClaimRewards(u, taken)
      PROVE  RewardsAreForStakeAndTime'
  <2>1. /\ Settle(u, GrossReward(u), 0, 0, taken)
        /\ positions' = [positions EXCEPT ![u] = [amount |-> positions[u].amount,
                                                  lastClaimTime |-> now]]
    BY <1>3 DEF ClaimRewards, Holds
  <2>2. positions[u].amount \in Nat /\ now \in Nat
    BY DEF TypeOK
  <2> QED  BY <2>1, <2>2, SettleKeepsRewards
<1>4. CASE Tick
  <2> SUFFICES ASSUME NEW u \in Stakers PROVE RewardsOf(u)'
    BY DEF RewardsAreForStakeAndTime, RewardsOf, WithinCuts
  <2> DEFINE rate == positions[u].amount * RewardRate
             elapsed == now - positions[u].lastClaimTime
  <2>1. /\ positions[u].amount \in Nat /\ RewardRate \in Nat /\ elapsed \in Nat
        /\ paid[u] \in Nat /\ owedRewards[u] \in Nat /\ earned[u] \in Nat
        /\ roundings[u] \in Nat
    BY StakingConstants DEF TypeOK
  <2>2. rate \in Nat
    BY <2>1, Products
  <2>3. /\ now' = now + 1 /\ positions' = positions /\ paid' = paid
        /\ owedRewards' = owedRewards /\ roundings' = roundings
        /\ earned' = [v \in Stakers |-> earned[v] + positions[v].amount * RewardRate]
    BY <1>4 DEF Tick
  <2>4. earned'[u] = earned[u] + rate
    BY <2>3, Zenon
  <2>5. rate * ((now + 1) - positions[u].lastClaimTime) = rate * elapsed + rate
    <3>1. now \in Nat /\ positions[u].lastClaimTime \in Nat
      BY DEF TypeOK
    <3>2. (now + 1) - positions[u].lastClaimTime = elapsed + 1
      BY <3>1
    <3> HIDE DEF rate, elapsed
    <3>3. rate * (elapsed + 1) = rate * elapsed + rate * 1
      BY <2>1, <2>2, Distributes
    <3>4. rate * 1 = rate
      BY <2>2
    <3> QED  BY <3>2, <3>3, <3>4, Zenon
  <2>6. Accruing(u)' = Accruing(u) + rate
    <3>1. Accruing(u)' = rate * ((now + 1) - positions[u].lastClaimTime)
      BY <2>3, Zenon DEF Accruing
    <3>2. Accruing(u) = rate * elapsed
      BY DEF Accruing
    <3> QED  BY <2>5, <3>1, <3>2, Zenon
  <2>7. WithinCuts(paid[u], owedRewards[u], Accruing(u), earned[u], roundings[u])
    BY ByStaker DEF RewardsOf
  <2>8. Accruing(u) \in Nat
    BY RewardOf
  <2> HIDE DEF rate
  <2>9. WithinCuts(paid[u], owedRewards[u], Accruing(u) + rate, earned[u] + rate, roundings[u])
    BY <2>1, <2>2, <2>7, <2>8, AccrualIsEarned
  <2> QED  BY <2>3, <2>4, <2>6, <2>9, Zenon DEF RewardsOf
<1>5. ASSUME UNCHANGED <<now, positions, owedRewards, ghostVars>>
      PROVE  RewardsAreForStakeAndTime'
  BY <1>5 DEF ghostVars, RewardsAreForStakeAndTime, Accruing
<1>6. CASE WithdrawFees
  BY <1>5, <1>6 DEF WithdrawFees
<1>7. ASSUME NEW recipient \in Recipients, UpdateFeeRecipient(recipient)
      PROVE  RewardsAreForStakeAndTime'
  BY <1>5, <1>7 DEF UpdateFeeRecipient
<1>8. ASSUME NEW value \in Funds, FundRewards(value)
      PROVE  RewardsAreForStakeAndTime'
  BY <1>5, <1>8 DEF FundRewards
<1>9. CASE UNCHANGED vars
  BY <1>5, <1>9 DEF vars
<1> QED  BY <1>1, <1>2, <1>3, <1>4, <1>6, <1>7, <1>8, <1>9 DEF Next

\* A new contract has earned nobody anything.
LEMMA RewardsInit == Init => RewardsAreForStakeAndTime
PROOF
<1> SUFFICES ASSUME Init, NEW u \in Stakers  PROVE RewardsOf(u)
  BY ByStaker
<1>1. Ether \in Nat \ {0} /\ RewardRate \in Nat
  BY StakingConstants
<1>2. Accruing(u) = 0
  BY <1>1, NothingAccrues DEF Init, NoPosition, Accruing
<1>3. paid[u] = 0 /\ owedRewards[u] = 0 /\ earned[u] = 0 /\ roundings[u] = 0
  BY DEF Init
<1>4. Ether * (0 + 0) = 0 /\ (Ether - 1) * 0 = 0
  BY <1>1
<1>5. WithinCuts(0, 0, 0, 0, 0)
  BY <1>4 DEF WithinCuts
<1> QED  BY <1>2, <1>3, <1>5 DEF RewardsOf

\* What a staker was paid, is owed and accrues is rate * stake * time, less than one
\* wei short for each cut to whole wei: no shortfall is erased, nothing is paid twice
\* or for time a stake was not there, for any rate and any order of calls.
THEOREM RewardsHold == Spec => []RewardsAreForStakeAndTime
PROOF
<1>1. RewardsInv => RewardsAreForStakeAndTime
  BY DEF RewardsInv
<1>2. Init => RewardsInv
  BY BooksInit, RewardsInit DEF RewardsInv
<1>3. RewardsInv /\ [Next]_vars => RewardsInv'
  BY BooksStep, RewardsStep DEF RewardsInv
<1> QED  BY <1>1, <1>2, <1>3, PTL DEF Spec

-----------------------------------------------------------------------------
(* Staking: the principal *)

-----------------------------------------------------------------------------
(* The contract's count of what is staked *)

\* Stakers by their stakes.
AmountsOf(p) == [u \in Stakers |-> p[u].amount]

\* The stakes add up to the total the contract keeps.
StakedIsTotal == Staked = totalStaked

\* One position changed changes what is staked by as much.
LEMMA PositionChanged ==
  ASSUME NEW p, NEW q, NEW u \in Stakers,
         \A v \in Stakers : p[v].amount \in Nat /\ q[v].amount \in Nat,
         \A v \in Stakers \ {u} : q[v] = p[v],
         NEW before \in Nat, SumOf(AmountsOf(p), Stakers) = before,
         NEW after \in Nat, after - before = q[u].amount - p[u].amount
  PROVE  SumOf(AmountsOf(q), Stakers) = after
<1>1. /\ \A v \in Stakers : AmountsOf(p)[v] \in Int /\ AmountsOf(q)[v] \in Int
      /\ \A v \in Stakers \ {u} : AmountsOf(p)[v] = AmountsOf(q)[v]
      /\ AmountsOf(p)[u] = p[u].amount /\ AmountsOf(q)[u] = q[u].amount
  BY DEF AmountsOf
<1>2. SumOf(AmountsOf(q), Stakers)
        = SumOf(AmountsOf(p), Stakers) - AmountsOf(p)[u] + AmountsOf(q)[u]
  BY <1>1, SumChange, StakingConstants
<1> QED BY <1>1, <1>2

\* Every step keeps the stakes adding up to the total.
LEMMA TotalStep ==
  ASSUME TypeOK, TypeOK', StakedIsTotal, [Next]_vars
  PROVE  StakedIsTotal'
<1>1. /\ \A v \in Stakers : positions[v].amount \in Nat /\ positions'[v].amount \in Nat
      /\ totalStaked \in Nat /\ totalStaked' \in Nat
  BY DEF TypeOK
<1>2. Staked = SumOf(AmountsOf(positions), Stakers) /\ Staked' = SumOf(AmountsOf(positions'), Stakers)
  BY DEF Staked, AmountsOf
<1>3. ASSUME NEW u \in Stakers, \A v \in Stakers \ {u} : positions'[v] = positions[v],
             totalStaked' - totalStaked = positions'[u].amount - positions[u].amount
      PROVE  StakedIsTotal'
  <2>1. SumOf(AmountsOf(positions), Stakers) = totalStaked
    BY <1>2 DEF StakedIsTotal
  <2>2. SumOf(AmountsOf(positions'), Stakers) = totalStaked'
    BY <1>1, <1>3, <2>1, PositionChanged
  <2> QED BY <1>2, <2>2 DEF StakedIsTotal
<1>4. ASSUME positions' = positions, totalStaked' = totalStaked PROVE StakedIsTotal'
  BY <1>4 DEF StakedIsTotal, Staked
<1>5. ASSUME NEW u \in Stakers, NEW value \in Deposits, Stake(u, value) PROVE StakedIsTotal'
  <2>1. value \in Nat /\ positions \in [Stakers -> [amount : Nat, lastClaimTime : 0 .. now]]
    BY StakingConstants DEF TypeOK
  <2>2. positions'[u].amount = positions[u].amount + value
    BY <2>1, <1>5 DEF Stake, FirstStake, FurtherStake, Holds
  <2>3. totalStaked' = totalStaked + value
    BY <1>5 DEF Stake
  <2>4. \A v \in Stakers \ {u} : positions'[v] = positions[v]
    BY <2>1, <1>5 DEF Stake, FirstStake, FurtherStake, Holds
  <2>5. totalStaked' - totalStaked = positions'[u].amount - positions[u].amount
    BY <1>1, <2>1, <2>2, <2>3
  <2> QED BY <1>3, <2>4, <2>5
<1>6. ASSUME NEW u \in Stakers, NEW taken, Unstake(u, taken) PROVE StakedIsTotal'
  <2>1. positions' = [positions EXCEPT ![u] = NoPosition]
        /\ totalStaked' = totalStaked - positions[u].amount
    BY <1>6 DEF Unstake
  <2>2. positions'[u].amount = 0 /\ \A v \in Stakers \ {u} : positions'[v] = positions[v]
    BY <2>1 DEF TypeOK, NoPosition
  <2>3. totalStaked' - totalStaked = positions'[u].amount - positions[u].amount
    BY <1>1, <2>1, <2>2
  <2> QED BY <1>3, <2>2, <2>3
<1>7. ASSUME NEW u \in Stakers, NEW taken, ClaimRewards(u, taken) PROVE StakedIsTotal'
  <2>1. totalStaked' = totalStaked /\ Holds(u, positions[u].amount, now)
    BY <1>7 DEF ClaimRewards
  <2>2. positions'[u].amount = positions[u].amount /\ \A v \in Stakers \ {u} : positions'[v] = positions[v]
    BY <2>1 DEF TypeOK, Holds
  <2> QED BY <1>1, <1>3, <2>1, <2>2
<1> QED
  BY <1>4, <1>5, <1>6, <1>7 DEF Next, WithdrawFees, UpdateFeeRecipient, FundRewards, Tick, vars

\* At first nothing is staked.
LEMMA TotalInit == Init => StakedIsTotal
<1> SUFFICES ASSUME Init PROVE StakedIsTotal
  OBVIOUS
<1> DEFINE f == AmountsOf(positions)
<1>1. \A u \in Stakers : f[u] = 0
  BY DEF Init, NoPosition, AmountsOf
<1>2. Staked = SumOf(f, Stakers)
  BY DEF Staked, AmountsOf
<1> HIDE DEF f
<1>3. SumOf(f, Stakers) = 0
  BY <1>1, SumZero, StakingConstants
<1> QED BY <1>2, <1>3 DEF StakedIsTotal, Init

\* Every staker can leave with all of the principal, in any order, after the
\* reserve and the fees have left: what positions add up to is what is counted.
THEOREM PrincipalHolds == Spec => []PrincipalIsThere
<1>1. Init => BooksInv /\ StakedIsTotal
  BY BooksInit, TotalInit
<1>2. BooksInv /\ StakedIsTotal /\ [Next]_vars => (BooksInv /\ StakedIsTotal)'
  BY BooksStep, TotalStep DEF BooksInv
<1>3. BooksInv /\ StakedIsTotal => PrincipalIsThere
  BY DEF BooksInv, BooksAreCovered, StakedIsTotal, PrincipalIsThere
<1> QED BY <1>1, <1>2, <1>3, PTL DEF Spec

-----------------------------------------------------------------------------
(* Insurance *)

-----------------------------------------------------------------------------
(* Arithmetic *)

\* A share of an amount is a part of it.
LEMMA QuotientBound ==
  ASSUME NEW c \in Nat, NEW d \in Nat \ {0}, NEW r \in 0 .. d
  PROVE  /\ (c * r) \div d \in Nat
         /\ (c * r) \div d <= c
<1>1. /\ c * r \in Nat /\ c * d \in Nat /\ c * r <= c * d
  OBVIOUS
<1>. DEFINE n == c * r
            q == n \div d
<1>2. n \in Nat
  BY <1>1
<1>. HIDE DEF n
<1>3. q \in Nat /\ d * q <= n
  BY <1>2, Z3
<1>. HIDE DEF q
<1>4. d * q <= d * c
  BY <1>1, <1>3 DEF n
<1>5. q <= c
  BY <1>3, <1>4, Z3
<1>. QED
  BY <1>3, <1>5 DEF q, n

\* So is half of it.
LEMMA Half ==
  ASSUME NEW n \in Nat
  PROVE  n \div 2 \in Nat /\ n \div 2 <= n
  BY Z3

\* Differences of naturals, and how they compare.
LEMMA Differences ==
  ASSUME NEW x \in Nat, NEW y \in Nat, x >= y
  PROVE  x - y \in Nat
OBVIOUS

\* Taking no more from the larger than from the smaller keeps their order.
LEMMA LessTheSame ==
  ASSUME NEW x \in Nat, NEW y \in Nat, NEW d \in Nat, NEW e \in Nat, x >= y, d <= e
  PROVE  x - d >= y - e
OBVIOUS

-----------------------------------------------------------------------------
(* The invariant *)

\* No premium is more than the coverage it buys, so that half of it, which a
\* cancellation refunds, is not more than the coverage it ends.
PremiumsAreParts == \A id \in PolicyIds : policies[id].premium <= policies[id].coverage

\* The inductive invariant.
InsuranceInv == InsuranceTypeOK /\ CoverageIsBacked /\ PremiumsAreParts

\* The numbers the invariant speaks of.
LEMMA InsuranceNumbers ==
  ASSUME InsuranceInv
  PROVE  /\ insuranceTime \in Nat /\ pool \in Nat /\ reserveFund \in Nat
         /\ totalOutstandingCoverage \in Nat /\ activePoliciesCount \in Nat
         /\ nextPolicyId \in 0 .. MaxPolicies
         /\ pool >= totalOutstandingCoverage
         /\ \A id \in PolicyIds :
              /\ policies[id] \in Policy
              /\ policies[id].coverage \in Nat /\ policies[id].premium \in Nat
              /\ policies[id].premium <= policies[id].coverage
         /\ \A h \in Holders \cup {NoHolder} : activePoliciesOf[h] \in Nat
  BY DEF InsuranceInv, InsuranceTypeOK, CoverageIsBacked, PremiumsAreParts, Policy

\* What a purchase adds: numbers, and a premium that is a part of the coverage.
LEMMA PurchaseNumbers ==
  ASSUME InsuranceInv, NEW coverage \in Coverages, NEW rate \in Rates
  PROVE  /\ coverage \in Nat
         /\ CalculatePremium(coverage, rate) \in Nat
         /\ CalculatePremium(coverage, rate) <= coverage
         /\ (CalculatePremium(coverage, rate) * ReserveRatio) \div RateDenominator \in Nat
<1>1. coverage \in Nat /\ rate \in 0 .. RateDenominator /\ RateDenominator \in Nat \ {0}
      /\ ReserveRatio \in 0 .. RateDenominator
  BY InsuranceConstants
<1>2. CalculatePremium(coverage, rate) \in Nat /\ CalculatePremium(coverage, rate) <= coverage
  BY <1>1, QuotientBound DEF CalculatePremium
<1>. QED
  BY <1>1, <1>2, QuotientBound

\* A purchase keeps the types, and the pool behind the coverage.
LEMMA PurchaseKeeps ==
  ASSUME InsuranceInv, NEW h \in Holders, NEW coverage \in Coverages, NEW rate \in Rates,
         NEW c \in Conditions, PurchasePolicy(h, coverage, rate, c)
  PROVE  InsuranceInv'
<1>. DEFINE premium == CalculatePremium(coverage, rate)
            share == (premium * ReserveRatio) \div RateDenominator
            policy == [holder |-> h, coverage |-> coverage, premium |-> premium,
                       policyState |-> "Active", start |-> insuranceTime,
                       end |-> insuranceTime + PolicyDuration, condition |-> c]
<1>1. coverage \in Nat /\ premium \in Nat /\ premium <= coverage /\ share \in Nat
  BY PurchaseNumbers
<1>2. /\ nextPolicyId < MaxPolicies
      /\ totalOutstandingCoverage + coverage <= pool + premium
      /\ pool' = pool + premium
      /\ reserveFund' = reserveFund + share
      /\ totalOutstandingCoverage' = totalOutstandingCoverage + coverage
      /\ activePoliciesOf' = [activePoliciesOf EXCEPT ![h] = @ + 1]
      /\ activePoliciesCount' = activePoliciesCount + 1
      /\ policies' = [policies EXCEPT ![nextPolicyId] = policy]
      /\ nextPolicyId' = nextPolicyId + 1
      /\ UNCHANGED <<insuranceTime, reported, roleVars>>
  BY DEF PurchasePolicy, Backed
<1>3. policy \in Policy /\ policy.premium = premium /\ policy.coverage = coverage
  <2>1. insuranceTime + PolicyDuration \in Nat
    BY InsuranceNumbers, InsuranceConstants
  <2>. HIDE DEF premium
  <2>. QED
    BY <1>1, <2>1, InsuranceNumbers DEF Policy, PolicyStates
<1>. HIDE DEF policy, share, premium
<1>4. /\ pool + premium \in Nat /\ reserveFund + share \in Nat
      /\ totalOutstandingCoverage + coverage \in Nat
      /\ activePoliciesCount + 1 \in Nat /\ nextPolicyId + 1 \in 0 .. MaxPolicies
      /\ activePoliciesOf[h] + 1 \in Nat
      /\ nextPolicyId \in PolicyIds
  BY <1>1, <1>2, InsuranceNumbers, InsuranceConstants DEF PolicyIds
<1>5. /\ pool' \in Nat /\ reserveFund' \in Nat /\ totalOutstandingCoverage' \in Nat
      /\ activePoliciesCount' \in Nat /\ nextPolicyId' \in 0 .. MaxPolicies
  BY <1>2, <1>4, Zenon
<1>6. /\ policies' \in [PolicyIds -> Policy]
      /\ activePoliciesOf' \in [Holders \cup {NoHolder} -> Nat]
  BY <1>2, <1>3, <1>4 DEF InsuranceInv, InsuranceTypeOK
<1>7. InsuranceTypeOK'
  BY <1>2, <1>5, <1>6 DEF InsuranceInv, InsuranceTypeOK, roleVars
<1>8. CoverageIsBacked'
  <2>1. pool + premium >= totalOutstandingCoverage + coverage
    BY <1>1, <1>2, InsuranceNumbers
  <2>. QED
    BY <1>2, <2>1, Zenon DEF CoverageIsBacked
<1>9. PremiumsAreParts'
  BY <1>1, <1>2, <1>3, <1>4 DEF PremiumsAreParts, InsuranceInv, InsuranceTypeOK
<1>. QED
  BY <1>7, <1>8, <1>9 DEF InsuranceInv

\* Closing a policy keeps the types, and takes its coverage from the total.
LEMMA CloseKeeps ==
  ASSUME InsuranceInv, NEW id \in PolicyIds, NEW state \in PolicyStates, Close(id, state),
         pool' \in Nat
  PROVE  /\ InsuranceTypeOK' /\ PremiumsAreParts'
         /\ totalOutstandingCoverage' = totalOutstandingCoverage - policies[id].coverage
         /\ totalOutstandingCoverage >= policies[id].coverage
<1>. DEFINE p == policies[id]
<1>1. /\ p \in Policy /\ p.coverage \in Nat /\ p.holder \in Holders \cup {NoHolder}
      /\ [p EXCEPT !.policyState = state] \in Policy
      /\ [p EXCEPT !.policyState = state].premium = p.premium
      /\ [p EXCEPT !.policyState = state].coverage = p.coverage
  BY InsuranceNumbers DEF Policy
<1>2. /\ activePoliciesCount > 0 /\ activePoliciesOf[p.holder] > 0
      /\ totalOutstandingCoverage >= p.coverage
      /\ policies' = [policies EXCEPT ![id] = [p EXCEPT !.policyState = state]]
      /\ activePoliciesCount' = activePoliciesCount - 1
      /\ activePoliciesOf' = [activePoliciesOf EXCEPT ![p.holder] = @ - 1]
      /\ totalOutstandingCoverage' = totalOutstandingCoverage - p.coverage
      /\ UNCHANGED <<insuranceTime, nextPolicyId, reported, reserveFund, roleVars>>
  BY DEF Close
<1>3. /\ activePoliciesCount - 1 \in Nat
      /\ activePoliciesOf[p.holder] - 1 \in Nat
      /\ totalOutstandingCoverage - p.coverage \in Nat
  BY <1>1, <1>2, InsuranceNumbers
<1>. HIDE DEF p
<1>4. activePoliciesCount' \in Nat /\ totalOutstandingCoverage' \in Nat
  BY <1>2, <1>3, Zenon
<1>5. /\ policies' \in [PolicyIds -> Policy]
      /\ activePoliciesOf' \in [Holders \cup {NoHolder} -> Nat]
  BY <1>1, <1>2, <1>3 DEF InsuranceInv, InsuranceTypeOK
<1>6. InsuranceTypeOK'
  BY <1>2, <1>4, <1>5 DEF InsuranceInv, InsuranceTypeOK, roleVars
<1>7. PremiumsAreParts'
  BY <1>1, <1>2 DEF PremiumsAreParts, InsuranceInv, InsuranceTypeOK, p
<1>. QED
  BY <1>2, <1>6, <1>7 DEF p

\* A policy closed against no more than its coverage leaves the rest backed.
LEMMA CloseLeavesBacked ==
  ASSUME InsuranceInv, NEW id \in PolicyIds, NEW state \in PolicyStates, Close(id, state),
         NEW out \in Nat, out <= policies[id].coverage, out <= pool, pool' = pool - out
  PROVE  InsuranceInv'
<1>1. /\ pool \in Nat /\ totalOutstandingCoverage \in Nat /\ policies[id].coverage \in Nat
      /\ pool >= totalOutstandingCoverage
  BY InsuranceNumbers
<1>2. pool - out \in Nat
  BY <1>1
<1>3. pool' \in Nat
  BY <1>2, Zenon
<1>4. pool - out >= totalOutstandingCoverage - policies[id].coverage
  BY <1>1, LessTheSame
<1>5. totalOutstandingCoverage' = totalOutstandingCoverage - policies[id].coverage
      /\ InsuranceTypeOK' /\ PremiumsAreParts'
  BY <1>3, CloseKeeps
<1>6. CoverageIsBacked'
  BY <1>4, <1>5, Zenon DEF CoverageIsBacked
<1>. QED
  BY <1>5, <1>6 DEF InsuranceInv

\* Every step keeps the invariant.
LEMMA InsuranceStep ==
  ASSUME InsuranceInv, [InsuranceNext]_insuranceVars
  PROVE  InsuranceInv'
<1> USE DEF insuranceVars, counterVars, roleVars
<1>1. CASE UNCHANGED insuranceVars
  BY <1>1 DEF InsuranceInv, InsuranceTypeOK, CoverageIsBacked, PremiumsAreParts
<1>2. ASSUME NEW h \in Holders, NEW coverage \in Coverages, NEW rate \in Rates,
             NEW c \in Conditions, PurchasePolicy(h, coverage, rate, c)
      PROVE  InsuranceInv'
  BY <1>2, PurchaseKeeps
<1>3. ASSUME NEW h \in Holders, NEW id \in PolicyIds, ClaimPolicy(h, id)
      PROVE  InsuranceInv'
  <2>1. /\ Close(id, "Claimed") /\ policies[id].coverage <= pool
        /\ pool' = pool - policies[id].coverage /\ "Claimed" \in PolicyStates
    BY <1>3, InsuranceNumbers DEF ClaimPolicy, PolicyStates
  <2>2. policies[id].coverage \in Nat /\ policies[id].coverage <= policies[id].coverage
    BY InsuranceNumbers
  <2>. QED
    BY <2>1, <2>2, CloseLeavesBacked
<1>4. ASSUME NEW h \in Holders, NEW id \in PolicyIds, CancelPolicy(h, id)
      PROVE  InsuranceInv'
  <2>. DEFINE refund == policies[id].premium \div 2
              out == IF pool >= refund THEN refund ELSE 0
  <2>1. Close(id, "Cancelled") /\ "Cancelled" \in PolicyStates
        /\ pool' = IF pool >= refund THEN pool - refund ELSE pool
    BY <1>4 DEF CancelPolicy, PolicyStates
  <2>2. refund \in Nat /\ refund <= policies[id].coverage
    <3>1. /\ policies[id].premium \in Nat /\ policies[id].coverage \in Nat
          /\ policies[id].premium <= policies[id].coverage
      BY InsuranceNumbers
    <3>2. refund \in Nat /\ refund <= policies[id].premium
      BY <3>1, Half
    <3>. HIDE DEF refund
    <3>. QED
      BY <3>1, <3>2
  <2>. HIDE DEF refund
  <2>3. /\ out \in Nat /\ out <= policies[id].coverage /\ out <= pool
        /\ (IF pool >= refund THEN pool - refund ELSE pool) = pool - out
    BY <2>2, InsuranceNumbers
  <2>4. pool' = pool - out
    BY <2>1, <2>3, Zenon
  <2>. QED
    BY <2>1, <2>3, <2>4, CloseLeavesBacked
<1>5. ASSUME NEW id \in PolicyIds, ExpirePolicy(id)
      PROVE  InsuranceInv'
  <2>1. Close(id, "Expired") /\ "Expired" \in PolicyStates /\ pool' = pool
    BY <1>5 DEF ExpirePolicy, PolicyStates
  <2>2. pool = pool - 0 /\ 0 <= policies[id].coverage /\ 0 <= pool
    BY InsuranceNumbers
  <2>3. pool' = pool - 0
    BY <2>1, <2>2, Zenon
  <2>. QED
    BY <2>1, <2>2, <2>3, CloseLeavesBacked
<1>6. ASSUME NEW o \in Oracles, NEW c \in Conditions, ReportTrigger(o, c)
      PROVE  InsuranceInv'
  BY <1>6 DEF ReportTrigger, InsuranceInv, InsuranceTypeOK, CoverageIsBacked, PremiumsAreParts
<1>7. ASSUME NEW o \in Oracles, UpdateOracle(o)
      PROVE  InsuranceInv'
  BY <1>7 DEF UpdateOracle, InsuranceInv, InsuranceTypeOK, CoverageIsBacked, PremiumsAreParts
<1>8. ASSUME NEW r \in FeeRecipients, UpdateInsuranceFeeRecipient(r)
      PROVE  InsuranceInv'
  BY <1>8 DEF UpdateInsuranceFeeRecipient, InsuranceInv, InsuranceTypeOK, CoverageIsBacked,
              PremiumsAreParts
<1>9. ASSUME NEW more \in Nat, more >= totalOutstandingCoverage, pool' = more,
             UNCHANGED <<insuranceTime, policies, nextPolicyId, reported, reserveFund,
                         counterVars, roleVars>>
      PROVE  InsuranceInv'
  BY <1>9 DEF InsuranceInv, InsuranceTypeOK, CoverageIsBacked, PremiumsAreParts
<1>10. CASE WithdrawExcess
  <2>1. Liabilities \in Nat /\ Liabilities >= totalOutstandingCoverage
        /\ pool \in Nat /\ pool >= totalOutstandingCoverage
    BY InsuranceNumbers DEF Liabilities
  <2>. QED
    BY <1>9, <1>10, <2>1 DEF WithdrawExcess
<1>11. ASSUME NEW value \in Donations, Receive(value)
       PROVE  InsuranceInv'
  <2>1. pool + value \in Nat /\ pool + value >= totalOutstandingCoverage
    BY InsuranceNumbers, InsuranceConstants
  <2>. QED
    BY <1>9, <1>11, <2>1 DEF Receive
<1>12. CASE InsuranceTick
  <2>1. insuranceTime + 1 \in Nat
    BY InsuranceNumbers
  <2>. QED
    BY <1>12, <2>1 DEF InsuranceTick, InsuranceInv, InsuranceTypeOK, CoverageIsBacked,
                       PremiumsAreParts
<1>. QED
  BY <1>1, <1>2, <1>3, <1>4, <1>5, <1>6, <1>7, <1>8, <1>10, <1>11, <1>12 DEF InsuranceNext

\* So it always holds.
LEMMA InsuranceInvariant == InsuranceSpec => []InsuranceInv
<1>1. InsuranceInit => InsuranceInv
  BY InsuranceConstants
     DEF InsuranceInit, InsuranceInv, InsuranceTypeOK, CoverageIsBacked, PremiumsAreParts,
         Unwritten, Policy, PolicyStates, PolicyIds
<1>. QED
  BY <1>1, InsuranceStep, PTL DEF InsuranceSpec

\* The variables keep their types: no counter goes below zero.
THEOREM InsuranceTypes == InsuranceSpec => []InsuranceTypeOK
<1>1. InsuranceInv => InsuranceTypeOK
  BY DEF InsuranceInv
<1>. QED
  BY <1>1, InsuranceInvariant, PTL

\* The pool holds the coverage it counts as outstanding, through purchases, claims,
\* cancellations and the owner's withdrawals.
THEOREM PoolBacksCoverage == InsuranceSpec => []CoverageIsBacked
<1>1. InsuranceInv => CoverageIsBacked
  BY DEF InsuranceInv
<1>. QED
  BY <1>1, InsuranceInvariant, PTL

-----------------------------------------------------------------------------
(* Insurance: the counts *)

-----------------------------------------------------------------------------
(* The counters are those of the active policies. *)

\* Policies by their coverage.
Coverage == [id \in PolicyIds |-> policies[id].coverage]

\* No policy is counted for the holder of what was never written, and what was
\* sold has a holder.
CountedInv ==
  /\ PoliciesAreCounted
  /\ activePoliciesOf[NoHolder] = 0
  /\ \A id \in PolicyIds : id < nextPolicyId => policies[id].holder \in Holders

\* The active policies are finitely many, of a natural coverage each.
LEMMA ActiveFacts ==
  ASSUME InsuranceTypeOK
  PROVE  /\ IsFiniteSet(ActiveIds) /\ Cardinality(ActiveIds) \in Nat
         /\ \A h : IsFiniteSet(ActiveIdsOf(h)) /\ Cardinality(ActiveIdsOf(h)) \in Nat
         /\ \A id \in PolicyIds : Coverage[id] \in Nat
         /\ ActiveIds \subseteq PolicyIds
<1>1. IsFiniteSet(PolicyIds)
  BY FS_Interval, InsuranceConstants DEF PolicyIds
<1>2. ActiveIds \subseteq PolicyIds /\ \A h : ActiveIdsOf(h) \subseteq ActiveIds
  BY DEF ActiveIds, ActiveIdsOf
<1>3. IsFiniteSet(ActiveIds)
  BY <1>1, <1>2, FS_Subset
<1>4. \A h : IsFiniteSet(ActiveIdsOf(h))
  BY <1>2, <1>3, FS_Subset
<1>5. Cardinality(ActiveIds) \in Nat
  BY <1>3, FS_CardinalityType
<1>6. \A h : Cardinality(ActiveIdsOf(h)) \in Nat
  BY <1>4, FS_CardinalityType
<1>7. \A id \in PolicyIds : Coverage[id] \in Nat
  BY DEF InsuranceTypeOK, Policy, Coverage
<1> QED BY <1>2, <1>3, <1>4, <1>5, <1>6, <1>7

\* A purchase adds one policy to the active ones, and counts it.
LEMMA PurchaseIsCounted ==
  ASSUME InsuranceInv, InsuranceTypeOK', CountedInv, NEW h \in Holders, NEW coverage \in Coverages,
         NEW rate \in Rates, NEW c \in Conditions, PurchasePolicy(h, coverage, rate, c)
  PROVE  CountedInv'
<1> DEFINE n == nextPolicyId
           new == policies'[n]
<1>1. n \in PolicyIds /\ n \in Nat /\ nextPolicyId' = n + 1 /\ n < MaxPolicies
  BY InsuranceConstants DEF PurchasePolicy, InsuranceInv, InsuranceTypeOK, PolicyIds
<1>2. /\ new.holder = h /\ new.coverage = coverage /\ new.policyState = "Active"
      /\ \A id \in PolicyIds : id # n => policies'[id] = policies[id]
  BY <1>1 DEF PurchasePolicy, InsuranceInv, InsuranceTypeOK
<1>3. h # NoHolder /\ coverage \in Nat
  BY InsuranceConstants
<1>4. ActiveIds' = ActiveIds \cup {n} /\ n \notin ActiveIds
  <2>1. \A id \in PolicyIds : id \in Nat /\ (id < n + 1 <=> id < n \/ id = n) /\ ~(n < n)
    BY <1>1, InsuranceConstants DEF PolicyIds
  <2> QED BY <1>1, <1>2, <2>1 DEF ActiveIds
<1>5. /\ ActiveIdsOf(h)' = ActiveIdsOf(h) \cup {n} /\ n \notin ActiveIdsOf(h)
      /\ \A k : k # h => ActiveIdsOf(k)' = ActiveIdsOf(k)
  BY <1>2, <1>4 DEF ActiveIdsOf, ActiveIds
<1>6. Coverage'[n] = coverage /\ \A id \in ActiveIds : Coverage'[id] = Coverage[id]
  BY <1>1, <1>2, <1>4 DEF Coverage, ActiveIds
<1>7. totalOutstandingCoverage' = SumOf(Coverage', ActiveIds')
  <2>1. SumOf(Coverage', ActiveIds \cup {n}) = Coverage'[n] + SumOf(Coverage', ActiveIds)
    <3>1. \A id \in ActiveIds \cup {n} : Coverage'[id] \in Int
      BY <1>3, <1>6, ActiveFacts DEF InsuranceInv
    <3>2. IsFiniteSet(ActiveIds)
      BY ActiveFacts DEF InsuranceInv
    <3> QED BY <1>4, <3>1, <3>2, SumAdd
  <2>2. SumOf(Coverage', ActiveIds) = SumOf(Coverage, ActiveIds)
    BY <1>6, ActiveFacts, SumSame DEF InsuranceInv
  <2>3. SumOf(Coverage, ActiveIds) = totalOutstandingCoverage
    BY DEF CountedInv, PoliciesAreCounted, Coverage
  <2>4. totalOutstandingCoverage' = totalOutstandingCoverage + coverage
        /\ totalOutstandingCoverage \in Nat
    BY DEF PurchasePolicy, InsuranceInv, InsuranceTypeOK
  <2>5. coverage + totalOutstandingCoverage = totalOutstandingCoverage + coverage
    BY <1>3, <2>4
  <2> QED BY <1>4, <1>6, <2>1, <2>2, <2>3, <2>4, <2>5, Zenon
<1>8. activePoliciesCount' = Cardinality(ActiveIds')
  <2>1. Cardinality(ActiveIds \cup {n}) = Cardinality(ActiveIds) + 1
    BY <1>4, ActiveFacts, FS_AddElement DEF InsuranceInv
  <2> QED BY <1>4, <2>1, Zenon DEF PurchasePolicy, CountedInv, PoliciesAreCounted
<1>9. activePoliciesOf' = [activePoliciesOf EXCEPT ![h] = activePoliciesOf[h] + 1]
      /\ activePoliciesOf \in [Holders \cup {NoHolder} -> Nat] /\ activePoliciesOf[h] < MaxActivePolicies
  BY DEF PurchasePolicy, InsuranceInv, InsuranceTypeOK
<1>10. ASSUME NEW k \in Holders
       PROVE  activePoliciesOf'[k] = Cardinality(ActiveIdsOf(k)') /\ activePoliciesOf'[k] <= MaxActivePolicies
  <2>1. activePoliciesOf[k] = Cardinality(ActiveIdsOf(k)) /\ activePoliciesOf[k] <= MaxActivePolicies
    BY DEF CountedInv, PoliciesAreCounted
  <2>2. CASE k = h
    <3>1. Cardinality(ActiveIdsOf(h) \cup {n}) = Cardinality(ActiveIdsOf(h)) + 1
      BY <1>5, ActiveFacts, FS_AddElement DEF InsuranceInv
    <3>2. activePoliciesOf'[h] = activePoliciesOf[h] + 1
      BY <1>9
    <3>3. activePoliciesOf[h] + 1 <= MaxActivePolicies
      BY <1>9, InsuranceConstants
    <3> QED BY <1>5, <2>1, <2>2, <3>1, <3>2, <3>3, Zenon
  <2>3. CASE k # h
    BY <1>5, <1>9, <2>1, <2>3
  <2> QED BY <2>2, <2>3
<1>11. activePoliciesOf'[NoHolder] = 0
  BY <1>3, <1>9 DEF CountedInv
<1>12. \A id \in PolicyIds : id >= nextPolicyId' => policies'[id] = Unwritten
  BY <1>1, <1>2 DEF CountedInv, PoliciesAreCounted, PolicyIds
<1>13. \A id \in PolicyIds : id < nextPolicyId' => policies'[id].holder \in Holders
  BY <1>1, <1>2 DEF CountedInv, PolicyIds
<1> QED
  BY <1>7, <1>8, <1>10, <1>11, <1>12, <1>13 DEF CountedInv, PoliciesAreCounted, Coverage

\* Only what was sold can be closed; it leaves the active ones and the counters.
LEMMA CloseIsCounted ==
  ASSUME InsuranceInv, CountedInv, NEW id \in PolicyIds, NEW state \in PolicyStates \ {"Active"},
         Close(id, state)
  PROVE  CountedInv'
<1> DEFINE h == policies[id].holder
<1>1. /\ policies[id] \in Policy /\ h \in Holders \cup {NoHolder}
      /\ policies[id].policyState = "Active" /\ activePoliciesOf[h] > 0
      /\ activePoliciesOf \in [Holders \cup {NoHolder} -> Nat]
      /\ totalOutstandingCoverage \in Nat /\ activePoliciesCount \in Nat /\ nextPolicyId \in Nat
      /\ id \in Nat
  <2>1. policies[id] \in Policy
    BY DEF InsuranceInv, InsuranceTypeOK
  <2>2. policies[id].policyState = "Active" /\ activePoliciesOf[h] > 0
    BY DEF Close
  <2> QED
    BY <2>1, <2>2, InsuranceConstants DEF InsuranceInv, InsuranceTypeOK, Policy, PolicyIds
<1>2. h # NoHolder
  BY <1>1 DEF CountedInv
<1>3. id < nextPolicyId
  <2>1. id >= nextPolicyId => h = NoHolder
    BY DEF CountedInv, PoliciesAreCounted, Unwritten
  <2> QED BY <1>1, <1>2, <2>1
<1>4. id \in ActiveIds /\ id \in ActiveIdsOf(h)
  BY <1>1, <1>3 DEF ActiveIds, ActiveIdsOf
<1>5. /\ policies' = [policies EXCEPT ![id].policyState = state] /\ nextPolicyId' = nextPolicyId
      /\ activePoliciesCount' = activePoliciesCount - 1
      /\ activePoliciesOf' = [activePoliciesOf EXCEPT ![h] = activePoliciesOf[h] - 1]
      /\ totalOutstandingCoverage' = totalOutstandingCoverage - policies[id].coverage
  BY DEF Close
<1>6. /\ policies'[id].policyState # "Active"
      /\ \A k \in PolicyIds : /\ k # id => policies'[k] = policies[k]
                              /\ policies'[k].coverage = policies[k].coverage
                              /\ policies'[k].holder = policies[k].holder
  BY <1>5 DEF InsuranceInv, InsuranceTypeOK, Policy
<1>7. ActiveIds' = ActiveIds \ {id}
  BY <1>5, <1>6 DEF ActiveIds
<1>8. \A k : ActiveIdsOf(k)' = IF k = h THEN ActiveIdsOf(k) \ {id} ELSE ActiveIdsOf(k)
  BY <1>6, <1>7 DEF ActiveIdsOf, ActiveIds
<1>9. Coverage' = Coverage
  BY <1>6 DEF Coverage
<1>10. totalOutstandingCoverage' = SumOf(Coverage', ActiveIds')
  <2>1. SumOf(Coverage, ActiveIds) = Coverage[id] + SumOf(Coverage, ActiveIds \ {id})
    BY <1>4, ActiveFacts, SumTake DEF InsuranceInv
  <2>2. IsFiniteSet(ActiveIds \ {id}) /\ \A k \in ActiveIds \ {id} : Coverage[k] \in Nat
    BY ActiveFacts, FS_Subset DEF InsuranceInv
  <2>3. SumOf(Coverage, ActiveIds \ {id}) \in Nat
    BY <2>2, SumNat
  <2>4. SumOf(Coverage, ActiveIds) = totalOutstandingCoverage /\ Coverage[id] = policies[id].coverage
    BY DEF CountedInv, PoliciesAreCounted, Coverage
  <2>5. policies[id].coverage \in Nat
    BY <1>1 DEF Policy
  <2>6. totalOutstandingCoverage - policies[id].coverage = SumOf(Coverage, ActiveIds \ {id})
    BY <1>1, <2>1, <2>3, <2>4, <2>5
  <2> QED BY <1>5, <1>7, <1>9, <2>6, Zenon
<1>11. activePoliciesCount' = Cardinality(ActiveIds')
  <2>1. Cardinality(ActiveIds \ {id}) = Cardinality(ActiveIds) - 1
    BY <1>4, ActiveFacts, FS_RemoveElement DEF InsuranceInv
  <2> QED BY <1>5, <1>7, <2>1, Zenon DEF CountedInv, PoliciesAreCounted
<1>12. ASSUME NEW k \in Holders
       PROVE  activePoliciesOf'[k] = Cardinality(ActiveIdsOf(k)') /\ activePoliciesOf'[k] <= MaxActivePolicies
  <2>1. activePoliciesOf[k] = Cardinality(ActiveIdsOf(k)) /\ activePoliciesOf[k] <= MaxActivePolicies
    BY DEF CountedInv, PoliciesAreCounted
  <2>2. CASE k = h
    <3>1. Cardinality(ActiveIdsOf(h) \ {id}) = Cardinality(ActiveIdsOf(h)) - 1
      <4> HIDE DEF h
      <4>1. IsFiniteSet(ActiveIdsOf(h))
        BY ActiveFacts DEF InsuranceInv
      <4> QED BY <1>4, <4>1, FS_RemoveElement
    <3> HIDE DEF h
    <3>2. activePoliciesOf'[k] = activePoliciesOf[k] - 1
      BY <1>1, <1>5, <2>2
    <3>3. activePoliciesOf[k] - 1 <= MaxActivePolicies
      BY <1>1, <2>1, <2>2, InsuranceConstants
    <3>4. Cardinality(ActiveIdsOf(k)') = Cardinality(ActiveIdsOf(k)) - 1
      <4>1. ActiveIdsOf(k)' = ActiveIdsOf(k) \ {id}
        BY <1>8, <2>2
      <4> QED BY <2>2, <3>1, <4>1, Zenon
    <3>5. activePoliciesOf[k] - 1 = Cardinality(ActiveIdsOf(k)')
      BY <2>1, <3>4, Zenon
    <3> QED BY <3>2, <3>3, <3>5, Zenon
  <2>3. CASE k # h
    BY <1>1, <1>5, <1>8, <2>1, <2>3
  <2> QED BY <2>2, <2>3
<1>13. activePoliciesOf'[NoHolder] = 0
  BY <1>1, <1>2, <1>5 DEF CountedInv
<1>14. \A k \in PolicyIds : k >= nextPolicyId' => policies'[k] = Unwritten
  <2>1. \A k \in PolicyIds : k >= nextPolicyId => k # id
    BY <1>1, <1>3 DEF PolicyIds
  <2> QED BY <1>5, <1>6, <2>1 DEF CountedInv, PoliciesAreCounted
<1>15. \A k \in PolicyIds : k < nextPolicyId' => policies'[k].holder \in Holders
  BY <1>5, <1>6 DEF CountedInv
<1> QED
  BY <1>10, <1>11, <1>12, <1>13, <1>14, <1>15 DEF CountedInv, PoliciesAreCounted, Coverage

\* Every step keeps the counts of the active policies and of their coverage.
LEMMA CountedStep ==
  ASSUME InsuranceInv, InsuranceInv', CountedInv, [InsuranceNext]_insuranceVars
  PROVE  CountedInv'
<1>1. ASSUME UNCHANGED <<policies, nextPolicyId, counterVars>> PROVE CountedInv'
  BY <1>1 DEF CountedInv, PoliciesAreCounted, ActiveIds, ActiveIdsOf, counterVars
<1>2. ASSUME NEW id \in PolicyIds, NEW state \in {"Claimed", "Expired", "Cancelled"}, Close(id, state)
      PROVE  CountedInv'
  BY <1>2, CloseIsCounted DEF PolicyStates
<1>3. ASSUME NEW id \in PolicyIds, NEW h \in Holders, ClaimPolicy(h, id) \/ CancelPolicy(h, id)
      PROVE  CountedInv'
  BY <1>2, <1>3 DEF ClaimPolicy, CancelPolicy
<1>4. ASSUME NEW id \in PolicyIds, ExpirePolicy(id) PROVE CountedInv'
  BY <1>2, <1>4 DEF ExpirePolicy
<1>5. ASSUME NEW h \in Holders, NEW coverage \in Coverages, NEW rate \in Rates,
             NEW c \in Conditions, PurchasePolicy(h, coverage, rate, c)
      PROVE  CountedInv'
  BY <1>5, PurchaseIsCounted DEF InsuranceInv
<1> QED
  BY <1>1, <1>3, <1>4, <1>5
  DEF InsuranceNext, ReportTrigger, UpdateOracle, UpdateInsuranceFeeRecipient, WithdrawExcess,
      Receive, InsuranceTick, insuranceVars

\* At first there is no policy to count.
LEMMA CountedInit == InsuranceInit => CountedInv
<1> SUFFICES ASSUME InsuranceInit PROVE CountedInv
  OBVIOUS
<1>1. ActiveIds = {} /\ \A h : ActiveIdsOf(h) = {}
  BY InsuranceConstants DEF InsuranceInit, ActiveIds, ActiveIdsOf, PolicyIds
<1>2. Cardinality({}) = 0
  BY FS_EmptySet
<1>3. SumOf(Coverage, {}) = 0
  BY SumEmpty
<1>4. \A id \in PolicyIds : ~(id < 0)
  BY InsuranceConstants DEF PolicyIds
<1> QED
  BY <1>1, <1>2, <1>3, <1>4, InsuranceConstants
  DEF InsuranceInit, CountedInv, PoliciesAreCounted, Coverage

\* Coverage, policies and policies per holder are counted as they are, so that no
\* counter ever stops a policy that was sold from closing.
THEOREM PoliciesCounted == InsuranceSpec => []PoliciesAreCounted
<1>1. InsuranceInit => InsuranceInv
  BY InsuranceConstants
     DEF InsuranceInit, InsuranceInv, InsuranceTypeOK, CoverageIsBacked, PremiumsAreParts,
         Unwritten, Policy, PolicyStates, PolicyIds
<1>2. InsuranceInv /\ CountedInv /\ [InsuranceNext]_insuranceVars => (InsuranceInv /\ CountedInv)'
  BY InsuranceStep, CountedStep
<1>3. CountedInv => PoliciesAreCounted
  BY DEF CountedInv
<1> QED BY <1>1, <1>2, <1>3, CountedInit, PTL DEF InsuranceSpec

-----------------------------------------------------------------------------
(* Account *)

\* The proposal that is there names a key and waits for its own timelock, and
\* those behind it can be counted.
AccountInv ==
  /\ AccountTypeOK
  /\ SupportIsCurrent
  /\ Active => /\ recovery.key \in Keys
                /\ recovery.executeAfter = proposedAt + RecoveryTimelock
  /\ IsFiniteSet(backers)

\* A fresh account has no proposal.
LEMMA AccountStarts == AccountInit => AccountInv
<1> SUFFICES ASSUME AccountInit PROVE AccountInv
  OBVIOUS
<1>1. Cardinality({}) = 0 /\ IsFiniteSet({})
  BY FS_EmptySet
<1>. QED
  BY <1>1, AccountConstants
     DEF AccountInit, AccountInv, AccountTypeOK, SupportIsCurrent, Active, NoRecovery

\* Dropping the proposal leaves nothing to say about it.
LEMMA Dropped ==
  ASSUME NEW gs \in SUBSET Addresses, Reset(gs), supportedCurrent \subseteq Addresses
  PROVE  /\ ~Active'
         /\ recovery' \in [key : Keys \cup {NoKey}, executeAfter : Nat, supportCount : Nat]
         /\ supportedCurrent' \subseteq Addresses
         /\ backers' \subseteq Addresses /\ IsFiniteSet(backers')
<1>1. IsFiniteSet({})
  BY FS_EmptySet
<1>. QED
  BY <1>1 DEF Reset, Cleared, NoRecovery, Active

\* A proposal starts with its proposer's support and no other.
LEMMA InitiateStep ==
  ASSUME AccountInv, NEW g \in Addresses, NEW key \in Keys, InitiateRecovery(g, key)
  PROVE  AccountInv'
<1> USE AccountConstants DEF AccountInv, AccountTypeOK
<1>1. /\ g \in guardians /\ guardians' = guardians
      /\ recovery' = [key |-> key, executeAfter |-> accountTime + RecoveryTimelock,
                      supportCount |-> 1]
      /\ supportedCurrent' = (supportedCurrent \ guardians) \cup {g}
      /\ proposedAt' = accountTime /\ backers' = {g}
      /\ UNCHANGED <<accountTime, ownerKey, recoveryThreshold>>
  BY DEF InitiateRecovery, FlagsAnew, Cleared
<1>2. Cardinality({g}) = 1 /\ IsFiniteSet({g})
  BY FS_Singleton
<1>3. AccountTypeOK'
  BY <1>1
<1>4. SupportIsCurrent'
  BY <1>1, <1>2 DEF SupportIsCurrent
<1>. QED
  BY <1>1, <1>2, <1>3, <1>4 DEF Active

\* A guardian who supports is one more.
LEMMA SupportStep ==
  ASSUME AccountInv, NEW g \in Addresses, SupportRecovery(g)
  PROVE  AccountInv'
<1> USE AccountConstants DEF AccountInv, AccountTypeOK
<1>1. /\ g \in guardians /\ Active /\ g \notin supportedCurrent
      /\ supportedCurrent' = supportedCurrent \cup {g}
      /\ recovery' = [recovery EXCEPT !.supportCount = recovery.supportCount + 1]
      /\ backers' = backers \cup {g}
      /\ UNCHANGED <<accountTime, ownerKey, guardians, recoveryThreshold, proposedAt>>
  BY DEF SupportRecovery
<1>2. g \notin backers
  BY <1>1 DEF SupportIsCurrent
<1>3. Cardinality(backers \cup {g}) = Cardinality(backers) + 1 /\ IsFiniteSet(backers \cup {g})
  BY <1>2, FS_AddElement
<1>4. AccountTypeOK'
  BY <1>1
<1>5. SupportIsCurrent'
  BY <1>1, <1>3 DEF SupportIsCurrent
<1>. QED
  BY <1>1, <1>3, <1>4, <1>5 DEF Active

\* Every step keeps the support of the proposal its own.
LEMMA AccountStep ==
  ASSUME AccountInv, [AccountNext]_accountVars
  PROVE  AccountInv'
<1> USE AccountConstants DEF AccountInv, AccountTypeOK
<1>1. CASE UNCHANGED accountVars
  BY <1>1 DEF accountVars, SupportIsCurrent, Active
<1>2. ASSUME NEW gs \in SUBSET Addresses, NEW threshold \in 1..Cardinality(gs),
             SetGuardians(gs, threshold)
      PROVE  AccountInv'
  <2>1. /\ Reset(gs) /\ guardians' = gs /\ recoveryThreshold' = threshold
        /\ UNCHANGED <<accountTime, ownerKey, proposedAt>>
    BY <1>2 DEF SetGuardians
  <2>2. threshold \in 0..Cardinality(gs)
    OBVIOUS
  <2>. QED
    BY <2>1, <2>2, Dropped DEF SupportIsCurrent
<1>3. CASE CancelRecovery
  BY <1>3, Dropped DEF CancelRecovery, SupportIsCurrent
<1>4. CASE ExecuteRecovery
  <2>1. /\ Active /\ ownerKey' = recovery.key /\ Reset(guardians)
        /\ UNCHANGED <<accountTime, guardians, recoveryThreshold, proposedAt>>
    BY <1>4 DEF ExecuteRecovery
  <2>2. ownerKey' \in Keys
    BY <2>1
  <2>. QED
    BY <2>1, <2>2, Dropped DEF SupportIsCurrent
<1>5. CASE AccountTick
  BY <1>5 DEF AccountTick, SupportIsCurrent, Active
<1>. QED
  BY <1>1, <1>2, <1>3, <1>4, <1>5, InitiateStep, SupportStep DEF AccountNext

\* When the key changes, it is the recovery that is carried out.
LEMMA OwnerStep ==
  ASSUME AccountInv, [AccountNext]_accountVars
  PROVE  OwnerHadTime
<1> SUFFICES ASSUME ownerKey' # ownerKey PROVE OwnerHadTime
  BY DEF OwnerHadTime
<1>1. ExecuteRecovery
  BY DEF AccountNext, accountVars, SetGuardians, CancelRecovery, SupportRecovery,
         InitiateRecovery, AccountTick
<1>2. /\ Active /\ accountTime >= recovery.executeAfter
      /\ recovery.supportCount >= recoveryThreshold /\ ownerKey' = recovery.key
  BY <1>1 DEF ExecuteRecovery
<1>3. backers \cap guardians = backers /\ recovery.supportCount = Cardinality(backers)
  BY <1>2 DEF AccountInv, SupportIsCurrent
<1>. QED
  BY <1>2, <1>3 DEF AccountInv, OwnerHadTime

\* The owner's key is replaced only by one that as many present guardians as it
\* takes support, the timelock after it was proposed.
THEOREM Guardians == AccountSpec => GuardiansDecide
<1>1. AccountInv' => SupportIsCurrent'
  BY DEF AccountInv
<1>. QED
  BY <1>1, AccountStarts, AccountStep, OwnerStep, PTL DEF AccountSpec, GuardiansDecide

-----------------------------------------------------------------------------
(* Governance *)

\* A checkpoint.
Entry == [fromBlock : Nat, votes : Nat]

-----------------------------------------------------------------------------
(* The binary search *)

\* What a search may look at, from the first position to the second.
Ranges(s) == (0 .. Len(s)) \X (0 .. Len(s))

\* What a search f that looks at a range goes on to.
SearchFrom(f, s, b, range) ==
  LET low == range[1]
      high == range[2]
      mid == (low + high) \div 2
  IN
  IF low >= high THEN high
  ELSE IF s[mid + 1].fromBlock > b
    THEN f[<<low, mid>>]
    ELSE f[<<mid + 1, high>>]

\* f is a search among the checkpoints s for block b.
Searches(f, s, b) == f = [range \in Ranges(s) |-> SearchFrom(f, s, b, range)]

\* The checkpoints up to the c-th are those not after block b.
Splits(s, b, c) ==
  /\ c \in 0 .. Len(s)
  /\ \A i \in 1 .. Len(s) : s[i].fromBlock <= b <=> i <= c

\* What the search finds in a range: c, or the end of the range next to it.
Clamp(c, low, high) ==
  IF low >= high THEN high ELSE IF c < low THEN low ELSE IF high < c THEN high ELSE c

\* The lookup is the search of all the checkpoints.
LEMMA UptoIsSearch ==
  ASSUME NEW s, NEW b
  PROVE  Upto(s, b) = (CHOOSE f : Searches(f, s, b))[<<0, Len(s)>>]
BY DEF Upto, Searches, Ranges, SearchFrom

\* The middle of a range is in it, and is not its end.
LEMMA MidWithin ==
  ASSUME NEW low \in Nat, NEW high \in Nat, low < high
  PROVE  /\ (low + high) \div 2 \in Nat
         /\ low <= (low + high) \div 2 /\ (low + high) \div 2 < high
BY Z3

\* A search that finds what it should in shorter ranges does in this one.
LEMMA SearchClamps ==
  ASSUME NEW s \in Seq(Entry), NEW b \in Nat, NEW c, Splits(s, b, c), NEW f, NEW range \in Ranges(s),
         \A r \in Ranges(s) : r[2] - r[1] < range[2] - range[1] => f[r] = Clamp(c, r[1], r[2])
  PROVE  SearchFrom(f, s, b, range) = Clamp(c, range[1], range[2])
<1> DEFINE low == range[1]
           high == range[2]
           mid == (low + high) \div 2
           n == Len(s)
<1>1. n \in Nat /\ low \in 0..n /\ high \in 0..n /\ c \in 0..n
  BY DEF Ranges, Splits
<1>2. SearchFrom(f, s, b, range) =
        IF low >= high THEN high ELSE IF s[mid + 1].fromBlock > b THEN f[<<low, mid>>] ELSE f[<<mid + 1, high>>]
  BY DEF SearchFrom
<1>3. CASE low >= high
  BY <1>2, <1>3 DEF Clamp
<1>4. CASE ~(low >= high)
  <2>1. mid \in Nat /\ low <= mid /\ mid < high
    <3> HIDE DEF low, high
    <3> QED BY <1>1, <1>4, MidWithin
  <2> DEFINE left == <<low, mid>>
             right == <<mid + 1, high>>
  <2>2. left[1] = low /\ left[2] = mid /\ right[1] = mid + 1 /\ right[2] = high
    OBVIOUS
  <2>3. left \in Ranges(s) /\ right \in Ranges(s)
    <3> HIDE DEF low, high, mid
    <3> QED BY <1>1, <2>1 DEF Ranges
  <2>4. mid + 1 \in 1..n /\ s[mid + 1] \in Entry
    <3> HIDE DEF low, high, mid
    <3> QED BY <1>1, <2>1
  <2> HIDE DEF low, high, mid, left, right
  <2>5. f[left] = Clamp(c, low, mid) /\ f[right] = Clamp(c, mid + 1, high)
    <3>1. left[2] - left[1] < range[2] - range[1] /\ right[2] - right[1] < range[2] - range[1]
      BY <1>1, <2>1, <2>2 DEF low, high
    <3> QED BY <2>2, <2>3, <3>1
  <2>6. s[mid + 1].fromBlock <= b <=> mid + 1 <= c
    BY <2>4 DEF Splits
  <2>7. s[mid + 1].fromBlock \in Nat
    BY <2>4 DEF Entry
  <2>8. CASE mid + 1 <= c
    <3>1. SearchFrom(f, s, b, range) = Clamp(c, mid + 1, high)
      BY <1>2, <1>4, <2>5, <2>6, <2>7, <2>8 DEF left, right
    <3>2. Clamp(c, mid + 1, high) = Clamp(c, low, high)
      BY <1>1, <2>1, <2>8 DEF Clamp
    <3> QED BY <3>1, <3>2 DEF low, high
  <2>9. CASE ~(mid + 1 <= c)
    <3>1. SearchFrom(f, s, b, range) = Clamp(c, low, mid)
      BY <1>2, <1>4, <2>5, <2>6, <2>7, <2>9 DEF left, right
    <3>2. Clamp(c, low, mid) = Clamp(c, low, high)
      BY <1>1, <2>1, <2>9 DEF Clamp
    <3> QED BY <3>1, <3>2 DEF low, high
  <2> QED BY <2>8, <2>9
<1> QED BY <1>3, <1>4

\* There is a search: the function that finds what it should.
LEMMA SearchExists ==
  ASSUME NEW s \in Seq(Entry), NEW b \in Nat, NEW c, Splits(s, b, c)
  PROVE  \E f : Searches(f, s, b)
<1> DEFINE G == [range \in Ranges(s) |-> Clamp(c, range[1], range[2])]
<1>1. \A r \in Ranges(s) : G[r] = Clamp(c, r[1], r[2])
  OBVIOUS
<1>2. G = [range \in Ranges(s) |-> G[range]]
  OBVIOUS
<1> HIDE DEF G
<1>3. \A r \in Ranges(s) : SearchFrom(G, s, b, r) = G[r]
  BY <1>1, SearchClamps
<1>4. Searches(G, s, b)
  BY <1>2, <1>3 DEF Searches
<1> QED BY <1>4

\* Any search finds what it should: a shortest range where it did not would go on to
\* a shorter one.
LEMMA SearchFinds ==
  ASSUME NEW s \in Seq(Entry), NEW b \in Nat, NEW c, Splits(s, b, c), NEW f, Searches(f, s, b)
  PROVE  \A r \in Ranges(s) : f[r] = Clamp(c, r[1], r[2])
<1> DEFINE Wrong == {r \in Ranges(s) : f[r] # Clamp(c, r[1], r[2])}
           Lengths == {r[2] - r[1] : r \in Wrong}
<1> SUFFICES ASSUME Wrong # {} PROVE FALSE
  OBVIOUS
<1>1. \A r \in Ranges(s) : r[1] \in 0..Len(s) /\ r[2] \in 0..Len(s) /\ Len(s) \in Nat
  BY DEF Ranges
<1>2. Lengths \subseteq (- Len(s)) .. Len(s) /\ Lengths # {}
  BY <1>1
<1>3. Len(s) \in Nat
  OBVIOUS
<1> HIDE DEF Wrong
<1>4. IsFiniteSet(Lengths) /\ Lengths \subseteq Int
  <2> HIDE DEF Lengths
  <2>1. IsFiniteSet((- Len(s)) .. Len(s))
    BY <1>3, FS_Interval
  <2>2. IsFiniteSet(Lengths)
    BY <1>2, <2>1, FS_Subset
  <2>3. Lengths \subseteq Int
    BY <1>2, <1>3
  <2> QED BY <2>2, <2>3
<1>5. PICK least \in Lengths : \A d \in Lengths : least <= d
  <2> HIDE DEF Lengths
  <2> QED BY <1>2, <1>4, LeastMember
<1>6. PICK range \in Wrong : least = range[2] - range[1]
  BY <1>5
<1>7. range \in Ranges(s)
  BY <1>6 DEF Wrong
<1>8. \A r \in Ranges(s) : r[2] - r[1] < range[2] - range[1] => f[r] = Clamp(c, r[1], r[2])
  <2> SUFFICES ASSUME NEW r \in Ranges(s), r[2] - r[1] < range[2] - range[1], r \in Wrong PROVE FALSE
    BY DEF Wrong
  <2>1. r[2] - r[1] \in Lengths
    OBVIOUS
  <2> HIDE DEF Lengths
  <2>2. range[2] - range[1] <= r[2] - r[1]
    BY <1>5, <1>6, <2>1
  <2> QED BY <1>1, <1>7, <2>2
<1>9. SearchFrom(f, s, b, range) = Clamp(c, range[1], range[2])
  BY <1>7, <1>8, SearchClamps
<1>10. f[range] = SearchFrom(f, s, b, range)
  BY <1>7 DEF Searches
<1> QED BY <1>6, <1>9, <1>10 DEF Wrong

\* What the lookup finds is how many checkpoints are not after the block.
LEMMA UptoSplits ==
  ASSUME NEW s \in Seq(Entry), NEW b \in Nat, NEW c, Splits(s, b, c)
  PROVE  Upto(s, b) = c
<1> DEFINE f == CHOOSE g : Searches(g, s, b)
           whole == <<0, Len(s)>>
<1>1. Searches(f, s, b)
  BY SearchExists
<1>2. whole \in Ranges(s) /\ whole[1] = 0 /\ whole[2] = Len(s)
  BY DEF Ranges
<1>3. Upto(s, b) = f[whole]
  BY UptoIsSearch
<1>4. c \in 0..Len(s) /\ Len(s) \in Nat
  BY DEF Splits
<1> HIDE DEF f, whole
<1>5. f[whole] = Clamp(c, 0, Len(s))
  BY <1>1, <1>2, SearchFinds
<1>6. Clamp(c, 0, Len(s)) = c
  BY <1>4 DEF Clamp
<1> QED BY <1>3, <1>5, <1>6

-----------------------------------------------------------------------------
(* The square root *)

\* The next guess of the root of x after y.
NextGuess(x, y) == (x \div y + y) \div 2

\* What an iteration f goes on to from y.
NewtonFrom(f, x, y) == IF NextGuess(x, y) < y THEN f[NextGuess(x, y)] ELSE y

\* f is the iteration for the root of x.
Iterates(f, x) == f = [y \in 1 .. x |-> NewtonFrom(f, x, y)]

\* The square root is what the iteration ends at.
LEMMA SqrtIsNewton ==
  ASSUME NEW x \in Nat
  PROVE  LET z == (x + 1) \div 2 IN
         Sqrt(x) = IF x = 0 THEN 0 ELSE IF z < x THEN (CHOOSE f : Iterates(f, x))[z] ELSE x
BY DEF Sqrt, Iterates, NewtonFrom, NextGuess

\* A guess is positive.
LEMMA GuessWithin ==
  ASSUME NEW x \in Nat \ {0}, NEW y \in 1..x
  PROVE  NextGuess(x, y) \in Nat \ {0}
<1>1. x \div y \in Nat
  BY Z3
<1>2. y = 1 => x \div y = x
  BY Z3
<1> DEFINE q == x \div y
<1>3. q + y >= 2
  <2>1. CASE y = 1
    BY <1>2, <2>1
  <2>2. CASE y # 1
    <3> HIDE DEF q
    <3>1. q \in Nat
      BY <1>1 DEF q
    <3> QED BY <2>2, <3>1
  <2> QED BY <2>1, <2>2
<1> HIDE DEF q
<1>4. q \in Nat
  BY <1>1 DEF q
<1>5. (q + y) \div 2 \in Nat \ {0}
  BY <1>3, <1>4
<1> QED BY <1>5 DEF NextGuess, q

\* An iteration over the numbers up to k.
Starts(g, x, k) == g = [y \in 1 .. k |-> NewtonFrom(g, x, y)]

\* An iteration over the numbers up to k is part of one up to the next.
LEMMA IterationGrows ==
  ASSUME NEW x \in Nat \ {0}, NEW k \in Nat, k + 1 <= x, NEW g, Starts(g, x, k)
  PROVE  \E h : Starts(h, x, k + 1)
<1> DEFINE h == [y \in 1 .. (k + 1) |-> IF y <= k THEN g[y] ELSE NewtonFrom(g, x, y)]
<1>1. \A y \in 1 .. (k + 1) : h[y] = NewtonFrom(h, x, y)
  <2> SUFFICES ASSUME NEW y \in 1 .. (k + 1) PROVE h[y] = NewtonFrom(h, x, y)
    OBVIOUS
  <2>1. h[y] = NewtonFrom(g, x, y)
    BY DEF Starts
  <2>2. ASSUME NextGuess(x, y) < y PROVE NextGuess(x, y) \in 1..k
    BY <2>2, GuessWithin
  <2>3. NewtonFrom(h, x, y) = NewtonFrom(g, x, y)
    BY <2>2 DEF NewtonFrom
  <2> QED BY <2>1, <2>3
<1>2. h = [y \in 1 .. (k + 1) |-> h[y]]
  OBVIOUS
<1> HIDE DEF h
<1>3. Starts(h, x, k + 1)
  BY <1>1, <1>2 DEF Starts
<1> QED BY <1>3

\* There is an iteration: a shortest one missing would be one guess more than one
\* that is there.
LEMMA IterationExists ==
  ASSUME NEW x \in Nat \ {0}
  PROVE  \E f : Iterates(f, x)
<1> DEFINE Short == {k \in 0..x : ~ \E g : Starts(g, x, k)}
<1>1. Short = {}
  <2> SUFFICES ASSUME Short # {} PROVE FALSE
    OBVIOUS
  <2>1. IsFiniteSet(0..x)
    BY FS_Interval
  <2>2. IsFiniteSet(Short)
    BY <2>1, FS_Subset
  <2>3. Short \subseteq Int
    OBVIOUS
  <2>4. PICK k \in Short : \A j \in Short : k <= j
    <3> HIDE DEF Short
    <3> QED BY <2>2, <2>3, LeastMember
  <2>5. k # 0
    <3>1. Starts(<<>>, x, 0)
      BY DEF Starts
    <3> QED BY <3>1
  <2>6. k - 1 \in 0..x /\ k - 1 \in Nat /\ (k - 1) + 1 = k /\ k <= x
    BY <2>5
  <2>7. PICK g : Starts(g, x, k - 1)
    BY <2>4, <2>6
  <2>8. \E h : Starts(h, x, (k - 1) + 1)
    BY <2>6, <2>7, IterationGrows
  <2> QED BY <2>6, <2>8
<1>2. x \in 0..x
  OBVIOUS
<1>3. \E g : Starts(g, x, x)
  BY <1>1, <1>2
<1> QED BY <1>3 DEF Starts, Iterates

\* The iteration ends at no more than it is the root of.
LEMMA IterationWithin ==
  ASSUME NEW x \in Nat \ {0}, NEW f, Iterates(f, x)
  PROVE  \A y \in 1..x : f[y] \in 1..x
<1> DEFINE Wrong == {y \in 1..x : f[y] \notin 1..x}
<1> SUFFICES ASSUME Wrong # {} PROVE FALSE
  OBVIOUS
<1>1. IsFiniteSet(1..x)
  BY FS_Interval
<1>2. IsFiniteSet(Wrong)
  BY <1>1, FS_Subset
<1>3. Wrong \subseteq Int
  OBVIOUS
<1>4. PICK y \in Wrong : \A j \in Wrong : y <= j
  <2> HIDE DEF Wrong
  <2> QED BY <1>2, <1>3, LeastMember
<1>5. f[y] = NewtonFrom(f, x, y)
  BY DEF Iterates
<1>6. ASSUME NextGuess(x, y) < y PROVE f[NextGuess(x, y)] \in 1..x
  <2>1. NextGuess(x, y) \in 1..x
    BY <1>6, GuessWithin
  <2>2. NextGuess(x, y) \notin Wrong
    BY <1>4, <1>6, <2>1
  <2> QED BY <2>1, <2>2
<1> QED BY <1>5, <1>6 DEF NewtonFrom

\* The root of a number is no more than the number.
LEMMA SqrtWithin ==
  ASSUME NEW x \in Nat
  PROVE  Sqrt(x) \in 0..x
<1> DEFINE z == (x + 1) \div 2
           f == CHOOSE g : Iterates(g, x)
<1>1. CASE x = 0
  BY <1>1, SqrtIsNewton
<1>2. CASE x # 0 /\ z < x
  <2>1. Iterates(f, x)
    BY <1>2, IterationExists
  <2>2. z \in 1..x
    BY <1>2
  <2>3. Sqrt(x) = f[z]
    BY <1>2, SqrtIsNewton
  <2> HIDE DEF f, z
  <2>4. f[z] \in 1..x
    BY <1>2, <2>1, <2>2, IterationWithin
  <2> QED BY <2>3, <2>4
<1>3. CASE x # 0 /\ ~(z < x)
  BY <1>3, SqrtIsNewton
<1> QED BY <1>1, <1>2, <1>3

-----------------------------------------------------------------------------
(* Histories *)

\* The checkpoints s say v of block b.
Tells(s, b, v) == \E c \in 0 .. Len(s) : Splits(s, b, c) /\ v = IF c = 0 THEN 0 ELSE s[c].votes

\* The checkpoints of who holds v now.
KeepsHistory(s, block, v) ==
  /\ s \in Seq(Entry)
  /\ \A i \in 1 .. Len(s) : 1 <= s[i].fromBlock /\ s[i].fromBlock <= block
  /\ v = IF Len(s) = 0 THEN 0 ELSE s[Len(s)].votes

\* A lookup gives what the checkpoints say of the block.
LEMMA LookupTells ==
  ASSUME NEW s \in Seq(Entry), NEW b \in Nat, NEW v, Tells(s, b, v)
  PROVE  Lookup(s, b) = v
<1>1. PICK c \in 0 .. Len(s) : Splits(s, b, c) /\ v = IF c = 0 THEN 0 ELSE s[c].votes
  BY DEF Tells
<1>2. Upto(s, b) = c
  BY <1>1, UptoSplits
<1> QED BY <1>1, <1>2 DEF Lookup

\* Before the first block there was nothing.
LEMMA NothingBefore ==
  ASSUME NEW s, NEW block \in Nat, NEW v, KeepsHistory(s, block, v)
  PROVE  Tells(s, 0, 0)
<1>1. s \in Seq(Entry) /\ Len(s) \in Nat
  BY DEF KeepsHistory
<1>2. \A i \in 1 .. Len(s) : s[i] \in Entry /\ 1 <= s[i].fromBlock
  BY <1>1 DEF KeepsHistory
<1>3. Splits(s, 0, 0)
  BY <1>1, <1>2 DEF Splits, Entry
<1> QED BY <1>1, <1>3 DEF Tells

\* A block that ends is remembered by what was held then.
LEMMA BlockEnds ==
  ASSUME NEW s, NEW block \in Nat, NEW v, KeepsHistory(s, block, v)
  PROVE  KeepsHistory(s, block + 1, v) /\ Tells(s, block, v)
<1>1. s \in Seq(Entry) /\ Len(s) \in Nat /\ Len(s) \in 0 .. Len(s)
  BY DEF KeepsHistory
<1>2. \A i \in 1 .. Len(s) : s[i].fromBlock \in Nat /\ 1 <= s[i].fromBlock /\ s[i].fromBlock <= block
  <2>1. \A i \in 1 .. Len(s) : s[i] \in Entry /\ 1 <= s[i].fromBlock /\ s[i].fromBlock <= block
    BY <1>1 DEF KeepsHistory
  <2> QED BY <2>1 DEF Entry
<1>3. Splits(s, block, Len(s))
  BY <1>1, <1>2 DEF Splits
<1>4. KeepsHistory(s, block + 1, v)
  BY <1>1, <1>2 DEF KeepsHistory
<1> QED BY <1>1, <1>3, <1>4 DEF Tells, KeepsHistory

\* A checkpoint of this block leaves what is said of those before it.
LEMMA WriteKeeps ==
  ASSUME blockNumber \in Nat \ {0}, NEW s, NEW v, KeepsHistory(s, blockNumber, v), NEW w \in Nat
  PROVE  /\ KeepsHistory(WriteCheckpoint(s, w), blockNumber, w)
         /\ \A b \in Nat : b < blockNumber => \A x : Tells(s, b, x) => Tells(WriteCheckpoint(s, w), b, x)
<1> DEFINE n == Len(s)
           latest == [fromBlock |-> blockNumber, votes |-> w]
           t == WriteCheckpoint(s, w)
<1>1. s \in Seq(Entry) /\ n \in Nat /\ latest \in Entry /\ latest.fromBlock = blockNumber /\ latest.votes = w
  BY DEF KeepsHistory, Entry
<1>2. \A i \in 1 .. n : s[i] \in Entry /\ s[i].fromBlock \in Nat /\ 1 <= s[i].fromBlock /\ s[i].fromBlock <= blockNumber
  <2>1. \A i \in 1 .. n : s[i] \in Entry /\ 1 <= s[i].fromBlock /\ s[i].fromBlock <= blockNumber
    BY <1>1 DEF KeepsHistory
  <2> QED BY <2>1 DEF Entry
<1>3. ASSUME NEW r \in Seq(Entry), Len(r) \in Nat, Len(r) > 0, r[Len(r)] = latest,
             NEW m \in Nat, m = Len(r) - 1, m <= n, \A i \in 1 .. m : r[i] = s[i],
             \A i \in 1 .. n : i > m => s[i].fromBlock = blockNumber
      PROVE  /\ KeepsHistory(r, blockNumber, w)
             /\ \A b \in Nat : b < blockNumber => \A x : Tells(s, b, x) => Tells(r, b, x)
  <2> HIDE DEF n, latest
  <2>1. \A i \in 1 .. Len(r) : (i \in 1 .. m /\ i \in 1..n /\ r[i] = s[i]) \/ (i = m + 1 /\ r[i] = latest)
    BY <1>1, <1>3
  <2>2. KeepsHistory(r, blockNumber, w)
    BY <1>1, <1>2, <1>3, <2>1 DEF KeepsHistory
  <2>3. ASSUME NEW b \in Nat, b < blockNumber, NEW x, Tells(s, b, x)
        PROVE  Tells(r, b, x)
    <3>1. PICK c \in 0 .. n : Splits(s, b, c) /\ x = IF c = 0 THEN 0 ELSE s[c].votes
      BY <2>3 DEF Tells, n
    <3>2. c <= m
      <4>1. CASE c = 0
        BY <4>1
      <4>2. CASE c # 0
        <5>1. c \in 1..n /\ s[c].fromBlock <= b
          BY <1>1, <3>1, <4>2 DEF Splits, n
        <5>2. s[c].fromBlock # blockNumber
          BY <2>3, <5>1, <1>2
        <5> QED BY <1>3, <5>1, <5>2
      <4> QED BY <4>1, <4>2
    <3>3. Splits(r, b, c)
      <4>1. c \in 0 .. Len(r)
        BY <1>3, <3>2
      <4>2. ASSUME NEW i \in 1 .. Len(r) PROVE r[i].fromBlock <= b <=> i <= c
        <5>1. CASE i \in 1 .. m /\ i \in 1..n /\ r[i] = s[i]
          BY <3>1, <5>1 DEF Splits, n
        <5>2. CASE i = m + 1 /\ r[i] = latest
          BY <1>1, <2>3, <3>2, <5>2
        <5> QED BY <2>1, <5>1, <5>2
      <4> QED BY <4>1, <4>2 DEF Splits
    <3>4. x = IF c = 0 THEN 0 ELSE r[c].votes
      BY <1>3, <3>1, <3>2
    <3> QED BY <1>3, <3>2, <3>3, <3>4 DEF Tells
  <2> QED BY <2>2, <2>3
<1>4. CASE n > 0 /\ s[n].fromBlock = blockNumber
  <2>1. t = [s EXCEPT ![n] = latest]
    BY <1>4 DEF WriteCheckpoint
  <2>2. n \in 1..Len(s)
    BY <1>1, <1>4
  <2>3. t \in Seq(Entry) /\ Len(t) = n /\ t[n] = latest /\ \A i \in 1 .. (n - 1) : t[i] = s[i]
    <3> HIDE DEF t, latest
    <3>1. t \in Seq(Entry) /\ Len(t) = Len(s) /\ \A i \in 1..Len(s) : t[i] = IF i = n THEN latest ELSE s[i]
      BY <1>1, <2>1, <2>2, ExceptSeq
    <3> QED BY <1>1, <2>2, <3>1
  <2> DEFINE m == n - 1
  <2>4. m \in Nat /\ m = Len(t) - 1 /\ m <= n /\ \A i \in 1..n : i > m => s[i].fromBlock = blockNumber
    BY <1>1, <1>4, <2>3
  <2> HIDE DEF t, latest
  <2> QED BY <1>1, <1>3, <1>4, <2>3, <2>4 DEF t
<1>5. CASE ~(n > 0 /\ s[n].fromBlock = blockNumber)
  <2>1. t = Append(s, latest)
    BY <1>5 DEF WriteCheckpoint
  <2> HIDE DEF t, latest
  <2>2. t \in Seq(Entry) /\ Len(t) = n + 1 /\ t[n + 1] = latest /\ \A i \in 1 .. n : t[i] = s[i]
    BY <1>1, <2>1, AppendProperties
  <2>3. Len(t) > 0 /\ t[Len(t)] = latest /\ Len(t) \in Nat /\ n = Len(t) - 1 /\ n <= n
    BY <1>1, <2>2
  <2> QED BY <1>1, <1>3, <2>2, <2>3 DEF t
<1> QED BY <1>4, <1>5

-----------------------------------------------------------------------------
(* The invariant *)

\* What is kept of a block that is over.
Ended == [power : [Voters -> Nat], total : Nat]

\* The types, and a block of history for every block that is over.
DaoTypes ==
  /\ blockNumber \in Nat \ {0}
  /\ treasury \in Nat
  /\ votingPower \in [Voters -> Nat]
  /\ totalVotingPower \in Nat
  /\ checkpoints \in [Voters -> Seq(Entry)]
  /\ totalCheckpoints \in Seq(Entry)
  /\ proposals \in [ProposalIds -> Proposal]
  /\ nextProposalId \in Nat
  /\ defaultVotingModel \in Models \cup {"SimpleMajority"}
  /\ past \in Seq(Ended)
  /\ Len(past) = blockNumber - 1

\* The checkpoints of everybody, and of all together, end with what is held now.
Histories ==
  /\ \A u \in Voters : KeepsHistory(checkpoints[u], blockNumber, votingPower[u])
  /\ KeepsHistory(totalCheckpoints, blockNumber, totalVotingPower)

\* The checkpoints still say what was held at the end of every block.
PastIsTold ==
  \A b \in 1 .. Len(past) :
     /\ \A u \in Voters : Tells(checkpoints[u], b, past[b].power[u])
     /\ Tells(totalCheckpoints, b, past[b].total)

\* Everybody's power adds up to the total, now and at the end of every block.
TotalsAddUp ==
  /\ totalVotingPower = SumOf(votingPower, Voters)
  /\ \A b \in 1 .. Len(past) : past[b].total = SumOf(past[b].power, Voters)

\* What was held at the end of block b, in the history h.
HeldAt(h, b) == IF b = 0 THEN [u \in Voters |-> 0] ELSE h[b].power
\* ... by all together.
TotalAt(h, b) == IF b = 0 THEN 0 ELSE h[b].total

\* A proposal p in block now, after the history h: its snapshot is of a block that
\* is over, and what was cast on it was held then by those who voted.
Sound(p, h, block) ==
  /\ p.snapshot < block
  /\ p.startBlock <= p.endBlock
  /\ p.eta # 0 => p.endBlock < block
  /\ Cast(p) <= SumOf(HeldAt(h, p.snapshot), p.voted)

\* An id not proposed under yet has at most been cancelled.
Blank(p) ==
  /\ p.votes = [s \in Support |-> 0] /\ p.voted = {} /\ ~ p.executed
  /\ p.eta = 0 /\ p.snapshot = 0 /\ p.startBlock = 0 /\ p.endBlock = 0

\* Every proposal is, and what comes after the next id is blank.
ProposalsAreSound ==
  \A id \in ProposalIds :
     /\ Sound(proposals[id], past, blockNumber)
     /\ id >= nextProposalId => Blank(proposals[id])

\* The inductive invariant.
DaoInv ==
  DaoTypes /\ Histories /\ PastIsTold /\ TotalsAddUp /\ ProposalsAreSound /\ DepositorsAreWhole

-----------------------------------------------------------------------------
(* What the parts say *)

\* The types of a proposal's fields.
LEMMA ProposalTypes ==
  ASSUME NEW p \in Proposal
  PROVE  /\ p.snapshot \in Nat /\ p.startBlock \in Nat /\ p.endBlock \in Nat /\ p.eta \in Nat
         /\ p.spends \in Nat /\ p.voted \in SUBSET Voters /\ p.votes \in [Support -> Nat]
         /\ p.executed \in BOOLEAN /\ p.cancelled \in BOOLEAN
BY DEF Proposal

\* The votes cast are a natural number.
LEMMA CastType ==
  ASSUME NEW p \in Proposal
  PROVE  Cast(p) \in Nat
<1>1. p.votes \in [Support -> Nat]
  BY ProposalTypes
<1>2. p.votes["for"] \in Nat /\ p.votes["against"] \in Nat /\ p.votes["abstain"] \in Nat
  BY <1>1 DEF Support
<1> QED BY <1>2 DEF Cast

\* So is what was held at the end of a block.
LEMMA HeldType ==
  ASSUME DaoTypes, NEW b \in Nat, b < blockNumber
  PROVE  HeldAt(past, b) \in [Voters -> Nat] /\ TotalAt(past, b) \in Nat
<1>1. CASE b = 0
  BY <1>1 DEF HeldAt, TotalAt
<1>2. CASE b # 0
  <2>1. b \in 1 .. Len(past)
    BY <1>2 DEF DaoTypes
  <2>2. past[b] \in Ended
    BY <2>1 DEF DaoTypes
  <2> QED BY <1>2, <2>2 DEF HeldAt, TotalAt, Ended
<1> QED BY <1>1, <1>2

\* What the search finds of a block that is over.
LEMMA LookupHeld ==
  ASSUME DaoTypes, Histories, PastIsTold, NEW b \in Nat, b < blockNumber
  PROVE  /\ \A u \in Voters : Lookup(checkpoints[u], b) = HeldAt(past, b)[u]
         /\ Lookup(totalCheckpoints, b) = TotalAt(past, b)
<1>1. /\ blockNumber \in Nat /\ totalCheckpoints \in Seq(Entry)
      /\ \A u \in Voters : checkpoints[u] \in Seq(Entry)
  BY DEF DaoTypes
<1>2. CASE b = 0
  <2>1. /\ \A u \in Voters : Tells(checkpoints[u], 0, 0)
        /\ Tells(totalCheckpoints, 0, 0)
    BY <1>1, NothingBefore DEF Histories
  <2>2. /\ \A u \in Voters : Lookup(checkpoints[u], 0) = 0
        /\ Lookup(totalCheckpoints, 0) = 0
    BY <1>1, <2>1, LookupTells
  <2> QED BY <1>2, <2>2 DEF HeldAt, TotalAt
<1>3. CASE b # 0
  <2>1. b \in 1 .. Len(past)
    BY <1>3 DEF DaoTypes
  <2>2. /\ \A u \in Voters : Tells(checkpoints[u], b, past[b].power[u])
        /\ Tells(totalCheckpoints, b, past[b].total)
    BY <2>1 DEF PastIsTold
  <2>3. /\ \A u \in Voters : Lookup(checkpoints[u], b) = past[b].power[u]
        /\ Lookup(totalCheckpoints, b) = past[b].total
    BY <1>1, <2>2, LookupTells
  <2> QED BY <1>3, <2>3 DEF HeldAt, TotalAt
<1> QED BY <1>2, <1>3

\* What everybody held at the end of a block adds up to the total of then.
LEMMA HeldTotal ==
  ASSUME DaoTypes, TotalsAddUp, NEW b \in Nat, b < blockNumber
  PROVE  TotalAt(past, b) = SumOf(HeldAt(past, b), Voters)
<1>1. CASE b = 0
  <2>1. \A u \in Voters : HeldAt(past, b)[u] = 0
    BY <1>1 DEF HeldAt
  <2>2. SumOf(HeldAt(past, b), Voters) = 0
    BY <2>1, SumZero, DaoConstants
  <2> QED BY <1>1, <2>2 DEF TotalAt
<1>2. CASE b # 0
  <2>1. b \in 1 .. Len(past)
    BY <1>2 DEF DaoTypes
  <2> QED BY <1>2, <2>1 DEF TotalsAddUp, HeldAt, TotalAt
<1> QED BY <1>1, <1>2

\* The invariant shows what the runs check.
LEMMA DaoShows == DaoInv => SnapshotsHold /\ DepositorsAreWhole
<1> SUFFICES ASSUME DaoInv PROVE SnapshotsHold /\ DepositorsAreWhole
  OBVIOUS
<1>0. DaoTypes /\ Histories /\ PastIsTold /\ TotalsAddUp /\ ProposalsAreSound
  BY DEF DaoInv
<1>1. CheckpointsTellThePast
  <2> SUFFICES ASSUME NEW b \in 1 .. Len(past)
               PROVE  /\ \A u \in Voters : Lookup(checkpoints[u], b) = past[b].power[u]
                      /\ Lookup(totalCheckpoints, b) = past[b].total
    BY DEF CheckpointsTellThePast
  <2>1. b \in Nat /\ b < blockNumber /\ b # 0
    BY <1>0 DEF DaoTypes
  <2> QED BY <1>0, <2>1, LookupHeld DEF HeldAt, TotalAt
<1>2. VotesWithinSnapshot
  <2> SUFFICES ASSUME NEW id \in ProposalIds
               PROVE  Cast(proposals[id]) <= TotalAt(past, proposals[id].snapshot)
    BY DEF VotesWithinSnapshot, TotalAt
  <2> DEFINE p == proposals[id]
             held == HeldAt(past, p.snapshot)
  <2>1. p \in Proposal
    BY <1>0 DEF DaoTypes
  <2>2. Cast(p) \in Nat /\ p.snapshot \in Nat /\ p.voted \in SUBSET Voters
    BY <2>1, CastType, ProposalTypes
  <2>3. p.snapshot < blockNumber /\ Cast(p) <= SumOf(held, p.voted)
    BY <1>0 DEF ProposalsAreSound, Sound
  <2>4. held \in [Voters -> Nat] /\ TotalAt(past, p.snapshot) = SumOf(held, Voters)
    BY <1>0, <2>2, <2>3, HeldType, HeldTotal
  <2> HIDE DEF p, held
  <2>5. IsFiniteSet(Voters) /\ IsFiniteSet(p.voted)
    BY <2>2, DaoConstants, FS_Subset
  <2>6. SumOf(held, p.voted) <= SumOf(held, Voters)
    BY <2>2, <2>4, <2>5, SumSubset
  <2>7. SumOf(held, p.voted) \in Nat /\ SumOf(held, Voters) \in Nat
    BY <2>2, <2>4, <2>5, SumNat
  <2>8. Cast(p) <= SumOf(held, Voters)
    BY <2>2, <2>3, <2>6, <2>7
  <2> QED BY <2>4, <2>8 DEF p
<1> QED BY <1>1, <1>2 DEF SnapshotsHold, DaoInv

-----------------------------------------------------------------------------
(* The first state *)

\* At first there is no history.
LEMMA DaoStart == DaoInit => DaoInv
<1> SUFFICES ASSUME DaoInit PROVE DaoInv
  OBVIOUS
<1>1. NoProposal \in Proposal /\ Blank(NoProposal) /\ Cast(NoProposal) = 0
  BY DEF NoProposal, Proposal, Blank, Cast, Support
<1>2. DaoTypes
  BY <1>1, EmptySeq DEF DaoInit, DaoTypes
<1>3. Histories
  <2>1. KeepsHistory(<<>>, 1, 0)
    BY EmptySeq DEF KeepsHistory
  <2> QED BY <2>1 DEF DaoInit, Histories
<1>4. PastIsTold
  BY DEF DaoInit, PastIsTold
<1>5. TotalsAddUp
  <2>1. SumOf(votingPower, Voters) = 0
    BY SumZero, DaoConstants DEF DaoInit
  <2> QED BY <2>1 DEF DaoInit, TotalsAddUp
<1>6. ProposalsAreSound
  <2>1. SumOf(HeldAt(past, 0), {}) = 0
    BY SumEmpty
  <2>2. Sound(NoProposal, past, 1)
    BY <1>1, <2>1 DEF Sound, NoProposal
  <2> QED BY <1>1, <2>2 DEF DaoInit, ProposalsAreSound
<1>7. DepositorsAreWhole
  <2>1. {id \in ProposalIds : proposals[id].executed} = {}
    BY DEF DaoInit, NoProposal
  <2> DEFINE spends == [id \in ProposalIds |-> proposals[id].spends]
  <2>2. SumOf(spends, {}) = 0
    <3> HIDE DEF spends
    <3> QED BY SumEmpty
  <2>3. treasury = 0 /\ totalVotingPower = 0
    BY DEF DaoInit
  <2>4. treasury + SumOf(spends, {}) >= totalVotingPower
    BY <2>2, <2>3
  <2> QED BY <2>1, <2>4 DEF DepositorsAreWhole
<1> QED BY <1>2, <1>3, <1>4, <1>5, <1>6, <1>7 DEF DaoInv

-----------------------------------------------------------------------------
(* Deposits and exits *)

\* What the proposals carried out have spent.
Spent == SumOf([id \in ProposalIds |-> proposals[id].spends], {id \in ProposalIds : proposals[id].executed})

\* It is a natural number.
LEMMA SpentType ==
  ASSUME DaoTypes
  PROVE  Spent \in Nat
<1> DEFINE spends == [id \in ProposalIds |-> proposals[id].spends]
           done == {id \in ProposalIds : proposals[id].executed}
<1>1. IsFiniteSet(ProposalIds)
  BY FS_Interval, DaoConstants DEF ProposalIds
<1>2. IsFiniteSet(done)
  BY <1>1, FS_Subset
<1>3. \A id \in done : spends[id] \in Nat
  BY ProposalTypes DEF DaoTypes
<1> HIDE DEF spends, done
<1>4. SumOf(spends, done) \in Nat
  BY <1>2, <1>3, SumNat
<1> QED BY <1>4 DEF Spent, spends, done

\* What somebody comes to hold.
LEMMA HoldKeeps ==
  ASSUME DaoInv, NEW u \in Voters, NEW power \in Nat, NEW total \in Int,
         total - totalVotingPower = power - votingPower[u], Hold(u, power, total)
  PROVE  /\ votingPower' \in [Voters -> Nat] /\ totalVotingPower' \in Nat
         /\ checkpoints' \in [Voters -> Seq(Entry)] /\ totalCheckpoints' \in Seq(Entry)
         /\ Histories' /\ PastIsTold' /\ TotalsAddUp'
<1>0. DaoTypes /\ Histories /\ PastIsTold /\ TotalsAddUp
  BY DEF DaoInv
<1>1. /\ votingPower' = [votingPower EXCEPT ![u] = power]
      /\ totalVotingPower' = total
      /\ checkpoints' = [checkpoints EXCEPT ![u] = WriteCheckpoint(checkpoints[u], power)]
      /\ totalCheckpoints' = WriteCheckpoint(totalCheckpoints, total)
      /\ UNCHANGED <<blockNumber, past>>
  BY DEF Hold
<1>2. /\ \A v \in Voters : votingPower'[v] = IF v = u THEN power ELSE votingPower[v]
      /\ votingPower' \in [Voters -> Nat]
  BY <1>0, <1>1 DEF DaoTypes
<1>3. SumOf(votingPower', Voters) = total /\ total \in Nat
  <2>1. /\ \A v \in Voters : votingPower[v] \in Int /\ votingPower'[v] \in Int
        /\ \A v \in Voters \ {u} : votingPower[v] = votingPower'[v]
    BY <1>0, <1>2 DEF DaoTypes
  <2>2. SumOf(votingPower', Voters) = SumOf(votingPower, Voters) - votingPower[u] + votingPower'[u]
    BY <2>1, SumChange, DaoConstants
  <2>3. SumOf(votingPower, Voters) = totalVotingPower /\ totalVotingPower \in Nat /\ votingPower[u] \in Nat
    BY <1>0 DEF TotalsAddUp, DaoTypes
  <2>4. votingPower'[u] = power
    BY <1>2
  <2>5. totalVotingPower - votingPower[u] + power = total
    BY <2>3
  <2>6. SumOf(votingPower', Voters) = total
    BY <2>2, <2>3, <2>4, <2>5, Zenon
  <2>7. SumOf(votingPower', Voters) \in Nat
    BY <1>2, SumNat, DaoConstants
  <2> QED BY <2>6, <2>7, Zenon
<1>4. blockNumber \in Nat \ {0} /\ Len(past) = blockNumber - 1
  BY <1>0 DEF DaoTypes
<1>5. /\ \A v \in Voters : KeepsHistory(checkpoints[v], blockNumber, votingPower[v])
      /\ KeepsHistory(totalCheckpoints, blockNumber, totalVotingPower)
  BY <1>0 DEF Histories
<1>6. /\ KeepsHistory(WriteCheckpoint(checkpoints[u], power), blockNumber, power)
      /\ \A b \in Nat : b < blockNumber =>
           \A x : Tells(checkpoints[u], b, x) => Tells(WriteCheckpoint(checkpoints[u], power), b, x)
  BY <1>4, <1>5, WriteKeeps
<1>7. /\ KeepsHistory(totalCheckpoints', blockNumber, total)
      /\ \A b \in Nat : b < blockNumber =>
           \A x : Tells(totalCheckpoints, b, x) => Tells(totalCheckpoints', b, x)
  BY <1>1, <1>3, <1>4, <1>5, WriteKeeps
<1>8. \A v \in Voters : checkpoints'[v] = IF v = u THEN WriteCheckpoint(checkpoints[u], power) ELSE checkpoints[v]
  BY <1>0, <1>1 DEF DaoTypes
<1>9. /\ \A v \in Voters : KeepsHistory(checkpoints'[v], blockNumber, votingPower'[v])
      /\ \A v \in Voters : \A b \in Nat : b < blockNumber =>
           \A x : Tells(checkpoints[v], b, x) => Tells(checkpoints'[v], b, x)
  BY <1>2, <1>5, <1>6, <1>8
<1>10. checkpoints' \in [Voters -> Seq(Entry)] /\ totalCheckpoints' \in Seq(Entry)
  <2>1. WriteCheckpoint(checkpoints[u], power) \in Seq(Entry) /\ totalCheckpoints' \in Seq(Entry)
    BY <1>6, <1>7 DEF KeepsHistory
  <2> QED BY <1>0, <1>1, <2>1 DEF DaoTypes
<1>11. Histories'
  BY <1>1, <1>7, <1>9 DEF Histories
<1>12. PastIsTold'
  <2>1. \A b \in 1 .. Len(past) : b \in Nat /\ b < blockNumber
    BY <1>4
  <2> QED BY <1>0, <1>1, <1>7, <1>9, <2>1 DEF PastIsTold
<1>13. TotalsAddUp'
  BY <1>0, <1>1, <1>3 DEF TotalsAddUp
<1> QED BY <1>1, <1>2, <1>3, <1>10, <1>11, <1>12, <1>13

\* Taking or giving power checkpoints it, and keeps the invariant.
LEMMA PowerStep ==
  ASSUME DaoInv, NEW u \in Voters, NEW value \in VoteDeposits,
         DepositVotingPower(u, value) \/ WithdrawVotingPower(u, value)
  PROVE  DaoInv'
<1>0. DaoTypes /\ ProposalsAreSound /\ DepositorsAreWhole /\ value \in Nat
  BY DaoConstants DEF DaoInv
<1>1. votingPower[u] \in Nat /\ totalVotingPower \in Nat /\ treasury \in Nat
  BY <1>0 DEF DaoTypes
<1>2. PICK power \in Nat, total \in Int, ether \in Nat :
        /\ Hold(u, power, total) /\ treasury' = ether
        /\ total - totalVotingPower = power - votingPower[u]
        /\ total - totalVotingPower = ether - treasury
  <2>1. CASE DepositVotingPower(u, value)
    <3>1. /\ Hold(u, votingPower[u] + value, totalVotingPower + value)
          /\ treasury' = treasury + value
      BY <2>1 DEF DepositVotingPower
    <3>2. /\ votingPower[u] + value \in Nat /\ totalVotingPower + value \in Int /\ treasury + value \in Nat
          /\ (totalVotingPower + value) - totalVotingPower = (votingPower[u] + value) - votingPower[u]
          /\ (totalVotingPower + value) - totalVotingPower = (treasury + value) - treasury
      BY <1>0, <1>1
    <3> QED BY <3>1, <3>2
  <2>2. CASE WithdrawVotingPower(u, value)
    <3>1. /\ Hold(u, votingPower[u] - value, totalVotingPower - value)
          /\ treasury' = treasury - value
          /\ votingPower[u] >= value /\ treasury >= value
      BY <2>2 DEF WithdrawVotingPower
    <3>2. /\ votingPower[u] - value \in Nat /\ totalVotingPower - value \in Int /\ treasury - value \in Nat
          /\ (totalVotingPower - value) - totalVotingPower = (votingPower[u] - value) - votingPower[u]
          /\ (totalVotingPower - value) - totalVotingPower = (treasury - value) - treasury
      BY <1>0, <1>1, <3>1
    <3> QED BY <3>1, <3>2
  <2> QED BY <2>1, <2>2
<1>3. /\ votingPower' \in [Voters -> Nat] /\ totalVotingPower' \in Nat
      /\ checkpoints' \in [Voters -> Seq(Entry)] /\ totalCheckpoints' \in Seq(Entry)
      /\ Histories' /\ PastIsTold' /\ TotalsAddUp'
  BY <1>2, HoldKeeps
<1>4. UNCHANGED <<blockNumber, proposals, nextProposalId, defaultVotingModel, past>> /\ totalVotingPower' = total
  BY <1>2 DEF Hold
<1>5. DaoTypes'
  BY <1>0, <1>2, <1>3, <1>4 DEF DaoTypes
<1>6. ProposalsAreSound'
  BY <1>0, <1>4 DEF ProposalsAreSound
<1>7. DepositorsAreWhole'
  <2>1. treasury + Spent >= totalVotingPower /\ Spent \in Nat
    BY <1>0, SpentType DEF DepositorsAreWhole, Spent
  <2>2. ether + Spent >= total
    BY <1>1, <1>2, <2>1
  <2>3. Spent' = Spent
    BY <1>4 DEF Spent
  <2>4. treasury' + Spent' >= totalVotingPower'
    BY <1>2, <1>4, <2>2, <2>3, Zenon
  <2> QED BY <2>4 DEF DepositorsAreWhole, Spent
<1> QED BY <1>3, <1>5, <1>6, <1>7 DEF DaoInv

-----------------------------------------------------------------------------
(* Proposals *)

\* A proposal that missed the quorum or was voted down.
Rejected(p, total) == Cast(p) < (total * QuorumBps) \div VotesDenominator \/ ~ Passed(p)

\* The state of a proposal in a block, by the power there was when it was made.
StateOf(p, block, total) ==
  IF p.cancelled THEN "Cancelled"
  ELSE IF p.executed THEN "Executed"
  ELSE IF block < p.startBlock THEN "Pending"
  ELSE IF block <= p.endBlock THEN "Active"
  ELSE IF Rejected(p, total) THEN "Defeated"
  ELSE IF p.eta # 0 THEN "Queued" ELSE "Succeeded"

\* The states of a proposal, by its fields.
LEMMA StateIs ==
  ASSUME NEW id, blockNumber \in Nat, proposals[id] \in Proposal
  PROVE  State(id) = StateOf(proposals[id], blockNumber, TotalPower(proposals[id]))
<1> DEFINE p == proposals[id]
           rejected == Rejected(p, TotalPower(p))
<1>1. p.startBlock \in Nat /\ p.endBlock \in Nat /\ p.executed \in BOOLEAN /\ p.cancelled \in BOOLEAN
  BY ProposalTypes
<1>2. State(id) =
        CASE p.cancelled -> "Cancelled"
          [] ~p.cancelled /\ p.executed -> "Executed"
          [] ~p.cancelled /\ ~p.executed /\ blockNumber < p.startBlock -> "Pending"
          [] ~p.cancelled /\ ~p.executed /\ blockNumber \in p.startBlock .. p.endBlock -> "Active"
          [] OTHER -> IF rejected THEN "Defeated" ELSE IF p.eta # 0 THEN "Queued" ELSE "Succeeded"
  BY DEF State, Rejected
<1>3. StateOf(p, blockNumber, TotalPower(p)) =
        IF p.cancelled THEN "Cancelled"
        ELSE IF p.executed THEN "Executed"
        ELSE IF blockNumber < p.startBlock THEN "Pending"
        ELSE IF blockNumber <= p.endBlock THEN "Active"
        ELSE IF rejected THEN "Defeated"
        ELSE IF p.eta # 0 THEN "Queued" ELSE "Succeeded"
  BY DEF StateOf
<1>4. blockNumber \in p.startBlock .. p.endBlock <=> ~(blockNumber < p.startBlock) /\ blockNumber <= p.endBlock
  BY <1>1
<1> HIDE DEF rejected
<1>5. CASE p.cancelled
  BY <1>2, <1>3, <1>5
<1>6. CASE ~p.cancelled /\ p.executed
  BY <1>2, <1>3, <1>6
<1>7. CASE ~p.cancelled /\ ~p.executed /\ blockNumber < p.startBlock
  <2>1. blockNumber \notin p.startBlock .. p.endBlock
    BY <1>4, <1>7
  <2>2. State(id) = "Pending"
    <3> HIDE DEF p
    <3> QED BY <1>2, <1>7, <2>1, Zenon
  <2>3. StateOf(p, blockNumber, TotalPower(p)) = "Pending"
    <3> HIDE DEF p
    <3> QED BY <1>3, <1>7, Zenon
  <2> QED BY <2>2, <2>3, Zenon
<1>8. CASE ~p.cancelled /\ ~p.executed /\ ~(blockNumber < p.startBlock) /\ blockNumber <= p.endBlock
  BY <1>2, <1>3, <1>4, <1>8
<1>9. CASE ~p.cancelled /\ ~p.executed /\ ~(blockNumber < p.startBlock) /\ ~(blockNumber <= p.endBlock)
  BY <1>2, <1>3, <1>4, <1>9
<1> QED BY <1>1, <1>5, <1>6, <1>7, <1>8, <1>9

\* What has a vote going on, is to be queued or is to be executed was proposed.
LEMMA BlankIsIdle ==
  ASSUME DaoTypes, NEW id \in ProposalIds, Blank(proposals[id])
  PROVE  State(id) \in {"Cancelled", "Defeated"}
<1> DEFINE p == proposals[id]
<1>1. p \in Proposal /\ blockNumber \in Nat \ {0}
  BY DEF DaoTypes
<1>2. p.startBlock = 0 /\ p.endBlock = 0 /\ ~ p.executed /\ p.votes["for"] = 0 /\ p.votes["against"] = 0
  BY DEF Blank, Support
<1>3. ~ Passed(p)
  BY <1>2 DEF Passed
<1> QED BY <1>1, <1>2, <1>3, StateIs DEF StateOf, Rejected

\* One proposal changed, and the ETH with it if that is its execution.
LEMMA ProposalChanged ==
  ASSUME DaoInv, NEW id \in ProposalIds, NEW p \in Proposal,
         proposals' = [proposals EXCEPT ![id] = p],
         UNCHANGED <<blockNumber, powerVars, past, defaultVotingModel>>,
         nextProposalId' \in Nat, nextProposalId' >= nextProposalId,
         Sound(p, past, blockNumber), id >= nextProposalId' => Blank(p),
         \/ /\ p.executed = proposals[id].executed /\ treasury' = treasury
            /\ p.executed => p.spends = proposals[id].spends
         \/ /\ ~ proposals[id].executed /\ p.executed /\ p.spends = proposals[id].spends
            /\ treasury >= p.spends /\ treasury' = treasury - p.spends
  PROVE  DaoInv'
<1>0. DaoTypes /\ Histories /\ PastIsTold /\ TotalsAddUp /\ ProposalsAreSound /\ DepositorsAreWhole
  BY DEF DaoInv
<1>1. /\ \A i \in ProposalIds : proposals'[i] = IF i = id THEN p ELSE proposals[i]
      /\ proposals' \in [ProposalIds -> Proposal]
  BY <1>0 DEF DaoTypes
<1>2. treasury \in Nat /\ treasury' \in Nat /\ p.spends \in Nat
  BY <1>0, ProposalTypes DEF DaoTypes
<1>3. DaoTypes'
  BY <1>0, <1>1, <1>2 DEF DaoTypes, powerVars
<1>4. Histories' /\ PastIsTold' /\ TotalsAddUp'
  BY <1>0 DEF Histories, PastIsTold, TotalsAddUp, powerVars
<1>5. ProposalsAreSound'
  <2>1. nextProposalId \in Nat /\ ProposalIds \subseteq Int
    BY <1>0 DEF DaoTypes, ProposalIds
  <2> QED BY <1>0, <1>1, <2>1 DEF ProposalsAreSound
<1>6. DepositorsAreWhole'
  <2> DEFINE spends == [i \in ProposalIds |-> proposals[i].spends]
             spends2 == [i \in ProposalIds |-> proposals'[i].spends]
             done == {i \in ProposalIds : proposals[i].executed}
             done2 == {i \in ProposalIds : proposals'[i].executed}
  <2>1. IsFiniteSet(ProposalIds)
    BY FS_Interval, DaoConstants DEF ProposalIds
  <2>2. IsFiniteSet(done)
    BY <2>1, FS_Subset
  <2>3. treasury + SumOf(spends, done) >= totalVotingPower
    BY <1>0 DEF DepositorsAreWhole
  <2>4. \A i \in ProposalIds : i # id => spends2[i] = spends[i]
    BY <1>1
  <2>5. spends2[id] = p.spends
    BY <1>1
  <2>6. \A i \in ProposalIds : spends[i] \in Nat
    BY <1>0, ProposalTypes DEF DaoTypes
  <2>7. totalVotingPower \in Nat /\ totalVotingPower' = totalVotingPower
    BY <1>0 DEF DaoTypes, powerVars
  <2>8. SumOf(spends, done) \in Nat
    <3> HIDE DEF spends
    <3>1. \A i \in done : spends[i] \in Nat
      BY <2>6
    <3> HIDE DEF done
    <3> QED BY <2>2, <3>1, SumNat
  <2>9. treasury' + SumOf(spends2, done2) >= totalVotingPower
    <3>1. CASE /\ p.executed = proposals[id].executed /\ treasury' = treasury
               /\ p.executed => p.spends = proposals[id].spends
      <4>1. done2 = done
        BY <1>1, <3>1
      <4>2. \A i \in done : spends[i] = spends2[i]
        BY <1>1, <3>1
      <4> HIDE DEF spends, spends2, done, done2
      <4>3. SumOf(spends2, done) = SumOf(spends, done)
        BY <2>2, <4>2, SumSame
      <4> QED BY <2>3, <3>1, <4>1, <4>3
    <3>2. CASE /\ ~ proposals[id].executed /\ p.executed /\ p.spends = proposals[id].spends
               /\ treasury >= p.spends /\ treasury' = treasury - p.spends
      <4>1. done2 = done \cup {id} /\ id \notin done
        BY <1>1, <3>2
      <4>2. \A i \in done : spends[i] = spends2[i]
        BY <1>1, <3>2
      <4>3. \A i \in done \cup {id} : spends2[i] \in Int
        BY <1>2, <2>4, <2>5, <2>6
      <4> HIDE DEF spends, spends2, done, done2
      <4>4. SumOf(spends2, done) = SumOf(spends, done)
        BY <2>2, <4>2, SumSame
      <4>5. SumOf(spends2, done \cup {id}) = spends2[id] + SumOf(spends2, done)
        BY <2>2, <4>1, <4>3, SumAdd
      <4>6. SumOf(spends2, done2) = p.spends + SumOf(spends, done)
        BY <2>5, <4>1, <4>4, <4>5
      <4>7. (treasury - p.spends) + (p.spends + SumOf(spends, done)) >= totalVotingPower
        BY <1>2, <2>3, <2>7, <2>8
      <4> QED BY <3>2, <4>6, <4>7, Zenon
    <3> QED BY <3>1, <3>2
  <2> QED BY <2>7, <2>9 DEF DepositorsAreWhole
<1> QED BY <1>3, <1>4, <1>5, <1>6 DEF DaoInv

\* A new proposal has a snapshot of a block that is over.
LEMMA ProposeStep ==
  ASSUME DaoInv, NEW u \in Voters, NEW spends \in Spendings, NEW model \in Models, Propose(u, spends, model)
  PROVE  DaoInv'
<1> DEFINE id == nextProposalId
           old == proposals[id]
           p == [old EXCEPT !.proposer = u, !.model = model, !.snapshot = blockNumber - 1,
                            !.startBlock = blockNumber + VotingDelay,
                            !.endBlock = blockNumber + VotingDelay + VotingPeriod,
                            !.spends = spends]
<1>0. DaoTypes /\ ProposalsAreSound
  BY DEF DaoInv
<1>1. blockNumber \in Nat \ {0} /\ id \in Nat /\ VotingDelay \in Nat /\ VotingPeriod \in Nat /\ spends \in Nat
  BY <1>0, DaoConstants DEF DaoTypes
<1>2. /\ proposals' = [proposals EXCEPT ![id] = p] /\ nextProposalId' = id + 1 /\ treasury' = treasury
      /\ UNCHANGED <<blockNumber, powerVars, past, defaultVotingModel>>
      /\ id < MaxProposals
  BY DEF Propose
<1>3. id \in ProposalIds
  BY <1>1, <1>2, DaoConstants DEF ProposalIds
<1>4. old \in Proposal /\ Blank(old)
  BY <1>0, <1>1, <1>3 DEF DaoTypes, ProposalsAreSound
<1> HIDE DEF id, old
<1>5. /\ p \in Proposal
      /\ p.executed = old.executed /\ p.voted = {} /\ p.eta = 0 /\ p.votes = [s \in Support |-> 0]
      /\ ~ old.executed /\ p.snapshot = blockNumber - 1 /\ p.endBlock = blockNumber + VotingDelay + VotingPeriod
      /\ p.startBlock = blockNumber + VotingDelay
  <2>1. /\ blockNumber - 1 \in Nat /\ blockNumber + VotingDelay \in Nat
        /\ blockNumber + VotingDelay + VotingPeriod \in Nat
    BY <1>1
  <2>2. p \in Proposal
    BY <1>1, <1>4, <2>1 DEF Proposal
  <2>3. /\ p.executed = old.executed /\ p.voted = old.voted /\ p.eta = old.eta /\ p.votes = old.votes
        /\ p.snapshot = blockNumber - 1 /\ p.endBlock = blockNumber + VotingDelay + VotingPeriod
        /\ p.startBlock = blockNumber + VotingDelay
    BY <1>4 DEF Proposal
  <2> HIDE DEF p
  <2> QED BY <1>4, <2>2, <2>3 DEF Blank
<1> HIDE DEF p
<1>6. Cast(p) = 0
  BY <1>5 DEF Cast, Support
<1>7. SumOf(HeldAt(past, p.snapshot), p.voted) = 0
  BY <1>5, SumEmpty
<1>8. Sound(p, past, blockNumber)
  BY <1>1, <1>5, <1>6, <1>7 DEF Sound
<1>9. nextProposalId' \in Nat /\ nextProposalId' >= nextProposalId /\ ~(id >= nextProposalId')
  BY <1>1, <1>2 DEF id
<1> QED BY <1>2, <1>3, <1>5, <1>8, <1>9, ProposalChanged DEF old

\* A vote weighs at most what its voter held at the snapshot, once.
LEMMA CastVoteStep ==
  ASSUME DaoInv, NEW u \in Voters, NEW id \in ProposalIds, NEW support \in Support, CastVote(u, id, support)
  PROVE  DaoInv'
<1> DEFINE old == proposals[id]
           weight == Weight(u, old)
           effective == IF old.model = "QuadraticVoting" THEN Sqrt(weight) ELSE weight
           p == Counted(old, u, support, effective)
           held == HeldAt(past, old.snapshot)
<1>0. DaoTypes /\ Histories /\ PastIsTold /\ ProposalsAreSound
  BY DEF DaoInv
<1>1. /\ proposals' = [proposals EXCEPT ![id] = p] /\ nextProposalId' = nextProposalId /\ treasury' = treasury
      /\ UNCHANGED <<blockNumber, powerVars, past, defaultVotingModel>>
      /\ State(id) = "Active" /\ u \notin old.voted
  BY DEF CastVote
<1>2. old \in Proposal /\ Sound(old, past, blockNumber) /\ nextProposalId \in Nat
  BY <1>0 DEF DaoTypes, ProposalsAreSound
<1>3. old.snapshot \in Nat /\ old.snapshot < blockNumber /\ old.voted \in SUBSET Voters /\ old.votes \in [Support -> Nat]
  BY <1>2, ProposalTypes DEF Sound
<1>4. held \in [Voters -> Nat] /\ weight = held[u]
  BY <1>0, <1>3, HeldType, LookupHeld DEF Weight
<1> HIDE DEF weight, held
<1>5. weight \in Nat
  BY <1>4
<1>6. effective \in Nat /\ effective <= weight
  <2>1. Sqrt(weight) \in 0 .. weight
    BY <1>5, SqrtWithin
  <2>2. \A x \in 0 .. weight : x \in Nat /\ x <= weight
    BY <1>5
  <2>3. Sqrt(weight) \in Nat /\ Sqrt(weight) <= weight /\ weight <= weight
    BY <1>5, <2>1, <2>2
  <2> QED BY <1>5, <2>3, Zenon
<1> HIDE DEF effective, old
<1>7. old.votes[support] + effective \in Nat /\ old.voted \cup {u} \in SUBSET Voters
  BY <1>3, <1>6
<1>8. /\ p.votes = [old.votes EXCEPT ![support] = old.votes[support] + effective]
      /\ p.voted = old.voted \cup {u}
      /\ p.executed = old.executed /\ p.spends = old.spends /\ p.snapshot = old.snapshot
      /\ p.startBlock = old.startBlock /\ p.endBlock = old.endBlock /\ p.eta = old.eta
      /\ p \in Proposal
  BY <1>2, <1>3, <1>7 DEF Proposal, Counted
<1> HIDE DEF p
<1>9. Cast(p) = Cast(old) + effective
  <2>1. old.votes["for"] \in Nat /\ old.votes["against"] \in Nat /\ old.votes["abstain"] \in Nat
    BY <1>3 DEF Support
  <2>2. \A s \in Support : p.votes[s] = IF s = support THEN old.votes[s] + effective ELSE old.votes[s]
    BY <1>3, <1>8
  <2>3. support \in {"for", "against", "abstain"} /\ {"for", "against", "abstain"} \subseteq Support
    BY DEF Support
  <2>4. /\ p.votes["for"] = IF support = "for" THEN old.votes["for"] + effective ELSE old.votes["for"]
        /\ p.votes["against"] = IF support = "against" THEN old.votes["against"] + effective ELSE old.votes["against"]
        /\ p.votes["abstain"] = IF support = "abstain" THEN old.votes["abstain"] + effective ELSE old.votes["abstain"]
    BY <2>2, <2>3
  <2> QED BY <1>6, <2>1, <2>3, <2>4 DEF Cast
<1>10. SumOf(held, p.voted) = weight + SumOf(held, old.voted)
  <2>1. IsFiniteSet(old.voted)
    BY <1>3, FS_Subset, DaoConstants
  <2>2. \A v \in old.voted \cup {u} : held[v] \in Int
    BY <1>3, <1>4
  <2>3. SumOf(held, old.voted \cup {u}) = held[u] + SumOf(held, old.voted)
    BY <1>1, <2>1, <2>2, SumAdd DEF old
  <2> QED BY <1>4, <1>8, <2>3
<1>11. Sound(p, past, blockNumber)
  <2>1. SumOf(held, old.voted) \in Int
    <3>1. IsFiniteSet(old.voted)
      BY <1>3, FS_Subset, DaoConstants
    <3>2. \A v \in old.voted : held[v] \in Int
      BY <1>3, <1>4
    <3> QED BY <3>1, <3>2, SumInt
  <2>2. Cast(old) \in Nat /\ Cast(old) <= SumOf(held, old.voted)
    BY <1>2, CastType DEF Sound, held
  <2>3. Cast(old) + effective <= weight + SumOf(held, old.voted)
    BY <1>5, <1>6, <2>1, <2>2
  <2>4. Cast(p) <= SumOf(held, p.voted)
    BY <1>9, <1>10, <2>3, Zenon
  <2> QED BY <1>2, <1>8, <2>4 DEF Sound, held
<1>12. ~(id >= nextProposalId)
  <2>1. ~ Blank(old)
    BY <1>0, <1>1, BlankIsIdle DEF old
  <2> QED BY <1>0, <2>1 DEF ProposalsAreSound, old
<1> QED
  <2>1. nextProposalId' \in Nat /\ nextProposalId' >= nextProposalId /\ ~(id >= nextProposalId')
    BY <1>1, <1>2, <1>12
  <2> QED BY <1>1, <1>8, <1>11, <2>1, ProposalChanged DEF old

\* Queueing sets the time from which a proposal may be carried out.
LEMMA QueueStep ==
  ASSUME DaoInv, NEW id \in ProposalIds, Queue(id)
  PROVE  DaoInv'
<1> DEFINE old == proposals[id]
           eta == blockNumber + TimelockDelay
           p == [old EXCEPT !.eta = eta]
<1>0. DaoTypes /\ ProposalsAreSound
  BY DEF DaoInv
<1>1. /\ proposals' = [proposals EXCEPT ![id] = p] /\ nextProposalId' = nextProposalId /\ treasury' = treasury
      /\ UNCHANGED <<blockNumber, powerVars, past, defaultVotingModel>>
      /\ State(id) = "Succeeded"
  BY DEF Queue
<1>2. old \in Proposal /\ Sound(old, past, blockNumber) /\ nextProposalId \in Nat /\ blockNumber \in Nat /\ eta \in Nat
  BY <1>0, DaoConstants DEF DaoTypes, ProposalsAreSound
<1>3. old.endBlock < blockNumber
  <2>1. old.endBlock \in Nat /\ ~(blockNumber <= old.endBlock)
    BY <1>1, <1>2, StateIs, ProposalTypes DEF StateOf
  <2> DEFINE end == old.endBlock
  <2>2. end \in Nat /\ ~(blockNumber <= end) /\ blockNumber \in Nat
    BY <1>2, <2>1
  <2> HIDE DEF end
  <2>3. end < blockNumber
    BY <2>2
  <2> QED BY <2>3 DEF end
<1>4. ~(id >= nextProposalId)
  <2>1. ~ Blank(old)
    BY <1>0, <1>1, BlankIsIdle
  <2> QED BY <1>0, <2>1 DEF ProposalsAreSound
<1> HIDE DEF old, eta
<1>5. /\ p.votes = old.votes /\ p.voted = old.voted
      /\ p.executed = old.executed /\ p.spends = old.spends /\ p.snapshot = old.snapshot
      /\ p.startBlock = old.startBlock /\ p.endBlock = old.endBlock
      /\ p \in Proposal
  BY <1>2 DEF Proposal
<1> HIDE DEF p
<1>6. Sound(p, past, blockNumber)
  BY <1>2, <1>3, <1>5 DEF Sound, Cast
<1>7. nextProposalId' \in Nat /\ nextProposalId' >= nextProposalId /\ ~(id >= nextProposalId')
  BY <1>1, <1>2, <1>4
<1> QED BY <1>1, <1>5, <1>6, <1>7, ProposalChanged DEF old

\* Carrying a proposal out spends from the treasury.
LEMMA ExecuteStep ==
  ASSUME DaoInv, NEW id \in ProposalIds, Execute(id)
  PROVE  DaoInv'
<1> DEFINE old == proposals[id]
           p == [old EXCEPT !.executed = TRUE]
<1>0. DaoTypes /\ ProposalsAreSound
  BY DEF DaoInv
<1>1. /\ proposals' = [proposals EXCEPT ![id] = p] /\ nextProposalId' = nextProposalId
      /\ treasury >= old.spends /\ treasury' = treasury - old.spends
      /\ UNCHANGED <<blockNumber, powerVars, past, defaultVotingModel>>
      /\ State(id) = "Queued"
  BY DEF Execute, Executed
<1>2. old \in Proposal /\ Sound(old, past, blockNumber) /\ nextProposalId \in Nat /\ blockNumber \in Nat
  BY <1>0 DEF DaoTypes, ProposalsAreSound
<1>3. ~ old.executed
  BY <1>1, <1>2, StateIs DEF StateOf
<1>4. ~(id >= nextProposalId)
  <2>1. ~ Blank(old)
    BY <1>0, <1>1, BlankIsIdle
  <2> QED BY <1>0, <2>1 DEF ProposalsAreSound
<1> HIDE DEF old
<1>5. /\ p.votes = old.votes /\ p.voted = old.voted
      /\ p.executed /\ p.spends = old.spends /\ p.snapshot = old.snapshot
      /\ p.startBlock = old.startBlock /\ p.endBlock = old.endBlock /\ p.eta = old.eta
      /\ p \in Proposal
  BY <1>2 DEF Proposal
<1> HIDE DEF p
<1>6. Sound(p, past, blockNumber)
  BY <1>2, <1>5 DEF Sound, Cast
<1>7. nextProposalId' \in Nat /\ nextProposalId' >= nextProposalId /\ ~(id >= nextProposalId')
  BY <1>1, <1>2, <1>4
<1> QED BY <1>1, <1>3, <1>5, <1>6, <1>7, ProposalChanged DEF old

\* Cancelling a proposal leaves what was cast on it.
LEMMA CancelStep ==
  ASSUME DaoInv, NEW u, NEW id \in ProposalIds, Cancel(u, id)
  PROVE  DaoInv'
<1> DEFINE old == proposals[id]
           p == [old EXCEPT !.cancelled = TRUE]
<1>0. DaoTypes /\ ProposalsAreSound
  BY DEF DaoInv
<1>1. /\ proposals' = [proposals EXCEPT ![id] = p] /\ nextProposalId' = nextProposalId /\ treasury' = treasury
      /\ UNCHANGED <<blockNumber, powerVars, past, defaultVotingModel>>
  BY DEF Cancel
<1>2. /\ old \in Proposal /\ Sound(old, past, blockNumber) /\ nextProposalId \in Nat
      /\ id >= nextProposalId => Blank(old)
  BY <1>0 DEF DaoTypes, ProposalsAreSound
<1> HIDE DEF old
<1>3. /\ p.votes = old.votes /\ p.voted = old.voted
      /\ p.executed = old.executed /\ p.spends = old.spends /\ p.snapshot = old.snapshot
      /\ p.startBlock = old.startBlock /\ p.endBlock = old.endBlock /\ p.eta = old.eta
      /\ p \in Proposal
  BY <1>2 DEF Proposal
<1> HIDE DEF p
<1>4. Sound(p, past, blockNumber) /\ (id >= nextProposalId => Blank(p))
  BY <1>2, <1>3 DEF Sound, Cast, Blank
<1>5. nextProposalId' \in Nat /\ nextProposalId' >= nextProposalId
  BY <1>1, <1>2
<1> QED BY <1>1, <1>3, <1>4, <1>5, ProposalChanged DEF old

-----------------------------------------------------------------------------
(* Blocks *)

\* The block that ends is remembered as the checkpoints say it.
LEMMA NextBlockStep ==
  ASSUME DaoInv, NextBlock
  PROVE  DaoInv'
<1> DEFINE block == blockNumber
           ended == [power |-> votingPower, total |-> totalVotingPower]
<1>0. DaoTypes /\ Histories /\ PastIsTold /\ TotalsAddUp /\ ProposalsAreSound /\ DepositorsAreWhole
  BY DEF DaoInv
<1>1. /\ blockNumber' = block + 1 /\ past' = Append(past, ended)
      /\ UNCHANGED <<treasury, votingPower, totalVotingPower, checkpoints, totalCheckpoints,
                     proposals, nextProposalId, defaultVotingModel>>
  BY DEF NextBlock, powerVars
<1>2. block \in Nat \ {0} /\ past \in Seq(Ended) /\ ended \in Ended /\ Len(past) = block - 1
  BY <1>0 DEF DaoTypes, Ended
<1>3. /\ ended.power = votingPower /\ ended.total = totalVotingPower
  OBVIOUS
<1> HIDE DEF block, ended
<1>4. /\ past' \in Seq(Ended) /\ Len(past') = block
      /\ \A b \in 1 .. Len(past) : past'[b] = past[b]
      /\ past'[block] = ended
  <2>1. /\ past' \in Seq(Ended) /\ Len(past') = Len(past) + 1
        /\ \A b \in 1 .. Len(past) : past'[b] = past[b]
        /\ past'[Len(past) + 1] = ended
    BY <1>1, <1>2, AppendProperties
  <2> QED BY <1>2, <2>1
<1>5. \A b \in 1 .. Len(past') : b \in 1 .. Len(past) \/ b = block
  BY <1>2, <1>4
<1>6. DaoTypes'
  <2>1. blockNumber' \in Nat \ {0} /\ Len(past') = blockNumber' - 1
    BY <1>1, <1>2, <1>4
  <2> QED BY <1>0, <1>1, <1>4, <2>1 DEF DaoTypes
<1>7. /\ \A u \in Voters : KeepsHistory(checkpoints[u], block + 1, votingPower[u]) /\ Tells(checkpoints[u], block, votingPower[u])
      /\ KeepsHistory(totalCheckpoints, block + 1, totalVotingPower) /\ Tells(totalCheckpoints, block, totalVotingPower)
  <2>1. block \in Nat
    BY <1>2
  <2> QED BY <1>0, <2>1, BlockEnds DEF Histories, block
<1>8. Histories'
  BY <1>1, <1>7 DEF Histories
<1>9. PastIsTold'
  BY <1>0, <1>1, <1>3, <1>4, <1>5, <1>7 DEF PastIsTold
<1>10. TotalsAddUp'
  BY <1>0, <1>1, <1>3, <1>4, <1>5 DEF TotalsAddUp
<1>11. ProposalsAreSound'
  <2> SUFFICES ASSUME NEW id \in ProposalIds
               PROVE  Sound(proposals[id], past', block + 1) /\ (id >= nextProposalId => Blank(proposals[id]))
    BY <1>1 DEF ProposalsAreSound
  <2> DEFINE p == proposals[id]
  <2>1. p \in Proposal /\ Sound(p, past, block) /\ (id >= nextProposalId => Blank(p))
    BY <1>0 DEF DaoTypes, ProposalsAreSound, block
  <2>2. p.snapshot \in Nat /\ p.startBlock \in Nat /\ p.endBlock \in Nat
    BY <2>1, ProposalTypes
  <2> HIDE DEF p
  <2>3. p.snapshot < block
    BY <2>1 DEF Sound
  <2>4. HeldAt(past', p.snapshot) = HeldAt(past, p.snapshot)
    <3>1. p.snapshot # 0 => p.snapshot \in 1 .. Len(past)
      BY <1>2, <2>2, <2>3
    <3> QED BY <1>4, <3>1 DEF HeldAt
  <2>5. Sound(p, past', block + 1)
    BY <1>2, <2>1, <2>2, <2>4 DEF Sound
  <2> QED BY <2>1, <2>5 DEF p
<1>12. DepositorsAreWhole'
  BY <1>0, <1>1 DEF DepositorsAreWhole
<1> QED BY <1>6, <1>8, <1>9, <1>10, <1>11, <1>12 DEF DaoInv

\* Every step keeps the invariant.
LEMMA DaoStep == DaoInv /\ [DaoNext]_daoVars => DaoInv'
<1> SUFFICES ASSUME DaoInv, [DaoNext]_daoVars PROVE DaoInv'
  OBVIOUS
<1>0. DaoTypes /\ Histories /\ PastIsTold /\ TotalsAddUp /\ ProposalsAreSound /\ DepositorsAreWhole
  BY DEF DaoInv
<1>1. ASSUME NEW model \in Models, SetVotingModel(model) PROVE DaoInv'
  BY <1>0, <1>1 DEF SetVotingModel, powerVars, DaoInv, DaoTypes, Histories, PastIsTold, TotalsAddUp,
     ProposalsAreSound, DepositorsAreWhole
<1>2. ASSUME NEW value \in VoteDeposits, ReceiveDonation(value) PROVE DaoInv'
  <2>1. value \in Nat /\ treasury \in Nat /\ totalVotingPower \in Nat /\ Spent \in Nat
    BY <1>0, DaoConstants, SpentType DEF DaoTypes
  <2>2. /\ treasury' = treasury + value
        /\ UNCHANGED <<blockNumber, votingPower, totalVotingPower, checkpoints, totalCheckpoints,
                       proposals, nextProposalId, defaultVotingModel, past>>
    BY <1>2 DEF ReceiveDonation, powerVars
  <2>3. DaoTypes' /\ Histories' /\ PastIsTold' /\ TotalsAddUp' /\ ProposalsAreSound'
    BY <1>0, <2>1, <2>2 DEF DaoTypes, Histories, PastIsTold, TotalsAddUp, ProposalsAreSound
  <2>4. DepositorsAreWhole'
    <3>1. treasury + Spent >= totalVotingPower
      BY <1>0 DEF DepositorsAreWhole, Spent
    <3>2. (treasury + value) + Spent >= totalVotingPower
      BY <2>1, <3>1
    <3>3. Spent' = Spent /\ totalVotingPower' = totalVotingPower
      BY <2>2 DEF Spent
    <3>4. treasury' + Spent' >= totalVotingPower'
      BY <2>2, <3>2, <3>3, Zenon
    <3> QED BY <3>4 DEF DepositorsAreWhole, Spent
  <2> QED BY <2>3, <2>4 DEF DaoInv
<1>3. ASSUME UNCHANGED daoVars PROVE DaoInv'
  BY <1>0, <1>3 DEF daoVars, powerVars, DaoInv, DaoTypes, Histories, PastIsTold, TotalsAddUp,
     ProposalsAreSound, DepositorsAreWhole
<1> QED
  BY <1>1, <1>2, <1>3, PowerStep, ProposeStep, CastVoteStep, QueueStep, ExecuteStep, CancelStep, NextBlockStep DEF DaoNext

\* The governance contract's inductive invariant.
THEOREM DaoInvariant == DaoSpec => []DaoInv
BY DaoStart, DaoStep, PTL DEF DaoSpec

\* A lookup of a block that is over gives what was held when it ended, and what is
\* cast on a proposal is within what was held at its snapshot.
THEOREM SnapshotsKept == DaoSpec => []SnapshotsHold
<1>1. DaoInv => SnapshotsHold
  BY DaoShows
<1> QED BY <1>1, DaoInvariant, PTL

\* The ETH of depositors leaves only by their own exits and by the proposals that
\* were executed, by each of these once and for what it asked.
THEOREM DepositsCovered == DaoSpec => []DepositorsAreWhole
<1>1. DaoInv => DepositorsAreWhole
  BY DaoShows
<1> QED BY <1>1, DaoInvariant, PTL

-----------------------------------------------------------------------------
(* Outcomes *)

\* The state of a proposal is by the total at its snapshot.
StatesAreTold ==
  \A id \in ProposalIds :
     State(id) = StateOf(proposals[id], blockNumber, TotalAt(past, proposals[id].snapshot))

\* A proposal is in one state, and it is the one its fields say.
LEMMA StatesTold == DaoInv => StatesAreTold
<1> SUFFICES ASSUME DaoInv, NEW id \in ProposalIds
             PROVE  State(id) = StateOf(proposals[id], blockNumber, TotalAt(past, proposals[id].snapshot))
  BY DEF StatesAreTold
<1>1. DaoTypes /\ Histories /\ PastIsTold /\ ProposalsAreSound
  BY DEF DaoInv
<1>2. proposals[id] \in Proposal /\ blockNumber \in Nat
  BY <1>1 DEF DaoTypes
<1>3. proposals[id].snapshot \in Nat /\ proposals[id].snapshot < blockNumber
  BY <1>1, <1>2, ProposalTypes DEF ProposalsAreSound, Sound
<1>4. TotalPower(proposals[id]) = TotalAt(past, proposals[id].snapshot)
  BY <1>1, <1>3, LookupHeld DEF TotalPower
<1> QED BY <1>2, <1>4, StateIs

\* A state is followed by itself, the next one, or cancellation before execution.
MayBecome(before, after) ==
  after = before \/ after \in Follows[before] \/ (before # "Executed" /\ after = "Cancelled")

\* Blocks pass.
LEMMA StateInTime ==
  ASSUME NEW p \in Proposal, NEW block \in Nat, NEW total, p.startBlock <= p.endBlock,
         p.eta # 0 => p.endBlock < block
  PROVE  MayBecome(StateOf(p, block, total), StateOf(p, block + 1, total))
<1> DEFINE before == StateOf(p, block, total)
           after == StateOf(p, block + 1, total)
<1>1. p.startBlock \in Nat /\ p.endBlock \in Nat /\ p.eta \in Nat
  BY ProposalTypes
<1>2. CASE p.cancelled \/ p.executed
  BY <1>2 DEF StateOf, MayBecome
<1>3. CASE ~ p.cancelled /\ ~ p.executed /\ block < p.startBlock
  <2>1. before = "Pending"
    BY <1>3 DEF StateOf
  <2>2. after \in {"Pending", "Active"}
    BY <1>1, <1>3 DEF StateOf
  <2> HIDE DEF before, after
  <2>3. MayBecome(before, after)
    BY <2>1, <2>2 DEF MayBecome, Follows
  <2> QED BY <2>3 DEF before, after
<1>4. CASE ~ p.cancelled /\ ~ p.executed /\ ~(block < p.startBlock) /\ block <= p.endBlock
  <2>1. before = "Active"
    BY <1>4 DEF StateOf
  <2>2. after \in {"Active", "Defeated", "Succeeded"}
    <3>1. p.eta = 0 /\ ~(block + 1 < p.startBlock)
      BY <1>1, <1>4
    <3> QED BY <1>4, <3>1 DEF StateOf
  <2> HIDE DEF before, after
  <2>3. MayBecome(before, after)
    BY <2>1, <2>2 DEF MayBecome, Follows
  <2> QED BY <2>3 DEF before, after
<1>5. CASE ~ p.cancelled /\ ~ p.executed /\ ~(block < p.startBlock) /\ ~(block <= p.endBlock)
  <2>1. ~(block + 1 < p.startBlock) /\ ~(block + 1 <= p.endBlock)
    BY <1>1, <1>5
  <2> QED BY <1>5, <2>1 DEF StateOf, MayBecome
<1> QED BY <1>2, <1>3, <1>4, <1>5

\* No step takes a proposal out of a final state.
LEMMA OutcomeStep ==
  ASSUME DaoInv, StatesAreTold, StatesAreTold', [DaoNext]_daoVars,
         NEW id \in ProposalIds, id < nextProposalId
  PROVE  MayBecome(State(id), State(id)')
<1> DEFINE p == proposals[id]
           block == blockNumber
           t == TotalAt(past, p.snapshot)
<1>0. DaoTypes /\ ProposalsAreSound
  BY DEF DaoInv
<1>1. p \in Proposal /\ block \in Nat /\ nextProposalId \in Nat /\ id \in Nat
  BY <1>0, DaoConstants DEF DaoTypes, ProposalIds
<1>2. Sound(p, past, block) /\ p.snapshot \in Nat
  BY <1>0, <1>1, ProposalTypes DEF ProposalsAreSound
<1>3. State(id) = StateOf(p, block, t)
  BY DEF StatesAreTold
<1>4. State(id)' = StateOf(proposals'[id], blockNumber', TotalAt(past', proposals'[id].snapshot))
  BY DEF StatesAreTold
<1>5. ASSUME proposals'[id] = p, blockNumber' = blockNumber, past' = past
      PROVE  MayBecome(State(id), State(id)')
  BY <1>3, <1>4, <1>5 DEF MayBecome
<1>6. ASSUME NEW q \in Proposal, proposals' = [proposals EXCEPT ![id] = q], q.snapshot = p.snapshot,
             blockNumber' = blockNumber, past' = past
      PROVE  State(id)' = StateOf(q, block, t)
  <2>1. proposals'[id] = q
    BY <1>0, <1>6 DEF DaoTypes
  <2> QED BY <1>4, <1>6, <2>1
<1>7. \A other \in ProposalIds : \A q : proposals' = [proposals EXCEPT ![other] = q] /\ other # id => proposals'[id] = p
  BY <1>0 DEF DaoTypes
<1>8. ASSUME NEW u \in Voters, NEW value \in VoteDeposits, DepositVotingPower(u, value) \/ WithdrawVotingPower(u, value)
      PROVE  MayBecome(State(id), State(id)')
  <2>1. UNCHANGED <<proposals, blockNumber, past>>
    BY <1>8 DEF DepositVotingPower, WithdrawVotingPower, Hold
  <2> QED BY <1>5, <2>1
<1>9. ASSUME NEW u \in Voters, NEW spends \in Spendings, NEW model \in Models, Propose(u, spends, model)
      PROVE  MayBecome(State(id), State(id)')
  <2>1. PICK q : proposals' = [proposals EXCEPT ![nextProposalId] = q]
    BY <1>9 DEF Propose
  <2>2. nextProposalId \in ProposalIds /\ nextProposalId # id
    BY <1>1, <1>9, DaoConstants DEF Propose, ProposalIds
  <2>3. UNCHANGED <<blockNumber, past>>
    BY <1>9 DEF Propose
  <2> QED BY <1>5, <1>7, <2>1, <2>2, <2>3
<1>10. ASSUME NEW u \in Voters, NEW other \in ProposalIds, NEW support \in Support, CastVote(u, other, support)
       PROVE  MayBecome(State(id), State(id)')
  <2>1. PICK effective : proposals' = [proposals EXCEPT ![other] = Counted(proposals[other], u, support, effective)]
    BY <1>10 DEF CastVote
  <2>2. UNCHANGED <<blockNumber, past>> /\ State(other) = "Active"
    BY <1>10 DEF CastVote
  <2>3. CASE other # id
    BY <1>5, <1>7, <2>1, <2>2, <2>3
  <2>4. CASE other = id
    <3>1. proposals'[id] = Counted(p, u, support, effective)
      BY <1>0, <2>1, <2>4 DEF DaoTypes
    <3>2. /\ proposals'[id].snapshot = p.snapshot /\ proposals'[id].startBlock = p.startBlock
          /\ proposals'[id].endBlock = p.endBlock /\ proposals'[id].executed = p.executed
          /\ proposals'[id].cancelled = p.cancelled
      BY <1>1, <3>1 DEF Counted, Proposal
    <3>3. StateOf(p, block, t) = "Active"
      BY <1>3, <2>2, <2>4
    <3>4. ~ p.cancelled /\ ~ p.executed /\ ~(block < p.startBlock) /\ block <= p.endBlock
      BY <3>3 DEF StateOf
    <3>5. State(id)' = "Active"
      BY <1>4, <2>2, <3>2, <3>4 DEF StateOf
    <3> QED BY <1>3, <3>3, <3>5 DEF MayBecome
  <2> QED BY <2>3, <2>4
<1>11. ASSUME NEW other \in ProposalIds, Queue(other)
       PROVE  MayBecome(State(id), State(id)')
  <2>1. /\ proposals' = [proposals EXCEPT ![other] = [proposals[other] EXCEPT !.eta = blockNumber + TimelockDelay]]
        /\ UNCHANGED <<blockNumber, past>> /\ State(other) = "Succeeded"
    BY <1>11 DEF Queue
  <2>2. CASE other # id
    BY <1>5, <1>7, <2>1, <2>2
  <2>3. CASE other = id
    <3> DEFINE q == [p EXCEPT !.eta = blockNumber + TimelockDelay]
    <3>1. proposals'[id] = q
      BY <1>0, <2>1, <2>3 DEF DaoTypes
    <3>2. /\ q.eta # 0 /\ q.snapshot = p.snapshot /\ q.startBlock = p.startBlock
          /\ q.endBlock = p.endBlock /\ q.executed = p.executed
          /\ q.cancelled = p.cancelled /\ q.votes = p.votes /\ q.model = p.model
      BY <1>1, DaoConstants DEF Proposal
    <3> HIDE DEF q
    <3>3. StateOf(p, block, t) = "Succeeded"
      BY <1>3, <2>1, <2>3
    <3>4. ~ p.cancelled /\ ~ p.executed /\ ~(block < p.startBlock) /\ ~(block <= p.endBlock) /\ ~ Rejected(p, t)
      BY <3>3 DEF StateOf
    <3>5. ~ Rejected(q, t)
      BY <3>2, <3>4 DEF Rejected, Cast, Passed
    <3>6. StateOf(q, block, t) = "Queued"
      BY <3>2, <3>4, <3>5 DEF StateOf
    <3>7. State(id)' = "Queued"
      BY <1>4, <2>1, <3>1, <3>2, <3>6
    <3>8. State(id) = "Succeeded"
      BY <1>3, <3>3
    <3> QED BY <3>7, <3>8 DEF MayBecome, Follows
  <2> QED BY <2>2, <2>3
<1>12. ASSUME NEW other \in ProposalIds, Execute(other)
       PROVE  MayBecome(State(id), State(id)')
  <2>1. /\ proposals' = [proposals EXCEPT ![other] = [proposals[other] EXCEPT !.executed = TRUE]]
        /\ UNCHANGED <<blockNumber, past>> /\ State(other) = "Queued"
    BY <1>12 DEF Execute, Executed
  <2>2. CASE other # id
    BY <1>5, <1>7, <2>1, <2>2
  <2>3. CASE other = id
    <3>1. proposals'[id].executed /\ proposals'[id].cancelled = p.cancelled
      BY <1>0, <1>1, <2>1, <2>3 DEF DaoTypes, Proposal
    <3>2. State(id) = "Queued" /\ ~ p.cancelled
      BY <1>3, <2>1, <2>3 DEF StateOf
    <3>3. State(id)' = "Executed"
      BY <1>4, <3>1, <3>2 DEF StateOf
    <3> QED BY <3>2, <3>3 DEF MayBecome, Follows
  <2> QED BY <2>2, <2>3
<1>13. ASSUME NEW u \in Voters \cup {Owner}, NEW other \in ProposalIds, Cancel(u, other)
       PROVE  MayBecome(State(id), State(id)')
  <2>1. /\ proposals' = [proposals EXCEPT ![other] = [proposals[other] EXCEPT !.cancelled = TRUE]]
        /\ UNCHANGED <<blockNumber, past>> /\ ~ proposals[other].executed
    BY <1>13 DEF Cancel
  <2>2. CASE other # id
    BY <1>5, <1>7, <2>1, <2>2
  <2>3. CASE other = id
    <3>1. proposals'[id].cancelled
      BY <1>0, <1>1, <2>1, <2>3 DEF DaoTypes, Proposal
    <3>2. State(id)' = "Cancelled"
      BY <1>4, <3>1 DEF StateOf
    <3>3. State(id) # "Executed"
      BY <1>3, <2>1, <2>3 DEF StateOf
    <3> QED BY <3>2, <3>3 DEF MayBecome
  <2> QED BY <2>2, <2>3
<1>14. ASSUME NextBlock PROVE MayBecome(State(id), State(id)')
  <2>1. /\ blockNumber' = block + 1 /\ proposals' = proposals
        /\ past' = Append(past, [power |-> votingPower, total |-> totalVotingPower])
    BY <1>14 DEF NextBlock
  <2>2. TotalAt(past', p.snapshot) = t
    <3>1. p.snapshot # 0 => p.snapshot \in 1 .. Len(past)
      BY <1>0, <1>1, <1>2 DEF DaoTypes, Sound
    <3>2. [power |-> votingPower, total |-> totalVotingPower] \in Ended /\ past \in Seq(Ended)
      BY <1>0 DEF DaoTypes, Ended
    <3>3. \A b \in 1 .. Len(past) : past'[b] = past[b]
      BY <2>1, <3>2, AppendProperties
    <3> QED BY <3>1, <3>3 DEF TotalAt
  <2>3. State(id)' = StateOf(p, block + 1, t)
    BY <1>4, <2>1, <2>2
  <2>4. p.startBlock <= p.endBlock /\ (p.eta # 0 => p.endBlock < block)
    BY <1>2 DEF Sound
  <2> HIDE DEF p, block, t
  <2>5. MayBecome(StateOf(p, block, t), StateOf(p, block + 1, t))
    BY <1>1, <2>4, StateInTime
  <2> QED BY <1>3, <2>3, <2>5
<1>15. ASSUME \/ \E model \in Models : SetVotingModel(model)
              \/ \E value \in VoteDeposits : ReceiveDonation(value)
              \/ UNCHANGED daoVars
       PROVE  MayBecome(State(id), State(id)')
  <2>1. UNCHANGED <<proposals, blockNumber, past>>
    BY <1>15 DEF SetVotingModel, ReceiveDonation, daoVars
  <2> QED BY <1>5, <2>1
<1> QED
  BY <1>8, <1>9, <1>10, <1>11, <1>12, <1>13, <1>14, <1>15 DEF DaoNext

\* A proposal goes through its states in order, once, and may be cancelled until it
\* is executed: no deposit, exit or later vote changes what a vote came to.
THEOREM OutcomesStay == DaoSpec => OutcomeIsFinal
<1>1. ASSUME DaoInv, StatesAreTold, StatesAreTold', [DaoNext]_daoVars
      PROVE  [\A id \in ProposalIds : id < nextProposalId =>
                \/ State(id)' = State(id)
                \/ State(id)' \in Follows[State(id)]
                \/ State(id) # "Executed" /\ State(id)' = "Cancelled"]_daoVars
  <2>1. \A id \in ProposalIds : id < nextProposalId => MayBecome(State(id), State(id)')
    BY <1>1, OutcomeStep
  <2> QED BY <2>1 DEF MayBecome
<1> QED BY <1>1, StatesTold, DaoInvariant, PTL DEF DaoSpec, OutcomeIsFinal

=============================================================================

------------------------------- MODULE MatrixDEX -------------------------------
(***************************************************************************)
(* The exchange contract: pools of two tokens that anyone adds to, leaves   *)
(* and swaps in, without a fee, over the one balance the exchange has of    *)
(* each token.                                                             *)
(*                                                                         *)
(* Tokens move what they are asked to move.  A product is of real numbers   *)
(* on paper and of rounded ones here; every function is one transaction.   *)
(***************************************************************************)
EXTENDS FiniteSets, Sums

CONSTANTS
  Coins,
  Pairs,             \* of two coins each, the one of the lower address first
  Providers, CoinAmounts,
  MaxReserve         \* bound

ASSUME ExchangeConstants ==
  /\ Pairs \subseteq Coins \X Coins /\ \A p \in Pairs : p[1] # p[2]
  /\ IsFiniteSet(Pairs) /\ IsFiniteSet(Providers)
  /\ CoinAmounts \subseteq Nat \ {0} /\ MaxReserve \in Nat

VARIABLES
  pools,             \* _pools, by pair, as pairToPool finds them
  held               \* coin -> the exchange's balance of it

exchangeVars == <<pools, held>>

NoPool == [created |-> FALSE, reserves |-> <<0, 0>>, totalLiquidity |-> 0,
           liquidity |-> [u \in Providers |-> 0]]

ExchangeInit == pools = [p \in Pairs |-> NoPool] /\ held = [c \in Coins |-> 0]

\* _sqrt, of integers.
Root(x) == CHOOSE r \in 0..x : r * r <= x /\ x < (r + 1) * (r + 1)

Plus(pool, given, u, minted) ==
  [pool EXCEPT !.created = TRUE,
               !.reserves = <<@[1] + given[1], @[2] + given[2]>>,
               !.totalLiquidity = @ + minted, !.liquidity[u] = @ + minted]

\* What the exchange takes, or pays where an amount is negative.
Move(p, moved) ==
  held' = [c \in Coins |-> held[c] + IF c = p[1] THEN moved[1] ELSE IF c = p[2] THEN moved[2] ELSE 0]

CreatePool(p, u, given) ==
  /\ ~ pools[p].created
  /\ pools' = [pools EXCEPT ![p] = Plus(@, given, u, Root(given[1] * given[2]))]
  /\ Move(p, given)

\* As much of both as keeps the ratio and neither exceeds what is desired.
InRatio(pool, desired) ==
  LET r == pool.reserves
      second == (desired[1] * r[2]) \div r[1]
  IN  IF second <= desired[2] THEN <<desired[1], second>>
      ELSE <<(desired[2] * r[1]) \div r[2], desired[2]>>

Minted(pool, given) == (given[1] * pool.totalLiquidity) \div pool.reserves[1]

MayAdd(pool, desired) ==
  /\ pool.reserves[1] > 0
  /\ InRatio(pool, desired)[1] > 0 /\ InRatio(pool, desired)[2] > 0

AddLiquidity(p, u, desired) ==
  /\ MayAdd(pools[p], desired)
  /\ LET given == InRatio(pools[p], desired)
     IN  /\ pools' = [pools EXCEPT ![p] = Plus(@, given, u, Minted(@, given))]
         /\ Move(p, given)

\* A share of each reserve, rounded down.
Share(pool, amount) ==
  [i \in 1..2 |-> (amount * pool.reserves[i]) \div pool.totalLiquidity]

RemoveLiquidity(p, u, amount) ==
  /\ 0 < amount /\ amount <= pools[p].liquidity[u]
  /\ LET taken == Share(pools[p], amount)
         minus == [i \in 1..2 |-> - taken[i]]
     IN  /\ pools' = [pools EXCEPT ![p] = Plus(@, minus, u, - amount)]
         /\ Move(p, minus)

\* To the nearest.
AmountOutRounded(pool, i, amountIn) ==
  (2 * amountIn * pool.reserves[3 - i] + pool.reserves[i] + amountIn)
    \div (2 * (pool.reserves[i] + amountIn))

\* For amountIn of the pool's coin i, rounded down.
AmountOut(pool, i, amountIn) ==
  (amountIn * pool.reserves[3 - i]) \div (pool.reserves[i] + amountIn)

MaySwap(pool, i, amountIn) ==
  LET out == AmountOut(pool, i, amountIn) IN 0 < out /\ out < pool.reserves[3 - i]

Swapped(pool, i, amountIn) ==
  [pool EXCEPT !.reserves[i] = @ + amountIn,
               !.reserves[3 - i] = @ - AmountOut(pool, i, amountIn)]

Swap(p, i, amountIn) ==
  /\ pools[p].reserves[i] > 0 /\ MaySwap(pools[p], i, amountIn)
  /\ LET after == Swapped(pools[p], i, amountIn)
     IN  /\ pools' = [pools EXCEPT ![p] = after]
         /\ Move(p, [j \in 1..2 |-> after.reserves[j] - pools[p].reserves[j]])

Bounded == \A p \in Pairs : \A i \in 1..2 : pools'[p].reserves[i] <= MaxReserve

ExchangeNext ==
  \E p \in Pairs :
    /\ \/ \E u \in Providers, given \in CoinAmounts \X CoinAmounts :
            CreatePool(p, u, given) \/ AddLiquidity(p, u, given)
       \/ \E u \in Providers : \E amount \in 1..pools[p].totalLiquidity : RemoveLiquidity(p, u, amount)
       \/ \E i \in 1..2, amountIn \in CoinAmounts : Swap(p, i, amountIn)
    /\ Bounded

ExchangeSpec == ExchangeInit /\ [][ExchangeNext]_exchangeVars

ExchangeTypeOK ==
  /\ \A p \in Pairs :
       /\ pools[p].reserves[1] \in Nat /\ pools[p].reserves[2] \in Nat
       /\ pools[p].totalLiquidity \in Nat /\ pools[p].liquidity \in [Providers -> Nat]
  /\ held \in [Coins -> Nat]

InPools(c) ==
  SumOf([p \in Pairs |-> SumOf(pools[p].reserves, {i \in 1..2 : p[i] = c})], Pairs)

\* The exchange has of a coin what its pools count on, those who share a pool
\* share all of it, and a pool has both coins for as long as it has a provider.
PoolsAreWhole ==
  /\ \A c \in Coins : held[c] = InPools(c)
  /\ \A p \in Pairs :
       /\ pools[p].totalLiquidity = SumOf(pools[p].liquidity, Providers)
       /\ \A i \in 1..2 : pools[p].reserves[i] > 0 <=> pools[p].totalLiquidity > 0

\* There is no gain in rounding: adding and leaving again returns no more of
\* either coin, and swapping there and back no more than went in, whatever
\* reserves and liquidity the pool has come to.
RoundTripsDoNotPay ==
  \A p \in Pairs :
    /\ \A desired \in CoinAmounts \X CoinAmounts :
         MayAdd(pools[p], desired) =>
           LET given == InRatio(pools[p], desired)
               minted == Minted(pools[p], given)
               after == Plus(pools[p], given, CHOOSE u \in Providers : TRUE, minted)
           IN  \A i \in 1..2 : Share(after, minted)[i] <= given[i]
    /\ \A i \in 1..2, amountIn \in CoinAmounts :
         pools[p].totalLiquidity > 0 /\ MaySwap(pools[p], i, amountIn) =>
           AmountOut(Swapped(pools[p], i, amountIn), 3 - i, AmountOut(pools[p], i, amountIn)) <= amountIn

\* Nobody who leaves, adds or swaps takes what is another's.
ProvidersAreWhole == PoolsAreWhole /\ RoundTripsDoNotPay
=============================================================================

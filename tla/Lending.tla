-------------------------------- MODULE Lending --------------------------------
(***************************************************************************)
(* The loans of the DeFi service and the ledgers kept beside them: what a   *)
(* borrower put up and owes (the collateral manager) and what each pool has *)
(* lent (the loan manager).                                                *)
(*                                                                         *)
(* Each operation first awaits what it needs to know, prices, and reads and *)
(* writes the ledgers only afterwards, with no await between: one step,     *)
(* with any prices.  Amounts are whole.  Left out are the pools' totals,    *)
(* which only the rate of interest reads, the reputations, and depositing   *)
(* and withdrawing collateral by itself, which no surface exposes.         *)
(***************************************************************************)
EXTENDS FiniteSets, Sums

CONSTANTS
  Borrowers, LoanIds,
  LendTokens,
  AcceptedTokens,   \* those collateral is taken in
  LendAmounts, TokenPrices,
  MaxInterest       \* bound: the unpaid interest of a loan

ASSUME LendConstants ==
  /\ IsFiniteSet(LoanIds) /\ AcceptedTokens \subseteq LendTokens
  /\ LendAmounts \subseteq Nat \ {0} /\ TokenPrices \subseteq Nat \ {0}
  /\ MaxInterest \in Nat

VARIABLES
  loans,                      \* LoanManager._loans
  poolBorrowed,               \* per token
  collateral, borrows         \* CollateralManager._balances and _borrows

lendVars == <<loans, poolBorrowed, collateral, borrows>>

NoLoan == [status |-> "none"]
Lent == {l \in LoanIds : loans[l].status # "none"}
Active == {l \in LoanIds : loans[l].status = "active"}

Positive(n) == IF n > 0 THEN n ELSE 0

LendInit ==
  /\ loans = [l \in LoanIds |-> NoLoan]
  /\ poolBorrowed = [t \in LendTokens |-> 0]
  /\ collateral = [u \in Borrowers |-> [t \in LendTokens |-> 0]]
  /\ borrows = [u \in Borrowers |-> [t \in LendTokens |-> 0]]

\* At least 150 % when it is made, due below 120 %.
Covers(collateralValue, borrowValue) == 2 * collateralValue >= 3 * borrowValue
IsDue(collateralValue, owedValue) == 5 * collateralValue < 6 * owedValue

NewLoan(u, given, amount, taken, owed) ==
  [status |-> "active", borrower |-> u, security |-> given, pledged |-> amount,
   token |-> taken, principal |-> owed, interest |-> 0, due |-> FALSE]

\* The loan is made and the pool's lending counted before the deposit, which
\* refuses a token that is not accepted: then nothing else is written.
CreateLoan(l, u, given, amount, taken, owed) ==
  /\ loans[l].status = "none"
  /\ \E p, q \in TokenPrices : Covers(amount * p, owed * q)
  /\ loans' = [loans EXCEPT ![l] = NewLoan(u, given, amount, taken, owed)]
  /\ poolBorrowed' = [poolBorrowed EXCEPT ![taken] = @ + owed]
  /\ \/ /\ given \in AcceptedTokens
        /\ collateral' = [collateral EXCEPT ![u][given] = @ + amount]
        /\ borrows' = [borrows EXCEPT ![u][taken] = @ + owed]
     \/ given \notin AcceptedTokens /\ UNCHANGED <<collateral, borrows>>

\* The loan with the interest of the time since it was last brought up to date.
Accrued(loan, extra) == [loan EXCEPT !.interest = @ + extra]

Owed(loan) == loan.principal + loan.interest

\* Interest first, then principal.
PrincipalPaid(loan, paid) == Positive(paid - loan.interest)

AfterPayment(loan, paid) ==
  LET rest == [loan EXCEPT !.interest = Positive(@ - paid),
                           !.principal = @ - PrincipalPaid(loan, paid)]
  IN  IF Owed(rest) = 0 THEN [rest EXCEPT !.status = "repaid"] ELSE rest

\* With interest and all, as the pool was once counted.
ReturnedAll(loan, paid) == paid

\* What a payment takes off the lending of the pool.
Returned(loan, paid) == PrincipalPaid(loan, paid)

\* The borrower's position becomes what is left of this loan.
RepayLoan(l, amount, extra) ==
  /\ l \in Active
  /\ LET loan == Accrued(loans[l], extra)
         paid == IF amount < Owed(loan) THEN amount ELSE Owed(loan)
         rest == AfterPayment(loan, paid)
     IN  /\ loans' = [loans EXCEPT ![l] = rest]
         /\ poolBorrowed' = [poolBorrowed EXCEPT ![loan.token] = Positive(@ - Returned(loan, paid))]
         /\ borrows' = [borrows EXCEPT ![loan.borrower][loan.token] = rest.principal]
         /\ UNCHANGED collateral

\* Determines that liquidation is due, and settles nothing.  The interest stays
\* accrued when it is not.
Liquidate(l, extra) ==
  /\ l \in Active
  /\ LET loan == Accrued(loans[l], extra)
     IN  \E p, q \in TokenPrices :
           loans' = [loans EXCEPT ![l] =
             [loan EXCEPT !.due = @ \/ IsDue(loan.pledged * p, Owed(loan) * q)]]
  /\ UNCHANGED <<poolBorrowed, collateral, borrows>>

LendNext ==
  \E l \in LoanIds :
    \/ \E u \in Borrowers, given, taken \in LendTokens, amount, owed \in LendAmounts :
         CreateLoan(l, u, given, amount, taken, owed)
    \/ \E extra \in {i \in 0..MaxInterest : l \in Active /\ loans[l].interest + i <= MaxInterest} :
         Liquidate(l, extra) \/ \E amount \in LendAmounts : RepayLoan(l, amount, extra)

LendSpec == LendInit /\ [][LendNext]_lendVars

Principals(ls) == SumOf([l \in ls |-> loans[l].principal], ls)

LendTypeOK ==
  /\ \A l \in Lent : loans[l].status \in {"active", "repaid"} /\ Owed(loans[l]) \in Nat
  /\ \A t \in LendTokens : poolBorrowed[t] \in Nat
  /\ \A u \in Borrowers, t \in LendTokens : collateral[u][t] \in Nat /\ borrows[u][t] \in Nat

\* What a pool's rate is computed from is what is out: the lending counted for
\* a token is the principal of its standing loans, whatever interest was paid,
\* and a count that had drifted would stay hidden by its floor of zero.
PoolBorrowedIsLent ==
  \A t \in LendTokens : poolBorrowed[t] = Principals({l \in Active : loans[l].token = t})

\* The position withdrawals are judged by is what the borrower owes: the
\* ledger and the loans "can no longer disagree" (service.py:195).
BorrowsMatchLoans ==
  \A u \in Borrowers, t \in LendTokens :
    borrows[u][t] = Principals({l \in Active : loans[l].borrower = u /\ loans[l].token = t})
=============================================================================

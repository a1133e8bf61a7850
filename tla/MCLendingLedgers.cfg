\* Two loans of one borrower, in one token, against collateral that is accepted.
SPECIFICATION LendSpec
CONSTANTS
  Borrowers = {u1}
  LoanIds = {l1, l2}
  LendTokens = {eth, usdc}
  AcceptedTokens = {eth, usdc}
  LendAmounts = {1, 2}
  TokenPrices = {1, 2}
  MaxInterest = 1
INVARIANT BorrowsMatchLoans
CHECK_DEADLOCK FALSE

\* A refund that is told of before the purchase it refunds.
SPECIFICATION EntSpec
CONSTANTS
  pro = pro
  coins = coins
  Transactions = {pro, coins}
  Consumables = {coins}
  Lineages = {pro, coins}
  Original <- MCOriginal
INVARIANTS RefundWins
CHECK_DEADLOCK FALSE

\* Two escrows of one deed, whose contract may lie about a transfer, past the
\* deadline of whatever is locked; two pools that share a coin; two loans; three
\* transactions; four events for a client whose queue holds one and whose replay
\* holds two; three calls in a turn.
SPECIFICATION MCSpec
CONSTANTS
  Parties = {s, b}
  NoParty = nobody
  Deeds = {d1}
  RogueDeeds = {d1}
  EscrowIds = {e1, e2}
  Prices = {2}
  LockTimeout = 1
  MaxEscrowTime = 4
  Coins = {"dai", "eth", "usdc"}
  Pairs <- MCPairs
  Providers = {p1, p2}
  CoinAmounts = {1, 2, 3}
  MaxReserve = 5
  Borrowers = {u1}
  LoanIds = {l1, l2}
  LendTokens = {eth, usdc}
  AcceptedTokens = {eth}
  LendAmounts = {1, 2}
  TokenPrices = {1, 2}
  MaxInterest = 1
  Sends = {x1, x2, x3}
  Clients = {c1}
  Conns = {k1, k2}
  NoConn = nobody
  wanted = wanted
  other = other
  Kinds = {wanted, other}
  Address <- OneAddress
  Wants <- WantsSome
  ReplaySize = 2
  MaxQueue = 1
  MaxSubscribers = 2
  MaxPerAddress = 2
  MaxEvents = 4
  Calls = {"read", "renamed", "deploy", "request"}
  LabelMoves = {"deploy", "request"}
  OperationMoves = {"renamed", "deploy", "request"}
  Signed = {"deploy"}
  Sources = {"deploy"}
  Escalations = {"request"}
  Reach <- MCReach
  Refused <- MCRefused
  MaxAsked = 3
INVARIANTS
  DepositGoesOneWay
  ProvidersAreWhole
  PoolBorrowedIsLent
  AnswersStayTrue
  NothingIsLostSilently
  RunsOnlyIfAllowed
PROPERTIES
  ImplementsDeal
  MoneyComesBack
CHECK_DEADLOCK FALSE

\* Sponsored gas, sign-in, purchases, a property's papers and its sale, and the
\* attestations of all that.
SPECIFICATION MCSpec
CONSTANTS
  checksummed = checksummed
  lowercase = lowercase
  blank = blank
  NoSpender = nobody
  Workers = {w1, w2}
  Spellings = {checksummed, lowercase, blank}
  Canonical <- MetersAs
  Actions = {transfer, mint}
  AllowedActions = {transfer}
  Costs = {2, 3}
  Legacy <- Committed
  Cap = 4
  Window = 2
  Ttl = 1
  Stall = 1
  MaxTime = 4
  MaxRows = 4
  wallet = wallet
  apple = apple
  t1 = t1
  t2 = t2
  t3 = t3
  n1 = n1
  n2 = n2
  Subjects = {wallet, apple}
  AppleSubjects = {apple}
  Nobody = nobody
  Tokens <- MCTokens
  Nonces <- MCNonces
  pro = pro
  coins = coins
  Transactions = {pro, coins}
  Consumables = {coins}
  Lineages = {pro, coins}
  Original <- MCOriginal
  DocTypes = {"title_report"}
  Freshness <- MCFreshness
  Price = 1
  Balances = {1}
  MaxPapers <- MCMaxPapers
  MaxDay = 2
  Parties = {s, b}
  NoParty = nobody
  Deeds = {d1}
  EscrowIds = {e1, e2}
  Properties = {h1}
  Chosen = {"listed", "delisted"}
  NoDeed = nodeed
  BatchSize = 2
  MaxAttempts = 3
  MaxAttestations = 4
SYMMETRY SaleSymmetry
INVARIANTS
  DailyCapHolds
  BudgetIsAccountedFor
  NonceAdmitsOnce
  SignedInSurvivesRestart
  VerifiedIsEntitled
  NewestDocumentsClear
  SoldMeansSettled
  AttestationsAreKept
PROPERTIES
  PaidGasStaysCounted
  TerminalIsSticky
  LegalTransitions
CHECK_DEADLOCK FALSE

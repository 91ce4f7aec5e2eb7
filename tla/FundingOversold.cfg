SPECIFICATION FundingSpec
CONSTANTS
  Wallets = {w1, w2}
  Keys = {agent}
  NoKey = NoKey
  Agent = agent
  Purse <- OneEach
  Outside = 0
  MaxU64 = 2
  MaxU32 = 4
  MaxTime = 1
  Goals <- One
  Deadlines <- One
  Tiers = {g1}
  Price <- MCPrice
  Limit <- MCLimit
  Amounts <- One
  Refs = {q1, q2}
  Payers = {b1}
  Checkers = {h1}
  Editors = {}
  TxIds = {t1, t2}
  ScanLimit = 10
  None = None
  GivingUp = FALSE
INVARIANTS
  SoldWithinLimit
CHECK_DEADLOCK FALSE

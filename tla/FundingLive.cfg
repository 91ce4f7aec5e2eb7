SPECIFICATION FairFundingSpec
CONSTANTS
  Wallets = {w1}
  Keys = {agent}
  NoKey = NoKey
  Agent = agent
  Purse <- OneEach
  Outside = 1
  MaxU64 = 2
  MaxU32 = 4
  MaxTime = 1
  Goals <- One
  Deadlines <- One
  Tiers = {}
  Price <- MCPrice
  Limit <- MCLimit
  Amounts <- One
  Refs = {q1, q2}
  Payers = {b1}
  Checkers = {h1}
  Editors = {}
  TxIds = {t1, t2}
  ScanLimit = 1
  None = None
  GivingUp = TRUE
PROPERTIES
  PaymentGetsRecorded
CHECK_DEADLOCK FALSE

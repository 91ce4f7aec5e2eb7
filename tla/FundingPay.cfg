SPECIFICATION FundingSpec
CONSTANTS
  Wallets = {w1, w2}
  Keys = {agent}
  NoKey = NoKey
  Agent = agent
  Purse <- OneEach
  Outside = 1
  MaxU64 = 3
  MaxU32 = 4
  MaxTime = 2
  Goals <- Two
  Deadlines <- One
  Tiers = {g1}
  Price <- MCPrice
  Limit <- MCLimit
  Amounts = {}
  Refs = {q1, q2}
  Payers = {b1}
  Checkers = {h1, h2}
  Editors = {e1}
  TxIds = {t1, t2}
  ScanLimit = 10
  None = None
  GivingUp = TRUE
SYMMETRY Interchangeable
INVARIANTS
  FundingTypeOK
  RowIsOnChain
  RecordedIsPaid
  TotalsAgree
  ShownIsWhatCloses
CHECK_DEADLOCK FALSE

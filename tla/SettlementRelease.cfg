SPECIFICATION SettlementSpec
CONSTANTS
  Wallets = {w1, w2}
  Keys = {agent}
  NoKey = NoKey
  Agent = agent
  Purse <- MCPurse
  Outside = 1
  MaxU64 = 3
  MaxU32 = 2
  MaxTime = 1
  Deadlines <- AtOne
  Proofs = {p1, p2}
  Cost <- MCCost
  Goals <- Met
  Closers = {c1}
  Readers = {}
  Releasers = {s1, s2}
  Refunders = {}
  BatchSize = 1
  TxIds = {t1, t2}
  None = None
  Faults = {"timeout", "drop", "fetch", "lose", "restart"}
SYMMETRY Alike
INVARIANTS
  SettlementTypeOK
  DbNeverAhead
  NotPaidTwice
  PaidIsRemembered
PROPERTIES
  DbForward
CHECK_DEADLOCK FALSE

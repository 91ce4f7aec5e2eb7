SPECIFICATION SettlementSpec
CONSTANTS
  Wallets = {w1, w2}
  Keys = {agent}
  NoKey = NoKey
  Agent = agent
  Purse <- MCPurse
  Outside = 0
  MaxU64 = 3
  MaxU32 = 2
  MaxTime = 1
  Deadlines <- AtOne
  Proofs = {p1}
  Cost <- MCCost
  Goals <- Met
  Closers = {c1}
  Readers = {}
  Releasers = {s1}
  Refunders = {}
  BatchSize = 1
  TxIds = {t1, t2}
  None = None
  Faults = {"lose"}
INVARIANTS
  PaidAtMostOnce
CHECK_DEADLOCK FALSE

SPECIFICATION FairSettlementSpec
CONSTANTS
  Wallets = {w1, w2}
  Keys = {agent}
  NoKey = NoKey
  Agent = agent
  Purse <- MCPurse
  Outside = 0
  MaxU64 = 3
  MaxU32 = 2
  MaxTime = 1
  Deadlines <- AtOne
  Proofs = {p1}
  Cost <- MCCost
  Goals <- Missed
  Closers = {}
  Readers = {d1}
  Releasers = {}
  Refunders = {f1, f2}
  BatchSize = 1
  TxIds = {t1, t2}
  None = None
  Faults = {"timeout"}
PROPERTIES
  RefundsReachFans
CHECK_DEADLOCK FALSE

SPECIFICATION FairSettlementSpec
CONSTANTS
  Wallets = {w1, w2}
  Keys = {agent}
  NoKey = NoKey
  Agent = agent
  Purse <- MCPurse
  Outside = 0
  MaxU64 = 3
  MaxU32 = 2
  MaxTime = 1
  Deadlines <- AtOne
  Proofs = {p1, p2}
  Cost <- MCCost
  Goals <- Either
  Closers = {c1}
  Readers = {d1}
  Releasers = {s1}
  Refunders = {f1}
  BatchSize = 1
  TxIds = {t1, t2}
  None = None
  Faults = {}
PROPERTIES
  OverdueCloses
  RefundsAreRecorded
  PaidGetsRecorded
CHECK_DEADLOCK FALSE

SPECIFICATION Spec
CONSTANTS
  Wallets = {w1, w2, w3, w4}
  Keys = {agent, other}
  NoKey = NoKey
  Purse <- MCPurse
  Outside = 1
  MaxU64 = 8
  MaxU32 = 3
  MaxTime = 2
INVARIANTS
  IInv
  CountersAgree
  EscrowCovers
  FansMadeWhole
  RefundNeverStuck
  NoOverflow
  ClosedIsSettled
PROPERTY
  PromiseSpec
CHECK_DEADLOCK FALSE

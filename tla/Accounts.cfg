SPECIFICATION AccountsSpec
CONSTANTS
  API = {h1, h2}
  Emails = {e1, e2}
  Wallets = {w1}
  MaxUsers = 2
  MaxSessions = 2
  MaxNonces = 1
  MaxCampaigns = 3
  MaxPayments = 1
  MaxActive = 1
  AccessTTL = 1
  RefreshTTL = 2
  NonceTTL = 1
  MaxTime = 1
  None = None
SYMMETRY Interchangeable
INVARIANTS
  AccountsTypeOK
  SessionEnds
  NonceBounded
  ActiveBounded
  PaymentsOutliveFans
CHECK_DEADLOCK FALSE

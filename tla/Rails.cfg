SPECIFICATION RailsSpec
CONSTANTS
  Reviewers = {r1, r2}
  Clients = {k1}
  Pages = {g1, g2}
  MaxRows = 3
  MaxChannels = 2
  Budget = 1
  Gateway = TRUE
  Reserve = 1
  Fee = 2
  Asks <- Two
  MaxCharge = 2
  Prices <- One
  Float = 4
  None = None
CONSTRAINT Small
SYMMETRY Interchangeable
INVARIANTS
  RailsTypeOK
  ReceiptsCover
  PaidIsTransferred
  OverrunBounded
CHECK_DEADLOCK FALSE

SPECIFICATION ReviewSpec
CONSTANTS
  Reviewers = {r1, r2}
  Clients = {}
  Pages = {}
  MaxRows = 0
  MaxChannels = 0
  Budget = None
  Gateway = TRUE
  Reserve = 1
  Fee = 1
  Asks = {}
  MaxCharge = 1
  Prices = {}
  Float = 0
  None = None
  NoLimit = NoLimit
  Vendors = {v1}
  Category <- OneCategory
  Organiser = {}
  Proofs = {p1, p2}
  Baskets <- SmallBaskets
  Terms <- CapOne
  Home = "goods"
  Goal = 2
  Pledged = 4
  Auditors = {a1}
SYMMETRY Interchangeable
INVARIANTS
  ReviewTypeOK
  CategoryWithinCap
  ReleasesAgree
PROPERTIES
  PaidOnStandingVerdict
  AuditBlocks
CHECK_DEADLOCK FALSE

CONSTANTS
  Debts <- ThreeDebts
  NodeOnly = {3}
  Invoices = {i1, i2}
  None = None
  Nothing = Nothing
  MaxRetries = 2
  MaxSends = 2
  FaultKinds = {"crash", "lnd", "db", "window"}
  MaxFaults = 1
  FeeInvoices = 3
  FeeFaultKinds = {"crash", "lnd", "lnurl", "db"}
  MaxFeeFaults = 2
  Relays = {"r1", "r2"}
  QuietSecs = 3
  MaxAttempts = 2
  BookFaultKinds = {"relay", "db"}
  MaxBookFaults = 2
  Queues = {"order", "cantdo"}
  Messages = {"m1", "m2", "m3"}
  MaxFailures = 5
  SendRetries = 3
  CashuOrders = {"o1", "o2"}
  Floor = 15
  CashuFaultKinds = {"crash", "publish"}
  MaxCashuFaults = 1
  Events <- TwoEvents
  Freshness = 1
  WindowSecs = 2
  MaxSkew = 1
  MaxIndex = 2
  RatedOrders = {"o1", "o2"}
  Users = {"u", "v"}
  PartyOf <- TwoTrades
  Private <- PrivateBuyer
  MaxRatingFaults = 2
  Nodes = {"a", "b"}
  Scope <- TwoNodes
  Crossing = {"a", "b"}
  Values = {0, 20, 40}
  OutlierPct = 5
  Staleness = 1
  Lifetime = 2
  Providers = {"p1", "p2"}
  Interval = 2
  Threshold = 2
  Base = 2
  Cap = 4
  Width = 3
  MaxCount = 6
SPECIFICATION ServicesSpec
INVARIANTS
  PaidAtMostOnce
  NotWrittenOffWhilePaid
  SlashedIsPaid
  FeePaidAtMostOnce
  BookFollowsRow
  GivenUpAfterFour
  
  
  IndexSpentOnce
  CountedOnce
  ServedIsRecent
  FallbackIsExact
PROPERTIES
  DebtsResolved
  FeeRecorded
  BookConverges
  BuyerInformed
  BackoffHolds
CHECK_DEADLOCK FALSE

\* One order, two checkout requests, two webhook deliveries at a time and one operator
\* cancelling; the provider sends two events of any kind but progress; one request ends
\* half-way.  Handlers are interchangeable, and so are checkouts.
SPECIFICATION PaymentsSpec
CONSTANTS
  c1 = c1
  c2 = c2
  h1 = h1
  h2 = h2
  s1 = s1
  Vehicles = {v1}
  Orders = {o1}
  Checkouts <- TwoCheckouts
  Handlers <- TwoHandlers
  Tasks <- WithStaff
  Targets <- Cancel
  Kinds <- SafetyKinds
  MaxEvents = 2
  Late = FALSE
  EarlyAccess = FALSE
  MaxAbandons = 1
  StartIndexed = {TRUE}
  OrderTotal = 100
  Terms <- BoundaryTerms
  DefaultBps = 800
  PaymentFeeBps = 290
  PaymentFeeFixed = 0
  Unknown = Unknown
  None = None
SYMMETRY Interchangeable
INVARIANTS
  PaymentsTypeOK
  PaidMeansCharged
  BoughtMeansPaid
  SoldMeansCollected
  SettledOnce
  AppliedMeansSettled
  CommissionMeansSold
  LedgerBalances
CHECK_DEADLOCK FALSE

\* One order, two checkout requests, two webhook deliveries at a time and one operator
\* cancelling; the provider reports success and failure, of either checkout's session;
\* deliveries may be late.  Every request runs to its end.  No symmetry: liveness is
\* checked.
SPECIFICATION FairPaymentsSpec
CONSTANTS
  c1 = c1
  c2 = c2
  h1 = h1
  h2 = h2
  s1 = s1
  Vehicles = {v1}
  Orders = {o1}
  Checkouts <- TwoCheckouts
  Handlers <- TwoHandlers
  Tasks <- WithStaff
  Targets <- Cancel
  Kinds <- FinalKinds
  MaxEvents = 4
  Late = TRUE
  EarlyAccess = FALSE
  MaxAbandons = 0
  StartIndexed = {TRUE}
  OrderTotal = 100
  Terms <- BoundaryTerms
  DefaultBps = 800
  PaymentFeeBps = 290
  PaymentFeeFixed = 0
  Unknown = Unknown
  None = None
PROPERTIES
  ChargeIsSettled
  EveryEventAcknowledged
CHECK_DEADLOCK FALSE

\* One payment, a provider that reports success; an order can be paid as soon as the customer
\* can list it.  No request dies.
SPECIFICATION PaymentsSpec
CONSTANTS
  c1 = c1
  c2 = c2
  h1 = h1
  h2 = h2
  s1 = s1
  Vehicles = {v1}
  Orders = {o1}
  Checkouts <- OneCheckout
  Handlers <- TwoHandlers
  Tasks <- NoStaff
  Targets = {}
  Kinds <- FinalKinds
  MaxEvents = 2
  Late = FALSE
  EarlyAccess = TRUE
  MaxAbandons = 0
  StartIndexed = {TRUE}
  OrderTotal = 100
  Terms <- BoundaryTerms
  DefaultBps = 800
  PaymentFeeBps = 290
  PaymentFeeFixed = 0
  Unknown = Unknown
  None = None
INVARIANT SoldVehicleHasOrder
CHECK_DEADLOCK FALSE

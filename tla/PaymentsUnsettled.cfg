\* Two checkout requests for one order, no request dies, nobody cancels.
SPECIFICATION PaymentsSpec
CONSTANTS
  c1 = c1
  c2 = c2
  h1 = h1
  h2 = h2
  s1 = s1
  Vehicles = {v1}
  Orders = {o1}
  Checkouts <- TwoCheckouts
  Handlers <- TwoHandlers
  Tasks <- NoStaff
  Targets = {}
  Kinds <- RetryKinds
  MaxEvents = 2
  Late = FALSE
  EarlyAccess = FALSE
  MaxAbandons = 0
  StartIndexed = {TRUE}
  OrderTotal = 100
  Terms <- BoundaryTerms
  DefaultBps = 800
  PaymentFeeBps = 290
  PaymentFeeFixed = 0
  Unknown = Unknown
  None = None
INVARIANT PaidPaymentSettlesOrder
CHECK_DEADLOCK FALSE

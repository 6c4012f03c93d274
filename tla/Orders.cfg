\* Three create requests for one vehicle, three transition calls at a time, one request
\* of either kind abandoned half-way.  Create requests and transition calls are
\* interchangeable.  The system may stop: nobody has to order anything.
SPECIFICATION OrdersSpec
CONSTANTS
  Vehicles = {v1}
  Orders = {o1, o2, o3}
  Tasks = {t1, t2, t3}
  Targets <- AllTargets
  EarlyAccess = FALSE
  MaxAbandons = 1
  StartIndexed = {TRUE, FALSE}
  None = None
SYMMETRY Interchangeable
INVARIANTS
  TypeOK
  OneActiveOrder
  OneConfirmedOrder
  BoughtOnce
  VehicleFollowsOrder
PROPERTY SoldIsFinal
CHECK_DEADLOCK FALSE

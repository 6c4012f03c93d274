\* Three create requests for one vehicle and two transition calls at a time, every one
\* of which runs to its end.  No symmetry: liveness is checked.
SPECIFICATION FairOrdersSpec
CONSTANTS
  Vehicles = {v1}
  Orders = {o1, o2, o3}
  Tasks = {t1, t2}
  Targets <- AllTargets
  EarlyAccess = FALSE
  MaxAbandons = 0
  StartIndexed = {TRUE, FALSE}
  None = None
PROPERTIES
  ImplementsMarket
  CancelledVehicleReturns
  IndexesConverge
CHECK_DEADLOCK FALSE

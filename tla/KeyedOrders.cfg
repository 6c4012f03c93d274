\* Three create requests with one of two keys or none, over two vehicles; one operator
\* call cancelling orders; two requests end half-way.  Requests, vehicles and keys are
\* interchangeable.  The system may stop.
SPECIFICATION KeyedSpec
CONSTANTS
  Vehicles = {v1, v2}
  Orders = {o1, o2, o3}
  Tasks = {t1}
  Targets = {"CANCELLED"}
  EarlyAccess = FALSE
  MaxAbandons = 2
  StartIndexed = {TRUE}
  None = None
  Keys = {k1, k2}
  NoRow = NoRow
SYMMETRY Interchangeable
INVARIANTS
  KeyedTypeOK
  OneOrderPerKey
  AnswerIsOrder
CHECK_DEADLOCK FALSE

------------------------------- MODULE Orders -------------------------------
(***************************************************************************)
(* The order service (src/app/modules/orders/service.py) over MongoDB.     *)
(*                                                                         *)
(* Requests run concurrently, in one event loop or in several worker       *)
(* processes, and every awaited database call is one atomic step of a      *)
(* request: what a request read may be stale by the time it writes.  No    *)
(* transaction spans two calls.  A request may also end between two calls  *)
(* (the process dies, the database errors, the task is cancelled), which   *)
(* is what Abandon* stands for.                                            *)
(*                                                                         *)
(* An order id is drawn inside create_order and never reused, so order o   *)
(* is identified with the create_order request that inserts it.  A call    *)
(* of OrderService.transition occupies a task while it lasts.              *)
(***************************************************************************)
EXTENDS Naturals, FiniteSets

CONSTANTS
  Vehicles,     \* listings
  Orders,       \* create_order requests, and the orders they insert
  Tasks,        \* calls of transition() that can be under way at once
  Targets,      \* the statuses transition() is asked for
  EarlyAccess,  \* may an order be transitioned before its create_order returned?
  MaxAbandons,  \* bound: requests that end between two database calls
  StartIndexed, \* may the process start with its indexes built, or without?
  None          \* no vehicle

VARIABLES
  vehicle,    \* vehicles collection: status of each listing
  order,      \* orders collection: status of each order document, or Absent
  version,    \* orders collection: the optimistic-locking counter
  wanted,     \* vehicle_id of each create_order request and its document
  creating,   \* where each create_order request is
  taskPc,     \* where each transition() call is
  job,        \* what each transition() call was asked and has read
  indexed,    \* has uniq_active_order_per_vehicle been built?
  abandons    \* requests that ended half-way so far

docs == <<vehicle, order, version>>
requests == <<wanted, creating>>
tasks == <<taskPc, job>>
orderVars == <<vehicle, order, version, wanted, creating, taskPc, job, indexed, abandons>>

Absent == "ABSENT"

OrderStatus == {"PENDING", "PAYMENT_PENDING", "PAID", "PROCESSING",
                "COMPLETED", "CANCELLED", "REFUNDED"}

\* ALLOWED_TRANSITIONS.
OrderAllowed ==
  [PENDING |-> {"PAYMENT_PENDING", "CANCELLED"},
   PAYMENT_PENDING |-> {"PAID", "CANCELLED"},
   PAID |-> {"PROCESSING", "REFUNDED"},
   PROCESSING |-> {"COMPLETED", "REFUNDED"},
   COMPLETED |-> {"REFUNDED"},
   CANCELLED |-> {},
   REFUNDED |-> {}]

\* ACTIVE_ORDER_STATUSES, and the statuses the partial index is filtered on:
\* two lists in two files.
ActiveStatuses == {"PENDING", "PAYMENT_PENDING", "PAID", "PROCESSING"}
\* Mutation of IndexedStatuses: the index forgets PAYMENT_PENDING.
NarrowIndexedStatuses == {"PENDING", "PAID", "PROCESSING"}

IndexedStatuses == {"PENDING", "PAYMENT_PENDING", "PAID", "PROCESSING"}

\* The statuses of an order its customer has paid for.
BoughtStatuses == {"PAID", "PROCESSING", "COMPLETED", "REFUNDED"}

\* The listing statuses the code here can meet.  DRAFT stands for every listing
\* create_order refuses: unpublished, deleted, not for sale, without a price.
VehicleStatus == {"AVAILABLE", "RESERVED", "SOLD", "DRAFT"}

CreatePc == {"idle", "insert", "reserve", "rollback", "done", "failed", "abandoned"}
TaskPc == {"idle", "swap", "vehicle"}

NoJob == [order |-> None, target |-> Absent, status |-> Absent, version |-> 0]

ASSUME OrdersAssumption ==
  /\ Targets \subseteq OrderStatus
  /\ EarlyAccess \in BOOLEAN
  /\ MaxAbandons \in Nat
  /\ StartIndexed \subseteq BOOLEAN
  /\ None \notin Vehicles /\ None \notin Orders

-----------------------------------------------------------------------------
\* create_order

OrdersInit ==
  /\ vehicle \in [Vehicles -> {"AVAILABLE", "DRAFT"}]
  /\ order = [o \in Orders |-> Absent]
  /\ version = [o \in Orders |-> 0]
  /\ wanted = [o \in Orders |-> None]
  /\ creating = [o \in Orders |-> "idle"]
  /\ taskPc = [t \in Tasks |-> "idle"]
  /\ job = [t \in Tasks |-> NoJob]
  /\ indexed \in StartIndexed
  /\ abandons = 0

\* Read the vehicle and refuse what cannot be ordered.
ReadVehicle(o, v) ==
  /\ creating[o] = "idle"
  /\ wanted' = [wanted EXCEPT ![o] = v]
  /\ creating' = [creating EXCEPT
                    ![o] = IF vehicle[v] = "AVAILABLE" THEN "insert" ELSE "failed"]
  /\ UNCHANGED <<docs, tasks, indexed, abandons>>

\* uniq_active_order_per_vehicle rejects a second indexed document.
SlotTaken(o) ==
  indexed /\ \E p \in Orders \ {o} :
               wanted[p] = wanted[o] /\ order[p] \in IndexedStatuses

InsertOrder(o) ==
  /\ creating[o] = "insert"
  /\ \/ /\ SlotTaken(o)
        /\ creating' = [creating EXCEPT ![o] = "failed"]
        /\ UNCHANGED order
     \/ /\ ~SlotTaken(o)
        /\ order' = [order EXCEPT ![o] = "PENDING"]
        /\ creating' = [creating EXCEPT ![o] = "reserve"]
  /\ UNCHANGED <<vehicle, version, wanted, tasks, indexed, abandons>>

\* Mutation of ReserveVehicle: the reservation does not ask for AVAILABLE.
UnconditionalReserve(o) ==
  /\ creating[o] = "reserve"
  /\ vehicle' = [vehicle EXCEPT ![wanted[o]] = "RESERVED"]
  /\ creating' = [creating EXCEPT ![o] = "done"]
  /\ UNCHANGED <<order, version, wanted, tasks, indexed, abandons>>

\* The reservation, conditional on the listing still being AVAILABLE.
ReserveVehicle(o) ==
  /\ creating[o] = "reserve"
  /\ \/ /\ vehicle[wanted[o]] = "AVAILABLE"
        /\ vehicle' = [vehicle EXCEPT ![wanted[o]] = "RESERVED"]
        /\ creating' = [creating EXCEPT ![o] = "done"]
     \/ /\ vehicle[wanted[o]] # "AVAILABLE"
        /\ creating' = [creating EXCEPT ![o] = "rollback"]
        /\ UNCHANGED vehicle
  /\ UNCHANGED <<order, version, wanted, tasks, indexed, abandons>>

\* Mutation of RollBack: the order is not deleted.
ForgetfulRollBack(o) ==
  /\ creating[o] = "rollback"
  /\ creating' = [creating EXCEPT ![o] = "failed"]
  /\ UNCHANGED <<docs, wanted, tasks, indexed, abandons>>

\* The vehicle was taken meanwhile: delete the order again.
RollBack(o) ==
  /\ creating[o] = "rollback"
  /\ order' = [order EXCEPT ![o] = Absent]
  /\ creating' = [creating EXCEPT ![o] = "failed"]
  /\ UNCHANGED <<vehicle, version, wanted, tasks, indexed, abandons>>

AbandonCreate(o) ==
  /\ creating[o] \in {"insert", "reserve", "rollback"}
  /\ abandons < MaxAbandons
  /\ abandons' = abandons + 1
  /\ creating' = [creating EXCEPT ![o] = "abandoned"]
  /\ UNCHANGED <<docs, wanted, tasks, indexed>>

-----------------------------------------------------------------------------
\* transition

\* A caller knows an order's id once create_order has returned it, or, with
\* EarlyAccess, as soon as the document can be listed.
Known(o) == EarlyAccess \/ creating[o] \notin {"reserve", "rollback"}

\* The read finds the order, in a status that allows the transition.  Otherwise
\* the call ends here, ORDER_NOT_FOUND or INVALID_STATE_TRANSITION, with nothing done.
Accepts(o, target) == order[o] # Absent /\ target \in OrderAllowed[order[o]]

EndTask(t) ==
  /\ taskPc' = [taskPc EXCEPT ![t] = "idle"]
  /\ job' = [job EXCEPT ![t] = NoJob]

ReadOrder(t, o, target) ==
  /\ taskPc[t] = "idle"
  /\ Known(o)
  /\ Accepts(o, target)
  /\ taskPc' = [taskPc EXCEPT ![t] = "swap"]
  /\ job' = [job EXCEPT ![t] = [order |-> o, target |-> target,
                                status |-> order[o], version |-> version[o]]]
  /\ UNCHANGED <<docs, requests, indexed, abandons>>

\* The order is still as it was read.
Unchanged(t) ==
  LET j == job[t] IN order[j.order] = j.status /\ version[j.order] = j.version

WriteStatus(t) ==
  /\ order' = [order EXCEPT ![job[t].order] = job[t].target]
  /\ version' = [version EXCEPT ![job[t].order] = @ + 1]
  /\ \/ /\ job[t].target \in {"CANCELLED", "PAID"}
        /\ taskPc' = [taskPc EXCEPT ![t] = "vehicle"]
        /\ UNCHANGED job
     \/ /\ job[t].target \notin {"CANCELLED", "PAID"}
        /\ EndTask(t)

\* Mutation of SwapStatus: the write asks for neither status nor version.
BlindSwap(t) ==
  /\ taskPc[t] = "swap"
  /\ WriteStatus(t)
  /\ UNCHANGED <<vehicle, requests, indexed, abandons>>

\* Compare-and-set on status and version; the loser gets CONCURRENT_MODIFICATION.
SwapStatus(t) ==
  /\ taskPc[t] = "swap"
  /\ \/ Unchanged(t) /\ WriteStatus(t)
     \/ ~Unchanged(t) /\ EndTask(t) /\ UNCHANGED <<order, version>>
  /\ UNCHANGED <<vehicle, requests, indexed, abandons>>

\* Mutation of ReleaseOrSell: writes the order's status on the vehicle.
OrderStatusOnVehicle(t) ==
  /\ taskPc[t] = "vehicle"
  /\ vehicle' = [vehicle EXCEPT ![wanted[job[t].order]] = job[t].target]
  /\ EndTask(t)
  /\ UNCHANGED <<order, version, requests, indexed, abandons>>

\* Mutation of ReleaseOrSell: the release does not ask for RESERVED.
UnconditionalRelease(t) ==
  /\ taskPc[t] = "vehicle"
  /\ vehicle' = [vehicle EXCEPT ![wanted[job[t].order]] =
                   IF job[t].target = "PAID" THEN "SOLD" ELSE "AVAILABLE"]
  /\ EndTask(t)
  /\ UNCHANGED <<order, version, requests, indexed, abandons>>

\* Mutation of ReleaseOrSell: a cancellation leaves the vehicle alone.
NoRelease(t) ==
  /\ taskPc[t] = "vehicle"
  /\ vehicle' = [vehicle EXCEPT ![wanted[job[t].order]] =
                   IF job[t].target = "PAID" THEN "SOLD" ELSE @]
  /\ EndTask(t)
  /\ UNCHANGED <<order, version, requests, indexed, abandons>>

\* _release_or_sell: a release is conditional on RESERVED, a sale is not.
ReleaseOrSell(t) ==
  /\ taskPc[t] = "vehicle"
  /\ vehicle' = [vehicle EXCEPT ![wanted[job[t].order]] =
                   IF job[t].target = "PAID" THEN "SOLD"
                   ELSE IF @ = "RESERVED" THEN "AVAILABLE" ELSE @]
  /\ EndTask(t)
  /\ UNCHANGED <<order, version, requests, indexed, abandons>>

AbandonTask(t) ==
  /\ taskPc[t] # "idle"
  /\ abandons < MaxAbandons
  /\ abandons' = abandons + 1
  /\ EndTask(t)
  /\ UNCHANGED <<docs, requests, indexed>>

-----------------------------------------------------------------------------
\* ensure_indexes, retried by /readyz until it succeeds: MongoDB refuses to build
\* a unique index over documents that already break it.
BuildIndexes ==
  /\ ~indexed
  /\ \A o, p \in Orders :
       o # p /\ wanted[o] = wanted[p] =>
         order[o] \notin IndexedStatuses \/ order[p] \notin IndexedStatuses
  /\ indexed' = TRUE
  /\ UNCHANGED <<docs, requests, tasks, abandons>>

CreateStep(o) == InsertOrder(o) \/ ReserveVehicle(o) \/ RollBack(o)
TaskStep(t) == SwapStatus(t) \/ ReleaseOrSell(t)

OrdersNext ==
  \/ \E o \in Orders, v \in Vehicles : ReadVehicle(o, v)
  \/ \E o \in Orders : CreateStep(o) \/ AbandonCreate(o)
  \/ \E t \in Tasks, o \in Orders, s \in Targets : ReadOrder(t, o, s)
  \/ \E t \in Tasks : TaskStep(t) \/ AbandonTask(t)
  \/ BuildIndexes

OrdersSpec == OrdersInit /\ [][OrdersNext]_orderVars

\* The event loop runs every started request on, and the orchestrator keeps
\* polling /readyz.  Nobody has to place, pay or cancel an order.
OrdersFairness ==
  /\ \A o \in Orders : WF_orderVars(CreateStep(o))
  /\ \A t \in Tasks : WF_orderVars(TaskStep(t))
  /\ WF_orderVars(BuildIndexes)

FairOrdersSpec == OrdersSpec /\ OrdersFairness

-----------------------------------------------------------------------------
\* Properties

\* Every variable stays in its type.
TypeOK ==
  /\ vehicle \in [Vehicles -> VehicleStatus]
  /\ order \in [Orders -> OrderStatus \union {Absent}]
  /\ version \in [Orders -> Nat]
  /\ wanted \in [Orders -> Vehicles \union {None}]
  /\ creating \in [Orders -> CreatePc]
  /\ taskPc \in [Tasks -> TaskPc]
  /\ job \in [Tasks -> [order : Orders \union {None},
                        target : OrderStatus \union {Absent},
                        status : OrderStatus \union {Absent},
                        version : Nat]]
  /\ indexed \in BOOLEAN
  /\ abandons \in 0 .. MaxAbandons

Active(o) == order[o] \in ActiveStatuses

\* However requests interleave, and whichever of them die half-way, no two
\* active orders hold one vehicle once the index exists: create_order, transition
\* and the index's own list of statuses together.
OneActiveOrder ==
  indexed => \A o, p \in Orders :
               o # p /\ wanted[o] = wanted[p] => ~(Active(o) /\ Active(p))

\* A create_order died with its order inserted and its vehicle not yet reserved, or with
\* the roll-back still to come: the order it leaves can be transitioned like any other.
Orphaned == \E o \in Orders : creating[o] = "abandoned" /\ order[o] # Absent

\* Without the index the conditional reservation alone still picks one winner
\* among the orders whose creation has been confirmed to a customer, whichever
\* other requests die.
OneConfirmedOrder ==
  ~Orphaned =>
    \A o, p \in Orders :
      /\ o # p /\ wanted[o] = wanted[p]
      /\ creating[o] = "done" /\ creating[p] = "done"
      => ~(Active(o) /\ Active(p))

\* A vehicle is bought at most once, refunds included: nothing puts a paid-for
\* vehicle back on the market, not even a transition that dies half-way.
BoughtOnce ==
  ~Orphaned =>
    \A o, p \in Orders :
      o # p /\ wanted[o] = wanted[p] =>
        order[o] \notin BoughtStatuses \/ order[p] \notin BoughtStatuses

\* Some call has moved order o to target s and has still to update the vehicle.
Owes(o, s) ==
  \E t \in Tasks : taskPc[t] = "vehicle" /\ job[t].order = o /\ job[t].target = s

\* The vehicle's status is in step with the order that holds it: a confirmed
\* order that is alive has its vehicle reserved or sold; and as long as nobody dies a
\* reserved vehicle has such an order, or one whose cancellation or sale is about to
\* reach it.
VehicleFollowsOrder ==
  /\ ~Orphaned =>
       \A o \in Orders :
         creating[o] = "done" /\ Active(o) => vehicle[wanted[o]] \in {"RESERVED", "SOLD"}
  /\ abandons = 0 =>
       \A v \in Vehicles :
         vehicle[v] = "RESERVED" =>
           \E o \in Orders : /\ wanted[o] = v /\ creating[o] = "done"
                             /\ \/ order[o] \in {"PENDING", "PAYMENT_PENDING"}
                                \/ Owes(o, "CANCELLED") \/ Owes(o, "PAID")

\* A vehicle once SOLD never returns to the market, even through an abandoned
\* creation, its cancellation and a late release.
SoldIsFinal ==
  [][\A v \in Vehicles : vehicle[v] = "SOLD" => vehicle'[v] = "SOLD"]_orderVars

\* An order confirmed to its customer holds its vehicle until its cancellation has
\* reached the vehicle.
Holds(o, v) ==
  /\ wanted[o] = v
  /\ creating[o] = "done"
  /\ order[o] # "CANCELLED" \/ Owes(o, "CANCELLED")

\* Cancelling an order gives its vehicle back: in the end it is AVAILABLE again, or
\* already with another order.
CancelledVehicleReturns ==
  \A o \in Orders :
    order[o] = "CANCELLED" ~>
      \E v \in Vehicles :
        /\ wanted[o] = v
        /\ vehicle[v] = "AVAILABLE" \/ \E p \in Orders \ {o} : Holds(p, v)

\* A replica that started without its indexes gets them in the end: every
\* duplicate the missing index let in is rolled back by its own request.
IndexesConverge == ~indexed ~> indexed

-----------------------------------------------------------------------------
\* The refinement: which order holds a vehicle, as Marketplace sees it.

MarketStage ==
  [v \in Vehicles |-> CASE vehicle[v] = "RESERVED" -> "held"
                        [] vehicle[v] = "SOLD" -> "sold"
                        [] OTHER -> "free"]

MarketHolder ==
  [v \in Vehicles |-> IF \E o \in Orders : Holds(o, v)
                        THEN CHOOSE o \in Orders : Holds(o, v) ELSE None]

MarketReleased ==
  {o \in Orders : order[o] = "CANCELLED" /\ ~Owes(o, "CANCELLED")}

Market == INSTANCE Marketplace
            WITH stage <- MarketStage, holder <- MarketHolder, released <- MarketReleased

\* The order service implements the marketplace.
ImplementsMarket == Market!MarketSpec
=============================================================================

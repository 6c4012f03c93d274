---------------------------- MODULE OrdersProofs ----------------------------
(***************************************************************************)
(* Theorems about the order service of Orders.tla, for any number of       *)
(* vehicles, orders and concurrent calls.                                  *)
(***************************************************************************)
EXTENDS Orders, TLAPS

\* What the requests under way carry: a request that has not read its vehicle has no
\* document; a transition() call between its read and its compare-and-set asks for a
\* step the state machine allows from the status it read, and one that has still to
\* update the vehicle was for CANCELLED or PAID.
RequestsOK ==
  /\ \A o \in Orders : creating[o] = "idle" => order[o] = Absent
  /\ \A t \in Tasks : taskPc[t] # "idle" => job[t].order \in Orders
  /\ \A t \in Tasks :
       taskPc[t] = "swap" =>
         job[t].status \in OrderStatus /\ job[t].target \in OrderAllowed[job[t].status]
  /\ \A t \in Tasks : taskPc[t] = "vehicle" => job[t].target \in {"CANCELLED", "PAID"}

\* TypeOK and OneActiveOrder made inductive.
IndexInv == TypeOK /\ RequestsOK /\ OneActiveOrder

\* The status table leads to statuses only, and to an active one only from an active one.
LEMMA AllowedFacts ==
  ASSUME NEW s \in OrderStatus, NEW t \in OrderAllowed[s]
  PROVE  /\ t \in OrderStatus
         /\ t \in ActiveStatuses => s \in ActiveStatuses
  BY DEF OrderStatus, OrderAllowed, ActiveStatuses

LEMMA InitIndexInv == OrdersInit => IndexInv
  BY OrdersAssumption DEF OrdersInit, IndexInv, TypeOK, RequestsOK, OneActiveOrder, Active, ActiveStatuses,
     VehicleStatus, CreatePc, TaskPc, NoJob, Absent

-----------------------------------------------------------------------------
\* create_order's steps keep IndexInv.

LEMMA ReadVehicleIndexInv ==
  ASSUME IndexInv, NEW o \in Orders, NEW v \in Vehicles, ReadVehicle(o, v)
  PROVE  IndexInv'
<1> USE DEF IndexInv, ReadVehicle, docs, tasks
<1>1. TypeOK'
  BY DEF TypeOK, CreatePc
<1>2. RequestsOK'
  BY DEF TypeOK, RequestsOK
<1>3. OneActiveOrder'
  BY DEF TypeOK, RequestsOK, OneActiveOrder, Active, ActiveStatuses, Absent
<1> QED BY <1>1, <1>2, <1>3

LEMMA CreateStepIndexInv ==
  ASSUME IndexInv, NEW o \in Orders, CreateStep(o) \/ AbandonCreate(o)
  PROVE  IndexInv'
<1> USE DEF IndexInv, docs, requests, tasks
<1>1. CASE InsertOrder(o)
  <2>1. TypeOK'
    BY <1>1 DEF InsertOrder, TypeOK, CreatePc, OrderStatus
  <2>2. RequestsOK'
    BY <1>1 DEF InsertOrder, TypeOK, RequestsOK
  <2>3. OneActiveOrder'
    BY <1>1 DEF InsertOrder, SlotTaken, TypeOK, OneActiveOrder, Active, ActiveStatuses,
                IndexedStatuses
  <2> QED BY <2>1, <2>2, <2>3
<1>2. CASE ReserveVehicle(o)
  <2>1. TypeOK'
    BY <1>2 DEF ReserveVehicle, TypeOK, CreatePc, VehicleStatus
  <2>2. RequestsOK'
    BY <1>2 DEF ReserveVehicle, TypeOK, RequestsOK
  <2>3. OneActiveOrder'
    BY <1>2 DEF ReserveVehicle, OneActiveOrder, Active
  <2> QED BY <2>1, <2>2, <2>3
<1>3. CASE RollBack(o)
  <2>1. TypeOK'
    BY <1>3 DEF RollBack, TypeOK, CreatePc
  <2>2. RequestsOK'
    BY <1>3 DEF RollBack, TypeOK, RequestsOK
  <2>3. OneActiveOrder'
    BY <1>3 DEF RollBack, TypeOK, OneActiveOrder, Active, ActiveStatuses, Absent
  <2> QED BY <2>1, <2>2, <2>3
<1>4. CASE AbandonCreate(o)
  <2>1. TypeOK'
    BY <1>4, OrdersAssumption DEF AbandonCreate, TypeOK, CreatePc
  <2>2. RequestsOK'
    BY <1>4 DEF AbandonCreate, TypeOK, RequestsOK
  <2>3. OneActiveOrder'
    BY <1>4 DEF AbandonCreate, OneActiveOrder, Active
  <2> QED BY <2>1, <2>2, <2>3
<1> QED BY <1>1, <1>2, <1>3, <1>4 DEF CreateStep

-----------------------------------------------------------------------------
\* transition()'s steps keep IndexInv.

\* A call that ends leaves the tasks in their type ...
LEMMA EndTaskType ==
  ASSUME TypeOK, NEW t \in Tasks, EndTask(t)
  PROVE  /\ taskPc' \in [Tasks -> TaskPc]
         /\ job' \in [Tasks -> [order : Orders \union {None},
                               target : OrderStatus \union {Absent},
                               status : OrderStatus \union {Absent},
                               version : Nat]]
  BY DEF TypeOK, EndTask, TaskPc, NoJob

\* ... and says nothing about any other.
LEMMA EndTaskRequests ==
  ASSUME TypeOK, RequestsOK, NEW t \in Tasks, EndTask(t), UNCHANGED <<order, creating>>
  PROVE  RequestsOK'
  BY DEF TypeOK, RequestsOK, EndTask

LEMMA ReadOrderIndexInv ==
  ASSUME IndexInv, NEW t \in Tasks, NEW o \in Orders, NEW s, ReadOrder(t, o, s)
  PROVE  IndexInv'
<1> USE DEF IndexInv, ReadOrder, Accepts, docs, requests
<1>1. order[o] \in OrderStatus /\ s \in OrderStatus
  BY AllowedFacts DEF TypeOK
<1>2. TypeOK'
  BY <1>1 DEF TypeOK, TaskPc
<1>3. RequestsOK'
  BY <1>1 DEF TypeOK, RequestsOK
<1>4. OneActiveOrder'
  BY DEF OneActiveOrder, Active
<1> QED BY <1>2, <1>3, <1>4

LEMMA SwapStatusIndexInv ==
  ASSUME IndexInv, NEW t \in Tasks, SwapStatus(t)
  PROVE  IndexInv'
<1> USE DEF IndexInv, SwapStatus, docs, requests
<1>1. CASE ~Unchanged(t)
  <2>1. TypeOK' /\ RequestsOK'
    BY <1>1, EndTaskType, EndTaskRequests DEF TypeOK
  <2>2. OneActiveOrder'
    BY <1>1 DEF OneActiveOrder, Active
  <2> QED BY <2>1, <2>2
<1>2. CASE Unchanged(t)
  <2> DEFINE j == job[t]
  <2>1. /\ j.order \in Orders
        /\ order[j.order] \in OrderStatus
        /\ j.target \in OrderAllowed[order[j.order]]
    BY <1>2 DEF Unchanged, RequestsOK, TaskPc
  <2>2. /\ j.target \in OrderStatus
        /\ j.target \in ActiveStatuses => order[j.order] \in ActiveStatuses
    BY <2>1, AllowedFacts
  <2>3. TypeOK'
    <3>1. order' \in [Orders -> OrderStatus \union {Absent}] /\ version' \in [Orders -> Nat]
      BY <1>2, <2>1, <2>2 DEF WriteStatus, TypeOK
    <3>2. /\ taskPc' \in [Tasks -> TaskPc]
          /\ job' \in [Tasks -> [order : Orders \union {None},
                                target : OrderStatus \union {Absent},
                                status : OrderStatus \union {Absent},
                                version : Nat]]
      BY <1>2, EndTaskType DEF WriteStatus, TypeOK, TaskPc
    <3> QED BY <3>1, <3>2 DEF TypeOK
  <2>4. RequestsOK'
    <3>1. /\ \A o \in Orders : o # j.order => order'[o] = order[o]
          /\ order[j.order] # Absent
          /\ UNCHANGED creating
      BY <1>2, <2>1 DEF WriteStatus, TypeOK, OrderStatus, Absent
    <3>2. /\ \A u \in Tasks : u # t => taskPc'[u] = taskPc[u] /\ job'[u] = job[u]
          /\ \/ taskPc'[t] = "idle"
             \/ taskPc'[t] = "vehicle" /\ job'[t] = j /\ j.target \in {"CANCELLED", "PAID"}
      BY <1>2 DEF WriteStatus, EndTask, TypeOK
    <3>3. \A o \in Orders : creating'[o] = "idle" => order'[o] = Absent
      BY <2>1, <3>1 DEF RequestsOK
    <3> QED BY <2>1, <3>2, <3>3 DEF RequestsOK
  <2>5. OneActiveOrder'
    BY <1>2, <2>1, <2>2 DEF WriteStatus, TypeOK, OneActiveOrder, Active
  <2> QED BY <2>3, <2>4, <2>5
<1> QED BY <1>1, <1>2

LEMMA ReleaseOrSellIndexInv ==
  ASSUME IndexInv, NEW t \in Tasks, ReleaseOrSell(t)
  PROVE  IndexInv'
<1> USE DEF IndexInv, ReleaseOrSell, requests
<1>1. TypeOK'
  BY EndTaskType DEF TypeOK, VehicleStatus
<1>2. RequestsOK'
  BY EndTaskRequests
<1>3. OneActiveOrder'
  BY DEF OneActiveOrder, Active
<1> QED BY <1>1, <1>2, <1>3

LEMMA AbandonTaskIndexInv ==
  ASSUME IndexInv, NEW t \in Tasks, AbandonTask(t)
  PROVE  IndexInv'
<1> USE DEF IndexInv, AbandonTask, docs, requests
<1>1. TypeOK'
  BY EndTaskType, OrdersAssumption DEF TypeOK
<1>2. RequestsOK'
  BY EndTaskRequests
<1>3. OneActiveOrder'
  BY DEF OneActiveOrder, Active
<1> QED BY <1>1, <1>2, <1>3

-----------------------------------------------------------------------------
LEMMA BuildIndexesIndexInv ==
  ASSUME IndexInv, BuildIndexes
  PROVE  IndexInv'
<1> USE DEF IndexInv, BuildIndexes, docs, requests, tasks
<1>1. TypeOK'
  BY DEF TypeOK
<1>2. RequestsOK'
  BY DEF RequestsOK
<1>3. OneActiveOrder'
  BY DEF OneActiveOrder, Active, ActiveStatuses, IndexedStatuses
<1> QED BY <1>1, <1>2, <1>3

LEMMA StepIndexInv == IndexInv /\ [OrdersNext]_orderVars => IndexInv'
<1> SUFFICES ASSUME IndexInv, [OrdersNext]_orderVars PROVE IndexInv'
  OBVIOUS
<1>1. CASE \E o \in Orders, v \in Vehicles : ReadVehicle(o, v)
  BY <1>1, ReadVehicleIndexInv
<1>2. CASE \E o \in Orders : CreateStep(o) \/ AbandonCreate(o)
  BY <1>2, CreateStepIndexInv
<1>3. CASE \E t \in Tasks, o \in Orders, s \in Targets : ReadOrder(t, o, s)
  BY <1>3, ReadOrderIndexInv
<1>4. CASE \E t \in Tasks : TaskStep(t) \/ AbandonTask(t)
  BY <1>4, SwapStatusIndexInv, ReleaseOrSellIndexInv, AbandonTaskIndexInv DEF TaskStep
<1>5. CASE BuildIndexes
  BY <1>5, BuildIndexesIndexInv
<1>6. CASE UNCHANGED orderVars
  BY <1>6 DEF orderVars, IndexInv, TypeOK, RequestsOK, OneActiveOrder, Active
<1> QED BY <1>1, <1>2, <1>3, <1>4, <1>5, <1>6 DEF OrdersNext

LEMMA IndexInvHolds == OrdersSpec => []IndexInv
  BY InitIndexInv, StepIndexInv, PTL DEF OrdersSpec

\* Type correctness of the order service.
THEOREM TypeCorrect == OrdersSpec => []TypeOK
<1>1. IndexInv => TypeOK
  BY DEF IndexInv
<1> QED BY <1>1, IndexInvHolds, PTL

\* Once the partial index exists no two active orders share a vehicle, however the
\* create_order and transition() calls interleave and whichever of them die half-way.
THEOREM OneActiveOrderTheorem == OrdersSpec => []OneActiveOrder
<1>1. IndexInv => OneActiveOrder
  BY DEF IndexInv
<1> QED BY <1>1, IndexInvHolds, PTL

\* No call ever takes a vehicle out of SOLD: a reservation is conditional on AVAILABLE
\* and a release on RESERVED.
THEOREM SoldIsFinalTheorem == OrdersSpec => SoldIsFinal
<1> DEFINE Keeps == \A v \in Vehicles : vehicle[v] = "SOLD" => vehicle'[v] = "SOLD"
<1>1. IndexInv /\ [OrdersNext]_orderVars => [Keeps]_orderVars
  <2> SUFFICES ASSUME IndexInv, OrdersNext, NEW v \in Vehicles, vehicle[v] = "SOLD"
               PROVE  vehicle'[v] = "SOLD"
    OBVIOUS
  <2>1. CASE vehicle' = vehicle
    BY <2>1
  <2>2. ASSUME NEW o \in Orders, ReserveVehicle(o)
        PROVE  vehicle'[v] = "SOLD"
    BY <2>2 DEF ReserveVehicle, IndexInv, TypeOK
  <2>3. ASSUME NEW t \in Tasks, ReleaseOrSell(t)
        PROVE  vehicle'[v] = "SOLD"
    BY <2>3 DEF ReleaseOrSell, IndexInv, TypeOK
  <2> QED BY <2>1, <2>2, <2>3
          DEF OrdersNext, ReadVehicle, CreateStep, InsertOrder, RollBack, AbandonCreate,
              ReadOrder, TaskStep, SwapStatus, AbandonTask, BuildIndexes, docs
<1> QED BY <1>1, IndexInvHolds, PTL DEF OrdersSpec, SoldIsFinal

-----------------------------------------------------------------------------
\* Who holds a vehicle, index or no index, as long as no create_order leaves an order
\* behind whose vehicle it did not reserve, and no order is transitioned before its
\* create_order has returned.

\* Between its insert and its reservation a request's document is PENDING and nobody
\* else's business; only confirmed orders have documents otherwise.
CreatingOK ==
  \A o \in Orders :
    /\ creating[o] \in {"insert", "reserve", "rollback", "done"} => wanted[o] \in Vehicles
    /\ creating[o] \in {"reserve", "rollback"} => order[o] = "PENDING"
    /\ order[o] # Absent => creating[o] \in {"reserve", "rollback", "done"}
    /\ creating[o] = "done" => order[o] # Absent

\* Transitions work on confirmed orders.  The update a call owes the vehicle matches
\* the order, and a cancellation is owed by one call only.
OwingOK ==
  /\ \A t \in Tasks : taskPc[t] # "idle" => creating[job[t].order] = "done"
  /\ \A t \in Tasks :
       taskPc[t] = "vehicle" =>
         /\ job[t].target = "CANCELLED" => order[job[t].order] = "CANCELLED"
         /\ job[t].target = "PAID" => order[job[t].order] \in BoughtStatuses
  /\ \A t, u \in Tasks :
       /\ taskPc[t] = "vehicle" /\ job[t].target = "CANCELLED"
       /\ taskPc[u] = "vehicle" /\ job[u].target = "CANCELLED"
       /\ job[t].order = job[u].order
       => t = u

\* A vehicle is held by one order at most, and is off the market while it is.
OneHolder ==
  \A o \in Orders, v \in Vehicles :
    Holds(o, v) =>
      /\ vehicle[v] \in {"RESERVED", "SOLD"}
      /\ \A p \in Orders : Holds(p, v) => p = o

\* A reserved vehicle is about to be bought or released by the order that has it.
ReservedIsOwned ==
  \A v \in Vehicles :
    vehicle[v] = "RESERVED" =>
      \E o \in Orders : /\ wanted[o] = v /\ creating[o] = "done"
                        /\ \/ order[o] \in {"PENDING", "PAYMENT_PENDING"}
                           \/ Owes(o, "CANCELLED") \/ Owes(o, "PAID")

Holding == CreatingOK /\ OwingOK /\ OneHolder
Held == Holding /\ ReservedIsOwned

\* OneConfirmedOrder, BoughtOnce and VehicleFollowsOrder made inductive.
HoldInv == IndexInv /\ (~Orphaned => Holding) /\ (abandons = 0 => ~Orphaned /\ ReservedIsOwned)

\* An order whose status never returns from CANCELLED, nor from having been paid for.
LEMMA AllowedFromBought ==
  ASSUME NEW s \in OrderStatus, NEW t \in OrderAllowed[s]
  PROVE  /\ s # "CANCELLED"
         /\ s \in BoughtStatuses => t \in BoughtStatuses
         /\ t = "PAID" => s = "PAYMENT_PENDING"
         /\ t = "CANCELLED" => s \in {"PENDING", "PAYMENT_PENDING"}
         /\ s \in {"PENDING", "PAYMENT_PENDING"} => t \in {"PAYMENT_PENDING", "PAID", "CANCELLED"}
  BY DEF OrderStatus, OrderAllowed, BoughtStatuses

LEMMA InitHeld == OrdersInit => Held
  BY DEF OrdersInit, Held, Holding, CreatingOK, OwingOK, OneHolder, ReservedIsOwned, Holds, Owes,
     Absent

-----------------------------------------------------------------------------
\* create_order's steps.

LEMMA ReadVehicleHolding ==
  ASSUME IndexInv, Holding, NEW o \in Orders, NEW v \in Vehicles, ReadVehicle(o, v)
  PROVE  Holding' /\ (ReservedIsOwned => ReservedIsOwned')
<1> USE DEF Holding, IndexInv, TypeOK, RequestsOK, ReadVehicle, docs, tasks
<1>1. CreatingOK'
  BY DEF CreatingOK
<1>2. OwingOK'
  BY DEF OwingOK
<1>3. OneHolder'
  BY DEF OneHolder, Holds, Owes
<1>4. ReservedIsOwned => ReservedIsOwned'
  BY DEF ReservedIsOwned, Owes
<1> QED BY <1>1, <1>2, <1>3, <1>4

LEMMA InsertOrderHolding ==
  ASSUME IndexInv, Holding, NEW o \in Orders, InsertOrder(o)
  PROVE  Holding' /\ (ReservedIsOwned => ReservedIsOwned')
<1> USE DEF Holding, IndexInv, TypeOK, RequestsOK, InsertOrder, tasks
<1>1. CreatingOK'
  BY DEF CreatingOK, Absent
<1>2. OwingOK'
  BY DEF CreatingOK, OwingOK
<1>3. OneHolder'
  BY DEF OneHolder, Holds, Owes
<1>4. ReservedIsOwned => ReservedIsOwned'
  BY DEF ReservedIsOwned, Owes
<1> QED BY <1>1, <1>2, <1>3, <1>4

\* Nobody holds an AVAILABLE vehicle, so the reservation makes its order the only holder.
LEMMA ReserveVehicleHolding ==
  ASSUME IndexInv, Holding, NEW o \in Orders, ReserveVehicle(o)
  PROVE  Holding' /\ (ReservedIsOwned => ReservedIsOwned')
<1> USE DEF Holding, IndexInv, TypeOK, RequestsOK, ReserveVehicle, tasks
<1>1. CreatingOK'
  BY DEF CreatingOK, Absent
<1>2. OwingOK'
  BY DEF OwingOK
<1>3. OneHolder'
  BY DEF CreatingOK, OneHolder, Holds, Owes
<1>4. ReservedIsOwned => ReservedIsOwned'
  BY DEF CreatingOK, ReservedIsOwned, Owes
<1> QED BY <1>1, <1>2, <1>3, <1>4

LEMMA RollBackHolding ==
  ASSUME IndexInv, Holding, NEW o \in Orders, RollBack(o)
  PROVE  Holding' /\ (ReservedIsOwned => ReservedIsOwned')
<1> USE DEF Holding, IndexInv, TypeOK, RequestsOK, RollBack, tasks
<1>1. CreatingOK'
  BY DEF CreatingOK
<1>2. OwingOK'
  BY DEF OwingOK
<1>3. OneHolder'
  BY DEF OneHolder, Holds, Owes
<1>4. ReservedIsOwned => ReservedIsOwned'
  BY DEF ReservedIsOwned, Owes
<1> QED BY <1>1, <1>2, <1>3, <1>4

-----------------------------------------------------------------------------
\* transition()'s steps.

LEMMA ReadOrderHolding ==
  ASSUME EarlyAccess = FALSE, IndexInv, Holding,
         NEW t \in Tasks, NEW o \in Orders, NEW s, ReadOrder(t, o, s)
  PROVE  Holding' /\ (ReservedIsOwned => ReservedIsOwned')
<1> USE DEF Holding, IndexInv, TypeOK, RequestsOK, ReadOrder, docs, requests
<1>0. creating[o] = "done"
  BY DEF CreatingOK, Known, Accepts
<1>1. CreatingOK'
  BY DEF CreatingOK
<1>2. OwingOK'
  BY <1>0 DEF OwingOK
<1>3. OneHolder'
  BY DEF OneHolder, Holds, Owes
<1>4. ReservedIsOwned => ReservedIsOwned'
  BY DEF ReservedIsOwned, Owes
<1> QED BY <1>1, <1>2, <1>3, <1>4

LEMMA LostSwapHolding ==
  ASSUME IndexInv, Holding, NEW t \in Tasks, taskPc[t] = "swap", EndTask(t),
         UNCHANGED <<docs, requests>>
  PROVE  Holding' /\ (ReservedIsOwned => ReservedIsOwned')
<1> USE DEF Holding, IndexInv, TypeOK, EndTask, docs, requests
<1>1. CreatingOK'
  BY DEF CreatingOK
<1>2. OwingOK'
  BY DEF OwingOK
<1>3. OneHolder'
  BY DEF OneHolder, Holds, Owes
<1>4. ReservedIsOwned => ReservedIsOwned'
  BY DEF ReservedIsOwned, Owes
<1> QED BY <1>1, <1>2, <1>3, <1>4

\* A move to CANCELLED or PAID leaves the vehicle owed an update, so its order goes on
\* holding it; any other move is one between statuses that hold it anyway.
LEMMA WonSwapHolding ==
  ASSUME IndexInv, Holding, NEW t \in Tasks, taskPc[t] = "swap", Unchanged(t), WriteStatus(t),
         UNCHANGED <<vehicle, requests>>
  PROVE  Holding' /\ (ReservedIsOwned => ReservedIsOwned')
<1> DEFINE q == job[t].order
           target == job[t].target
<1> USE DEF Holding, requests
<1>1. /\ q \in Orders
      /\ creating[q] = "done"
      /\ order[q] \in OrderStatus /\ target \in OrderAllowed[order[q]]
  BY DEF IndexInv, RequestsOK, OwingOK, Unchanged
<1>2. /\ target \in OrderStatus /\ order[q] # "CANCELLED"
      /\ order[q] \in BoughtStatuses => target \in BoughtStatuses
      /\ target = "PAID" => order[q] = "PAYMENT_PENDING"
      /\ target = "CANCELLED" => order[q] \in {"PENDING", "PAYMENT_PENDING"}
      /\ order[q] \in {"PENDING", "PAYMENT_PENDING"} =>
           target \in {"PAYMENT_PENDING", "PAID", "CANCELLED"}
  BY <1>1, AllowedFacts, AllowedFromBought
<1>3. /\ \A o \in Orders : order'[o] = IF o = q THEN target ELSE order[o]
      /\ \A u \in Tasks : u # t => taskPc'[u] = taskPc[u] /\ job'[u] = job[u]
      /\ IF target \in {"CANCELLED", "PAID"}
           THEN taskPc'[t] = "vehicle" /\ job'[t] = job[t]
           ELSE taskPc'[t] = "idle"
  BY <1>1 DEF IndexInv, TypeOK, WriteStatus, EndTask
<1>4. CreatingOK'
  BY <1>1, <1>2, <1>3 DEF CreatingOK, OrderStatus, Absent
<1>5. OwingOK'
  <2>1. \A u \in Tasks : taskPc'[u] # "idle" => creating[job'[u].order] = "done"
    BY <1>1, <1>3 DEF OwingOK
  <2>2. \A u \in Tasks :
          taskPc'[u] = "vehicle" =>
            /\ job'[u].target = "CANCELLED" => order'[job'[u].order] = "CANCELLED"
            /\ job'[u].target = "PAID" => order'[job'[u].order] \in BoughtStatuses
    <3> SUFFICES ASSUME NEW u \in Tasks, taskPc'[u] = "vehicle"
                 PROVE  /\ job'[u].target = "CANCELLED" => order'[job'[u].order] = "CANCELLED"
                        /\ job'[u].target = "PAID" => order'[job'[u].order] \in BoughtStatuses
      OBVIOUS
    <3>1. CASE u = t
      BY <3>1, <1>1, <1>3 DEF BoughtStatuses
    <3>2. CASE u # t
      <4>1. taskPc[u] = "vehicle" /\ job'[u] = job[u] /\ job[u].order \in Orders
        BY <3>2, <1>3 DEF IndexInv, RequestsOK
      <4> QED BY <4>1, <1>2, <1>3 DEF OwingOK
    <3> QED BY <3>1, <3>2
  <2>3. \A u, w \in Tasks :
          /\ taskPc'[u] = "vehicle" /\ job'[u].target = "CANCELLED"
          /\ taskPc'[w] = "vehicle" /\ job'[w].target = "CANCELLED"
          /\ job'[u].order = job'[w].order
          => u = w
    BY <1>2, <1>3 DEF OwingOK
  <2> QED BY <2>1, <2>2, <2>3 DEF OwingOK
<1>6. \A o \in Orders, s \in {"CANCELLED", "PAID"} :
        Owes(o, s)' <=> Owes(o, s) \/ (o = q /\ target = s)
  BY <1>3 DEF Owes
<1>7. \A o \in Orders, v \in Vehicles : Holds(o, v)' <=> Holds(o, v)
  BY <1>1, <1>2, <1>3, <1>6 DEF Holds
<1>8. OneHolder'
  BY <1>7 DEF OneHolder
<1>9. ReservedIsOwned => ReservedIsOwned'
  BY <1>2, <1>3, <1>6 DEF ReservedIsOwned
<1> QED BY <1>4, <1>5, <1>8, <1>9

\* A release is by the only call that owes it, of a vehicle only its order holds.
LEMMA ReleaseOrSellHolding ==
  ASSUME IndexInv, Holding, NEW t \in Tasks, ReleaseOrSell(t)
  PROVE  Holding' /\ (ReservedIsOwned => ReservedIsOwned')
<1> DEFINE q == job[t].order
           car == wanted[q]
           target == job[t].target
<1> USE DEF Holding
<1>1. /\ q \in Orders /\ car \in Vehicles
      /\ creating[q] = "done"
      /\ target \in {"CANCELLED", "PAID"}
      /\ target = "CANCELLED" => order[q] = "CANCELLED"
      /\ target = "PAID" => order[q] \in BoughtStatuses
  BY DEF ReleaseOrSell, IndexInv, RequestsOK, OwingOK, CreatingOK
<1>2. /\ UNCHANGED <<order, wanted, creating>>
      /\ \A u \in Tasks : u # t => taskPc'[u] = taskPc[u] /\ job'[u] = job[u]
      /\ taskPc'[t] = "idle"
      /\ \A v \in Vehicles : v # car => vehicle'[v] = vehicle[v]
      /\ vehicle'[car] = IF target = "PAID" THEN "SOLD"
                         ELSE IF vehicle[car] = "RESERVED" THEN "AVAILABLE" ELSE vehicle[car]
  BY <1>1 DEF ReleaseOrSell, IndexInv, TypeOK, EndTask, requests
<1>3. Holds(q, car)
  BY <1>1 DEF Holds, Owes, ReleaseOrSell, BoughtStatuses
<1>4. \A o \in Orders, s \in {"CANCELLED", "PAID"} : o # q => (Owes(o, s)' <=> Owes(o, s))
  BY <1>2 DEF Owes
<1>5. \A o \in Orders : o = q /\ target = "CANCELLED" => ~Owes(o, "CANCELLED")'
  BY <1>2 DEF OwingOK, Owes, ReleaseOrSell
<1>6. \A o \in Orders, s \in {"CANCELLED", "PAID"} : Owes(o, s)' => Owes(o, s)
  BY <1>2 DEF Owes
<1>7. CreatingOK'
  BY <1>2 DEF CreatingOK
<1>8. OwingOK'
  BY <1>2 DEF OwingOK
<1>9. OneHolder'
  <2>1. \A o \in Orders, v \in Vehicles : Holds(o, v)' => Holds(o, v)
    BY <1>2, <1>6 DEF Holds
  <2>2. \A v \in Vehicles, o \in Orders : Holds(o, v)' => vehicle'[v] \in {"RESERVED", "SOLD"}
    <3> SUFFICES ASSUME NEW o \in Orders, NEW v \in Vehicles, Holds(o, v)'
                 PROVE  vehicle'[v] \in {"RESERVED", "SOLD"}
      OBVIOUS
    <3>1. Holds(o, v)
      BY <2>1
    <3>2. CASE v # car
      BY <3>1, <3>2, <1>2 DEF OneHolder
    <3>3. CASE v = car
      <4>1. o = q
        BY <3>1, <3>3, <1>1, <1>3 DEF OneHolder
      <4>2. target = "PAID"
        BY <4>1, <1>1, <1>2, <1>5 DEF Holds
      <4> QED BY <4>2, <3>3, <1>2
    <3> QED BY <3>2, <3>3
  <2> QED BY <2>1, <2>2 DEF OneHolder
<1>10. ReservedIsOwned => ReservedIsOwned'
  <2> SUFFICES ASSUME ReservedIsOwned, NEW v \in Vehicles, vehicle'[v] = "RESERVED"
               PROVE  \E o \in Orders :
                        /\ wanted'[o] = v /\ creating'[o] = "done"
                        /\ \/ order'[o] \in {"PENDING", "PAYMENT_PENDING"}
                           \/ Owes(o, "CANCELLED")' \/ Owes(o, "PAID")'
    BY DEF ReservedIsOwned
  <2>1. v # car /\ vehicle[v] = "RESERVED"
    BY <1>2
  <2>2. PICK o \in Orders :
          /\ wanted[o] = v /\ creating[o] = "done"
          /\ \/ order[o] \in {"PENDING", "PAYMENT_PENDING"}
             \/ Owes(o, "CANCELLED") \/ Owes(o, "PAID")
    BY <2>1 DEF ReservedIsOwned
  <2>3. o # q
    BY <2>1, <2>2
  <2> QED BY <2>2, <2>3, <1>2, <1>4
<1> QED BY <1>7, <1>8, <1>9, <1>10

-----------------------------------------------------------------------------
\* A call of transition() that dies owes the vehicle no more.
LEMMA AbandonTaskHolding ==
  ASSUME IndexInv, Holding, NEW t \in Tasks, AbandonTask(t)
  PROVE  Holding'
<1> USE DEF Holding, IndexInv, TypeOK, AbandonTask, EndTask, docs, requests
<1>1. CreatingOK'
  BY DEF CreatingOK
<1>2. OwingOK'
  BY DEF OwingOK
<1>3. OneHolder'
  BY DEF OneHolder, Holds, Owes
<1> QED BY <1>1, <1>2, <1>3

\* A create_order that dies without leaving an order behind had inserted none.
LEMMA AbandonCreateHolding ==
  ASSUME IndexInv, Holding, NEW o \in Orders, AbandonCreate(o), ~Orphaned'
  PROVE  Holding'
<1> USE DEF Holding, IndexInv, TypeOK, AbandonCreate, docs, tasks
<1>1. order[o] = Absent
  BY DEF Orphaned
<1>2. CreatingOK'
  BY <1>1 DEF CreatingOK
<1>3. OwingOK'
  BY <1>1 DEF OwingOK, CreatingOK
<1>4. OneHolder'
  BY DEF OneHolder, Holds, Owes
<1> QED BY <1>2, <1>3, <1>4

LEMMA StepHolding ==
  ASSUME EarlyAccess = FALSE, IndexInv, Holding, [OrdersNext]_orderVars, ~Orphaned'
  PROVE  /\ Holding'
         /\ abandons' = abandons /\ ReservedIsOwned => ReservedIsOwned'
<1>1. CASE \E o \in Orders, v \in Vehicles : ReadVehicle(o, v)
  BY <1>1, ReadVehicleHolding
<1>2. CASE \E o \in Orders : CreateStep(o)
  BY <1>2, InsertOrderHolding, ReserveVehicleHolding, RollBackHolding DEF CreateStep
<1>3. CASE \E t \in Tasks, o \in Orders, s \in Targets : ReadOrder(t, o, s)
  BY <1>3, ReadOrderHolding
<1>4. CASE \E t \in Tasks : SwapStatus(t)
  BY <1>4, LostSwapHolding, WonSwapHolding DEF SwapStatus, docs
<1>5. CASE \E t \in Tasks : ReleaseOrSell(t)
  BY <1>5, ReleaseOrSellHolding
<1>6. CASE (\E o \in Orders : AbandonCreate(o)) \/ (\E t \in Tasks : AbandonTask(t))
  <2>1. abandons' # abandons
    BY <1>6 DEF AbandonCreate, AbandonTask, IndexInv, TypeOK
  <2>2. Holding'
    BY <1>6, AbandonCreateHolding, AbandonTaskHolding
  <2> QED BY <2>1, <2>2
<1>7. CASE UNCHANGED <<docs, requests, tasks>>
  BY <1>7 DEF docs, requests, tasks, Holding, CreatingOK, OwingOK, OneHolder, ReservedIsOwned,
              Holds, Owes
<1> QED BY <1>1, <1>2, <1>3, <1>4, <1>5, <1>6, <1>7
        DEF OrdersNext, TaskStep, BuildIndexes, orderVars, docs, requests, tasks

\* An order left behind stays, and leaving one is a death.
LEMMA OrphansStay ==
  ASSUME IndexInv, [OrdersNext]_orderVars
  PROVE  /\ Orphaned => Orphaned'
         /\ ~Orphaned /\ Orphaned' => abandons' # 0
         /\ abandons' = 0 => abandons = 0 /\ abandons' = abandons
<1>1. abandons \in 0..MaxAbandons /\ MaxAbandons \in Nat
  BY OrdersAssumption DEF IndexInv, TypeOK
<1>2. \A o \in Orders : creating[o] = "abandoned" => creating'[o] = "abandoned"
  BY DEF IndexInv, TypeOK, OrdersNext, orderVars, ReadVehicle, CreateStep, InsertOrder,
         ReserveVehicle, RollBack, AbandonCreate, ReadOrder, TaskStep, SwapStatus,
         ReleaseOrSell, AbandonTask, BuildIndexes, requests
<1>3. \A o \in Orders : creating[o] = "abandoned" /\ order[o] # Absent => order'[o] # Absent
  BY AllowedFacts
     DEF IndexInv, TypeOK, RequestsOK, OrdersNext, orderVars, ReadVehicle, CreateStep,
         InsertOrder, ReserveVehicle, RollBack, AbandonCreate, ReadOrder, TaskStep,
         SwapStatus, Unchanged, WriteStatus, ReleaseOrSell, AbandonTask, BuildIndexes, docs,
         OrderStatus, Absent
<1>4. ASSUME ~Orphaned, Orphaned' PROVE abandons' # 0
  <2>1. PICK o \in Orders : creating'[o] = "abandoned" /\ order'[o] # Absent
    BY <1>4 DEF Orphaned
  <2>2. CASE creating[o] # "abandoned"
    <3>1. \E p \in Orders : AbandonCreate(p)
      BY <2>1, <2>2
         DEF IndexInv, TypeOK, OrdersNext, orderVars, ReadVehicle, CreateStep, InsertOrder,
             ReserveVehicle, RollBack, ReadOrder, TaskStep, SwapStatus, ReleaseOrSell,
             AbandonTask, BuildIndexes, requests
    <3> QED BY <1>1, <3>1 DEF AbandonCreate
  <2>3. CASE creating[o] = "abandoned"
    <3>1. order[o] = Absent
      BY <1>4, <2>3 DEF Orphaned
    <3>2. order'[o] = order[o]
      BY <2>3, <3>1
         DEF IndexInv, TypeOK, RequestsOK, OrdersNext, orderVars, ReadVehicle, CreateStep,
             InsertOrder, ReserveVehicle, RollBack, AbandonCreate, ReadOrder, TaskStep,
             SwapStatus, Unchanged, WriteStatus, ReleaseOrSell, AbandonTask, BuildIndexes,
             docs, OrderStatus, Absent
    <3> QED BY <2>1, <3>1, <3>2
  <2> QED BY <2>2, <2>3
<1>5. abandons' = 0 => abandons = 0 /\ abandons' = abandons
  BY <1>1
     DEF OrdersNext, orderVars, ReadVehicle, CreateStep, InsertOrder, ReserveVehicle,
         RollBack, AbandonCreate, ReadOrder, TaskStep, SwapStatus, ReleaseOrSell,
         AbandonTask, BuildIndexes
<1> QED BY <1>2, <1>3, <1>4, <1>5 DEF Orphaned

\* While nobody dies, both: every vehicle off the market has its holder.
LEMMA StepHeld ==
  ASSUME EarlyAccess = FALSE, IndexInv, Held, [OrdersNext]_orderVars, abandons' = 0
  PROVE  Held'
<1>1. ~Orphaned
  BY DEF Held, Holding, CreatingOK, Orphaned
<1> QED BY <1>1, OrphansStay, StepHolding DEF Held

LEMMA HoldInvHolds == EarlyAccess = FALSE => (OrdersSpec => []HoldInv)
<1> SUFFICES ASSUME EarlyAccess = FALSE PROVE OrdersSpec => []HoldInv
  OBVIOUS
<1>1. OrdersInit => HoldInv
  BY InitIndexInv, InitHeld DEF HoldInv, Held, OrdersInit, Orphaned
<1>2. HoldInv /\ [OrdersNext]_orderVars => HoldInv'
  BY StepIndexInv, StepHolding, OrphansStay DEF HoldInv
<1> QED BY <1>1, <1>2, PTL DEF OrdersSpec

\* A confirmed order that is alive has its vehicle, whichever transitions die, and a
\* reserved vehicle has its order, for any number of requests.
THEOREM VehicleFollowsOrderTheorem ==
  EarlyAccess = FALSE => (OrdersSpec => []VehicleFollowsOrder)
<1>1. HoldInv => VehicleFollowsOrder
  BY DEF HoldInv, Holding, CreatingOK, OneHolder, ReservedIsOwned, VehicleFollowsOrder, Holds,
         Active, ActiveStatuses
<1> QED BY <1>1, HoldInvHolds, PTL

\* The conditional reservation alone, without the index, lets one confirmed order per
\* vehicle be active, whichever transitions die.
THEOREM OneConfirmedOrderTheorem ==
  EarlyAccess = FALSE => (OrdersSpec => []OneConfirmedOrder)
<1>1. HoldInv => OneConfirmedOrder
  BY DEF HoldInv, Holding, CreatingOK, OneHolder, OneConfirmedOrder, Holds, Active,
         ActiveStatuses
<1> QED BY <1>1, HoldInvHolds, PTL

\* A vehicle is bought at most once, with or without the index, whichever transitions die.
THEOREM BoughtOnceTheorem == EarlyAccess = FALSE => (OrdersSpec => []BoughtOnce)
<1>1. HoldInv => BoughtOnce
  BY DEF HoldInv, Holding, CreatingOK, OneHolder, BoughtOnce, Holds, BoughtStatuses, Absent
<1> QED BY <1>1, HoldInvHolds, PTL

-----------------------------------------------------------------------------
\* Under the same conditions the order service implements Marketplace.tla.

\* A sold vehicle is held by an order that was paid for.
SoldIsOwned ==
  \A v \in Vehicles :
    vehicle[v] = "SOLD" => \E o \in Orders : Holds(o, v) /\ order[o] \in BoughtStatuses

\* The invariant under which every step is one of the marketplace, or none: who holds
\* what is settled, and what is sold is held by an order that was paid for.
MarketInv == IndexInv /\ abandons = 0 /\ Held /\ SoldIsOwned

\* MarketHolder, with the choice made: the order that holds the vehicle, or None.
HolderChosen ==
  /\ MarketHolder = [v \in Vehicles |-> MarketHolder[v]]
  /\ \A v \in Vehicles :
       /\ \A o \in Orders : Holds(o, v) => MarketHolder[v] = o
       /\ (\A o \in Orders : ~Holds(o, v)) => MarketHolder[v] = None

LEMMA OneHolderIsChosen == OneHolder => HolderChosen
<1> SUFFICES ASSUME OneHolder PROVE HolderChosen
  OBVIOUS
<1>1. ASSUME NEW o \in Orders, NEW v \in Vehicles, Holds(o, v)
      PROVE  MarketHolder[v] = o
  <2>1. /\ (CHOOSE p \in Orders : Holds(p, v)) \in Orders
        /\ Holds(CHOOSE p \in Orders : Holds(p, v), v)
    BY <1>1
  <2> QED BY <1>1, <2>1 DEF MarketHolder, OneHolder
<1>2. ASSUME NEW v \in Vehicles, \A o \in Orders : ~Holds(o, v)
      PROVE  MarketHolder[v] = None
  BY <1>2 DEF MarketHolder
<1>3. MarketHolder = [v \in Vehicles |-> MarketHolder[v]]
  BY DEF MarketHolder
<1> QED BY <1>1, <1>2, <1>3 DEF HolderChosen

LEMMA HolderChosenTwice == Held /\ Held' => HolderChosen /\ HolderChosen'
<1>1. Held => HolderChosen
  BY OneHolderIsChosen DEF Held, Holding
<1> QED BY <1>1, PTL

\* A step that changes no vehicle, no holder and nothing about who gave up is none of
\* the marketplace's.
LEMMA MarketStutters ==
  ASSUME Held, Held', vehicle' = vehicle,
         \A o \in Orders, v \in Vehicles : Holds(o, v)' <=> Holds(o, v),
         MarketReleased' = MarketReleased
  PROVE  UNCHANGED Market!marketVars
<1>1. MarketStage' = MarketStage
  BY DEF MarketStage
<1>2. MarketHolder' = MarketHolder
  <2>1. \A v \in Vehicles : MarketHolder'[v] = MarketHolder[v]
    BY HolderChosenTwice DEF HolderChosen
  <2> QED BY <2>1, HolderChosenTwice DEF HolderChosen
<1> QED BY <1>1, <1>2 DEF Market!marketVars

\* Nothing the marketplace knows of changes.
Quiet ==
  /\ vehicle' = vehicle
  /\ \A o \in Orders, v \in Vehicles : Holds(o, v)' <=> Holds(o, v)
  /\ \A o \in Orders : order[o] \in BoughtStatuses => order'[o] \in BoughtStatuses
  /\ MarketReleased' = MarketReleased

LEMMA QuietStep ==
  ASSUME MarketInv, Held', Quiet
  PROVE  SoldIsOwned' /\ UNCHANGED Market!marketVars
<1>1. SoldIsOwned'
  BY DEF MarketInv, SoldIsOwned, Quiet
<1> QED BY <1>1, MarketStutters DEF MarketInv, Quiet

LEMMA CreateIsQuiet ==
  ASSUME MarketInv, NEW o \in Orders,
         \/ \E v \in Vehicles : ReadVehicle(o, v)
         \/ InsertOrder(o) \/ RollBack(o)
         \/ ReserveVehicle(o) /\ vehicle[wanted[o]] # "AVAILABLE"
  PROVE  Quiet
<1> USE DEF MarketInv, IndexInv, TypeOK, RequestsOK, Held, Holding, CreatingOK
<1>1. /\ UNCHANGED <<vehicle, taskPc, job>>
      /\ \A p \in Orders : p # o => /\ creating'[p] = creating[p] /\ order'[p] = order[p]
                                   /\ wanted'[p] = wanted[p]
      /\ creating[o] # "done" /\ creating'[o] # "done"
      /\ order[o] \in {Absent, "PENDING"} /\ order'[o] \in {Absent, "PENDING"}
  BY DEF ReadVehicle, InsertOrder, RollBack, ReserveVehicle, docs, tasks, Absent
<1>2. \A p \in Orders, s \in {"CANCELLED"} : Owes(p, s)' <=> Owes(p, s)
  BY <1>1 DEF Owes
<1>3. \A p \in Orders, v \in Vehicles : Holds(p, v)' <=> Holds(p, v)
  BY <1>1, <1>2 DEF Holds
<1>4. MarketReleased' = MarketReleased
  BY <1>1, <1>2 DEF MarketReleased, Absent
<1> QED BY <1>1, <1>3, <1>4 DEF Quiet, BoughtStatuses, Absent

LEMMA CallIsQuiet ==
  ASSUME MarketInv, NEW t \in Tasks,
         \/ \E o \in Orders, s \in Targets : ReadOrder(t, o, s)
         \/ SwapStatus(t) /\ ~Unchanged(t)
  PROVE  Quiet
<1> USE DEF MarketInv, IndexInv, TypeOK
<1>1. /\ UNCHANGED <<vehicle, order, wanted, creating>>
      /\ \A u \in Tasks : u # t => taskPc'[u] = taskPc[u] /\ job'[u] = job[u]
      /\ taskPc[t] # "vehicle" /\ taskPc'[t] # "vehicle"
  BY DEF ReadOrder, SwapStatus, EndTask, docs, requests
<1>2. \A p \in Orders, s \in {"CANCELLED"} : Owes(p, s)' <=> Owes(p, s)
  BY <1>1 DEF Owes
<1>3. \A p \in Orders, v \in Vehicles : Holds(p, v)' <=> Holds(p, v)
  BY <1>1, <1>2 DEF Holds
<1>4. MarketReleased' = MarketReleased
  BY <1>1, <1>2 DEF MarketReleased
<1> QED BY <1>1, <1>3, <1>4 DEF Quiet

\* A won compare-and-set: whoever moves an order to CANCELLED owes the vehicle its update.
LEMMA WonSwapIsQuiet ==
  ASSUME MarketInv, NEW t \in Tasks, SwapStatus(t), Unchanged(t)
  PROVE  Quiet
<1> DEFINE q == job[t].order
           target == job[t].target
<1>1. /\ q \in Orders
      /\ creating[q] = "done"
      /\ order[q] \in OrderStatus /\ target \in OrderAllowed[order[q]]
  BY DEF SwapStatus, MarketInv, Held, Holding, IndexInv, RequestsOK, OwingOK, Unchanged
<1>2. /\ order[q] # "CANCELLED"
      /\ order[q] \in BoughtStatuses => target \in BoughtStatuses
  BY <1>1, AllowedFromBought
<1>3. /\ \A o \in Orders : order'[o] = IF o = q THEN target ELSE order[o]
      /\ UNCHANGED <<vehicle, wanted, creating>>
      /\ \A u \in Tasks : u # t => taskPc'[u] = taskPc[u] /\ job'[u] = job[u]
      /\ taskPc[t] # "vehicle"
      /\ IF target \in {"CANCELLED", "PAID"}
           THEN taskPc'[t] = "vehicle" /\ job'[t] = job[t]
           ELSE taskPc'[t] = "idle"
  BY <1>1 DEF SwapStatus, MarketInv, IndexInv, TypeOK, WriteStatus, EndTask, requests
<1>4. \A o \in Orders, s \in {"CANCELLED"} :
        Owes(o, s)' <=> Owes(o, s) \/ (o = q /\ target = s)
  BY <1>3 DEF Owes
<1>5. \A o \in Orders, v \in Vehicles : Holds(o, v)' <=> Holds(o, v)
  BY <1>1, <1>2, <1>3, <1>4 DEF Holds
<1>6. MarketReleased' = MarketReleased
  BY <1>1, <1>2, <1>3, <1>4 DEF MarketReleased
<1> QED BY <1>2, <1>3, <1>5, <1>6 DEF Quiet

LEMMA ReservationClaims ==
  ASSUME MarketInv, Held', NEW o \in Orders, ReserveVehicle(o),
         vehicle[wanted[o]] = "AVAILABLE"
  PROVE  SoldIsOwned' /\ Market!Claim(wanted[o], o)
<1> DEFINE car == wanted[o]
<1>1. /\ car \in Vehicles /\ creating[o] = "reserve" /\ order[o] = "PENDING"
      /\ UNCHANGED <<order, wanted, taskPc, job>>
      /\ \A p \in Orders : creating'[p] = IF p = o THEN "done" ELSE creating[p]
      /\ \A v \in Vehicles : vehicle'[v] = IF v = car THEN "RESERVED" ELSE vehicle[v]
  BY DEF MarketInv, IndexInv, TypeOK, Held, Holding, CreatingOK, ReserveVehicle, tasks
<1>2. \A p \in Orders, s \in {"CANCELLED"} : Owes(p, s)' <=> Owes(p, s)
  BY <1>1 DEF Owes
<1>3. \A p \in Orders, v \in Vehicles : Holds(p, v)' <=> Holds(p, v) \/ (p = o /\ v = car)
  BY <1>1, <1>2 DEF Holds
<1>4. \A p \in Orders : ~Holds(p, car)
  BY <1>1 DEF MarketInv, Held, Holding, OneHolder
<1>5. \A v \in Vehicles : ~Holds(o, v)
  BY <1>1 DEF Holds
<1>6. MarketReleased' = MarketReleased /\ o \notin MarketReleased
  BY <1>1, <1>2 DEF MarketReleased
<1>7. \A v \in Vehicles : MarketHolder[v] # o
  BY <1>5, HolderChosenTwice, OrdersAssumption DEF MarketInv, HolderChosen
<1>8. SoldIsOwned'
  BY <1>1, <1>3 DEF MarketInv, SoldIsOwned
<1>9. MarketStage[car] = "free" /\ MarketStage' = [MarketStage EXCEPT ![car] = "held"]
  BY <1>1 DEF MarketStage
<1>10. MarketHolder' = [MarketHolder EXCEPT ![car] = o]
  <2>1. \A v \in Vehicles : MarketHolder'[v] = IF v = car THEN o ELSE MarketHolder[v]
    BY <1>1, <1>3, HolderChosenTwice DEF MarketInv, HolderChosen
  <2> QED BY <2>1, HolderChosenTwice DEF MarketInv, HolderChosen
<1> QED BY <1>1, <1>6, <1>7, <1>8, <1>9, <1>10 DEF Market!Claim, Market!Fresh

LEMMA ReleaseReleases ==
  ASSUME MarketInv, Held', NEW t \in Tasks, ReleaseOrSell(t), job[t].target = "CANCELLED"
  PROVE  SoldIsOwned' /\ Market!Release(wanted[job[t].order])
<1> DEFINE q == job[t].order
           car == wanted[q]
<1>1. /\ q \in Orders /\ car \in Vehicles
      /\ creating[q] = "done" /\ order[q] = "CANCELLED" /\ taskPc[t] = "vehicle"
  BY DEF ReleaseOrSell, MarketInv, Held, Holding, IndexInv, RequestsOK, OwingOK, CreatingOK
<1>2. Holds(q, car) /\ Owes(q, "CANCELLED")
  BY <1>1 DEF Holds, Owes
<1>3. vehicle[car] = "RESERVED"
  <2>1. vehicle[car] # "SOLD"
    BY <1>1, <1>2 DEF MarketInv, SoldIsOwned, Held, Holding, OneHolder, BoughtStatuses
  <2> QED BY <1>1, <1>2, <2>1 DEF MarketInv, Held, Holding, OneHolder
<1>4. /\ UNCHANGED <<order, wanted, creating>>
      /\ \A u \in Tasks : u # t => taskPc'[u] = taskPc[u] /\ job'[u] = job[u]
      /\ taskPc'[t] = "idle"
      /\ \A v \in Vehicles : vehicle'[v] = IF v = car THEN "AVAILABLE" ELSE vehicle[v]
  BY <1>1, <1>3 DEF ReleaseOrSell, MarketInv, IndexInv, TypeOK, EndTask, requests
<1>5. \A o \in Orders, s \in {"CANCELLED"} : Owes(o, s)' <=> Owes(o, s) /\ o # q
  BY <1>1, <1>4 DEF Owes, MarketInv, Held, Holding, OwingOK
<1>6. \A o \in Orders, v \in Vehicles : Holds(o, v)' <=> Holds(o, v) /\ o # q
  BY <1>1, <1>4, <1>5 DEF Holds
<1>7. \A o \in Orders : Holds(o, car) => o = q
  BY <1>1, <1>2 DEF MarketInv, Held, Holding, OneHolder
<1>8. \A v \in Vehicles : Holds(q, v) => v = car
  BY DEF Holds
<1>9. MarketReleased' = MarketReleased \union {q}
  BY <1>1, <1>4, <1>5 DEF MarketReleased
<1>10. SoldIsOwned'
  BY <1>1, <1>4, <1>6 DEF MarketInv, SoldIsOwned, BoughtStatuses
<1>11. MarketStage[car] = "held" /\ MarketStage' = [MarketStage EXCEPT ![car] = "free"]
  BY <1>1, <1>3, <1>4 DEF MarketStage
<1>12. MarketHolder[car] = q
  BY <1>1, <1>2, HolderChosenTwice DEF MarketInv, HolderChosen
<1>13. MarketHolder' = [MarketHolder EXCEPT ![car] = None]
  <2>1. \A v \in Vehicles : MarketHolder'[v] = IF v = car THEN None ELSE MarketHolder[v]
    BY <1>1, <1>6, <1>7, <1>8, HolderChosenTwice DEF MarketInv, HolderChosen
  <2> QED BY <2>1, HolderChosenTwice DEF MarketInv, HolderChosen
<1> QED BY <1>9, <1>10, <1>11, <1>12, <1>13 DEF Market!Release

LEMMA SaleSells ==
  ASSUME MarketInv, Held', NEW t \in Tasks, ReleaseOrSell(t), job[t].target = "PAID"
  PROVE  /\ SoldIsOwned'
         /\ Market!Sell(wanted[job[t].order]) \/ UNCHANGED Market!marketVars
<1> DEFINE q == job[t].order
           car == wanted[q]
<1>1. /\ q \in Orders /\ car \in Vehicles
      /\ creating[q] = "done" /\ order[q] \in BoughtStatuses
  BY DEF ReleaseOrSell, MarketInv, Held, Holding, IndexInv, RequestsOK, OwingOK, CreatingOK
<1>2. Holds(q, car)
  BY <1>1 DEF Holds, BoughtStatuses
<1>3. vehicle[car] \in {"RESERVED", "SOLD"}
  BY <1>1, <1>2 DEF MarketInv, Held, Holding, OneHolder
<1>4. /\ UNCHANGED <<order, wanted, creating>>
      /\ \A u \in Tasks : u # t => taskPc'[u] = taskPc[u] /\ job'[u] = job[u]
      /\ taskPc'[t] = "idle"
      /\ \A v \in Vehicles : vehicle'[v] = IF v = car THEN "SOLD" ELSE vehicle[v]
  BY <1>1 DEF ReleaseOrSell, MarketInv, IndexInv, TypeOK, EndTask, requests
<1>5. \A o \in Orders, s \in {"CANCELLED"} : Owes(o, s)' <=> Owes(o, s)
  BY <1>4 DEF Owes
<1>6. \A o \in Orders, v \in Vehicles : Holds(o, v)' <=> Holds(o, v)
  BY <1>4, <1>5 DEF Holds
<1>7. MarketReleased' = MarketReleased
  BY <1>4, <1>5 DEF MarketReleased
<1>8. SoldIsOwned'
  BY <1>1, <1>2, <1>4, <1>6 DEF MarketInv, SoldIsOwned
<1>9. CASE vehicle[car] = "SOLD"
  <2>1. vehicle' = vehicle
    BY <1>4, <1>9, <1>1 DEF ReleaseOrSell, MarketInv, IndexInv, TypeOK
  <2> QED BY <2>1, <1>6, <1>7, <1>8, MarketStutters DEF MarketInv
<1>10. CASE vehicle[car] = "RESERVED"
  <2>1. MarketStage[car] = "held" /\ MarketStage' = [MarketStage EXCEPT ![car] = "sold"]
    BY <1>1, <1>4, <1>10 DEF MarketStage
  <2>2. MarketHolder' = MarketHolder
    <3>1. \A v \in Vehicles : MarketHolder'[v] = MarketHolder[v]
      BY <1>6, HolderChosenTwice DEF MarketInv, HolderChosen
    <3> QED BY <3>1, HolderChosenTwice DEF MarketInv, HolderChosen
  <2> QED BY <2>1, <2>2, <1>7, <1>8 DEF Market!Sell
<1> QED BY <1>3, <1>9, <1>10

LEMMA MarketStep ==
  ASSUME EarlyAccess = FALSE, MaxAbandons = 0, MarketInv, [OrdersNext]_orderVars, Held'
  PROVE  SoldIsOwned' /\ [Market!MarketNext]_(Market!marketVars)
<1>1. CASE \E o \in Orders, v \in Vehicles : ReadVehicle(o, v)
  BY <1>1, CreateIsQuiet, QuietStep
<1>2. ASSUME NEW o \in Orders, CreateStep(o)
      PROVE  SoldIsOwned' /\ [Market!MarketNext]_(Market!marketVars)
  <2>1. wanted[o] \in Vehicles \/ ~ReserveVehicle(o)
    BY DEF MarketInv, Held, Holding, CreatingOK, ReserveVehicle
  <2> QED BY <1>2, <2>1, CreateIsQuiet, QuietStep, ReservationClaims
          DEF CreateStep, Market!MarketNext
<1>3. CASE \E t \in Tasks, o \in Orders, s \in Targets : ReadOrder(t, o, s)
  BY <1>3, CallIsQuiet, QuietStep
<1>4. CASE \E t \in Tasks : SwapStatus(t)
  BY <1>4, CallIsQuiet, WonSwapIsQuiet, QuietStep
<1>5. ASSUME NEW t \in Tasks, ReleaseOrSell(t)
      PROVE  SoldIsOwned' /\ [Market!MarketNext]_(Market!marketVars)
  <2>1. wanted[job[t].order] \in Vehicles /\ job[t].target \in {"CANCELLED", "PAID"}
    BY <1>5 DEF ReleaseOrSell, MarketInv, Held, Holding, IndexInv, RequestsOK, OwingOK, CreatingOK
  <2> QED BY <1>5, <2>1, ReleaseReleases, SaleSells DEF Market!MarketNext
<1>6. CASE UNCHANGED <<docs, requests, tasks>>
  <2>1. Quiet
    BY <1>6 DEF Quiet, docs, requests, tasks, Holds, Owes, MarketReleased
  <2> QED BY <2>1, QuietStep
<1>7. CASE (\E o \in Orders : AbandonCreate(o)) \/ (\E t \in Tasks : AbandonTask(t))
  BY <1>7 DEF AbandonCreate, AbandonTask, MarketInv
<1> QED BY <1>1, <1>2, <1>3, <1>4, <1>5, <1>6, <1>7
        DEF OrdersNext, TaskStep, BuildIndexes, orderVars, docs, requests, tasks

\* The order service implements the abstract marketplace as long as every request runs
\* to its end: each database call claims, releases or sells one vehicle for one order,
\* or is none of the marketplace's business.
THEOREM OrdersImplementMarket ==
  EarlyAccess = FALSE /\ MaxAbandons = 0 => (OrdersSpec => ImplementsMarket)
<1> SUFFICES ASSUME EarlyAccess = FALSE, MaxAbandons = 0
             PROVE  OrdersSpec => ImplementsMarket
  OBVIOUS
<1>1. OrdersInit => MarketInv
  BY InitIndexInv, InitHeld
     DEF OrdersInit, MarketInv, SoldIsOwned
<1>2. OrdersInit => Market!MarketInit
  BY DEF OrdersInit, Market!MarketInit, MarketStage, MarketHolder, MarketReleased, Holds,
         Absent
<1>3. MarketInv /\ [OrdersNext]_orderVars
        => MarketInv' /\ [Market!MarketNext]_(Market!marketVars)
  <2> SUFFICES ASSUME MarketInv, [OrdersNext]_orderVars
               PROVE  MarketInv' /\ [Market!MarketNext]_(Market!marketVars)
    OBVIOUS
  <2>1. IndexInv'
    BY StepIndexInv DEF MarketInv
  <2>2. abandons' = 0
    BY <2>1 DEF IndexInv, TypeOK
  <2>3. Held'
    BY <2>2, StepHeld DEF MarketInv
  <2> QED BY <2>1, <2>2, <2>3, MarketStep DEF MarketInv
<1> QED BY <1>1, <1>2, <1>3, PTL DEF OrdersSpec, ImplementsMarket, Market!MarketSpec
=============================================================================

-------------------------- MODULE SettlementProofs --------------------------
(***************************************************************************)
(* A payment that is collected is settled at most once, and what is sold,  *)
(* booked or called applied goes back to a payment that was collected.     *)
(* The theorems are about orders that are moved only after their creation  *)
(* was confirmed: with EarlyAccess a roll-back can delete an order that    *)
(* was paid meanwhile.                                                     *)
(***************************************************************************)
EXTENDS PaymentsProofs

\* No call knows an order before its creation was confirmed, or was given up half-way.
UnderCreation == {o \in Orders : creating[o] \in {"idle", "insert", "reserve", "rollback"}}

CreationOK ==
  /\ \A o \in Orders : creating[o] # "idle" => wanted[o] \in Vehicles
  /\ \A o \in Orders : creating[o] \in {"idle", "insert"} => order[o] = Absent
  /\ \A o \in UnderCreation : order[o] \in {Absent, "PENDING"}
  /\ \A o \in UnderCreation : \A t \in Tasks : taskPc[t] # "idle" => job[t].order # o

\* An order that was bought and has its vehicle.
SoldTo(o) ==
  order[o] \in BoughtStatuses /\ \E v \in Vehicles : wanted[o] = v /\ vehicle[v] = "SOLD"

\* What the success e reports has been carried out.
EventSettled(e) ==
  /\ Collected(e.payment)
  /\ SoldTo(payOrder[e.payment])
  /\ commission[payOrder[e.payment]] # None

\* How far a handler that settles has come.
ProgressOK ==
  \A h \in Handlers :
    /\ taskPc[h] = "vehicle" => order[job[h].order] \in BoughtStatuses
    /\ hpc[h] \in {"sale", "book"} => SoldTo(OrderOf(h))
    /\ hpc[h] = "finish" /\ TargetOf[work[h].event.kind] = "PAID" => EventSettled(work[h].event)

\* The invariants made inductive, on top of PayInv.
SettleInv ==
  /\ PayInv /\ CreationOK /\ ProgressOK
  /\ SoldMeansCollected /\ SettledOnce /\ AppliedMeansSettled /\ CommissionMeansSold

\* What a step of the payment service is to the order service.
LEMMA OrderSide ==
  ASSUME PayInv, [PaymentsNext]_allVars
  PROVE  \/ UNCHANGED <<vehicle, order, wanted, creating, taskPc, job>>
         \/ \E o \in Orders, v \in Vehicles : ReadVehicle(o, v)
         \/ \E o \in Orders : CreateStep(o) \/ AbandonCreate(o)
         \/ \E t \in Tasks, o \in Orders, s \in OrderStatus : ReadOrder(t, o, s)
         \/ \E t \in Tasks : SwapStatus(t)
         \/ \E t \in Staff \union Handlers : ReleaseOrSell(t)
         \/ \E t \in Tasks : EndTask(t) /\ UNCHANGED <<vehicle, order, wanted, creating>>
<1> DEFINE Goal ==
      \/ UNCHANGED <<vehicle, order, wanted, creating, taskPc, job>>
      \/ \E o \in Orders, v \in Vehicles : ReadVehicle(o, v)
      \/ \E o \in Orders : CreateStep(o) \/ AbandonCreate(o)
      \/ \E t \in Tasks, o \in Orders, s \in OrderStatus : ReadOrder(t, o, s)
      \/ \E t \in Tasks : SwapStatus(t)
      \/ \E t \in Staff \union Handlers : ReleaseOrSell(t)
      \/ \E t \in Tasks : EndTask(t) /\ UNCHANGED <<vehicle, order, wanted, creating>>
<1> SUFFICES Goal
  OBVIOUS
<1>0. Staff \subseteq Tasks /\ Checkouts \subseteq Tasks /\ Handlers \subseteq Tasks
  BY PaymentsAssumption DEF Staff
<1>1. UNCHANGED orderVars => Goal
  BY DEF orderVars
<1>2. CASE OrderStep
  <2>1. CASE BuildIndexes
    BY <2>1 DEF BuildIndexes, docs, requests, tasks
  <2>2. ASSUME NEW t \in Staff, NEW o \in Orders, NEW s \in Targets, ReadOrder(t, o, s)
        PROVE  Goal
    BY <1>0, <2>2, OrdersAssumption
  <2>3. ASSUME NEW t \in Staff, TaskStep(t) PROVE Goal
    BY <1>0, <2>3 DEF TaskStep
  <2>4. ASSUME NEW t \in Staff, AbandonTask(t) PROVE Goal
    BY <1>0, <2>4 DEF AbandonTask, docs, requests
  <2>5. ASSUME NEW o \in Orders, NEW v \in Vehicles, ReadVehicle(o, v) PROVE Goal
    BY <2>5
  <2>6. ASSUME NEW o \in Orders, CreateStep(o) \/ AbandonCreate(o) PROVE Goal
    BY <2>6
  <2> HIDE DEF Goal
  <2> QED
    BY <1>2, <2>1, <2>2, <2>3, <2>4, <2>5, <2>6 DEF OrderStep
<1>3. ASSUME NEW c \in Checkouts, CheckoutReadOrder(c) PROVE Goal
  <2>1. payOrder[c] \in Orders /\ "PAYMENT_PENDING" \in OrderStatus
    BY <1>3 DEF CheckoutReadOrder, PayInv, CheckoutsOK, OrderStatus
  <2> QED
    BY <1>0, <1>1, <1>3, <2>1 DEF CheckoutReadOrder
<1>4. ASSUME NEW c \in Checkouts, CheckoutSwapOrder(c) PROVE Goal
  BY <1>0, <1>4 DEF CheckoutSwapOrder
<1>5. ASSUME NEW c \in Checkouts, AbandonCheckout(c) PROVE Goal
  BY <1>0, <1>5 DEF AbandonCheckout, docs, requests
<1>6. ASSUME NEW h \in Handlers, SettleReadOrder(h) PROVE Goal
  <2>1. work[h].event.payment \in Checkouts /\ Collected(work[h].event.payment)
    BY <1>6, HandlerEvent DEF SettleReadOrder, PayInv, HandlersOK
  <2>2. OrderOf(h) \in Orders /\ "PAID" \in OrderStatus
    BY <2>1 DEF OrderOf, PayInv, CheckoutsOK, Collected, Absent, OrderStatus
  <2> QED
    BY <1>0, <1>1, <1>6, <2>2 DEF SettleReadOrder
<1>7. ASSUME NEW h \in Handlers, SettleSwapOrder(h) \/ SettleVehicle(h) PROVE Goal
  BY <1>0, <1>7 DEF SettleSwapOrder, SettleVehicle
<1>8. ASSUME NEW h \in Handlers, AbandonHandler(h) PROVE Goal
  BY <1>0, <1>8 DEF AbandonHandler, docs, requests
<1>9. ASSUME NEW c \in Checkouts, CheckoutStep(c) \/ AbandonCheckout(c) PROVE Goal
  <2> HIDE DEF Goal
  <2> QED
    BY <1>1, <1>3, <1>4, <1>5, <1>9 DEF CheckoutStep, FindPayment, OpenSession, InsertPayment,
                                        LinkPayment
<1>10. ASSUME NEW h \in Handlers, HandlerStep(h) \/ AbandonHandler(h) PROVE Goal
  <2> HIDE DEF Goal
  <2>1. CASE \/ RecordEvent(h) \/ ReadPayment(h) \/ RejectEvent(h) \/ IgnoreEvent(h)
             \/ SwapPayment(h) \/ ReadSale(h) \/ BookCommission(h) \/ FinishEvent(h)
    <3>1. UNCHANGED orderVars
      BY <2>1 DEF RecordEvent, ReadPayment, RejectEvent, IgnoreEvent, SwapPayment,
                  ReadSale, BookCommission, FinishEvent
    <3> QED
      BY <1>1, <3>1
  <2> QED
    BY <1>6, <1>7, <1>8, <1>10, <2>1 DEF HandlerStep
<1>11. ASSUME NEW c \in Checkouts, NEW o \in Orders, OpenCheckout(c, o) PROVE Goal
  BY <1>1, <1>11 DEF OpenCheckout
<1>12. CASE ProviderStep
  BY <1>1, <1>12 DEF ProviderStep, Charge, Stray
<1>13. ASSUME NEW e \in Events, RefuseSignature(e) \/ \E h \in Handlers : Receive(h, e)
       PROVE  Goal
  BY <1>1, <1>13 DEF RefuseSignature, Receive
<1>14. CASE UNCHANGED allVars
  BY <1>1, <1>14 DEF allVars, orderVars
<1> HIDE DEF Goal
<1> QED
  BY <1>2, <1>9, <1>10, <1>11, <1>12, <1>13, <1>14 DEF PaymentsNext

-----------------------------------------------------------------------------
\* Orders under creation

LEMMA InitSettleInv == PaymentsInit => SettleInv
<1> SUFFICES ASSUME PaymentsInit PROVE SettleInv
  OBVIOUS
<1>1. PayInv
  BY InitPayInv
<1>2. CreationOK
  BY DEF PaymentsInit, OrdersInit, CreationOK, UnderCreation
<1>3. ProgressOK /\ SettledOnce
  BY PaymentsAssumption DEF PaymentsInit, OrdersInit, ProgressOK, SettledOnce, Settling
<1>4. SoldMeansCollected /\ AppliedMeansSettled /\ CommissionMeansSold
  BY DEF PaymentsInit, OrdersInit, SoldMeansCollected, AppliedMeansSettled,
         CommissionMeansSold, Absent
<1> QED
  BY <1>1, <1>2, <1>3, <1>4 DEF SettleInv

LEMMA StepCreationOK ==
  ASSUME EarlyAccess = FALSE, PayInv, CreationOK, [PaymentsNext]_allVars
  PROVE  CreationOK'
<1> USE DEF PayInv, IndexInv, TypeOK, CreationOK, UnderCreation
<1>1. CASE UNCHANGED <<vehicle, order, wanted, creating, taskPc, job>>
  BY <1>1
<1>2. ASSUME NEW o \in Orders, NEW v \in Vehicles, ReadVehicle(o, v) PROVE CreationOK'
  BY <1>2 DEF ReadVehicle, docs, tasks
<1>3. ASSUME NEW o \in Orders, CreateStep(o) \/ AbandonCreate(o) PROVE CreationOK'
  <2>1. CASE InsertOrder(o)
    BY <2>1 DEF InsertOrder, tasks, Absent
  <2>2. CASE ReserveVehicle(o)
    BY <2>2 DEF ReserveVehicle, tasks
  <2>3. CASE RollBack(o)
    BY <2>3 DEF RollBack, tasks
  <2>4. CASE AbandonCreate(o)
    BY <2>4 DEF AbandonCreate, docs, tasks
  <2> QED
    BY <1>3, <2>1, <2>2, <2>3, <2>4 DEF CreateStep
<1>4. ASSUME NEW t \in Tasks, NEW o \in Orders, NEW s \in OrderStatus, ReadOrder(t, o, s)
      PROVE  CreationOK'
  <2>1. o \notin UnderCreation
    BY <1>4 DEF ReadOrder, Known, Accepts
  <2> QED
    BY <1>4, <2>1 DEF ReadOrder, docs, requests
<1>5. ASSUME NEW t \in Tasks, SwapStatus(t) PROVE CreationOK'
  <2>1. CASE UNCHANGED order
    BY <1>5, <2>1 DEF SwapStatus, WriteStatus, EndTask, requests
  <2>2. CASE WriteStatus(t)
    <3>1. job[t].order \in Orders \ UnderCreation
      BY <1>5 DEF SwapStatus, RequestsOK
    <3> QED
      BY <1>5, <2>2, <3>1 DEF SwapStatus, WriteStatus, EndTask, requests
  <2> QED
    BY <1>5, <2>1, <2>2 DEF SwapStatus
<1>6. ASSUME NEW t \in Tasks, ReleaseOrSell(t) PROVE CreationOK'
  BY <1>6 DEF ReleaseOrSell, EndTask, requests
<1>7. ASSUME NEW t \in Tasks, EndTask(t), UNCHANGED <<vehicle, order, wanted, creating>>
      PROVE  CreationOK'
  BY <1>7 DEF EndTask
<1>8. Staff \union Handlers \subseteq Tasks
  BY PaymentsAssumption DEF Staff
<1> QED
  BY <1>1, <1>2, <1>3, <1>4, <1>5, <1>6, <1>7, <1>8, OrderSide

-----------------------------------------------------------------------------
\* What is bought stays bought, what is sold stays sold.

\* An order keeps its vehicle, a bought order stays bought, and a sold vehicle stays sold.
OrdersKeep ==
  /\ \A o \in Orders : order[o] # Absent => wanted'[o] = wanted[o]
  /\ \A o \in Orders : order[o] \in BoughtStatuses => order'[o] \in BoughtStatuses
  /\ \A v \in Vehicles : vehicle[v] = "SOLD" => vehicle'[v] = "SOLD"

LEMMA StepOrdersKeep ==
  ASSUME PayInv, CreationOK, [PaymentsNext]_allVars
  PROVE  OrdersKeep
<1> USE DEF PayInv, IndexInv, TypeOK, OrdersKeep
<1>1. CASE UNCHANGED <<vehicle, order, wanted, creating, taskPc, job>>
  BY <1>1
<1>2. ASSUME NEW o \in Orders, NEW v \in Vehicles, ReadVehicle(o, v) PROVE OrdersKeep
  BY <1>2 DEF ReadVehicle, CreationOK, docs
<1>3. ASSUME NEW o \in Orders, CreateStep(o) \/ AbandonCreate(o) PROVE OrdersKeep
  <2>1. CASE UNCHANGED order
    BY <1>3, <2>1 DEF CreateStep, InsertOrder, ReserveVehicle, RollBack, AbandonCreate, docs
  <2>2. CASE InsertOrder(o) \/ RollBack(o)
    <3>1. order[o] \notin BoughtStatuses
      BY <2>2 DEF InsertOrder, RollBack, CreationOK, UnderCreation, BoughtStatuses, Absent
    <3> QED
      BY <2>2, <3>1 DEF InsertOrder, RollBack
  <2> QED
    BY <1>3, <2>1, <2>2 DEF CreateStep, ReserveVehicle, AbandonCreate, docs
<1>4. ASSUME NEW t \in Tasks, NEW o \in Orders, NEW s \in OrderStatus, ReadOrder(t, o, s)
      PROVE  OrdersKeep
  BY <1>4 DEF ReadOrder, docs, requests
<1>5. ASSUME NEW t \in Tasks, SwapStatus(t) PROVE OrdersKeep
  <2>1. CASE UNCHANGED order
    BY <1>5, <2>1 DEF SwapStatus, requests
  <2>2. CASE Unchanged(t) /\ WriteStatus(t)
    <3>1. /\ job[t].order \in Orders
          /\ order[job[t].order] \in OrderStatus
          /\ job[t].target \in OrderAllowed[order[job[t].order]]
      BY <1>5, <2>2 DEF SwapStatus, Unchanged, RequestsOK
    <3>2. order[job[t].order] \in BoughtStatuses => job[t].target \in BoughtStatuses
      BY <3>1 DEF OrderStatus, OrderAllowed, BoughtStatuses
    <3> QED
      BY <1>5, <2>2, <3>1, <3>2 DEF SwapStatus, WriteStatus, requests
  <2> QED
    BY <1>5, <2>1, <2>2 DEF SwapStatus
<1>6. ASSUME NEW t \in Tasks, ReleaseOrSell(t) PROVE OrdersKeep
  BY <1>6 DEF ReleaseOrSell, requests
<1>7. ASSUME NEW t \in Tasks, EndTask(t), UNCHANGED <<vehicle, order, wanted, creating>>
      PROVE  OrdersKeep
  BY <1>7
<1>8. Staff \union Handlers \subseteq Tasks
  BY PaymentsAssumption DEF Staff
<1> QED
  BY <1>1, <1>2, <1>3, <1>4, <1>5, <1>6, <1>7, <1>8, OrderSide

\* A payment that was collected stays so, for the same order, and so does what was settled.
PaymentsKeep ==
  \A p \in Checkouts : Collected(p) => Collected(p)' /\ payOrder'[p] = payOrder[p]

LEMMA StepPaymentsKeep ==
  ASSUME PayInv, [PaymentsNext]_allVars
  PROVE  PaymentsKeep
<1>1. CASE UNCHANGED <<payment, payOrder>>
  BY <1>1 DEF PaymentsKeep, Collected
<1>2. ASSUME NEW c \in Checkouts, NEW o \in Orders, OpenCheckout(c, o) PROVE PaymentsKeep
  BY <1>2 DEF OpenCheckout, paymentDocs, PaymentsKeep, Collected, PayInv, PaymentsTypeOK,
              CheckoutsOK, Absent
<1>3. ASSUME NEW c \in Checkouts, InsertPayment(c) PROVE PaymentsKeep
  BY <1>3 DEF InsertPayment, PaymentsKeep, Collected, PayInv, PaymentsTypeOK, CheckoutsOK,
              Absent
<1>4. ASSUME NEW h \in Handlers, SwapPayment(h) PROVE PaymentsKeep
  <2> DEFINE e == work[h].event
             target == TargetOf[e.kind]
  <2>1. UNCHANGED payOrder
    BY <1>4 DEF SwapPayment, checkoutVars
  <2>2. CASE UNCHANGED payment
    BY <2>1, <2>2 DEF PaymentsKeep, Collected
  <2>3. CASE /\ payment[e.payment] = work[h].status
             /\ payment' = [payment EXCEPT ![e.payment] = target]
    <3>1. /\ e.payment \in Checkouts /\ e.kind \in EventKinds
          /\ work[h].status \in PaymentStatus
          /\ target \in PaymentAllowed[work[h].status]
      BY <1>4, HandlerEvent DEF SwapPayment, PayInv, HandlersOK
    <3>2. work[h].status \in {"PAID", "REFUNDED"} => target = "REFUNDED"
      BY <3>1, TargetFacts
    <3> HIDE DEF target
    <3> QED
      BY <2>1, <2>3, <3>1, <3>2 DEF PaymentsKeep, Collected, PayInv, PaymentsTypeOK
  <2> QED
    BY <1>4, <2>2, <2>3 DEF SwapPayment, paymentDocs
<1>5. CASE OrderStep \/ ProviderStep \/ UNCHANGED allVars
  BY <1>1, <1>5 DEF OrderStep, ProviderStep, Charge, Stray, allVars, payVars, paymentDocs,
                    checkoutVars
<1>6. ASSUME NEW c \in Checkouts, CheckoutStep(c) \/ AbandonCheckout(c) PROVE PaymentsKeep
  BY <1>1, <1>3, <1>6 DEF CheckoutStep, FindPayment, OpenSession, CheckoutReadOrder,
                          CheckoutSwapOrder, LinkPayment, AbandonCheckout, paymentDocs
<1>7. ASSUME NEW e \in Events, RefuseSignature(e) \/ \E h \in Handlers : Receive(h, e)
      PROVE  PaymentsKeep
  BY <1>1, <1>7 DEF RefuseSignature, Receive, paymentDocs, checkoutVars
<1>8. ASSUME NEW h \in Handlers, HandlerStep(h) \/ AbandonHandler(h) PROVE PaymentsKeep
  <2>1. CASE SwapPayment(h)
    BY <1>4, <2>1
  <2>2. CASE ~SwapPayment(h)
    <3>1. UNCHANGED <<paymentDocs, checkoutVars>>
      BY <1>8, <2>2
         DEF HandlerStep, RecordEvent, ReadPayment, RejectEvent, IgnoreEvent, SettleReadOrder,
             SettleSwapOrder, SettleVehicle, ReadSale, BookCommission, FinishEvent,
             AbandonHandler
    <3> QED
      BY <1>1, <3>1 DEF paymentDocs, checkoutVars
  <2> QED
    BY <2>1, <2>2
<1> QED
  BY <1>2, <1>5, <1>6, <1>7, <1>8 DEF PaymentsNext

\* Only the booking handler writes a row, for the order of its payment.
LEMMA StepLedger ==
  ASSUME [PaymentsNext]_allVars
  PROVE  \/ UNCHANGED commission
         \/ \E h \in Handlers :
              /\ BookCommission(h)
              /\ \E terms \in Terms :
                   commission' = [commission EXCEPT ![OrderOf(h)] = Document(OrderTotal, terms)]
<1>1. CASE OrderStep \/ ProviderStep \/ UNCHANGED allVars
  BY <1>1 DEF OrderStep, ProviderStep, Charge, Stray, allVars, payVars
<1>2. ASSUME NEW c \in Checkouts,
             CheckoutStep(c) \/ AbandonCheckout(c) \/ \E o \in Orders : OpenCheckout(c, o)
      PROVE  UNCHANGED commission
  BY <1>2 DEF CheckoutStep, OpenCheckout, FindPayment, OpenSession, InsertPayment,
              CheckoutReadOrder, CheckoutSwapOrder, LinkPayment, AbandonCheckout
<1>3. ASSUME NEW e \in Events, RefuseSignature(e) \/ \E h \in Handlers : Receive(h, e)
      PROVE  UNCHANGED commission
  BY <1>3 DEF RefuseSignature, Receive
<1>4. ASSUME NEW h \in Handlers, HandlerStep(h) \/ AbandonHandler(h), ~BookCommission(h)
      PROVE  UNCHANGED commission
  BY <1>4 DEF HandlerStep, RecordEvent, ReadPayment, RejectEvent, IgnoreEvent, SwapPayment,
              SettleReadOrder, SettleSwapOrder, SettleVehicle, ReadSale, FinishEvent,
              AbandonHandler
<1>5. ASSUME NEW h \in Handlers, BookCommission(h)
      PROVE  \/ UNCHANGED commission
             \/ \E terms \in Terms :
                  commission' = [commission EXCEPT ![OrderOf(h)] = Document(OrderTotal, terms)]
  BY <1>5 DEF BookCommission
<1> QED
  BY <1>1, <1>2, <1>3, <1>4, <1>5 DEF PaymentsNext

\* A handler's own steps are the only ones that move it.
LEMMA StepHandler ==
  ASSUME PayInv, [PaymentsNext]_allVars, NEW h \in Handlers
  PROVE  \/ HandlerStep(h)
         \/ hpc'[h] = "idle" /\ taskPc'[h] = "idle"
         \/ hpc'[h] = "record" /\ taskPc'[h] = "idle"
         \/ /\ hpc'[h] = hpc[h] /\ work'[h] = work[h]
            /\ taskPc'[h] = taskPc[h] /\ job'[h] = job[h]
<1> DEFINE Same == /\ hpc'[h] = hpc[h] /\ work'[h] = work[h]
                   /\ taskPc'[h] = taskPc[h] /\ job'[h] = job[h]
<1> USE DEF PayInv, PaymentsTypeOK, IndexInv, TypeOK
<1>0. h \in Tasks /\ h \notin Staff /\ h \notin Checkouts /\ Handlers \subseteq Tasks
      /\ Checkouts \subseteq Tasks
  BY PaymentsAssumption DEF Staff
<1>1. CASE OrderStep
  <2>1. UNCHANGED <<hpc, work>>
    BY <1>1 DEF OrderStep, payVars
  <2>2. taskPc'[h] = taskPc[h] /\ job'[h] = job[h]
    BY <1>0, <1>1 DEF OrderStep, ReadVehicle, CreateStep, InsertOrder, ReserveVehicle, RollBack,
         AbandonCreate, ReadOrder, TaskStep, SwapStatus, WriteStatus, ReleaseOrSell,
         AbandonTask, EndTask, BuildIndexes, tasks
  <2> QED
    BY <2>1, <2>2
<1>2. CASE ProviderStep \/ UNCHANGED allVars
  BY <1>2 DEF ProviderStep, Charge, Stray, allVars, orderVars, handlerVars
<1>3. ASSUME NEW c \in Checkouts,
             CheckoutStep(c) \/ AbandonCheckout(c) \/ \E o \in Orders : OpenCheckout(c, o)
      PROVE  Same
  <2>1. UNCHANGED <<hpc, work>>
    BY <1>3 DEF CheckoutStep, OpenCheckout, FindPayment, OpenSession, InsertPayment,
                CheckoutReadOrder, CheckoutSwapOrder, LinkPayment, AbandonCheckout, handlerVars
  <2>2. taskPc'[h] = taskPc[h] /\ job'[h] = job[h]
    BY <1>0, <1>3 DEF CheckoutStep, OpenCheckout, FindPayment, OpenSession, InsertPayment,
                      CheckoutReadOrder, CheckoutSwapOrder, LinkPayment, AbandonCheckout,
                      ReadOrder, SwapStatus, WriteStatus, EndTask, orderVars
  <2> QED
    BY <2>1, <2>2
<1>4. ASSUME NEW e \in Events, RefuseSignature(e) PROVE Same
  BY <1>4 DEF RefuseSignature, orderVars, handlerVars
<1>5. ASSUME NEW e \in Events, NEW g \in Handlers, Receive(g, e)
      PROVE  Same \/ (hpc'[h] = "record" /\ taskPc'[h] = "idle")
  <2>1. UNCHANGED <<taskPc, job>>
    BY <1>5 DEF Receive, orderVars
  <2>2. CASE UNCHANGED handlerVars
    BY <2>1, <2>2 DEF handlerVars
  <2>3. CASE /\ hpc[g] = "idle" /\ hpc' = [hpc EXCEPT ![g] = "record"]
             /\ \A k \in Handlers \ {g} : work'[k] = work[k]
    <3>1. taskPc[g] = "idle"
      BY <2>3 DEF CallsOK
    <3> QED
      BY <2>1, <2>3, <3>1
  <2>4. work' = [work EXCEPT ![g] = [NoWork EXCEPT !.event = e]] =>
          \A k \in Handlers \ {g} : work'[k] = work[k]
    BY Zenon DEF NoWork
  <2> QED
    BY <1>5, <2>2, <2>3, <2>4 DEF Receive, MoveHandler
<1>6. ASSUME NEW g \in Handlers, HandlerStep(g) \/ AbandonHandler(g), g # h PROVE Same
  <2>1. hpc'[h] = hpc[h] /\ work'[h] = work[h]
    BY <1>6 DEF HandlerStep, RecordEvent, ReadPayment, RejectEvent, IgnoreEvent, SwapPayment,
              SettleReadOrder, SettleSwapOrder, SettleVehicle, ReadSale, BookCommission,
              FinishEvent, AbandonHandler, MoveHandler, Respond, handlerVars
  <2>2. taskPc'[h] = taskPc[h] /\ job'[h] = job[h]
    BY <1>0, <1>6 DEF HandlerStep, RecordEvent, ReadPayment, RejectEvent, IgnoreEvent,
              SwapPayment, SettleReadOrder, SettleSwapOrder, SettleVehicle, ReadSale,
              BookCommission, FinishEvent, AbandonHandler, ReadOrder, SwapStatus, WriteStatus,
              ReleaseOrSell, EndTask, orderVars
  <2> QED
    BY <2>1, <2>2
<1>7. ASSUME AbandonHandler(h) PROVE hpc'[h] = "idle" /\ taskPc'[h] = "idle"
  BY <1>0, <1>7 DEF AbandonHandler, EndTask, Respond, MoveHandler
<1> QED
  BY <1>1, <1>2, <1>3, <1>4, <1>5, <1>6, <1>7 DEF PaymentsNext

-----------------------------------------------------------------------------
\* Settling

\* The order of a handler that has collected its payment, and the event it is working on.
LEMMA SettlingFacts ==
  ASSUME PayInv, NEW h \in Handlers, hpc[h] \in {"settle", "order", "sale", "book"}
  PROVE  /\ work[h].event \in Events /\ work[h].event.payment \in Checkouts
         /\ Collected(work[h].event.payment)
         /\ OrderOf(h) \in Orders
         /\ taskPc[h] # "idle" =>
              hpc[h] = "order" /\ job[h].target = "PAID" /\ job[h].order = OrderOf(h)
<1>1. /\ work[h].event \in Events /\ work[h].event.payment \in Checkouts
      /\ Collected(work[h].event.payment)
  BY HandlerEvent DEF PayInv, HandlersOK
<1>2. OrderOf(h) \in Orders
  BY <1>1 DEF PayInv, CheckoutsOK, Collected, OrderOf, Absent
<1> QED
  BY <1>1, <1>2 DEF PayInv, CallsOK

\* What has been settled stays settled.
LEMMA SettledStays ==
  ASSUME PayInv, OrdersKeep, PaymentsKeep, CreationOK
  PROVE  /\ \A o \in Orders : SoldTo(o) => SoldTo(o)'
         /\ \A h \in Handlers :
              hpc[h] \in {"settle", "order", "sale", "book"} /\ work'[h] = work[h] =>
                OrderOf(h)' = OrderOf(h)
<1>1. ASSUME NEW o \in Orders, SoldTo(o) PROVE SoldTo(o)'
  BY <1>1 DEF SoldTo, OrdersKeep, BoughtStatuses, Absent
<1>2. ASSUME NEW h \in Handlers, hpc[h] \in {"settle", "order", "sale", "book"},
work'[h] = work[h]
      PROVE  OrderOf(h)' = OrderOf(h)
  BY <1>2, SettlingFacts DEF PaymentsKeep, OrderOf
<1> QED
  BY <1>1, <1>2

\* A handler comes to be settling an order only by moving it to PAID, which nobody had.
LEMMA StepSettling ==
  ASSUME PayInv, OrdersKeep, PaymentsKeep, CreationOK, [PaymentsNext]_allVars,
         NEW h \in Handlers, Settling(h)'
  PROVE  /\ OrderOf(h)' = OrderOf(h) /\ OrderOf(h) \in Orders
         /\ \/ Settling(h) /\ ~BookCommission(h)
            \/ /\ SettleSwapOrder(h) /\ order[OrderOf(h)] = "PAYMENT_PENDING"
               /\ order'[OrderOf(h)] = "PAID"
<1>0. h \in Tasks
  BY PaymentsAssumption
<1> USE DEF PayInv, PaymentsTypeOK, IndexInv, TypeOK
<1>1. CASE /\ hpc'[h] = hpc[h] /\ work'[h] = work[h]
           /\ taskPc'[h] = taskPc[h] /\ job'[h] = job[h]
  <2>1. Settling(h) /\ hpc'[h] # "finish"
    BY <1>1 DEF Settling
  <2>2. ~BookCommission(h)
    BY <1>1 DEF BookCommission, MoveHandler
  <2> QED
    BY <1>1, <2>1, <2>2, SettledStays, SettlingFacts DEF Settling
<1>2. CASE HandlerStep(h)
  <2>1. CASE SettleSwapOrder(h) /\ Unchanged(h) /\ WriteStatus(h)
    <3>1. /\ work'[h] = work[h] /\ hpc[h] = "order" /\ taskPc[h] = "swap"
      BY <2>1 DEF SettleSwapOrder, SwapStatus, handlerVars
    <3>2. /\ OrderOf(h) \in Orders /\ job[h].order = OrderOf(h) /\ job[h].target = "PAID"
          /\ OrderOf(h)' = OrderOf(h)
      BY <3>1, SettlingFacts, SettledStays
    <3>3. order[OrderOf(h)] \in OrderStatus /\ "PAID" \in OrderAllowed[order[OrderOf(h)]]
      BY <1>0, <2>1, <3>1, <3>2 DEF Unchanged, RequestsOK
    <3>4. order[OrderOf(h)] = "PAYMENT_PENDING"
      BY <3>3 DEF OrderStatus, OrderAllowed
    <3>5. order'[OrderOf(h)] = "PAID"
      BY <2>1, <3>2 DEF WriteStatus
    <3> QED
      BY <2>1, <3>2, <3>4, <3>5
  <2>2. CASE SettleVehicle(h)
    <3>1. work'[h] = work[h] /\ hpc[h] = "order" /\ taskPc[h] = "vehicle"
      BY <2>2 DEF SettleVehicle, ReleaseOrSell
    <3>2. ~BookCommission(h)
      BY <3>1 DEF BookCommission
    <3> QED
      BY <3>1, <3>2, SettlingFacts, SettledStays DEF Settling
  <2>3. CASE SettleReadOrder(h)
    <3>1. taskPc'[h] # "vehicle" /\ hpc'[h] \notin {"sale", "book"}
      BY <1>0, <2>3 DEF SettleReadOrder, ReadOrder, Respond, MoveHandler, CallsOK, orderVars
    <3> QED
      BY <3>1 DEF Settling
  <2>4. CASE SettleSwapOrder(h) /\ ~Unchanged(h)
    <3>1. hpc'[h] = "idle"
      BY <2>4 DEF SettleSwapOrder, Respond, MoveHandler
    <3> QED
      BY <3>1 DEF Settling
  <2>5. CASE ReadSale(h)
    <3>1. work'[h] = work[h] /\ hpc[h] = "sale"
      BY <2>5 DEF ReadSale
    <3>2. ~BookCommission(h)
      BY <3>1 DEF BookCommission
    <3> QED
      BY <3>1, <3>2, SettlingFacts, SettledStays DEF Settling
  <2>6. CASE \/ RecordEvent(h) \/ ReadPayment(h) \/ RejectEvent(h) \/ IgnoreEvent(h)
             \/ SwapPayment(h) \/ BookCommission(h) \/ FinishEvent(h)
    <3>1. hpc'[h] \notin {"order", "sale", "book"}
      BY <2>6 DEF RecordEvent, ReadPayment, RejectEvent, IgnoreEvent, SwapPayment,
                  BookCommission, FinishEvent, Respond, MoveHandler
    <3> QED
      BY <3>1 DEF Settling
  <2> QED
    BY <1>2, <2>1, <2>2, <2>3, <2>4, <2>5, <2>6 DEF HandlerStep, SettleSwapOrder, SwapStatus
<1>3. CASE hpc'[h] \in {"idle", "record"}
  BY <1>3 DEF Settling
<1> QED
  BY <1>1, <1>2, <1>3, StepHandler

\* An order that some handler is settling has been bought.
LEMMA SettlingBought ==
  ASSUME PayInv, ProgressOK, NEW h \in Handlers, Settling(h)
  PROVE  OrderOf(h) \in Orders /\ order[OrderOf(h)] \in BoughtStatuses
BY SettlingFacts DEF Settling, ProgressOK, SoldTo

LEMMA StepSettledOnce ==
  ASSUME SettleInv, OrdersKeep, PaymentsKeep, [PaymentsNext]_allVars
  PROVE  SettledOnce'
<1> USE DEF SettleInv
<1> SUFFICES ASSUME NEW h \in Handlers, Settling(h)'
             PROVE  /\ commission'[OrderOf(h)'] = None
                    /\ \A g \in Handlers \ {h} : Settling(g)' => OrderOf(g)' # OrderOf(h)'
  BY DEF SettledOnce
<1>1. /\ OrderOf(h)' = OrderOf(h) /\ OrderOf(h) \in Orders
      /\ \/ Settling(h) /\ ~BookCommission(h)
         \/ SettleSwapOrder(h) /\ order[OrderOf(h)] = "PAYMENT_PENDING"
  BY StepSettling
<1>2. commission[OrderOf(h)] = None
  BY <1>1 DEF SettledOnce, CommissionMeansSold, BoughtStatuses
<1>3. commission'[OrderOf(h)] = None
  <2>1. CASE UNCHANGED commission
    BY <1>2, <2>1
  <2>2. ASSUME NEW g \in Handlers, BookCommission(g), NEW terms \in Terms,
               commission' = [commission EXCEPT ![OrderOf(g)] = Document(OrderTotal, terms)]
        PROVE  commission'[OrderOf(h)] = None
    <3>1. Settling(g)
      BY <2>2 DEF BookCommission, Settling
    <3>2. OrderOf(g) # OrderOf(h)
      <4>1. CASE Settling(h) /\ ~BookCommission(h)
        BY <2>2, <3>1, <4>1 DEF SettledOnce
      <4>2. CASE order[OrderOf(h)] = "PAYMENT_PENDING"
        BY <3>1, <4>2, SettlingBought DEF BoughtStatuses
      <4> QED
        BY <1>1, <4>1, <4>2
    <3> QED
      BY <1>2, <2>2, <3>2 DEF PayInv, PaymentsTypeOK
  <2> QED
    BY <2>1, <2>2, StepLedger
<1>4. ASSUME NEW g \in Handlers \ {h}, Settling(g)' PROVE OrderOf(g)' # OrderOf(h)'
  <2>1. /\ OrderOf(g)' = OrderOf(g) /\ OrderOf(g) \in Orders
        /\ \/ Settling(g) /\ ~BookCommission(g)
           \/ SettleSwapOrder(g) /\ order[OrderOf(g)] = "PAYMENT_PENDING"
    BY <1>4, StepSettling
  <2>2. CASE Settling(h) /\ Settling(g)
    BY <1>1, <2>1, <2>2 DEF SettledOnce
  <2>3. CASE Settling(h) /\ order[OrderOf(g)] = "PAYMENT_PENDING"
    BY <1>1, <2>1, <2>3, SettlingBought DEF BoughtStatuses
  <2>4. CASE Settling(g) /\ order[OrderOf(h)] = "PAYMENT_PENDING"
    BY <1>1, <2>1, <2>4, SettlingBought DEF BoughtStatuses
  <2>5. CASE SettleSwapOrder(h) /\ SettleSwapOrder(g)
    <3>1. taskPc[h] = "swap" /\ taskPc'[g] = taskPc[g] /\ taskPc[g] = "swap" /\ hpc'[g] = "order"
      BY <1>4, <2>5, PaymentsAssumption
         DEF SettleSwapOrder, SwapStatus, WriteStatus, EndTask, Respond, MoveHandler,
             handlerVars, PayInv, IndexInv, TypeOK, PaymentsTypeOK
    <3> QED
      BY <1>4, <3>1 DEF Settling
  <2> QED
    BY <1>1, <2>1, <2>2, <2>3, <2>4, <2>5
<1> QED
  BY <1>1, <1>3, <1>4

\* A document, once booked, is there to stay, and so is everything an event has settled.
LEMMA StepSettled ==
  ASSUME PayInv, CreationOK, OrdersKeep, PaymentsKeep, [PaymentsNext]_allVars,
         NEW e \in Events, EventSettled(e)
  PROVE  EventSettled(e)'
<1> DEFINE p == e.payment
           o == payOrder[e.payment]
<1>1. p \in Checkouts /\ Collected(p)
  BY EventFacts DEF EventSettled
<1>2. payOrder'[p] = o /\ o \in Orders /\ Collected(p)'
  BY <1>1 DEF PaymentsKeep, PayInv, CheckoutsOK, Collected, Absent
<1>3. SoldTo(o)' /\ commission[o] # None
  <2>1. SoldTo(o) /\ commission[o] # None
    BY DEF EventSettled
  <2>2. order'[o] \in BoughtStatuses /\ wanted'[o] = wanted[o]
    BY <1>2, <2>1 DEF SoldTo, OrdersKeep, BoughtStatuses, Absent
  <2> QED
    BY <1>2, <2>1, <2>2 DEF SoldTo, OrdersKeep
<1>4. commission'[o] # None
  <2>1. CASE UNCHANGED commission
    BY <1>3, <2>1
  <2>2. ASSUME NEW h \in Handlers, NEW terms \in Terms,
               commission' = [commission EXCEPT ![OrderOf(h)] = Document(OrderTotal, terms)]
        PROVE  commission'[o] # None
    <3>1. Document(OrderTotal, terms) # None
      BY PaymentsAssumption
    <3> QED
      BY <1>2, <1>3, <2>2, <3>1 DEF PayInv, PaymentsTypeOK
  <2> QED
    BY <2>1, <2>2, StepLedger
<1> QED
  BY <1>2, <1>3, <1>4 DEF EventSettled

LEMMA StepCommissionMeansSold ==
  ASSUME SettleInv, OrdersKeep, PaymentsKeep, [PaymentsNext]_allVars
  PROVE  CommissionMeansSold'
<1> USE DEF SettleInv
<1> SUFFICES ASSUME NEW o \in Orders, commission'[o] # None PROVE SoldTo(o)'
  BY DEF CommissionMeansSold, SoldTo
<1>1. CASE commission[o] # None
  BY <1>1, SettledStays DEF CommissionMeansSold, SoldTo
<1>2. CASE commission[o] = None
  <2>1. PICK h \in Handlers :
          /\ BookCommission(h)
          /\ \E terms \in Terms :
               commission' = [commission EXCEPT ![OrderOf(h)] = Document(OrderTotal, terms)]
    BY <1>2, StepLedger
  <2>2. o = OrderOf(h)
    BY <1>2, <2>1 DEF PayInv, PaymentsTypeOK
  <2>3. SoldTo(o)
    BY <2>1, <2>2 DEF BookCommission, ProgressOK
  <2> QED
    BY <2>3, SettledStays
<1> QED
  BY <1>1, <1>2

LEMMA StepSoldMeansCollected ==
  ASSUME SettleInv, OrdersKeep, PaymentsKeep, [PaymentsNext]_allVars
  PROVE  SoldMeansCollected'
<1> USE DEF SettleInv
<1>1. ASSUME NEW v \in Vehicles, NEW p \in Checkouts, NEW o \in Orders,
             payOrder[p] = o, wanted[o] = v, Collected(p), order[o] \in BoughtStatuses
      PROVE  payOrder'[p] = o /\ wanted'[o] = v /\ Collected(p)' /\ order'[o] \in BoughtStatuses
  BY <1>1 DEF PaymentsKeep, OrdersKeep, BoughtStatuses, Absent
<1>2. ASSUME NEW v \in Vehicles, vehicle[v] = "SOLD"
      PROVE  \E p \in Checkouts : \E o \in Orders :
               payOrder'[p] = o /\ wanted'[o] = v /\ Collected(p)' /\ order'[o] \in BoughtStatuses
  BY <1>1, <1>2 DEF SoldMeansCollected
<1>3. ASSUME NEW v \in Vehicles, vehicle'[v] = "SOLD", vehicle[v] # "SOLD"
      PROVE  \E p \in Checkouts : \E o \in Orders :
               payOrder'[p] = o /\ wanted'[o] = v /\ Collected(p)' /\ order'[o] \in BoughtStatuses
  <2>1. PICK t \in Staff \union Handlers : ReleaseOrSell(t)
    <3>1. ~(\E o \in Orders, w \in Vehicles : ReadVehicle(o, w))
      BY <1>3 DEF ReadVehicle, docs
    <3>2. ~(\E o \in Orders : CreateStep(o) \/ AbandonCreate(o))
      BY <1>3 DEF CreateStep, InsertOrder, ReserveVehicle, RollBack, AbandonCreate, docs,
                  PayInv, IndexInv, TypeOK
    <3>3. ~(\E t \in Tasks : SwapStatus(t))
      BY <1>3 DEF SwapStatus
    <3>4. ~(\E t \in Tasks, o \in Orders, s \in OrderStatus : ReadOrder(t, o, s))
      BY <1>3 DEF ReadOrder, docs
    <3> QED
      BY <1>3, <3>1, <3>2, <3>3, <3>4, OrderSide
  <2>2. taskPc[t] = "vehicle" /\ job[t].target = "PAID" /\ v = wanted[job[t].order]
    BY <1>3, <2>1 DEF ReleaseOrSell, PayInv, IndexInv, TypeOK
  <2>3. t \in Handlers
    BY <2>2, PaymentsAssumption DEF PayInv, CallsOK
  <2>4. hpc[t] = "order"
    BY <2>2, <2>3 DEF PayInv, CallsOK
  <2>5. /\ work[t].event.payment \in Checkouts /\ Collected(work[t].event.payment)
        /\ OrderOf(t) \in Orders /\ job[t].order = OrderOf(t)
    BY <2>2, <2>3, <2>4, SettlingFacts
  <2>6. order[OrderOf(t)] \in BoughtStatuses
    BY <2>2, <2>3, <2>5 DEF ProgressOK
  <2> QED
    BY <1>1, <2>2, <2>5, <2>6 DEF OrderOf
<1> QED
  BY <1>2, <1>3 DEF SoldMeansCollected

\* An event is called applied by the handler that finishes it.
LEMMA StepApplied ==
  ASSUME PayInv, [PaymentsNext]_allVars, NEW e \in Events, row'[e] = "applied"
  PROVE  row[e] = "applied" \/ \E h \in Handlers : FinishEvent(h) /\ work[h].event = e
<1> USE DEF PayInv, PaymentsTypeOK
<1>1. CASE OrderStep \/ ProviderStep \/ UNCHANGED allVars
  BY <1>1 DEF OrderStep, ProviderStep, Charge, Stray, allVars, payVars, eventLog
<1>2. ASSUME NEW c \in Checkouts,
             CheckoutStep(c) \/ AbandonCheckout(c) \/ \E o \in Orders : OpenCheckout(c, o)
      PROVE  row[e] = "applied"
  BY <1>2 DEF CheckoutStep, OpenCheckout, FindPayment, OpenSession, InsertPayment,
              CheckoutReadOrder, CheckoutSwapOrder, LinkPayment, AbandonCheckout, eventLog
<1>3. ASSUME NEW d \in Events, RefuseSignature(d) \/ \E h \in Handlers : Receive(h, d)
      PROVE  row[e] = "applied"
  BY <1>3 DEF RefuseSignature, Receive
<1>4. ASSUME NEW h \in Handlers, HandlerStep(h) \/ AbandonHandler(h), ~FinishEvent(h)
      PROVE  row[e] = "applied"
  BY <1>4 DEF HandlerStep, RecordEvent, ReadPayment, RejectEvent, IgnoreEvent, SwapPayment,
              SettleReadOrder, SettleSwapOrder, SettleVehicle, ReadSale, BookCommission,
              AbandonHandler, eventLog
<1>5. ASSUME NEW h \in Handlers, FinishEvent(h)
      PROVE  row[e] = "applied" \/ work[h].event = e
  BY <1>5 DEF FinishEvent
<1> QED
  BY <1>1, <1>2, <1>3, <1>4, <1>5 DEF PaymentsNext

LEMMA StepAppliedMeansSettled ==
  ASSUME SettleInv, OrdersKeep, PaymentsKeep, [PaymentsNext]_allVars
  PROVE  AppliedMeansSettled'
<1> USE DEF SettleInv
<1> SUFFICES ASSUME NEW e \in Events, row'[e] = "applied", TargetOf[e.kind] = "PAID"
             PROVE  EventSettled(e)'
  BY DEF AppliedMeansSettled, EventSettled, SoldTo
<1>1. CASE row[e] = "applied"
  <2>1. EventSettled(e)
    BY <1>1 DEF AppliedMeansSettled, EventSettled, SoldTo
  <2> QED
    BY <2>1, StepSettled
<1>2. ASSUME NEW h \in Handlers, FinishEvent(h), work[h].event = e PROVE EventSettled(e)'
  <2>1. EventSettled(e)
    BY <1>2 DEF FinishEvent, ProgressOK
  <2> QED
    BY <2>1, StepSettled
<1> QED
  BY <1>1, <1>2, StepApplied

LEMMA StepProgressOK ==
  ASSUME SettleInv, PayInv', OrdersKeep, PaymentsKeep, [PaymentsNext]_allVars
  PROVE  ProgressOK'
<1> USE DEF SettleInv
<1> SUFFICES ASSUME NEW h \in Handlers
             PROVE  /\ taskPc'[h] = "vehicle" => order'[job'[h].order] \in BoughtStatuses
                    /\ hpc'[h] \in {"sale", "book"} => SoldTo(OrderOf(h))'
                    /\ hpc'[h] = "finish" /\ TargetOf[work'[h].event.kind] = "PAID" =>
                         EventSettled(work[h].event)'
  BY DEF ProgressOK
<1>0. h \in Tasks
  BY PaymentsAssumption
<1>1. ASSUME taskPc'[h] = "vehicle" PROVE order'[job'[h].order] \in BoughtStatuses
  <2>1. Settling(h)' /\ job'[h].order = OrderOf(h)'
    BY <1>1 DEF PayInv, CallsOK, Settling
  <2>2. /\ OrderOf(h)' = OrderOf(h) /\ OrderOf(h) \in Orders
        /\ Settling(h) \/ order'[OrderOf(h)] = "PAID"
    BY <2>1, StepSettling
  <2> QED
    BY <2>1, <2>2, SettlingBought DEF OrdersKeep, BoughtStatuses
<1>2. ASSUME hpc'[h] \in {"sale", "book"} PROVE SoldTo(OrderOf(h))'
  <2>1. OrderOf(h)' = OrderOf(h) /\ OrderOf(h) \in Orders
    BY <1>2, StepSettling DEF Settling
  <2>2. CASE SettleVehicle(h)
    <3> DEFINE o == OrderOf(h)
    <3>1. taskPc[h] = "vehicle" /\ hpc[h] = "order"
      BY <2>2 DEF SettleVehicle, ReleaseOrSell
    <3>2. job[h].order = o /\ job[h].target = "PAID" /\ order[o] \in BoughtStatuses
      BY <3>1, SettlingFacts DEF ProgressOK
    <3>3. wanted[o] \in Vehicles
      BY <2>1, <3>2 DEF CreationOK, UnderCreation, BoughtStatuses, Absent
    <3>4. vehicle'[wanted[o]] = "SOLD"
      BY <2>2, <3>2, <3>3 DEF SettleVehicle, ReleaseOrSell, PayInv, IndexInv, TypeOK
    <3>5. wanted'[o] = wanted[o] /\ order'[o] \in BoughtStatuses
      BY <2>1, <3>2 DEF OrdersKeep, BoughtStatuses, Absent
    <3> QED
      BY <2>1, <3>3, <3>4, <3>5 DEF SoldTo
  <2>3. CASE hpc[h] \in {"sale", "book"} /\ ~BookCommission(h)
    BY <2>1, <2>3, SettledStays DEF ProgressOK, SoldTo
  <2>4. HandlerStep(h) => SettleVehicle(h) \/ ReadSale(h)
    BY <1>2 DEF HandlerStep, RecordEvent, ReadPayment, RejectEvent, IgnoreEvent, SwapPayment,
                SettleReadOrder, SettleSwapOrder, BookCommission, FinishEvent, Respond,
                MoveHandler, handlerVars, PayInv, PaymentsTypeOK
  <2>5. /\ ~BookCommission(h)
        /\ ReadSale(h) => hpc[h] = "sale" /\ work'[h] = work[h]
    BY <1>2 DEF BookCommission, ReadSale, MoveHandler, PayInv, PaymentsTypeOK
  <2> QED
    BY <1>2, <2>2, <2>3, <2>4, <2>5, StepHandler
<1>3. ASSUME hpc'[h] = "finish", TargetOf[work'[h].event.kind] = "PAID"
      PROVE  EventSettled(work[h].event)'
  <2>1. CASE BookCommission(h)
    <3> DEFINE e == work[h].event
               o == OrderOf(h)
    <3>1. hpc[h] = "book" /\ work'[h] = work[h] /\ o \in Orders
      BY <2>1, SettlingFacts DEF BookCommission
    <3>2. e \in Events /\ e.payment \in Checkouts /\ Collected(e.payment) /\ SoldTo(o)
      BY <3>1, SettlingFacts DEF ProgressOK
    <3>3. SoldTo(o)' /\ OrderOf(h)' = o /\ Collected(e.payment)'
      BY <3>1, <3>2, SettledStays DEF PaymentsKeep
    <3>4. commission'[o] # None
      <4>1. CASE UNCHANGED commission /\ commission[o] # None
        BY <4>1
      <4>2. ASSUME NEW terms \in Terms,
                   commission' = [commission EXCEPT ![o] = Document(OrderTotal, terms)]
            PROVE  commission'[o] # None
        <5>1. Document(OrderTotal, terms) # None
          BY PaymentsAssumption
        <5> QED
          BY <3>1, <4>2, <5>1 DEF PayInv, PaymentsTypeOK
      <4> QED
        BY <2>1, <4>1, <4>2 DEF BookCommission
    <3>5. work'[h].event = work[h].event /\ commission'[OrderOf(h)'] # None
      BY <3>1, <3>3, <3>4
    <3> QED
      BY <3>3, <3>5 DEF EventSettled, OrderOf
  <2>2. CASE hpc[h] = "finish" /\ work'[h] = work[h]
    <3>1. work[h].event \in Events /\ EventSettled(work[h].event)
      BY <1>3, <2>2, HandlerEvent DEF ProgressOK
    <3>2. ASSUME NEW e \in Events, e = work[h].event, EventSettled(e)
          PROVE  EventSettled(work[h].event)'
      <4>1. EventSettled(e)' /\ work'[h].event = e
        BY <2>2, <3>2, StepSettled
      <4> QED
        BY <4>1 DEF EventSettled, SoldTo, Collected
    <3> QED
      BY <3>1, <3>2
  <2>3. ~SwapPayment(h)
    BY <1>3 DEF SwapPayment, MoveHandler, PayInv, PaymentsTypeOK
  <2>4. ~ReadSale(h)
    <3> SUFFICES ASSUME ReadSale(h) PROVE FALSE
      OBVIOUS
    <3>1. order[OrderOf(h)] # Absent
      BY DEF ReadSale, ProgressOK, SoldTo, BoughtStatuses, Absent
    <3>2. hpc' = [hpc EXCEPT ![h] = "book"]
      BY <3>1 DEF ReadSale, MoveHandler
    <3> QED
      BY <1>3, <3>2 DEF PayInv, PaymentsTypeOK
  <2>5. HandlerStep(h) => BookCommission(h)
    BY <1>3, <2>3, <2>4
       DEF HandlerStep, RecordEvent, ReadPayment, RejectEvent, IgnoreEvent,
           SettleReadOrder, SettleSwapOrder, SettleVehicle, ReadSale, FinishEvent, Respond,
           MoveHandler, handlerVars, PayInv, PaymentsTypeOK
  <2> QED
    BY <1>3, <2>1, <2>2, <2>5, StepHandler
<1> QED
  BY <1>1, <1>2, <1>3

LEMMA StepSettleInv ==
  ASSUME EarlyAccess = FALSE
  PROVE  SettleInv /\ [PaymentsNext]_allVars => SettleInv'
<1> SUFFICES ASSUME SettleInv, [PaymentsNext]_allVars PROVE SettleInv'
  OBVIOUS
<1>1. PayInv /\ CreationOK
  BY DEF SettleInv
<1>2. PayInv'
  BY <1>1, StepPayInv
<1>3. CreationOK'
  BY <1>1, StepCreationOK
<1>4. OrdersKeep /\ PaymentsKeep
  BY <1>1, StepOrdersKeep, StepPaymentsKeep
<1> QED
  BY <1>2, <1>3, <1>4, StepProgressOK, StepSoldMeansCollected, StepSettledOnce,
     StepAppliedMeansSettled, StepCommissionMeansSold
     DEF SettleInv

LEMMA SettleInvHolds ==
  ASSUME EarlyAccess = FALSE
  PROVE  PaymentsSpec => []SettleInv
BY InitSettleInv, StepSettleInv, PTL DEF PaymentsSpec

\* A vehicle leaves the market only for an order of that vehicle whose payment the provider
\* collected, whatever the operators, the deliveries and the customers interleave.
THEOREM SoldIsCollected ==
  ASSUME EarlyAccess = FALSE
  PROVE  PaymentsSpec => []SoldMeansCollected
<1>1. SettleInv => SoldMeansCollected
  BY DEF SettleInv
<1> QED
  BY <1>1, SettleInvHolds, PTL

\* Revenue is booked once even without the unique index on commissions: of all the
\* handlers of all the deliveries one at most settles an order, and it finds no row.
THEOREM SettlesOnce ==
  ASSUME EarlyAccess = FALSE
  PROVE  PaymentsSpec => []SettledOnce
<1>1. SettleInv => SettledOnce
  BY DEF SettleInv
<1> QED
  BY <1>1, SettleInvHolds, PTL

\* What the event log calls applied has happened in full, wherever a handler died.
THEOREM AppliedIsSettled ==
  ASSUME EarlyAccess = FALSE
  PROVE  PaymentsSpec => []AppliedMeansSettled
<1>1. SettleInv => AppliedMeansSettled
  BY DEF SettleInv
<1> QED
  BY <1>1, SettleInvHolds, PTL

\* A commission row belongs to a bought order with its vehicle sold.
THEOREM CommissionIsSold ==
  ASSUME EarlyAccess = FALSE
  PROVE  PaymentsSpec => []CommissionMeansSold
<1>1. SettleInv => CommissionMeansSold
  BY DEF SettleInv
<1> QED
  BY <1>1, SettleInvHolds, PTL
=============================================================================

------------------------------ MODULE Payments ------------------------------
(***************************************************************************)
(* The payment service (src/app/modules/payments/service.py) on top of the *)
(* order service: checkout requests open payments at the provider, signed  *)
(* webhooks move them, and a payment that becomes PAID settles its order,  *)
(* sells the vehicle and books the commission.                             *)
(*                                                                         *)
(* As in Orders.tla each database call is one step.  A payment is          *)
(* identified with the checkout request that inserts it, so payment p's    *)
(* document belongs to checkout p.  Likewise a transaction, what the       *)
(* provider makes of one of its sessions, with the request that opened the *)
(* session.  Transaction ids are the provider's and never repeat, so the   *)
(* index over them has nothing to refuse, and they are left out of the     *)
(* documents.  Checkouts and webhook handlers occupy a task of Orders.tla  *)
(* while they are inside OrderService.transition.                          *)
(*                                                                         *)
(* The provider and its customer are the environment.  The provider sends  *)
(* each event until it gets a 2xx answer, in any order, several deliveries *)
(* at a time.                                                              *)
(***************************************************************************)
EXTENDS Orders, Commission

CONSTANTS
  Checkouts,  \* create_checkout_session requests, and the payments they insert
  Handlers,   \* handle_webhook requests that can be under way at once
  Kinds,      \* the kinds of event this provider sends
  MaxEvents,  \* bound: events in a behaviour, each delivered any number of times
  Late,       \* may a delivery arrive outside the signature's time tolerance?
  OrderTotal, \* what an order costs
  Terms       \* what sellers may have agreed to: the price they expect and a rate

VARIABLES
  payment,     \* payments collection: status of each document, or Absent
  payVersion,  \* payments collection: the optimistic-locking counter
  payOrder,    \* order_id of each checkout request and its payment document
  checkoutPc,  \* where each checkout request is
  seenOrder,   \* the order status each checkout request read
  session,     \* the payment each checkout's provider session is for
  linked,      \* orders collection: payment_id
  charge,      \* the provider's own record of each checkout's session
  sent,        \* the events the provider has emitted
  row,         \* payment_events collection: outcome of each event, or Absent
  acked,       \* the events answered with a 2xx: the provider stops sending
  hpc,         \* where each webhook handler is
  work,        \* the event each handler has and the payment it read
  commission   \* commissions collection: the row of each order, or None

paymentDocs == <<payment, payVersion>>
checkoutVars == <<payOrder, checkoutPc, seenOrder, session, linked>>
provider == <<charge, sent>>
eventLog == <<row, acked>>
handlerVars == <<hpc, work>>
payVars == <<payment, payVersion, payOrder, checkoutPc, seenOrder, session, linked,
             charge, sent, row, acked, hpc, work, commission>>
allVars == <<vehicle, order, version, wanted, creating, taskPc, job, indexed, abandons,
             payment, payVersion, payOrder, checkoutPc, seenOrder, session, linked,
             charge, sent, row, acked, hpc, work, commission>>

PaymentStatus == {"PENDING", "PROCESSING", "PAID", "FAILED", "CANCELLED", "REFUNDED"}

\* ALLOWED_TRANSITIONS.
PaymentAllowed ==
  [PENDING |-> {"PROCESSING", "PAID", "FAILED", "CANCELLED"},
   PROCESSING |-> {"PAID", "FAILED", "CANCELLED"},
   PAID |-> {"REFUNDED"},
   FAILED |-> {"PROCESSING"},
   CANCELLED |-> {},
   REFUNDED |-> {}]

OpenStatuses == {"PENDING", "PROCESSING"}

\* "mispriced" is a payment.succeeded whose amount or currency is not the recorded
\* one; "unhandled" is any type the handler has no target for.
EventKinds == {"processing", "succeeded", "failed", "cancelled", "refunded",
               "mispriced", "unhandled"}

TargetOf ==
  [processing |-> "PROCESSING", succeeded |-> "PAID", mispriced |-> "PAID",
   failed |-> "FAILED", cancelled |-> "CANCELLED", refunded |-> "REFUNDED",
   unhandled |-> Absent]

\* One event of each kind per transaction, under the payment its session was opened for:
\* the bound on the provider.
Events == [payment : Checkouts, txn : Checkouts, kind : Kinds]

NoWork == [event |-> None, status |-> Absent, version |-> 0]

CheckoutPc == {"idle", "find", "provider", "insert", "order", "link", "done", "failed",
               "abandoned"}
HandlerPc == {"idle", "record", "read", "reject", "ignore", "swap", "settle", "order",
              "sale", "book", "finish"}
ChargeStatus == {"none", "open", "processing", "succeeded", "failed", "cancelled", "refunded"}
Outcomes == {Absent, "open", "signature", "rejected", "ignored", "applied"}

\* The transition() calls that are neither a checkout's nor a webhook's: an
\* operator's, asking for one of Targets.
Staff == Tasks \ (Checkouts \union Handlers)

ASSUME PaymentsAssumption ==
  /\ Checkouts \subseteq Tasks /\ Handlers \subseteq Tasks
  /\ Checkouts \intersect Handlers = {}
  /\ Kinds \subseteq EventKinds
  /\ Late \in BOOLEAN
  /\ OrderTotal \in Nat
  /\ Terms \subseteq [expected : Nat, bps : Nat \union {Unknown}]
  /\ None \notin Checkouts /\ None \notin Events
  /\ \A terms \in Terms : None # Document(OrderTotal, terms)
  /\ "PAID" \notin Targets
  /\ StartIndexed = {TRUE}

PaymentsInit ==
  /\ OrdersInit
  /\ payment = [c \in Checkouts |-> Absent]
  /\ payVersion = [c \in Checkouts |-> 0]
  /\ payOrder = [c \in Checkouts |-> None]
  /\ checkoutPc = [c \in Checkouts |-> "idle"]
  /\ seenOrder = [c \in Checkouts |-> Absent]
  /\ session = [c \in Checkouts |-> None]
  /\ linked = [o \in Orders |-> None]
  /\ charge = [c \in Checkouts |-> "none"]
  /\ sent = {}
  /\ row = [e \in Events |-> Absent]
  /\ acked = {}
  /\ hpc = [h \in Handlers |-> "idle"]
  /\ work = [h \in Handlers |-> NoWork]
  /\ commission = [o \in Orders |-> None]

-----------------------------------------------------------------------------
\* create_checkout_session

MoveCheckout(c, pc) == checkoutPc' = [checkoutPc EXCEPT ![c] = pc]

\* Read the order; only one still waiting for its payment goes on.
OpenCheckout(c, o) ==
  /\ checkoutPc[c] = "idle"
  /\ Known(o)
  /\ order[o] \in {"PENDING", "PAYMENT_PENDING"}
  /\ payOrder' = [payOrder EXCEPT ![c] = o]
  /\ seenOrder' = [seenOrder EXCEPT ![c] = order[o]]
  /\ MoveCheckout(c, "find")
  /\ UNCHANGED <<orderVars, paymentDocs, session, linked, provider, eventLog,
                 handlerVars, commission>>

OpenPayments(o) ==
  {p \in Checkouts : payOrder[p] = o /\ payment[p] \in OpenStatuses}

\* Look for an open payment of this order to reuse.
FindPayment(c) ==
  /\ checkoutPc[c] = "find"
  /\ \/ \E p \in OpenPayments(payOrder[c]) : session' = [session EXCEPT ![c] = p]
     \/ /\ OpenPayments(payOrder[c]) = {}
        /\ session' = [session EXCEPT ![c] = c]
  /\ MoveCheckout(c, "provider")
  /\ UNCHANGED <<orderVars, paymentDocs, payOrder, seenOrder, linked, provider, eventLog,
                 handlerVars, commission>>

\* The provider opens a session, for the payment found, if there is one, as for a new one:
\* a payment can have several sessions.  With a payment found the request is over.
OpenSession(c) ==
  /\ checkoutPc[c] = "provider"
  /\ charge' = [charge EXCEPT ![c] = "open"]
  /\ MoveCheckout(c, IF session[c] = c THEN "insert" ELSE "done")
  /\ UNCHANGED <<orderVars, paymentDocs, payOrder, seenOrder, session, linked, sent, eventLog,
                 handlerVars, commission>>

\* Mutation of InsertPayment: the payment starts in an order's status.
InsertOrderStatus(c) ==
  /\ checkoutPc[c] = "insert"
  /\ payment' = [payment EXCEPT ![c] = "PAYMENT_PENDING"]
  /\ MoveCheckout(c, IF seenOrder[c] = "PENDING" THEN "order" ELSE "link")
  /\ UNCHANGED <<orderVars, payVersion, payOrder, seenOrder, session, linked, provider,
                 eventLog, handlerVars, commission>>

\* Mutation of InsertPayment: the order is not moved to PAYMENT_PENDING.
InsertOnly(c) ==
  /\ checkoutPc[c] = "insert"
  /\ payment' = [payment EXCEPT ![c] = "PENDING"]
  /\ MoveCheckout(c, "link")
  /\ UNCHANGED <<orderVars, payVersion, payOrder, seenOrder, session, linked, provider,
                 eventLog, handlerVars, commission>>

InsertPayment(c) ==
  /\ checkoutPc[c] = "insert"
  /\ payment' = [payment EXCEPT ![c] = "PENDING"]
  /\ MoveCheckout(c, IF seenOrder[c] = "PENDING" THEN "order" ELSE "link")
  /\ UNCHANGED <<orderVars, payVersion, payOrder, seenOrder, session, linked, provider,
                 eventLog, handlerVars, commission>>

\* transition(order, PAYMENT_PENDING): its read, which may refuse ...
CheckoutReadOrder(c) ==
  /\ checkoutPc[c] = "order"
  /\ taskPc[c] = "idle"
  /\ \/ /\ ReadOrder(c, payOrder[c], "PAYMENT_PENDING")
        /\ UNCHANGED checkoutPc
     \/ /\ ~Accepts(payOrder[c], "PAYMENT_PENDING")
        /\ MoveCheckout(c, "failed")
        /\ UNCHANGED orderVars
  /\ UNCHANGED <<paymentDocs, payOrder, seenOrder, session, linked, provider, eventLog,
                 handlerVars, commission>>

\* ... and its compare-and-set, which may lose.
CheckoutSwapOrder(c) ==
  /\ checkoutPc[c] = "order"
  /\ SwapStatus(c)
  /\ MoveCheckout(c, IF Unchanged(c) THEN "link" ELSE "failed")
  /\ UNCHANGED <<paymentDocs, payOrder, seenOrder, session, linked, provider, eventLog,
                 handlerVars, commission>>

LinkPayment(c) ==
  /\ checkoutPc[c] = "link"
  /\ linked' = [linked EXCEPT ![payOrder[c]] = c]
  /\ MoveCheckout(c, "done")
  /\ UNCHANGED <<orderVars, paymentDocs, payOrder, seenOrder, session, provider, eventLog,
                 handlerVars, commission>>

AbandonCheckout(c) ==
  /\ checkoutPc[c] \in {"find", "provider", "insert", "order", "link"}
  /\ abandons < MaxAbandons
  /\ abandons' = abandons + 1
  /\ EndTask(c)
  /\ MoveCheckout(c, "abandoned")
  /\ UNCHANGED <<docs, requests, indexed, paymentDocs, payOrder, seenOrder, session, linked,
                 provider, eventLog, handlerVars, commission>>

-----------------------------------------------------------------------------
\* The provider

\* The customer can pay once the checkout request has returned its session.
Reachable(c) == checkoutPc[c] = "done"

EventOf(c, k) == [payment |-> session[c], txn |-> c, kind |-> k]

\* What the provider can still make of a charge.
ChargeAllowed ==
  [none |-> {},
   open |-> {"processing", "succeeded", "failed", "cancelled"},
   processing |-> {"succeeded", "failed", "cancelled"},
   failed |-> {"processing"},
   succeeded |-> {"refunded"},
   cancelled |-> {},
   refunded |-> {}]

\* The charge takes status s and the event saying so is emitted.  An unpaid
\* session can lapse even if no customer ever saw it.
Charge(c, s) ==
  /\ s \in ChargeAllowed[charge[c]]
  /\ Reachable(c) \/ s = "cancelled"
  /\ EventOf(c, s) \in Events \ sent /\ Cardinality(sent) < MaxEvents
  /\ charge' = [charge EXCEPT ![c] = s]
  /\ sent' = sent \union {EventOf(c, s)}
  /\ UNCHANGED <<orderVars, paymentDocs, checkoutVars, eventLog, handlerVars, commission>>

\* A success reported with a wrong figure, or an event about something else.
Stray(c, k) ==
  /\ charge[c] # "none"
  /\ k = "mispriced" => Reachable(c)
  /\ EventOf(c, k) \in Events \ sent /\ Cardinality(sent) < MaxEvents
  /\ sent' = sent \union {EventOf(c, k)}
  /\ UNCHANGED <<orderVars, paymentDocs, checkoutVars, charge, eventLog, handlerVars,
                 commission>>

-----------------------------------------------------------------------------
\* handle_webhook

MoveHandler(h, pc) == hpc' = [hpc EXCEPT ![h] = pc]

\* The handler answers and is free again.
Respond(h) ==
  /\ MoveHandler(h, "idle")
  /\ work' = [work EXCEPT ![h] = NoWork]

Acknowledge(e) == acked' = acked \union {e}

\* Gate 1 refuses a delivery that is too old, and logs it under the event's id.
RefuseSignature(e) ==
  /\ Late
  /\ e \in sent \ acked
  /\ row[e] = Absent
  /\ row' = [row EXCEPT ![e] = "signature"]
  /\ UNCHANGED <<orderVars, paymentDocs, checkoutVars, provider, acked, handlerVars,
                 commission>>

\* Mutation of Receive: a duplicate is answered 409.
RefuseDuplicate(h, e) ==
  /\ hpc[h] = "idle"
  /\ e \in sent \ acked
  /\ row[e] = Absent
  /\ MoveHandler(h, "record")
  /\ work' = [work EXCEPT ![h] = [NoWork EXCEPT !.event = e]]
  /\ UNCHANGED <<orderVars, paymentDocs, checkoutVars, provider, eventLog, commission>>

\* Gate 2, the read: an event with a row is a duplicate, answered 200.
Receive(h, e) ==
  /\ hpc[h] = "idle"
  /\ e \in sent \ acked
  /\ \/ /\ row[e] # Absent
        /\ Acknowledge(e)
        /\ UNCHANGED handlerVars
     \/ /\ row[e] = Absent
        /\ MoveHandler(h, "record")
        /\ work' = [work EXCEPT ![h] = [NoWork EXCEPT !.event = e]]
        /\ UNCHANGED acked
  /\ UNCHANGED <<orderVars, paymentDocs, checkoutVars, provider, row, commission>>

\* Gate 2, the unique index: the loser of two racing inserts is a duplicate too.
RecordEvent(h) ==
  /\ hpc[h] = "record"
  /\ LET e == work[h].event IN
       \/ /\ row[e] # Absent
          /\ Acknowledge(e)
          /\ Respond(h)
          /\ UNCHANGED row
       \/ /\ row[e] = Absent
          /\ row' = [row EXCEPT ![e] = "open"]
          /\ MoveHandler(h, "read")
          /\ UNCHANGED <<acked, work>>
  /\ UNCHANGED <<orderVars, paymentDocs, checkoutVars, provider, commission>>

\* Gates 3 to 6 on the payment as it is read now.
PassesGates(e) ==
  /\ payment[e.payment] # Absent
  /\ e.kind # "mispriced"
  /\ TargetOf[e.kind] \in PaymentAllowed[payment[e.payment]]

\* Mutation of ReadPayment: gates 4 and 5, the amount and the currency, are missing.
UngatedRead(h) ==
  /\ hpc[h] = "read"
  /\ LET e == work[h].event IN
       /\ payment[e.payment] # Absent
       /\ TargetOf[e.kind] \in PaymentAllowed[payment[e.payment]]
       /\ MoveHandler(h, "swap")
       /\ work' = [work EXCEPT ![h] = [event |-> e, status |-> payment[e.payment],
                                       version |-> payVersion[e.payment]]]
  /\ UNCHANGED <<orderVars, paymentDocs, checkoutVars, provider, eventLog, commission>>

ReadPayment(h) ==
  /\ hpc[h] = "read"
  /\ LET e == work[h].event IN
       \/ /\ PassesGates(e)
          /\ MoveHandler(h, "swap")
          /\ work' = [work EXCEPT ![h] = [event |-> e, status |-> payment[e.payment],
                                          version |-> payVersion[e.payment]]]
       \/ /\ e.kind = "unhandled" /\ payment[e.payment] # Absent
          /\ MoveHandler(h, "ignore")
          /\ UNCHANGED work
       \/ /\ ~PassesGates(e)
          /\ ~(e.kind = "unhandled" /\ payment[e.payment] # Absent)
          /\ MoveHandler(h, "reject")
          /\ UNCHANGED work
  /\ UNCHANGED <<orderVars, paymentDocs, checkoutVars, provider, eventLog, commission>>

\* Close the row and answer 4xx: the provider will send the event again.
RejectEvent(h) ==
  /\ hpc[h] = "reject"
  /\ row' = [row EXCEPT ![work[h].event] = "rejected"]
  /\ Respond(h)
  /\ UNCHANGED <<orderVars, paymentDocs, checkoutVars, provider, acked, commission>>

IgnoreEvent(h) ==
  /\ hpc[h] = "ignore"
  /\ row' = [row EXCEPT ![work[h].event] = "ignored"]
  /\ Acknowledge(work[h].event)
  /\ Respond(h)
  /\ UNCHANGED <<orderVars, paymentDocs, checkoutVars, provider, commission>>

\* Mutation of SwapPayment: every applied event settles.
SwapAndSettleAll(h) ==
  /\ hpc[h] = "swap"
  /\ LET w == work[h]
         p == w.event.payment
     IN /\ payment[p] = w.status /\ payVersion[p] = w.version
        /\ payment' = [payment EXCEPT ![p] = TargetOf[w.event.kind]]
        /\ payVersion' = [payVersion EXCEPT ![p] = @ + 1]
        /\ MoveHandler(h, "settle")
  /\ UNCHANGED <<orderVars, checkoutVars, provider, eventLog, work, commission>>

\* Compare-and-set on the payment's status and version.
SwapPayment(h) ==
  /\ hpc[h] = "swap"
  /\ LET w == work[h]
         p == w.event.payment
     IN \/ /\ payment[p] = w.status /\ payVersion[p] = w.version
           /\ payment' = [payment EXCEPT ![p] = TargetOf[w.event.kind]]
           /\ payVersion' = [payVersion EXCEPT ![p] = @ + 1]
           /\ MoveHandler(h, IF TargetOf[w.event.kind] = "PAID" THEN "settle" ELSE "finish")
        \/ /\ ~(payment[p] = w.status /\ payVersion[p] = w.version)
           /\ MoveHandler(h, "reject")
           /\ UNCHANGED paymentDocs
  /\ UNCHANGED <<orderVars, checkoutVars, provider, eventLog, work, commission>>

\* The order a handler's payment is for.
OrderOf(h) == payOrder[work[h].event.payment]

\* Mutation of SettleReadOrder: a refused transition does not stop the settlement.
SwallowRefusal(h) ==
  /\ hpc[h] = "settle"
  /\ \/ /\ ReadOrder(h, OrderOf(h), "PAID")
        /\ MoveHandler(h, "order")
     \/ /\ ~Accepts(OrderOf(h), "PAID")
        /\ MoveHandler(h, "sale")
        /\ UNCHANGED orderVars
  /\ UNCHANGED <<paymentDocs, checkoutVars, provider, eventLog, work, commission>>

\* _settle: transition(order, PAID).  A refusal or a lost compare-and-set leaves
\* the handler through an exception: 409, and the event's row stays open.
SettleReadOrder(h) ==
  /\ hpc[h] = "settle"
  /\ \/ /\ ReadOrder(h, OrderOf(h), "PAID")
        /\ MoveHandler(h, "order")
        /\ UNCHANGED work
     \/ /\ ~Accepts(OrderOf(h), "PAID")
        /\ Respond(h)
        /\ UNCHANGED orderVars
  /\ UNCHANGED <<paymentDocs, checkoutVars, provider, eventLog, commission>>

SettleSwapOrder(h) ==
  /\ hpc[h] = "order"
  /\ SwapStatus(h)
  /\ \/ Unchanged(h) /\ UNCHANGED handlerVars
     \/ ~Unchanged(h) /\ Respond(h)
  /\ UNCHANGED <<paymentDocs, checkoutVars, provider, eventLog, commission>>

SettleVehicle(h) ==
  /\ hpc[h] = "order"
  /\ ReleaseOrSell(h)
  /\ MoveHandler(h, "sale")
  /\ UNCHANGED <<paymentDocs, checkoutVars, provider, eventLog, work, commission>>

\* Read order and vehicle again.  Without the order there is no commission, and the event
\* has been applied all the same.  (Nothing removes vehicle documents.)
ReadSale(h) ==
  /\ hpc[h] = "sale"
  /\ \/ order[OrderOf(h)] = Absent /\ MoveHandler(h, "finish")
     \/ order[OrderOf(h)] # Absent /\ MoveHandler(h, "book")
  /\ UNCHANGED <<orderVars, paymentDocs, checkoutVars, provider, eventLog, work, commission>>

\* Insert the commission row, split or flagged for review, under the terms the vehicle
\* carries; a second one for the order is refused by the unique index and ignored.
BookCommission(h) ==
  /\ hpc[h] = "book"
  /\ \/ /\ commission[OrderOf(h)] = None
        /\ \E terms \in Terms :
             commission' = [commission EXCEPT ![OrderOf(h)] = Document(OrderTotal, terms)]
     \/ /\ commission[OrderOf(h)] # None
        /\ UNCHANGED commission
  /\ MoveHandler(h, "finish")
  /\ UNCHANGED <<orderVars, paymentDocs, checkoutVars, provider, eventLog, work>>

FinishEvent(h) ==
  /\ hpc[h] = "finish"
  /\ row' = [row EXCEPT ![work[h].event] = "applied"]
  /\ Acknowledge(work[h].event)
  /\ Respond(h)
  /\ UNCHANGED <<orderVars, paymentDocs, checkoutVars, provider, commission>>

AbandonHandler(h) ==
  /\ hpc[h] # "idle"
  /\ abandons < MaxAbandons
  /\ abandons' = abandons + 1
  /\ EndTask(h)
  /\ Respond(h)
  /\ UNCHANGED <<docs, requests, indexed, paymentDocs, checkoutVars, provider, eventLog,
                 commission>>

-----------------------------------------------------------------------------
CheckoutStep(c) ==
  FindPayment(c) \/ OpenSession(c) \/ InsertPayment(c) \/ CheckoutReadOrder(c)
  \/ CheckoutSwapOrder(c) \/ LinkPayment(c)

HandlerStep(h) ==
  RecordEvent(h) \/ ReadPayment(h) \/ RejectEvent(h) \/ IgnoreEvent(h) \/ SwapPayment(h)
  \/ SettleReadOrder(h) \/ SettleSwapOrder(h) \/ SettleVehicle(h) \/ ReadSale(h)
  \/ BookCommission(h) \/ FinishEvent(h)

\* Orders placed by customers and cancelled by an operator, payments untouched.
OrderStep ==
  /\ \/ \E o \in Orders, v \in Vehicles : ReadVehicle(o, v)
     \/ \E o \in Orders : CreateStep(o) \/ AbandonCreate(o)
     \/ \E t \in Staff, o \in Orders, s \in Targets : ReadOrder(t, o, s)
     \/ \E t \in Staff : TaskStep(t) \/ AbandonTask(t)
     \/ BuildIndexes
  /\ UNCHANGED payVars

ProviderStep ==
  \E c \in Checkouts :
    \/ \E s \in {"processing", "succeeded", "failed", "cancelled", "refunded"} : Charge(c, s)
    \/ \E k \in {"mispriced", "unhandled"} : Stray(c, k)

PaymentsNext ==
  \/ OrderStep
  \/ \E c \in Checkouts, o \in Orders : OpenCheckout(c, o)
  \/ \E c \in Checkouts : CheckoutStep(c) \/ AbandonCheckout(c)
  \/ ProviderStep
  \/ \E e \in Events : RefuseSignature(e)
  \/ \E h \in Handlers, e \in Events : Receive(h, e)
  \/ \E h \in Handlers : HandlerStep(h) \/ AbandonHandler(h)

PaymentsSpec == PaymentsInit /\ [][PaymentsNext]_allVars

\* Every started request runs on; the provider sends an event again and again
\* until it is acknowledged, and the server always has room for one more request.
\* The customer never has to pay and the operator never has to act.
PaymentsFairness ==
  /\ \A o \in Orders : WF_allVars(CreateStep(o) /\ UNCHANGED payVars)
  /\ \A t \in Staff : WF_allVars(TaskStep(t) /\ UNCHANGED payVars)
  /\ \A c \in Checkouts : WF_allVars(CheckoutStep(c))
  /\ \A h \in Handlers : WF_allVars(HandlerStep(h))
  /\ \A c \in Checkouts, k \in Kinds :
       SF_allVars(\E h \in Handlers : Receive(h, EventOf(c, k)))

FairPaymentsSpec == PaymentsSpec /\ PaymentsFairness

-----------------------------------------------------------------------------
\* Properties

\* Every variable, the order service's included, stays in its type.
PaymentsTypeOK ==
  /\ TypeOK
  /\ payment \in [Checkouts -> PaymentStatus \union {Absent}]
  /\ payVersion \in [Checkouts -> Nat]
  /\ payOrder \in [Checkouts -> Orders \union {None}]
  /\ checkoutPc \in [Checkouts -> CheckoutPc]
  /\ seenOrder \in [Checkouts -> OrderStatus \union {Absent}]
  /\ session \in [Checkouts -> Checkouts \union {None}]
  /\ linked \in [Orders -> Checkouts \union {None}]
  /\ charge \in [Checkouts -> ChargeStatus]
  /\ sent \subseteq Events
  /\ row \in [Events -> Outcomes]
  /\ acked \subseteq Events
  /\ hpc \in [Handlers -> HandlerPc]
  /\ work \in [Handlers -> [event : Events \union {None},
                            status : PaymentStatus \union {Absent}, version : Nat]]
  /\ commission \in [Orders -> {Document(OrderTotal, t) : t \in Terms} \union {None}]

Collected(p) == payment[p] \in {"PAID", "REFUNDED"}

\* A payment is recorded as PAID only for money the provider really collected, in one of
\* its sessions and in the recorded amount: the signature, amount and state-machine gates
\* together.
PaidMeansCharged ==
  \A p \in Checkouts :
    Collected(p) =>
      \E c \in Checkouts : session[c] = p /\ charge[c] \in {"succeeded", "refunded"}

\* No order counts as bought without a payment of its own that was PAID, whatever
\* interleaves and whichever requests die.
BoughtMeansPaid ==
  \A o \in Orders :
    order[o] \in BoughtStatuses => \E p \in Checkouts : payOrder[p] = o /\ Collected(p)

\* End to end: a vehicle leaves the market only for an order of that vehicle
\* whose payment the provider collected.
SoldMeansCollected ==
  \A v \in Vehicles :
    vehicle[v] = "SOLD" =>
      \E p \in Checkouts : \E o \in Orders :
        payOrder[p] = o /\ wanted[o] = v /\ Collected(p) /\ order[o] \in BoughtStatuses

\* The handler is past the order's move to PAID.
Settling(h) == (hpc[h] = "order" /\ taskPc[h] = "vehicle") \/ hpc[h] \in {"sale", "book"}

\* Revenue is booked once even without the unique index on commissions: one
\* handler at most settles an order, and it finds no commission row.
SettledOnce ==
  \A h \in Handlers :
    Settling(h) =>
      /\ commission[OrderOf(h)] = None
      /\ \A g \in Handlers \ {h} : Settling(g) => OrderOf(g) # OrderOf(h)

\* What the event log calls applied has happened in full: a success has sold the
\* vehicle to its order and booked the commission.
AppliedMeansSettled ==
  \A e \in Events :
    row[e] = "applied" /\ TargetOf[e.kind] = "PAID" =>
      LET o == payOrder[e.payment] IN
        /\ Collected(e.payment)
        /\ order[o] \in BoughtStatuses
        /\ \E v \in Vehicles : wanted[o] = v /\ vehicle[v] = "SOLD"
        /\ commission[o] # None

\* A commission row belongs to a bought order with its vehicle sold.
CommissionMeansSold ==
  \A o \in Orders :
    commission[o] # None =>
      order[o] \in BoughtStatuses /\ \E v \in Vehicles : wanted[o] = v /\ vehicle[v] = "SOLD"

\* Every booked row accounts for its sale under some seller's terms (Commission.tla).
LedgerBalances ==
  \A o \in Orders :
    commission[o] # None =>
      \E terms \in Terms : Balances(commission[o], OrderTotal, terms)

\* Order o is bought, its vehicle sold and its revenue booked.
Settled(o) ==
  /\ order[o] \in BoughtStatuses /\ commission[o] # None
  /\ \E v \in Vehicles : wanted[o] = v /\ vehicle[v] = "SOLD"

\* Money has been collected for a payment that is still open, its success is new to the
\* webhook, and the request that inserted the payment has been answered.
Due(c) ==
  /\ charge[c] = "succeeded"
  /\ row[EventOf(c, "succeeded")] = Absent
  /\ payment[session[c]] \in OpenStatuses
  /\ checkoutPc[session[c]] \in {"done", "failed"}

\* The payment of transaction c has another one that came to nothing.
OtherFailed(c) ==
  \E d \in Checkouts \ {c} : session[d] = session[c] /\ charge[d] \in {"failed", "cancelled"}

\* Collected money that is due is settled in the end, order, vehicle and ledger, whatever
\* other payments, sessions and events the order has, unless the order was cancelled, the
\* delivery of the success was refused for its age, or another session of the same payment
\* failed and took the payment along.  (Money paid before the first checkout was answered:
\* PaidPaymentSettlesOrder.  A provider that also reports "processing" can lose the
\* success: AcknowledgedSuccessIsRecorded.  Paid twice in two sessions of one payment: the
\* second success finds the payment no longer open.)
ChargeIsSettled ==
  \A c \in Checkouts :
    Due(c) ~>
      \/ \E o \in Orders : payOrder[c] = o /\ (Settled(o) \/ order[o] = "CANCELLED")
      \/ \E p \in Checkouts :
           row[[payment |-> p, txn |-> c, kind |-> "succeeded"]] = "signature"
      \/ OtherFailed(c)

\* Again and again the provider has nothing left to send: every event is acknowledged in
\* the end, whatever its outcome.
EveryEventAcknowledged == []<>(sent \subseteq acked)

\* "200, so the provider stops retrying. From its side this succeeded.": a success
\* acknowledged, and out of every handler, has been recorded on its payment.
AcknowledgedSuccessIsRecorded ==
  \A e \in acked :
    e.kind = "succeeded" /\ (\A h \in Handlers : work[h].event # e) => Collected(e.payment)

\* "Keep the vehicle's status in step with the order that holds it": a vehicle that was
\* sold has the order it was sold to.
SoldVehicleHasOrder ==
  \A v \in Vehicles :
    vehicle[v] = "SOLD" => \E o \in Orders : wanted[o] = v /\ order[o] \in BoughtStatuses

\* "PAID -> order PAID": once no handler is settling a PAID payment any more, its
\* order is bought, as long as no request died and nobody cancelled the order.
PaidPaymentSettlesOrder ==
  \A p \in Checkouts :
    /\ payment[p] = "PAID" /\ abandons = 0
    /\ \A h \in Handlers : ~(hpc[h] \in {"settle", "order"} /\ work[h].event.payment = p)
    /\ order[payOrder[p]] # "CANCELLED"
    => order[payOrder[p]] \in BoughtStatuses
=============================================================================

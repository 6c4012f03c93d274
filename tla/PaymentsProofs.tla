--------------------------- MODULE PaymentsProofs ---------------------------
(***************************************************************************)
(* Theorems about the payment service on top of the order service, for any *)
(* number of orders, checkouts, webhook deliveries and operators' calls,   *)
(* any set of event kinds and any number of requests that die.             *)
(***************************************************************************)
EXTENDS Payments, OrdersProofs

\* The document of a sale balances at every price, for every promise to the seller and
\* at every rate.

\* Basis points are rounded down to the franc.
LEMMA WholeFrancs ==
  ASSUME NEW p \in Int
  PROVE  /\ p \div 10000 \in Int
         /\ 10000 * (p \div 10000) <= p
         /\ p < 10000 * (p \div 10000 + 1)
BY SMT

\* The rate that applies is a natural number.
LEMMA BpsType ==
  ASSUME NEW terms \in [expected : Nat, bps : Nat \union {Unknown}]
  PROVE  CommissionBps(terms) \in Nat
BY CommissionAssumption DEF CommissionBps

\* A split accounts for the sale, to the franc.
LEMMA SplitBalances ==
  ASSUME NEW gross \in Int, NEW terms \in [expected : Nat, bps : Nat \union {Unknown}],
         Splits(gross, terms.expected, CommissionBps(terms))
  PROVE  Balances(Document(gross, terms), gross, terms)
<1> DEFINE bps == CommissionBps(terms)
           expected == terms.expected
           doc == Document(gross, terms)
           minimum == (gross * bps) \div 10000
           fees == (gross * PaymentFeeBps) \div 10000 + PaymentFeeFixed
<1>1. bps \in Nat /\ expected \in Nat /\ gross * bps \in Int
  BY BpsType
<1>2. /\ minimum \in Int
      /\ gross * bps < 10000 * (minimum + 1)
  BY <1>1, WholeFrancs
<1>3. gross - expected >= minimum /\ expected <= gross
  BY <1>1 DEF Splits, MinimumCommission
<1>4. fees \in Int
  BY CommissionAssumption, WholeFrancs
<1>5. doc = [gross |-> gross, settlement |-> expected, commission |-> gross - expected,
             fees |-> fees, net |-> gross - expected - fees, bps |-> bps,
             status |-> "PENDING"]
  BY DEF Document, Breakdown
<1>6. /\ doc.gross = gross /\ doc.status = "PENDING" /\ doc.settlement = expected
      /\ doc.commission = gross - expected
      /\ doc.fees = fees /\ doc.net = gross - expected - fees
  BY <1>5
<1> HIDE DEF bps, expected, doc, minimum, fees
<1>7. /\ doc.settlement + doc.commission = gross
      /\ doc.commission >= 0
      /\ doc.net + doc.fees = doc.commission
  BY <1>1, <1>3, <1>4, <1>6
<1>8. 10000 * (doc.commission + 1) > gross * bps
  <2> DEFINE p == gross * bps
  <2>1. p \in Int /\ p < 10000 * (minimum + 1)
    BY <1>1, <1>2
  <2> HIDE DEF p
  <2>2. 10000 * (gross - expected + 1) > p
    BY <1>1, <1>2, <1>3, <2>1
  <2> QED
    BY <1>6, <2>2 DEF p
<1> QED
  BY <1>6, <1>7, <1>8 DEF Balances, bps, expected, doc

\* A sale is left to a person only when no split would have done.
LEMMA ReviewBalances ==
  ASSUME NEW gross \in Int, NEW terms \in [expected : Nat, bps : Nat \union {Unknown}],
         ~Splits(gross, terms.expected, CommissionBps(terms))
  PROVE  Balances(Document(gross, terms), gross, terms)
<1> DEFINE bps == CommissionBps(terms)
           expected == terms.expected
           doc == Document(gross, terms)
           p == gross * bps
<1>1. bps \in Nat /\ expected \in Nat /\ p \in Int
  BY BpsType
<1>2. doc.gross = gross /\ doc.status = "NEEDS_REVIEW" /\ doc.settlement = Unknown
  BY DEF Document, Unallocated
<1>3. gross <= 0 \/ expected > gross \/ gross - expected < p \div 10000
  BY <1>1, WholeFrancs DEF Splits, MinimumCommission
<1>4. ASSUME gross - expected < p \div 10000
      PROVE  10000 * (gross - expected) < p
  <2> HIDE DEF p, expected
  <2>1. p \div 10000 \in Int /\ 10000 * (p \div 10000) <= p
    BY <1>1, WholeFrancs
  <2> QED
    BY <1>1, <1>4, <2>1
<1> QED
  BY <1>2, <1>3, <1>4 DEF Balances

\* The document of a sale balances: at any price, the ones that cannot be split included,
\* the row shares out exactly the gross amount, the seller gets what was expected, and
\* less than a franc of the rate is lost to rounding (calculate, _book_commission).
THEOREM DocumentBalances ==
  ASSUME NEW gross \in Int, NEW terms \in [expected : Nat, bps : Nat \union {Unknown}]
  PROVE  Balances(Document(gross, terms), gross, terms)
BY SplitBalances, ReviewBalances

-----------------------------------------------------------------------------
\* The service.

\* A checkout has an order once it is under way, and a payment and a session at the
\* provider no sooner than it opens them.
CheckoutsOK ==
  \A c \in Checkouts :
    /\ checkoutPc[c] # "idle" => payOrder[c] \in Orders
    /\ checkoutPc[c] \in {"idle", "find", "provider", "insert"} => payment[c] = Absent
    /\ checkoutPc[c] \in {"idle", "find", "provider"} => charge[c] = "none"

\* Who asks transition() for what: only a webhook handler that is settling asks for PAID,
\* and it asks for the order of its payment.
CallsOK ==
  /\ \A c \in Checkouts : taskPc[c] # "idle" => job[c].target = "PAYMENT_PENDING"
  /\ \A h \in Handlers :
       taskPc[h] # "idle" =>
         hpc[h] = "order" /\ job[h].target = "PAID" /\ job[h].order = OrderOf(h)
  /\ \A t \in Staff : taskPc[t] # "idle" => job[t].target \in Targets

\* A handler works on an event that was sent; one about to write has seen it pass the
\* gates, and one that settles has collected the payment.
HandlersOK ==
  \A h \in Handlers :
    /\ hpc[h] # "idle" => work[h].event \in sent
    /\ hpc[h] = "swap" =>
         /\ work[h].status \in PaymentStatus
         /\ TargetOf[work[h].event.kind] \in PaymentAllowed[work[h].status]
         /\ work[h].event.kind # "mispriced"
    /\ hpc[h] \in {"settle", "order", "sale", "book"} => Collected(work[h].event.payment)

\* The provider says it has the money only when it has, and for the payment it opened the
\* session for.
ChargesOK ==
  \A e \in sent :
    e.kind = "succeeded" =>
      charge[e.txn] \in {"succeeded", "refunded"} /\ session[e.txn] = e.payment

\* The invariants made inductive.
PayInv ==
  /\ IndexInv /\ PaymentsTypeOK
  /\ CheckoutsOK /\ CallsOK /\ HandlersOK /\ ChargesOK
  /\ PaidMeansCharged /\ BoughtMeansPaid

\* What an event can do to a payment the gates let it move.
LEMMA TargetFacts ==
  ASSUME NEW k \in EventKinds, NEW s \in PaymentStatus, TargetOf[k] \in PaymentAllowed[s]
  PROVE  /\ TargetOf[k] \in PaymentStatus
         /\ TargetOf[k] = "PAID" => k \in {"succeeded", "mispriced"}
         /\ TargetOf[k] = "REFUNDED" => s = "PAID"
         /\ s \in {"PAID", "REFUNDED"} => TargetOf[k] = "REFUNDED"
BY DEF EventKinds, PaymentStatus, TargetOf, PaymentAllowed, Absent

\* What a charge becomes once the money was collected.
LEMMA ChargeFacts ==
  ASSUME NEW a \in ChargeStatus, NEW b \in ChargeAllowed[a]
  PROVE  /\ b \in ChargeStatus
         /\ a \in {"succeeded", "refunded"} => b = "refunded"
BY DEF ChargeStatus, ChargeAllowed

\* An event names a payment, a session and a kind the handler knows.
LEMMA EventFacts ==
  ASSUME NEW e \in Events
  PROVE  e.payment \in Checkouts /\ e.txn \in Checkouts /\ e.kind \in EventKinds
BY PaymentsAssumption DEF Events

LEMMA InitPayInv == PaymentsInit => PayInv
<1> SUFFICES ASSUME PaymentsInit PROVE PayInv
  OBVIOUS
<1>1. IndexInv
  BY InitIndexInv DEF PaymentsInit
<1>2. PaymentsTypeOK
  BY <1>1 DEF IndexInv, PaymentsInit, PaymentsTypeOK, CheckoutPc, ChargeStatus, Outcomes,
              HandlerPc, NoWork
<1>3. CheckoutsOK /\ HandlersOK /\ ChargesOK
  BY DEF PaymentsInit, CheckoutsOK, HandlersOK, ChargesOK
<1>4. CallsOK
  BY PaymentsAssumption DEF PaymentsInit, OrdersInit, CallsOK, Staff
<1>5. PaidMeansCharged /\ BoughtMeansPaid
  BY DEF PaymentsInit, OrdersInit, PaidMeansCharged, BoughtMeansPaid, Collected,
         BoughtStatuses, Absent
<1> QED
  BY <1>1, <1>2, <1>3, <1>4, <1>5 DEF PayInv

-----------------------------------------------------------------------------
\* What the payment service's steps keep of the order service.

\* A step that leaves the order service alone keeps its invariant.
LEMMA OrdersAlone ==
  ASSUME IndexInv, UNCHANGED orderVars
  PROVE  IndexInv'
BY DEF IndexInv, TypeOK, RequestsOK, OneActiveOrder, Active, orderVars

\* So does a request that dies, inside transition() or not.
LEMMA DyingIndexInv ==
  ASSUME IndexInv, NEW t \in Tasks, EndTask(t), abandons < MaxAbandons,
         abandons' = abandons + 1, UNCHANGED <<docs, requests, indexed>>
  PROVE  IndexInv'
<1>1. UNCHANGED <<vehicle, order, version, wanted, creating, indexed>>
  BY DEF docs, requests
<1>2. TypeOK'
  BY <1>1, EndTaskType, OrdersAssumption DEF IndexInv, TypeOK
<1>3. RequestsOK'
  BY <1>1, EndTaskRequests DEF IndexInv
<1>4. OneActiveOrder'
  BY <1>1 DEF IndexInv, OneActiveOrder, Active
<1> QED
  BY <1>2, <1>3, <1>4 DEF IndexInv

\* Bought orders keep their payments while no order changes and no payment is lost.
LEMMA BoughtKept ==
  ASSUME BoughtMeansPaid, UNCHANGED order,
         \A p \in Checkouts : Collected(p) => Collected(p)' /\ payOrder'[p] = payOrder[p]
  PROVE  BoughtMeansPaid'
BY DEF BoughtMeansPaid

-----------------------------------------------------------------------------
\* Orders placed by customers and moved by operators.

\* The operators' calls neither pay for an order nor pass for a checkout's or a handler's.
LEMMA OrderStepCalls ==
  ASSUME PayInv, OrderStep
  PROVE  CallsOK'
<1> USE DEF PayInv, payVars
<1>1. CASE UNCHANGED tasks
  BY <1>1 DEF OrderStep, CallsOK, OrderOf, tasks
<1>2. ASSUME NEW t \in Staff, NEW o \in Orders, NEW s \in Targets, ReadOrder(t, o, s)
      PROVE  CallsOK'
  BY <1>2 DEF OrderStep, ReadOrder, CallsOK, OrderOf, Staff, IndexInv, TypeOK
<1>3. ASSUME NEW t \in Staff, TaskStep(t) \/ AbandonTask(t)
      PROVE  CallsOK'
  <2>1. /\ \A u \in Tasks \ {t} : taskPc'[u] = taskPc[u] /\ job'[u] = job[u]
        /\ taskPc'[t] # "idle" => taskPc[t] # "idle" /\ job'[t] = job[t]
    BY <1>3 DEF TaskStep, SwapStatus, WriteStatus, ReleaseOrSell, AbandonTask, EndTask,
                Staff, IndexInv, TypeOK
  <2>2. UNCHANGED <<hpc, work, payOrder>>
    BY DEF OrderStep
  <2> QED
    BY <2>1, <2>2, PaymentsAssumption DEF CallsOK, OrderOf, Staff
<1> QED
  BY <1>1, <1>2, <1>3
     DEF OrderStep, CreateStep, ReadVehicle, InsertOrder, ReserveVehicle, RollBack,
         AbandonCreate, BuildIndexes, tasks

\* A transition() call that was asked for something else than PAID makes no order a
\* bought one.
LEMMA OtherSwaps ==
  ASSUME IndexInv, BoughtMeansPaid, NEW t \in Tasks, SwapStatus(t), job[t].target # "PAID",
         UNCHANGED <<payment, payOrder>>
  PROVE  BoughtMeansPaid'
<1>1. CASE UNCHANGED order
  BY <1>1 DEF BoughtMeansPaid, Collected
<1>2. CASE Unchanged(t) /\ WriteStatus(t)
  <2> DEFINE o == job[t].order
  <2>1. /\ o \in Orders /\ order[o] \in OrderStatus
        /\ job[t].target \in OrderAllowed[order[o]]
    BY <1>2 DEF SwapStatus, Unchanged, IndexInv, RequestsOK, TypeOK
  <2>2. job[t].target \in BoughtStatuses => order[o] \in BoughtStatuses
    BY <2>1 DEF OrderStatus, OrderAllowed, BoughtStatuses
  <2>3. \A q \in Orders : order'[q] \in BoughtStatuses => order[q] \in BoughtStatuses
    BY <1>2, <2>1, <2>2 DEF WriteStatus, IndexInv, TypeOK
  <2> QED
    BY <2>3 DEF BoughtMeansPaid, Collected
<1> QED
  BY <1>1, <1>2 DEF SwapStatus

LEMMA OrderStepPayInv ==
  ASSUME PayInv, OrderStep
  PROVE  PayInv'
<1>1. UNCHANGED payVars
  BY DEF OrderStep
<1>2. IndexInv'
  <2>1. OrdersNext
    BY DEF OrderStep, OrdersNext, Staff
  <2> QED
    BY <2>1, StepIndexInv DEF PayInv
<1>3. PaymentsTypeOK'
  BY <1>1, <1>2 DEF PayInv, PaymentsTypeOK, IndexInv, payVars
<1>4. CheckoutsOK' /\ HandlersOK' /\ ChargesOK' /\ PaidMeansCharged'
  BY <1>1 DEF PayInv, CheckoutsOK, HandlersOK, ChargesOK, PaidMeansCharged, Collected, payVars
<1>5. BoughtMeansPaid'
  <2>1. UNCHANGED <<payment, payOrder>>
    BY <1>1 DEF payVars
  <2>2. CASE UNCHANGED order
    BY <2>1, <2>2 DEF PayInv, BoughtMeansPaid, Collected
  <2>3. ASSUME NEW o \in Orders, CreateStep(o) PROVE BoughtMeansPaid'
    <3>1. \A q \in Orders : order'[q] \in BoughtStatuses => order[q] \in BoughtStatuses
      BY <2>3 DEF CreateStep, InsertOrder, ReserveVehicle, RollBack, PayInv, IndexInv, TypeOK,
                  BoughtStatuses, Absent
    <3> QED
      BY <2>1, <3>1 DEF PayInv, BoughtMeansPaid, Collected
  <2>4. ASSUME NEW t \in Staff, SwapStatus(t) PROVE BoughtMeansPaid'
    <3>1. t \in Tasks /\ job[t].target # "PAID"
      BY <2>4, PaymentsAssumption DEF SwapStatus, PayInv, CallsOK, Staff
    <3> QED
      BY <2>1, <2>4, <3>1, OtherSwaps DEF PayInv
  <2> QED
    BY <2>2, <2>3, <2>4
       DEF OrderStep, ReadVehicle, AbandonCreate, ReadOrder, TaskStep, ReleaseOrSell,
           AbandonTask, BuildIndexes, docs
<1> QED
  BY <1>2, <1>3, <1>4, <1>5, OrderStepCalls DEF PayInv

-----------------------------------------------------------------------------
\* create_checkout_session

\* The calls under way mean what they meant as long as tasks, handlers and the orders of
\* payments stay.
LEMMA CallsAlone ==
  ASSUME CallsOK, UNCHANGED <<tasks, hpc, work>>,
         \A h \in Handlers : taskPc[h] # "idle" => OrderOf(h)' = OrderOf(h)
  PROVE  CallsOK'
BY DEF CallsOK, tasks

\* The event of a handler that is not idle is about a payment with a document or about
\* an order that is known, as far as it has read it.
LEMMA HandlerEvent ==
  ASSUME PayInv, NEW h \in Handlers, hpc[h] # "idle"
  PROVE  /\ work[h].event \in Events
         /\ work[h].event.payment \in Checkouts
         /\ work[h].event.kind \in EventKinds
BY EventFacts DEF PayInv, HandlersOK, PaymentsTypeOK

LEMMA OpenCheckoutPayInv ==
  ASSUME PayInv, NEW c \in Checkouts, NEW o \in Orders, OpenCheckout(c, o)
  PROVE  PayInv'
<1> USE DEF OpenCheckout, MoveCheckout, paymentDocs, provider, eventLog, handlerVars
<1>1. IndexInv'
  BY OrdersAlone DEF PayInv
<1>2. PaymentsTypeOK'
  BY <1>1 DEF PayInv, PaymentsTypeOK, IndexInv, TypeOK, CheckoutPc, orderVars
<1>3. CheckoutsOK' /\ HandlersOK' /\ ChargesOK' /\ PaidMeansCharged'
  BY DEF PayInv, PaymentsTypeOK, CheckoutsOK, HandlersOK, ChargesOK, PaidMeansCharged, Collected
<1>4. payment[c] = Absent
  BY DEF PayInv, CheckoutsOK
<1>5. ASSUME NEW h \in Handlers, taskPc[h] # "idle" PROVE OrderOf(h)' = OrderOf(h)
  <2>1. hpc[h] = "order" /\ Collected(work[h].event.payment)
    BY <1>5 DEF PayInv, CallsOK, HandlersOK
  <2>2. work[h].event.payment # c /\ work[h].event.payment \in Checkouts
    BY <1>4, <2>1, HandlerEvent DEF Collected, Absent
  <2> QED
    BY <2>2 DEF OrderOf, PayInv, PaymentsTypeOK
<1>6. CallsOK'
  BY <1>5, CallsAlone DEF PayInv, orderVars, tasks
<1>7. BoughtMeansPaid'
  <2>1. \A p \in Checkouts : Collected(p) => Collected(p)' /\ payOrder'[p] = payOrder[p]
    BY <1>4 DEF Collected, Absent, PayInv, PaymentsTypeOK
  <2> QED
    BY <1>4, <2>1 DEF PayInv, BoughtMeansPaid, orderVars
<1> QED
  BY <1>1, <1>2, <1>3, <1>6, <1>7 DEF PayInv

\* The steps of a checkout request that leave the order service alone.
LEMMA CheckoutAlonePayInv ==
  ASSUME PayInv, NEW c \in Checkouts,
         FindPayment(c) \/ OpenSession(c) \/ InsertPayment(c) \/ LinkPayment(c)
  PROVE  PayInv'
<1> USE DEF FindPayment, OpenSession, InsertPayment, LinkPayment, MoveCheckout, paymentDocs,
            provider, eventLog, handlerVars
<1>1. IndexInv' /\ UNCHANGED orderVars
  BY OrdersAlone DEF PayInv
<1>2. PaymentsTypeOK'
  <2>1. payOrder[c] \in Orders
    BY DEF PayInv, CheckoutsOK
  <2>2. OpenPayments(payOrder[c]) \subseteq Checkouts
    BY DEF OpenPayments
  <2> QED
    BY <1>1, <2>1, <2>2 DEF PayInv, PaymentsTypeOK, IndexInv, CheckoutPc, PaymentStatus, ChargeStatus
<1>3. CheckoutsOK'
  BY DEF PayInv, PaymentsTypeOK, CheckoutsOK
<1>4. \A p \in Checkouts : Collected(p)' <=> Collected(p)
  BY DEF PayInv, PaymentsTypeOK, CheckoutsOK, Collected, Absent
<1>5. HandlersOK'
  BY <1>4, HandlerEvent DEF PayInv, HandlersOK
<1>6. CallsOK'
  BY <1>1 DEF PayInv, CallsOK, OrderOf, orderVars
<1>7. BoughtMeansPaid'
  BY <1>1, <1>4 DEF PayInv, BoughtMeansPaid, orderVars
<1>8. /\ sent' = sent
      /\ \A d \in Checkouts :
           charge[d] # "none" => charge'[d] = charge[d] /\ session'[d] = session[d]
  BY DEF PayInv, PaymentsTypeOK, CheckoutsOK
<1>9. ChargesOK'
  <2> SUFFICES ASSUME NEW e \in sent, e.kind = "succeeded"
               PROVE  charge'[e.txn] \in {"succeeded", "refunded"} /\ session'[e.txn] = e.payment
    BY <1>8 DEF ChargesOK
  <2>1. e.txn \in Checkouts
    BY EventFacts DEF PayInv, PaymentsTypeOK
  <2>2. charge[e.txn] \in {"succeeded", "refunded"} /\ session[e.txn] = e.payment
    BY DEF PayInv, ChargesOK
  <2> QED
    BY <1>8, <2>1, <2>2
<1>10. PaidMeansCharged'
  <2> SUFFICES ASSUME NEW p \in Checkouts, Collected(p)
               PROVE  \E d \in Checkouts :
                        session'[d] = p /\ charge'[d] \in {"succeeded", "refunded"}
    BY <1>4 DEF PaidMeansCharged
  <2>1. PICK d \in Checkouts : session[d] = p /\ charge[d] \in {"succeeded", "refunded"}
    BY DEF PayInv, PaidMeansCharged
  <2> QED
    BY <1>8, <2>1
<1> QED
  BY <1>1, <1>2, <1>3, <1>5, <1>6, <1>7, <1>9, <1>10 DEF PayInv

\* Inside transition(order, PAYMENT_PENDING), and a checkout that dies anywhere.
LEMMA CheckoutCallPayInv ==
  ASSUME PayInv, NEW c \in Checkouts,
         CheckoutReadOrder(c) \/ CheckoutSwapOrder(c) \/ AbandonCheckout(c)
  PROVE  PayInv'
<1> USE DEF CheckoutReadOrder, CheckoutSwapOrder, AbandonCheckout, MoveCheckout,
            paymentDocs, provider, eventLog, handlerVars
<1>0. c \in Tasks /\ c \notin Handlers /\ c \notin Staff
  BY PaymentsAssumption DEF Staff
<1>1. IndexInv'
  <2>1. CASE CheckoutReadOrder(c)
    <3>1. payOrder[c] \in Orders
      BY <2>1 DEF PayInv, CheckoutsOK
    <3> QED
      BY <1>0, <2>1, <3>1, OrdersAlone, ReadOrderIndexInv DEF PayInv
  <2>2. CASE CheckoutSwapOrder(c)
    BY <1>0, <2>2, SwapStatusIndexInv DEF PayInv
  <2>3. CASE AbandonCheckout(c)
    BY <1>0, <2>3, DyingIndexInv DEF PayInv
  <2> QED
    BY <2>1, <2>2, <2>3
<1>2. UNCHANGED <<payment, payVersion, payOrder, seenOrder, session, linked, charge, sent,
                  row, acked, hpc, work, commission>>
  OBVIOUS
<1>3. PaymentsTypeOK'
  BY <1>1, <1>2 DEF PayInv, PaymentsTypeOK, IndexInv, CheckoutPc
<1>4. CheckoutsOK'
  BY <1>2 DEF PayInv, PaymentsTypeOK, CheckoutsOK
<1>5. HandlersOK' /\ ChargesOK' /\ PaidMeansCharged'
  BY <1>2 DEF PayInv, HandlersOK, ChargesOK, PaidMeansCharged, Collected
<1>6. CallsOK'
  <2>1. \A t \in Tasks \ {c} : taskPc'[t] = taskPc[t] /\ job'[t] = job[t]
    BY <1>0 DEF ReadOrder, SwapStatus, WriteStatus, EndTask, PayInv, IndexInv, TypeOK,
                orderVars, tasks
  <2>2. taskPc'[c] # "idle" => job'[c].target = "PAYMENT_PENDING"
    BY <1>0 DEF ReadOrder, SwapStatus, WriteStatus, EndTask, PayInv, CallsOK, IndexInv,
                TypeOK, orderVars, tasks
  <2> QED
    BY <1>0, <1>2, <2>1, <2>2, PaymentsAssumption DEF PayInv, CallsOK, OrderOf, Staff
<1>7. BoughtMeansPaid'
  <2>1. CASE CheckoutSwapOrder(c)
    <3>1. job[c].target # "PAID"
      BY <2>1 DEF SwapStatus, PayInv, CallsOK
    <3> QED
      BY <1>0, <1>2, <2>1, <3>1, OtherSwaps DEF PayInv
  <2>2. CASE UNCHANGED order
    BY <1>2, <2>2 DEF PayInv, BoughtMeansPaid, Collected
  <2> QED
    BY <2>1, <2>2 DEF ReadOrder, orderVars, docs
<1> QED
  BY <1>1, <1>3, <1>4, <1>5, <1>6, <1>7 DEF PayInv

-----------------------------------------------------------------------------
\* The provider

\* A step that changes neither requests nor documents keeps what is known about them.
LEMMA RequestsAlone ==
  ASSUME PayInv, UNCHANGED <<orderVars, paymentDocs, checkoutPc, payOrder, handlerVars>>
  PROVE  IndexInv' /\ CallsOK' /\ BoughtMeansPaid'
<1>1. IndexInv'
  BY OrdersAlone DEF PayInv
<1>2. CallsOK' /\ BoughtMeansPaid'
  BY DEF PayInv, CallsOK, OrderOf, BoughtMeansPaid, Collected, orderVars, paymentDocs, handlerVars
<1> QED
  BY <1>1, <1>2

LEMMA ProviderPayInv ==
  ASSUME PayInv, ProviderStep
  PROVE  PayInv'
<1>1. UNCHANGED <<orderVars, paymentDocs, checkoutVars, eventLog, handlerVars, commission>>
  BY DEF ProviderStep, Charge, Stray
<1>2. IndexInv' /\ CallsOK' /\ BoughtMeansPaid'
  BY <1>1, RequestsAlone DEF checkoutVars
<1>3. sent \subseteq sent' /\ sent' \subseteq Events
  BY DEF ProviderStep, Charge, Stray, PayInv, PaymentsTypeOK
<1>4. HandlersOK'
  BY <1>1, <1>3 DEF PayInv, HandlersOK, Collected, paymentDocs, handlerVars
<1>5. ASSUME NEW p \in Checkouts, NEW s \in ChargeAllowed[charge[p]], Charge(p, s)
      PROVE  PaymentsTypeOK' /\ CheckoutsOK' /\ ChargesOK' /\ PaidMeansCharged'
  <2>1. /\ s \in ChargeStatus
        /\ charge[p] \in {"succeeded", "refunded"} => s = "refunded"
        /\ charge[p] # "none"
    BY ChargeFacts DEF PayInv, PaymentsTypeOK, ChargeAllowed
  <2>2. charge' = [charge EXCEPT ![p] = s]
    BY <1>5 DEF Charge
  <2>3. PaymentsTypeOK'
    BY <1>1, <1>2, <1>3, <2>1, <2>2
       DEF PayInv, PaymentsTypeOK, IndexInv, paymentDocs, checkoutVars, eventLog, handlerVars
  <2>4. CheckoutsOK'
    BY <1>1, <2>1, <2>2 DEF PayInv, PaymentsTypeOK, CheckoutsOK, paymentDocs, checkoutVars
  <2>5. \A q \in Checkouts :
          charge[q] \in {"succeeded", "refunded"} => charge'[q] \in {"succeeded", "refunded"}
    BY <2>1, <2>2 DEF PayInv, PaymentsTypeOK
  <2>6. ChargesOK'
    <3> SUFFICES ASSUME NEW e \in sent', e.kind = "succeeded"
                 PROVE  /\ charge'[e.txn] \in {"succeeded", "refunded"}
                        /\ session[e.txn] = e.payment
      BY <1>1 DEF ChargesOK, checkoutVars
    <3>1. e.txn \in Checkouts
      BY <1>3, EventFacts
    <3>2. CASE e \in sent
      BY <2>5, <3>1, <3>2 DEF PayInv, ChargesOK
    <3>3. CASE e = EventOf(p, s)
      BY <2>2, <3>3 DEF EventOf, PayInv, PaymentsTypeOK
    <3> QED
      BY <1>5, <3>2, <3>3 DEF Charge
  <2>7. PaidMeansCharged'
    BY <1>1, <2>5 DEF PayInv, PaidMeansCharged, Collected, paymentDocs, checkoutVars
  <2> QED
    BY <2>3, <2>4, <2>6, <2>7
<1>6. ASSUME NEW p \in Checkouts, NEW k \in {"mispriced", "unhandled"}, Stray(p, k)
      PROVE  PaymentsTypeOK' /\ CheckoutsOK' /\ ChargesOK' /\ PaidMeansCharged'
  <2>1. UNCHANGED charge /\ sent' = sent \union {EventOf(p, k)}
    BY <1>6 DEF Stray
  <2>2. PaymentsTypeOK'
    BY <1>1, <1>2, <1>3, <2>1
       DEF PayInv, PaymentsTypeOK, IndexInv, paymentDocs, checkoutVars, eventLog, handlerVars
  <2>3. CheckoutsOK' /\ PaidMeansCharged'
    BY <1>1, <2>1 DEF PayInv, CheckoutsOK, PaidMeansCharged, Collected, paymentDocs, checkoutVars
  <2>4. ChargesOK'
    BY <1>1, <2>1 DEF PayInv, ChargesOK, EventOf, checkoutVars
  <2> QED
    BY <2>2, <2>3, <2>4
<1>7. PaymentsTypeOK' /\ CheckoutsOK' /\ ChargesOK' /\ PaidMeansCharged'
  BY <1>5, <1>6 DEF ProviderStep, Charge
<1> QED
  BY <1>2, <1>4, <1>7 DEF PayInv

-----------------------------------------------------------------------------
\* handle_webhook

\* Deliveries that are refused, answered as duplicates or taken up.
LEMMA DeliveryPayInv ==
  ASSUME PayInv, NEW e \in Events,
         RefuseSignature(e) \/ \E h \in Handlers : Receive(h, e)
  PROVE  PayInv'
<1> USE DEF RefuseSignature, Receive, MoveHandler, Acknowledge, provider, handlerVars
<1>1. /\ UNCHANGED <<orderVars, paymentDocs, checkoutVars, provider, commission>>
      /\ row' \in [Events -> Outcomes] /\ acked' \subseteq Events
  BY DEF PayInv, PaymentsTypeOK, Outcomes
<1>2. \/ UNCHANGED <<hpc, work>>
      \/ \E h \in Handlers :
           /\ hpc[h] = "idle"
           /\ hpc' = [hpc EXCEPT ![h] = "record"]
           /\ work' = [work EXCEPT ![h] = [event |-> e, status |-> Absent, version |-> 0]]
           /\ e \in sent
  BY DEF NoWork
<1>3. IndexInv' /\ UNCHANGED <<payment, payVersion, payOrder, checkoutPc, seenOrder, session,
                              linked, charge, sent, commission, order, taskPc, job>>
  BY <1>1, OrdersAlone DEF PayInv, orderVars, paymentDocs, checkoutVars
<1>4. PaymentsTypeOK'
  <2>1. hpc' \in [Handlers -> HandlerPc]
    BY <1>2 DEF PayInv, PaymentsTypeOK, HandlerPc
  <2>2. work' \in [Handlers -> [event : Events \union {None},
                                status : PaymentStatus \union {Absent}, version : Nat]]
    <3>1. [event |-> e, status |-> Absent, version |-> 0]
            \in [event : Events \union {None}, status : PaymentStatus \union {Absent},
                version : Nat]
      OBVIOUS
    <3> QED
      BY <1>2, <3>1 DEF PayInv, PaymentsTypeOK
  <2> QED
    BY <1>1, <1>3, <2>1, <2>2 DEF PayInv, PaymentsTypeOK, IndexInv
<1>5. CheckoutsOK' /\ ChargesOK' /\ PaidMeansCharged' /\ BoughtMeansPaid'
  BY <1>3 DEF PayInv, CheckoutsOK, ChargesOK, PaidMeansCharged, BoughtMeansPaid, Collected
<1>6. HandlersOK' /\ CallsOK'
  <2>1. CASE UNCHANGED <<hpc, work>>
    BY <1>3, <2>1 DEF PayInv, HandlersOK, CallsOK, OrderOf, Collected
  <2>2. ASSUME NEW h \in Handlers, hpc[h] = "idle", e \in sent,
               hpc' = [hpc EXCEPT ![h] = "record"],
               work' = [work EXCEPT ![h] = [event |-> e, status |-> Absent, version |-> 0]]
        PROVE  HandlersOK' /\ CallsOK'
    <3>1. HandlersOK'
      BY <1>3, <2>2 DEF PayInv, PaymentsTypeOK, HandlersOK, Collected
    <3>2. taskPc[h] = "idle"
      BY <2>2 DEF PayInv, CallsOK
    <3>3. CallsOK'
      BY <1>3, <2>2, <3>2 DEF PayInv, PaymentsTypeOK, CallsOK, OrderOf
    <3> QED
      BY <3>1, <3>3
  <2> QED
    BY <1>2, <2>1, <2>2
<1> QED
  BY <1>3, <1>4, <1>5, <1>6 DEF PayInv

\* The steps of a handler outside of transition() and of the payment's own update.
LEMMA HandlerAlonePayInv ==
  ASSUME PayInv, NEW h \in Handlers,
         \/ RecordEvent(h) \/ ReadPayment(h) \/ RejectEvent(h) \/ IgnoreEvent(h)
         \/ ReadSale(h) \/ BookCommission(h) \/ FinishEvent(h)
  PROVE  PayInv'
<1> DEFINE e == work[h].event
<1>1. /\ UNCHANGED <<orderVars, paymentDocs, checkoutVars, provider>>
      /\ hpc[h] \notin {"idle", "order"}
  BY DEF RecordEvent, ReadPayment, RejectEvent, IgnoreEvent, ReadSale, BookCommission,
         FinishEvent
<1>2. UNCHANGED <<payment, payVersion, payOrder, checkoutPc, seenOrder, session,
                  linked, charge, sent, order, taskPc, job>>
  BY <1>1 DEF orderVars, paymentDocs, checkoutVars, provider
<1>3. IndexInv'
  BY <1>1, OrdersAlone DEF PayInv
<1>4. /\ e \in Events /\ e \in sent /\ taskPc[h] = "idle"
      /\ e.payment \in Checkouts /\ e.kind \in EventKinds
  BY <1>1, HandlerEvent DEF PayInv, HandlersOK, CallsOK
<1>5. \E pc \in HandlerPc \ {"settle", "order", "sale"} :
        /\ hpc' = [hpc EXCEPT ![h] = pc]
        /\ pc = "book" => hpc[h] = "sale"
        /\ \/ work' = [work EXCEPT ![h] = NoWork] /\ pc = "idle"
           \/ UNCHANGED work /\ pc # "swap"
           \/ /\ PassesGates(e) /\ pc = "swap"
              /\ work' = [work EXCEPT ![h] = [event |-> e, status |-> payment[e.payment],
                                              version |-> payVersion[e.payment]]]
  <2>1. CASE RecordEvent(h)
    BY <2>1 DEF RecordEvent, Respond, MoveHandler, HandlerPc
  <2>2. CASE ReadPayment(h)
    BY <2>2 DEF ReadPayment, MoveHandler, HandlerPc
  <2>3. CASE RejectEvent(h) \/ IgnoreEvent(h) \/ FinishEvent(h)
    BY <2>3 DEF RejectEvent, IgnoreEvent, FinishEvent, Respond, MoveHandler, HandlerPc
  <2>4. CASE BookCommission(h)
    <3>1. hpc' = [hpc EXCEPT ![h] = "finish"] /\ UNCHANGED work
      BY <2>4 DEF BookCommission, MoveHandler
    <3>2. "finish" \in HandlerPc \ {"settle", "order", "sale"}
      BY DEF HandlerPc
    <3> WITNESS "finish" \in HandlerPc \ {"settle", "order", "sale"}
    <3> QED
      BY <3>1
  <2>5. CASE ReadSale(h)
    BY <2>5 DEF ReadSale, MoveHandler, HandlerPc
  <2> QED
    BY <2>1, <2>2, <2>3, <2>4, <2>5
<1>6. PaymentsTypeOK'
  <2>1. row' \in [Events -> Outcomes] /\ acked' \subseteq Events
    BY <1>4 DEF RecordEvent, ReadPayment, RejectEvent, IgnoreEvent, ReadSale, BookCommission,
                FinishEvent, eventLog, Acknowledge, PayInv, PaymentsTypeOK, Outcomes
  <2>2. hpc' \in [Handlers -> HandlerPc]
    BY <1>5 DEF PayInv, PaymentsTypeOK
  <2>3. work' \in [Handlers -> [event : Events \union {None},
                                status : PaymentStatus \union {Absent}, version : Nat]]
    BY <1>4, <1>5 DEF PayInv, PaymentsTypeOK, NoWork
  <2>4. commission' \in [Orders -> {Document(OrderTotal, t) : t \in Terms} \union {None}]
    <3>1. CASE UNCHANGED commission
      BY <3>1 DEF PayInv, PaymentsTypeOK
    <3>2. ASSUME NEW terms \in Terms,
                 commission' = [commission EXCEPT ![OrderOf(h)] = Document(OrderTotal, terms)]
          PROVE  commission' \in [Orders -> {Document(OrderTotal, t) : t \in Terms} \union {None}]
      BY <3>2 DEF PayInv, PaymentsTypeOK
    <3> QED
      BY <3>1, <3>2 DEF RecordEvent, ReadPayment, RejectEvent, IgnoreEvent, ReadSale,
                        BookCommission, FinishEvent
  <2> QED
    BY <1>2, <1>3, <2>1, <2>2, <2>3, <2>4 DEF PayInv, PaymentsTypeOK, IndexInv
<1>7. CheckoutsOK' /\ ChargesOK' /\ PaidMeansCharged' /\ BoughtMeansPaid'
  BY <1>2 DEF PayInv, CheckoutsOK, ChargesOK, PaidMeansCharged, BoughtMeansPaid, Collected
<1>8. HandlersOK'
  <2>1. PassesGates(e) =>
          /\ payment[e.payment] \in PaymentStatus
          /\ TargetOf[e.kind] \in PaymentAllowed[payment[e.payment]]
          /\ e.kind # "mispriced"
    BY <1>4 DEF PassesGates, PayInv, PaymentsTypeOK
  <2> QED
    BY <1>2, <1>4, <1>5, <2>1 DEF PayInv, PaymentsTypeOK, HandlersOK, Collected
<1>9. CallsOK'
  <2>1. \A g \in Handlers : taskPc[g] # "idle" => g # h /\ hpc'[g] = hpc[g] /\ work'[g] = work[g]
    BY <1>4, <1>5 DEF PayInv, PaymentsTypeOK
  <2> QED
    BY <1>2, <2>1 DEF PayInv, CallsOK, OrderOf
<1> QED
  BY <1>3, <1>6, <1>7, <1>8, <1>9 DEF PayInv

\* The payment's own compare-and-set: it moves as the gates allowed, and once collected
\* it stays so.
LEMMA SwapPaymentPayInv ==
  ASSUME PayInv, NEW h \in Handlers, SwapPayment(h)
  PROVE  PayInv'
<1> DEFINE e == work[h].event
           p == e.payment
           target == TargetOf[e.kind]
<1>1. /\ UNCHANGED <<orderVars, checkoutVars, provider, eventLog, work, commission>>
      /\ hpc[h] = "swap"
  BY DEF SwapPayment
<1>2. UNCHANGED <<payOrder, checkoutPc, seenOrder, session, linked, charge, sent, row, acked,
                  order, taskPc, job>>
  BY <1>1 DEF orderVars, checkoutVars, provider, eventLog
<1>3. IndexInv'
  BY <1>1, OrdersAlone DEF PayInv
<1>4. /\ e \in sent /\ e \in Events /\ p \in Checkouts /\ e.kind \in EventKinds
      /\ taskPc[h] = "idle"
      /\ work[h].status \in PaymentStatus
      /\ target \in PaymentAllowed[work[h].status]
      /\ e.kind # "mispriced"
  BY <1>1, HandlerEvent DEF PayInv, HandlersOK, CallsOK
<1>5. /\ target \in PaymentStatus
      /\ target = "PAID" => e.kind = "succeeded"
      /\ target = "REFUNDED" => work[h].status = "PAID"
      /\ work[h].status \in {"PAID", "REFUNDED"} => target = "REFUNDED"
  BY <1>4, TargetFacts
<1> HIDE DEF e, p, target
<1>6. \/ /\ payment[p] = work[h].status
         /\ payment' = [payment EXCEPT ![p] = target]
         /\ payVersion' = [payVersion EXCEPT ![p] = @ + 1]
         /\ hpc' = [hpc EXCEPT ![h] = IF target = "PAID" THEN "settle" ELSE "finish"]
      \/ UNCHANGED <<payment, payVersion>> /\ hpc' = [hpc EXCEPT ![h] = "reject"]
  BY DEF SwapPayment, MoveHandler, paymentDocs, e, p, target
<1>7. /\ \A q \in Checkouts : Collected(q) => Collected(q)'
      /\ \A q \in Checkouts :
           Collected(q)' => Collected(q) \/ (q = p /\ e.kind = "succeeded")
      /\ hpc'[h] = "settle" => payment'[p] \in {"PAID", "REFUNDED"}
      /\ \A q \in Checkouts : payment[q] = Absent => payment'[q] = Absent
  <2>1. CASE UNCHANGED <<payment, payVersion>> /\ hpc' = [hpc EXCEPT ![h] = "reject"]
    BY <2>1 DEF Collected, PayInv, PaymentsTypeOK
  <2>2. CASE /\ payment[p] = work[h].status
             /\ payment' = [payment EXCEPT ![p] = target]
             /\ hpc' = [hpc EXCEPT ![h] = IF target = "PAID" THEN "settle" ELSE "finish"]
    <3>1. payment'[p] = target /\ \A q \in Checkouts \ {p} : payment'[q] = payment[q]
      BY <1>4, <2>2 DEF PayInv, PaymentsTypeOK
    <3>2. payment[p] # Absent
      BY <1>4, <2>2 DEF PaymentStatus, Absent
    <3>3. hpc'[h] = "settle" => target = "PAID"
      BY <2>2 DEF PayInv, PaymentsTypeOK
    <3> QED
      BY <1>4, <1>5, <2>2, <3>1, <3>2, <3>3 DEF Collected
  <2> QED
    BY <1>6, <2>1, <2>2
<1>8. PaymentsTypeOK'
  BY <1>1, <1>2, <1>3, <1>4, <1>5, <1>6 DEF PayInv, PaymentsTypeOK, IndexInv, HandlerPc
<1>9. CheckoutsOK' /\ ChargesOK' /\ PaidMeansCharged'
  <2>1. CheckoutsOK' /\ ChargesOK'
    BY <1>2, <1>7 DEF PayInv, CheckoutsOK, ChargesOK
  <2>2. e.txn \in Checkouts
    BY <1>4, EventFacts
  <2>3. e.kind = "succeeded" =>
          session[e.txn] = p /\ charge[e.txn] \in {"succeeded", "refunded"}
    BY <1>4 DEF PayInv, ChargesOK, p
  <2> QED
    BY <1>2, <1>7, <2>1, <2>2, <2>3 DEF PayInv, PaidMeansCharged
<1>10. BoughtMeansPaid'
  BY <1>2, <1>7 DEF PayInv, BoughtMeansPaid
<1>11. HandlersOK'
  <2> SUFFICES ASSUME NEW g \in Handlers
               PROVE  /\ hpc'[g] # "idle" => work[g].event \in sent
                      /\ hpc'[g] = "swap" =>
                           /\ work[g].status \in PaymentStatus
                           /\ TargetOf[work[g].event.kind] \in PaymentAllowed[work[g].status]
                           /\ work[g].event.kind # "mispriced"
                      /\ hpc'[g] \in {"settle", "order", "sale", "book"} =>
                           Collected(work[g].event.payment)'
    BY <1>1, <1>2 DEF HandlersOK, Collected
  <2>1. CASE g = h
    <3>1. hpc'[h] \in {"settle", "finish", "reject"}
      BY <1>6 DEF PayInv, PaymentsTypeOK
    <3>2. hpc'[h] \in {"settle", "order", "sale", "book"} => payment'[p] \in {"PAID", "REFUNDED"}
      BY <1>7, <3>1
    <3>3. payment'[p] \in {"PAID", "REFUNDED"} <=> Collected(work[g].event.payment)'
      BY <1>1, <2>1 DEF Collected, e, p
    <3> QED
      BY <1>4, <2>1, <3>1, <3>2, <3>3 DEF e
  <2>2. CASE g # h
    <3>1. hpc'[g] = hpc[g]
      BY <1>6, <2>2 DEF PayInv, PaymentsTypeOK
    <3>2. hpc[g] # "idle" => work[g].event.payment \in Checkouts
      BY HandlerEvent
    <3> QED
      BY <1>1, <1>7, <3>1, <3>2 DEF PayInv, HandlersOK, Collected
  <2> QED
    BY <2>1, <2>2
<1>12. CallsOK'
  <2>1. \A g \in Handlers : taskPc[g] # "idle" => hpc'[g] = hpc[g]
    BY <1>4, <1>6 DEF PayInv, PaymentsTypeOK
  <2> QED
    BY <1>1, <1>2, <2>1 DEF PayInv, CallsOK, OrderOf
<1> QED
  BY <1>3, <1>8, <1>9, <1>10, <1>11, <1>12 DEF PayInv

\* The calls of a handler: transition(order, PAID) for a payment that was collected.
LEMMA SettlePayInv ==
  ASSUME PayInv, NEW h \in Handlers,
         SettleReadOrder(h) \/ SettleSwapOrder(h) \/ SettleVehicle(h) \/ AbandonHandler(h)
  PROVE  PayInv'
<1>0. h \in Tasks /\ h \notin Checkouts /\ h \notin Staff /\ hpc[h] # "idle"
  BY PaymentsAssumption
     DEF Staff, SettleReadOrder, SettleSwapOrder, SettleVehicle, AbandonHandler
<1>1. UNCHANGED <<paymentDocs, checkoutVars, provider, eventLog, commission>>
  BY DEF SettleReadOrder, SettleSwapOrder, SettleVehicle, AbandonHandler
<1>2. UNCHANGED <<payment, payVersion, payOrder, checkoutPc, seenOrder, session, linked,
                  charge, sent, row, acked>>
  BY <1>1 DEF paymentDocs, checkoutVars, provider, eventLog
<1>3. work[h].event \in Events /\ work[h].event.payment \in Checkouts
  BY <1>0, HandlerEvent
<1>4. IndexInv'
  <2>1. CASE SettleReadOrder(h)
    <3>1. payment[work[h].event.payment] # Absent
      BY <2>1 DEF SettleReadOrder, PayInv, HandlersOK, Collected, Absent
    <3>2. OrderOf(h) \in Orders
      BY <1>3, <3>1 DEF PayInv, CheckoutsOK, OrderOf
    <3> QED
      BY <1>0, <2>1, <3>2, OrdersAlone, ReadOrderIndexInv DEF PayInv, SettleReadOrder
  <2>2. CASE SettleSwapOrder(h)
    BY <1>0, <2>2, SwapStatusIndexInv DEF PayInv, SettleSwapOrder
  <2>3. CASE SettleVehicle(h)
    BY <1>0, <2>3, ReleaseOrSellIndexInv DEF PayInv, SettleVehicle
  <2>4. CASE AbandonHandler(h)
    BY <1>0, <2>4, DyingIndexInv DEF PayInv, AbandonHandler
  <2> QED
    BY <2>1, <2>2, <2>3, <2>4
<1>5. \/ /\ hpc' = [hpc EXCEPT ![h] = "idle"]
         /\ work' = [work EXCEPT ![h] = NoWork]
         /\ taskPc'[h] = "idle"
      \/ /\ UNCHANGED work
         /\ \/ hpc' = [hpc EXCEPT ![h] = "order"] /\ hpc[h] = "settle"
            \/ UNCHANGED hpc /\ hpc[h] = "order"
         /\ taskPc'[h] # "idle" => job'[h].target = "PAID" /\ job'[h].order = OrderOf(h)
      \/ /\ UNCHANGED work
         /\ hpc' = [hpc EXCEPT ![h] = "sale"] /\ hpc[h] = "order"
         /\ taskPc'[h] = "idle"
  <2> USE DEF PayInv, IndexInv, TypeOK, CallsOK
  <2>1. CASE SettleReadOrder(h)
    BY <1>0, <2>1 DEF SettleReadOrder, ReadOrder, Respond, MoveHandler, orderVars
  <2>2. CASE SettleSwapOrder(h)
    BY <1>0, <2>2 DEF SettleSwapOrder, SwapStatus, WriteStatus, EndTask, Respond, MoveHandler,
                      handlerVars
  <2>3. CASE SettleVehicle(h)
    BY <1>0, <2>3 DEF SettleVehicle, ReleaseOrSell, EndTask, MoveHandler
  <2>4. CASE AbandonHandler(h)
    BY <1>0, <2>4 DEF AbandonHandler, EndTask, Respond, MoveHandler
  <2> QED
    BY <2>1, <2>2, <2>3, <2>4
<1>6. PaymentsTypeOK'
  <2>1. hpc' \in [Handlers -> HandlerPc]
    BY <1>5 DEF PayInv, PaymentsTypeOK, HandlerPc
  <2>2. work' \in [Handlers -> [event : Events \union {None},
                                status : PaymentStatus \union {Absent}, version : Nat]]
    BY <1>5 DEF PayInv, PaymentsTypeOK, NoWork
  <2> QED
    BY <1>1, <1>2, <1>4, <2>1, <2>2 DEF PayInv, PaymentsTypeOK, IndexInv
<1>7. CheckoutsOK' /\ ChargesOK' /\ PaidMeansCharged'
  BY <1>2 DEF PayInv, CheckoutsOK, ChargesOK, PaidMeansCharged, Collected
<1>8. HandlersOK'
  BY <1>2, <1>5 DEF PayInv, PaymentsTypeOK, HandlersOK, Collected
<1>9. CallsOK'
  <2>1. \A t \in Tasks \ {h} : taskPc'[t] = taskPc[t] /\ job'[t] = job[t]
    BY <1>0 DEF SettleReadOrder, SettleSwapOrder, SettleVehicle, AbandonHandler, ReadOrder,
                SwapStatus, WriteStatus, ReleaseOrSell, EndTask, PayInv, IndexInv, TypeOK,
                orderVars, tasks
  <2>2. \A g \in Handlers \ {h} : hpc'[g] = hpc[g] /\ work'[g] = work[g]
    BY <1>5 DEF PayInv, PaymentsTypeOK
  <2>3. taskPc'[h] # "idle" =>
          hpc'[h] = "order" /\ job'[h].target = "PAID" /\ job'[h].order = OrderOf(h)'
    BY <1>2, <1>5 DEF PayInv, PaymentsTypeOK, OrderOf
  <2> QED
    BY <1>0, <1>2, <2>1, <2>2, <2>3, PaymentsAssumption DEF PayInv, CallsOK, OrderOf, Staff
<1>10. BoughtMeansPaid'
  <2>1. CASE UNCHANGED order
    BY <1>2, <2>1 DEF PayInv, BoughtMeansPaid, Collected
  <2>2. CASE SettleSwapOrder(h) /\ Unchanged(h) /\ WriteStatus(h)
    <3>1. /\ job[h].order = OrderOf(h)
          /\ Collected(work[h].event.payment)
      BY <1>0, <2>2 DEF SettleSwapOrder, SwapStatus, PayInv, CallsOK, HandlersOK
    <3>2. \A o \in Orders : o # OrderOf(h) => order'[o] = order[o]
      BY <2>2, <3>1 DEF WriteStatus, PayInv, IndexInv, TypeOK
    <3> QED
      BY <1>2, <1>3, <3>1, <3>2 DEF PayInv, BoughtMeansPaid, Collected, OrderOf
  <2> QED
    BY <2>1, <2>2 DEF SettleReadOrder, SettleSwapOrder, SettleVehicle, AbandonHandler, ReadOrder,
                      SwapStatus, ReleaseOrSell, orderVars, docs
<1> QED
  BY <1>4, <1>6, <1>7, <1>8, <1>9, <1>10 DEF PayInv

-----------------------------------------------------------------------------
LEMMA StepPayInv == PayInv /\ [PaymentsNext]_allVars => PayInv'
<1> SUFFICES ASSUME PayInv, [PaymentsNext]_allVars PROVE PayInv'
  OBVIOUS
<1>1. CASE UNCHANGED allVars
  <2>1. IndexInv'
    BY <1>1, OrdersAlone DEF PayInv, allVars, orderVars
  <2> QED
    BY <1>1, <2>1 DEF allVars, PayInv, PaymentsTypeOK, IndexInv, CheckoutsOK, CallsOK, OrderOf,
                      HandlersOK, ChargesOK, PaidMeansCharged, BoughtMeansPaid, Collected
<1>2. CASE OrderStep
  BY <1>2, OrderStepPayInv
<1>3. ASSUME NEW c \in Checkouts, NEW o \in Orders, OpenCheckout(c, o) PROVE PayInv'
  BY <1>3, OpenCheckoutPayInv
<1>4. ASSUME NEW c \in Checkouts, CheckoutStep(c) \/ AbandonCheckout(c) PROVE PayInv'
  BY <1>4, CheckoutAlonePayInv, CheckoutCallPayInv DEF CheckoutStep
<1>5. CASE ProviderStep
  BY <1>5, ProviderPayInv
<1>6. ASSUME NEW e \in Events, RefuseSignature(e) \/ \E h \in Handlers : Receive(h, e)
      PROVE  PayInv'
  BY <1>6, DeliveryPayInv
<1>7. ASSUME NEW h \in Handlers, HandlerStep(h) \/ AbandonHandler(h) PROVE PayInv'
  BY <1>7, HandlerAlonePayInv, SwapPaymentPayInv, SettlePayInv DEF HandlerStep
<1> QED
  BY <1>1, <1>2, <1>3, <1>4, <1>5, <1>6, <1>7 DEF PaymentsNext

LEMMA PayInvHolds == PaymentsSpec => []PayInv
  BY InitPayInv, StepPayInv, PTL DEF PaymentsSpec

\* Every variable of the composed system stays in its type.
THEOREM PaymentsTypes == PaymentsSpec => []PaymentsTypeOK
<1>1. PayInv => PaymentsTypeOK
  BY DEF PayInv
<1> QED
  BY <1>1, PayInvHolds, PTL

\* The promise of the order service survives the payment service, whose checkouts and
\* webhook handlers call it from inside: no two active orders hold one vehicle.
THEOREM OneActiveOrderUnderPayments == PaymentsSpec => []OneActiveOrder
<1>1. PayInv => OneActiveOrder
  BY DEF PayInv, IndexInv
<1> QED
  BY <1>1, PayInvHolds, PTL

\* A payment is recorded as PAID only for money the provider collected: for any number of
\* racing deliveries, of any kinds, in any order, however often each arrives.
THEOREM PaidIsCharged == PaymentsSpec => []PaidMeansCharged
<1>1. PayInv => PaidMeansCharged
  BY DEF PayInv
<1> QED
  BY <1>1, PayInvHolds, PTL

\* No order counts as bought without a payment of its own that was PAID, whatever
\* operators ask for and whichever requests die.
THEOREM BoughtIsPaid == PaymentsSpec => []BoughtMeansPaid
<1>1. PayInv => BoughtMeansPaid
  BY DEF PayInv
<1> QED
  BY <1>1, PayInvHolds, PTL

\* Every row in the ledger accounts for its sale: at every price, for all the terms sellers
\* may have agreed to, for any number of orders, checkouts and racing deliveries.
THEOREM LedgerAlwaysBalances == PaymentsSpec => []LedgerBalances
<1>1. PaymentsTypeOK => LedgerBalances
  <2> SUFFICES ASSUME PaymentsTypeOK, NEW o \in Orders, commission[o] # None
               PROVE  \E terms \in Terms : Balances(commission[o], OrderTotal, terms)
    BY DEF LedgerBalances
  <2>1. PICK terms \in Terms : commission[o] = Document(OrderTotal, terms)
    BY DEF PaymentsTypeOK
  <2>2. /\ OrderTotal \in Int
        /\ terms \in [expected : Nat, bps : Nat \union {Unknown}]
    BY PaymentsAssumption
  <2> QED
    BY <2>1, <2>2, DocumentBalances
<1> QED
  BY <1>1, PaymentsTypes, PTL
=============================================================================

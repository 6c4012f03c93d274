# Voltaris mobility backend: TLA+ models and proofs

The backend is a FastAPI application over MongoDB. Every request handler is a
coroutine; every `await` on the database or on a provider is a point where any
other request, in the same process or in another worker, may run. The code uses
no multi-document transaction. What keeps it correct is a small number of
devices: unique (and partial unique) indexes, updates conditional on the status
and version that were read, and a convention about the order of writes. The
models here keep exactly that: **one action per database call**, and the guards,
early returns and error paths between them.

Paths below are relative to the repository; the code is under `src/app`.

## Inventory

| Component | State it keeps | Operations | What is hard |
| --- | --- | --- | --- |
| Order service (`modules/orders`) | `orders`, the `status` of `vehicles`, `idempotency_keys` | `create_order`, `transition`, reads | requests racing for one vehicle; stale reads; a request dying between the write of the order and the write of the vehicle; keys claimed and never answered |
| Index convergence (`infrastructure/database/indexes.py`, `routes/health.py`) | whether an index exists | `ensure_indexes` at start-up and from `/readyz` | serving before the unique index exists; building it over documents that already break it |
| Payment service (`modules/payments`) | `payments`, `payment_events` | `create_checkout_session`, `handle_webhook`, `_settle` | concurrent checkouts; duplicated, reordered, late and concurrent webhooks; settlement failing half-way |
| Commission split (`modules/commissions`) | `commissions` | `calculate`, the row `_settle` inserts | floor division at the boundary between a split and a review; booking once |
| Authentication (`modules/auth/service.py`, `core/security.py`, `core/sessions.py`) | `users`, `sessions`, `login_attempts`, tokens held by clients | register, login, refresh, logout | refresh rotation racing itself and racing a revocation; counting failures |
| Google sign-in (`modules/auth/google.py`) | `oauth_states`, `users.identities` | begin, complete, link or create | one-time state; two first sign-ins racing |
| Principal and permissions (`api/deps.py`, `modules/users/models.py`) | none | check of every request | a request admitted before a suspension finishing after it |
| Admin console (`modules/admin/console.py`) | `users`, `sessions` | status and role changes, session revocation, read-only inspection | check-then-act on the number of super admins |
| Profile, saved vehicles and searches (`modules/users/profile_service.py`) | `saved_vehicles`, `saved_searches` | upserts, deletes, a limit, histories | count followed by insert; saved vehicles that are deleted later |
| Leads and test drives (`modules/leads`) | `inquiries`, `test_drives` | submit with a throttle, look up by reference | count followed by insert; a reference drawn twice |
| Media pipeline (`modules/media`, `infrastructure/storage/r2.py`) | `media` and the bucket | upload intent, finalize | finalize racing itself and repeated PUTs; a call ending between bucket and database |
| Vehicle catalogue, content, dealers, charging (`modules/vehicles`, `dealers`, `content`, `charging`) | none of their own | lists page by page, counts, facets, similar, compare, sitemaps | rows, count and next page are read at different times; several reads that have to agree on what is public |
| Audit log (`modules/audit`) | `audit_logs` | append | nothing reads it to decide anything |
| Application shell | settings, connection | start-up, error mapping, logging | nothing beyond index convergence |
| Operational scripts (`scripts/`) | whatever they write | `create_user.py`, `reset_password.py`, `seed.py` | run beside the service, on the same documents |

How they interact: `create_order` and `transition` write both `orders` and
`vehicles`. A checkout calls `OrderService.transition(order, PAYMENT_PENDING)`
in its own request; a webhook that makes a payment `PAID` calls
`transition(order, PAID)`, which sells the vehicle, and then inserts the
commission. Operators and customers call `transition` for everything else.
`/readyz` is polled and retries the index build. Every authenticated request
re-reads its session and user, so the console's writes take effect through the
database only.

What makes each correct:

* *orders*: a vehicle is held by at most one live order and bought at most once;
  the vehicle's status follows the order that holds it; SOLD is final; a
  cancelled order's vehicle comes back; one key creates one order.
* *payments*: money is recorded only if it was collected, an order is bought only
  by a recorded payment of its own, a vehicle leaves the market only for such an
  order, revenue is booked once, collected money is settled in the end.
* *sessions*: a session that is over stays over, a refresh token that bought
  another never works again, a session is killed for reuse only if a token was
  used twice, a suspended user is in the end served by no request, the console
  never removes the last active super admin.
* *accounts*: a Google sign-in lets in the person who approved it, once, into
  their own account; one account per person however first sign-ins race; a
  suspension is undone by the console, or in the one way listed under *Findings*;
  the lockout is overshot by no more than the attempts already under way.
* *media*: a published row has all its variants; a good original is deleted only
  after its image was published; no original stays in quarantine.
* *catalogue*: whoever reads a directory to its end, while it does not change,
  sees every matching document once; counts, facets, similar and saved vehicles
  agree with the list.
* *customers*: the two limits are overshot by no more than the requests under
  way; a reference finds the test drive it was answered for.
* *commission*: a document shares out exactly the price, pays the seller what was
  promised and keeps the rate to the franc, or no split would.

## Modules

| Module | What it is |
| --- | --- |
| `Marketplace` | Abstract specification: a vehicle is free, held or sold, and by which order. No request, document or call. |
| `Orders` | The order service, index convergence and the vehicle statuses it reads and writes. |
| `KeyedOrders` | Extends `Orders` with the idempotency key around `create_order`. |
| `Payments` | Extends `Orders` with the payment service, the event log, the commission row and the provider as environment. |
| `Commission` | The split of a sale as operators over integers; `Payments` extends it. |
| `Sessions` | Sign-in, refresh rotation, logout, the check of every authenticated request, and the writes of the console and of `reset_password.py`. Independent of the order modules: the two share no collection. |
| `Accounts` | Registration, Google sign-in with linking, the console's status write, the password lockout. Ends where `Sessions` opens the session. |
| `Media` | Photo uploads: intents, the browser's PUT, finalize, the bucket's lifecycle rule. |
| `Catalogue` | A visitor reading directories page by page, and the other public reads, over documents that change. |
| `Customers` | Saved searches, enquiries and test drives. |
| `Limiter` | Abstract specification: a limit that is counted first and recorded later. The lockout of `Accounts` and both limits of `Customers` implement it. |
| `OrdersProofs` | TLAPS: types, the index invariant, finality of a sale; which order holds a vehicle; that `Orders` implements `Marketplace`. |
| `KeyedProofs` | Extends `OrdersProofs`: one key, one order, one answer. |
| `SessionsProofs` | TLAPS: types, rotation and reuse detection, finality of a session's end. |
| `AccountsProofs` | TLAPS: types, who a Google sign-in lets in, one account per person, suspensions, and the lockout as a `Limiter`. |
| `PaymentsProofs` | TLAPS: the commission documents balance; types, and what payments and bought orders owe to each other, whichever requests die. |
| `SettlementProofs` | Extends `PaymentsProofs`: order, vehicle and commission of a settled payment. |
| `StorefrontProofs` | TLAPS, for `Media`, `Customers` and `Catalogue`: publication and the fate of the original; references and the two limits; complete browsing and the agreement of the reads; the types of all three. |
| `LimiterProofs` | TLAPS: how far a limit can be exceeded. `AccountsProofs` and `StorefrontProofs` instantiate it. |
| `MC*` | Instances for TLC: sets of targets, kinds and terms, the catalogue's documents, symmetry; `MCAccounts` and `MCStorefront` also choose which of several independent parts a behaviour is about. |

### Orders

State ↔ code:

* `vehicle`, `order`, `version`: the fields `vehicles.status`, `orders.status`,
  `orders.version`. An order id is `uuid4()` drawn inside `create_order`, so an
  order is identified with the request that inserts it; `wanted` is its
  `vehicle_id`.
* `creating[o]` is the program counter of `create_order`: read the vehicle
  (`ReadVehicle`), insert the order under the partial unique index
  (`InsertOrder`), reserve the vehicle if it is still AVAILABLE
  (`ReserveVehicle`), delete the order again if it was not (`RollBack`).
* `taskPc[t]` and `job[t]` are one call of `transition`: read and check
  (`ReadOrder`), compare-and-set on status and version (`SwapStatus`), and for
  PAID and CANCELLED the vehicle's update (`ReleaseOrSell`). A task is reused
  when its call ends. A call whose read refuses changes nothing and is not a step.
* `indexed` says whether `uniq_active_order_per_vehicle` exists; `BuildIndexes`
  is `ensure_indexes`, which MongoDB refuses while two active orders share a
  vehicle.
* `AbandonCreate`, `AbandonTask`: the request ends between two calls (process
  death, database error, failing audit write). Counted by `abandons`.

`DRAFT` stands for every listing `create_order` refuses. The statuses of the
index (`IndexedStatuses`) and of the service (`ActiveStatuses`) are kept as two
definitions because they are two lists in two files.

`EarlyAccess` says whether an order may be transitioned before its
`create_order` has returned. The customer's order list shows the document from
its insert on, so the code allows it. The passing runs set it to FALSE (the id is
used only after the response), and the properties about who holds a vehicle and
about settlement depend on that; `payments_early` sets it to TRUE and shows what
then goes wrong (*Findings*). `TypeOK`, `OneActiveOrder` and `SoldIsFinal` are
proved for both values.

### KeyedOrders

`_replay_or_reserve` and the storing of the response: find the key's row
(`FindKey`: answer the stored response, refuse a different body, or report a
request in flight), claim it under the unique index (`ClaimKey`), run
`create_order` (`Create`), store the response (`StoreResponse`). `Unkeyed`
requests go straight through.

### Payments

A payment is identified with the checkout request that inserts it, a transaction
(a session at the provider and what becomes of it) with the request that opened the
session. The two differ: a checkout that finds an open payment opens a session of its
own for it, so `session[c]` is the payment that transaction `c` is for, `charge[c]`
what the provider made of it, and an event names both. A checkout reads the order
(`OpenCheckout`), looks for an open payment (`FindPayment`), has the provider open a
session (`OpenSession`) and is done, if it found one; otherwise it inserts the payment
(`InsertPayment`), moves the order to PAYMENT_PENDING through `Orders`' own actions on
its own task, and links the payment (`LinkPayment`). Transaction ids are the provider's
and never repeat, so the unique index over them (`uniq_provider_txn`) has nothing to
refuse and they are not kept in the documents.

A webhook handler passes the six gates of `handle_webhook` (`RefuseSignature`,
`Receive`, `RecordEvent`, `ReadPayment`), compare-and-sets the payment
(`SwapPayment`), and on PAID settles: order, vehicle, the re-reading of both, ledger,
row (`SettleReadOrder`, `SettleSwapOrder`, `SettleVehicle`, `ReadSale`,
`BookCommission`, `FinishEvent`). No provider adapter exists in the repository:
`Charge`, `Stray` and the redelivery of unacknowledged events model the provider from
how the handler uses it.

What the provider reports appears only as the kind `mispriced`: a success whose
figure or currency is not the recorded one, which gates 4 and 5 refuse alike. The
price is `OrderTotal`, the seller's agreement one of `Terms` per order, and the
row that `_settle` inserts is `Document(OrderTotal, terms)`.

### Commission

`Splits` is the condition under which `calculate` does not raise, `Breakdown` what
it returns, `Unallocated` the NEEDS_REVIEW document `_settle` writes when it did,
`CommissionBps` the rate that applies (an agreed 0 is falsy and gives the
default). Amounts are whole francs, as in the code, and divisions floor.
`Balances` does not repeat the formula: it says what an accountant would ask of a
row, with the rate cross-multiplied instead of divided.

### Sessions

State ↔ code:

* `status`, `supers`: `users.status`, and the users whose `roles` contain
  SUPER_ADMIN; no other role decides anything here.
* `session[s]`, `current[s]`: a `sessions` document, live or with its
  `revoked_reason`, and its `refresh_jti`. A session is identified with the
  sign-in that opens it, a refresh token with the sign-in or the refresh request
  that issues it. A client may keep and present every token it was ever given.
* A sign-in reads the user (`ReadAccount`: a password login refuses a suspended
  user, a Google sign-in does not look) and inserts the session (`OpenSession`).
* A refresh reads the session (`PresentToken`), and then either kills it because
  the token is not the current one (`KillSession`) or makes its own token the
  current one (`RotateToken`). The write asks for nothing but the session's id,
  so it may land on a session that was revoked, rotated or reaped meanwhile.
* An authenticated request reads its session (`LoadSession`), then its user and
  roles (`LoadUser`), and acts on what it read: `Logout`, the console's
  `SetStatus` with `RevokeAfterStatus`, `RevokeAllSessions`, `ReadRoles` with
  `CountSupers` and `WriteRoles`, or anything else (`Finish`, also the end of a
  request that dies half-way). Nothing is read again before it acts.
* `ExpireSession` is the TTL index; later updates of that document do nothing.
* `ResetPassword` is `scripts/reset_password.py`, which ends every live session,
  whoever's password it resets.

### Accounts

* `email`, `status`, `identities`: a `users` document, identified with the
  registration or the callback that inserts it; the unique indexes on address and
  identity are guards of the inserts and of the link.
* `flow[f]` is the row of `oauth_states`, `grant[f]` and `address[g]` what Google
  knows. `Approve`, `ChangeAddress` and the answer of `ExchangeCode` are the
  environment: a callback may carry the code of another flow than its state's, and
  what stops it is the nonce.
* A callback finds and deletes the state in one call (`SpendState`), exchanges the
  code, looks for the subject (`FindBySubject`), then for the address
  (`FindByEmail`), and links (`LinkIdentity`, which writes back the status it read)
  or creates (`CreateAccount`, and `FindAgain` after a lost race).
* A password login checks the count (`CheckLockout`), compares (`LookUp`) and then
  counts or clears (`CountFailure`, `ClearFailures`). `attempts` counts per address
  and network address, taken together as one key.
* `CreateByOperator` is `create_user.py`; `Moderate` the console's status write.

### Media

* `row`, `image`: status and published folder of a `media` document; `original`:
  the body in quarantine; `stored`: how many variants of a folder the bucket holds.
* A finalize call goes through its keys one by one: `ReadRow`, `Download`,
  `PutVariant` once per variant, `Publish`, `DeleteOriginal`, or `Reject` and
  `DropRejected`. `Stop` is any early end: refusal, missing object, failing bucket,
  death. Deletions may fail silently, as they do in the code.
* `Upload` is the browser. The presigned URL accepts any number of PUTs until it
  expires, so the body can change between the calls of a finalize.
* `Reap` is the bucket's lifecycle rule; a URL lives for minutes and the rule waits
  a day, so it acts only on expired URLs.

### Catalogue

* `state`, `deleted`: what the documents' `status` and `deleted_at` say. `Change`
  stands for orders, operators' tools and the seed scripts. Sort keys, groups and
  prices are constants, since no code under `src/` changes them.
* `visit` is one visitor: `Enter` a directory with a query, a sort and a page size,
  `ReadRows` and `CountRows` for each page, on to the next while the answer says
  there is one. `Slices` is what `.sort().skip().limit()` may return: documents the
  sort key does not tell apart come in any order, a different one for each page.
* `Facets` is read at one moment; the code runs one aggregation per facet.
* One ascending and one descending price sort and one date sort stand for the seven
  sorts; body type, dealer and price bounds for the filters.
* `Similar`, `Compare`, `SavedVehicles`, `VehicleCount`, `Facets`, `Opens` are the
  other reads as operators; those with a choice of documents return the set of
  their possible answers.

### Customers

Searches and enquiries are counted (`CountSearches`, `Throttle`) and inserted later
(`InsertSearch`, `InsertInquiry`); `AgeInquiry` moves the hour on. `RequestDrive`
draws a reference, `InsertDrive` inserts it under the unique index.

### Limiter

`recorded` is the number of rows a count finds for a key, `passed` the calls that
have counted and not yet ended. A call passes below the limit and records later, if
at all; rows may be deleted, or cleared by a call's success, at any time.

## Runs

| Run | Instance | What it asks |
| --- | --- | --- |
| `orders` | 1 vehicle, 3 create requests, 3 transition calls, index built or not, 1 request may die | No interleaving holds or sells a vehicle twice; its status follows the order; SOLD is final. |
| `orders_fair` | 1 vehicle, 3 create requests, 2 calls, no deaths, no symmetry | The order service implements `Marketplace`; a cancelled order's vehicle returns; the index is built in the end. |
| `keyed` | 2 vehicles, 3 requests, 2 keys, 1 call, 2 deaths | A key creates at most one order, and whatever a key answers is that order. |
| `payments` | 1 order, 2 checkouts, 2 handlers, 1 operator, 1 death; 2 events of any kind but progress; terms on both sides of the review boundary | Payment, order, vehicle and ledger agree; settled once; what is booked adds up. |
| `payments_fair` | 1 order, 2 checkouts, 2 handlers, 1 operator; success and failure in either session; late deliveries | Collected money that is due is settled; every event is acknowledged in the end. |
| `payments_lost_event` | 1 checkout, 2 handlers; progress and success | **Violated**: an acknowledged success is recorded. |
| `payments_unsettled` | 2 checkouts, 2 handlers | **Violated**: a PAID payment makes its order PAID. |
| `payments_early` | 1 checkout, 2 handlers; `EarlyAccess` | **Violated**: a sold vehicle has the order it was sold to. |
| `sessions` | 1 user and 1 super admin, 2 sign-ins, 3 refreshes, 1 authenticated request at a time | Rotation races revive neither a burnt token nor a session that is over; reuse detection fires on reuse only; a suspension takes hold. |
| `sessions_last_admin` | 2 super admins, 2 requests | **Violated**: role changes leave an active super admin. |
| `accounts` | 2 registrations, 2 people, 2 addresses; 2 flows and 2 callbacks, or 3 logins | Everyone gets into their own, single account; suspensions hold; the lockout implements `Limiter`. |
| `storefront` | 2 uploads, 2 finalize calls; or 4 vehicles, 1 dealer, 2 guides, 1 charger and 1 change; or 3 requests against limits of 2; or 3 test drives and 2 references | Photos are published complete and not lost, quarantine empties; a reader sees everything once and the reads agree; limits and references hold. |

Every property of a passing run can be broken by a plausible slip in the code. The
modules keep these slips as definitions marked *Mutation of*, just before the
definition each would replace; nothing else uses them.

`OneConfirmedOrder`, `BoughtOnce` and the first half of `VehicleFollowsOrder` hold
whichever transitions die, and whichever `create_order` dies without leaving an order
behind; they are conditional on `~Orphaned`, because an order whose creation died before
its vehicle was reserved can still be transitioned, and with one they are false in the
code. The second half of `VehicleFollowsOrder` is conditional on `abandons = 0`: a
cancellation that dies half-way leaves a vehicle reserved by nobody (the first entry
under *Seen while modelling*). `OneActiveOrder`, `SoldIsFinal` and everything `payments`
and `keyed` check hold with any deaths.

`ChargeIsSettled` says when collected money is due: its success is new to the webhook,
the payment its session was opened for is still open, and the checkout that inserted
that payment has been answered. From there on, whatever the other checkout, the other
session, the operator and the provider do, the order ends up bought, its vehicle sold
and its revenue booked, with three exceptions the property names: the order was
cancelled, the delivery of the success was logged as too old (which makes every later
delivery a duplicate, payments/service.py:206), or another session of the same payment
failed, which closes the payment for both. Each of the three happens in the run: without
it in the property, TLC finds a counterexample. Three more are kept out of "due" or out
of the run, because the code settles nothing then: money paid before the first checkout
was answered (`payments_unsettled`), a success lost to a progress event
(`payments_lost_event`), and a payment that is no longer open, such as one paid already
in its other session.

### Bounds

* Vehicles: conflicts are between orders of one vehicle, and no action relates
  two vehicles, so one suffices; `keyed` takes two because a repeated request
  with another body asks for another vehicle.
* Create requests: three give a winner, a loser that is rolled back and a
  late-comer that reads the vehicle after a release.
* Transition calls: three at a time let a cancellation wait with its vehicle
  update outstanding while two more calls race on another order. Tasks are
  reused, so the number of calls over time is not bounded.
* `MaxAbandons` bounds deaths; each state a death leaves behind needs only one,
  `keyed` has two so that a claimed key and an order can both be orphaned.
* `version` needs no bound: the state machines have no cycle for orders, and the
  payments' cycle FAILED → PROCESSING is driven by events, of which there are
  `MaxEvents` at most, one of each kind per transaction (`Events`), each delivered any
  number of times.
* `MaxEvents`: two for safety, since a pair of events is what races (a success and what
  contradicts, repeats or reverses it, in one session or in two); four for liveness,
  which lets both sessions fail and succeed.
* Two checkouts: the second is a second payment when both look before either inserts,
  and a second session of the first one's payment otherwise. They are interchangeable
  for safety, and so are the handlers; liveness is checked without symmetry.
* Two handlers: duplicates of one event, or two events of one payment, race
  pairwise; a third handler finds the states either pair leaves.
* `Kinds` is split over the runs, since the kinds multiply: safety has success,
  failure, refund, wrong figures and unknown events; liveness the two outcomes of a
  charge; the violation runs the kinds their scenario needs.
* `Refreshes`: three is two that race with one token and a third that presents
  what either got. Two sign-ins let one user hold two sessions and the console's
  actor another. `Requests` are slots, reused without bound; `sessions` has one,
  since what a second could interleave with is already there (sign-ins,
  refreshes, and a request dying half-way), `sessions_last_admin` has two.
* `Settable`: ACTIVE and SUSPENDED are the statuses the code tells apart; the
  violation run allows only ACTIVE, so that role changes alone are to blame.
* `StartIndexed`: both values for `orders` and `orders_fair`. `keyed` and the
  payment runs start with the index built.

* `MCAccounts` has the variable `side`, `MCStorefront` the variable `topic`: each
  behaviour is about one of several parts that share no variable (for `accounts`,
  none that both write), and no property relates two parts, so interleaving them
  would multiply the states and show nothing. Their actions are those of the
  modules, unchanged.
* `accounts`: two of everything is a first sign-in racing another person's, one's
  own second one, or a registration of the same address; three logins against a
  limit of two overshoot it by two. Statuses ACTIVE and SUSPENDED are set; PENDING
  comes from registration.
* `storefront`, photos: two calls race for one upload, and a call with two keys
  meets the other between them; two variants make "some but not all" possible.
  Calls are not reused: a third finds what two leave.
* `storefront`, catalogue: the code's figures (pages of 24 to 48, a count cap of
  10,000, 500 pages) are constants, set so that four vehicles give a last page that
  is full or not, an empty page, a default and a clipped page size. `MaxEdits`: one
  change falls into every gap between two reads; `BrowseSeesAll` is about visits
  without one, `CatalogueAgrees` about every state.
* `storefront`, limits: three requests at a time pass a limit of two together. Counts
  are bounded by the limit and the requests, so they need no bound.
* `BoundaryTerms`: with a price of 100 and 8 %, a promise that leaves exactly the
  minimum with no rate agreed, and one that leaves a franc less with a rate of 0
  agreed, so that a split and a review are each booked. The theorem `DocumentBalances` covers every price and rate.

### Fairness

* `WF` on the steps of a started request: the event loop runs every runnable
  coroutine on. Requests are never *obliged* to start; nobody has to order, pay
  or cancel.
* `WF` on `BuildIndexes`: the orchestrator polls `/readyz`, which retries the
  build until it succeeds.
* `SF` on the delivery of each event: a provider redelivers until it sees a 2xx,
  and a free handler recurs. Weak fairness would not do, since handlers are busy
  and free in turn.
* `WF` on the steps of each authenticated request (`FairSessionsSpec`), with
  `Finish` among them: a request answers or dies, and holds no slot for ever.
  Sign-ins and refreshes get no fairness; `SuspensionTakesHold` holds without.
* `WF` on `Expire` and `Reap` (`MediaFairness`): time passes and the bucket's
  lifecycle rule runs. Browsers and finalize calls get none: `QuarantineEmpties`
  holds whether or not they ever go on.
* Deaths are excluded from the fair order and payment runs (`MaxAbandons = 0`): a request that died
  is exactly one that fairness cannot run on.

Deadlock is not checked: every instance may stop once its requests are used up.

## Proofs

Every safety property the passing runs check is proved; the assumptions are those the
modules declare, and TLC evaluates each of them in a run.

* `OrdersAssumption`: types of the constants; `None` is neither a vehicle nor an order.
  `KeysAssumption`: `None` is no key, `NoRow` is no row, and the index stands when the
  first keyed request arrives (`StartIndexed`).
* `EarlyAccess = FALSE` is a hypothesis of the theorems about who holds a vehicle and
  about settlement, `MaxAbandons = 0` of `OrdersImplementMarket` alone (the others say
  what they need about deaths in the property).
* `PaymentsAssumption`: checkouts and handlers are different tasks, nobody but a webhook
  asks for PAID (`Targets` are the moves of operators and customers), no row is `None`,
  and the index stands when the first payment is made (`StartIndexed`).
  `CommissionAssumption`: rates and fees are natural numbers.
* `SessionsAssumption`: types; sign-ins and refreshes are distinct.
  `AccountsAssumption`: types; registrations and callbacks are distinct; `None` is
  none of the things it stands beside.
* `MediaAssumption`: at least one variant and one key per call; `Nothing` is no body and
  no folder. `CustomersAssumption`: limits are positive; `Unset` is no value.
  `CatalogueAssumption`: finitely many documents; page sizes, limits and caps are
  positive; prices are natural numbers; `None` is no dealer. It says nothing of the
  dates documents are sorted by.
* The overshoot theorems need finitely many callers.

All theorems hold for any sets of vehicles, orders, keys, tasks, checkouts, events, users,
sessions, accounts, callbacks, uploads, documents and requests and any number of deaths;
TLC's instances are not used. Every inductive invariant was checked by TLC before it was
proved.

* `TypeCorrect`: `OrdersSpec => []TypeOK`. Inductive once strengthened by
  `RequestsOK`: a request past its read wants a real vehicle, a call under way
  has a real order, a read status and version.
* `OneActiveOrderTheorem`: `[]OneActiveOrder`. The property is not inductive: a
  swap may take an order from an inactive status to an active one as far as it
  tells. `IndexInv` adds that every call's target is allowed from the status it
  read, and no allowed move enters the active statuses from outside; then an order
  becomes active only by its insert, which the index guards, or is already there
  when the index is built, which refuses duplicates.
* `SoldIsFinalTheorem`: `[][...]_orderVars`, from the type invariant: the sale
  stays because reservation and release are conditional.
* `VehicleFollowsOrderTheorem`, `OneConfirmedOrderTheorem`, `BoughtOnceTheorem`: from
  `HoldInv`. Its part `Holding` says that each vehicle has at most one holder and is off
  the market while it has one (`OneHolder`), and what requests and calls half-way through
  imply about it (`CreatingOK`, `OwingOK`); it survives the death of any transition,
  since a call that dies owes the vehicle nothing more. `ReservedIsOwned`, that a reserved
  vehicle has a holder, survives none. The three properties are not inductive because
  none mentions calls that owe the vehicle an update. `HoldInv` needs no index: the
  conditional reservation alone is enough, which is what the theorems show.
* `OrdersImplementMarket`: from `MarketInv`, which is `IndexInv`, `Holding`,
  `ReservedIsOwned` and `SoldIsOwned` (a sold vehicle is held by an order that was paid
  for). The mapping chooses a vehicle's holder, so the proof first shows that the choice
  is of the only one. A create request is a step of the marketplace when it reserves; a cancellation
  when its vehicle comes back, not when the order's status is written, because until
  then nobody else can have the vehicle; a payment when the vehicle is sold.
* `KeyedTypes`, `OneKeyOneOrder`, `AnswersAreOrders`, `OneActiveOrderUnderKeys`: from
  `KeyedInv`. `ClaimsOK` says that a request past its key owns the key's row, alone and
  with its own body; that is also true of a request that died there, so no later one
  creates a second order. `RepliesOK` says that what a row or a request was given is an
  order whose creation is complete.
* `SessionsTypes`, `RotationBurns`, `ReuseIsReal`: consequences of `RotationInv`.
  Neither `BurntStaysBurnt` nor `KilledMeansReused` is inductive. The invariant
  says of each session: either some token of it was presented by two requests
  (`Shared`), and then anything goes, or the session is `Orderly`: nobody is out
  to kill it, and every token issued for it other than the current one has been
  presented. The last clause is the heart: a request that finds its token not
  current, in an orderly session, is the second to present it. A rotation that is
  not shared is the only one under way, so its write leaves the clause true.
  `PresentedOK` ties a refresh to a token its session issued.
* `SessionsEnd`: from the types and `OpenedOK` (a document appears only when its
  sign-in is done), since no later write sets a session live.
* `AccountsTypes`, `SignInsAreTheirs`, `PeopleHaveOneAccount`, `SuspensionsHold`: from
  `AccountsInv`. `CallbackOK` is what a callback has gone through by the time it is where
  it is: its state is gone, its claim is about the person who approved that flow, and
  what it links or opens has the claim's identity or its verified address. `SpentOnce`:
  a state is spent by one callback. `LinksOK`: an identity was linked by a callback
  whose token named the account's address; this is what makes two sign-ins of one person
  meet in one account when they race, since addresses are unique and never change.
* `LockoutIsALimit`, `CustomerLimitsHold`: each step of a password sign-in, a saved search
  or an enquiry is one of `Limiter` or none. What has `passed` is read off the program
  counters. With `LimiterProofs` instantiated, `LockoutOvershoots` and
  `CustomerLimitsOvershoot` turn this into bounds on the counts themselves.
* `ReferencesFindTheirOwn`: the documents are those of the requests that were answered,
  and differ in their references (`DrivesOK`).
* `DocumentBalances`: for every price, promise, rate and fee, by the defining
  inequality of floor division; the only arithmetic is one multiplication by 10000.
* `PaymentsTypes`, `OneActiveOrderUnderPayments`, `PaidIsCharged`, `BoughtIsPaid`,
  `LedgerAlwaysBalances`: consequences of `PayInv`. It keeps `IndexInv` of the order
  service and adds what each checkout (`CheckoutsOK`), each call of `transition` made
  on behalf of one (`CallsOK`) and each handler (`HandlersOK`) knows of the documents
  it holds, and that every success the provider reports was charged, in a session of
  the payment it names (`ChargesOK`): no session changes its payment once it is open,
  which is the part of `CheckoutsOK` about charges.
  A call that is about to make an order PAID runs on a handler, and that handler's
  payment is PAID: without this clause `BoughtMeansPaid` is not inductive. Requests
  may die anywhere.
* `SoldIsCollected`, `SettlesOnce`, `AppliedIsSettled`, `CommissionIsSold`:
  consequences of `SettleInv`, still with deaths. It adds to `PayInv` that an order
  still being created is PENDING and untouched (`CreationOK`, where `EarlyAccess =
  FALSE` is needed), and how far each handler's settlement has come: its payment is
  PAID, from then on its order, then its vehicle, then its row (`ProgressOK`), so the
  re-reading of order and vehicle finds both and no applied success lacks its row. Two
  handlers cannot both be past the order's compare-and-set, which is why the unique
  index on commissions never has to refuse.
* `MediaTypes`, `PublishedServes`, `NoPhotoIsLost`: from `MediaInv`. `RenderOK` says
  of each call that the folder of a key it has yet to finish is incomplete, and that
  of a key it is about to publish, or has just published, is complete; a folder is
  written by its own call only, so a published image stays complete (`ImagesOK`).
  `CleanOK`, kept beside it, says that a call about to delete the original has
  published, and that one about to reject has a bad body in hand: `NoPhotoIsLost`
  follows.
* `BrowsingSeesAll`: from `CatalogueInv`. Its clause `BrowseOK` says that what a visitor
  has seen in a calm visit is a beginning of the list, of exactly the pages read. When
  the sort tells documents apart there is one beginning of each length (`OneBeginning`),
  so what the database skips for the next page is what the visitor has seen, and the
  page continues it. `PagesReach`: with the total the count reports, the last page lies
  at or beyond the end, by the defining inequality of the rounded-up division; the
  500th page and the one-page directories are the other ways to an end.
* `ReadsAgree`: equalities of the sets behind the counts; the bounds of the price need
  that a finite set has an extreme (`FiniteHasExtreme`, from the well-foundedness of
  strict inclusion); similar vehicles that all of them were fetched; saved ones that a
  vehicle is saved once, which the invariant keeps (`RemoveAtOnce`).
* `StorefrontTypes`: a behaviour of the storefront is one of each of its components
  (`StorefrontParts`), so what is proved of them holds of it.
* `LimitsOvershoot`: what is recorded and the calls that have passed are together
  fewer than the limit and the callers together (`Pending`): a call passes only while
  fewer than the limit are recorded, and no more have passed than there are callers.
  The bound on what is recorded follows: nobody gets more than `n - 1` too many when `n`
  requests are under way.

Model-checked only: the liveness properties (`CancelledVehicleReturns`,
`IndexesConverge`, `ChargeIsSettled`, `EveryEventAcknowledged`, `SuspensionTakesHold`,
`QuarantineEmpties`), since liveness under fairness is outside what the prover supports,
and the four violations, which are counterexamples. No module uses RECURSIVE operators.

## Findings

* `payments_lost_event`: a success losing its compare-and-set against a progress
  event is logged as rejected and answered 409; the redelivery is answered 200
  "duplicate". The payment is never PAID.
* `payments_unsettled`: a second checkout can hand out a payment before the first
  has moved the order to PAYMENT_PENDING; paid in that window, it is settled
  against a PENDING order and refused.
* `payments_early`: an order can be found in its customer's list, checked out and paid
  before its own reservation ran. The sale makes the reservation fail, and the roll-back
  of `create_order`, an unconditional delete, removes the PAID order: the vehicle is
  SOLD to an order that is gone (`orders/service.py:295`: "Keep the vehicle's status in
  step with the order that holds it."). `SoldMeansCollected`, `AppliedMeansSettled` and
  `CommissionMeansSold` fail the same way. Likewise an order cancelled before its
  reservation leaves a RESERVED vehicle that no order holds.
* `sessions_last_admin`: the count of active super admins and the write of the
  roles are two calls; two super admins demoting each other at once both pass.

Seen while modelling, without a run:

* Orders: the order and the vehicle are written in two calls. A request that dies in
  between leaves a RESERVED vehicle no order holds, and the runbook's remedy
  (OPERATIONS.md:94: cancel the order that holds it) has nothing to cancel;
  DATABASE.md mentions the gap and a "next reconciliation pass", of which there is
  none in the code. A request that dies between insert and roll-back while the index
  is missing leaves a duplicate over which the index can never be built. DATABASE.md
  speaks of optimistic locking on vehicles, whose `version` no write asserts.
* Keys: a refusal of `create_order` leaves its key claimed until the row's 24 h
  expiry (orders/service.py:75); repeats are told that a request is in flight.
* Payments: a refund moves the payment only. `commission_bps = 0` is replaced by the
  default rate (`Balances` uses the rate the code applies, so no property objects).
  payments/service.py:127-128 says "Reuse an in-flight payment rather than opening a
  second one. Two open payments against one order is how double charges happen.", and
  both can happen: look-up and insert are two calls with the provider's in between and
  no index backs them, so two concurrent checkouts open two payments; and a reused
  payment gets a second session, so one payment can be charged twice. The second
  success finds the payment PAID and is rejected, with no trace beyond its event's row.
  Conversely a failure in one session closes the payment, and a success in the other
  is then rejected.
* Accounts: `current_principal` and `login` refuse only SUSPENDED, while deps.py:133
  speaks of a user who "is still active", so a user the console sets to DELETED can
  sign in again. `set_user_status` has no last-admin check at all. Linking a Google
  identity writes back the status it read: a suspension set in between is undone
  (`SuspensionHolds` names this exception and shows that there is no other).
* Sessions: two concurrent refreshes with one token are both answered, and the client
  whose token lost is later killed for reuse. `reset_password.py` ends the sessions
  of every user, and misses a sign-in under way with the old password.
* Media: a published photo becomes "rejected" when another call, which downloaded a
  bad body put under the same key earlier, rejects it late; its variants stay.
* Catalogue: DATABASE.md:77 and API.md:43 say that "`skip` is not used anywhere" and that
  lists use cursors; the lists of vehicles, dealers and guides page with `skip`
  (vehicles/service.py:132). `PUBLIC_STATUSES` (vehicles/models.py:27) leaves UNPUBLISHED out while
  the queries' `VISIBLE` (vehicles/service.py:38) has it. Sorts without a tie-breaker
  may repeat or skip vehicles of one price between pages. Nothing past 10,000
  matches or 500 pages can be reached, and the lists of guides for the sitemap and of
  charging places are cut at 5000 and 500 without saying so. Comparison and saved
  vehicles look at the status only, so deleted vehicles still show there.

## Not modelled, and why

* Expiry of idempotency rows (MongoDB TTL): it bounds how long a key stays claimed.
* Titles, names, messages, histories, a user's own profile fields: no property tells
  them apart, and nothing else reads them.
* The audit log: nothing reads it back; an audit write that fails ends its request,
  which the `Abandon`, `Stop` and `Finish` actions cover.
* `EarlyAccess = TRUE` outside of `payments_early`: the properties about confirmed
  orders and about settlement are not claimed for it, since they fail (*Findings*).
* Text search, relevance order, translation and serialisation of answers: what the
  catalogue models is which documents an answer holds, not what they look like.
* The application shell: settings, error mapping, logging, the connection. Start-up
  is `Init` of `Orders`.
* `smoke.py` and `check_connection.py`, which test a deployment, and the shell
  scripts.
* Signature and password cryptography, token encoding, image decoding, Google and the
  payment provider themselves: pure computation or external.

## Plan

Done: every module listed above, and a proof of every safety property, action property
and refinement the runs check. What is left:

1. The safety halves of the liveness arguments: that a cancelled order's vehicle is owed
   its update by a call that is still under way, and that a charged payment is settled or
   has an event that is still to be delivered. Both would be invariants of the fair runs
   first.
2. That the composition `Payments` leaves the order service its refinement: that a payment,
   a webhook and a settlement are steps of `Marketplace` too, while nobody dies.
3. A bound on what a calm visit with ties can go wrong by: no page repeats a document that
   sorts strictly before its own.

# Verification of the intelligent-payment platform

TLA+ models of the services whose state must stay right under concurrency, crashes and
lost messages: payments, the transactional outbox, inventory, orders, the gateway's rate
limiter, the fraud service, accounts and tokens, and the checkout that ties them together.
TLC checks each model on small instances. TLAPS proves every safety invariant and action
property that TLC checks, and two refinements, for every value of the constants. Liveness is
checked by TLC alone.

Paths below are relative to the repository.

## 1. The system

Seven FastAPI services stand behind a gateway. Each is deployed in at least two replicas
(`infrastructure/kubernetes`), with one event loop per process. A request handler is a
coroutine, and any number of them interleave at their `await`s, within a process and
across replicas. What they share is PostgreSQL (one database per service), Redis
(pub/sub events and the rate limiter's window) and the payment provider.

| Component | State it keeps | Operations | Interacts with |
|---|---|---|---|
| payment-service (`services/payment_service`) | tables `payments`, `payment_outbox` | pay, refund, read, webhook | fraud-service (HTTP), provider, event bus |
| payment providers (`providers/`) | the provider's charges, refunds and idempotency records | create_charge, refund_charge | called by payment-service |
| outbox (`events/outbox_processor.py`) | the status of outbox rows | poll every two seconds, publish, mark | event bus |
| event bus (`shared/events/redis_client.py`) | one connection per process, a listener task | connect, publish, listen | all services |
| product-service | table `products` | create, update, delete, reserve, release | called by order-service and staff |
| order-service | tables `orders`, `order_items` | create, cancel, set status, event handlers | product-service (HTTP), event bus |
| gateway (`services/api_gateway`) | a sorted set per client in Redis, a list per client in memory | rate-limit, forward | all services |
| fraud-service | a dictionary of evaluations per process | evaluate, look up | event bus |
| notification-service | a dictionary of notifications per process | event handlers, send, list | event bus |
| user-service, `shared/authentication` | table `users`; signed tokens | register, log in, update, delete, check a permission | all services |
| frontend checkout | cart, idempotency key | order, fraud check, payment | gateway |
| audit function, logging, Azure helpers, manifests | none of their own | write a record | - |

What is hard here, and what would make each component correct:

* **Payments.** Look up the idempotency key, ask the fraud service, charge, insert: four
  awaits with no lock held. The unique constraint on (user, key) acts only after the money
  has moved. Correct means that nothing is charged when its fraud check failed, that a key has one
  payment, that an answer once given stays true, that an event follows its commit, and
  that an interrupted request leaves nothing half-recorded.
* **Outbox.** Handlers and the processors of several replicas publish the same rows, and
  a crash can come between publishing and marking. Correct means at-least-once: no
  committed event is dropped, and repetitions are bounded.
* **Inventory.** Reservations lock a row and edits do not. Correct means that whatever
  overlaps, the result is that of atomic operations and stock never goes below zero.
* **Orders.** A saga over HTTP, without a coordinator: each call may be lost, or succeed
  after its caller has given up. Correct means that an existing order holds exactly its
  units and that compensation returns exactly what was taken.
* **Rate limiter.** Count and record are separate round trips, shared by replicas, with
  a fallback in memory. Correct means a bounded overrun and no wrong rejection.
* **Users and tokens.** Register and update look an address up and write later; a login
  reads a row and makes a token from it; tokens carry a role that nobody looks up again.
  Correct means that a write changes only what was asked for, and that lost authority ends
  by a known time. (That addresses stay unique is the index's doing alone.)
* **Checkout.** The page creates an order, asks for a fraud check and pays, each through a
  gateway that gives up before the services do. A shopper who sees an error submits the same
  form again: a new order under the old key, while the first requests go on. Other clients of
  the API may pay for the same orders, each attempt under a key of its own. The events of
  the payments then reach order-service and notification-service late, repeated, or not at
  all. Correct means one charge per key, a status and notices that tell of stored payments,
  and no success shown for an order that was not paid.
* **Fraud.** Rules in bands and thresholds, and an alert that must be published and heard.
  Correct means that more risk never gets a milder decision.

`PROJECT.json` lists every component, and under `hazards` each place in the code that a
test would hardly reach, with the properties that guard it.

## 2. Modules

| Module | Models | Relation to others |
|---|---|---|
| `Provider` | mock and Stripe providers, with lost answers and replayed idempotency keys | extended by `Payments`, instantiated by `Checkout` |
| `Payments` | payment and refund requests of payment-service | `PaymentsProofs`, `MCPayments` |
| `EventBus` | one Redis and the processes that publish and listen | extended by `Outbox` and `EventFlow`, instantiated by `Fraud` |
| `EventRelay` | abstract: every committed message is handed over at least once | implemented by `Outbox` |
| `Outbox` | handlers, processors, crashes around `payment_outbox` | `OutboxProofs`, `MCOutbox` |
| `Warehouse` | a catalog and its stock operations, each in one step | extended by `AtomicWarehouse` and `Orders` |
| `AtomicWarehouse` | abstract: requests to that catalog, each done at once or refused | implemented by `Inventory` |
| `Inventory` | product-service on PostgreSQL row locks | `InventoryProofs`, `MCInventory` |
| `Orders` | order-service, and a warehouse behind a lossy network | `OrdersProofs`, `MCOrders` |
| `RateLimiter` | the gateway's middleware for one client | `RateLimiterProofs`, `MCRateLimiter` |
| `Fraud` | the rules, the score, the record and the alert | `FraudProofs`, `MCFraud` |
| `Users` | user-service, tokens and permissions | `UsersProofs`, `MCUsers` |
| `EventFlow` | payment events on their way to the status of an order and to notices | extended by `Checkout` |
| `Checkout` | the checkout page, the gateway's timeouts, direct calls of the payment API, orders, payments and their events composed | `CheckoutProofs`, `MCCheckout` |

`Orders` does not contain the row locks of `Inventory`. It calls the operations of `Warehouse`,
which `Inventory` is proved to carry out as `AtomicWarehouse` asks: each request once, with
just its effect. That is what lets the two be checked apart. In the same way `EventFlow` hands committed events over any number of times, as `Outbox` is checked to,
and `Checkout` keeps of `create_order` and `process_payment` the steps that other requests
can see: one commit of the order, and the lookup, the charge and the commit of the payment.

### How a model corresponds to the code

An action is the code between two awaits whose effect another coroutine, replica or
service can see. `pc` holds the await at which a coroutine is suspended. Python locals
that survive an await are variables of the task (`draft`, `read`, `seen`, `now`). A
commit is one step, since each handler has a session and a transaction of its own.
Every map from a definition to its lines is in `PROJECT.json`.

**Payments.** A request walks `own -> any -> fraud -> charge -> save -> publish -> done`:
`PreflightOwn` and `PreflightAny` are the two lookups of `process_payment`, `CheckFraud`
is `_check_fraud` with every way it can fail, and with a `decision` that is none of the three
words, which passes both tests and is charged; `Charge` calls the provider, `Save` commits
row and message together, `SaveConflict` catches the `IntegrityError`, `RecoverOwn` and
`RecoverAny` are the rounds of the lookup loop, `Publish` is the immediate dispatch and
the answer. A refund walks `call -> update -> publish`. `Crash` ends a task anywhere.
A lookup that finds several rows raises, as `scalar_one_or_none` does. A missing key is
NULL and conflicts with nothing; the empty key is falsy in Python but stored. An amount
under a cent passes validation and violates the check constraint when it is rounded. The
mock provider ignores the key. Stripe replays the first answer under a key, refuses
different parameters, and its answer may be lost after it charged.

**Outbox.** A row goes `absent -> PENDING -> PUBLISHED | FAILED`. `Commit` is the handler's
transaction, `ImmediatePublish` its dispatch (which marks nothing), `Poll` the processor's
snapshot of the oldest pending rows, `PublishMessage` and `Mark...` the loop body, where a
failing commit leads to `MarkFailed` or out of the batch (`AbortBatch`). `EventBus!Publish`
is the code's: it drops the error together with the message.

**Inventory.** `SelectForUpdate`/`CommitStock` are reserve and release under the row lock;
`Select`/`CommitUpdate` and `CommitDelete` read without a lock and write later. An update
takes the lock only to write, and writes only the columns that differ from what it read,
as SQLAlchemy does. `RollBack` is any failure before a commit. `AtomicWarehouse` sees of a
request its job, whether it was answered, and the columns an edit has yet to set: `Spare` drops
a column that has the value asked for already, since an update does not write what it found so.

**Orders.** A call is `sent`, then executed by the warehouse (`Reach`), then answered. A
`TimeOut` leaves the call behind in `strays`, where `ReachLate` may still execute it.
`taken` and `returned` are history variables that count, for each line of a cart, what the
warehouse reserved for an order and what each task returned; `cancelled` has the
cancellations that have committed. Carts are non-empty sequences of items, which the request
schema requires. Updates stand for the handlers of payment events and for clients that
set a status, which all write the status blindly.

**RateLimiter.** `Count` is the first pipeline (ZREMRANGEBYSCORE, ZCARD), `Record` the
second (ZADD); `FallBack` is an error of either, which may have taken effect before.
`now` is read by `Dispatch`, before both.

**Fraud.** `Evaluate` is everything up to the first suspension: score, decide, save.
Requests of the payment service carry no history (`CheckPayment`), those of other clients
may (`CheckInFull`). Which processes hear an alert follows from `Listening`, the
channels that services pass to `start_listening`.

**Users.** A request walks from `load` (`get_by_id`) and `lookup` (`get_by_email`) to its
`commit`; a login goes from `lookup` to `issue`. `loaded` is the row its session holds, and
`Flushed` writes the columns that differ from it, as SQLAlchemy does. `Admit` is the chain of
dependencies of a route: `Decodes`, then `Allowed`. `guarded` requests stand for routes of
other services that require a permission, with or without `require_mfa_or_reauth`. `lastHeld`
is a history variable: when an account last was active in a role. Time is in minutes. A
token reaches its client unless the gateway has given up by then (`Patience`).

**EventFlow.** `HandOver` is the immediate publish of a request or a processor's, `Take` the
start of a handler task. `Handle` and `CommitStatus` are the two halves of `update_status`,
and `LoadCancel` and `CommitCancel` those of `cancel_order` up to its commit. `Notify` sends
and stores a notice. `Restart` loses what a subscriber had in memory, its deliveries included.
Only the events of new payments are in it: refunds have no handler in order-service, and
notices of orders differ only in their text. Status updates by staff are in `Orders`.
`lost` is a history variable: the messages of which a delivery to order-service was lost,
because Redis did not take it, nobody listened, the replica that had it was restarted, or its
handler failed. `Fault` counts, up to `MaxFaults`, the calls that were repeated or not heard,
the restarts and the failed handlers.

**Checkout.** The page is one coroutine: `Submit`, `OrderAnswered`, `FraudAnswered` and
`PaymentAnswered` are the awaits of `handleCheckout`, `GiveUp` is any error in place of an
answer (the gateway's 503, 504 or 500), after which the request may go on or never
finish. A new key comes from the button, from a reload, or with the next purchase. `Call` is a
payment request by another client: for any order, under any of `CallKeys`, so that an order may
have several payments, failed and successful (`docs/api.md:142` has a key per attempt).

## 3. What is checked

| Run | Question | Instance | Distinct states |
|---|---|---|---|
| `payments_keys` | types; no charge after a failed fraud check; announced after commit; one payment per key; the loser of a race is answered | 3 requests, 2 users, one key, the empty key or none, mock provider | 1.6M |
| `payments_stripe` | rows, messages and the provider's ledger agree; answers are durable; at most one charge per key; status only moves forward; every task ends | 2 requests, 2 refunds, amounts under a cent, a fraud service that gives one of the three decisions (`Verdicts`), Stripe | 204k |
| `outbox_relay` | types; the outbox implements `EventRelay`; marked only after handing over; duplicates bounded; every message settles | 2 replicas, 2 messages, batches of 2, 1 fault, Redis outages | 168k |
| `inventory_rows` | types with stock never negative; implements `AtomicWarehouse`; every request ends | 3 requests on one product | 114k |
| `orders_saga` | types; an existing order holds its units; compensation returns only what was taken; returns bounded by committed cancellations, and both announced only after the commit; without faults, the books of an order cancelled at most once balance | 1 order of two items, 2 cancellations, 1 status update, 1 fault, staff edits | 3.0M |
| `rate_window` | types; overrun bounded by concurrency and the fallback's limit kept per replica, over windows shortened by the longest stay; no rejection below the limit | 4 requests, 2 replicas, limit 2, window 3, clock to 4 | 234k |
| `fraud_rules` | types; more risk is never treated more mildly | 2 transactions with any values around each threshold, a replica that restarts, Redis outages | 2.2M |
| `users_accounts` | types; columns change only as asked, by whom it may; lost authority expires | 3 requests out of 12 jobs, 2 accounts, 3 addresses, tokens of 3 minutes, clock to 4 | 521k |
| `checkout_flow` | types; one charge per key; success after the first request means paid; notices and status follow stored payments; payments whose event is not lost reach their orders | 2 submits and 1 API call for 2 orders, 2 payment requests at most, 2 keys of the page and 1 of the client, 1 cancellation, Redis that fails, each event handed over up to twice, 1 fault, Stripe | 2.0M |

Each property has a mutant in `PROJECT.json`: a plausible bug in one definition, written
beside the original as a `Fault`, under which the same run must fail.

### Why the bounds are enough

Races here are between two tasks over one row, key or batch, with a third as a bystander
that changes what a lookup sees; hence two or three of each. Three requests under one key
allow a winner, a loser and a second user. Batches of two are the smallest where a batch
can be aborted in the middle. An order of two items, which may name one product twice, is
the smallest with something to compensate, and two units per product the smallest stock
that lets the second reservation of one product be granted or refused. Faults (timeouts, failed
commits, crashes) are counted and bounded by `MaxFaults`: one suffices for each hazard
listed. `LookupAttempts` is 2 instead of 5, and `Horizon` bounds the clock of the rate
limiter past one full window. In `Users` two requests race and a third logs in or acts on
the outcome; `Lifetime`, `Window` and `Patience` keep their order (15 seconds, 15 minutes, 60
minutes become 1, 1 and 3), and the clock runs past the life of the first tokens. In
`Checkout` two submits are the smallest retry and two keys the smallest next purchase. Two
payment requests (`MaxPaying`) are two submits under one key or two, or a submit and an API call
for one order, which is the smallest case of a failed and a successful payment of one order. One
of their two events may be handed over twice, or lost, which is enough for a late copy to meet
the other event, a cancellation or a restart. There is one replica of each subscriber in the
run; the theorems are about any number. Amounts in `Fraud` are scaled down, while the counters'
thresholds are those of `settings.py`. Permutations of requests, cancellations or
transactions are used as symmetry only where no liveness is checked: `payments_keys`,
`orders_saga`, `rate_window`, `fraud_rules` and `users_accounts`, whose action properties
speak of single steps and treat all requests alike.

### Fairness

* `Payments`: weak fairness of each task's own steps, since an event loop resumes every
  ready coroutine. Requests need not arrive, and a crash has no fairness.
* `Outbox`: weak fairness of a processor's steps and of its restart, as Kubernetes restarts
  a dead pod. The number of crashes is finite.
* `Inventory`: strong fairness of a request's step, because waiting for a row lock is
  enabled again and again, and PostgreSQL grants locks in turn.
* `Orders`, `RateLimiter`, `Fraud`, `Users` and `Checkout` are checked for safety only and assume
  none. That a payment reaches its order is stated in `Checkout` of the states in which nothing of
  it is under way (`PaymentsReachOrders`), which needs no fairness and excuses only the loss of
  a delivery of that very event.

### Where the code disagrees with its documentation

Three runs expect a violation. Each checks one sentence of the repository's docs or code.

| Run | Sentence | What happens |
|---|---|---|
| `lost_event` | `docs/architecture.md:76`, the outbox "retries delivery" | `EventBus.publish` swallows the failure and the row is marked PUBLISHED |
| `double_release` | `README.md:19`, "Zero Race-Condition Inventory" | two concurrent cancellations return the same units |
| `shown_paid` | `page.tsx:114`, "Payment processed successfully!" | a declined payment is answered 201 when its key comes again, and the page shows success for an order nobody paid |

More disagreements follow from the models without a run of their own.

* `docs/architecture.md:80` says conflicts end "without double charging". With the mock
  provider, which ignores keys, both requests are charged before the insert that can
  conflict; `AtMostOneChargePerKey` is therefore checked with Stripe.
* `payment_service.py:75` has a "safe review fallback". It covers a fraud service that fails, but
  not one that answers 200 with a `decision` that is none of the three words (or null): only
  REJECT and REVIEW are tested for, and the payment is charged. `SafeFraudFallback` says just that.
* `schemas/payment.py:33` has an "Optional idempotency key for the refund operation". No
  action of a refund reads it, and two refunds under one key both pay back.
* `event_consumer.py:17` says "Listens to platform events (orders, payments, fraud)". Alerts
  are published on `fraud_events`, and no service listens there (`AlertListeners` in `Fraud`
  is empty).
* `product_service.py:138` speaks of an increment when a "payment fails". `BooksBalance` says
  that an order keeps its units until it is cancelled, whatever its status, FAILED included.
* The handlers of `order_service/app/main.py` call the blind write of `order_service.py:232`. With
  the attempts of `docs/api.md:142`, each under its own key, a late PaymentFailed of one attempt
  takes back the PAID of another, and a status update may overwrite CANCELLED.
  `StatusFollowsPayment` confines the first to orders that have payments of both kinds.
* `README.md:94` promises "120 req/min per IP". `OverrunBounded` allows more, by the number of
  concurrent requests.
* `rules.py:43`, "Flags high frequency of transactions": `CheckPayment` carries no counters,
  so that the velocity rule never fires for payments.

## 4. What is proved

Each proof module extends the module of its component, holds for any number of requests,
replicas, messages, carts and faults, and assumes only the named assumptions on constants
in the modules it extends. Where a theorem needs more, it says so in its own statement:
`MonotoneDecisions` has a bound on one setting, and `OnePurchase` and `OneChargePerKey` are
about a service with Stripe behind it. Each proof has the same shape: an invariant that holds
initially and is kept by each action, and the properties as its consequences.

**PaymentsProofs.** `TypeInv` is `TypeOK` and `Control`, which says what a task at each step
has in hand (a submitted input, a draft, a payment to refund); it is inductive by itself
and gives `TypeCorrectness`. The other invariants build on it and on each other.

* `TableInv`: a request has a row only from its commit on, rows with a key are unique, a task
  about to publish has its row and message, a refund's target was SUCCEEDED or is REFUNDED,
  and every answer shows what its row shows, or the SUCCEEDED that a refund has since
  replaced. From it follow `IdempotentAnswers`, `CommitBeforeAnnouncement` and
  `DurableAnswers`: the answer is in the invariant because a lookup may read another task's
  row, which must neither vanish nor change except by a refund. `PaymentsOnlyForward` is the
  action property from the same invariant.
* `FraudInv`: a request at its charge passed its fraud check (APPROVE, or a word that nobody
  knows), and one that was charged is past it. It gives `FailSafeCharging`.
* `RaceInv`: a request that met a conflict (and asked for a cent at least) has a key, and the
  row it lost to is still there for the lookups that follow. It gives `RaceLosersAnswered`.
* `EventsInv`: rows and messages agree, and a refund's message is written only on its way to
  "publish". It gives `EventsTellRows`.
* `ChargesInv`: what a draft or a row says of a charge is backed by one, and Stripe has one
  record under a key and one for every charge. `RepaidInv`: a refund that is stored was paid
  back. Together they give `LedgerBacksTable` for either provider, and `OneChargePerKey`
  for Stripe. The mock ignores keys, and there the property is false.

**OutboxProofs.** The invariant adds to the types that a processor works only on rows that
exist, that what was handed over has a row, and that a processor about to mark has handed
the message over. `NoMarkWithoutHandOver` follows, and so does `OutboxImplementsRelay`: the
initial states and every step of `Outbox` are those of `EventRelay`. `BoundedDuplicates` is not
inductive: the bound speaks of faults and replicas, and not of who still holds a copy.
`SendsInv` adds that. While a row is PENDING, each send beyond the request's own was made by a
processor that is about to mark it or was lost in a fault; once it is marked, only the
snapshots taken before can send it again. The sets `Owing`, `Handing` and `Holding` name these
processors, and the proof counts how each action moves one between them. It needs finitely
many replicas, as `OutboxAssumption` says.

**InventoryProofs.** The invariant adds to the types that a request at its write holds
the row lock, or is one that took none, and that a locked row still satisfies what was
checked when it was locked. That gives `NoOverselling` (stock stays a natural number) and
`InventoryIsAtomic`: under the mapping of `Inventory!Atomic` every step is one of
`AtomicWarehouse` or a stutter. The lock makes a commit of a reservation or a release move the
stock as it is then; an edit's commit sets what `ToWrite` has kept of the columns it named.

**OrdersProofs.** `SagaInv` ties the history to the position of each task in its loop over the
cart. A create has reserved exactly the lines behind it (`TakenInv`), a task that returns
items has returned none of the lines ahead of it (`ReturnedInv`), and a call whose caller gave
up has not been executed and will not be sent again (`StraysInv`): without that last part, a
late call could return what was already returned. With `AnnouncedInv` it gives
`PersistedReserved`, `CompensationBounded` and `ReturnsCommitted`, with any number of faults.
`BooksBalanced` speaks of runs without faults and of orders cancelled at most once (racing
cancellations each return the units, as `double_release` shows), and needs the other direction, that what is
behind a task was done: `NoFailureInv`, from `OrderBooks` for a create and `CancelBooks` for a
cancellation.

**RateLimiterProofs.** A request reads the clock before its count, and records itself later
without counting again. What bounds the overrun is how long it may stay in between:
`ClocksInv` bounds that by `Delay`, and `KeptInv` says that an entry is removed only when its
window is over. `PassedInv` then bounds those that a count has let through, recorded or not,
over a window shortened by `Delay`: a count below the limit saw at most `MaxRequests - 1`
of them, and those it did not see are in the middleware, at most `Concurrency` with itself.
`OverrunIsBounded` follows. `LocalLimit` has no such overrun because a replica counts and records in
one step, but holds over the shortened window only: an overtaken request may add one to a full one.
`NoEarlyRejection` holds since entries never stand for requests outside the window.
Limit, window, delay, concurrency and horizon are any numbers that `RateLimiterAssumption`
allows.

**FraudProofs.** The invariant says that each decision is the one the rules give for the
facts of its request. `MonotoneDecisions` follows from the monotonicity of each rule and
needs `MAX_FAILED_ATTEMPTS =< 5`: with six, five failures would score 50 and six only 40.

**UsersProofs.** The types need to know what a request at each await has in hand: a login
about to issue holds a token, an update at its commit has loaded a row (`TypeInv`).
`Columns` needs that a registration still to commit has no row yet
(`RegistersNew`), so that a row that changes is the target of an update. `Expiry` needs
`HeldInv`: `lastHeld` is the clock for what holds now and never runs back, a token in hand was
stamped no later than its account last held the role plus `Patience`, and a login about to
issue was sent no later than that. The durations are any natural numbers.

**CheckoutProofs.** One invariant, `Inv`, for the whole composition: the types and

* `Deliveries`, that each delivery is counted where it is, in an inbox or at a handler, and none
  more often than it was sent; `CancelThere`, that a cancellation is of an order that exists;
* `ReachInv`, that an event handed over is lost, or on its way at a replica of order-service, or
  its order is not PENDING any more. It gives `HandedOverReaches`;
* `PageInv`, that the page sends one order and one payment per submit, the submits in order, and
  `RequestInv`, that a payment request is for an order that exists;
* `EventInv` and `OneEvent`, that an event tells of the payment stored with it and that a key has
  one, and `RowInv`, that a row was stored by a request under its key for its order. They give
  `NoticesTellPayments`;
* `BankInv`, that charges have their records at Stripe, `PaidInv`, that PAID and FAILED have a
  stored payment behind them, and `FirstPaid`, that what the page has thanked for first was paid.

Most actions touch one of these and leave the others by a common argument, `Grows`: keys,
answers, rows and charges are never taken back. `CheckoutTypes`, `FirstThanksIsPaid`,
`NoticesTellPayments`, `HandedOverReaches` and the action property `StatusTellsPayment` (through
the lemma `StatusMoves`) hold with either provider; `OnePurchase` needs Stripe. All of them hold
for any number of payments of one order.

Only model-checked: liveness, which the prover does not treat, since it follows from fairness
and fairness is about ENABLED. That is `EveryTaskEnds` of Payments, `EveryMessageSettles` and the
fairness half of `RelaysEveryMessage` of Outbox, and `EveryRequestEnds` of Inventory. For `RelaysEveryMessage` the initial states and the steps are
proved (`OutboxImplementsRelay`), and only that every message is eventually handed over is not.

## 5. What is not modelled

* The proxy's prefix table and headers, and the contents of the cart. The proxy keeps no
  state; its timeout is in `Checkout` and in `Users`.
* Tokens of external issuers and the permissions inside a token: user-service makes none.
* Notices of orders, refunds and alerts, which are handled like those in `EventFlow`.
* The browser's session and cart (`context.tsx`): local state of one page.
* Reads that change nothing, prices, addresses, wording, logging, metrics, Azure clients,
  manifests, the audit function (one insert per call), cryptography.
* SQLite, used by the tests, ignores `FOR UPDATE`; the models are of PostgreSQL.
* `EventBus` dispatches to handlers of the publishing process as well; no service
  subscribes to what it publishes itself.

## 6. Plan

Done: Payments with Provider, Outbox over EventBus with EventRelay, Inventory with
AtomicWarehouse, Orders, RateLimiter, Fraud, Users, EventFlow and Checkout, with proofs of each.

Next, in this order:

1. What `Checkout` assumes of its parts, as theorems: that its commit of the order is what
   `Orders` does (a row exists or not, and is announced after), and that its lookup, charge
   and commit are those of `Payments` for one user.
2. That `EventFlow` hands over only what `EventRelay` allows.
3. Fairness of Orders, and that every create and cancel is answered.

# Wolloyewa Store: a TLA+ verification project

This directory models the program in `src/` (a multi-vendor store for the Ethiopian
market: a Telegram bot, a web app and a FastAPI service over PostgreSQL, Redis and
Celery) in TLA+, checks the models with TLC on small instances and proves theorems
about them with TLAPS.

## 1. The system

| Component | State | Operations | Interacts with |
| --- | --- | --- | --- |
| Orders, payment, refunds (`apps/orders`, `api/v1/endpoints/{orders,payments}.py`) | `orders` (status, payment status, transaction reference, refunded amount), `order_items` (quantity, vendor status) | create, update status, cancel, vendor status, payment status, verify, refund | decrements and releases product stock, calls the payment gateway, emits events |
| Checkout (`bot/handlers/checkout.py`, `bot/web_app/router.py`) | the conversation state, the cart | place order, start / retry payment, cancel | orders, coupons, gateway |
| Products (`apps/products`) | `products.stock_quantity`, `is_deleted` | update, add, subtract, delete, reserve, release | mirrors stock into `inventory` |
| Inventory (`apps/inventory`) | `inventory.quantity`, `reserved_quantity`, reservations, stock movements | reserve, confirm, release, expire, adjust | periodic cleanup, product stock sync |
| Coupons and loyalty (`apps/marketing`) | coupon usage counts, point ledger | apply, redeem, earn | orders |
| Event bus (`core/events.py`) and notification dispatch (`infrastructure/notifications/lifecycle.py`) | in-memory event queue, one worker; Celery messages | emit, process, stop, dispatch | the transaction that emits |
| Circuit breaker (`core/circuit_breaker.py`) | state, failure and success counts, half-open calls, last failure time | call, reset | wraps gateway and SMS calls made concurrently |
| Bot conversations (`bot/handlers`, `bot/bot_instance.py`, `bot/webhooks.py`) | `user_data` (cart, the answers of a checkout), the conversation's state; both copied to Redis | every button and text of the checkout, flush, refresh, restart | orders, the address book |
| Password recovery (`apps/users/password_recovery.py`) | three Redis keys per phone number: requests, code, attempts | request a code, confirm, expire | Telegram or e-mail delivery, `users` |
| Web profile (`bot/web_app/router.py`) | `user_addresses`, the default in `user_preferences`, the picture's row and file | add, change, delete an address, save the profile, upload and remove a picture | the bot adds addresses and pictures too |
| Priority queue and dead letters (`infrastructure/queues`) | Redis sorted set, item hash, dead-letter list | add, get, complete, fail, retry | workers that may crash |
| Task deduplication (`infrastructure/queues/task_deduplicator.py`) | Redis keys with a TTL | check, register, complete | Celery tasks |
| Rate limiters (`core/rate_limiter.py`, `infrastructure/redis/rate_limiter.py`, `core/security/rate_limiter_advanced.py`) | windows, token and leaky buckets | allow, reset | every request |
| Escrow (`payments_advanced/escrow_service.py`) | escrow status | create, fund, release, refund, dispute, resolve | gateway |
| Subscriptions (`payments_advanced/subscription_billing.py`) | subscription status, period, retries | create, cancel, pause, resume, bill, retry | gateway, periodic job |
| Offline sync (`mobile_api/offline_sync.py`) | per-user queue of operations in Redis | queue, process, retry | mobile clients |
| Support (`apps/support`, `support_advanced`) | tickets, messages, escalations | open, assign, reply, escalate, close | notifications |
| Users and security (`apps/users`, `core/security`) | accounts, sessions, tokens, roles | login, refresh, revoke, lock | every endpoint |
| Analytics and data pipeline (`apps/analytics`, `core/data_pipeline`) | aggregates, ETL batches | collect, transform, load | reads the other tables |
| Infrastructure (backup, multi-tenancy, storage, compliance, API versioning, monitoring) | files, tenants, keys | adapters around external services | |

### Where it is hard

* A handler reads, awaits (the database, a gateway, Redis) and writes; another handler
  runs in between. The code takes row locks in few places (coupons, stock decrements
  are conditional updates).
* The payment gateway acts outside the database transaction: it may have paid when the
  transaction is rolled back.
* An order has two status machines, its own and one per item, moved by different
  people, and the order's is derived from the items'.
* Redis structures are changed by several commands, and a worker can stop between two.
* The webhook passes each Telegram update on at once, so two updates of one customer
  overlap while a handler waits; the bot's memory reaches Redis once a minute, and what
  Redis has is merged back before each update.
* A picture is a file and a row, and a commit may raise although it was done.
* Events are queued before the transaction commits, and are lost when the process stops.
* The circuit breaker counts answers of calls that started in an earlier state.

## 2. What makes each part correct

* **Orders.** A cancelled or refunded order holds no stock; payment and fulfilment
  status agree; no refund is claimed that the provider did not make; no path of an order
  loses a unit of stock.
* **Concurrent requests.** The above holds when handlers overlap, the database aborts
  one of a deadlock, or the connection is lost; shelf and order row change together; every
  request is answered.
* **Concurrent checkouts.** The last unit and the last use of a coupon are given once;
  what is on the shelf and what was ordered add up; the outcome is one that serving the
  checkouts one after another can have; a first-order coupon is used once by a customer.
* **Event delivery.** Nobody hears of an order that was rolled back; a committed change
  is announced, once unless a failure explains the repetition; no event vanishes silently.
* **Circuit breaker.** A recovering service is not flooded; the circuit opens and closes
  only on evidence; it admits calls again.
* **Bot checkout.** What is ordered is what this checkout's customer answered; an order
  that was not paid for can still be cancelled by the conversation, and one that was placed
  is not cancelled by it.
* **Password recovery.** A code works once and only until a newer one is stored; it bears a
  bounded number of guesses; a code that was delivered works; a number can ask again.
* **Profile.** One default address, and the settings name the same one; the picture a
  profile names can be served.

The list of hazards, each at its line with the properties that would notice it, is in
`PROJECT.json`.

## 3. Plan

In order of importance; the modules of the first table are in this directory.

| Module | Models | Composes or refines |
| --- | --- | --- |
| `OrderFulfilment` | orders, stock, payment, refunds, one committed transaction per step | uses `OrderConstants` |
| `OrderTransactions` | the handlers of one order as overlapping transactions | uses `OrderConstants` |
| `CheckoutTransactions` | overlapping checkouts: product rows, coupon rows | implements `SerialSales` |
| `SerialSales` (abstract) | checkouts served one after another, each in one step | |
| `CheckoutConversation` | one customer's checkouts in the bot, `user_data` and its persistence, overlapping updates | its orders are those of `OrderFulfilment`, reduced to what the conversation can tell apart |
| `PasswordRecovery` | codes and counters in Redis, delivery, expiry | |
| `CustomerProfile` | addresses, the default among them, the profile picture | |
| `EventDelivery` | transaction, event bus, Celery, fallback task, shutdown | |
| `CircuitBreaker` | concurrent calls through the breaker | |

Possible further modules:

| Module | Models | Composes or refines |
| --- | --- | --- |
| `RateLimiter` | the sliding window of `core/rate_limiter.py` | a bound on the admissions of any interval |
| `SupportTickets`, `VendorRegistration` | ticket and application flow | |

Every safety invariant and action property that a run checks is now a theorem (section 7).
Left for the proofs:

* an upper bound to go with `StockNeverLost`: stock and held units together grow only by
  the release of items that were released before (section 9);
* an abstract order whose stock and status move in one step, which `OrderTransactions`
  implements but for the overlaps of section 9;
* lemmas towards the liveness properties (what a waiting request waits for, that the order
  of locks decreases), short of the fairness argument itself.

Modules that theorems are about use no `RECURSIVE` operator.


## 4. Modules and code

Each module is followed by `MC<module>` (the instances for TLC) and `<module>_proofs`
(the theorems). Definitions keep the names of the code's functions; `PROJECT.json`
("map") gives the lines of each. Operators whose comment begins with *Mutant* are wrong
variants of the definition above or below them, used to confirm that the properties
notice such a bug; no specification uses them. Variables marked *history* record what
happened for a property and influence nothing.

### OrderFulfilment (and OrderConstants)

`apps/orders/services.py`, `infrastructure/api/v1/endpoints/payments.py`,
`apps/orders/refunds.py`, `bot/handlers/checkout.py`, `bot/web_app/router.py`, the stock
part of `apps/products`. One action is one committed database transaction; a handler that
raises is rolled back and takes no step.

| Specification | Code |
| --- | --- |
| `stock`, `removed` | `products.stock_quantity`, `is_deleted` |
| `status`, `payment`, `txn`, `refunded` | columns of `orders`; `txn` is the set of orders with a `payment_transaction_id` |
| `lines`, `vendorStatus` | `order_items.quantity`, `vendor_status` |
| `checkout` | the bot conversation of the order |
| `captured`, `paidBack` | the provider's books, outside the program |
| `WebCheckout`, `BotCheckout`, `BotCheckoutRejected` | `create_order` as the web app and the bot call it; they differ in what is committed when |
| `UpdateOrderStatus`, `AdminUpdateOrderStatus`, `CancelOrder`, `CancelCheckout` | `update_order_status`, `cancel_order` and the bot's `cancel_checkout`, with the stock they release |
| `UpdateVendorOrderStatus`, `DerivedStatus` | `update_vendor_order_status`: a vendor moves its items and the order's status is derived |
| `InitiatePayment`, `BotPayment`, `BotRetryPayment`, `VerifyPayment` | the payment endpoints and `update_payment_status` |
| `PartialRefund`, `FullRefund`, `FullRefundRolledBack` | `process_refund`, after the provider refunded; the last one when the restock raises |
| `UpdateStock`, `DeleteProduct` | `ProductService.update_stock`, `update_product`, `delete_product` |

### OrderTransactions

The same handlers cut at every point where another request can run: the unlocked `SELECT`
(`Read`), the call to the provider (`AskProvider`, `RefundAtProvider`), the `UPDATE` of the
order (`Update`, which waits for the row lock), the release of stock (`Restock`, which
waits for the product rows) and the end of the session (`Commit`, `Rollback`).
`seen` is the ORM object a request holds, `NewRow` the columns its `UPDATE` sets; the
database is READ COMMITTED and `orders` has no version column, so an `UPDATE` computed
from an old row is accepted. `Fail` is an exception or a lost connection at any point.
There is one order; its items' product rows are one lock.

### CheckoutTransactions

`OrderService.create_order` of several customers as transactions: the unlocked stock test
of every line (`CheckLine`), the conditional decrement (`Reserve`, which waits for the
row and judges the committed quantity), `apply_coupon` with its `FOR UPDATE`
(`ApplyCoupon`), the web checkout's call of the provider with all locks held
(`AskProvider`), `Commit`. Uncommitted decrements are kept as `rows[c]` and become
visible at the commit. A refused coupon rolls the web checkout back and lets the bot's
commit without the discount.

### EventDelivery

`core/events.py`, `infrastructure/notifications/lifecycle.py`,
`infrastructure/workers/tasks.py`, the shutdown of `main.py`. An event is queued inside
the transaction (`Emit`) that may still be rolled back. The bus hands it to Celery, or to a
task of its own event loop when the broker raises (`EnqueueNotification`); the dispatch
reads the order back (`Visible`) and sends. `CeleryRetries` is `self.retry` with
`MaxRetries`, which may all be spent while the transaction is open (`outrun`); `WorkerLost` the requeueing of `task_acks_late`; `Exit` a stop or crash,
which empties what lives in memory. `Faults` names what may go wrong in an instance.

### CircuitBreaker

`core/circuit_breaker.py`. A call passes `_check_state_before_call` when it begins and
reports in `_record_success` or `_record_failure` when it ends, each under the breaker's
lock; in between the phase may have changed. `Cool` is the passing of
`recovery_timeout`. Counters that are only compared with a threshold stop there (`UpTo`).

### SerialSales

The abstract specification of overlapping checkouts. Its variables are the shelf, the
coupons' counters, each checkout's outcome and basket; `Sell` moves them in one step and
only if shelf and coupon allow it at that moment, `Refuse` leaves them alone.
`CheckoutTransactions` maps its committed columns to it (`Serial == INSTANCE SerialSales
WITH outcome <- ..., sold <- ...`): `Commit` is a `Sell`, the end of a rolled-back checkout a
`Refuse`, every other step a stutter (`SalesAreSerial`). That a coupon goes to the
customer's *first* order is not part of it, because the code does not keep that.

### CheckoutConversation

`bot/handlers/checkout.py`, `bot/handlers/conversation_navigation.py`,
`bot/handlers/callback_utils.py`, `bot/bot_instance.py`, the conversation set up in
`bot/dispatcher.py`. One customer. `bot/webhooks.py` handles each update in a task of its
own, so two updates of one customer interleave wherever a handler awaits something. A step
is what a handler does between two awaits: an update is received with what its handler does
up to the first one (`Arrives`), every later step works on `user_data` as it is by then
(`GoesOn`), and the last one returns the conversation's state. What a handler carries over
an await in local variables is in its `task`.

| Specification | Code |
| --- | --- |
| `conv` | the state of `checkout_conv` |
| `data`, `saved` | `user_data` in memory and as Redis has it: functions whose domain is the keys present |
| `Refreshed` | `refresh_user_data`, which merges `saved` under `data` before each update, and only then |
| `task` | for each update at work: what its handler does next, with its local variables |
| `book`, `orders` | the rows in `user_addresses`; the orders of this conversation, and whether the customer was told of them |
| `Start`, `StartCheckout` | `start_checkout`, which answers the button before it clears the keys |
| `ChooseAddress`, `AddressChosen` | `address_callback` |
| `TypeAddress`; `ShareLocation`, `Located` | `new_address_handler` with a text; with a location, which waits for `reverse_geocode` before it writes the answer |
| `GiveName`; `GivePhone`, `SaveAddress`, `AddressSaved`, `AskNext` | `recipient_name_handler`; `recipient_phone_handler`, with the transaction that saves a typed address |
| `GiveCoupon`, `CouponValidated`; `SkipCoupon`, `CouponSkipped` | the coupon step |
| `PayBack`, `BackToName`; `ChooseMethod`, `MethodChosen`; `CancelButton`, `Quit`; `ShowConfirmation` | `payment_callback`, the cancel buttons, `show_order_confirmation` |
| `Confirm`, `ReadAnswers`, `CreateOrder`, `RefuseOrder` | `confirm_callback` and `_create_and_process_order`: it copies its answers, waits for the database, and commits |
| `PaymentAccepted`, `PaymentRefused`, `OrderReported`, `OrderHandlerFails` | `_process_order_payment` after each of its waits |
| `Retry`, `RetryPayment`; `Leave`, `ReadOrder`, `CancelOrder` | `retry_payment`, which `get_order` always refuses; `cancel_to_menu`, `cancel_checkout` and the cancel buttons of the confirmation |
| `QueryTooOld`, `HandlerFails` | a button that Telegram no longer lets the bot answer; any exception at an await |
| `Flush`, `Restart` | the library's job, once a minute; a process that stops |

`answers`, `mixed`, `disturbed` and `stranded` are history: what the customer answered since
the start; keys came back from `saved`; two updates were handled at once or a handler
failed; orders the conversation let go of.

### PasswordRecovery

`apps/users/password_recovery.py`. A request is a sequence of Redis commands
(`Count`, `SetExpiry`, `StoreCode`, `ForgetAttempts`), each an action, so that requests
interleave. The message may reach the customer (`Arrives`) before the sender reports
success (`Deliver`); `DeliveryFails` is the report of a failure, also of a message that did
arrive: both senders catch every exception, the one of a lost answer included. The ghost
`fate` says what took the newest code. A confirmation (`Confirm`, `Guess`) is one Lua
script and one action. Keys end by `WindowEnds`, `CodeLapses`, `AttemptsLapse`. `CutOff` is a
request that stops between two commands. A code is named by its request. `password` never
changes, because the session the endpoint uses is closed without a commit.

### CustomerProfile

`bot/web_app/router.py`. The users row is locked by every web handler that changes
addresses or the picture, so a change of the address book is one step; only
`update_web_user_profile` reads the settings row before it locks (`ReadSettings`), and
SQLAlchemy writes a column only if it differs from what the session read (`PointTo`,
`Known`). An upload holds the lock from `WritePicture` to `CommitPicture` or
`CommitFails`, whose outcome the handler cannot know; the replaced file is removed after
the lock was given back (`RemoveFile`). `Shown` is the address the profile form edits.

## 5. Runs

All runs are exhaustive for their instance.

| Run | Instance | Shows |
| --- | --- | --- |
| `orders` | one order, one item each of two vendors, stock up to 2, a total of 2 refundable units, one product that may be deleted | `CalledOffHoldsNoStock`, `PaymentMatchesStatus`, `RefundsWerePaid`, `StockNeverLost` on every path of checkout, status change, payment and refund |
| `transactions` | three requests of any kind for one order in any stage, lost refund answers | the same money properties when handlers overlap, `RestockedWithOrder`, and that each request is answered |
| `checkouts` | three checkouts of two customers, two products with two and one units, a coupon with a single use and one with one use per customer | `StockIsConserved`, `CouponWithinLimits`, `UsesAreCounted` |
| `checkouts_live` | two checkouts of one customer, the same products, one of two coupons for first orders only | `EveryCheckoutEnds`, although carts list products in any order; `FirstOrderCouponOnce`; `SalesAreSerial`, the refinement of `SerialSales` |
| `conversation` | two updates that may be at work at once, a saved and a typed address; orders, writes to Redis and restarts two together; one incident, which is an overlap, a failing handler or a write | `ConfirmsTheAnswers`, `UnpaidOrdersAreKnown`, `PlacedOrdersStay` on every path, with handlers that interleave at every await |
| `recovery` | three requests of which two are admitted in a window, two guesses, two resets of the counter, one request cut off | `UsedCodesAreGone`, `GuessesAreBounded`, `DeliveredCodeWorks`, `RequestsComeBack` |
| `profile` | two updates, two uploads, three addresses | `DefaultsAgree`, `PictureIsThere` |
| `breaker` | three concurrent calls, every threshold 2, any outcome | the load and evidence properties, `AdmitsAgain`, `ClosesWhenHealthy` |
| `events_safety` | a creation and an update, two retries, every fault, one lost worker | `NoGhostOrders`, `RepeatsAreExplained`, `NothingVanishes` |
| `events_live` | two creations and an update, rollbacks and a lost worker | `CommittedIsAnnounced` |

The remaining runs are counterexamples (section 9).

**Why the bounds are enough.** An order touches others only through stock, and stock is
also moved by `UpdateStock` to any value in the `orders` run, so a second order adds no
stock history that one order does not meet; two items of different vendors are what
`DerivedStatus` can tell apart together with mixed statuses of either. A total of two
units allows no refund, a partial, a completing and a full one. Three requests allow a
holder, a waiter and one that commits in between; a fourth finds the rows in a state three
can produce. Two products are the smallest circle of waiting checkouts, three checkouts
leave one outside the circle, and two units of one and one of the other product make both
the first and the second line of a cart the one that fails. Carts that share no product
meet only at the coupon's row. Thresholds of 2 separate "the first" from "enough", and
three calls leave one running from an earlier phase while two fill the half-open slots.
`MaxLosses` bounds how often a worker is killed. In the conversation a second order is
what an earlier one can be confused with, and a key comes back only through what one write
saved; two writes are two instances of the first, since `saved` is overwritten as a whole.
Two updates at work are a handler and the one that comes between its steps. While an
order's handler waits for the provider or for Telegram another update counts as no incident,
so the whole checkout can be left, repeated or confirmed meanwhile. `MaxIncidents` keeps two overlaps, or
an overlap and a write, apart; their combinations are what the proof adds to this run.
Three requests are one over the limit of two, and an old, a newer and a newest code; two
guesses separate the first from the last. Three addresses are the one deleted, the one
promoted and one that is neither; of two updates one is stale when the other commits. The proofs of section 7 cover all other
sizes for the properties named there.

`CHECK_DEADLOCK FALSE` is set for `orders` (an order can reach its end with nothing
left to do), the events runs (every change was announced), and `conversation`, `recovery`
and `profile`, where the customer may do no more, the orders, requests or uploads of the
instance are used up; the transaction modules
have an explicit `Finished` step instead, so that a deadlock of requests is an error.

## 6. Fairness

* `Serve(r)`, `Serve(c)`: weak. The provider is called through `httpx` with a timeout
  (`timeout=30` in the providers), PostgreSQL detects deadlocks and aborts a victim,
  and a lock's holder is itself served; nothing is assumed about requests arriving, the
  customer paying or failures. Weak fairness of a waiting request is enough because every
  request is served once: the locks it waits for are taken finitely often.
* `ProcessEvent`, `Dispatch(t)`, `Commit(t) \/ RollBack(t)`: weak. The bus worker is a task
  of the running event loop, Celery workers run with `task_acks_late`, a request's
  transaction ends. `Emit`, faults and restarts have no fairness.
* `Work(r)`, `WindowEnds`: weak. A recovery request that was counted is a running coroutine
  whose Redis commands and deliveries have timeouts; what stops it is the explicit `CutOff`.
  Redis removes a key whose time to live is over. New requests, guesses and the other keys'
  expiry have no fairness.
* `Cool`, `Finish(c)`: weak. Time passes and a call has its own timeout. `Begin(c)` is fair in
  `CallersSpec` only, for `AdmitsAgain` and `ClosesWhenHealthy`, which are about a service
  in use: an open breaker turns half-open only when somebody calls. `Reset` is never
  assumed. Both properties except `SlotsUsedUp`, a state the code cannot leave by itself
  (section 9).

## 7. What is proved

Every invariant and every action property of the passing runs, and the refinement
`SalesAreSerial`, is a theorem: it holds for every value of the constants that satisfies
the named assumptions in the modules. Ids are any sets, limits and thresholds any natural
numbers, `VendorOf` and `CustomerOf` any functions. Two sets are finite, because sums and
counts range over them: `Orders` (`OrdersAssumption`) and `Checkouts`
(`FiniteAssumption`). A program only ever sees finitely many.

| Module | Theorems | Inductive invariant, and why the properties alone do not do |
| --- | --- | --- |
| `OrderFulfilment_proofs` | `TypeCorrect`, `CalledOffOrdersReturnStock`, `PaymentAgreesWithStatus`, `RecordedRefundsWerePaid`, `StockIsNeverLost` | `AbsentIsBlank`: without it an order placed under a fresh id could inherit a cancelled item or a payment; `AbsentTookNothing`: or units, which its cart would overwrite |
| `OrderTransactions_proofs` | `TypeCorrect`, `OverlappingRefundsWerePaid`, `OverlappingPaymentsWereCaptured`, `StockMovesWithOrder` | `RowsHonest`: not only the committed row but every copy a request has read or will commit agrees with the provider, whose `paidBack` only grows; `Progressed`: what a request knows at its step; `StockInv`: a request that is about to release the stock, or holds its lock, will write or has written an order that is called off |
| `CheckoutTransactions_proofs` | `TypeCorrect` (no negative stock), `CouponsAreNotOverused`, `StockAddsUp`, `CountersAgree`, `FirstOrderDiscountIsUnique`, `CheckoutsImplementSerialSales` | `RowsFit`, `CouponsFit`: what a checkout has judged stays true while it holds the row, because no one else can hold it; `KeepsItsLines`: it holds all of its lines when it commits; `FirstUses`, `UsesAreFresh`: a recorded use comes with an order, so the second holder of the coupon's row sees the first one's |
| `CheckoutConversation_proofs` | `TypeCorrect`, `AnswersAreOrdered`, `NoOrderIsForgotten`, `PlacedOrdersAreKept` | `AnswersAgree`: the answers given so far are in `user_data`, or with the one handler that is about to write them, at every step and not only at the confirmation; `OneAtATime`: unless disturbed, at most one handler is at work; `NamedIsUnreported`: the order that `user_data` names, or a leaving handler read, was not reported then; `OpenIsNamed`: an order that nobody works on and nobody let go of is the one named; `StateInv`: what a handler carries over an await, and that no two handlers report the same order |
| `PasswordRecovery_proofs` | `TypeCorrect`, `CodesAreUsedOnce`, `GuessingIsLimited`, `NewestCodeWorks` | `BudgetIsKept`: what a stored code has borne is on its counter or was set back, at most `MaxAttempts - 1` at a time; `CounterIsOwn`: once its request removed the counter, no guesses at another code are on it; `InboxIsSent` and `NewestIsStored`: a code is stored from before its delivery on |
| `CustomerProfile_proofs` | `TypeCorrect`, `OneDefault`, `PictureIsServed` | `BookInv`: ids are given out in order and the default is an address that exists, which the promotion after a deletion relies on; `PictureInv`: a file that is the picture or about to be removed is one whose upload is over, and never both |
| `EventDelivery_proofs` | `TypeCorrect`, `GhostOrdersAreNeverAnnounced`, `EventsDoNotVanish`, `RepeatsHaveReasons` | `CopiesAreCovered`: messages sent and copies still on their way together exceed one only by what `repeats` counts |
| `CircuitBreaker_proofs` | `TypeCorrect`, `ProbesAreBounded`, `ClosingIsJustified`, `OpeningIsJustified` | `Counted`: every probe but the first holds a slot, and the counters of a phase count uninterrupted reports |

Each is proved from three facts: the initial states satisfy the invariant, each action
preserves it (one lemma per action or group), and it implies the property. An action
property uses the invariant at the step's first state, and `PlacedOrdersAreKept` and
`StockIsNeverLost` the type at its second. Every invariant was first checked by TLC on the
instance of its component's run.

**Sums and maxima.** `SumOver(f, S)` is a fold, a recursion over the subsets of `S` defined
by `CHOOSE`. That the recursion has a solution, that it is unique, and that the order in
which elements are taken does not matter is proved without an induction rule: strict
inclusion is well founded on the subsets of a finite set, so a claim that fails for some
subset fails for a smallest one (`SubsetMinimum`, from `WFMin`), and at a smallest one the
recursion contradicts it. `SolutionIsUnique`, `SolutionExists` and `SumSteps` are that
argument; `SumWithout`, `SumWithOneMore` (`CheckoutTransactions_proofs`) and `SumMoves`
(`OrderFulfilment_proofs`) are what the steps use. The maximum that promotes an address
(`MaxIsMember`, `CustomerProfile_proofs`) is found the same way.

**Refinement.** `CheckoutsImplementSerialSales` maps the initial states and then each
action: `Commit` is a `Sell` because the invariant says that the committed shelf and
counters still admit what the checkout judged earlier; a rollback is a `Refuse`; every
other step leaves the mapped variables alone.

## 8. What is only checked, and what is left out

Only model-checked, because they need fairness and `ENABLED`, which are out of this
prover's reach: the liveness properties `EveryRequestEnds`, `EveryCheckoutEnds`,
`RequestsComeBack`, `AdmitsAgain`, `ClosesWhenHealthy` and `CommittedIsAnnounced`. The
counterexamples of section 9 are TLC's as well.

Left out of the modules present:

* Prices, discounts, tax, delivery fees and currency: arithmetic of one transaction. A
  total is a number of refundable units.
* Who is allowed to call a handler, except where it decides what can happen (the bot's
  retry, which `get_order` refuses: `SameId`).
* The mirror of `products.stock_quantity` in the `inventory` table.
* Texts, logging, localisation, pagination, queries.
* The expiry dates of coupons, and coupon administration during a checkout.
* `OrderFulfilment` has no concurrency and `OrderTransactions` no vendors; the overlap of a
  vendor's update with others is therefore not covered.
* The JSON file that keeps the bot's state without Redis, and writes to Redis that fail.
* In `CheckoutConversation`: the cart's contents and the deletion of addresses, so a handler
  may find either gone whenever it looks; the database reads inside
  `show_order_confirmation`, which are one step with the coupon it drops; the awaits between
  the commit of an order and the call of the provider, and between the provider's answer and
  the payment status it is stored with; the cart that is cleared before the report; more
  handlers at once than `Updates`.
* Of the same module: what a retried payment would do if `get_order` let it through
  (it compares the Telegram id with the id of the `users` row), and the notice the customer
  of a checkout cancelled meanwhile receives, which says that the order was placed.
* In `CustomerProfile`: files that no profile names any more. A picture sent through the
  bot and a process that stops leave them behind; the properties do not forbid it.
* Task queues (`infrastructure/queues`): they call methods that `RedisClient` does not have,
  so no operation of theirs gets past its first command; there is no behaviour to model.

Parts not modelled are listed in `PROJECT.json` with the reason; packages that only tests
import come last in the plan.

## 9. Claims the code does not keep

While translating the code, the modules were also checked against what comments, tests,
documents and names of the repository say. These disagree; each is kept as a property in
the last section of its module, with a configuration in which TLC finds the
counterexample. Several properties of section 5 are worded around them: the stock of
`StockNeverLost` may grow (units released twice), `RefundsWerePaid` is an inequality (a
refund that was made may be forgotten), `AdmitsAgain` and `ClosesWhenHealthy` except
`SlotsUsedUp`, `ConfirmsTheAnswers` and `PlacedOrdersStay` except keys that came back
(`mixed`), `ConfirmsTheAnswers` also updates handled at once and handlers that failed
(`disturbed`), `UnpaidOrdersAreKnown` the orders let go of (`stranded`),
`CommittedIsAnnounced` an event whose retries were spent before its transaction ended (`outrun`),
`GuessesAreBounded` counts the resets, `DeliveredCodeWorks` and `RequestsComeBack` except
what `fate` and `wedged` name, `DefaultsAgree` a write left out (`stale`). Each exception is
a history variable that only the step in question sets.

Listed as runs:

| Run | Property TLC refutes | Where | What it shows |
| --- | --- | --- | --- |
| `double_release` (`Orders_DoubleRelease.cfg`) | `ReleasesReservedStock` | `apps/orders/services.py:250` | update_order_status releases the stock of every item on cancellation, also of an item its vendor cancelled before, whose units update_vendor_order_status had already released; apps/orders/services.py:249 says '# Release reserved stock'. |
| `recovery_rolled_back` (`Recovery_stored.cfg`) | `UpdatedMeansStored` | `infrastructure/api/v1/endpoints/users.py:88` | confirm_password_reset runs reset_password in a session from get_db_session, which closes without a commit, so the new hash and the token version are rolled back after the code was consumed; infrastructure/api/v1/endpoints/users.py:109 answers 'Password updated. You can now log in.' |

Further configurations, run by hand with `tlc -config <file> <module>`:

| Configuration | Property TLC refutes | Where | What it shows |
| --- | --- | --- | --- |
| `Orders_CancelledIsFinal.cfg` (`MCOrderFulfilment`) | `CancelledIsFinal` | `apps/orders/services.py:365` | update_vendor_order_status derives the order status from the item statuses whatever the order's own status is, so a vendor who confirms an item of a cancelled order sets the order back to confirmed although its stock was released; core/constants.py:171 says 'OrderStatus.CANCELLED: []' under '# Order status flow (valid transitions)'. |
| `Orders_PaymentFlow.cfg` (`MCOrderFulfilment`) | `PaymentRespectsFlow` | `apps/orders/services.py:290` | update_payment_status sets the status to confirmed on every 'paid', without _is_valid_transition: an order already processed, shipped, delivered or cancelled goes back to confirmed; core/constants.py:164 says '# Order status flow (valid transitions)' and lists pending as the only predecessor of confirmed. |
| `Orders_DeletedProduct.cfg` (`MCOrderFulfilment`) | `CancellableCanBeCancelled` | `apps/products/services.py:398` | release_stock raises NotFoundError for a soft-deleted product, so cancelling an order that holds one is always rolled back; apps/orders/models.py:166 says 'Check if order can be cancelled.' and answers True. |
| `Orders_RejectedCheckout.cfg` (`MCOrderFulfilment`) | `RejectedLeavesNoOrder` | `bot/handlers/checkout.py:856` | _create_and_process_order catches the ValidationError of a coupon inside the transaction scope and returns, so the scope commits the order, its items and the stock decrement; bot/handlers/checkout.py logs 'Telegram checkout rejected for user %s: %s' and shows the customer an error. |
| `Orders_RefundRolledBack.cfg` (`MCOrderFulfilment`) | `RefundBalanceIsTrue` | `infrastructure/api/v1/endpoints/payments.py:284` | the provider refunds before the restock; when the restock raises (a deleted product) the transaction is rolled back and refunded_amount forgets money that was paid back; docs/security_audit.md:27 says 'Refund validation uses the remaining refundable balance and supports partial refunds.' |
| `Orders_Retry.cfg` (`MCOrderFulfilment`) | `RetryIsPossible` | `bot/handlers/checkout.py:768` | the retry_payment branch passes update.effective_user.id, the Telegram id, to get_order, which compares it with orders.user_id, the users.id of the customer, and raises PermissionError; bot/localization.py:393 tells the customer 'Please try again or choose another payment method.' and offers the button '🔄 Retry payment'. |
| `Transactions_release.cfg` (`MCOrderTransactions`) | `ReleasedOnce` | `apps/orders/services.py:236` | update_order_status judges the transition on a row read without a lock and without a version, so two cancellations that overlap both pass and both release the stock; apps/orders/services.py:249 says '# Release reserved stock'. |
| `Transactions_balance.cfg` (`MCOrderTransactions`) | `RefundsAddUp` | `infrastructure/api/v1/endpoints/payments.py:272` | process_refund writes refunded_amount as the value it read before the call to the provider plus its own amount, so a refund committed meanwhile is overwritten and its amount can be refunded again; docs/security_audit.md:27 says 'Refund validation uses the remaining refundable balance and supports partial refunds.' |
| `Transactions_partial.cfg` (`MCOrderTransactions`) | `PartialRefundsRecorded` | `infrastructure/payments/telebirr.py:260` | TelebirrProvider.refund_payment does not send the amount, so the provider refunds the whole payment while the order records a partial refund and stays paid; docs/security_audit.md:27 says 'Refund validation uses the remaining refundable balance and supports partial refunds.' |
| `Transactions_paid.cfg` (`MCOrderTransactions`) | `PaidStaysPaid` | `infrastructure/api/v1/endpoints/payments.py:114` | initiate_payment checks payment_status before it calls the provider and writes 'pending' after it, whatever was verified and committed meanwhile; infrastructure/api/v1/endpoints/payments.py:82 says '# Check if payment is already processed' and answers 'Order already paid'. |
| `Transactions_status.cfg` (`MCOrderTransactions`) | `PartialRefundKeepsStatus` | `infrastructure/api/v1/endpoints/payments.py:280` | process_refund includes the status it read in its UPDATE, so an order that was shipped or cancelled while the provider answered goes back to its old status; apps/orders/refunds.py:178 says '# Update the cumulative refund amount, and close the order only when fully refunded.' |
| `Transactions.cfg` (`MCOrderTransactions`) | `BalanceIsKnown` | `infrastructure/payments/chapa.py:256` | (in the place of its properties) a refund whose answer from the provider is lost, or whose transaction is aborted after the provider paid, leaves the order without it; docs/security_audit.md:27 says 'Refund validation uses the remaining refundable balance and supports partial refunds.' |
| `Checkouts_first.cfg` (`MCCheckoutTransactions`) | `OneFirstOrder` | `apps/marketing/coupons.py:241` | apply_coupon counts the customer's other orders, which under READ COMMITTED are the committed ones, and locks the coupon but not the customer: two checkouts of one customer that overlap, each with its own first-order coupon, are both counted as the first order; apps/marketing/schemas.py:44 says 'First order only'. |
| `Breaker_limit.cfg` (`MCCircuitBreaker`) | `HalfOpenMaxCallsHolds` | `core/circuit_breaker.py:148` | the call that finds the recovery timeout over is admitted without being counted in _half_open_calls_made, so half_open_max_calls + 1 calls run in one half-open phase; core/circuit_breaker.py:58 says 'half_open_max_calls: Max calls allowed in half-open state'. |
| `Breaker_wedged.cfg` (`MCCircuitBreaker`) | `SlotsComeBack` | `core/circuit_breaker.py:153` | a probe that is cancelled or raises an excluded exception records neither success nor failure and keeps its slot; once all slots are used that way the breaker stays half-open and rejects every call until an operator resets it; core/circuit_breaker.py:39 says the breaker opens 'allowing the service to recover before allowing requests again'. |
| `Events_fallback.cfg` (`MCEventDelivery`) | `CommittedIsAnnounced` | `infrastructure/notifications/lifecycle.py:484` | the fallback task dispatches once, 0.25 seconds after the event; an order whose transaction is still open then (web checkout calls the payment provider inside it) raises LookupError, which is only logged, and is never announced; infrastructure/notifications/lifecycle.py:471 says 'Queue notification delivery in Celery, falling back off-request if unavailable.' |
| `Events_live.cfg` (`MCEventDelivery`) | `CommittedIsAlwaysAnnounced` | `infrastructure/workers/tasks.py:218` | (in the place of its property) the task is retried a number of times after a delay that does not depend on the transaction; when every attempt is made before the transaction ends, the committed order is never announced; infrastructure/workers/tasks.py:208 says 'Deliver a domain-event notification after its transaction has committed.' The six attempts stretch over 465 seconds, so this takes a transaction that is open as long. |
| `Events_aftercommit.cfg` (`MCEventDelivery`) | `DeliveredAfterCommit` | `apps/orders/services.py:272` | update_order_status emits its event before the commit and the dispatch of a change to an existing order never looks whether it was committed, so a status change that is rolled back is announced; infrastructure/workers/tasks.py:208 says 'Deliver a domain-event notification after its transaction has committed.' |
| `Events_webhook.cfg` (`MCEventDelivery`) | `VerifiedPaymentIsStored` | `infrastructure/api/v1/endpoints/webhook.py:194` | the webhook handlers run verify_and_update_order_payment in a session from get_db_session, which closes without a commit, so the payment they verified is rolled back while its event is announced; infrastructure/payments/payment_verifier.py:130 says 'True if payment is verified and order updated'. |
| `Conversation.cfg` (`MCCheckoutConversation`) | `LastAddressIsOrdered` | `bot/handlers/checkout.py:273` | (in the place of its properties) new_address_handler writes the pending address and drops checkout_address_id after it asked the geocoder, and recipient_phone_handler sets checkout_address_id after a transaction of its own; an update that chooses a saved address meanwhile is overwritten. It takes no overlap either: address_callback leaves checkout_pending_address behind, so when the reply to a typed address fails and a saved one is chosen instead, the phone step saves the typed one over it. bot/handlers/checkout.py:226 says 'Stores selected address and asks for delivery recipient details'. |
| `Conversation.cfg` (`MCCheckoutConversation`) | `ActiveCheckoutIsOpen` | `bot/bot_instance.py:107` | (in the place of its properties) update_conversation stores the state under the text of its key and get_conversations hands that dictionary to the library, which looks the chat up by the tuple: after a restart no conversation is found, while checkout_conversation_active comes back with user_data and keeps other text handlers silent; README.md:71 says 'Redis 6+ for persistent bot conversations'. |
| `Conversation.cfg` (`MCCheckoutConversation`) | `PlacedOrdersStayAlways` | `bot/handlers/checkout.py:758` | (in the place of its properties) the customer leaves while a cash order is being reported: the leaving handler reads checkout_order_id before the report clears it, and cancels the order after it was reported as placed. A key that comes back from Redis (bot/bot_instance.py:129) does the same to an older order. bot/handlers/checkout.py:983 gives the reason 'Checkout cancelled by customer'. |
| `Conversation.cfg` (`MCCheckoutConversation`) | `ConfirmationHasMethod` | `bot/handlers/checkout.py:399` | (in the place of its properties) 'pay_back' sets checkout_resume_confirmation, so the recipient steps lead straight to the confirmation, also when no method was chosen; payment_callback is said to store the 'payment method and shows order confirmation' (bot/handlers/checkout.py:576). |
| `Recovery.cfg` (`MCPasswordRecovery`) | `FiveGuessesAtMost` | `apps/users/password_recovery.py:137` | (in the place of its properties) a request stores its code and deletes the attempts counter in two commands; another request's failed delivery or the clock may also delete the counter while a code is stored, so one code bears more than RESET_MAX_ATTEMPTS guesses; tests/test_unit/test_password_recovery.py:229 is named test_five_invalid_codes_invalidate_recovery_code. |
| `Recovery.cfg` (`MCPasswordRecovery`) | `DeliveredCodeIsKept` | `apps/users/password_recovery.py:142` | (in the place of its properties) a sender reports failure also when the answer to an accepted message is lost (src/infrastructure/notifications/telegram_notifier.py:81, src/infrastructure/notifications/email_service.py:159), and request_code then deletes a code the customer holds; the failed delivery of an older code deletes a newer one that arrived as well; the message itself (apps/users/password_recovery.py:71) says in Amharic that the code works for 5 minutes. |
| `Recovery.cfg` (`MCPasswordRecovery`) | `WindowAlwaysEnds` | `apps/users/password_recovery.py:125` | (in the place of its properties) a request that is cut off between INCR and EXPIRE leaves a counter without a time to live: after RESET_MAX_REQUESTS no code is ever sent to that number again; RESET_REQUEST_WINDOW_SECONDS (line 15) says the limit is per hour. |
| `Profile_pointer.cfg` (`MCCustomerProfile`) | `PointerIsDefault` | `bot/web_app/router.py:2917` | an update with notification settings reads the settings row before it locks the address book; when another request changes the default in between, setting the value that was read is no change to SQLAlchemy, the column is not written, and the settings name an address that is not the default or was deleted; bot/web_app/router.py:2830 says 'Delete an owned address and promote a replacement when needed.' |


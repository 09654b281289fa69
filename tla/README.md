# BizPilot2: formal models of the sync engine, orders, stock and counter money

BizPilot2 is a point-of-sale and business management system: a FastAPI backend
(`backend/`), a Next.js web application (`frontend/`) and a React Native app
for tills and tablets (`mobile/`) that must go on working without a network.
The models start where that promise is kept or broken, in the app's
offline-first sync engine, and go on with what several server processes work on
at once: orders, the stock, and the money of laybys, gift cards and tills.

All paths below are relative to `src/`.

## 1. The system

| Part | State | Operations | Hard behaviour | What makes it correct |
|---|---|---|---|---|
| Change tracking, `mobile/services/sync/ChangeTracker.ts` | business tables in WatermelonDB | trackedCreate, trackedUpdate, trackedDelete, trackedBatch | two transactions per write; many callers at once; process death | each committed change gets its row, or its caller is dead |
| Sync queue, `SyncQueue.ts`, `db/models/SyncQueueItem.ts` | table `sync_queue` | enqueueChange, getPendingEntries, markProcessed, markFailed, getPendingCount, purgeProcessed | rows inserted while others are read and marked | nothing owed disappears; oldest first |
| Sync service, `SyncService.ts` | one call frame per run | performSync, triggerManualSync | overlapping runs, lost answers, timeouts, throwing database calls | settled means delivered; bounded retries; status and badge end up right |
| Sync scheduler, `SyncScheduler.ts` | listeners, timers, `lastSyncAttempt`, `isRunning` | start, stop, interval, reconnect, foreground | four triggers, logout in the middle of a run | one run at a time; no row waits for ever |
| Sync store, `mobile/stores/syncStore.ts` | status, pendingChanges, isOnline, lastSyncAt | setters | lost at process death | agrees with runs and queue |
| Pull handler and conflict resolver, `PullHandler.ts`, `ConflictResolver.ts`; push handler | business tables, `isDirty`, `remoteId` | page loop, apply, resolve | partial application, pages that shift, a limit on pages, echo of own records | one local record per remote record; no change missed but for a known cause |
| Sync metadata, transaction manager | settings rows | counters, validation | read-modify-write | counters add up |
| API client and session, `mobile/services/api/client.ts`, `auth/AuthService.ts` | tokens in memory and in secure storage | login, logout, restore, refresh on 401 | concurrent refreshes; refresh against logout | logout wins; memory agrees with storage |
| PMS charge queue, `mobile/stores/pmsStore.ts`, `hooks/useOfflineQueueProcessor.ts`, `services/pms/` | persisted queue of room charges | enqueue, process, flag, recover | retry loop, death between post and dequeue | each charge posted at most once, loop ends |
| Orders, `backend/app/services/order_service.py`, `api/orders.py` | tables `orders`, `order_items` | items, totals, payments | unlocked transactions in several server processes; sessions that do not flush before queries | total = items; paid <= total; no payment lost |
| Order management, `order_management_service.py` | the same tables, restaurant tables, status history | transitions, tabs, merge, split, delivery | a second service that computes totals its own way | the same, and items follow their order |
| Inventory, `inventory_service.py`, `api/orders.py` (receipt), bulk services | `inventory_items`, `inventory_transactions`, bulk operations with snapshots | sale, purchase, adjustment, edit, import, bulk change and rollback, receipt of a purchase order | lost updates; a receipt that commits line by line | the log explains the stock; received once; checked changes never below zero |
| Stock takes, `stock_take_service.py` | sessions, counts | start, count, complete, cancel | hours pass between start and end while the shop goes on | completion repairs the record; applied once |
| Production, `production_service.py` | production orders | start, complete, cancel | a completion that touches an inventory item raises and is rolled back | no quantity changes |
| Laybys, `layby_service.py` | layby, schedule, payments | create, pay, extend, cancel, collect | unlocked transactions, rounding, rows replaced under a reader | schedule adds up to the balance; goods or money |
| Gift cards, `gift_card_service.py`; cash registers, `cash_register_service.py` | balances; open sessions, movements | redeem, top up, cancel; open, sell, move, close | check-then-act | balance is what was paid less what was spent; one open session; no false difference |
| Loyalty | points | earn, redeem | as gift cards | as gift cards |
| Entity sync API, `backend/app/api/entity_sync.py`; server sync queue | business tables; `sync_queue` | push, pull | last write wins by server clock | not reachable from the app at this commit |
| Background jobs, `backend/app/scheduler/` | job log | five periodic jobs | each server process runs them | what is done is not done again |
| Other services, web frontend, infrastructure | - | CRUD, reports, user interface | - | - |

How the parts of the engine interact: screens call the tracked writes; these
commit and then call `enqueueChange` and raise the badge in the sync store.
The scheduler (timers, NetInfo, AppState) and the sync button call
`performSync`, which reads a snapshot of the pending rows, posts them one by
one, marks each processed or failed, pulls, and publishes count and status in
the store, which the scheduler reads back. JavaScript runs one turn at a time:
interleaving happens at each `await`. WatermelonDB serialises `database.write`
calls in the order in which they were made.

On the server a request opens a session of its own (`core/database.py:150`),
loads rows, changes them in memory and commits; four processes run
(`backend/Procfile`), and the endpoints of the management service are plain
`def`s on a thread pool besides. Nothing locks a row between load and commit.

## 2. Modules of the sync engine

| Module | What it holds |
|---|---|
| `SyncQueue` | records, tracked writes, the line of callers waiting for their rows, rows and the operations on them |
| `SyncService` (extends it) | runs of `performSync`, the request of each, the store's status and badge, the server as seen from the device |
| `SyncScheduler` (extends it) | `attemptSync` and its five callers |
| `MobileSync` (extends it) | `Init`, `Next`, `Spec`, fairness, process death, the properties |
| `DurableOutbox` | the promise: what the owner of a change may rely on |
| `MobileSyncInv` | the inductive invariant `IInv` |
| `MobileSync_proofs` | theorems and proofs |
| `MCMobileSync` | model values and symmetry for TLC |

How state corresponds to code:

* A *change* is one record operation; it has at most one queue row, so the
  number of the change names the row. `stage[c]` is "written" between the two
  transactions of a tracked write, "pending" or "processed" as `processed_at`
  is null or not, "purged" when the row is deleted, "lost" when the caller died
  first, "local" for a delete that needs no row (`ChangeTracker.ts:132`).
* `jobs` is WatermelonDB's line of write requests as far as it concerns
  `enqueueChange`: a batch asks for its next row when the last one is in, at
  the end of the line. `createdAt[c]` is `created_at`; `Tick` lets the clock
  stand still, so rows may tie and a tie is broken either way.
* `pc[r]` is the `await` at which run r stands. `todo[r]` is the rest of its
  snapshot, `cur[r]` the loop variable. Rows are WatermelonDB's shared model
  objects, so the loop sees `attempts` as they are now (`SyncService.ts:125`),
  not as they were fetched. `SYNC_BATCH_SIZE` only groups the loop and is left
  out.
* `delivered`, `server` and `late` are the server as the device can know it:
  what it applied, what it holds per record, and requests that were given up
  but may still arrive. `/api/sync/push` is not in the repository's backend, so
  it is modelled from the client: every answer, none, or a late one.
* `cooling`, `debounce`, `isRunning`, `isOnline` are the scheduler's state, with
  `now - lastSyncAttempt < MIN_SYNC_GAP_MS` as a boolean. NetInfo and AppState
  may fire at any time. Offline only turns the scheduler away; a manual sync
  goes ahead and its requests fail.
* `Crash` is the death of the process: the database survives; callers, runs,
  timers and the store do not; requests under way may still arrive.

Deliberate limits: a batch has at most two operations, on different records
(`TrackedBatch`); the pull of `SyncService.ts:163-198` applies nothing and is
one step; the badge is raised in the same step as the row is inserted; the
device clock is not set back; `purgeProcessed` with its seven days never meets
a run that still holds the row. No code outside the tests calls
`startSyncScheduler` at this commit; the model takes the comment's word
(`SyncScheduler.ts:123-125`) that the app calls it after login.

## 3. Modules of the orders

| Module | What it holds |
|---|---|
| `OrderTables` | the two tables, the requests under way, how a session loads, commits and rolls back |
| `OrderService` (extends it) | the operations behind `/orders` |
| `OrderManagement` (extends `OrderTables`) | the operations behind `/order-management` |
| `Orders` (extends both) | `Init`, `Next`, `Spec`, the properties, the inductive invariant `IInv`, the claims TLC refutes |
| `Orders_proofs` | theorems and proofs |
| `MCOrders` | prices and symmetry for TLC |

How state corresponds to code:

* `orders[o]` is a committed row: `state` ("deleted" when `deleted_at` is set),
  `status`, `pstat` (`payment_status`), `total`, `discount`
  (`discount_amount`), `fee` (`delivery_fee`), `paid` (`amount_paid`), `tab`
  (`is_tab`). `itemOrder` and `itemLive` are `order_items.order_id` and
  "`deleted_at IS NULL`".
* `txn[w]` is the request a worker serves: `row` as it was loaded, `new` as the
  request has changed it, and the items it inserts, deletes or moves. A request
  that computes totals has two more steps, because its items are read by a
  second query: `CalculateOrderTotals` or `RecalculateOrderTotals`, then
  `Commit`. A creation touches nothing that others can see and is one step.
* `Column` is what the ORM does on a flush: only columns whose value differs
  from the loaded one are written, so a request does not undo what it did not
  mean to change. Isolation is PostgreSQL's default, READ COMMITTED.
* `Counted` and `ActiveItems` are the two ways to find the items of an order.
  The first is a query without autoflush: it sees an item that was flushed on
  purpose (`order_service.py:308`) and one that is only marked deleted in
  memory (:323). The second is the collection loaded with the order: it sees
  the mark, and neither inserted nor moved items.
* `Abandon` is an exception before the commit or the death of a worker.
* `peak`, `received`, `payRaced`, `billRaced` and `managed` are history: the
  greatest total of an order, the money taken for it, the orders on which two
  payments or two changes of the bill overlapped, and those whose bill the
  management service has touched. No guard reads them.

Deliberate limits: amounts are whole cents; an item's price does not change
after it was inserted (the receipt of a purchase order, which changes it, is
left out); tax and modifiers are part of `Gross`, although the management
service does not count modifiers; shipping is added by every calculation alike
and left out; the look-up of an item by id is merged with the read of the
items; an order number given out twice makes one of the requests fail and
leaves nothing, so numbers are left out, and so are restaurant tables and the
status history.

## 4. Modules of the stock

| Module | What it holds |
|---|---|
| `StockTables` | quantities, their log, the documents that change them, the requests under way; how a request reads items one by one and what its commit writes |
| `Inventory` (extends it) | `inventory_service.py`, the receipt of a purchase order (`api/orders.py`), plain and tracked bulk adjustments |
| `StockTake`, `Production` (extend it) | the services of the same names |
| `Stock` (extends the three) | `Init`, `Next`, `Spec`, the properties |
| `StockInv` | the inductive invariant `IInv` |
| `Stock_proofs` | theorems and proofs |
| `MCStock` | quantities and symmetry for TLC |

How state corresponds to code:

* `onHand[p]` is `quantity_on_hand`. `logged[p]` is the opening quantity and the
  sum of `quantity_change` in `inventory_transactions`; it is what an auditor
  adds up, and no guard reads it.
* `txn[w]` is a request: `todo` the items it has still to query, `loaded` those
  it holds, with the quantity before and after; `mode` is how it computes the
  new one (refuse below zero, add, overwrite). `Read` is one
  query. `WriteStock` is the flush of a commit: a column is written if it
  differs from what was loaded, whatever it is by then.
* A receipt commits after each line, since `record_purchase` does
  (`CommitLine`), and marks the order in a last commit (`CommitReceipt`). A line
  whose update throws is rolled back and passed over: it is in `skipped`. The
  lines come from the list in the request, which nobody searches for duplicates
  (`api/orders.py:663`): a line that is named again is received again, and is in
  `repeated` (`Repeats` says for which products; once more is the bound).
* A production order that uses or makes anything with an inventory item
  (`Stocked`) is never completed: the row of the log names
  `TransactionType.PRODUCTION` (`production_service.py:255`, `:298`), which
  `models/inventory.py:10-19` does not define, so the request raises before its
  commit and is rolled back. What that code would do to a quantity, the clamp at
  zero of `:248` included, is not modelled, as it never reaches the table. The
  completion of any other production order is a status.
* `snapshot[b]` is `before_data` of a tracked bulk operation. A rollback locks
  the operation's row by its first flush, so that a second one waits.
* `counts[s][p]` are the rows of a stock take; two starts at once leave two of
  them, and `row` is which of them the query finds.
* `shelf[p]` is what is really there: goods that a logged sale or receipt
  moves, and goods that disappear (`Shrink`). A count reads it.
* `receipts`, `applied`, `raced`, `contended`, `broken`, `skipped`, `repeated`,
  `overridden`, `unlogged`, `signed`, `basis` and `exact` are history, by which the properties say which
  overlaps they except. No guard reads them, but that `repeated` bounds the
  repetitions of a line.

Deliberate limits: costs, `product.quantity`, reorder and goods-received
services are left out; a receipt brings in the ordered quantity of a line or
passes it over; the creation
of purchase orders, drafts and jobs is the initial state; at most two requests
start the same stock take at once.

## 5. Modules of the counter

| Module | What it holds |
|---|---|
| `Requests` | what unlocked requests have in common: the column rule, and which kinds of requests met on a row |
| `Layby`, `GiftCards`, `Tills` (extend it) | the three services |
| `Counter` (extends them) | `Init`, `Next`, `Spec`, `TypeOK`, and what of its state the contract sees |
| `Contract` | the promise: agreements, wallets and drawers that change at once, with no requests in sight |
| `Layby_proofs`, `Counter_proofs` | the inductive invariant, theorems and proofs |
| `Schedule_proofs` | the installments: sums, allocation, the next one |
| `Contract_proofs` | that the counter implements the contract, and what it inherits from it |
| `MCCounter` | prices and symmetry for TLC |

* A layby's row, its installments in order, and `next` for the next payment's
  installment. A payment loads the row, reads the open installments by a second
  query, and commits (`MakePayment`, `ReadSchedule`, `CommitPayment`). The
  installments are loaded with the row already (`models/layby.py:304-308`), and a
  query gives a session the objects it has: `Queried` finds the rows that are
  open in the table, with the amounts of the load.
  `Allocate` is the loop over the installments; `Quantized` is `Decimal.quantize`
  to the cent, half to even.
* The next installment is queried before the payment's own changes are flushed,
  so it is looked up among the rows as they were (`CommitPayment`).
* An extension soft-deletes the installments nothing was paid into and keeps
  those half paid, whose rest is then in the new schedule as well; the history
  `mixed` names such laybys. The `UPDATE` of an installment that was deleted
  meanwhile matches no row, and the payment's commit fails.
* `met[l]` collects the kinds of requests that held a copy of the row while
  another one wrote it. The properties except pairs of kinds by name, so they
  say exactly which overlaps do harm: two last payments at once can make a
  layby ready again that has been collected, an extension at the same time as
  a payment breaks its balance, and so on.
* `Contract` is what a customer and a cashier may rely on. An agreement is what
  was really paid (`received`, not the column), what is due, the extensions, the
  refunds, the goods; a wallet is what was put on a card and taken from it (the
  balance column is not in the mapping: `Spend` bounds a purchase by the
  difference); a till is what the books say of the drawer. What two requests have
  met on maps to "void", of which nothing is promised (`AgreementOf`, `WalletOf`,
  `TillOf`). So `ImplementsContract` says that a check against a row that was
  loaded earlier is as good as one made at the commit until requests meet, and
  that each commit changes nothing but its own layby, card or session.
* A new schedule may end with a negative installment: equal parts are rounded up
  or down and the last one takes the rest, so for a balance of a few cents over
  many installments the rounded parts exceed it. It still adds up.
* A layby whose deposit is the whole price stays active with nothing to pay; no
  code sets "overdue"; `expires_at` of a gift card is never looked at; the
  `total_refunds` of a till is never written. The models follow the code.

Deliberate limits: the endpoints of laybys call the service with argument names
it does not have and would answer 500; the service is modelled as written,
called correctly. Dates are numbers of installments. Card sales and expected
totals other than cash are left out of the till.

## 6. Modules of pull and session

`PullHandler` is the pull of `PullHandler.ts` with the rules of
`ConflictResolver.ts`, between local edits and deletions, pushes that arrive,
writes of others, and the watermark `lastSyncAt`. A pull goes through the
entities in order, page by page. The changes of a page are applied while no one
else writes. A page that fails with all its retries ends its entity, and so does,
without an error, the last page it asks for (`MaxPages`, 1000 in the code,
`PullHandler.ts:207-211`): the rows behind it (`Beyond`) are not fetched. A change
may throw and is skipped; a lookup by `remoteId` may fail and is taken for "not
found". The app may die in the middle of a page, of which a first part is then
applied, since each of its changes is a batch of its own; it forgets
`lastSyncAt`, which is in memory only (`syncStore.ts:33-38`). Then the sync sets the watermark to *now*, whatever failed
(`SyncService.ts:76`). What may be missing behind the watermark is in `excused`,
so `WatermarkCovers` says that nothing else can be.

`version` stands for what a record holds in columns whose server name is one
word, `compound` for the others. `applyDataToRecord` assigns to the server's
names, `cost_price` and not `costPrice`, although its comment says "Maps
snake_case server fields to the record's columns" (`PullHandler.ts:373`); so
`WithData` writes the first and leaves the second alone, and `WatermarkCovers`
speaks of the first only. What is pulled never reaches a column with a name of
more than one word. A deletion that is pulled removes a record with its unsent
edit, whatever the strategy (`:248-253`): `EditsKept` is about overwriting. Clocks agree. Records that were created
here have no `remoteId` and are not in this model; the handler is called by tests
only at this commit, and one pull runs at a time.

`Session` is the tokens of `AuthService.ts` and the interceptors of `client.ts`.
Login and logout change two items of the secure store and then the client, with
an `await` after each item (`SetTokens`), and a refresh stores its token before it
hands it on (`StoreToken`, `ReturnToken`); others run in between. The secure store
does not fail, and the user logs in when the client has no session.
A refresh is a request of the same client, so a 401 to a refresh starts another
one inside it; `depth` counts them, and `MaxDepth` stands for that many or more,
from which a return leads to either. `part` is where `restoreSession` stands. It
has one property, which a comment and a test promise and TLC refutes.

## 7. What TLC checks

`tlc -config <cfg> <module>`. The runs of the sync engine check deadlock but the
three that look for a counterexample. The others do not: requests, writes and
pulls are numbered, and when the last one has been served the instance stops;
a device without a session may stay so.

| Run | Instance | Shows |
|---|---|---|
| `safety` | 2 records, 2 changes (single or one batch), 2 overlapping manual runs, 1 retry, 3 faults or deaths; about 914 000 states | `TypeOK`, `SettledWasDelivered`, `OvertakenOnlyAfterFailure`, `AttemptsBounded`, `SyncingHasRun`, `NoStrandedChange`, `DeadLettersStay`, `ImplementsOutbox`, and `IInv`, which the proofs rest on |
| `live` | scheduler only, fair, 1 record, 2 changes, 2 possible runs, 1 retry, 2 faults | `RowEventuallyResolved`, `BadgeEventuallyExact`, and `SchedulerRunsAlone`: the second run never starts |
| `missed` | as `safety` with the scheduler | `NothingMissed` is violated: `ChangeTracker.ts:11-12` promises it |
| `overlap` | as `safety` | `NoConcurrentSyncs` is violated: two tests expect a lock |
| `order` | 1 record, 1 run, 1 fault | `ServerHoldsLatest` is violated: `SyncQueue.ts:10` promises the order |
| `orders` | 2 orders, 2 items (25 cents with 5 discount, 30 cents), 2 workers, 5 requests, payments of 20 and 25, order discount 10, fee 5; about 1 339 000 states | `TypeOK`, `RecordedWithinPeak`, `RecordedWasReceived`, `LossNeedsOverlap`, `BillNotTooLow`, `IInv` |
| `removal` | one worker, 4 requests | `TotalIsSum` is violated: `test_properties_orders.py:5` states it |
| `managed` | one worker, 4 requests | `ManagedTotalIsSum` is violated: `order_management_service.py:417` promises it |
| `stock` | 2 products, 2 workers, 4 requests; one purchase order, stock take, job and bulk operation; opening 1 and 2, purchase of 1 and 2, of which the second line may be named twice, or all be passed over; "received" set by hand; about 2 405 000 states | `TypeOK`, `LogExplainsStock`, `NotBelowZero`, `ReceivedOnce`, `ReceivedIsInStock`, `CompletedMeansApplied`, `CountCorrects` |
| `counter` | 1 layby of 6 cents, deposits 1 and 6, payments 1 and 5, 2 or 3 installments, 1 extension, fees of 1; 1 card; 2 till sessions; 2 workers, 5 requests; about 616 000 states | `TypeOK`, `BalanceAddsUp`, `PaidIsReceived`, `CollectedIsPaid`, `GoodsOrMoney`, `ScheduleCoversBalance`, `NextSkipsNothing`, `CardBalanceExplained`, `OneOpenSession`, `NoFalseDifference`, `ImplementsContract` |
| `pull` | 3 entities of the three strategies with 3, 1 and 1 rows, pages of one, two pages at the most, 3 local records, 3 writes, 2 pulls; about 522 000 states | `TypeOK`, `WatermarkCovers`, `OneCopy`, `EditsKept` |
| `relogin` | 1 request, 1 start of the app | `RefusedMeansLoggedOut` is violated: `AuthService.ts:184` promises a new login |

Why the bounds of the orders are enough: two workers give every overlap of two
requests, five requests are two pairs of overlapping ones and a creation; two
payments can exceed a total together though neither does alone; with two items
one can be on the bill while the other comes or goes, with two orders items can
be merged and split. `MCRoundsDown` lists the amounts in cents whose float is
below the decimal: 0.15, 0.30, 0.35, 0.60, 0.70 of those that occur. No
property but the type invariant reads the payment status, so the instance of
`orders` has no requests that set it by hand (`StaffPayStatus` is empty); the
other three have. Bounds by name: `MaxRequests`; the rest are sets.

Why the bounds of the sync engine are enough: two changes of one record, or one
batch, give order, overtaking and ties; two runs give every overlap of
snapshots, double pushes and the race on `attempts`; one retry makes dead
letters reachable with one fault; three faults allow a lost answer, a late
request and a death in one behaviour. `live` has a second run that could start,
and never does; it has no symmetry. Bounds by name: `MaxWrites`, `MaxBatch`,
`Runs`, `MaxFaults` (the scenario), `MaxRetries` (`SYNC_MAX_RETRIES`, 5 in the
code).

Why the bounds of the stock are enough: two workers give every overlap, also of a
receipt with itself, line by line; with two lines one can be in stock, or there
twice, while the other is not; a count, a completion and two requests
in between are a whole stock take. The bounds of the pull: three rows of one entity, of which two pages of one row are fetched, leave one
behind the limit; three writes make an edit, a push and a change of another
device; the second pull fetches again what the first one did. Bounds by name:
`MaxRequests`, `Repeats`, `MaxClock`, `MaxPulls`, `MaxPages`, `PageSize`.

Fairness (`Fairness` in `MobileSync`), used by `live` only. Weak fairness of the
runs' own steps: promises of the database and of axios, with its 30 s timeout,
settle. Weak fairness of the inserts, of the gap and of the start of the
scheduler after a death or logout. Strong fairness of the interval's sync
attempt and of the event that the network is back: the interval keeps firing
while reconnects, gaps and other triggers come and go, and it is assumed not to
be unlucky for ever. Faults are finitely many (`MaxFaults`), without which
nothing could be promised. Users, purges and late requests have no fairness.

Fairness in `Session`: weak fairness of the answer to a request and of what the
app does with it, since axios settles every promise within its timeout, and of
the steps of a login or logout. The
counterexample is a behaviour in which every request *is* answered.

Each property of a passing run has a broken variant of one operation ("Broken
variant of ..." in the modules) that TLC refutes it with.

## 8. What is proved

`MobileSync_proofs` proves, for every set of records, every finite set of runs
and all values of the bounds, under the assumptions `QueueAssumption`,
`ServiceAssumption` and `MobileAssumption`:

| Theorem | Says |
|---|---|
| `TypeCorrect` | `Spec => []TypeOK` |
| `InvariantHolds` | `Spec => []IInv` |
| `SettledIsSafe` | a settled row was delivered |
| `OrderIsKept` | a row is overtaken only after a push of it failed |
| `RetriesAreBounded` | `attempts < MaxRetries + Cardinality(Runs)` |
| `StatusIsLive` | "syncing" implies a run |
| `NothingStranded` | a change without a row has a live caller |
| `SchedulerIsExclusive` | the scheduler alone never overlaps itself |
| `DeadLettersAreForever` | the action property `DeadLettersStay` |
| `EngineIsOutbox` | `Spec => ImplementsOutbox`, the refinement of `DurableOutbox` |

The argument. None of the safety properties is inductive. `IInv` adds:

* `RowsInv`: rows exist from their insert on, only rows are sent or held by a
  run, and no run has leftovers outside the loop.
* `JobsInv`: no change waits in two places, and none before it is committed.
  `NoStrandedChange` alone would not survive two jobs that share a change.
* `DeliveryInv`: a run that stands before `markProcessed` holds a delivered
  change. This carries `SettledWasDelivered` across the await.
* `OrderInv`: whatever was *sent* (delivered, under way or late) leaves behind
  only older rows that were *tried*; whatever a run still has to send leaves
  behind only such rows or rows of its own snapshot. Lost answers, timeouts
  and deaths keep a row sent; `IsOldest` keeps the second half.
* `AttemptsInv`: failures counted and pushes under way share one budget. The
  counter alone is not inductive, as several runs may be past the check.
* `AloneInv`: without manual syncs, a live run implies "syncing", so the check
  of `attemptSync` is a lock, and every exit of a run releases it.

The proofs are laid out by effect: one lemma says how a step may change each
piece of state (`RowEffect`, `SentEffect`, `HandEffect`, `TriedEffect`,
`TodoEffect`, `PushEffect`, ...), one case per action, and the preservation of
each conjunct is proved from those. The refinement step maps each action to a
step of the outbox or a stutter.

`Orders_proofs` proves, for every set of orders, items and workers, any prices
and any number of requests, under `OrderAssumption`, `ServiceAssumption` and
`ManagementAssumption`:

| Theorem | Says |
|---|---|
| `OrderInvariantHolds` | `Spec => []IInv` |
| `OrderTypeCorrect` | `Spec => []TypeOK` |
| `RecordedIsBounded` | recorded money never exceeds the greatest total the order has had |
| `RecordedIsReceived` | recorded money was taken |
| `OnlyPaymentsLosePayments` | money is lost only where two payments of an order overlap |
| `BillsAreNotTooLow` | `order_service` alone, without two changes of a bill at once, never bills too little |

`OrderAssumption` says that prices are monotone: more items never cost less. The
schemas of `/orders` see to it (`schemas/order.py:29-32`: price at least 0,
quantity at least 1, discount at most 100 per cent); the request that adds an
item through the management service has no such bounds, and negative prices are
outside what is proved. The argument:

* `OpenInv` says what any request under way looks like, whatever it is for. One
  lemma (`BeginsFresh`) shows that all thirteen kinds of request begin so; after
  that a step is a creation, a begin, one of two calculations, a commit or an
  abandonment.
* `PaymentInv`: a payment under way was checked against a total the order has
  had, and adds to an amount that was once recorded; the amount is still the
  recorded one unless payments raced. `PeakInv` connects totals and their peak.
  This is what makes `RecordedWithinPeak` true of payments that race: the later
  commit overwrites the earlier one instead of adding to it.
* `BillInv`: without a race, the totals and the items that a change of the bill
  has seen are the committed ones. Removals by others only make the sum less,
  which is where monotone prices are needed.
* `KnownInv`: only rows that exist have items, requests or merges under way, so
  a new order starts from nothing.
* The commit is proved by effect (`CommitRows`, `CommitFacts`, `CommitBill`,
  `CommitPaid`), then conjunct by conjunct.

`Stock_proofs` proves, for every set of products, workers and documents, any
quantities and any number of requests, under `TablesAssumption`,
`InventoryAssumption` and `ProductionAssumption`:

| Theorem | Says |
|---|---|
| `StockInvariantHolds` | `Spec => []IInv` |
| `StockTypeCorrect` | `Spec => []TypeOK` |
| `LogExplained` | without an overlap on a product, its quantity is what the log says |
| `NeverBelowZero` | no quantity is negative that only checked changes (sales, manual adjustments) have touched; bulk changes, edits, receipts and stock takes do not look at the result, and their products (`signed`) are excepted |
| `ComesInOnce` | a line of an undisturbed purchase order that no request named twice comes in at most once |
| `ReceivedMeansStocked` | of an order its receipt has marked, all lines that no receipt passed over (`skipped`) are in stock |
| `AppliedOnce` | an undisturbed stock take is applied exactly when it is completed |
| `TakeInvariantHolds` | `Spec => []TakeInv`, the invariant of the stock takes |
| `CountsCorrect` | completion leaves what is really there of each product counted before anything moved |

The argument. All steps are sorted by what they do to a request (`NextCases`):
it begins, reads an item, ends in a commit, is abandoned, or goods disappear. The
invariant (`StockInv`) falls into three groups, and each is preserved without
the other two:

* quantities: `HeldInv` says what a request has computed from what it read, and
  that what it read is still there unless the product is `raced`. A commit
  writes a computed value, so the log and the quantity move together, and
  a checked result is not negative.
* receipts: a receipt commits line by line, so `ReceivedOnce` must be carried
  through its middle. `AwaitedInv`: what it has still to do is not in stock,
  unless it is named again;
  `AccountedInv`: what is in stock belongs to a closed order or to a receipt
  under way; `ArrivedInv`: what it has behind it is in stock.
* documents: `CheckedInv` keeps the status a request has checked, across the
  queries after it.

`CountCorrects` is an action property and needs more than those: `TakeInv`, on
top of `IInv`. While a stock take is undisturbed (`Calm`), each product has one row, with
the quantity its start noted, and the variance of a product that was counted
before anything moved (`exact`) is its shortage: the shelf less what the log says.
Sales and receipts between count and completion move shelf and log together, so
the shortage is the same when it is added; where goods disappear or another
completion corrects the record, `exact` takes the product out. The
assumption that stock takes and jobs have different ids (they are different
tables) is part of `TablesAssumption`. TLC checked `TakeInv` on the instance of
`stock` before it was proved.

`Counter_proofs` proves, for every set of workers, laybys, cards and sessions
and all amounts, under `RequestsAssumption`, `LaybyAssumption`,
`CardsAssumption` and `TillsAssumption`:

| Theorem | Says |
|---|---|
| `CounterInvariantHolds` | `Spec => []IInv` |
| `CounterTypeCorrect` | `Spec => []TypeOK`; no balance of a layby or card is negative |
| `BalanceAlwaysAddsUp` | paid and due make up a layby's price |
| `PaymentsRecorded` | no more is recorded than was paid, and all of it without two payments at once |
| `CollectedGoodsArePaid` | goods are handed out for the full price |
| `GoodsOrRefund` | goods or one refund, not both |
| `CardsAccounted`, `CancelledCardsStay` | a card's balance; a cancelled card stays so |
| `OneSessionOpen`, `DrawersBalance` | one open session; no false difference |
| `NewScheduleAddsUp` (`Schedule_proofs`) | a new schedule adds up to the balance, however it is rounded |
| `PaymentIsSpread` | allocation takes from the open installments exactly what was paid |
| `ScheduleInvariantHolds` | `Spec => []ScheduleInv` |
| `ScheduleAlwaysCovers` | the installments of a layby ask for its balance |
| `NextIsNeverTooLate` | the next installment exists and skips none that is owed |
| `CounterKeepsItsPromise` (`Contract_proofs`) | `Spec => ImplementsContract`, the refinement of `Contract` |
| `TermsAreKept` | price and fees are paid or due to the cent; goods only when nothing is due, never with a refund; a refund is what was paid less the fee |
| `ValueIsKept` | a card is used up when all of it was spent, and not before |

those about properties with the overlaps these except. The three services
share no state but the number of requests, so the invariant is a conjunction of
three that are preserved independently. In each, what is added is what a
request under way still knows: `RequestSound` for a layby, `CardHeld` for a card,
`TillHeld` for a till. It says of each pair of kinds in `met` which equation
between the loaded row and the table survives it. `LaybySound` adds that a layby
which is paid, collected or about to be (`Settled`) does not go back to
"active", without which a second collection could follow a late payment.
`Allocate` is recursive; that what is left of a payment is a number after
every installment is proved from the least installment at which it were not.

The schedule. `Outstanding` is a sum by a recursive function. That the function
exists, that the sum of a concatenation is that of its parts, and what allocation
leaves of it are proved by the set of indices up to which they hold (`UpTo`),
since the library's induction theorems are out of the provers' reach. `ScheduleInv`
adds to `IInv` that a request which is alone with its layby still holds its row
and its installments as they are (`AloneInv`, `AsLoaded`), and that the
installments of an undisturbed layby ask for its balance, those marked paid to the
cent (`ScheduleSound`). A payment that is alone then allocates over the real
installments, so balance and sum fall together.

The contract. From `AloneInv` follows that a commit which meets nobody acts on
the row as it is (`Undisturbed`), so it is one step of the contract on the terms
of that moment; a commit that meets another request is the step that voids
(`Voided`), and every other step of a request is a stutter. `PromiseInv` adds
that amounts of requests are amounts the instance allows (`CardInputs`) and that
a till request which met nobody holds its session, still open, as it is
(`TillFreshInv`). That a session closes without a difference comes from
`NoFalseDifference` after the step. `TermsKept` and `ValueKept` are proved of the
contract, where they are inductive as they stand, and hold of the counter by the
refinement; TLC checked them through the mapping on the instance of `counter`.

`Pull_proofs` proves, for every finite set of rows, any local records, every list
of entities, every assignment of strategies, pages of any size and any limit on
their number, under
`PullAssumption`:

| Theorem | Says |
|---|---|
| `PullInvariantHolds` | `Spec => []IInv` |
| `PullTypeCorrect` | `Spec => []TypeOK` |
| `WatermarkIsCovered` | nothing behind the watermark is missing, in the columns a pull writes, but what was excused: a failed entity, a change that threw, a local deletion, a write during the pull, a failed lookup, a place behind the last page |
| `OneCopyEach` | a row has one local record at the most |
| `EditsAreKept` | an unsent edit is overwritten only where the rules say so |

The argument. `WatermarkCovers` alone says nothing of a pull that is half done;
`CoverInv` says that each row has arrived or is `Pending`: of an entity that is
still to come, on the page that was fetched, or behind it in the server's
list with another page to come (`MorePages`). `FetchPage` is then a split of that list, `AfterPage` a
shift of `First`, and at the end nothing is pending. A write of the server
changes the list of one entity, whose rows `Disturbed` excuses. `TrueChange`
says of a fetched change that it is still what the server has, or that its row is
excused. A page is a fold of nondeterministic steps: `PageInv` holds after each
of its changes, by the least change at which it would not, and one change
touches only copies of its own row (`OnlyOf`). That the server's list exists and
holds each row once (`ToldInOrder`) is proved by sorting and the pigeonhole
principle.

The invariants of the engine and the orders are also checked by TLC, in `safety`
and `orders`. Every safety and action property of a passing run is stated by a
theorem. Only model-checked: liveness under fairness, which is beyond the prover,
and the six refuted claims. Not proved about the code: anything below the level
of the actions, such as WatermelonDB's serialisation of writes or the isolation of
PostgreSQL.

## 9. Plan

Done, in this order: the sync engine with its abstract outbox, its liveness and
its proofs; the orders with both services on the same tables; the stock with its
four services; laybys, gift cards and tills; the pull; tokens and refresh; the
stock takes and the schedules of laybys proved; the contract of the counter with
its refinement.

Left, in the order of what it would add:

1. the composition of `PullHandler` with `SyncQueue`: at this commit the engine's
   own pull applies nothing and the handler has no caller, so there is no
   interaction in the code to model yet;
2. an abstract ledger of the stock (what came in, what went out) that the stock
   implements while no two requests overlap;
3. the PMS charge queue, once its processor is mounted and posts.

## 10. Not modelled, and why

* PMS charge queue: the processor looks for queued items by a status that
  enqueued items do not have, the hook that runs it is mounted nowhere, and
  posting is a mock. What it should promise cannot be read from the code.
* `PushHandler.ts`, `SyncMetadata.ts`, `SyncTransactionManager.ts`: called by
  tests only. The push handler works on the same rows as `SyncService` with the
  same operations; its clean-up is the action `Purge`.
* Entity sync API (`backend/app/api/entity_sync.py`): the app does not call
  `/api/v1/sync/{entity}`, and the handlers use `Session.query` on what is an
  `AsyncSession` under PostgreSQL.
* Server sync queue: items are stored, nothing processes them.
* Background jobs: a query and an update of what it found, run by the scheduler
  of each server process for itself. Expiry, clock-out and clean-up find nothing
  the second time. Reminders and reports do: the look-up of existing reminders
  goes by `resource_id` (`scheduler/services/invoice_query.py:104-111`), which
  `notify_business_users` does not store (`notification_service.py:72-78`), so
  each run of each process reminds again, although `overdue_invoice_job.py:34-35`
  says otherwise. There is no interleaving in this that a model would have to
  find.
* What production does to quantities: it raises before its commit (section 4).
  `product.quantity`, which a completion without inventory items changes, is left
  out, as in the other services.
* Loyalty: points are loaded, changed and committed as the balance of a gift card
  is, without a lock; `GiftCards` shows what follows.
* Web frontend and the app's screens: user interface over the server's or the
  store's state. Reports, printing, e-mail, and some 70 services that create,
  read, update and delete single rows: no protocol beyond the row.
* In every model: contents of records other than the amounts and times that
  properties compare, wording, logging, permissions, tenants.

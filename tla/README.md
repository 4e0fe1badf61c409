# Verification of the stock, orders, money and invoices of Mega Dulces

The repository is a distribution suite (NestJS libraries over one Postgres, four
Angular clients, branch agents). What can go wrong in it without anybody noticing is
what several actors do to the same rows: six services move the same two numbers per
product while people count the shelf; a vendor's phone, a rider's phone and a cron send
the same thing twice; a third party answers late. This directory holds TLA+ modules for
those parts, TLC runs on small instances, proofs for every instance, and a plan for the rest.

Paths below are relative to `src/libs/commercial/src/lib/` unless they start with `src/`.

## 1. Inventory of the system

### 1.1 The stock

| Part | State | Operations | Talks to |
|---|---|---|---|
| `commercial-orders/order-stock.service.ts` (OrderStockService) | `commercial.stock(quantity, reserved_quantity)`, `stock_movements` | `assertNotFrozen`, `reserve`, `consume`, `release` | called by orders and apartados inside their transactions |
| `commercial-orders/commercial-orders.service.ts` | `orders(status, requested_delivery_date)`, `order_lines(quantity, requested_quantity)` | createDraft, addLine, replaceLines, updateLine, removeLine, updateDraft, reschedule, confirm, approve, place, fulfill, deliverNow, cancel | stock primitives, shipments (`fulfillInTransaction`), collection on delivery |
| `commercial-stock-reservation/` (apartados) | `stock_reservations(expires_at, released_at)`, lines | apartar, release, the expiry cron every 5 minutes in every instance of the API | stock primitives; the cron updates the rows itself |
| `commercial-inventory/commercial-inventory.service.ts` | the same rows | recordMovement (in, out, reserve, release, sale, adjust), adjustStock | receiving, imports |
| `commercial-inventory/inventory-count.service.ts` | `inventory_counts(status, current_pass, freeze_movements)`, `inventory_count_items` (three counts, who made them, book at count, final) | openCount, submitCount, advancePass, computeDiscrepancies, resolveItem, reconcile, cancel | freezes all of the above; sets the stock |

Every handler runs in one transaction of `TenantKnexService.run` at READ COMMITTED.
What makes this part hard:

* one reserved counter per product for all its holders: `consume` and `release` take
  `min(reserved of the product, quantity)`, not what the caller has in it;
* orders that reserve nothing (preventas) go through the same deliveries and cancellations;
* checks made before the row is locked: `updateDraft`, `reschedule`, `advancePass`,
  `computeDiscrepancies`, `assertNotFrozen`, the list of the cron;
* several processes run the same cron; `isRunning` is a field of each process;
* one folio is counted by several people in two passes, with scans queued offline,
  while a supervisor computes, resolves and advances.

Correct means: the CHECKs of the stock table hold in any interleaving, a unit is
promised once and leaves once, nothing stays reserved for nobody, an expired apartado
is closed in the end; a count is made by two people where it must be, an uncounted
product is never posted as zero, and the book ends at the shelf.

### 1.2 Around the order: phones, money, invoices, jobs

| Part | State | Operations | Hard because |
|---|---|---|---|
| Offline orders (`src/apps/vendor/.../offline-order`, `offline-sync`, `offline-database`) | the orders of the device, `serverOrderId`, `intentos_fallidos` | confirm, cancel, retry, a round: createDraft, replaceLines, place | a request outlives the minute the device waits for it: lost, late and repeated requests |
| `commercial-payments/` | `orders(total, paid_amount, balance_due)`, `payments(status, reference, received_by, liquidation_id)` | recordPayment, deliverAndCollect, recordKeplerPayment, verifyTransfer, reversePayment | retries of the rider; tickets of Kepler have no row to lock |
| `commercial-home-delivery/` | `home_deliveries(status, amount_to_collect)` | dispatchOrder, dispatchFromKepler, recordDeliveryOutcome | an outcome is up to three transactions, any of which may be the last |
| `commercial-rider-liquidation/` | `rider_liquidations(status, cash_expected)` | open, close, blindCloseOwn, reconcile | the payments that are added up are not locked until they are stamped |
| Invoicing (`commercial-orders`, `src/libs/fiscal/src/lib/emision`) | `orders(fulfilled_at, cfdi_uuid, cfdi_attempts)`, `fiscal.cfdis` | fulfill, deliverNow, retryPendingInvoices (hourly cron and endpoint), issueForOrder, selfInvoiceOrder, issueDailyGlobal | a certification provider (PAC) between two transactions, nothing locked |
| Fiscal job queue (`src/libs/fiscal/src/lib/jobs`) | `fiscal.jobs(status, attempts, locked_at)` | enqueue; a tick: reap, claim, run, complete or fail, onDead | crashes, locks that grow old, writes of a worker that lost its lock |
| Fiscal download (`src/libs/fiscal/src/lib/descarga`) | `download_requests(estado, id_solicitud)`, `download_packages(estado)` | crear; the handlers of three job types, two hooks | each handler may stop between two writes and is run again from the start |

Correct means: an order of the phone becomes one order of the server and is forgotten only
when it is placed; what an order says was paid is what its payments add up to, a
reference is collected once, a stop that is delivered has left the stock, and the cash a
rider is asked for is the cash of stamped payments; an order has one invoice, within the
faults there were, and the retry reaches whom it can list; a job is tried as often as it may be and ends;
a request that is downloaded waits for nothing and every request is closed in the end.

### 1.3 The other parts

`PROJECT.json` lists every part with its sources. Those with a protocol that a later module
could take up: the outbox of count scans, shipments, receiving (callers of `Fulfill` and of
`recordMovementInTx`), route control and sales on board, the blind count of a till,
collection deposits, the WhatsApp queue, offline visits, feeds ingestion. Prices, catalogue,
analytics, forms, planograms, payroll, importers and screens have no protocol that a model
checker would help with; they are most of the lines of the repository.

## 2. Modules

```
OrderStock                 rows of the stock and the primitives
  CommercialOrders         orders                     } EXTENDS OrderStock
  StockReservation         apartados and their cron   }
  CommercialInventory      movements recorded by hand }
    SalesFloor             all three over the same rows, and the freeze
      StockPromise         abstract: an account per holder  (INSTANCE in SalesFloor)
      MCSalesFloor         for TLC
      SalesFloorProofs     theorems, from the lemmas on the primitives to the promise
InventoryCount             one folio of a physical count, and movers around it
  MCInventoryCount         for TLC
  InventoryCountProofs     theorems
OfflineOrders              orders of the vendor's phone, the network, the server
  OfflineOrdersProofs      theorems
OrderPayments              totals, payments, balances
  HomeDelivery             stops and their outcome    } EXTENDS OrderPayments
  RiderLiquidation         the cut of a rider's day   }
    LastMile               both over the same payments
      MCHomeDelivery, MCLastMile   for TLC
      LastMileProofs       theorems
Invoicing                  the calls that have a CFDI stamped
  MCInvoicing              for TLC
  InvoicingProofs          theorems
JobQueue                   fiscal.jobs and its runners
  JobQueueProofs           theorems
  FiscalDownload           the download as jobs of the queue (EXTENDS JobQueue)
    FiscalDownloadProofs   theorems, with the refinement
SumLemmas                  sums over finite sets, for the proofs that need them
```

**OrderStock.** `stock[p]` is the row of product `p`. A primitive locks the row before it
reads it and the caller keeps it until it commits, so a primitive is part of one step.
A *need* (a function from products to units) stands for the lines of a call. `held` is a
history variable: what each holder put in the counter and has not given up. The code has
no such account; the properties compare the counter with it. `frozen` is the answer of
`assertNotFrozen`.

**CommercialOrders.** One action per handler, guarded by the status check of the code.
`fulfillInTransaction` re-reads the locked row, so its callers (fulfill, the close of a
shipment, collection on delivery) are one action. `updateDraft` and `reschedule` are two
actions, the check and the write. `sold[o]` is what the `sale` movements of an order add up to.

**StockReservation.** A manual release is two steps, because its `expires_at > now()` is
evaluated with the time its transaction began and then waits for the header row. The cron
is `CronSelect` (the list, read outside any transaction), one `CronRelease` per element,
and `CronFinish` or `CronAbort` (an exception or a restart drops the rest). `CronRelease`
checks neither `released_at` nor the freeze before it moves the stock, as in the code.

**CommercialInventory.** `recordMovementInTx` by kind, and `adjustStock`. Reserves
recorded by hand belong to the holder `Manual`.

**SalesFloor** interleaves the three over the same rows and lets a count freeze and thaw
the warehouse. Here the check of the freeze and the movement are one step. That is sound:
`Freeze` and `Thaw` change nothing but the flag, so a movement that checked before a
freeze and moves after it has the same effect as one that moved before. What such a
movement does to the *count* is the business of InventoryCount, where the two are apart.

**InventoryCount.** One folio in the mode that counts `commercial.stock`. submitCount,
reconcile and cancel lock the folio: one step each. computeDiscrepancies (`ComputeRead`,
`ComputeWrite`) and advancePass (`AdvanceCheck`, `AdvanceWrite`) read without a lock:
two steps each. `book`, `reserved` are the row of the product, `shelf` is what is really
there, `said` and `decided` are history. Other services are *movers*: `MoverCheck` is
assertNotFrozen, `MoverCommit` the movement in the same transaction. A movement is dated
when its transaction began; one that began before the folio was visible may be dated
before or after `started_at`, which is the choice in `MoverCommit` and what the freeze
integrity guard of reconcile (`moved`) depends on.

**OfflineOrders.** The device (`local`, `taken`, `known`, `tries`), one round at a time
(Web Locks), and the three endpoints it calls. A request is a message in `net`; the one the
round waits for is not `late`. When the device gives up (`Lose`) or the app is closed
(`CutOff`) the request may be gone or may be served at any later time (`Abandon`). Only
createDraft is two steps on the server, the look for the `client_uuid` and the insert: the
unique index decides. replaceLines and place lock the order: one step each. The office
cancels and delivers orders meanwhile.

**OrderPayments.** An order is its status, total, paid amount and balance; `pay` are the
rows of `commercial.payments`. insertPayment and reversePayment lock the order: one step
each. `EditLines` is `recalcOrderTotals`, which sets the balance to the total whatever was
paid; `edited` remembers the orders it happened to. `FulfillOrder` is the delivery by the office, by a
shipment or from the truck (`deliverNow`), which asks for no payment.

**HomeDelivery.** dispatchOrder locks nothing: `DispatchOrder` reads the order and remembers the amount
in `dispatch`, `CreateDelivery` inserts the stop later, whatever the order has become. The code
looks for another stop before it inserts; what really keeps the second out is the unique index on
the order (migration 20260703140000), so an insert ends every other dispatch of it. For a ticket
nothing that is read can change, so read and insert are one step. A call of recordDeliveryOutcome is a process of `Attempts`: it reads the
stop (`BeginOutcome`), then delivers and collects (`DeliverAndCollect`, one transaction; for
a ticket `KeplerCheck` and `KeplerInsert`, which lock nothing), then marks the stop; or it
marks the stop and then cancels the order. `GiveUp` ends it anywhere, which is what a
refusal, an exception and a crash have in common. `unsold` remembers orders that were
delivered when they were not confirmed, where fulfillInTransaction does nothing.

**RiderLiquidation.** `close` and `blindCloseOwn` add up the payments they see
(`ComputeTotals`) and stamp those they see a statement later (`CloseCut`).

**LastMile** puts the two over the same payments: riders collect and reversals happen while
the day is being closed.

**Invoicing.** A call is a process of `Calls` with its list, the orders of the CFDI it is at
and the step it has reached: read the order (`BuildInvoiceInput`), have it stamped (`Stamp`,
the PAC, external), store it (`Persist`), write the uuid (`WriteUuid`), or count the failure
(`RecordFailure`). `covers` is the PAC's truth: a CFDI that was stamped exists, whether
anybody heard of it or not. `faults` counts calls that die, reads that throw (which tryAutoInvoice
takes for "no input"), writes that fail, and answers that are lost or carry no uuid.

`fulfill` is the check (`CheckFulfill`) and the transaction (`CommitFulfill`), because a second
call that passed the check gets the delivered order back and invoices it too; `deliverNow` locks
first. Time is the order of the deliveries: `fulfilledAt[o]` is the how-many-th it was, and `horizon`
how many are older than the days of the cron (`Age`). `Listed` is the list of retryPendingInvoices:
due, inside the days, the oldest first, up to the limit. The cron (`Scheduled`) has its days and its
limit and runs only where `CronEnabled`; the endpoint (`RetryInvoices`) has any. The fiscal data of a
customer are missing, blank or complete, because SQL lists a customer whose columns are not null and
buildInvoiceInput refuses one whose columns are empty; it refuses an order without lines as well
(`Lineless`). Such an order costs no attempt. A call works through its list in any order.

**JobQueue.** A tick is `Reap`, `Claim`, and for each claimed job `Start`, the handler, and
`Complete` or `Fail` with its `Hook`. A runner keeps a *copy* of the job (`claimed[r][j]`, its
attempts when it was claimed) and writes by the id alone. Time is not modelled: the reaper
may take any running job; taking one whose runner is alive is an *overrun* and is counted,
because a batch of 20 jobs of 90 seconds does outlive a lock of 10 minutes.

**FiscalDownload** replaces the handler of JobQueue by the three handlers of the
orchestrator, one step per transaction or call of the SAT; any step may throw (`FailJob`) or
be the last (`CrashRunner`). The last transaction of a package is two steps, because it
counts the other packages as committed when it reads them. `DownloadImplementsQueue` (section
4) shows that this refines JobQueue. There the abstract specification is a queue whose
handlers do anything; the properties of its jobs carry over.

## 3. What TLC checks

### 3.1 Passing runs

| Run | Question | Instance |
|---|---|---|
| `sales_floor_exact` | Where every accepted order reserves, no cron runs and nobody reserves by hand: is the counter exactly the sum of the accounts (`ReserveExact`), is nothing oversold (`NoOverselling`), and does the warehouse implement `StockPromise` (`HonoursPromise`)? | 1 product, 2 orders of up to 2 units, 2 apartados, up to 3 units on hand |
| `sales_floor_orders` | With a preventa and every movement by hand, do the CHECKs of the table hold (`StockSound`), does an order leave once (`SoldExactlyOnce`), is the approved quantity within the request, are accounts within the lines (`HeldWithinLines`), is nothing reserved for nobody (`NoStrandedReserve`) and no unit lost (`UnitsConserved`)? | 1 product, 2 orders, one may carry a date |
| `sales_floor_apartados` | Two crons, manual releases and expiries race for the same apartados: `HoldKeepsItsUnits`, and `ExpiredIsClosed` under fairness | 2 apartados, 2 instances |
| `count_observers` | Is a value nobody resolved counted by two people (`TwoObservers`), and does a reconciled folio have a count of every item (`NoUncountedAsZero`), whatever supervisor and counters do at the same time? | 1 product, 3 people, listed or found, blind, frozen |
| `count_stock` | Does a count that freezes nothing leave the book at the shelf (`BookMeetsShelf`), and never below the reserve (`BookCoversReserve`), while others sell, receive, reserve, deliver and expire? | 1 product, 2 units, 1 counter and 1 supervisor |
| `offline_orders` | With requests that are lost, late and repeated: one order on the server for each of the phone (`OneOrderEach`), forgotten only when placed (`SyncedIsPlaced`), given up on when placed only if the answer was lost (`DeadIsUnplaced`), and does the queue drain (`QueueDrains`)? | 2 orders, 2 losses, 1 attempt |
| `home_delivery` | Two copies of a delivery, the office, reversals and edits on one order, each call dying anywhere: is what was paid the sum of the payments (`PaidIsLedger`), the balance the rest (`BalanceIsRest`), a reference collected once (`OnePerReference`), a delivered stop a sold order (`ConfirmedIsSold`)? | 1 order of up to 2 units of money, 2 payments, 2 calls, 1 reference |
| `last_mile` | A ticket collected by calls that overlap, reversed, and cut: no more copies than calls that overlap (`CopiesAreOverlaps`), the cash a cut asks for is stamped (`CountedIsStamped`) | 1 ticket, 3 payments, 2 calls |
| `invoicing` | All five ways to an invoice race and die: at most one CFDI per order, plus one per call that overlaps and per fault (`CopiesWithinFaults`), the uuid of an order is of a stored CFDI that covers it (`InvoicedIsCovered`), attempts are bounded (`AttemptsWithinCalls`), and where the cron is on an order that is due inside its days is invoiced or its attempts are used up, unless its days end first, it loses its input, or orders without input fill the list before it (`NobodyIsForgotten`) | 2 orders of a customer, one without lines, a list of 1, 2 calls, 4 CFDI, 1 fault |
| `job_queue` | Two runners, a crash and an overrun: is every attempt explained (`AttemptsWithinFaults`), one runner per lock (`HandsWithinOverruns`), a dead letter earned (`DeadIsEarned`), a settled job final without overruns (`SettledIsFinal`), and does every job settle (`EveryJobSettles`)? | 2 jobs, 2 runners, 2 attempts |
| `fiscal_download` | One runner that may die or fail between any two statements: has an open request always something that goes on with it (`NeverStuck`), does a downloaded one wait for no package (`DownloadedWaitsForNone`), is each closed in the end (`RequestSettles`)? | 2 packages, 2 polls, 1 attempt, 1 crash |

`DownloadTypeOK` of `fiscal_download` is more than types: no CHECK holds `download_requests.estado`
(that of `download_packages` has one), and a request in a state that no code knows would be neither
open nor closed. The types of JobQueue, OfflineOrders, Invoicing and HomeDelivery are proved (section 4).

### 3.2 What the code says and does not do

`offline_replay` finds that an order placed on the server whose answer was lost costs
attempts for ever after: replaceLines refuses an order that is no draft
(`ReplayIsIdempotent`, quoted in `findings` of PROJECT.json). The vendor sees it as failed, and
`vendor-today.component.ts` tells who discards it that it will not be sent.

These configurations are kept to be run by hand (`tlc -config X.cfg M`); each violates the
property named, which states what a comment of the code promises:

| Configuration (module) | Property | What happens |
|---|---|---|
| `ReservedUntilClosed` (MCSalesFloor) | `ReservedUntilClosed` | an order that reserved nothing is edited or cancelled (commercial-orders.service.ts:1472) and gives back another order's units; 1452-1453 says "sigue reservado hasta cancel o fulfill" |
| `CronReleasesOnlyActive` (MCSalesFloor) | `CronReleasesOnlyActive` | the cron releases an apartado its customer released after the list was read (stock-reservation-cron.service.ts:44; 9-10 says "que sigan activas") |
| `CountReopened` (MCInventoryCount) | `ClosedStaysClosed` | computing the discrepancies of a closed folio opens it again (inventory-count.service.ts:653; 1147 refuses a second reconciliation) |
| `CountSegregation` (MCInventoryCount) | `SegregationOfDuties` | somebody whose resolution was overwritten reconciles the folio (inventory-count.service.ts:1215; 1226 says "quien contó o resolvió ítems del folio no puede autorizar la reconciliación") |
| `CountFrozen` (MCInventoryCount) | `FrozenBookStands` | a movement that passed the freeze check before the folio was opened moves the frozen book unseen (order-stock.service.ts:22; inventory-count.service.ts:1327-1328) |
| `CountSalesTwice` (MCInventoryCount) | `BookMeetsShelf` | a corrected count keeps the old book (inventory-count.service.ts:512): what was sold in between is also posted as shrinkage, against 315-317 |
| `CountOffline` (MCInventoryCount) | `TwoObservers` | a late scan of the first pass makes the second counter both observers (inventory-count.service.ts:492; 452-455 says "preserva el doble-conteo ciego en replay") |
| `DownloadComplete` (FiscalDownload) | `DownloadedIsComplete` | a verification fails after it has enqueued the first package, that package closes the request, and the retry skips it: the second package is never recorded (descarga-orchestrator.service.ts:114 and 237; 112-113 says the retry completes "los que quedaron sin encolar") |
| `DownloadTwo` (FiscalDownload) | `NeverStuck` | two runners finish the two packages at the same time, neither sees the other's, and the request stays open with no job left (descarga-orchestrator.service.ts:228; 224-225 says it closes "cuando ya no quedan paquetes pendientes") |
| `DeliveredIsSold` (MCHomeDelivery) | `DeliveredIsSold` | an order is dispatched while its approval is pending (home-dispatch.service.ts:157); the rider delivers and collects, the stop is delivered, and nothing left the stock, because fulfillInTransaction does nothing; commercial-home-delivery.service.ts:94-96 says the delivery does "fulfill + pago atómicos" |

Disagreements seen while modelling that need no run:

* a delivered preventa takes other orders' reserve off the counter (order-stock.service.ts:119-122);
  `updateDraft` writes the date of an order accepted in between (commercial-orders.service.ts:259-300);
  with `recount` set the third slot of an item may be written before the first two and its
  author may then make the first count (inventory-count.service.ts:460-464); a sale between
  the two passes of an unfrozen blind count is also posted as shrinkage.
* `job-runner.service.ts:65-67` says that a job that keeps dying ends in the dead letters: only
  `fail` looks at the attempts, the reaper puts such a job back for ever.
* `crear` of a download inserts the request and enqueues its first job in two transactions: a
  crash between them leaves a request in `nueva` that nothing goes on with. A hook that fails or
  dies is not run again (`lostHook`). A late verification writes `terminada` over a request
  another one has closed; only with two runners.
* invoicing calls itself idempotent by `cfdi_uuid` (1116, 1199), and says that the global
  invoice does not include an order again (1387-1391): both hold unless two calls overlap or
  one dies between the stamp and the write, which is what `CopiesWithinFaults` measures.
  Cancelling a CFDI never clears `orders.cfdi_uuid`. Orders delivered by a rider or a
  shipment are invoiced by the retry alone, whose cron is off by default (`ENABLE_INVOICE_RETRY`)
  and looks back seven days. An order whose customer gives its data after that is listed by no
  run of the cron, and skipped by the global invoice because it is nominal now: only the endpoint
  with more days, or somebody who asks for that invoice, reaches it.
* an order of a customer whose columns are empty but not null, or an order without lines, is listed
  by the retry, gives no input, and counts no attempt (1215-1217 against 1125 and 1131): it comes
  again with every run and is among the oldest, so fifty of them (`Limit`) keep all younger orders
  off the list until their days are over. Neither does the global invoice take the former. The
  exceptions of `NobodyIsForgotten` are these two and the loss of the input; without either of the two
  TLC refutes it.
* the amount of a stop is what the order owed when its dispatch began; if the order is edited or paid
  meanwhile, the collection is refused or is not what is due. `recalcOrderTotals` sets the
  balance to the total (2158): a payment made before an edit is forgotten by the balance. The
  rider's app sends no reference with cash, so the idempotency by reference is not used there;
  for an order the lock and the balance stop the second copy, for a ticket nothing does.
* a payment between the totals and the stamp of a cut is stamped and not counted; payments
  after the cut are not stamped by any. A complement of payment reads the balance after the commit.

### 3.3 Bounds

Stock: rows of different products share no variable except through a line-by-line refusal,
which the proofs cover for any number of products; two orders (one with a date) and two
units are enough for one holder to eat another's reserve, partially and entirely; two
apartados and two crons are the least in which a stale list meets another instance and a
victim. In the counts, three people are the least for a tie-break, and one product is enough
because nothing compares two items: `Skus` are the products followed, the folio may list
others, and a followed product may be found unlisted. `MaxQty = 2` in `count_stock` lets a
sale happen between two different baselines. The named bounds are `MaxLine`, `MaxHold`,
`MaxStock`, `MaxQty`, one computation of discrepancies at a time (`verdict`), and two movers
per product (`inflight`), one from before the folio was opened and one from after. `Corrections` and `Honest` are settings, not bounds: `count_stock`
asks its question of people who count what they see once.

Offline: two orders let a round be at one while late requests of the other are served; two
losses let one request be late twice or two requests once (`MaxLosses`); `MaxRetry` is 5 in
the code and 1 here, because what matters is the last one. Payments: totals of two units let a
payment be partial; two copies of a call are the least that overlap; the third payment of
`last_mile` is one after a reversal. Invoicing: two calls and two orders let a global invoice
and a nominal one meet, a list grow old, and one order stand before the other; a limit of one is the
least that an order without input fills (`Limit`, 50 in the code), and the order that has none lacks lines
(`Lineless`), which lasts, or fiscal data, which come and go; `CronEnabled` is a setting; four CFDI are more than two orders need (`MaxCfdis`
ends stamping, which is why the liveness is about attempts or a uuid). Jobs: two of each are
the least for a batch that outlives its lock while another job of it is run; `MaxAttempts` is
8 in the code; `PollCap` is 120 and 1 here: the last poll and one before it. `MaxCrashes`,
`MaxOverruns` and `MaxFaults` bound the faults; the proofs have no such bound.

Deadlock is not checked: orders, apartados, folios, cuts and jobs really end. Symmetry is used
for orders where none may be dated, for people where none is singled out and for the calls
of a rider, never with liveness.

### 3.4 Fairness

* `CronFairness` is what `@Cron('30 */5 * * * *')` gives: every instance starts a run again and
  again (weak fairness of `CronSelect` and `CronFinish`), and a release that runs keep reaching
  commits in the end (strong, because an abort disables it in between). Customers, operators,
  freezes and aborts have none: `ExpiredIsClosed` holds in a warehouse frozen for ever.
* `JobFairness` and `DownloadFairness`: every process ticks (`@Cron('*/30 * * * * *')`) and a handler
  ends or throws, since every call of the SAT has a timeout; the lock of a dead runner is found
  old by some tick, and a pending job is found due by some tick (both strong: a tick that comes
  too early finds nothing). `RequestSettles` assumes no more: not that the SAT ever answers well.
* `OfflineOrders`: rounds come while there is network, a request that is not lost is served
  (weak; `MaxLosses` bounds the losses).
* `Invoicing`: a call goes on (weak), and the cron comes every hour (`Scheduled`; strong, because all
  calls may be busy in between). `Scheduled` is enabled only where `ENABLE_INVOICE_RETRY` is 'true', and
  the property is about that setting only. Nobody is obliged to ask for an invoice or to call the
  endpoint, and days pass at any time (`Age` has no fairness and waits for nobody).

## 4. What is proved

Everything here is for any values of the constants, from the assumptions named in the modules
only (identifiers differ, bounds are numbers, sets of processes are finite). A theorem that holds
in some settings only says so in its ASSUME.

**Stock.** `SalesFloorProofs` begins with the lemmas on the primitives: each keeps the rows
inside the CHECKs and touches no account but its caller's. Its theorems:

* `Inductive`: Spec => []IInv;
* `TypeCorrect`, `StockIsSound`, `DeliveredExactlyOnce`, `NeverAboveRequest`,
  `HeldIsWithinLines`, `HoldsAreExact`: the invariants of the runs.

`IInv` is the conjunction of the invariants with the type. None is inductive by itself: a
cancelled order has nothing in its name because its account never exceeded its lines; its
account never exceeded its lines because a draft has none; a delivery is recorded once
because only an open order delivers and an open order has sold nothing; and all of it
needs the rows to be naturals. Each component keeps its part of IInv under its own steps
(one lemma per handler) and the other parts because a step touches one account only.

On top of `IInv`, with the sums of `SumLemmas`:

* `UnitsAreConserved` and `NothingIsStranded`, for every setting, preventas, crons and all hand
  movements included. A handler is a *call*: it moves the row of a product and what its holder
  claims by the same units, or takes off the counter less than its holder gives up when there
  is no more in it (`min` in `consume` and `release`); the sum over all holders moves as the
  one term does (`SumRemove`, `SumAdd`).
* `ExactInductive`, `ReserveIsExact`, `NeverOversold`, `KeepsThePromise`, from the hypothesis
  `ExactSetting`: no order carries a date, no cron runs, operators neither release nor record
  sales by hand. Each part of it is needed: `ReservedUntilClosed` and `CronReleasesOnlyActive` of
  3.2 are what happens without the first two, and a release by hand takes whatever is in the
  counter. `ExactInv` says that the counter is the sum of the accounts and each account what
  its holder claims; then no `min` ever cuts (a term is at most the sum), so every step is
  `Honest`: one account and the counter move by the same units. An honest step is an Allot,
  Return, Deliver or Rebalance of StockPromise, or a stutter: that is the refinement, step by step.

**Counts.** `InventoryCountProofs`, for any products, people and settings:

* `CountTypeCorrect`, `BookAlwaysCovers`: type and the CHECK under every reconciliation,
  together inductive (`Books`);
* `NothingUncountedIsPosted`: inductive on top of `Books`;
* `TwoPeopleCounted`, for scans sent online and no early recount (`~Offline`, `~RecountFlag`,
  the settings whose opposites `CountOffline.cfg` and a remark above refute). The invariant is
  `Watched`: every count was said by the person in its slot, the slots of an item hold
  different people, the second is empty in the first pass and the third while the folio is
  counting, and both the final values and the verdicts a computation has read and not yet
  written were said by two people. The second half is needed because a computation writes
  what it read, after others have counted;
* `BookEndsAtShelf`, for honest counts made once in an unfrozen single count. The invariant
  `Tracked` says that the first count of an item is as far from the book it was compared
  with as the shelf is from the book now: every movement moves shelf and book together.

**Offline orders.** `OfflineOrdersProofs`: `OfflineTypeCorrect`, `OneOrderForEach`,
`SyncedHasBeenPlaced`, `DeadHasNotBeenHeard`. `OfflineInv` adds what makes them inductive: the
round knows what it sends (`RoundSound`); at most one request is the one it waits for, and a
late place is of an order whose answer was lost (`NetSound`); a placed order was heard of, or
its answer lost (`ServerSound`, `Heard`). Late copies are harmless because `known` is set before
any lines or place is sent.

**Last mile.** `LastMileProofs`, for the composition: `LastMileTypeCorrect`,
`OnePaymentPerReference`, `CopiesOverlapped`, `DeliveredWasSold`. A ticket's copies are bounded
because those that stand and those about to be inserted (`Inserting`) are together at most the
calls that overlap: whoever checks while one stands inserts nothing. A delivered stop is a sold
order because a call at its mark has sold it (`CallSound`) and a sold order is not cancelled.

`PaidIsTheLedger` and `BalanceIsTheRest` rest on `LedgerInv`: the paid amount of each order is the sum of
its payments that stand, and what an order has paid and still owes is its total while nobody
edits it. A step adds one row, takes one off (a reversal) or touches neither; the reversal's
`max(0, ...)` never cuts because a payment is at most the sum it is in. `WhatIsCountedIsStamped`
rests on `CutInv`: what a closing added up is among the rider's rows, and a row keeps its amount,
method, rider and stamp whatever its status becomes (`RowStands`), so a payment that is reversed
between the two statements of a closing is stamped with the others. `LastMileTyped` types the
cut as well.

**Invoicing.** `InvoicingProofs`: `InvoicingTypeCorrect`, `InvoicesWithinFaults`,
`UuidIsInTheBooks`, `AttemptsAreBounded`. While an order has no uuid, its CFDI and the calls
about to stamp one are at most the calls at work for it and the faults: every copy is in somebody's
hands or was lost. Once it has one, no call takes it, so the bound by all calls stays (`Covered`).
The attempts and the lists that hold the order are bounded together (`Tried`).

**Job queue and download.** `JobQueueProofs`: `QueueTypeCorrect`, `ChargedWithinFaults`,
`OneRunnerPerLock`, `DeadLettersAreEarned`, and the action property `SettledStaysSettled`. `JobInv`
keeps three accounts of each job: attempts, plus one if it waits to be claimed, plus the
copies that could still be put back for another try, against crashes and overruns (`Charged`); hands
on it against overruns (`Handed`); attempts against failures and faults (`Explained`). A late
write of a runner that lost its lock moves one unit between the sides and nothing else.
`FiscalDownloadProofs`: `DownloadTypeCorrect`, `DownloadImplementsQueue` (every step of the download
is a step of JobQueue or stutters) and from it `DownloadJobsAreAccounted`.

`OnwardInvariant`, `NeverLeftOpen` and `DownloadedIsSettled` are for one process (`OneRunner`, any
packages, polls and crashes; `DownloadTwo` of 3.2 refutes them for two). Their invariant
`OnwardInv` is the whole protocol written down:

* `Works` is the program counter: what a handler at each step can rely on (at `record`, every
  package of the SAT that is not still to do is recorded and enqueued; at `close`, the verdict
  is that of the packages as they are now);
* `Ended` is what a job leaves behind: a solicitud that is done has enqueued the first poll, a
  poll that is done has closed the request, enqueued every package or the next poll, a package
  that is done is settled; one that is dead has had its hook, is in it, or lost it;
* `LastCloses`: when every package of the SAT is settled the request is closed;
* `Recorded` and `Alone`: nothing is recorded that the SAT does not have, and no lock is lost.

An open request with no job and no hook then contradicts itself: the polls enqueue each other
(by induction, up to `PollCap`, where a poll has no next one), so the packages are all enqueued,
so they are settled, so the last of them closed the request.

**Sums.** `SumLemmas` proves what a sum over a finite set does when an element is added, removed
or changed. The induction principles of the library take a predicate as a parameter; here
induction is stated for *sets* (a set with 0 and closed under +1 contains Nat; a family of
subsets with {} and closed under one more element contains the finite set) and follows from the
fact that a nonempty set of naturals has a least element, which `WellFoundedInduction` gives.

**Only model-checked**: liveness, which needs ENABLED and fairness (`ExpiredIsClosed`,
`QueueDrains`, `NobodyIsForgotten`, `EveryJobSettles`, `RequestSettles`). Every invariant and action
property of the passing runs is a theorem, some of them under a hypothesis on the setting
that is named in the theorem and explained above. What the configurations of 3.2 refute is
of course not a theorem.

## 5. What is left out

Prices, promotions, credit, alerts, history rows and notifications: nothing modelled depends
on them; of the totals only what the balance needs is in OrderPayments. Row locks and their
deadlocks: a step is a transaction, and a transaction that Postgres aborts is one that never
ran. Lots (a trigger keeps their sum). In the counts: the mode for
`inventory.warehouse_stock`, aisles, sessions, the scan log (a replay of an applied scan is a
no-op), reports. A movement that begins and ends while the folio is being opened may be dated
after `started_at` and block the reconciliation without need; this is not modelled.

Of the last mile: the intake (three calls of the orders service; a crash between them leaves
a draft), riders, vehicles and geofence, cents and the tolerance of one, several riders and days (their
payments are disjoint), denominations. Of the offline app: visits, photos and catalogues; orders
without a delivery date, which may be refused for lack of stock. Browsers without Web Locks have a guard
per tab only. Of invoicing: complements of payment, credit
notes and cancellations, folios; `maxAttempts` is the same for cron and endpoint, as both leave it to
its default. Of the download: the ingestion of a package, which is
keyed by the uuid of each CFDI; a ZIP that cannot be read is ingested as zero. `requeue` of the queue
has no caller.

Most of the repository's lines are screens, reports, imports and CRUD: the `map` covers a small
share of them and will stay small, because what they compute is not a protocol.

## 6. Plan

1. `CountOutbox` over InventoryCount: "replay (dup, out of order, post-reconcile) leaves the
   identical state"; the scan log it needs.
2. `Shipments` and `Receiving` over SalesFloor: callers of `Fulfill` and `recordMovementInTx`.
3. Route control and sales on board (the stock of a truck), the blind count of a till,
   collection deposits.
4. The WhatsApp queue (messages of one customer in order) and feeds ingestion (upserts).
5. One abstract account for OrderPayments (what a customer owes), refined by it: what the
   ledger needs of sums is proved.

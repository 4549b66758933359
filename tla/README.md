# A formal model of the ERP backend

The repository is a multi-tenant ERP in Go: an HTTP server, background workers and
scheduled jobs over one MySQL database per tenant, a central MySQL database, Redis, and an
external service, the *facturador*, that sends electronic documents to the tax authority
(SUNAT). This directory holds TLA+ modules for the parts whose correctness depends on
interleavings, failures and time-outs, the TLC configurations that check them on small
instances, and TLAPS proofs of what holds for every instance. `PROJECT.json` maps every
definition to the lines it models.

Seven parts are modelled: the **electronic emission of a sale**, the **older billing
queue**, the **document quota** of the SaaS plans, the **connection pools of the tenants**,
the **stock, serials and correlatives** that sales and inventory documents share, the
**money** of cash sessions, collections, payments and refunds, and the **tables of a
restaurant**. The rest is inventoried below, with the reason it is left out.

    tlc -workers 2 -config EmissionRace.cfg MCFiscalEmission      # a run
    tlapm FiscalEmissionProofs.tla                                # a proof

## 1. Inventory

### Parts, their state and how they meet

| part | state | operations | meets |
|---|---|---|---|
| fiscal lock `pkg/billinglock` | Redis key per sale, value = source of the operation, TTL 45 s | TryAcquire (SETNX), Release (DEL if equal) | every fiscal operation |
| billing state machine `pkg/billingstate` | columns of `tenant_invoices`, `tenant_sales.billing_status` | CanTransition, legacy views, evidence, effective status | all writers of those rows |
| emission `internal/billing/service` | the same rows | manual send and resend, EnqueueSendToSUNAT, EmitFiscal, synchronisation with the facturador | lock, quota, queue, facturador |
| fiscal queue `pkg/fiscalqueue`, worker `internal/fiscal/worker` | Redis list, claim key (120 s), timers in memory | TryClaim, Enqueue, BLPOP, ProcessJob, scheduleFiscalRetry | emission |
| status intake `internal/fiscal`, `pkg/fiscaldedup` | event marks (72 h), the rows | POST status, ApplyStatus | facturador, rows, tenant pools |
| reconcile cron `pkg/cron`, `internal/billing/worker/reconcile.go` | cron lock, the rows | select pending sales, lock, synchronise, requeue | emission, lock |
| older billing queue `pkg/billingqueue`, `internal/billing/worker/worker.go` | Redis lists (pending, processing, dead), claim and processing keys, timers in memory | Enqueue, processOne, acknowledge, retry, recover at start | emission, when no facturador is configured |
| document quota `pkg/saas/docusage` | central tables: plan, periods, usages, packages | ReserveElectronicDocument, EnsureQuotaPeriod, purchase, approval, expiry | emission (before each send) |
| tenant pools `pkg/database/tenant_manager.go` | map of pools with reference counts, singleflight | GetTenantDB, GetTenantDBBackground, release, evictions, Remove | every request and job |
| series `pkg/docseries` | correlative of each series | ReserveNext | sales, inventory documents, table bills |
| stock `internal/inventory` | balances, kardex, serials, documents, transfers | RecordMovementTx, confirm, void, send, receive, withdraw | sales |
| sales `internal/sales` | sale rows and their payments | create, cancel, pending refunds | stock, series, money, emission |
| money `internal/receivables`, `payables`, `cashbank` | cash sessions, movements, account balances, debts | collect, pay, move, open, close and delete a session, refund | sales, purchases |
| restaurant `internal/restaurant` | tables, sessions, comandas, the day's counter | open, order, move, bill, close, cancel | sales |
| locks of jobs `pkg/cronlock`, `pkg/migrationlock` | Redis key; GET_LOCK | acquire, release | cron, migrations |
| subscriptions `pkg/saas` | subscriptions, payments, suspensions | approve, reject, reverse, suspend | quota, pools |
| everything else | single rows, files, reports | CRUD and look-ups | |

`PROJECT.json` has one entry per part, those left out included, with the reason.

### What is hard here, and what makes each part correct

* **Emission.** One sale can be sent by a user, by a resend, by the enqueuer after the sale,
  by a queue worker of any instance and by the cron, at the same time as the facturador's
  webhooks rewrite its row without the lock. The lock's value is the *source* of the
  operation, not its identity, so two requests of one kind release each other's key. Correct
  means: no two operations emit at once; the ERP never shows an acceptance the facturador has
  not given; nothing is emitted without a quota slot; a queued job is neither multiplied nor
  lost; an accepted document is eventually shown as accepted.
* **Older billing queue.** A worker moves a payload to a processing list, takes a lock with a
  TTL, runs, acknowledges by value and re-arms retries in a timer of its process; a starting
  process moves *everybody's* processing list back. Correct means: an accepted job is answered
  unless a fault loses it, tried a bounded number of times, and never by two workers that both
  still have the lock.
* **Quota.** Transactions of several requests reserve slots of one period under REPEATABLE
  READ, with plain reads, locking reads and unique keys mixed, while the plan, the packages
  and the month change. Correct means: no slot is given twice, no consumption is lost,
  package counters balance.
* **Pools.** A request looks a pool up, may open it in a flight shared with others, uses it
  without the mutex and releases it *by name*; evictions and Remove close pools meanwhile.
  Correct means: the count is the number of users, no user has a closed handle, no handle
  stays open that nothing can close, and the limit yields only to pools in use.
* **Stock.** `RecordMovementTx` reads a balance without a lock and writes it whole; only the
  lock of the series row, taken earlier, orders two sales. Correct means: correlatives without
  gaps or repetitions, one movement per charge, and balance, kardex and serials that differ
  only where a stale reading explains it.
* **Money.** The handlers check first (balance of the debt, status of the sale, session open)
  and write in a later transaction, or in none. Correct means: debts, balances and drawers
  are what their movements say, refunds happen once, and every exception is a pair of
  requests that really overlapped.
* **Tables.** What is pending is read before the transaction that charges it. Correct means:
  one open session per table, a number per order, nothing charged twice and nothing served
  thrown away, but in the overlaps each property names.

The 40 hazards in `PROJECT.json` name the line where each of these bites and the properties
that would show it.

## 2. Modules

```
FiscalLock ---------- FiscalLockProofs          JobDelivery                           SlotMeter
   |   BillingState          |                       | (refined by)                       | (refined by)
   |    /                    |                  BillingQueue --- BillingQueueProofs    DocQuota --- DocQuotaProofs
FiscalEmission ------ FiscalEmissionProofs           |                                    |
   |                                            MCBillingQueue                        MCDocQuota
MCFiscalEmission

StockLedger --- StockLedgerProofs   CashLedger --- CashLedgerProofs   TableSession --- TableSessionProofs   TenantPool --- TenantPoolProofs
   |                                    |                                 |                                     |
MCStockLedger                       MCCashLedger                     MCTableSession                         MCTenantPool
```

### FiscalLock: `pkg/billinglock` and its callers

`lock` is the value of the Redis key, `phase[o]` says whether operation `o` is outside,
inside, or was refused and still has its deferred `ReleaseLock` to run
(`PrepareFiscalOperation` keeps `lockOwner` on a refusal). `holder` and `robbed` are history:
who set the key, and who is inside although its key is gone. `Nested...` are the
`EnqueueSendToSUNAT` that the cron calls with the key held; `Abandon` is a crash, or the
cron's `continue` that skips Release. FiscalLock is the **abstract specification** of
the emission: every run and proof of FiscalEmission uses `LockSpec` as what the larger
system must implement.

### BillingState: `pkg/billingstate`

Operators only: stages and allowed transitions, legacy status of a stage, evidence of
acceptance, effective status of a sale, mapping of the facturador's statuses and
`AppliedRow`, the row ApplyStatus writes. Dates and texts are left out; whether there is
evidence is kept.

### FiscalEmission: one sale, all its threads

State: the row `inv`, the sale's status, whether the quota slot is consumed, the fiscal
queue, claim and timers, the facturador (external), its webhooks on the wire and the
processed marks; per thread the next statement (`pc`), the row it has read (`row`), the
payload it got, the statement after a synchronisation. One action is one statement that
touches shared state, so the check-then-act windows of the code are steps of their own:

| code | actions |
|---|---|
| ManualResendToSUNAT, PrepareFiscalOperation | Presync, Recheck, PrepareAcquire, PrepareRefuse, Classify, Refused |
| fetchAndApplyFiscalDocument, ApplyStatus | Fetch, FetchMiss, FetchFails, ApplyRead, ApplySave, SyncSale |
| executeFiscalSend, EmitFiscal, persistInvoiceAfterEmit | Reserve, SendGuard, Mark, Emit, EmitFails, Persist, PersistWrite, SaleCheck, SaleWrite, Settle, SettleWrite, Settled, MarkSent |
| manual result and its poll | Resync, WaitPoll, WaitEnds, FinishPrepared |
| EnqueueSendToSUNAT, EnqueueFiscalEmit | Unlock, TryClaim, EnqueueTx, Push, PushFails, PushFailedRow, DropClaim, PushedSale |
| fiscalqueue loop, ProcessJob, scheduleFiscalRetry | Pop, FailRow, RetryFires |
| ReconcileTenantPending | RecSelect, RecLock, RecCheck, RecEnd, Requeue, RecRelease |
| PostStatus | HookReceive, HookLookupFails, HookApplyFails |
| environment | FisReceives (inside Emit and EmitFails), FisAdvance, LoseHook, ClaimExpires, LockExpires, Crash |

### BillingQueue and JobDelivery: `pkg/billingqueue`

The branch `EnqueueSendToSUNAT` takes without a facturador. Lists and timers are counted per
payload `<<key, attempt>>`, because `LREM` removes one equal payload whichever worker pushed
it. `processOne` is the steps Take, Lock (or LockHeld, LockFails and Return), Begin, SendEnds
or SendFails, Judge, Bury or Retry, Settle, Unlock; the Redis calls whose error the code
discards may fail (ReturnFails, SettleUnacked, RetryUnacked, TimerLost); `End` is a crash, or the graceful Stop,
which does not wait for timers; `RecoverPop` and `RecoverPush` are the loop of
`recoverStuckProcessing`, one entry at a time. **JobDelivery** is what a caller of Enqueue may
rely on (an accepted job is owed until it is settled, and only a step with a fault loses it);
BillingQueue implements it through the refinement mapping `JobStatus`.

### DocQuota and SlotMeter: `pkg/saas/docusage`

One subscription. A transaction has its snapshot (`snap`), its own writes (`own`), the row
locks it holds (`lockP`, `lockK`, `lockD`) and the date it read. Plain SELECTs read the
snapshot; `FOR UPDATE`, UPDATE and INSERT read what is committed and wait for locks. The
isolation level is MySQL's default, which the repository never changes
(`docs/produccion/PRODUCTION-FINAL-REVIEW-ANNEX-B-CODE-VERIFICATION.md` lines 74 and 196
rely on it). **SlotMeter** is what a tenant may rely on: a reservation is one step, which gives
the document one slot for good, of a month's plan with room or of an open package with
something left, or finds that it has one; any other answer changes nothing; a document is refused for
quota only when no open package has anything left, and never where every plan is unlimited; a
package opens once, only if it was bought, and closes unopened or after the cycle. DocQuota
implements it through `Slots` and `PackageView`, with COMMIT as the step that takes effect.

### TenantPool: `TenantDBManager`

`pools` is `m.pools` (handle and `inUse` per name), `leader` the flight of each name, `open`
the handles that are open. One action is one critical section of `m.mu` or of the flight
group. `Leakers` are the callers that take a reference and never release it
(`internal/fiscal/handler/status_handler.go:89`, the 403 returns of
`pkg/middleware/tenant.go:66-71`, among others). `several` and `forced` are history: handles
that a flight gave to more than one caller and names that Remove closed while in use. They
name the two exceptions of `UsesCounted` and `UsersHaveOpenHandles`.

### StockLedger, CashLedger, TableSession: transactions of a tenant

These three share a form. A request is the operation of one HTTP handler; its steps are the
checks it makes *before* its transaction, the locking reads it waits for, the first plain
read (which fixes the snapshot `view[r]` all its later plain reads see under REPEATABLE READ)
and its writes with COMMIT. Row locks are state predicates (`HoldsSeries`, `HoldsAccount`,
`HoldsSession`, ...) over where each request is. `RollsBack` and `Breaks` end a request
anywhere. `Mixes` are the sets of requests that arrive together.

* **StockLedger**: `stock`, `serial`, `next` (correlatives), `standing` and `number` of each
  sale, document or transfer, `kardex`. History: `missed` (who wrote a quantity read before
  whose commit) and `outrun` (who committed on a status no longer true).
* **CashLedger**: `drawer` and `expected` of each session, `cash` and `bank` movements,
  `balance` of the account, `status` of each sale and `paid` of each purchase. `AddMovement`
  is two statements with a crash between them (`torn`). History: `since[r]` and `seen[r]`,
  the requests that had ended at r's first check and at the reading its writes rest on; the
  properties use them to say exactly which overlap excuses a discrepancy.
* **TableSession**: `session` (status and table), `display` of each table, `line` (comandas),
  `amount`, `counter` and `number`. `Discount[r]` is the global discount a bill comes with, a
  percentage or an amount: the sale's total is net of it (`CheckoutDiscount`, `SaleTotal`), and
  that is what a bill that leaves the session open takes off `total_amount`. `bills` is what
  each sale charged; `strayed` the tables of a session that moved under a close or a
  cancellation; `overwritten` the sessions whose total a cancellation wrote over a newer one.

## 3. Runs

| run | instance | properties | distinct states |
|---|---|---|---|
| emission_race | a manual resend that synchronises first, an automatic enqueue, a worker, a webhook handler | NoConcurrentEmission, LockSpec | 699 298 |
| emission_faults | a note resent by hand, cron, webhook handler, two instances, one fault; observed or rejected | AcceptedIsReal, EmissionIsReserved | 679 602 |
| emission_jobs | an automatic enqueue and a resend, two workers of one source, the key expires, the claim once, one fault | JobsBounded, NoStrandedJob, OneOwnerInside | 344 211 |
| emission_live | fair; enqueues, workers and cron, no webhooks | AcceptanceIsShown, QueueDrains | 92 722 |
| tenant_pools | 3 requests, one leaks, a background job, a Remove; 2 tenants, room for 1 pool, 3 handles; symmetry | UsesCounted, UsersHaveOpenHandles, OpenHandlesAreKept, LimitExceededWhenBusy | 950 944 |
| quota | 3 reservations, two of one document, and a reader; a package, changes of plan, 2 months, a tenant that is always unlimited | NotOverdrawn, PlanConsumptionKept, PackagesBalance, KeepsMeter | 1 301 305 |
| billing_queue | fair; 2 requests for one sale, 2 processes with a worker each, one fault, one expiry, one moved entry | QueueTypeOK, OneProcessorPerSale, WorkIsBacked, RunsBounded, WaitingRowHasJob, KeepsPromise, JobsAreAnswered | 195 280 |
| stock_ledger | 6 mixes of up to 5 of 14 requests: sales of two series (one retried), cancellations, documents in and out, a transfer; 2 branches, 3 serials | NumbersGapless, SameSeriesNeverOverwrite, MovesOnce, StockIsKardex, SerialsMatchStock | 129 871 |
| stock_oversold | two sales of one series, one of another, two units | NeverOversold: **violated** | |
| cash_ledger | 9 mixes of up to 5 of 18 requests: collections and payments in cash and to a bank, cancellations, refunds, opens, closes, a deletion, manual movements | BankBalanceIsMovements, ReversedOnce, DebtsSettle, CloseCountsAll, DrawersKept, CancelledSettles | 155 334 |
| table_sessions | 12 mixes of up to 5 of 19 requests: opens, orders, moves, the four bills (three of the requests with a discount: half, one unit, more than a comanda is worth), closes, cancellations; 2 tables, 4 sessions, 4 comandas of 2 units | TablesFollowSessions, OrderNumbersUnique, ChargedOnce, BilledSettles, AmountAddsUp | 199 722 |
| table_billed_twice | two partial bills of one session | NeverChargedTwice: **violated** | |

Each property of a passing run has a mutant in `PROJECT.json`: a plausible error of the code
(SET for SETNX, a missing `FOR UPDATE`, eviction without looking at `inUse`, a retry that is
not armed, a balance written whole, ...) under which the same run fails.

**Why the bounds are enough.** The races are between two operations and a webhook, or two
transactions and a third that changes what they read; the instances have one of each kind and
two of the kind that races with itself. The lock needs a third operation to meet a key its
owner has lost, and emission_jobs has four. Room for one pool and two tenants makes every new
pool evict or exceed the limit, and three handles let a stored, an own and a private one
exist together. In the three transaction modules a discrepancy needs two overlapping writers
and a request that shows it; the mixes put together every pair of kinds that touch one row,
with up to three more. `MaxFaults` (failed calls, lost events, crashes), `MaxClaimTTLs`,
`MaxExpiries`, `MaxMoved`, `MaxRetries` (BillingMaxRetries), `LastMonth`, `MaxChanges`, the
number of `Handles` and the `Mixes` are the only bounds on behaviours; the proofs hold for all
their values. Deadlock is not checked because every modelled operation may end and nothing
need follow.

**Limits of what the runs say.** `JobsBounded` is for no failure and at most two callers that
enqueue, or a row without the uuid of its document yet: EnqueueFiscalEmit drops the claim of an
accepted document twice (`fiscal_enqueue.go:94` and the deferred call), and the second drop may
free the claim another caller has taken meanwhile. If a webhook then saves a row it read before
the acceptance, that caller and a third one both queue the sale; TLC reaches this with a send,
three enqueues and two webhook handlers, an instance too large for a run of its own.

`AmountAddsUp` does not say that the total of an open session is what is pending: with
discounts it is not. `AddOrder` adds the full price of a comanda (`restaurant_service.go:673`)
and a bill that leaves the session open takes off the total of its sale, net of the discount
(`:1605`), so the discount of every partial bill stays in `total_amount`; the model has it so
and the property counts it (`Discounted`). It excuses a session whose total a cancellation
wrote over one it had not seen (`:819`, the history `overwritten`), so it does not catch that
lost update, and one where a bill or a cancellation and another took the same comanda
(`Clashed`, what `NeverChargedTwice` shows).
`NotOverdrawn` and `PlanConsumptionKept` say nothing of unlimited plans, which do not count.
`NoConcurrentEmission` is for operations of distinct sources that end within the key's TTL.
`WorkIsBacked` and `RunsBounded` hold until a start-up moves the entry of a job in progress;
`RunsBounded` allows MaxRetries runs for each push and for each failed command, since a failed
LREM leaves two copies of a job, and one run per lock that ran out when a process ends;
`WaitingRowHasJob` holds until a fault or a second job of a final row. The properties of
CashLedger and TableSession name the overlap that excuses a discrepancy; the unconditional
statements are false, and two of them are findings.

### Fairness

`FairEmissionSpec`: weak fairness of each thread's next statement, of webhook processing, of
the timers and TTLs and of the facturador, because goroutines are scheduled, the worker loop
never stops and the facturador retries. Strong fairness only for a *worker's* acquisition of
the key: its job is tried again every 2 s while the holders keep ending, and the key has a
TTL. `SlowCron` says that a cron run does not begin while a job waits for its 2 s retry,
since the cron's period is 7 minutes. Nothing is assumed of requests: none has to arrive, and
no webhook has to be delivered.

`FairQueueSpec`: weak fairness of a worker's step, of a timer, of the start and recovery of a
process (`docker-compose.production.yml:19` restarts the container) and of the TTL of the
lock; strong fairness of taking a payload that is offered again and again, because
`BRPOPLPUSH` serves the list in order. The safety of the other modules needs no fairness.

## 4. Proofs

All for any set of operations, sources, threads, tenants, papers, requests, and any bounds,
from the ASSUMEs of the modules (disjoint kinds of threads, `None` outside the other sets,
finite sets of threads or requests, one new row per request that creates one; for the
serials, that a document names one and that two entries do not insert the same row: the
serial is the row and not its text, which no unique index keeps apart).

* **FiscalLockProofs.** `LockInv` is inductive: the key is always some operation's, and
  whoever is inside and not robbed is its holder. `OneOwner` (OneOwnerInside) follows;
  `Exclusion` adds that with distinct sources nobody is ever robbed.
* **FiscalEmissionProofs.** `EmissionImplementsLock`: each step of the emission is a step of
  the lock or leaves it alone, so the theorems about the lock carry over.
  `EmissionReserved`: a thread past `Reserve` has seen the slot consumed, and a queued job was
  pushed by such a thread (`ReservationInv`). `EmissionExclusive`: a thread between the
  decision to emit and the answer is inside the lock (`PhaseInv`). `EmissionTypeCorrect`:
  types of rows and copies of rows (`DataOK`), with the control states a synchronisation can
  return to (`ControlOK`). `AcceptanceIsReal`: not inductive alone, because a stale copy of
  the row or a late payload can be written at any moment; `RealInv` says that until the facturador
  accepts, no copy, payload or webhook on the wire shows an acceptance; and its acceptance is
  final.
  `NothingStranded` (NoStrandedJob): a waiting row is carried by a job, a worker or a thread
  about to push. It is not inductive alone, since a worker that came to its end without having
  emitted would take the last job with it; `StrandInv` says that until the uuid of the document
  is in the row every worker `Pursues` it: it can only emit, or be refused and return the job.
  That a worker does not stop at an accepted row before that needs `RowInv`: a row shows an
  acceptance only beside the uuid, and no stale copy of the row takes the uuid back (`RowMoves`).
  `FewCallersBoundJobs` and `UnsentJobsBounded` (JobsBounded) count in `JobInv` the jobs and the
  threads that hold the claim (`Load`) against the times it ran out (`Room`): each claim covers
  at most one job, and it becomes free only when it runs out, which is counted, or when the
  thread that took it gives it up without a job, which it does over an accepted document. It may do so
  twice, and the second time takes another's claim from it; two callers cannot meet in that way
  (`RoleInv`, `Ahead`), and nobody gives the claim up before the row has the document's uuid (`inv.ext`).
* **TenantPoolProofs.** `PoolInv` adds to the counts who may refer to a handle: the handles
  of the map are open and no two names share one, a caller that has just opened has a handle
  nobody else has unless the flight was shared, a background job's handle is its own. With it
  `UsesAreCounted` and `UsersKeepOpenHandles` hold for any number of tenants, requests, jobs
  and any limit: an unused pool has no holder, so closing it takes nothing from anybody.
  `OpenHandlesKept` needs `KeptInv` besides: a handle leaves the map only when it is closed in
  the same step, and a caller that gives its handle up closes it or has stored it.
  `LimitYieldsToUse` is an action property: a step that makes the map grow beyond the limit
  has found no pool to evict.
* **StockLedgerProofs.** `StockInv` says what the locks give: at most one request holds a
  series and what it got is that series' next number; the numbers given are below it; whoever
  holds the row of a document has it in the status it found; a request's snapshot contains
  every movement of a sale of its series committed before. `Gapless`, `OneMovement` and
  `SeriesSerialise` follow. `StockFollowsKardex` counts: while nobody wrote over a movement he
  had not seen, each COMMIT adds one row to the kardex and its change to the balance; the
  cardinalities are split per branch and direction (`TallyAdd`, `RecordBalances`).
  `SerialsFollowStock` rests on `ShelfInv`: the serial of a sale that stands is sold and
  belongs to it alone, the cargo of a pending transfer is in transit, an entry not yet
  confirmed has no row, and a request's snapshot of the serials is still true where it will
  write, as long as its branch's balance is. Every COMMIT then moves one serial in or out of
  the branch whose balance it writes.
* **TableSessionProofs.** `TableInv` follows the row locks: no two requests hold one table, one
  session or the counter of a day (`Excluding`), and what a request found when it took its
  lock is still so, in particular a table without an open session (`Found`). From it
  `TablesAgree`: a table has one open session, from the locks alone, and shows what it has,
  except in the two overlaps the property names. `NumbersUnique`: the counter's row is locked
  from the reading to the COMMIT, and every number given on its day is below it.
  `ChargeInv` says what bills charge although they chose it before their lock: the rows of
  sales are the picks of the bills that committed (`BillsArePicks`), a comanda keeps its units
  less those that bills by unit charged, a bill that takes it whole charges what the parts it
  had seen left (`UnitsAreLeft`), and no bill that reads later chooses it again (`WholeOnce`).
  `NothingTwice` counts the charges from it. `SettleInv` adds why a comanda is no longer
  pending, which gives `BilledIsSettled`. `TotalInv` says what a bill or a cancellation read
  is still so unless a request that ended since crossed it, and each commit changes the total
  by as many units as it adds to or takes from those pending (`Due`) and those of the discounts
  given by bills that left the session open (`Discounted`), a set of pairs that only such a
  bill adds to, as many as its discount (`GiftSize`, `GiftsApart`): `TotalsFollow`, for any
  discounts, percentages and amounts.
* **CashLedgerProofs.** `LedgerInv` says what REPEATABLE READ gives: rows of movements are only
  added, by requests that end, and the snapshot of a transaction has every movement of the
  requests that had ended when it was taken. `BalanceFollowsMovements` adds up the rows
  (`TallyAdd`, `TallyOut`). `ReversedAtMostOnce`: a second reversal would be in the snapshot of
  whoever looks for it. `ClosesCount` and `DrawersStayKept` use `SessionInv`: once a close or a
  deletion has ended (`Shut`), nobody's reading of an open session is later than it.
  `CancelledSettle` uses `CancelInv`: a cancellation has dealt with each payment it saw
  (`Dealt`, `CancelDeals`), and a collection that checks after it is refused, or follows a
  collection that crossed it.
  `DebtsAgree` uses `DebtInv`: payments that did not overlap form a chain, so the last of them
  was checked against all the others (`ChainBefore`), and whoever holds the account's row has
  every bank payment in its snapshot.

* **BillingQueueProofs.** `OneProcessor` from `LockInv`: a worker inside that is not robbed
  is the value of the lock of its sale. `ProcessingBacksWork`: the workers that hold a payload
  (`Unfinished`) are counted against its entries; an acknowledgement takes one entry and one
  worker, and a start-up takes an entry of a job in progress only in a step that counts in
  `moved`. `WaitingRowsMoveOn` from `WaitingInv`: without faults a job that is not finished
  has a copy, and a copy goes from one place to another in each step. `QueueKeepsPromise` is
  the refinement of JobDelivery: every step is one of four kinds (a copy moves, a copy is
  lost to a fault, a job ends, a job is accepted), and each kind is a step of JobDelivery or
  a stutter under `JobStatus`. `RunsAreBounded` counts, with the runs of a sale, those that
  its copies still allow (`Allowed`: one for each copy of a job and each attempt left to it):
  a copy that moves takes its runs along, a retry has one fewer, a run that begins is paid by
  the copy it was made from, in the processing list by `WorkIsBacked` (`BegunAreAllowed`), and
  a process that ends loses no more runs than workers were processing the sale, one and those
  that locks which ran out let in (`HoldingBounded`, from `RobbedInv`).
* **DocQuotaProofs.** `FiniteUse`: the documents with a row of use are finite, so they
  can be counted.
  `TxInv`: a transaction holds the lock of whatever it has written or is deciding on
  (`LocksOK`), and has written what its statements so far write (`WritesOK`). `PackageInv` gives
  `PackagesAlwaysBalance`, and `PlanInv` with its `LimitedInv` gives `QuotaNotOverdrawn` and
  `ConsumptionIsKept`: the count of a period is its committed uses, and it grows only below
  the limit read under the lock. `QuotaKeepsMeter` is the refinement of SlotMeter: statements
  change nothing a caller sees (`StatementMeters`), a rollback is a refusal (`RefusalMeters`) and
  a COMMIT is a grant, whose document has no slot yet because the transaction has held its key
  since it looked, whose package is open and not empty because it holds the packages' rows, and
  whose month has room because it counted under the lock of the period (`CommitHasRoom`).

**Only model-checked:** liveness (`QueueDrains`, `AcceptanceIsShown`, `JobsAreAnswered`:
fairness and ENABLED are outside the prover). Every other property of a passing run is stated
by a theorem.

## 5. Findings

Two statements of the repository that the code does not keep, each with a run:

1. `sale_service.go:498` says the definitive guard against overselling is in
   RecordMovementTx. It reads the balance with a plain SELECT and writes the quantity it
   computed without a condition (`inventory_service.go:153-219`): two sales that take their
   numbers from different series read the same last unit and both commit (stock_oversold).
   Sales of one series are ordered by the lock of its row, which `SeriesSerialise` proves.
2. `restaurant_service.go:1606` says that marking the comandas billed avoids charging twice
   in partial bills (and `:1471-1472` that the claim of the session does). Two partial bills
   that read the same pending comanda before either commits both charge it: the session is
   open again when the second claims it and the UPDATE of `billed_at` has no condition
   (table_billed_twice). A comanda charged by unit is read again, and `ChargedOnce` says it is
   never charged beyond its units.

Windows seen while modelling, kept by the models; the properties name them or hold in spite
of them:

* Emission: `lock.go:35` says Release does not delete another process's lock, but it compares
  sources and a refused operation releases too, so a second manual send frees the first one's
  key; two operations can then emit one document and the facturador's idempotence is the only
  protection. `fiscal_reconcile.go:15` calls the cron the fallback of a lost webhook; a send
  whose row a webhook has moved on can write UNKNOWN over the sale's final outcome, and the
  final row makes the reconciliation return at once. `persistInvoiceAfterEmit` checks and
  updates in two statements (`fiscal_delegate.go:86,97,117-129`). A late `retrying` webhook
  reopens a final row (`state.go:59-60`). The cron requeues a stale job while it holds the key
  the enqueue needs (`reconcile.go:54`, `fiscal_status_sync.go:53`).
* Quota: `quotaperiod.go:166` says the loser of the creation of a period reads the winner's
  row again; it does so in its own snapshot, which does not have the row, and fails. The later
  of two reservations of one document gets a duplicate-key error instead of the slot
  (`quota.go:125,252`). A plan change can put a limit below what is used
  (`quotaperiod.go:269-276`).
* Pools: after a forced Remove, releases of the old users count against the new pool of that
  name; the last follower of a shared flight may store a handle another caller has stored,
  released and lost to an eviction; a shared handle nobody stores stays open; callers
  that never release (`auth.go:378`, `auth_handler.go:349`, `tenant_service.go:593` and those
  above) make their pool impossible to evict.
* Older queue: a start-up moves the entries of live workers, which process them again, and
  goes on while they do (`MaxMoved` bounds it here). A job recovered after its sale is final
  leaves the row in PROCESSING. With two failed Redis commands a payload can be in no list. One
  expired lock is enough for three workers, since each DEL frees the next one's lock.
* Stock: two cancellations of a sale can both commit, and so can the reception and the
  withdrawal of one transfer: the status is checked before the transaction (`outrun`). The
  confirmation of a document takes its snapshot before the lock of its series (`missed`).
  Two entries confirmed together with one serial text both find no such serial and both insert
  a row (`inventory_document_service.go:766`): the table has no unique index.
* Money: a payment checked while another is in its transaction overpays a debt; a close
  counts without the movements being written; `DeleteEmptySession` says only two tables point
  to a session (`cash_session_admin.go:23-24`), but bank movements (`migrations.go:2341`) and
  sale payments (`migrations.go:2594`) do too; a collection in its transaction brings a
  cancelled sale back.
* Tables: OpenTableExtended locks the table before the session and BillTable the session
  before the table, a deadlock InnoDB breaks; a full bill deletes comandas ordered after its
  reading; a session billed in part can still be cancelled, with its billed comandas; the
  error of RecordPayment is ignored (`restaurant_service.go:1576`).

## 6. Not modelled

* Emission: database errors in the middle of an operation, Redis disabled (the lock and the
  claim then always succeed), bulk resend and reissue, the effects of an acceptance on credit
  notes and voided sales, more than one sale.
* Older queue: a rejection by SUNAT, after which a request may queue the sale again; invalid
  payloads; a start-up whose RPOP or LPUSH fails (the second loses the entry); in the runs, two
  faults in one behaviour.
* Quota: early renewals and re-anchored cycles, several cycles, backfill, reports.
* Pools: shutdown of the process, creation and removal of databases; `lastUsed` is any order,
  and a close that runs in a goroutine of its own is immediate.
* Stock: the older Transfer in three transactions (`inventory_service.go:331-375`),
  ReverseTransfer and transfers with serials given by hand, presentations, sale units and combos, partial
  credit notes; products without serials; lines of more than one unit.
* Money: SaveArqueo, UpdateOpeningBalance, ReverseManualMovement, AddBankMovement,
  instalments, detraction, legacy payments, refunds of credit notes; amounts are units.
* Tables: combos, modifiers, kitchen statuses, CancelAllComandas,
  CleanupAbandonedQuickSales, UpdateSession, DeleteTable, the stock check, codes of orders,
  the cents of a sale (rounding of lines merged and of the share of a discount in each: a unit
  carries its tax, the discount counts in whole units of the base with theirs, a percentage
  rounds down), comandas given free (affectation 15, worth nothing to both totals), lines
  taxed at different rates, a tax rate changed between the order and the bill,
  the POS checkouts, and the sale, series and payments of a bill (StockLedger and CashLedger
  model those of a sale). The unique index of open sessions
  (`tenantmigrations/v064_table_open_session_unique.go`) is a second line behind the locks and
  is left out, so the runs and proofs show that the locks alone suffice.
* The parts marked `not_modelled` in `PROJECT.json`. Arithmetic on money and taxes is
  floating point on single documents, payloads and reports are data, CRUD touches single rows:
  unit tests reach them. Subscriptions (`pkg/saas`), prepayments, purchases, memberships,
  equipment and the migration job do have state machines of their own; they are the next
  candidates, in that order, in the form of the three transaction modules. Most of the
  repository's lines are of those two groups, which is why the map covers a small share of them.

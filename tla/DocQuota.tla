------------------------------ MODULE DocQuota ------------------------------
(***************************************************************************)
(* The quota of electronic documents of one tenant (pkg/saas/docusage):    *)
(* one subscription, its billing cycle of CycleMonths months, the monthly  *)
(* quota periods, the packages bought for the cycle and the transactions   *)
(* that reserve a slot for a document or read the quota.                   *)
(*                                                                         *)
(* The transactions run under InnoDB's REPEATABLE READ, which nothing in   *)
(* the repository changes: plain reads see the snapshot of the first read, *)
(* SELECT ... FOR UPDATE, UPDATE and INSERT see the committed rows and     *)
(* hold their locks until the transaction ends.                            *)
(***************************************************************************)
EXTENDS Integers, FiniteSets

CONSTANTS
  Txs,          \* transactions: ReserveElectronicDocument, or EnsureQuotaPeriod
  Docs,         \* documents
  Packages,     \* SaasTenantDocumentPackage rows the tenant requests
  None,
  Qty,          \* documents of a package
  Tenants,      \* the tenants there may be: doc[t], the document t reserves a
                \* slot for (None: t only reads); offer, the monthly limits of
                \* the plans it may have (0 - 1 is unlimited); buys, the
                \* packages it may request
  CycleMonths,  \* months of the billing cycle
  LastMonth,    \* bound on time, in months since the cycle began
  MaxChanges    \* bound on changes of the plan

Unlimited == 0 - 1

Months == 0..LastMonth

ASSUME QuotaAssumption ==
  /\ None \notin Txs \cup Packages \cup Docs
  /\ Qty \in Nat \ {0}
  /\ \A z \in Tenants : /\ z.doc \in [Txs -> Docs \cup {None}]
                        /\ z.offer \subseteq Nat \cup {Unlimited} /\ z.offer # {}
                        /\ z.buys \subseteq Packages
  /\ CycleMonths \in Nat \ {0} /\ LastMonth \in Nat /\ MaxChanges \in Nat

VARIABLES
  tenant,   \* which tenant this is
  plan,     \* SaasPlan.MonthlyDocumentsLimit of the subscription's plan
  period,   \* SaasDocumentQuotaPeriod rows, by month
  usage,    \* SaasElectronicDocumentUsage rows, by document
  pkg,      \* SaasTenantDocumentPackage rows
  month,    \* nowLima()
  changes,
  lockP, lockK, lockD,  \* owners of the row locks on periods, packages and the
                        \* unique keys of usages
  pc, snap, at, own, result   \* per transaction: next statement, snapshot, its
                              \* nowLima(), its writes, what it returned

committed == <<plan, period, usage, pkg>>
env       == <<tenant, month, changes>>
locks     == <<lockP, lockK, lockD>>
local     == <<snap, at, own, result>>
quotaVars == <<committed, env, locks, pc, local>>

\* The quota period that covers a date: the last one absorbs what follows.
PeriodAt(m) == IF m < CycleMonths THEN m ELSE CycleMonths - 1

NoPeriod == [exists |-> FALSE, unlimited |-> FALSE, limit |-> 0, used |-> 0]
NoUsage  == [from |-> "none", period |-> 0, month |-> 0, pkg |-> None]
NoWrites == [period |-> NoPeriod, slot |-> FALSE, pkg |-> None, usage |-> NoUsage]

\* planLimitFromPlan: the limit a period takes from a plan.
LimitOf(p) == IF p = Unlimited THEN 0 ELSE p

Now == [plan |-> plan, period |-> period, usage |-> usage, pkg |-> pkg]

Target(t) == PeriodAt(at[t])
Doc == tenant.doc

Free(lock, key, t) == lock[key] \in {None, t}

\* The row of the period as t's own statements see it after locking it:
\* UPDATEs only write the columns they name.
Current(t) ==
  LET w == own[t].period
      c == period[Target(t)]
  IN IF c.exists /\ w.exists THEN [c EXCEPT !.limit = w.limit, !.unlimited = w.unlimited]
     ELSE IF w.exists THEN w ELSE c

QuotaInit ==
  /\ tenant \in Tenants /\ plan \in tenant.offer
  /\ period = [m \in Months |-> NoPeriod]
  /\ usage = [d \in Docs |-> NoUsage]
  /\ pkg = [p \in Packages |-> [status |-> "none", used |-> 0, remaining |-> 0]]
  /\ month = 0 /\ changes = 0
  /\ lockP = [m \in Months |-> None]
  /\ lockK = [p \in Packages |-> None]
  /\ lockD = [d \in Docs |-> None]
  /\ pc = [t \in Txs |-> "begin"]
  /\ snap = [t \in Txs |-> Now]
  /\ at = [t \in Txs |-> 0]
  /\ own = [t \in Txs |-> NoWrites]
  /\ result = [t \in Txs |-> "none"]

Go(t, label) == pc' = [pc EXCEPT ![t] = label]

Unlocked(lock, t) == [k \in DOMAIN lock |-> IF lock[k] = t THEN None ELSE lock[k]]

\* The transaction ends: its locks are dropped, and its writes forgotten
\* (the caller applies them first when it commits).
End(t, res) ==
  /\ Go(t, "done")
  /\ lockP' = Unlocked(lockP, t) /\ lockK' = Unlocked(lockK, t) /\ lockD' = Unlocked(lockD, t)
  /\ own' = [own EXCEPT ![t] = NoWrites]
  /\ result' = [result EXCEPT ![t] = res]

Rollback(t, res) == End(t, res) /\ UNCHANGED <<committed, env, snap, at>>

-----------------------------------------------------------------------------
\* The transaction's first read: is the document already reserved?
Begin(t) ==
  /\ pc[t] = "begin"
  /\ snap' = [snap EXCEPT ![t] = Now]
  /\ IF Doc[t] # None /\ usage[Doc[t]].from # "none"
       THEN Go(t, "done") /\ result' = [result EXCEPT ![t] = "ok"]
       ELSE Go(t, "ensure") /\ UNCHANGED result
  /\ at' = [at EXCEPT ![t] = month]
  /\ UNCHANGED <<committed, env, locks, own>>

\* Mutant of AfterEnsure: the unlimited plan's 0 taken for a limit.
LockAlways(t, unlimited) == IF Doc[t] = None THEN "commit" ELSE "lock"

\* An unlimited plan's period is neither locked nor counted.
AfterEnsure(t, unlimited) ==
  IF Doc[t] = None THEN "commit" ELSE IF unlimited THEN "record" ELSE "lock"

\* syncPeriodQuotaFromPlanTx: the limit the plan gives, not below what the
\* transaction has seen consumed.
SyncedLimit(p, row) ==
  IF p # Unlimited /\ row.used > LimitOf(p) THEN row.used ELSE LimitOf(p)

\* ensureQuotaPeriodTx finds the row: it updates the limit (and takes the
\* row's lock) only when it differs from the plan's.  An UPDATE that times out
\* is ignored: the caller goes on with the values in memory.
EnsureFound(t) ==
  /\ pc[t] = "ensure"
  /\ LET row    == snap[t].period[Target(t)]
         p      == snap[t].plan
         synced == [row EXCEPT !.limit = SyncedLimit(p, row), !.unlimited = (p = Unlimited)]
     IN /\ row.exists
        /\ \/ /\ synced = row \/ ~Free(lockP, Target(t), t)
              /\ UNCHANGED <<lockP, own>>
           \/ /\ synced # row /\ Free(lockP, Target(t), t)
              /\ lockP' = [lockP EXCEPT ![Target(t)] = t]
              /\ own' = [own EXCEPT ![t].period = synced]
        /\ Go(t, AfterEnsure(t, synced.unlimited))
  /\ UNCHANGED <<committed, env, lockK, lockD, snap, at, result>>

\* Plan documents t sees consumed in the window of the new period.
AlreadyUsed(t) ==
  Cardinality({d \in Docs : /\ snap[t].usage[d].from = "plan_base"
                            /\ snap[t].usage[d].month = Target(t)})

\* ... does not find it: INSERT, which waits for whoever is inserting it.
EnsureCreates(t) ==
  /\ pc[t] = "ensure"
  /\ ~snap[t].period[Target(t)].exists
  /\ ~period[Target(t)].exists
  /\ Free(lockP, Target(t), t)
  /\ lockP' = [lockP EXCEPT ![Target(t)] = t]
  /\ own' = [own EXCEPT ![t].period =
       [exists |-> TRUE, unlimited |-> snap[t].plan = Unlimited,
        limit |-> LimitOf(snap[t].plan), used |-> AlreadyUsed(t)]]
  /\ Go(t, AfterEnsure(t, snap[t].plan = Unlimited))
  /\ UNCHANGED <<committed, env, lockK, lockD, snap, at, result>>

\* ... the INSERT is a duplicate: the loser reads again, in its snapshot,
\* where the row is missing.
EnsureLoses(t) ==
  /\ pc[t] = "ensure"
  /\ ~snap[t].period[Target(t)].exists
  /\ period[Target(t)].exists
  /\ Rollback(t, "not_found")

\* Mutant of LockPeriod: a plain read instead of FOR UPDATE.
ReadPeriod(t) ==
  /\ pc[t] = "lock"
  /\ Go(t, "consume")
  /\ UNCHANGED <<committed, env, locks, local>>

\* lockQuotaPeriod.
LockPeriod(t) ==
  /\ pc[t] = "lock"
  /\ Free(lockP, Target(t), t)
  /\ lockP' = [lockP EXCEPT ![Target(t)] = t]
  /\ Go(t, "consume")
  /\ UNCHANGED <<committed, env, lockK, lockD, local>>

\* consumeSlotTx: a slot of the plan ...
ConsumePlan(t) ==
  /\ pc[t] = "consume"
  /\ Current(t).used < Current(t).limit
  /\ own' = [own EXCEPT ![t].slot = TRUE]
  /\ Go(t, "record")
  /\ UNCHANGED <<committed, env, locks, snap, at, result>>

\* Packages the query of consumeSlotTx returns.
Usable == {p \in Packages : pkg[p].status = "approved" /\ pkg[p].remaining > 0}

\* ... or, once it is used up, of a package: the query locks the tenant's rows.
ConsumePackage(t) ==
  /\ pc[t] = "consume"
  /\ Current(t).used >= Current(t).limit
  /\ \A p \in Packages : Free(lockK, p, t)
  /\ lockK' = [p \in Packages |-> t]
  /\ \E p \in Usable : own' = [own EXCEPT ![t].pkg = p]
  /\ Go(t, "record")
  /\ UNCHANGED <<committed, env, lockP, lockD, snap, at, result>>

\* ErrQuotaExceeded.
Exceeded(t) ==
  /\ pc[t] = "consume"
  /\ Current(t).used >= Current(t).limit
  /\ \A p \in Packages : Free(lockK, p, t)
  /\ Usable = {}
  /\ Rollback(t, "exceeded")

\* recordUsageTx.  A transaction inserting the same key is waited for; a
\* committed one is an error, and everything is undone.
Record(t) ==
  /\ pc[t] = "record"
  /\ Free(lockD, Doc[t], t)
  /\ usage[Doc[t]].from = "none"
  /\ lockD' = [lockD EXCEPT ![Doc[t]] = t]
  /\ own' = [own EXCEPT ![t].usage =
       [from |-> IF own[t].pkg = None THEN "plan_base" ELSE "package",
        period |-> Target(t), month |-> month, pkg |-> own[t].pkg]]
  /\ Go(t, "commit")
  /\ UNCHANGED <<committed, env, lockP, lockK, snap, at, result>>

RecordDuplicate(t) ==
  /\ pc[t] = "record"
  /\ usage[Doc[t]].from # "none"
  /\ Rollback(t, "duplicate")

\* Mutant of Counted: the row of the period is saved whole, as it was read.
CountedOnRead(t) ==
  LET row == IF snap[t].period[Target(t)].exists THEN snap[t].period[Target(t)] ELSE Current(t)
  IN [row EXCEPT !.used = @ + (IF own[t].slot THEN 1 ELSE 0)]

\* The period once t's UPDATE documents_used + 1 is committed.
Counted(t) == [Current(t) EXCEPT !.used = @ + (IF own[t].slot THEN 1 ELSE 0)]

\* Mutant of Taken: one of the two counters is left alone.
TakenOnce(row) == [row EXCEPT !.used = @ + 1]

\* A package after a document is taken from it.
Taken(row) == [row EXCEPT !.used = @ + 1, !.remaining = @ - 1]

Commit(t) ==
  /\ pc[t] = "commit"
  /\ period' = [period EXCEPT ![Target(t)] = Counted(t)]
  /\ usage' = IF Doc[t] = None THEN usage ELSE [usage EXCEPT ![Doc[t]] = own[t].usage]
  /\ pkg' = [p \in Packages |-> IF own[t].pkg = p THEN Taken(pkg[p]) ELSE pkg[p]]
  /\ End(t, "ok")
  /\ UNCHANGED <<plan, env, snap, at>>

\* The connection or a statement fails: the transaction is rolled back.
Fail(t) ==
  /\ pc[t] \in {"ensure", "lock", "consume", "record", "commit"}
  /\ Rollback(t, "failed")

-----------------------------------------------------------------------------
\* The rest of the system: single-statement transactions.

\* The operator gives the tenant another plan, or the plan another limit.
ChangePlan ==
  /\ changes < MaxChanges
  /\ changes' = changes + 1
  /\ plan' \in tenant.offer \ {plan}
  /\ UNCHANGED <<tenant, period, usage, pkg, month, locks, pc, local>>

\* PurchaseDocumentPackage, when the billing cycle's own copy of the plan's
\* unlimited flag, which is not modelled, lets it.
Purchase(p) ==
  /\ p \in tenant.buys /\ pkg[p].status = "none"
  /\ pkg' = [pkg EXCEPT ![p].status = "pending_review"]
  /\ UNCHANGED <<plan, period, usage, env, locks, pc, local>>

\* ApproveTenantPackage and RejectTenantPackage lock the row.
Approve(p) ==
  /\ pkg[p].status = "pending_review" /\ lockK[p] = None
  /\ pkg' = [pkg EXCEPT ![p].status = "approved", ![p].remaining = Qty]
  /\ UNCHANGED <<plan, period, usage, env, locks, pc, local>>

Reject(p) ==
  /\ pkg[p].status = "pending_review" /\ lockK[p] = None
  /\ pkg' = [pkg EXCEPT ![p].status = "rejected"]
  /\ UNCHANGED <<plan, period, usage, env, locks, pc, local>>

\* ExpirePackagesForEndedCycles, once the cycle has ended: the UPDATE waits
\* for the rows that are locked.
ExpirePackages ==
  /\ month >= CycleMonths
  /\ \A p \in Packages : lockK[p] = None
  /\ \E p \in Packages : pkg[p].status = "approved"
  /\ pkg' = [p \in Packages |-> IF pkg[p].status = "approved"
                                  THEN [pkg[p] EXCEPT !.status = "expired", !.remaining = 0]
                                  ELSE pkg[p]]
  /\ UNCHANGED <<plan, period, usage, env, locks, pc, local>>

NextMonth ==
  /\ month < LastMonth
  /\ month' = month + 1
  /\ UNCHANGED <<committed, tenant, changes, locks, pc, local>>

TxStep(t) ==
  \/ Begin(t) \/ EnsureFound(t) \/ EnsureCreates(t) \/ EnsureLoses(t)
  \/ LockPeriod(t) \/ ConsumePlan(t) \/ ConsumePackage(t) \/ Exceeded(t)
  \/ Record(t) \/ RecordDuplicate(t) \/ Commit(t)

QuotaNext ==
  \/ \E t \in Txs : TxStep(t) \/ Fail(t)
  \/ \E p \in Packages : Purchase(p) \/ Approve(p) \/ Reject(p)
  \/ ChangePlan \/ ExpirePackages \/ NextMonth

QuotaSpec == QuotaInit /\ [][QuotaNext]_quotaVars

-----------------------------------------------------------------------------
PeriodRows == [exists : BOOLEAN, unlimited : BOOLEAN, limit : Nat, used : Nat]

UsageRows == [from : {"none", "plan_base", "package"}, period : Months, month : Months,
              pkg : Packages \cup {None}]

PackageRows == [status : {"none", "pending_review", "approved", "rejected", "expired"},
                used : Nat, remaining : Int]

Databases == [plan : tenant.offer, period : [Months -> PeriodRows], usage : [Docs -> UsageRows],
              pkg : [Packages -> PackageRows]]

QuotaTypeOK ==
  /\ tenant \in Tenants /\ Now \in Databases
  /\ month \in Months /\ changes \in Nat
  /\ lockP \in [Months -> Txs \cup {None}]
  /\ lockK \in [Packages -> Txs \cup {None}]
  /\ lockD \in [Docs -> Txs \cup {None}]
  /\ pc \in [Txs -> {"begin", "ensure", "lock", "consume", "record", "commit", "done"}]
  /\ snap \in [Txs -> Databases]
  /\ at \in [Txs -> Months]
  /\ own \in [Txs -> [period : PeriodRows, slot : BOOLEAN, pkg : Packages \cup {None},
                      usage : UsageRows]]
  /\ result \in [Txs -> {"none", "ok", "not_found", "exceeded", "duplicate", "failed"}]

\* Documents that took a slot of a month's plan.
Charged(m) == {d \in Docs : usage[d].from = "plan_base" /\ usage[d].period = m}

\* However transactions interleave, a month's plan never yields more slots
\* than the largest limit the plan has had.
NotOverdrawn ==
  \A m \in Months : \E limit \in tenant.offer :
    limit = Unlimited \/ Cardinality(Charged(m)) <= limit

\* No consumption is lost: a period has counted every document charged to it
\* under a limited plan.
PlanConsumptionKept ==
  Unlimited \notin tenant.offer =>
    \A m \in Months : period[m].used >= Cardinality(Charged(m))

\* A package's counters say what was taken from it: used is the number of its
\* documents, and used + remaining what was bought until it expires.
PackagesBalance ==
  \A p \in Packages :
    /\ pkg[p].used = Cardinality({d \in Docs : usage[d].pkg = p})
    /\ IF pkg[p].status = "approved" THEN pkg[p].used + pkg[p].remaining = Qty /\ pkg[p].remaining >= 0
       ELSE pkg[p].remaining = 0
-----------------------------------------------------------------------------
\* The transactions implement SlotMeter: a reservation takes effect when it
\* commits, and its answer is that of one step.

Slots == [d \in Docs |-> [from |-> usage[d].from, period |-> usage[d].period, pkg |-> usage[d].pkg]]

PackageView ==
  [p \in Packages |->
    [state |-> CASE pkg[p].status \in {"none", "pending_review"} -> "new"
                 [] pkg[p].status = "approved" -> "open"
                 [] OTHER -> "closed",
     left |-> pkg[p].remaining]]

Meter == INSTANCE SlotMeter WITH slot <- Slots, package <- PackageView, answer <- result

\* However the statements, the locks and the snapshots of the transactions
\* interleave with approvals, expiries and changes of plan, each reservation
\* looks like one step: what it answers is what it did.
KeepsMeter == Meter!MeterSpec
=============================================================================

--------------------------- MODULE DocQuotaProofs ---------------------------
(***************************************************************************)
(* Proofs about DocQuota for any transactions, documents, packages,        *)
(* tenants and lengths of the cycle, and any number of changes of plan.    *)
(***************************************************************************)
EXTENDS DocQuota, FiniteSetTheorems, TLAPS

\* The month of a transaction is one of the months.
LEMMA TargetMonth ==
  ASSUME QuotaTypeOK, NEW t \in Txs
  PROVE  Target(t) \in Months /\ Doc[t] \in Docs \cup {None}
BY QuotaAssumption DEF QuotaTypeOK, Target, PeriodAt, Months, Doc

\* Limits are numbers, whatever the plan.
LEMMA LimitIsNat ==
  ASSUME QuotaTypeOK, NEW p \in tenant.offer
  PROVE  LimitOf(p) \in Nat
BY QuotaAssumption DEF QuotaTypeOK, LimitOf, Unlimited

\* Documents that have a row.
Used(u) == {d \in Docs : u[d].from # "none"}

\* Only so many documents have rows, in the database and in the snapshots.
FiniteUse ==
  /\ IsFiniteSet(Used(usage))
  /\ \A t \in Txs : IsFiniteSet(Used(snap[t].usage))

LEMMA AlreadyUsedType ==
  ASSUME FiniteUse, NEW t \in Txs
  PROVE  AlreadyUsed(t) \in Nat
<1> DEFINE S == {d \in Docs : /\ snap[t].usage[d].from = "plan_base"
                              /\ snap[t].usage[d].month = Target(t)}
<1>1. S \subseteq Used(snap[t].usage)
  BY DEF Used
<1>2. IsFiniteSet(S)
  BY <1>1, FS_Subset DEF FiniteUse
<1> QED
  BY <1>2, FS_CardinalityType DEF AlreadyUsed

\* A transaction's writes, and the rows of packages, after a change of some fields.
Writes == [period : PeriodRows, slot : BOOLEAN, pkg : Packages \cup {None}, usage : UsageRows]

LEMMA WritesType ==
  ASSUME NEW w \in Writes
  PROVE  /\ \A row \in PeriodRows : [w EXCEPT !.period = row] \in Writes
         /\ [w EXCEPT !.slot = TRUE] \in Writes
         /\ \A p \in Packages : [w EXCEPT !.pkg = p] \in Writes
         /\ \A row \in UsageRows : [w EXCEPT !.usage = row] \in Writes
BY DEF Writes

LEMMA PackageType ==
  ASSUME NEW r \in PackageRows
  PROVE  /\ Taken(r) \in PackageRows
         /\ [r EXCEPT !.status = "pending_review"] \in PackageRows
         /\ [r EXCEPT !.status = "approved", !.remaining = Qty] \in PackageRows
         /\ [r EXCEPT !.status = "rejected"] \in PackageRows
         /\ [r EXCEPT !.status = "expired", !.remaining = 0] \in PackageRows
<1>1. r.used + 1 \in Nat /\ r.remaining - 1 \in Int /\ Qty \in Int
  BY QuotaAssumption DEF PackageRows
<1>2. Taken(r) \in PackageRows
  BY <1>1 DEF PackageRows, Taken
<1>3. \A x \in {"pending_review", "rejected"} : [r EXCEPT !.status = x] \in PackageRows
  BY DEF PackageRows
<1>4. \A x \in {"approved", "expired"}, n \in Int :
        [r EXCEPT !.status = x, !.remaining = n] \in PackageRows
  BY DEF PackageRows
<1>5. [r EXCEPT !.status = "approved", !.remaining = Qty] \in PackageRows
  BY <1>1, <1>4
<1>6. [r EXCEPT !.status = "expired", !.remaining = 0] \in PackageRows
  <2>1. \E n \in Int : n = 0
    OBVIOUS
  <2> QED
    BY <1>4, <2>1
<1> QED
  BY <1>2, <1>3, <1>5, <1>6

\* What a transaction sees of its period is a row.
LEMMA CurrentType ==
  ASSUME QuotaTypeOK, NEW t \in Txs
  PROVE  Current(t) \in PeriodRows
<1> DEFINE w == own[t].period
           c == period[Target(t)]
<1>1. w \in PeriodRows /\ c \in PeriodRows
  BY TargetMonth DEF QuotaTypeOK, Now, Databases
<1> HIDE DEF w, c
<1>2. [c EXCEPT !.limit = w.limit, !.unlimited = w.unlimited] \in PeriodRows
  BY <1>1 DEF PeriodRows
<1> QED
  BY <1>1, <1>2 DEF Current, w, c

\* A transaction that ends leaves types alone.
LEMMA EndTypes ==
  ASSUME QuotaTypeOK, NEW t \in Txs, NEW res \in {"ok", "not_found", "exceeded", "duplicate", "failed"},
         End(t, res)
  PROVE  /\ pc' \in [Txs -> {"begin", "ensure", "lock", "consume", "record", "commit", "done"}]
         /\ lockP' \in [Months -> Txs \cup {None}]
         /\ lockK' \in [Packages -> Txs \cup {None}]
         /\ lockD' \in [Docs -> Txs \cup {None}]
         /\ own' \in [Txs -> [period : PeriodRows, slot : BOOLEAN, pkg : Packages \cup {None},
                              usage : UsageRows]]
         /\ result' \in [Txs -> {"none", "ok", "not_found", "exceeded", "duplicate", "failed"}]
<1>1. NoWrites \in [period : PeriodRows, slot : BOOLEAN, pkg : Packages \cup {None}, usage : UsageRows]
  BY QuotaAssumption DEF NoWrites, NoPeriod, NoUsage, PeriodRows, UsageRows, Months
<1> QED
  BY <1>1 DEF End, Go, Unlocked, QuotaTypeOK

LEMMA RollbackTypes ==
  ASSUME QuotaTypeOK, FiniteUse, NEW t \in Txs,
         NEW res \in {"ok", "not_found", "exceeded", "duplicate", "failed"}, Rollback(t, res)
  PROVE  QuotaTypeOK' /\ FiniteUse'
BY EndTypes DEF Rollback, QuotaTypeOK, FiniteUse, Now, Databases, committed, env

-----------------------------------------------------------------------------
LEMMA QuotaTypesInitially == QuotaInit => QuotaTypeOK /\ FiniteUse
<1> SUFFICES ASSUME QuotaInit PROVE QuotaTypeOK /\ FiniteUse
  OBVIOUS
<1>1. 0 \in Months /\ NoPeriod \in PeriodRows /\ NoUsage \in UsageRows
  BY QuotaAssumption DEF Months, NoPeriod, PeriodRows, NoUsage, UsageRows
<1>2. Now \in Databases
  BY <1>1 DEF QuotaInit, Now, Databases, PackageRows
<1>3. own \in [Txs -> [period : PeriodRows, slot : BOOLEAN, pkg : Packages \cup {None},
                       usage : UsageRows]]
  BY <1>1 DEF QuotaInit, NoWrites
<1>4. QuotaTypeOK
  BY <1>1, <1>2, <1>3 DEF QuotaInit, QuotaTypeOK
<1>5. Used(usage) = {} /\ \A t \in Txs : Used(snap[t].usage) = {}
  BY DEF QuotaInit, Used, Now, NoUsage
<1> QED
  BY <1>4, <1>5, FS_EmptySet DEF FiniteUse

LEMMA QuotaTypesInductive ==
  ASSUME QuotaTypeOK, FiniteUse, [QuotaNext]_quotaVars
  PROVE  QuotaTypeOK' /\ FiniteUse'
<1> USE DEF committed, env, locks, local, Go
<1>1. ASSUME NEW t \in Txs, Begin(t) PROVE QuotaTypeOK' /\ FiniteUse'
  <2>1. UNCHANGED <<plan, period, usage, pkg, tenant>> /\ Now' = Now
    BY <1>1 DEF Begin, Now
  <2>2. snap' = [snap EXCEPT ![t] = Now]
    BY <1>1 DEF Begin
  <2>3. FiniteUse'
    BY <2>1, <2>2 DEF FiniteUse, Used, Now, QuotaTypeOK
  <2>4. QuotaTypeOK'
    BY ZenonT(60), <1>1, <2>1, <2>2 DEF Begin, QuotaTypeOK, Databases
  <2> QED
    BY <2>3, <2>4
<1>2. ASSUME NEW t \in Txs, EnsureFound(t) PROVE QuotaTypeOK' /\ FiniteUse'
  <2> DEFINE row == snap[t].period[Target(t)]
             p == snap[t].plan
             synced == [row EXCEPT !.limit = SyncedLimit(p, row), !.unlimited = (p = Unlimited)]
  <2>1. row \in PeriodRows /\ p \in tenant.offer /\ Target(t) \in Months
    BY TargetMonth DEF QuotaTypeOK, Databases
  <2>2. synced \in PeriodRows
    BY <2>1, LimitIsNat DEF SyncedLimit, PeriodRows
  <2>3. /\ UNCHANGED <<committed, env, lockK, lockD, snap, at, result>>
        /\ \/ UNCHANGED <<lockP, own>>
           \/ /\ lockP' = [lockP EXCEPT ![Target(t)] = t]
              /\ own' = [own EXCEPT ![t].period = synced]
        /\ pc' = [pc EXCEPT ![t] = AfterEnsure(t, synced.unlimited)]
    BY <1>2 DEF EnsureFound
  <2> HIDE DEF synced
  <2>4. own' \in [Txs -> Writes]
    <3>1. CASE own' = own
      BY <3>1 DEF QuotaTypeOK, Writes
    <3>2. CASE own' = [own EXCEPT ![t].period = synced]
      <4>1. own \in [Txs -> Writes]
        BY DEF QuotaTypeOK, Writes
      <4>2. [own[t] EXCEPT !.period = synced] \in Writes
        BY <2>2, <4>1, WritesType
      <4> QED
        BY <3>2, <4>1, <4>2
    <3> QED
      BY <2>3, <3>1, <3>2
  <2>5. QuotaTypeOK'
    <3>1. AfterEnsure(t, synced.unlimited) \in {"lock", "record", "commit"}
      BY DEF AfterEnsure
    <3>2. lockP' \in [Months -> Txs \cup {None}]
      BY <2>3 DEF QuotaTypeOK
    <3>3. Now' = Now /\ tenant' = tenant
      BY <2>3 DEF Now
    <3> QED
      BY <2>3, <2>4, <3>1, <3>2, <3>3 DEF QuotaTypeOK, Databases, Writes
  <2> QED
    BY <2>3, <2>5 DEF FiniteUse
<1>3. ASSUME NEW t \in Txs, EnsureCreates(t) PROVE QuotaTypeOK' /\ FiniteUse'
  <2> DEFINE row == [exists |-> TRUE, unlimited |-> snap[t].plan = Unlimited,
                     limit |-> LimitOf(snap[t].plan), used |-> AlreadyUsed(t)]
  <2>1. row \in PeriodRows
    BY LimitIsNat, AlreadyUsedType DEF QuotaTypeOK, Databases, PeriodRows
  <2>2. /\ UNCHANGED <<committed, env, lockK, lockD, snap, at, result>>
        /\ lockP' = [lockP EXCEPT ![Target(t)] = t]
        /\ own' = [own EXCEPT ![t].period = row]
        /\ pc' = [pc EXCEPT ![t] = AfterEnsure(t, snap[t].plan = Unlimited)]
    BY <1>3 DEF EnsureCreates
  <2> HIDE DEF row
  <2>3. own' \in [Txs -> Writes]
    BY ZenonT(60), <2>1, <2>2, WritesType DEF QuotaTypeOK, Writes
  <2>4. QuotaTypeOK'
    BY <2>2, <2>3 DEF QuotaTypeOK, AfterEnsure, Now, Databases, Writes
  <2> QED
    BY <2>2, <2>4 DEF FiniteUse
<1>4. ASSUME NEW t \in Txs, EnsureLoses(t) \/ Exceeded(t) \/ RecordDuplicate(t) \/ Fail(t)
      PROVE  QuotaTypeOK' /\ FiniteUse'
  BY <1>4, RollbackTypes DEF EnsureLoses, Exceeded, RecordDuplicate, Fail
<1>5. ASSUME NEW t \in Txs, LockPeriod(t) PROVE QuotaTypeOK' /\ FiniteUse'
  BY <1>5 DEF LockPeriod, QuotaTypeOK, FiniteUse, Now, Databases
<1>6. ASSUME NEW t \in Txs, ConsumePlan(t) PROVE QuotaTypeOK' /\ FiniteUse'
  <2>1. own' \in [Txs -> Writes]
    BY <1>6, WritesType DEF ConsumePlan, QuotaTypeOK, Writes
  <2> QED
    BY <1>6, <2>1 DEF ConsumePlan, QuotaTypeOK, FiniteUse, Now, Databases, Writes
<1>7. ASSUME NEW t \in Txs, ConsumePackage(t) PROVE QuotaTypeOK' /\ FiniteUse'
  <2>1. own' \in [Txs -> Writes] /\ lockK' \in [Packages -> Txs \cup {None}]
    <3>1. PICK p \in Packages : own' = [own EXCEPT ![t].pkg = p]
      BY <1>7 DEF ConsumePackage, Usable
    <3>2. own \in [Txs -> Writes]
      BY DEF QuotaTypeOK, Writes
    <3>3. [own[t] EXCEPT !.pkg = p] \in Writes
      BY <3>2, WritesType
    <3> QED
      BY <1>7, <3>1, <3>2, <3>3 DEF ConsumePackage
  <2> QED
    BY <1>7, <2>1 DEF ConsumePackage, QuotaTypeOK, FiniteUse, Now, Databases, Writes
<1>8. ASSUME NEW t \in Txs, Record(t) PROVE QuotaTypeOK' /\ FiniteUse'
  <2> DEFINE row == [from |-> IF own[t].pkg = None THEN "plan_base" ELSE "package",
                     period |-> Target(t), month |-> month, pkg |-> own[t].pkg]
  <2>1. row \in UsageRows
    BY TargetMonth DEF QuotaTypeOK, UsageRows
  <2>2. /\ UNCHANGED <<committed, env, lockP, lockK, snap, at, result>>
        /\ lockD' = [lockD EXCEPT ![Doc[t]] = t]
        /\ own' = [own EXCEPT ![t].usage = row]
        /\ pc' = [pc EXCEPT ![t] = "commit"]
    BY <1>8 DEF Record
  <2> HIDE DEF row
  <2>3. own' \in [Txs -> Writes] /\ lockD' \in [Docs -> Txs \cup {None}]
    BY <2>1, <2>2, WritesType DEF QuotaTypeOK, Writes
  <2> QED
    BY <2>2, <2>3 DEF QuotaTypeOK, FiniteUse, Now, Databases, Writes
<1>9. ASSUME NEW t \in Txs, Commit(t) PROVE QuotaTypeOK' /\ FiniteUse'
  <2>1. period' \in [Months -> PeriodRows]
    <3>1. Counted(t) \in PeriodRows
      BY CurrentType DEF Counted, PeriodRows
    <3> QED
      BY <1>9, <3>1 DEF Commit, QuotaTypeOK, Now, Databases
  <2>2. usage' \in [Docs -> UsageRows]
    BY <1>9 DEF Commit, QuotaTypeOK, Now, Databases
  <2>3. pkg' \in [Packages -> PackageRows]
    <3>1. \A p \in Packages : Taken(pkg[p]) \in PackageRows
      BY PackageType DEF QuotaTypeOK, Now, Databases
    <3> QED
      BY <1>9, <3>1 DEF Commit, QuotaTypeOK, Now, Databases
  <2>4. UNCHANGED <<plan, env, snap, at>> /\ End(t, "ok")
    BY <1>9 DEF Commit
  <2>5. QuotaTypeOK'
    BY <2>1, <2>2, <2>3, <2>4, EndTypes DEF QuotaTypeOK, Now, Databases
  <2>6. Used(usage') \subseteq Used(usage) \cup {Doc[t]}
    BY <1>9 DEF Commit, Used, QuotaTypeOK, Now, Databases
  <2>7. IsFiniteSet(Used(usage'))
    BY <2>6, FS_AddElement, FS_Subset DEF FiniteUse
  <2> QED
    BY <2>4, <2>5, <2>7 DEF FiniteUse, Used
<1>10. CASE ChangePlan
  BY <1>10 DEF ChangePlan, QuotaTypeOK, FiniteUse, Now, Databases
<1>11. ASSUME NEW p \in Packages, Purchase(p) \/ Approve(p) \/ Reject(p)
       PROVE  QuotaTypeOK' /\ FiniteUse'
  <2>1. pkg' \in [Packages -> PackageRows]
    <3>1. pkg \in [Packages -> PackageRows]
      BY DEF QuotaTypeOK, Now, Databases
    <3>2. \E r \in PackageRows : pkg' = [pkg EXCEPT ![p] = r]
      <4>1. CASE Purchase(p)
        BY <3>1, <4>1, PackageType DEF Purchase
      <4>2. CASE Approve(p)
        <5>1. pkg' = [pkg EXCEPT ![p] = [pkg[p] EXCEPT !.status = "approved", !.remaining = Qty]]
          BY <3>1, <4>2 DEF Approve
        <5> QED
          BY <3>1, <5>1, PackageType
      <4>3. CASE Reject(p)
        BY <3>1, <4>3, PackageType DEF Reject
      <4> QED
        BY <1>11, <4>1, <4>2, <4>3
    <3> QED
      BY <3>1, <3>2
  <2> QED
    BY <1>11, <2>1 DEF Purchase, Approve, Reject, QuotaTypeOK, FiniteUse, Now, Databases
<1>12. CASE ExpirePackages
  <2>1. pkg' \in [Packages -> PackageRows]
    BY <1>12, PackageType DEF ExpirePackages, QuotaTypeOK, Now, Databases
  <2> QED
    BY <1>12, <2>1 DEF ExpirePackages, QuotaTypeOK, FiniteUse, Now, Databases
<1>13. CASE NextMonth
  BY <1>13, QuotaAssumption DEF NextMonth, QuotaTypeOK, FiniteUse, Now, Databases, Months
<1>14. CASE UNCHANGED quotaVars
  BY <1>14 DEF quotaVars, QuotaTypeOK, FiniteUse, Now, Databases
<1> QED
  BY <1>1, <1>2, <1>3, <1>4, <1>5, <1>6, <1>7, <1>8, <1>9, <1>10, <1>11, <1>12, <1>13, <1>14
  DEF QuotaNext, TxStep

\* Rows, locks, snapshots and transactions keep their types whatever they do;
\* in particular no limit a period takes from a plan is the code for unlimited.
THEOREM QuotaTypeCorrect == QuotaSpec => []QuotaTypeOK
<1>1. QuotaSpec => [](QuotaTypeOK /\ FiniteUse)
  BY QuotaTypesInitially, QuotaTypesInductive, PTL DEF QuotaSpec
<1> QED
  BY <1>1, PTL

-----------------------------------------------------------------------------
\* Transactions, their writes and their locks.

\* What a transaction that is about to commit has recorded for its document.
RecordedUsage(t) ==
  /\ own[t].usage.from = IF own[t].pkg = None THEN "plan_base" ELSE "package"
  /\ own[t].usage.period = Target(t)
  /\ own[t].usage.pkg = own[t].pkg

\* What a transaction has written when it reaches each of its statements: one
\* with a document, on a limited plan, records it with a slot or a package.
WritesOK(t) ==
  /\ pc[t] \in {"begin", "ensure", "done"} => own[t] = NoWrites
  /\ pc[t] \in {"lock", "consume"} => Doc[t] # None /\ ~own[t].slot /\ own[t].pkg = None
  /\ pc[t] = "record" => Doc[t] # None
  /\ own[t].slot => own[t].pkg = None
  /\ pc[t] \in {"record", "commit"} /\ Doc[t] # None /\ Unlimited \notin tenant.offer
       => own[t].slot \/ own[t].pkg # None
  /\ pc[t] = "commit" => IF Doc[t] = None THEN ~own[t].slot /\ own[t].pkg = None
                         ELSE RecordedUsage(t)

\* What a transaction wrote, or is deciding on, it holds the lock of.
LocksOK(t) ==
  /\ own[t].period.exists \/ own[t].slot \/ pc[t] = "consume" => lockP[Target(t)] = t
  /\ own[t].pkg # None => \A p \in Packages : lockK[p] = t
  /\ pc[t] = "commit" /\ Doc[t] # None => lockD[Doc[t]] = t /\ usage[Doc[t]].from = "none"

\* The transaction part of the invariant.
TxInv == \A t \in Txs : WritesOK(t) /\ LocksOK(t)

LEMMA NothingWritten ==
  /\ ~NoWrites.period.exists /\ NoWrites.period.used = 0
  /\ ~NoWrites.slot /\ NoWrites.pkg = None
BY DEF NoWrites, NoPeriod

\* Who does nothing, and keeps his locks and the row of his document, is as he was.
LEMMA BystanderOK ==
  ASSUME QuotaTypeOK, NEW u \in Txs, WritesOK(u), LocksOK(u),
         pc'[u] = pc[u], own'[u] = own[u], Target(u)' = Target(u), Doc' = Doc, tenant' = tenant,
         \A m \in Months : lockP[m] = u => lockP'[m] = u,
         own[u].pkg # None => \A p \in Packages : lockK[p] = u => lockK'[p] = u,
         \A d \in Docs : lockD[d] = u => lockD'[d] = u /\ usage'[d] = usage[d]
  PROVE  WritesOK(u)' /\ LocksOK(u)'
<1>1. WritesOK(u)'
  BY DEF WritesOK, RecordedUsage
<1>2. LocksOK(u)'
  BY TargetMonth DEF LocksOK
<1> QED
  BY <1>1, <1>2

\* A transaction's next statement, its writes and its locks, without commit.
Statement(t) ==
  \/ Begin(t) \/ EnsureFound(t) \/ EnsureCreates(t) \/ LockPeriod(t)
  \/ ConsumePlan(t) \/ ConsumePackage(t) \/ Record(t)

\* Every way a transaction ends.
Ending(t) ==
  EnsureLoses(t) \/ Exceeded(t) \/ RecordDuplicate(t) \/ Fail(t) \/ Commit(t)

LEMMA EndingEnds ==
  ASSUME QuotaTypeOK, NEW t \in Txs, Ending(t)
  PROVE  /\ pc' = [pc EXCEPT ![t] = "done"] /\ own' = [own EXCEPT ![t] = NoWrites]
         /\ UNCHANGED <<tenant, at>>
         /\ \A m \in Months : lockP'[m] = IF lockP[m] = t THEN None ELSE lockP[m]
         /\ \A p \in Packages : lockK'[p] = IF lockK[p] = t THEN None ELSE lockK[p]
         /\ \A d \in Docs : lockD'[d] = IF lockD[d] = t THEN None ELSE lockD[d]
BY DEF QuotaTypeOK, Ending, EnsureLoses, Exceeded, RecordDuplicate, Fail, Commit, Rollback,
       End, Go, Unlocked, env

\* The rows of documents are written by the commit of a transaction that
\* found them free and kept them so.
LEMMA UsageStep ==
  ASSUME QuotaTypeOK, TxInv, NEW t \in Txs, Ending(t)
  PROVE  /\ usage' = usage \/ (Doc[t] # None /\ usage' = [usage EXCEPT ![Doc[t]] = own[t].usage])
         /\ \A d \in Docs : usage'[d] # usage[d] => d = Doc[t] /\ lockD[d] = t /\ Commit(t)
<1>1. CASE Commit(t)
  BY <1>1 DEF Commit, TxInv, LocksOK, QuotaTypeOK, Now, Databases
<1>2. CASE EnsureLoses(t) \/ Exceeded(t) \/ RecordDuplicate(t) \/ Fail(t)
  BY <1>2 DEF EnsureLoses, Exceeded, RecordDuplicate, Fail, Rollback, committed
<1> QED
  BY <1>1, <1>2 DEF Ending

LEMMA EndingTxInv ==
  ASSUME QuotaTypeOK, TxInv, NEW t \in Txs, Ending(t)
  PROVE  TxInv'
<1>1. \A u \in Txs \ {t} : pc'[u] = pc[u] /\ own'[u] = own[u] /\ Target(u)' = Target(u)
  BY EndingEnds DEF QuotaTypeOK, Target
<1>2. pc'[t] = "done" /\ own'[t] = NoWrites /\ Doc' = Doc /\ tenant' = tenant
  BY EndingEnds DEF QuotaTypeOK, Doc
<1>3. ASSUME NEW u \in Txs \ {t} PROVE WritesOK(u)' /\ LocksOK(u)'
  <2>1. \A d \in Docs : lockD[d] = u => lockD'[d] = u /\ usage'[d] = usage[d]
    BY EndingEnds, UsageStep
  <2> QED
    BY <1>1, <1>2, <2>1, EndingEnds, BystanderOK DEF TxInv
<1>4. WritesOK(t)' /\ LocksOK(t)'
  BY <1>2, NothingWritten DEF WritesOK, LocksOK
<1> QED
  BY <1>3, <1>4 DEF TxInv

LEMMA StatementTxInv ==
  ASSUME QuotaTypeOK, TxInv, NEW t \in Txs, Statement(t)
  PROVE  TxInv'
<1> USE DEF committed, env, locks, local, Go
<1>0. /\ UNCHANGED <<tenant, usage>> /\ Doc' = Doc
      /\ \A u \in Txs \ {t} : pc'[u] = pc[u] /\ own'[u] = own[u] /\ Target(u)' = Target(u)
      /\ Target(t) \in Months /\ Doc[t] \in Docs \cup {None}
      /\ None \notin Txs /\ None \notin Packages
  BY TargetMonth, QuotaAssumption
  DEF QuotaTypeOK, Statement, Begin, EnsureFound, EnsureCreates, LockPeriod, ConsumePlan,
      ConsumePackage, Record, Target, Doc
<1>1. /\ \A m \in Months : lockP'[m] # lockP[m] => lockP[m] \in {None, t}
      /\ \A p \in Packages : lockK'[p] # lockK[p] => lockK[p] \in {None, t}
      /\ \A d \in Docs : lockD'[d] # lockD[d] => lockD[d] \in {None, t}
  BY <1>0
  DEF QuotaTypeOK, Statement, Begin, EnsureFound, EnsureCreates, LockPeriod, ConsumePlan,
      ConsumePackage, Record, Free
<1>2. ASSUME NEW u \in Txs \ {t} PROVE WritesOK(u)' /\ LocksOK(u)'
  BY <1>0, <1>1, BystanderOK DEF TxInv
<1>3. SUFFICES WritesOK(t)' /\ LocksOK(t)'
  BY <1>2 DEF TxInv
<1>4. WritesOK(t) /\ LocksOK(t)
  BY DEF TxInv
<1>5. CASE Begin(t)
  <2>1. /\ pc[t] = "begin" /\ pc'[t] \in {"ensure", "done"}
        /\ UNCHANGED <<own, lockP, lockK, lockD>>
    BY <1>5 DEF Begin, QuotaTypeOK
  <2>2. own'[t] = NoWrites
    BY <1>4, <2>1 DEF WritesOK
  <2> QED
    BY <2>1, <2>2, NothingWritten DEF WritesOK, LocksOK
<1>6. CASE EnsureFound(t) \/ EnsureCreates(t)
  <2>0. own[t] = NoWrites
    BY <1>4, <1>6 DEF EnsureFound, EnsureCreates, WritesOK
  <2>1. /\ UNCHANGED <<lockK, lockD, at>>
        /\ pc'[t] \in IF Doc[t] = None THEN {"commit"} ELSE {"lock", "record"}
        /\ Unlimited \notin tenant.offer => pc'[t] # "record"
    <3>1. snap[t].plan \in tenant.offer /\ snap[t].period[Target(t)] \in PeriodRows
      BY <1>0 DEF QuotaTypeOK, Databases
    <3>2. UNCHANGED <<lockK, lockD, at>> /\ pc'[t] = AfterEnsure(t, snap[t].plan = Unlimited)
      <4>1. CASE EnsureFound(t)
        BY <3>1, <4>1 DEF EnsureFound, QuotaTypeOK, PeriodRows
      <4>2. CASE EnsureCreates(t)
        BY <4>2 DEF EnsureCreates, QuotaTypeOK
      <4> QED
        BY <1>6, <4>1, <4>2
    <3> QED
      BY <3>1, <3>2 DEF AfterEnsure
  <2>2. ~own'[t].slot /\ own'[t].pkg = None
    BY <1>6, <2>0, NothingWritten DEF EnsureFound, EnsureCreates, QuotaTypeOK
  <2>3. Target(t)' = Target(t)
    BY <2>1 DEF Target
  <2>4. own'[t].period.exists => lockP'[Target(t)] = t
    BY <1>0, <1>6, <2>0, NothingWritten DEF EnsureFound, EnsureCreates, QuotaTypeOK
  <2> QED
    BY <1>0, <2>1, <2>2, <2>3, <2>4 DEF WritesOK, LocksOK
<1>7. CASE LockPeriod(t)
  <2>1. /\ UNCHANGED <<own, lockK, lockD, at>> /\ pc[t] = "lock" /\ pc'[t] = "consume"
        /\ lockP'[Target(t)] = t
    BY <1>0, <1>7 DEF LockPeriod, QuotaTypeOK
  <2>2. Target(t)' = Target(t)
    BY <2>1 DEF Target
  <2> QED
    BY <1>0, <1>4, <2>1, <2>2 DEF WritesOK, LocksOK
<1>8. CASE ConsumePlan(t)
  <2>1. /\ UNCHANGED <<lockP, lockK, lockD, at>> /\ pc[t] = "consume" /\ pc'[t] = "record"
        /\ own'[t].slot /\ own'[t].pkg = own[t].pkg /\ own'[t].period = own[t].period
    BY <1>8 DEF ConsumePlan, QuotaTypeOK
  <2>2. Target(t)' = Target(t)
    BY <2>1 DEF Target
  <2> QED
    BY <1>0, <1>4, <2>1, <2>2 DEF WritesOK, LocksOK
<1>9. CASE ConsumePackage(t)
  <2>1. /\ UNCHANGED <<lockP, lockD, at>> /\ pc[t] = "consume" /\ pc'[t] = "record"
        /\ own'[t].slot = own[t].slot /\ own'[t].pkg \in Packages
        /\ own'[t].period = own[t].period
        /\ \A p \in Packages : lockK'[p] = t
    BY <1>9 DEF ConsumePackage, QuotaTypeOK, Usable
  <2>2. Target(t)' = Target(t)
    BY <2>1 DEF Target
  <2> QED
    BY <1>0, <1>4, <2>1, <2>2 DEF WritesOK, LocksOK
<1>10. CASE Record(t)
  <2>1. /\ UNCHANGED <<lockP, lockK, at>> /\ pc[t] = "record" /\ pc'[t] = "commit"
        /\ own'[t].slot = own[t].slot /\ own'[t].pkg = own[t].pkg
        /\ own'[t].period = own[t].period
        /\ own'[t].usage = [from |-> IF own[t].pkg = None THEN "plan_base" ELSE "package",
                            period |-> Target(t), month |-> month, pkg |-> own[t].pkg]
        /\ usage[Doc[t]].from = "none"
    BY <1>10 DEF Record, QuotaTypeOK
  <2>2. Target(t)' = Target(t) /\ Doc[t] \in Docs
    BY <1>0, <1>4, <2>1 DEF Target, WritesOK
  <2>3. lockD'[Doc[t]] = t
    BY <1>10, <2>2 DEF Record, QuotaTypeOK
  <2>4. RecordedUsage(t)'
    BY <2>1, <2>2 DEF RecordedUsage
  <2> QED
    BY <1>0, <1>4, <2>1, <2>2, <2>3, <2>4 DEF WritesOK, LocksOK
<1> QED
  BY <1>5, <1>6, <1>7, <1>8, <1>9, <1>10 DEF Statement

\* The rest of the system touches no transaction.
Outside ==
  \/ \E p \in Packages : Purchase(p) \/ Approve(p) \/ Reject(p)
  \/ ChangePlan \/ ExpirePackages \/ NextMonth \/ UNCHANGED quotaVars

LEMMA OutsideStays ==
  ASSUME Outside
  PROVE  UNCHANGED <<tenant, period, usage, locks, pc, local>>
BY DEF Outside, Purchase, Approve, Reject, ChangePlan, ExpirePackages, NextMonth, quotaVars,
       committed, env, locks, local

LEMMA QuotaSteps ==
  ASSUME [QuotaNext]_quotaVars
  PROVE  (\E t \in Txs : Statement(t) \/ Ending(t)) \/ Outside
BY DEF QuotaNext, TxStep, Statement, Ending, Outside

LEMMA TxInductive ==
  ASSUME QuotaTypeOK, TxInv, [QuotaNext]_quotaVars
  PROVE  TxInv'
<1>1. CASE Outside
  BY <1>1, OutsideStays
  DEF TxInv, WritesOK, LocksOK, RecordedUsage, Target, Doc, locks, local
<1> QED
  BY <1>1, QuotaSteps, StatementTxInv, EndingTxInv

LEMMA TxInitially == QuotaInit => TxInv
BY DEF QuotaInit, TxInv, WritesOK, LocksOK, NoWrites, NoPeriod

-----------------------------------------------------------------------------
\* Packages.

\* Documents taken from a package.
TakenFrom(p) == {d \in Docs : usage[d].pkg = p}

\* A transaction that is taking a document from a package finds it approved
\* and not empty; a package that was never approved has had nothing taken;
\* and a document without a row has no package.
PackageInv ==
  /\ \A t \in Txs : own[t].pkg # None =>
       pkg[own[t].pkg].status = "approved" /\ pkg[own[t].pkg].remaining > 0
  /\ \A p \in Packages :
       pkg[p].status \in {"none", "pending_review", "rejected"} => pkg[p].used = 0
  /\ \A d \in Docs : usage[d].from = "none" => usage[d].pkg = None
  /\ PackagesBalance

LEMMA TakenFinite ==
  ASSUME PackageInv, FiniteUse, NEW p \in Packages
  PROVE  IsFiniteSet(TakenFrom(p))
<1>1. TakenFrom(p) \subseteq Used(usage)
  BY QuotaAssumption DEF TakenFrom, Used, PackageInv
<1> QED
  BY <1>1, FS_Subset DEF FiniteUse

\* The part of the invariant about one row and the documents taken from it.
Balanced(row, n) ==
  /\ row.used = n
  /\ row.status \in {"none", "pending_review", "rejected"} => row.used = 0
  /\ IF row.status = "approved" THEN row.used + row.remaining = Qty /\ row.remaining >= 0
     ELSE row.remaining = 0

LEMMA PackageInvParts ==
  PackageInv <=>
    /\ \A t \in Txs : own[t].pkg # None =>
         pkg[own[t].pkg].status = "approved" /\ pkg[own[t].pkg].remaining > 0
    /\ \A d \in Docs : usage[d].from = "none" => usage[d].pkg = None
    /\ \A p \in Packages : Balanced(pkg[p], Cardinality(TakenFrom(p)))
BY DEF PackageInv, PackagesBalance, Balanced, TakenFrom

LEMMA CommitBalances ==
  ASSUME QuotaTypeOK, FiniteUse, TxInv, PackageInv, NEW t \in Txs, Commit(t)
  PROVE  PackageInv'
<1>0. WritesOK(t) /\ LocksOK(t) /\ pc[t] = "commit" /\ QuotaTypeOK
  BY DEF TxInv, Commit
<1>1. /\ \A p \in Packages : pkg'[p] = IF own[t].pkg = p THEN Taken(pkg[p]) ELSE pkg[p]
      /\ usage' = IF Doc[t] = None THEN usage ELSE [usage EXCEPT ![Doc[t]] = own[t].usage]
      /\ own' = [own EXCEPT ![t] = NoWrites]
  BY DEF Commit, End
<1>2. own[t].pkg \in Packages \cup {None} /\ Doc[t] \in Docs \cup {None} /\ None \notin Packages
      /\ usage \in [Docs -> UsageRows] /\ pkg \in [Packages -> PackageRows]
  BY TargetMonth, QuotaAssumption DEF QuotaTypeOK, Now, Databases
<1>3. \A d \in Docs : d = Doc[t] =>
        /\ usage[d].pkg = None /\ usage'[d].pkg = own[t].pkg /\ usage'[d].from # "none"
  <2>1. ASSUME Doc[t] \in Docs
        PROVE  /\ usage[Doc[t]].pkg = None /\ usage'[Doc[t]].pkg = own[t].pkg
               /\ usage'[Doc[t]].from # "none"
    <3>1. Doc[t] # None
      BY <2>1, QuotaAssumption
    <3>2. usage[Doc[t]].pkg = None
      BY <1>0, <2>1, <3>1 DEF LocksOK, PackageInv
    <3>3. RecordedUsage(t) /\ usage'[Doc[t]] = own[t].usage
      BY <1>0, <1>1, <1>2, <2>1, <3>1 DEF WritesOK
    <3> QED
      BY <3>2, <3>3 DEF RecordedUsage
  <2> QED
    BY <2>1
<1>4. \A d \in Docs : d # Doc[t] => usage'[d] = usage[d]
  BY <1>1, <1>2
<1>5. ASSUME NEW u \in Txs, own'[u].pkg # None
      PROVE  pkg'[own'[u].pkg].status = "approved" /\ pkg'[own'[u].pkg].remaining > 0
  <2>1. u # t /\ own'[u] = own[u] /\ own[u].pkg \in Packages
    BY <1>1, <1>2, <1>5, NothingWritten DEF QuotaTypeOK
  <2>2. lockK[own[u].pkg] = u
    BY <1>5, <2>1 DEF TxInv, LocksOK
  <2>3. own[t].pkg = None
    BY <1>0, <1>2, <2>1, <2>2 DEF LocksOK
  <2> QED
    BY <1>1, <1>2, <1>5, <2>1, <2>3 DEF PackageInv
<1>6. \A d \in Docs : usage'[d].from = "none" => usage'[d].pkg = None
  BY <1>3, <1>4 DEF PackageInv
<1>7. ASSUME NEW p \in Packages
      PROVE  Balanced(pkg'[p], Cardinality(TakenFrom(p)'))
  <2>1. CASE own[t].pkg = p
    <3>1. Doc[t] \in Docs
      BY <1>0, <1>2, <2>1 DEF WritesOK
    <3>2. TakenFrom(p)' = TakenFrom(p) \cup {Doc[t]} /\ Doc[t] \notin TakenFrom(p)
      <4>1. \A d \in Docs : usage'[d].pkg = p <=> usage[d].pkg = p \/ d = Doc[t]
        BY <1>3, <1>4, <2>1
      <4>2. usage[Doc[t]].pkg # p
        BY <1>2, <1>3, <3>1
      <4> QED
        BY <3>1, <4>1, <4>2 DEF TakenFrom
    <3>3. Cardinality(TakenFrom(p)') = Cardinality(TakenFrom(p)) + 1
      BY <3>2, TakenFinite, FS_AddElement
    <3>4. /\ pkg[p].status = "approved" /\ pkg[p].remaining > 0 /\ pkg[p].remaining \in Int
          /\ pkg[p].used \in Nat /\ Balanced(pkg[p], Cardinality(TakenFrom(p)))
      BY <1>2, <2>1, PackageInvParts DEF PackageInv, PackageRows
    <3>5. /\ pkg'[p].status = "approved" /\ pkg'[p].used = pkg[p].used + 1
          /\ pkg'[p].remaining = pkg[p].remaining - 1
      BY <1>1, <1>2, <2>1, <3>4 DEF Taken, PackageRows
    <3> QED
      BY <3>3, <3>4, <3>5, QuotaAssumption DEF Balanced
  <2>2. CASE own[t].pkg # p
    <3>1. TakenFrom(p)' = TakenFrom(p)
      <4>1. \A d \in Docs : usage'[d].pkg = p <=> usage[d].pkg = p
        BY <1>2, <1>3, <1>4, <2>2
      <4> QED
        BY <4>1 DEF TakenFrom
    <3> QED
      BY <1>1, <2>2, <3>1, PackageInvParts
  <2> QED
    BY <2>1, <2>2
<1> QED
  BY <1>5, <1>6, <1>7 DEF PackageInv, PackagesBalance, Balanced, TakenFrom

LEMMA PackageInductive ==
  ASSUME QuotaTypeOK, QuotaTypeOK', FiniteUse, TxInv, PackageInv, [QuotaNext]_quotaVars
  PROVE  PackageInv'
<1> USE DEF committed, env, locks, local, Go
<1>0. pkg \in [Packages -> PackageRows] /\ None \notin Packages /\ None \notin Txs
  BY QuotaAssumption DEF QuotaTypeOK, Now, Databases
<1>1. ASSUME NEW t \in Txs, Ending(t) PROVE PackageInv'
  <2>1. CASE Commit(t)
    BY <2>1, CommitBalances
  <2>2. CASE EnsureLoses(t) \/ Exceeded(t) \/ RecordDuplicate(t) \/ Fail(t)
    <3>1. UNCHANGED <<pkg, usage>> /\ \A u \in Txs : own'[u].pkg \in {own[u].pkg, None}
      <4>1. UNCHANGED <<pkg, usage>>
        BY <2>2 DEF EnsureLoses, Exceeded, RecordDuplicate, Fail, Rollback
      <4>2. own' = [own EXCEPT ![t] = NoWrites]
        BY <1>1, EndingEnds
      <4> QED
        BY <4>1, <4>2, NothingWritten DEF QuotaTypeOK
    <3> QED
      BY <3>1 DEF PackageInv, PackagesBalance
  <2> QED
    BY <1>1, <2>1, <2>2 DEF Ending
<1>2. ASSUME NEW t \in Txs, ConsumePackage(t) PROVE PackageInv'
  <2>1. /\ UNCHANGED <<pkg, usage>> /\ \A u \in Txs \ {t} : own'[u] = own[u]
        /\ own'[t].pkg \in Usable
    BY <1>2 DEF ConsumePackage, QuotaTypeOK, Usable
  <2> QED
    BY <2>1 DEF PackageInv, PackagesBalance, Usable
<1>3. ASSUME NEW t \in Txs,
             \/ Begin(t) \/ EnsureFound(t) \/ EnsureCreates(t) \/ LockPeriod(t)
             \/ ConsumePlan(t) \/ Record(t)
      PROVE  PackageInv'
  <2>1. UNCHANGED <<pkg, usage>> /\ \A u \in Txs : own'[u].pkg = own[u].pkg
    <3>0. CASE EnsureCreates(t)
      <4>1. UNCHANGED <<pkg, usage>> /\ \E row : own' = [own EXCEPT ![t].period = row]
        BY <3>0 DEF EnsureCreates
      <4> QED
        BY <4>1 DEF QuotaTypeOK
    <3>1. CASE Begin(t) \/ LockPeriod(t)
      BY <3>1 DEF Begin, LockPeriod
    <3>2. CASE EnsureFound(t)
      BY <3>2 DEF EnsureFound, QuotaTypeOK
    <3>3. CASE ConsumePlan(t) \/ Record(t)
      BY <3>3 DEF ConsumePlan, Record, QuotaTypeOK
    <3> QED
      BY <1>3, <3>0, <3>1, <3>2, <3>3
  <2> QED
    BY <2>1 DEF PackageInv, PackagesBalance
<1>4. ASSUME NEW p \in Packages, Purchase(p) \/ Approve(p) \/ Reject(p) PROVE PackageInv'
  <2>1. /\ UNCHANGED <<own, usage>> /\ \A q \in Packages \ {p} : pkg'[q] = pkg[q]
        /\ pkg[p].status \in {"none", "pending_review"}
        /\ pkg'[p].used = pkg[p].used
        /\ \/ pkg'[p].status = "approved" /\ pkg'[p].remaining = Qty
           \/ /\ pkg'[p].status \in {"pending_review", "rejected"}
              /\ pkg'[p].remaining = pkg[p].remaining
    <3>1. CASE Approve(p)
      <4>1. pkg' = [pkg EXCEPT ![p] = [pkg[p] EXCEPT !.status = "approved", !.remaining = Qty]]
        BY <1>0, <3>1 DEF Approve
      <4> QED
        BY <1>0, <3>1, <4>1 DEF Approve, PackageRows
    <3>2. CASE Purchase(p) \/ Reject(p)
      BY <1>0, <3>2 DEF Purchase, Reject, PackageRows
    <3> QED
      BY <1>4, <3>1, <3>2
  <2>2. Balanced(pkg'[p], Cardinality(TakenFrom(p)))
    BY <1>0, <2>1, PackageInvParts, QuotaAssumption DEF Balanced, PackageRows
  <2>3. \A q \in Packages : Balanced(pkg'[q], Cardinality(TakenFrom(q)))
    BY <2>1, <2>2, PackageInvParts
  <2>4. \A t \in Txs : own[t].pkg # None => own[t].pkg \in Packages \ {p}
    BY <2>1 DEF PackageInv, QuotaTypeOK
  <2>5. \A t \in Txs : own'[t].pkg # None =>
          pkg'[own'[t].pkg].status = "approved" /\ pkg'[own'[t].pkg].remaining > 0
    BY <2>1, <2>4 DEF PackageInv
  <2> QED
    BY ZenonT(60), <2>1, <2>3, <2>5 DEF PackageInv, PackagesBalance, Balanced, TakenFrom
<1>5. CASE ExpirePackages
  <2>1. /\ UNCHANGED <<own, usage>> /\ \A p \in Packages : lockK[p] = None
        /\ \A p \in Packages : pkg'[p] = IF pkg[p].status = "approved"
                                           THEN [pkg[p] EXCEPT !.status = "expired", !.remaining = 0]
                                           ELSE pkg[p]
    BY <1>5 DEF ExpirePackages
  <2>2. \A t \in Txs : own[t].pkg = None
    <3>1. ASSUME NEW t \in Txs, own[t].pkg # None PROVE FALSE
      <4>1. own[t].pkg \in Packages
        BY <3>1 DEF QuotaTypeOK
      <4>2. lockK[own[t].pkg] = t
        BY <3>1, <4>1 DEF TxInv, LocksOK
      <4> QED
        BY <1>0, <2>1, <4>1, <4>2
    <3> QED
      BY <3>1
  <2>3. ASSUME NEW p \in Packages PROVE Balanced(pkg'[p], Cardinality(TakenFrom(p)))
    <3>1. Balanced(pkg[p], Cardinality(TakenFrom(p)))
      BY PackageInvParts
    <3>2. CASE pkg[p].status = "approved"
      <4>1. pkg'[p].status = "expired" /\ pkg'[p].remaining = 0 /\ pkg'[p].used = pkg[p].used
        BY <1>0, <2>1, <3>2 DEF PackageRows
      <4> QED
        BY <3>1, <4>1 DEF Balanced
    <3>3. CASE pkg[p].status # "approved"
      BY <2>1, <3>1, <3>3
    <3> QED
      BY <3>2, <3>3
  <2> QED
    BY <2>1, <2>2, <2>3 DEF PackageInv, PackagesBalance, Balanced, TakenFrom
<1>6. CASE ChangePlan \/ NextMonth \/ UNCHANGED quotaVars
  <2>1. UNCHANGED <<pkg, usage, own>>
    BY <1>6 DEF ChangePlan, NextMonth, quotaVars
  <2> QED
    BY <2>1 DEF PackageInv, PackagesBalance
<1> QED
  BY <1>1, <1>2, <1>3, <1>4, <1>5, <1>6, QuotaSteps DEF Statement, Outside

LEMMA PackageInitially == QuotaInit => PackageInv
<1> SUFFICES ASSUME QuotaInit PROVE PackageInv
  OBVIOUS
<1>1. \A t \in Txs : own[t].pkg = None
  BY NothingWritten DEF QuotaInit
<1>2. \A d \in Docs : usage[d].pkg = None
  BY DEF QuotaInit, NoUsage
<1>3. \A p \in Packages : TakenFrom(p) = {}
  BY <1>2, QuotaAssumption DEF TakenFrom
<1>4. \A p \in Packages : Balanced(pkg[p], Cardinality(TakenFrom(p)))
  BY <1>3, FS_EmptySet DEF QuotaInit, Balanced
<1> QED
  BY <1>1, <1>2, <1>4, PackageInvParts

\* However the reservations, the approvals and the expiry of packages
\* interleave, a package's counters agree with the documents taken from it.
THEOREM PackagesAlwaysBalance == QuotaSpec => []PackagesBalance
<1>1. QuotaSpec => [](QuotaTypeOK /\ FiniteUse)
  BY QuotaTypesInitially, QuotaTypesInductive, PTL DEF QuotaSpec
<1>2. PackageInv => PackagesBalance
  BY DEF PackageInv
<1> QED
  BY <1>1, <1>2, TxInitially, TxInductive, PackageInitially, PackageInductive, PTL DEF QuotaSpec

-----------------------------------------------------------------------------
\* The slots of the plan.

\* A limit within the plans the tenant may have, or one nothing is left of.
Fits(row) == row.limit <= row.used \/ \E limit \in tenant.offer : row.limit <= limit

\* What of the invariant holds only where no plan is unlimited: every limit a
\* transaction can see is within a plan's or exhausted, and no consumption is
\* lost or past a plan's limit.
LimitedInv ==
  /\ \A m \in Months : Fits(period[m]) /\ period[m].used >= Cardinality(Charged(m))
  /\ \A t \in Txs : Fits(Current(t))
  /\ \A m \in Months : \E limit \in tenant.offer : Cardinality(Charged(m)) <= limit

\* Consumption only grows, also over what the snapshots saw of it, and a slot
\* that is being taken is below the limit.
PlanInv ==
  /\ \A m \in Months : ~period[m].exists => period[m].used = 0 /\ period[m].limit = 0
  /\ \A t \in Txs, m \in Months : snap[t].period[m].used <= period[m].used
  /\ \A t \in Txs : own[t].slot => Current(t).used < Current(t).limit
  /\ Unlimited \notin tenant.offer => LimitedInv

LEMMA ChargedFinite ==
  ASSUME FiniteUse, NEW m \in Months
  PROVE  IsFiniteSet(Charged(m)) /\ Cardinality(Charged(m)) \in Nat
<1>1. Charged(m) \subseteq Used(usage)
  BY DEF Charged, Used
<1> QED
  BY <1>1, FS_Subset, FS_CardinalityType DEF FiniteUse

\* A transaction sees no less consumed than the database holds.
LEMMA CurrentUsed ==
  ASSUME QuotaTypeOK, PlanInv, NEW t \in Txs
  PROVE  Current(t).used >= period[Target(t)].used
<1> DEFINE w == own[t].period
           c == period[Target(t)]
<1>1. w \in PeriodRows /\ c \in PeriodRows /\ (~c.exists => c.used = 0)
  BY TargetMonth DEF QuotaTypeOK, Now, Databases, PlanInv
<1>2. Current(t) = IF c.exists /\ w.exists
                     THEN [c EXCEPT !.limit = w.limit, !.unlimited = w.unlimited]
                     ELSE IF w.exists THEN w ELSE c
  BY DEF Current
<1> HIDE DEF w, c
<1>3. [c EXCEPT !.limit = w.limit, !.unlimited = w.unlimited].used = c.used
  BY <1>1 DEF PeriodRows
<1>4. Current(t).used >= c.used
  BY <1>1, <1>2, <1>3 DEF PeriodRows
<1> QED
  BY <1>4 DEF c

\* Whoever holds a period's lock is the only one that can change its row.
LEMMA CommitKeeps ==
  ASSUME QuotaTypeOK, TxInv, NEW t \in Txs, Commit(t), NEW u \in Txs \ {t},
         lockP[Target(u)] = u
  PROVE  period'[Target(u)] = period[Target(u)]
<1>1. period' = [period EXCEPT ![Target(t)] = Counted(t)]
  BY DEF Commit
<1>2. period \in [Months -> PeriodRows] /\ Target(t) \in Months /\ Target(u) \in Months
  BY TargetMonth DEF QuotaTypeOK, Now, Databases
<1>3. CASE Target(t) = Target(u)
  <2>1. ~own[t].period.exists /\ ~own[t].slot
    BY <1>3 DEF TxInv, LocksOK
  <2>2. Counted(t) = [period[Target(t)] EXCEPT !.used = @ + 0]
    BY <2>1 DEF Counted, Current
  <2>3. [period[Target(t)] EXCEPT !.used = @ + 0] = period[Target(t)]
    BY <1>2 DEF PeriodRows
  <2> QED
    BY <1>1, <1>2, <1>3, <2>2, <2>3
<1>4. CASE Target(t) # Target(u)
  BY <1>1, <1>2, <1>4
<1> QED
  BY <1>3, <1>4

\* What is committed, field by field.
LEMMA CountedFields ==
  ASSUME QuotaTypeOK, NEW t \in Txs
  PROVE  /\ Counted(t).used = Current(t).used + (IF own[t].slot THEN 1 ELSE 0)
         /\ Counted(t).limit = Current(t).limit
         /\ Counted(t).exists = Current(t).exists
BY CurrentType DEF Counted, PeriodRows

\* The documents charged to each month after a commit.
LEMMA CommitCharges ==
  ASSUME QuotaTypeOK, FiniteUse, TxInv, NEW t \in Txs, Commit(t), NEW m \in Months,
         Unlimited \notin tenant.offer
  PROVE  LET n == IF m = Target(t) /\ own[t].slot THEN 1 ELSE 0
         IN Cardinality(Charged(m)') <= Cardinality(Charged(m)) + n
<1>1. WritesOK(t) /\ pc[t] = "commit" /\ Doc[t] \in Docs \cup {None}
  BY TargetMonth DEF TxInv, Commit
<1>2. usage' = IF Doc[t] = None THEN usage ELSE [usage EXCEPT ![Doc[t]] = own[t].usage]
  BY DEF Commit
<1>3. usage \in [Docs -> UsageRows]
  BY DEF QuotaTypeOK, Now, Databases
<1>4. CASE m = Target(t) /\ own[t].slot
  <2>1. Charged(m)' \subseteq Charged(m) \cup {Doc[t]}
    BY <1>2, <1>3 DEF Charged
  <2>2. IsFiniteSet(Charged(m) \cup {Doc[t]})
        /\ Cardinality(Charged(m) \cup {Doc[t]}) <= Cardinality(Charged(m)) + 1
    <3>1. IsFiniteSet(Charged(m)) /\ Cardinality(Charged(m)) \in Nat
      BY ChargedFinite
    <3>2. /\ IsFiniteSet(Charged(m) \cup {Doc[t]})
          /\ \/ Cardinality(Charged(m) \cup {Doc[t]}) = Cardinality(Charged(m)) + 1
             \/ Cardinality(Charged(m) \cup {Doc[t]}) = Cardinality(Charged(m))
      BY <3>1, FS_AddElement
    <3> QED
      BY <3>1, <3>2
  <2>3. /\ Cardinality(Charged(m)') <= Cardinality(Charged(m) \cup {Doc[t]})
        /\ IsFiniteSet(Charged(m)')
    BY <2>1, <2>2, FS_Subset
  <2>4. Cardinality(Charged(m)') \in Nat /\ Cardinality(Charged(m) \cup {Doc[t]}) \in Nat
    BY <2>2, <2>3, FS_CardinalityType
  <2> QED
    BY <1>4, <2>2, <2>3, <2>4, ChargedFinite
<1>5. CASE ~(m = Target(t) /\ own[t].slot)
  <2>1. Charged(m)' \subseteq Charged(m)
    <3>1. ASSUME Doc[t] # None
          PROVE  ~(own[t].usage.from = "plan_base" /\ own[t].usage.period = m)
      BY <1>1, <1>5, <3>1 DEF WritesOK, RecordedUsage
    <3> QED
      BY <1>2, <1>3, <3>1 DEF Charged
  <2>2. IsFiniteSet(Charged(m)') /\ Cardinality(Charged(m)') <= Cardinality(Charged(m))
    BY <2>1, ChargedFinite, FS_Subset
  <2>3. Cardinality(Charged(m)') \in Nat
    BY <2>2, FS_CardinalityType
  <2> QED
    BY <1>5, <2>2, <2>3, ChargedFinite
<1> QED
  BY <1>4, <1>5

\* A commit counts what it charges.
LEMMA CommitPlan ==
  ASSUME QuotaTypeOK, QuotaTypeOK', FiniteUse, FiniteUse', TxInv, PlanInv, NEW t \in Txs, Commit(t)
  PROVE  PlanInv'
<1> DEFINE bump == IF own[t].slot THEN 1 ELSE 0
<1>0. /\ WritesOK(t) /\ bump \in Nat
      /\ Target(t) \in Months /\ Current(t) \in PeriodRows
      /\ Counted(t).used = Current(t).used + bump /\ Counted(t).limit = Current(t).limit
      /\ Counted(t).exists = Current(t).exists
  BY TargetMonth, CurrentType, CountedFields DEF TxInv
<1>1. /\ period' = [period EXCEPT ![Target(t)] = Counted(t)]
      /\ UNCHANGED <<tenant, snap, at>> /\ own' = [own EXCEPT ![t] = NoWrites]
  BY DEF Commit, End, env
<1>2. period \in [Months -> PeriodRows]
  BY DEF QuotaTypeOK, Now, Databases
<1>3. \A m \in Months : /\ period[m].used \in Nat /\ period[m].limit \in Nat
                        /\ period'[m].used \in Nat /\ period'[m].limit \in Nat
  BY DEF QuotaTypeOK, Now, Databases, PeriodRows
<1>4. /\ period'[Target(t)] = Counted(t)
      /\ \A m \in Months \ {Target(t)} : period'[m] = period[m]
  BY <1>0, <1>1, <1>2
<1>5. Current(t).used \in Nat /\ Current(t).limit \in Nat
      /\ Current(t).used >= period[Target(t)].used
  BY <1>0, CurrentUsed DEF PeriodRows
<1>6. ASSUME NEW m \in Months PROVE period'[m].used >= period[m].used
  <2>1. CASE m = Target(t)
    BY <1>0, <1>3, <1>4, <1>5, <2>1
  <2>2. CASE m # Target(t)
    BY <1>3, <1>4, <2>2
  <2> QED
    BY <2>1, <2>2
<1>7. \A m \in Months : ~period'[m].exists => period'[m].used = 0 /\ period'[m].limit = 0
  <2>1. ASSUME ~Current(t).exists
        PROVE  Current(t).used = 0 /\ Current(t).limit = 0 /\ ~own[t].slot
    <3>1. Current(t).used = 0 /\ Current(t).limit = 0
      BY <1>0, <1>2, <2>1 DEF Current, PlanInv, PeriodRows
    <3> QED
      BY <3>1 DEF PlanInv
  <2> QED
    BY <1>0, <1>4, <2>1 DEF PlanInv
<1>8. \A u \in Txs, m \in Months : snap'[u].period[m].used <= period'[m].used
  <2>1. \A u \in Txs, m \in Months : snap[u].period[m].used \in Nat
    BY DEF QuotaTypeOK, Databases, PeriodRows
  <2>2. \A u \in Txs, m \in Months : snap[u].period[m].used <= period[m].used
    BY DEF PlanInv
  <2> QED
    BY <1>1, <1>3, <1>6, <2>1, <2>2
<1>9. ASSUME NEW u \in Txs \ {t}, own[u].period.exists \/ own[u].slot
      PROVE  Current(u)' = Current(u)
  <2>1. lockP[Target(u)] = u
    BY <1>9 DEF TxInv, LocksOK
  <2>2. own'[u] = own[u] /\ Target(u)' = Target(u)
    BY <1>1 DEF QuotaTypeOK, Target
  <2> QED
    BY <2>1, <2>2, CommitKeeps DEF Current
<1>10. ASSUME NEW u \in Txs, ~own'[u].period.exists PROVE Current(u)' = period'[Target(u)']
  BY <1>10 DEF Current
<1>11. ~own'[t].slot /\ ~own'[t].period.exists
  BY <1>1, NothingWritten DEF QuotaTypeOK
<1>12. \A u \in Txs : own'[u].slot => Current(u)'.used < Current(u)'.limit
  <2>1. \A u \in Txs \ {t} : own'[u] = own[u]
    BY <1>1 DEF QuotaTypeOK
  <2> QED
    BY <1>9, <1>11, <2>1 DEF PlanInv
<1>13. ASSUME Unlimited \notin tenant'.offer PROVE LimitedInv'
  <2>0. LimitedInv /\ Unlimited \notin tenant.offer /\ tenant' = tenant
        /\ \A limit \in tenant.offer : limit \in Nat
    BY <1>1, <1>13, QuotaAssumption DEF PlanInv, QuotaTypeOK
  <2>1. ASSUME NEW m \in Months PROVE Fits(period[m])'
    <3>1. CASE m = Target(t)
      <4>1. Fits(Current(t))
        BY <2>0 DEF LimitedInv
      <4> QED
        BY <1>0, <1>4, <1>5, <2>0, <3>1, <4>1 DEF Fits
    <3>2. CASE m # Target(t)
      BY <1>4, <2>0, <3>2 DEF Fits, LimitedInv
    <3> QED
      BY <3>1, <3>2
  <2>2. ASSUME NEW u \in Txs PROVE Fits(Current(u))'
    <3>1. CASE own'[u].period.exists
      <4>1. u # t /\ own'[u] = own[u]
        BY <1>1, <1>11, <3>1 DEF QuotaTypeOK
      <4>2. Current(u)' = Current(u)
        BY <1>9, <3>1, <4>1
      <4> QED
        BY <2>0, <4>2 DEF LimitedInv, Fits
    <3>2. CASE ~own'[u].period.exists
      <4>1. Current(u)' = period'[Target(u)']
        BY <1>10, <3>2
      <4>2. Target(u)' = Target(u) /\ Target(u) \in Months
        BY <1>1, TargetMonth DEF Target
      <4>3. Fits(period[Target(u)])'
        <5>1. PICK m \in Months : m = Target(u)
          BY <4>2
        <5> QED
          BY <2>1, <4>2, <5>1 DEF Fits
      <4> QED
        BY <4>1, <4>3 DEF Fits
    <3> QED
      BY <3>1, <3>2
  <2>3. ASSUME NEW m \in Months
        PROVE  /\ period'[m].used >= Cardinality(Charged(m)')
               /\ \E limit \in tenant.offer : Cardinality(Charged(m)') <= limit
    <3>1. /\ Cardinality(Charged(m)) \in Nat /\ Cardinality(Charged(m)') \in Nat
          /\ period[m].used >= Cardinality(Charged(m))
      <4>1. IsFiniteSet(Used(usage)')
        BY DEF FiniteUse
      <4>2. Charged(m)' \subseteq Used(usage)'
        BY DEF Charged, Used
      <4>3. Cardinality(Charged(m)') \in Nat
        BY <4>1, <4>2, FS_Subset, FS_CardinalityType
      <4> QED
        BY <2>0, <4>3, ChargedFinite DEF LimitedInv
    <3>2. CASE m = Target(t) /\ own[t].slot
      <4>1. Cardinality(Charged(m)') <= Cardinality(Charged(m)) + 1
        BY <2>0, <3>2, CommitCharges
      <4>2. period'[m].used = Current(t).used + 1 /\ Current(t).used < Current(t).limit
        BY <1>0, <1>4, <3>2 DEF PlanInv
      <4>3. PICK limit \in tenant.offer : Current(t).limit <= limit
        BY <1>5, <2>0, <4>2 DEF LimitedInv, Fits
      <4>4. Cardinality(Charged(m)') <= Current(t).used + 1
        BY <1>3, <1>5, <3>1, <3>2, <4>1
      <4>5. Cardinality(Charged(m)') <= limit
        BY <1>5, <2>0, <3>1, <4>2, <4>3, <4>4
      <4> QED
        BY <4>2, <4>4, <4>5, <1>5, <3>1
    <3>3. CASE ~(m = Target(t) /\ own[t].slot)
      <4>1. Cardinality(Charged(m)') <= Cardinality(Charged(m))
        BY <2>0, <3>1, <3>3, CommitCharges
      <4>2. PICK limit \in tenant.offer : Cardinality(Charged(m)) <= limit
        BY <2>0 DEF LimitedInv
      <4>3. Cardinality(Charged(m)') <= limit
        BY <2>0, <3>1, <4>1, <4>2
      <4>4. period'[m].used >= Cardinality(Charged(m)')
        BY <1>3, <1>6, <3>1, <4>1
      <4> QED
        BY <4>3, <4>4
    <3> QED
      BY <3>2, <3>3
  <2> QED
    BY <2>0, <2>1, <2>2, <2>3 DEF LimitedInv, Charged
<1> QED
  BY <1>7, <1>8, <1>12, <1>13 DEF PlanInv

\* Steps that leave the rows and the limits where they are: what remains to
\* be shown is about the transaction that takes the step.
LEMMA PlanStays ==
  ASSUME QuotaTypeOK, QuotaTypeOK', PlanInv, UNCHANGED <<tenant, period, usage>>, NEW t \in Txs,
         \A u \in Txs \ {t} : own'[u] = own[u] /\ Target(u)' = Target(u) /\ snap'[u] = snap[u],
         \A m \in Months : snap'[t].period[m].used <= period[m].used,
         own'[t].slot => Current(t)'.used < Current(t)'.limit,
         Unlimited \notin tenant.offer => Fits(Current(t))'
  PROVE  PlanInv'
<1>1. \A u \in Txs \ {t} : Current(u)' = Current(u)
  BY DEF Current
<1>2. \A u \in Txs : own'[u].slot => Current(u)'.used < Current(u)'.limit
  BY <1>1 DEF PlanInv
<1>3. \A u \in Txs, m \in Months : snap'[u].period[m].used <= period'[m].used
  BY DEF PlanInv
<1>4. ASSUME Unlimited \notin tenant'.offer PROVE LimitedInv'
  <2>1. LimitedInv /\ Fits(Current(t))'
    BY <1>4 DEF PlanInv
  <2>2. \A u \in Txs : Fits(Current(u))'
    BY <1>1, <2>1 DEF LimitedInv, Fits
  <2> QED
    BY <2>1, <2>2 DEF LimitedInv, Fits, Charged
<1> QED
  BY <1>2, <1>3, <1>4 DEF PlanInv

\* A transaction without writes of its own sees the database's row.
LEMMA PlainFits ==
  ASSUME PlanInv, NEW t \in Txs, ~own'[t].period.exists, period' = period, tenant' = tenant,
         Target(t)' \in Months, Unlimited \notin tenant.offer
  PROVE  Fits(Current(t))'
<1>1. Current(t)' = period[Target(t)']
  BY DEF Current
<1>2. Fits(period[Target(t)'])
  BY DEF PlanInv, LimitedInv
<1> QED
  BY <1>1, <1>2 DEF Fits

\* The limit a transaction takes from a plan is that of the plan, or nothing
\* is left of it.
LEMMA SyncedFits ==
  ASSUME QuotaTypeOK, FiniteUse, PlanInv, TxInv, NEW t \in Txs, EnsureFound(t) \/ EnsureCreates(t),
         Unlimited \notin tenant.offer
  PROVE  Fits(Current(t))'
<1> USE DEF committed, env
<1>0. /\ snap[t].plan \in tenant.offer /\ snap[t].plan # Unlimited /\ snap[t].plan \in Nat
      /\ Target(t) \in Months /\ Target(t)' = Target(t) /\ UNCHANGED <<tenant, period>>
      /\ snap[t].period[Target(t)] \in PeriodRows /\ period[Target(t)] \in PeriodRows
      /\ snap[t].period[Target(t)].used <= period[Target(t)].used
      /\ ~period[Target(t)].exists => period[Target(t)].used = 0
      /\ LimitedInv
  BY TargetMonth, QuotaAssumption
  DEF QuotaTypeOK, Databases, Now, PlanInv, EnsureFound, EnsureCreates, Target
<1>1. ~own[t].period.exists
  BY NothingWritten DEF TxInv, WritesOK, EnsureFound, EnsureCreates
<1>2. CASE own' = own
  BY <1>0, <1>1, <1>2, PlainFits
<1>3. ASSUME NEW row \in PeriodRows, own' = [own EXCEPT ![t].period = row],
             row.limit <= row.used \/ row.limit <= snap[t].plan,
             row.limit <= period[Target(t)].used \/ row.limit <= snap[t].plan
      PROVE  Fits(Current(t))'
  <2>1. own'[t].period = row
    BY <1>3 DEF QuotaTypeOK
  <2> DEFINE c == period[Target(t)]
  <2>2. Current(t)' = IF c.exists /\ row.exists
                        THEN [c EXCEPT !.limit = row.limit, !.unlimited = row.unlimited]
                        ELSE IF row.exists THEN row ELSE c
    BY <1>0, <2>1 DEF Current
  <2> HIDE DEF c
  <2>3. c \in PeriodRows /\ Fits(c) /\ (row.limit <= c.used \/ row.limit <= snap[t].plan)
    BY <1>0, <1>3 DEF c, LimitedInv
  <2>4. Fits([c EXCEPT !.limit = row.limit, !.unlimited = row.unlimited])
    BY <1>0, <2>3 DEF Fits, PeriodRows
  <2>5. Fits(row)
    BY <1>0, <1>3 DEF Fits
  <2>6. Fits(IF c.exists /\ row.exists
               THEN [c EXCEPT !.limit = row.limit, !.unlimited = row.unlimited]
               ELSE IF row.exists THEN row ELSE c)
    BY <2>3, <2>4, <2>5
  <2> QED
    BY <1>0, <2>2, <2>6 DEF Fits
<1>4. CASE EnsureFound(t)
  <2> DEFINE row == snap[t].period[Target(t)]
             p == snap[t].plan
             synced == [row EXCEPT !.limit = SyncedLimit(p, row), !.unlimited = (p = Unlimited)]
  <2>1. own' = own \/ own' = [own EXCEPT ![t].period = synced]
    BY <1>4 DEF EnsureFound
  <2>2. synced \in PeriodRows /\ synced.used = row.used /\ synced.limit = SyncedLimit(p, row)
    BY <1>0, LimitIsNat DEF SyncedLimit, PeriodRows
  <2>3. SyncedLimit(p, row) = row.used \/ SyncedLimit(p, row) = p
    BY <1>0 DEF SyncedLimit, LimitOf
  <2> HIDE DEF synced, row
  <2>4. synced.limit <= synced.used \/ synced.limit <= p
    BY <1>0, <2>2, <2>3 DEF row, PeriodRows
  <2>5. synced.limit <= period[Target(t)].used \/ synced.limit <= p
    BY <1>0, <2>2, <2>3 DEF row, PeriodRows
  <2> QED
    BY <1>2, <1>3, <2>1, <2>2, <2>4, <2>5
<1>5. CASE EnsureCreates(t)
  <2>1. FALSE \/ snap[t].plan <= snap[t].plan
    BY <1>0
  <2> DEFINE row == [exists |-> TRUE, unlimited |-> snap[t].plan = Unlimited,
                     limit |-> LimitOf(snap[t].plan), used |-> AlreadyUsed(t)]
  <2>2. own' = [own EXCEPT ![t].period = row]
    BY <1>5 DEF EnsureCreates
  <2>3. row.limit = snap[t].plan
    BY <1>0 DEF LimitOf
  <2>4. row \in PeriodRows
    BY <1>0, AlreadyUsedType, LimitIsNat DEF PeriodRows
  <2> HIDE DEF row
  <2> QED
    BY <1>3, <2>1, <2>2, <2>3, <2>4
<1> QED
  BY <1>4, <1>5

LEMMA PlanInductive ==
  ASSUME QuotaTypeOK, QuotaTypeOK', FiniteUse, FiniteUse', TxInv, PlanInv,
         [QuotaNext]_quotaVars
  PROVE  PlanInv'
<1> USE DEF committed, env, locks, local, Go
<1>0. /\ \A t \in Txs : Target(t) \in Months /\ Target(t)' \in Months
      /\ \A t \in Txs : WritesOK(t)
  BY TargetMonth, QuotaAssumption DEF QuotaTypeOK, Target, PeriodAt, Months, TxInv
<1>1. ASSUME NEW t \in Txs, Begin(t) PROVE PlanInv'
  <2>1. /\ UNCHANGED <<tenant, period, usage, own>> /\ snap'[t] = Now /\ own[t] = NoWrites
        /\ \A u \in Txs \ {t} : own'[u] = own[u] /\ Target(u)' = Target(u) /\ snap'[u] = snap[u]
    BY <1>0, <1>1 DEF Begin, QuotaTypeOK, Target, WritesOK
  <2>2. \A m \in Months : snap'[t].period[m].used <= period[m].used
    BY <2>1 DEF Now, QuotaTypeOK, Databases, PeriodRows
  <2>3. ~own'[t].slot /\ ~own'[t].period.exists
    BY <2>1, NothingWritten
  <2> QED
    BY <1>0, <2>1, <2>2, <2>3, PlainFits, PlanStays
<1>2. ASSUME NEW t \in Txs, EnsureFound(t) \/ EnsureCreates(t) PROVE PlanInv'
  <2>1. UNCHANGED <<tenant, period, usage, snap, at>>
    BY <1>2 DEF EnsureFound, EnsureCreates
  <2>2. \A u \in Txs \ {t} : own'[u] = own[u]
    BY <1>2 DEF EnsureFound, EnsureCreates, QuotaTypeOK
  <2>3. ~own'[t].slot
    <3>1. ~own[t].slot
      BY <1>0, <1>2, NothingWritten DEF EnsureFound, EnsureCreates, WritesOK
    <3>2. own' = own \/ \E row : own' = [own EXCEPT ![t].period = row]
      BY <1>2 DEF EnsureFound, EnsureCreates
    <3> QED
      BY <3>1, <3>2 DEF QuotaTypeOK
  <2> QED
    BY <1>2, <2>1, <2>2, <2>3, SyncedFits, PlanStays DEF Target, PlanInv
<1>3. ASSUME NEW t \in Txs, LockPeriod(t) \/ ConsumePackage(t) \/ Record(t) PROVE PlanInv'
  <2>1. /\ UNCHANGED <<tenant, period, usage, snap, at>>
        /\ \A u \in Txs : own'[u].period = own[u].period /\ own'[u].slot = own[u].slot
        /\ \A u \in Txs \ {t} : own'[u] = own[u]
    <3>1. CASE LockPeriod(t)
      BY <3>1 DEF LockPeriod
    <3>2. CASE ConsumePackage(t)
      BY <3>2 DEF ConsumePackage, QuotaTypeOK
    <3>3. CASE Record(t)
      BY <3>3 DEF Record, QuotaTypeOK
    <3> QED
      BY <1>3, <3>1, <3>2, <3>3
  <2>2. Current(t)' = Current(t)
    BY <2>1 DEF Current, Target
  <2>3. Unlimited \notin tenant.offer => Fits(Current(t))'
    BY <2>1, <2>2 DEF PlanInv, LimitedInv, Fits
  <2> QED
    BY <2>1, <2>2, <2>3, PlanStays DEF Target, PlanInv
<1>4. ASSUME NEW t \in Txs, ConsumePlan(t) PROVE PlanInv'
  <2>1. /\ UNCHANGED <<tenant, period, usage, snap, at>>
        /\ own'[t].period = own[t].period
        /\ \A u \in Txs \ {t} : own'[u] = own[u]
        /\ Current(t).used < Current(t).limit
    BY <1>4 DEF ConsumePlan, QuotaTypeOK
  <2>2. Current(t)' = Current(t)
    BY <2>1 DEF Current, Target
  <2>3. Unlimited \notin tenant.offer => Fits(Current(t))'
    BY <2>1, <2>2 DEF PlanInv, LimitedInv, Fits
  <2> QED
    BY <2>1, <2>2, <2>3, PlanStays DEF Target, PlanInv
<1>5. ASSUME NEW t \in Txs, EnsureLoses(t) \/ Exceeded(t) \/ RecordDuplicate(t) \/ Fail(t)
      PROVE  PlanInv'
  <2>1. UNCHANGED <<tenant, period, usage, snap, at>>
    BY <1>5 DEF EnsureLoses, Exceeded, RecordDuplicate, Fail, Rollback
  <2>2. own' = [own EXCEPT ![t] = NoWrites]
    BY <1>5, EndingEnds DEF Ending
  <2>3. ~own'[t].slot /\ ~own'[t].period.exists /\ \A u \in Txs \ {t} : own'[u] = own[u]
    BY <2>2, NothingWritten DEF QuotaTypeOK
  <2> QED
    BY <1>0, <2>1, <2>3, PlainFits, PlanStays DEF Target, PlanInv
<1>6. ASSUME NEW t \in Txs, Commit(t) PROVE PlanInv'
  BY <1>6, CommitPlan
<1>7. CASE Outside
  BY <1>7, OutsideStays
  DEF PlanInv, LimitedInv, Fits, Current, Target, Charged
<1> QED
  BY <1>1, <1>2, <1>3, <1>4, <1>5, <1>6, <1>7, QuotaSteps DEF Statement, Ending

LEMMA PlanInitially == QuotaInit => PlanInv
<1> SUFFICES ASSUME QuotaInit PROVE PlanInv
  OBVIOUS
<1>1. \A m \in Months : period[m].used = 0 /\ period[m].limit = 0 /\ ~period[m].exists
  BY DEF QuotaInit, NoPeriod
<1>2. \A t \in Txs : own[t] = NoWrites /\ Target(t) \in Months
  BY QuotaTypesInitially, TargetMonth DEF QuotaInit
<1>3. \A t \in Txs : ~own[t].slot /\ Current(t) = period[Target(t)]
  BY <1>2, NothingWritten DEF Current
<1>4. \A m \in Months : Charged(m) = {}
  BY DEF QuotaInit, Charged, NoUsage
<1>5. \A m \in Months : Cardinality(Charged(m)) = 0
  BY <1>4, FS_EmptySet
<1>6. \A t \in Txs, m \in Months : snap[t].period[m].used <= period[m].used
  BY <1>1 DEF QuotaInit, Now
<1>7. Unlimited \notin tenant.offer => LimitedInv
  <2>1. Unlimited \notin tenant.offer => \E limit \in tenant.offer : limit >= 0
    BY QuotaAssumption DEF QuotaInit
  <2> QED
    BY <1>1, <1>2, <1>3, <1>5, <2>1 DEF LimitedInv, Fits
<1> QED
  BY <1>1, <1>3, <1>6, <1>7 DEF PlanInv

LEMMA PlanHolds == QuotaSpec => []PlanInv
<1>1. QuotaSpec => [](QuotaTypeOK /\ FiniteUse)
  BY QuotaTypesInitially, QuotaTypesInductive, PTL DEF QuotaSpec
<1> QED
  BY <1>1, TxInitially, TxInductive, PlanInitially, PlanInductive, PTL DEF QuotaSpec

\* However transactions, changes of plan and timed-out updates interleave, a
\* month's plan yields no more slots than the largest limit it has had.
THEOREM QuotaNotOverdrawn == QuotaSpec => []NotOverdrawn
<1>1. QuotaTypeOK /\ PlanInv => NotOverdrawn
  BY DEF NotOverdrawn, PlanInv, LimitedInv
<1> QED
  BY <1>1, PlanHolds, QuotaTypeCorrect, PTL

\* No document charged to a month of a limited plan is missing from its count.
THEOREM ConsumptionIsKept == QuotaSpec => []PlanConsumptionKept
<1>1. PlanInv => PlanConsumptionKept
  BY DEF PlanConsumptionKept, PlanInv, LimitedInv
<1> QED
  BY <1>1, PlanHolds, PTL
-----------------------------------------------------------------------------
\* The promise of SlotMeter.

\* What the promise needs beside the invariants above: no transaction asks for
\* room under a plan that has no limit, none has answered before it is done
\* or runs ahead of the clock, and packages are those the tenant bought.
AnswerInv ==
  /\ \A t \in Txs : /\ pc[t] \in {"lock", "consume"} => \E limit \in tenant.offer : limit # Unlimited
                    /\ pc[t] # "done" => result[t] = "none"
                    /\ at[t] <= month
  /\ \A p \in Packages : pkg[p].status # "none" => p \in tenant.buys

\* Changes that AnswerInv does not see but in one transaction.
LEMMA AnswerStays ==
  ASSUME AnswerInv, UNCHANGED <<tenant, month>>, NEW t \in Txs,
         \A p \in Packages : pkg'[p].status = pkg[p].status,
         \A u \in Txs \ {t} : pc'[u] = pc[u] /\ result'[u] = result[u] /\ at'[u] = at[u],
         pc'[t] \in {"lock", "consume"} => \E limit \in tenant.offer : limit # Unlimited,
         pc'[t] # "done" => result'[t] = "none",
         at'[t] <= month
  PROVE  AnswerInv'
BY DEF AnswerInv

LEMMA StatementAnswers ==
  ASSUME QuotaTypeOK, AnswerInv, NEW t \in Txs, Statement(t)
  PROVE  AnswerInv'
<1> USE DEF committed, env, locks, local, Go
<1>0. /\ month \in Nat /\ at \in [Txs -> Months] /\ snap[t].plan \in tenant.offer
      /\ pc \in [Txs -> {"begin", "ensure", "lock", "consume", "record", "commit", "done"}]
      /\ result \in [Txs -> {"none", "ok", "not_found", "exceeded", "duplicate", "failed"}]
  BY DEF QuotaTypeOK, Months, Databases
<1>1. /\ UNCHANGED <<tenant, month>> /\ \A p \in Packages : pkg'[p].status = pkg[p].status
      /\ \A u \in Txs \ {t} : pc'[u] = pc[u] /\ result'[u] = result[u] /\ at'[u] = at[u]
  BY <1>0 DEF Statement, Begin, EnsureFound, EnsureCreates, LockPeriod, ConsumePlan,
     ConsumePackage, Record
<1>2. at'[t] <= month
  BY <1>0 DEF AnswerInv, Statement, Begin, EnsureFound, EnsureCreates, LockPeriod, ConsumePlan,
     ConsumePackage, Record
<1>3. pc'[t] # "done" => result'[t] = "none"
  BY <1>0 DEF AnswerInv, Statement, Begin, EnsureFound, EnsureCreates, LockPeriod, ConsumePlan,
     ConsumePackage, Record
<1>4. pc'[t] \in {"lock", "consume"} => \E limit \in tenant.offer : limit # Unlimited
  <2>1. CASE EnsureFound(t) \/ EnsureCreates(t)
    <3>1. pc'[t] = "lock" => snap[t].plan # Unlimited
      <4> DEFINE row == snap[t].period[Target(t)]
                 synced == [row EXCEPT !.limit = SyncedLimit(snap[t].plan, row),
                                       !.unlimited = (snap[t].plan = Unlimited)]
      <4>1. row \in PeriodRows
        BY TargetMonth DEF QuotaTypeOK, Databases
      <4>2. synced.unlimited = (snap[t].plan = Unlimited)
        BY <4>1 DEF PeriodRows
      <4>3. pc'[t] = AfterEnsure(t, snap[t].plan = Unlimited)
        BY <1>0, <2>1, <4>2 DEF EnsureFound, EnsureCreates
      <4> QED
        BY <4>3 DEF AfterEnsure
    <3>2. pc'[t] # "consume"
      BY <1>0, <2>1 DEF EnsureFound, EnsureCreates, AfterEnsure
    <3> QED
      BY <1>0, <3>1, <3>2
  <2>2. CASE Begin(t) \/ LockPeriod(t) \/ ConsumePlan(t) \/ ConsumePackage(t) \/ Record(t)
    BY <1>0, <2>2 DEF AnswerInv, Begin, LockPeriod, ConsumePlan, ConsumePackage, Record
  <2> QED
    BY <2>1, <2>2 DEF Statement
<1> QED
  BY <1>1, <1>2, <1>3, <1>4, AnswerStays

LEMMA EndingAnswers ==
  ASSUME QuotaTypeOK, AnswerInv, NEW t \in Txs, Ending(t)
  PROVE  AnswerInv'
<1>1. pc' = [pc EXCEPT ![t] = "done"] /\ UNCHANGED <<tenant, at>>
  BY EndingEnds
<1>2. UNCHANGED month /\ \E res : result' = [result EXCEPT ![t] = res]
  BY DEF Ending, EnsureLoses, Exceeded, RecordDuplicate, Fail, Commit, Rollback, End, env
<1>3. \A p \in Packages : pkg'[p].status = pkg[p].status
  <2>1. CASE Commit(t)
    <3>1. \A p \in Packages : pkg[p] \in PackageRows
      BY DEF QuotaTypeOK, Now, Databases
    <3>2. \A p \in Packages : pkg'[p] = pkg[p] \/ pkg'[p] = Taken(pkg[p])
      BY <2>1 DEF Commit
    <3> QED
      BY <3>1, <3>2 DEF Taken, PackageRows
  <2>2. CASE EnsureLoses(t) \/ Exceeded(t) \/ RecordDuplicate(t) \/ Fail(t)
    BY <2>2 DEF EnsureLoses, Exceeded, RecordDuplicate, Fail, Rollback, committed
  <2> QED
    BY <2>1, <2>2 DEF Ending
<1>4. /\ \A u \in Txs \ {t} : pc'[u] = pc[u] /\ result'[u] = result[u] /\ at'[u] = at[u]
      /\ pc'[t] = "done" /\ at'[t] <= month
  BY <1>1, <1>2 DEF QuotaTypeOK, AnswerInv
<1> QED
  BY <1>1, <1>2, <1>3, <1>4, AnswerStays

LEMMA AnswersInductive ==
  ASSUME QuotaTypeOK, AnswerInv, [QuotaNext]_quotaVars
  PROVE  AnswerInv'
<1>1. CASE Outside
  <2>1. UNCHANGED <<tenant, pc, result, at>>
    BY <1>1, OutsideStays DEF local
  <2>2. month' \in {month, month + 1} /\ month \in Nat /\ at \in [Txs -> Nat]
    <3>1. month' = month \/ month' = month + 1
      BY <1>1 DEF Outside, Purchase, Approve, Reject, ChangePlan, ExpirePackages, NextMonth,
         quotaVars, env
    <3> QED
      BY <3>1 DEF QuotaTypeOK, Months
  <2>3. \A t \in Txs : at'[t] <= month'
    BY <2>1, <2>2 DEF AnswerInv
  <2>4. \A p \in Packages : pkg'[p].status # "none" => p \in tenant'.buys
    <3>1. pkg \in [Packages -> PackageRows]
      BY DEF QuotaTypeOK, Now, Databases
    <3>2. ASSUME NEW q \in Packages, Purchase(q) \/ Approve(q) \/ Reject(q)
          PROVE  \A p \in Packages : pkg'[p].status # "none" => p \in tenant'.buys
      <4>1. \A p \in Packages \ {q} : pkg'[p] = pkg[p]
        BY <3>1, <3>2 DEF Purchase, Approve, Reject
      <4>2. q \in tenant.buys
        BY <3>2 DEF Purchase, Approve, Reject, AnswerInv
      <4> QED
        BY <2>1, <4>1, <4>2 DEF AnswerInv
    <3>3. CASE ExpirePackages
      BY <2>1, <3>1, <3>3 DEF ExpirePackages, AnswerInv
    <3>4. CASE UNCHANGED pkg
      BY <2>1, <3>4 DEF AnswerInv
    <3>5. ChangePlan \/ NextMonth \/ UNCHANGED quotaVars => UNCHANGED pkg
      BY DEF ChangePlan, NextMonth, quotaVars, committed
    <3> QED
      BY <1>1, <3>2, <3>3, <3>4, <3>5 DEF Outside
  <2> QED
    BY <2>1, <2>3, <2>4 DEF AnswerInv
<1> QED
  BY <1>1, QuotaSteps, StatementAnswers, EndingAnswers

LEMMA AnswersInitially == QuotaInit => AnswerInv
BY DEF QuotaInit, AnswerInv

\* The rows as SlotMeter sees them, one at a time.
LEMMA ViewOf ==
  ASSUME QuotaTypeOK
  PROVE  /\ \A d \in Docs : /\ Slots[d].from = usage[d].from /\ Slots[d].period = usage[d].period
                            /\ Slots[d].pkg = usage[d].pkg
         /\ \A p \in Packages : PackageView[p].left = pkg[p].remaining
         /\ \A p \in Packages : PackageView[p].state = "open" <=> pkg[p].status = "approved"
         /\ \A p \in Packages :
              PackageView[p].state = "new" <=> pkg[p].status \in {"none", "pending_review"}
         /\ \A m \in Months : Meter!ChargedTo(m) = Charged(m)
<1>1. /\ \A d \in Docs : /\ Slots[d].from = usage[d].from /\ Slots[d].period = usage[d].period
                         /\ Slots[d].pkg = usage[d].pkg
      /\ \A p \in Packages : PackageView[p].left = pkg[p].remaining
      /\ \A p \in Packages : PackageView[p].state = "open" <=> pkg[p].status = "approved"
      /\ \A p \in Packages :
           PackageView[p].state = "new" <=> pkg[p].status \in {"none", "pending_review"}
  BY DEF Slots, PackageView
<1>2. \A m \in Months : Meter!ChargedTo(m) = Charged(m)
  BY <1>1 DEF Meter!ChargedTo, Charged
<1> QED
  BY <1>1, <1>2

\* What a package looks like after a change of its row.
Viewed(row) == [state |-> CASE row.status \in {"none", "pending_review"} -> "new"
                            [] row.status = "approved" -> "open"
                            [] OTHER -> "closed",
                left |-> row.remaining]

LEMMA ViewedRows ==
  /\ PackageView = [p \in Packages |-> Viewed(pkg[p])]
  /\ PackageView' = [p \in Packages |-> Viewed(pkg'[p])]
BY DEF PackageView, Viewed

\* Steps of the rest of the system.
LEMMA OutsideMeters ==
  ASSUME QuotaTypeOK, PackageInv, AnswerInv, Outside
  PROVE  [Meter!MeterNext]_(Meter!meterVars)
<1> USE DEF Meter!meterVars
<1>0. /\ UNCHANGED <<tenant, usage, result>> /\ Slots' = Slots
      /\ pkg \in [Packages -> PackageRows]
  BY OutsideStays DEF local, Slots, QuotaTypeOK, Now, Databases
<1>1. ASSUME NEW p \in Packages, Purchase(p) PROVE UNCHANGED Meter!meterVars
  <2>1. /\ \A q \in Packages : Viewed(pkg'[q]) = Viewed(pkg[q])
        /\ UNCHANGED month
    BY <1>0, <1>1 DEF Purchase, Viewed, PackageRows, env
  <2>2. PackageView' = PackageView
    BY <2>1, ViewedRows
  <2> QED
    BY <1>0, <2>1, <2>2
<1>2. ASSUME NEW p \in Packages, Approve(p) PROVE Meter!Open(p)
  <2>1. /\ Viewed(pkg'[p]) = [state |-> "open", left |-> Qty]
        /\ \A q \in Packages \ {p} : pkg'[q] = pkg[q]
        /\ UNCHANGED month /\ p \in tenant.buys /\ Viewed(pkg[p]).state = "new"
    BY <1>0, <1>2 DEF Approve, Viewed, PackageRows, env, AnswerInv
  <2>2. PackageView' = [PackageView EXCEPT ![p] = [state |-> "open", left |-> Qty]]
    BY <2>1, ViewedRows
  <2>3. PackageView[p].state = "new"
    BY <2>1, ViewedRows
  <2> QED
    BY <1>0, <2>1, <2>2, <2>3 DEF Meter!Open
<1>3. ASSUME NEW p \in Packages, Reject(p) PROVE Meter!Decline(p)
  <2>1. /\ Viewed(pkg'[p]) = [Viewed(pkg[p]) EXCEPT !.state = "closed"]
        /\ \A q \in Packages \ {p} : pkg'[q] = pkg[q]
        /\ UNCHANGED month /\ p \in tenant.buys /\ Viewed(pkg[p]).state = "new"
    BY <1>0, <1>3 DEF Reject, Viewed, PackageRows, env, AnswerInv
  <2>2. PackageView' = [PackageView EXCEPT ![p] = [@ EXCEPT !.state = "closed"]]
    BY <2>1, ViewedRows
  <2>3. PackageView[p].state = "new"
    BY <2>1, ViewedRows
  <2> QED
    BY <1>0, <2>1, <2>2, <2>3 DEF Meter!Decline
<1>4. CASE ExpirePackages
  <2>1. /\ month >= CycleMonths /\ UNCHANGED month
        /\ \A p \in Packages : pkg'[p] = IF pkg[p].status = "approved"
                                           THEN [pkg[p] EXCEPT !.status = "expired", !.remaining = 0]
                                           ELSE pkg[p]
    BY <1>4 DEF ExpirePackages, env
  <2>2. \A p \in Packages : Viewed(pkg'[p]) = IF Viewed(pkg[p]).state = "open"
                                                THEN [state |-> "closed", left |-> 0]
                                                ELSE Viewed(pkg[p])
    BY <1>0, <2>1 DEF Viewed, PackageRows
  <2>3. PackageView' = [p \in Packages |-> IF PackageView[p].state = "open"
                                             THEN [state |-> "closed", left |-> 0]
                                             ELSE PackageView[p]]
    BY <2>2, ViewedRows
  <2>4. Slots' = Slots /\ UNCHANGED <<tenant, month, result>>
    BY <1>0, <2>1
  <2>5. Meter!CloseAll
    BY Zenon, <2>1, <2>3, <2>4 DEF Meter!CloseAll
  <2> QED
    BY <2>5 DEF Meter!MeterNext
<1>5. CASE NextMonth
  <2>1. UNCHANGED pkg /\ month < LastMonth /\ month' = month + 1
    BY <1>5 DEF NextMonth, committed
  <2>2. PackageView' = PackageView
    BY <2>1 DEF PackageView
  <2>3. Meter!Tick
    BY <1>0, <2>1, <2>2 DEF Meter!Tick
  <2> QED
    BY <2>3 DEF Meter!MeterNext
<1>6. CASE ChangePlan \/ UNCHANGED quotaVars
  BY <1>0, <1>6 DEF ChangePlan, quotaVars, committed, env, PackageView
<1> QED
  BY <1>1, <1>2, <1>3, <1>4, <1>5, <1>6 DEF Outside, Meter!MeterNext

\* A statement changes nothing a caller can see, but a first read that finds
\* the document reserved.
LEMMA StatementMeters ==
  ASSUME QuotaTypeOK, AnswerInv, NEW t \in Txs, Statement(t)
  PROVE  [Meter!MeterNext]_(Meter!meterVars)
<1> USE DEF committed, env, locks, local, Go
<1>1. UNCHANGED <<tenant, month, usage, pkg>> /\ Slots' = Slots /\ PackageView' = PackageView
  BY DEF Statement, Begin, EnsureFound, EnsureCreates, LockPeriod, ConsumePlan, ConsumePackage,
     Record, Slots, PackageView
<1>2. CASE UNCHANGED result
  BY <1>1, <1>2 DEF Meter!meterVars
<1>3. CASE result' # result
  <2>1. /\ Begin(t) /\ Doc[t] # None /\ usage[Doc[t]].from # "none"
        /\ result' = [result EXCEPT ![t] = "ok"] /\ pc[t] = "begin"
    BY <1>3 DEF Statement, Begin, EnsureFound, EnsureCreates, LockPeriod, ConsumePlan,
       ConsumePackage, Record
  <2>2. Slots[Doc[t]].from # "none"
    <3>1. Doc[t] \in Docs
      BY <2>1, TargetMonth
    <3> QED
      BY <2>1, <3>1, ViewOf
  <2>3. Meter!Answer(t, "ok")
    BY <2>1 DEF AnswerInv, Meter!Answer
  <2>4. Meter!Nothing(t)
    BY <1>1, <2>2, <2>3 DEF Meter!Nothing, Meter!Has, Doc
  <2> QED
    BY <2>4 DEF Meter!MeterNext
<1> QED
  BY <1>2, <1>3

\* A transaction that is rolled back has refused the document.
LEMMA RefusalMeters ==
  ASSUME QuotaTypeOK, TxInv, PackageInv, AnswerInv, NEW t \in Txs,
         EnsureLoses(t) \/ Exceeded(t) \/ RecordDuplicate(t) \/ Fail(t)
  PROVE  Meter!Refuse(t)
<1>1. UNCHANGED <<tenant, month, Slots, PackageView>>
  BY DEF EnsureLoses, Exceeded, RecordDuplicate, Fail, Rollback, committed, env, Slots, PackageView
<1>2. pc[t] # "done" /\ result[t] = "none"
  BY DEF EnsureLoses, Exceeded, RecordDuplicate, Fail, AnswerInv
<1>3. CASE EnsureLoses(t)
  <2>1. Meter!Answer(t, "not_found")
    BY <1>2, <1>3 DEF EnsureLoses, Rollback, End, Meter!Answer
  <2> QED
    BY <1>1, <2>1 DEF Meter!Refuse
<1>4. CASE Exceeded(t)
  <2>1. Meter!Answer(t, "exceeded") /\ pc[t] = "consume" /\ Usable = {}
    BY <1>2, <1>4 DEF Exceeded, Rollback, End, Meter!Answer
  <2>2. Doc[t] # None /\ \E limit \in tenant.offer : limit # Unlimited
    BY <2>1 DEF TxInv, WritesOK, AnswerInv
  <2>3. ASSUME NEW p \in Packages, PackageView[p].state = "open" PROVE PackageView[p].left = 0
    <3>1. pkg[p].status = "approved" /\ PackageView[p].left = pkg[p].remaining
      BY <2>3, ViewOf
    <3>2. pkg[p].remaining \in Int /\ pkg[p].remaining >= 0 /\ ~(pkg[p].remaining > 0)
      BY <2>1, <3>1 DEF Usable, PackageInv, PackagesBalance, QuotaTypeOK, Now, Databases, PackageRows
    <3> QED
      BY <3>1, <3>2
  <2>4. Meter!Exceeded(t)
    BY <2>1, <2>2, <2>3 DEF Meter!Exceeded, Doc, Unlimited
  <2> QED
    BY <1>1, <2>4 DEF Meter!Refuse
<1>5. CASE RecordDuplicate(t)
  <2>1. Meter!Answer(t, "duplicate") /\ pc[t] = "record" /\ usage[Doc[t]].from # "none"
    BY <1>2, <1>5 DEF RecordDuplicate, Rollback, End, Meter!Answer
  <2>2. Doc[t] # None /\ Slots[Doc[t]].from # "none"
    <3>1. Doc[t] # None /\ Doc[t] \in Docs
      BY <2>1, TargetMonth DEF TxInv, WritesOK
    <3> QED
      BY <2>1, <3>1, ViewOf
  <2>3. Meter!Duplicate(t)
    BY <2>1, <2>2 DEF Meter!Duplicate, Meter!Has, Doc
  <2> QED
    BY <1>1, <2>3 DEF Meter!Refuse
<1>6. CASE Fail(t)
  <2>1. Meter!Answer(t, "failed")
    BY <1>2, <1>6 DEF Fail, Rollback, End, Meter!Answer
  <2> QED
    BY <1>1, <2>1 DEF Meter!Refuse
<1> QED
  BY <1>3, <1>4, <1>5, <1>6

\* The month a transaction charges has begun, and is one of the cycle.
LEMMA TargetBegan ==
  ASSUME QuotaTypeOK, AnswerInv, NEW t \in Txs
  PROVE  Target(t) \in 0..month /\ Target(t) < CycleMonths
<1>1. /\ at[t] \in Nat /\ month \in Nat /\ at[t] <= month
      /\ CycleMonths \in Nat \ {0}
  BY QuotaAssumption DEF QuotaTypeOK, Months, AnswerInv
<1> QED
  BY <1>1 DEF Target, PeriodAt

\* A slot that is being charged to a plan has room.
LEMMA CommitHasRoom ==
  ASSUME QuotaTypeOK, FiniteUse, TxInv, PlanInv, NEW t \in Txs, Commit(t), Doc[t] # None,
         own[t].pkg = None
  PROVE  Meter!Room(Target(t))
<1>1. CASE Unlimited \in tenant.offer
  BY <1>1 DEF Meter!Room, Unlimited
<1>2. CASE Unlimited \notin tenant.offer
  <2>0. Target(t) \in Months /\ \A limit \in tenant.offer : limit \in Nat
    BY <1>2, TargetMonth, QuotaAssumption DEF QuotaTypeOK
  <2>1. own[t].slot /\ Current(t).used < Current(t).limit /\ LimitedInv
    BY <1>2 DEF Commit, TxInv, WritesOK, PlanInv
  <2>2. /\ Current(t).used \in Nat /\ Current(t).limit \in Nat
        /\ period[Target(t)].used \in Nat /\ Cardinality(Charged(Target(t))) \in Nat
    BY <2>0, CurrentType, ChargedFinite DEF QuotaTypeOK, Now, Databases, PeriodRows
  <2>3. PICK limit \in tenant.offer : Current(t).limit <= limit
    BY <2>1, <2>2 DEF LimitedInv, Fits
  <2>4. /\ Current(t).used >= period[Target(t)].used
        /\ period[Target(t)].used >= Cardinality(Charged(Target(t)))
    BY <2>0, <2>1, CurrentUsed DEF LimitedInv
  <2>5. Cardinality(Charged(Target(t))) < limit
    BY <2>0, <2>1, <2>2, <2>3, <2>4
  <2>6. Meter!ChargedTo(Target(t)) = Charged(Target(t))
    BY <2>0, ViewOf
  <2>7. Cardinality(Meter!ChargedTo(Target(t))) < limit
    BY <2>5, <2>6
  <2> QED   \* SlotMeter's copy of Cardinality is the same operator
    BY <2>3, <2>7 DEF Meter!Room, Meter!Cardinality, Cardinality
<1> QED
  BY <1>1, <1>2

\* A commit grants what the transaction recorded.
LEMMA CommitMeters ==
  ASSUME QuotaTypeOK, FiniteUse, TxInv, PackageInv, PlanInv, AnswerInv, NEW t \in Txs, Commit(t)
  PROVE  Meter!Grant(t) \/ Meter!Nothing(t)
<1>0. /\ WritesOK(t) /\ LocksOK(t) /\ pc[t] = "commit"
      /\ UNCHANGED <<tenant, month>> /\ Meter!Answer(t, "ok")
      /\ pkg' = [p \in Packages |-> IF own[t].pkg = p THEN Taken(pkg[p]) ELSE pkg[p]]
      /\ usage' = IF Doc[t] = None THEN usage ELSE [usage EXCEPT ![Doc[t]] = own[t].usage]
  BY DEF TxInv, Commit, End, env, AnswerInv, Meter!Answer
<1>1. /\ own[t].pkg \in Packages \cup {None} /\ Doc[t] \in Docs \cup {None} /\ None \notin Packages
      /\ usage \in [Docs -> UsageRows] /\ pkg \in [Packages -> PackageRows]
      /\ Target(t) \in 0..month /\ Target(t) < CycleMonths
  BY TargetMonth, TargetBegan, QuotaAssumption DEF QuotaTypeOK, Now, Databases
<1>2. CASE Doc[t] = None
  <2>1. Slots' = Slots
    BY <1>0, <1>2 DEF Slots
  <2>2. \A p \in Packages : own[t].pkg # p
    BY <1>0, <1>1, <1>2 DEF WritesOK
  <2>3. PackageView' = PackageView
    BY <1>0, <2>2, ViewedRows
  <2> QED
    BY <1>0, <1>2, <2>1, <2>3 DEF Meter!Nothing, Doc
<1>3. CASE Doc[t] # None
  <2> DEFINE d == Doc[t]
             m == Target(t)
  <2>0. d \in Docs /\ usage[d].from = "none" /\ RecordedUsage(t)
    BY <1>0, <1>1, <1>3 DEF LocksOK, WritesOK
  <2>1. Slots' = [Slots EXCEPT ![d] = [from |-> IF own[t].pkg = None THEN "plan_base" ELSE "package",
                                       period |-> m, pkg |-> own[t].pkg]]
    <3>1. usage'[d] = own[t].usage /\ \A e \in Docs \ {d} : usage'[e] = usage[e]
      BY <1>0, <1>1, <1>3, <2>0
    <3> DEFINE View(row) == [from |-> row.from, period |-> row.period, pkg |-> row.pkg]
    <3>2. Slots = [e \in Docs |-> View(usage[e])] /\ Slots' = [e \in Docs |-> View(usage'[e])]
      BY DEF Slots
    <3>3. View(usage'[d]) = [from |-> IF own[t].pkg = None THEN "plan_base" ELSE "package",
                             period |-> m, pkg |-> own[t].pkg]
      BY <2>0, <3>1 DEF RecordedUsage
    <3> HIDE DEF View
    <3> QED
      BY <2>0, <3>1, <3>2, <3>3
  <2>2. ~Meter!Has(d)
    BY <2>0, ViewOf DEF Meter!Has
  <2>3. CASE own[t].pkg = None
    <3>1. PackageView' = PackageView
      <4>1. \A p \in Packages : own[t].pkg # p
        BY <1>1, <2>3
      <4> QED
        BY <1>0, <4>1, ViewedRows
    <3>2. Meter!PlanSlot(d, m)
      BY <1>3, <2>1, <2>3, <3>1, CommitHasRoom DEF Meter!PlanSlot
    <3> QED
      BY <1>0, <1>1, <1>3, <2>2, <3>2 DEF Meter!Grant, Doc
  <2>4. CASE own[t].pkg # None
    <3> DEFINE p == own[t].pkg
    <3>0. /\ p \in Packages /\ pkg[p].status = "approved" /\ pkg[p].remaining > 0
      BY <1>1, <2>4 DEF PackageInv
    <3>1. Viewed(pkg'[p]) = [Viewed(pkg[p]) EXCEPT !.left = @ - 1]
      <4>1. pkg'[p] = Taken(pkg[p]) /\ pkg[p] \in PackageRows
        BY <1>0, <1>1, <3>0
      <4>2. Taken(pkg[p]).status = pkg[p].status /\ Taken(pkg[p]).remaining = pkg[p].remaining - 1
        BY <4>1 DEF Taken, PackageRows
      <4>3. Viewed(pkg'[p]) = [state |-> "open", left |-> pkg[p].remaining - 1]
        BY <3>0, <4>1, <4>2 DEF Viewed
      <4>4. Viewed(pkg[p]) = [state |-> "open", left |-> pkg[p].remaining]
        BY <3>0 DEF Viewed
      <4> QED
        BY <4>3, <4>4
    <3>2. PackageView' = [PackageView EXCEPT ![p].left = @ - 1]
      <4>1. \A q \in Packages \ {p} : pkg'[q] = pkg[q]
        BY <1>0
      <4> QED
        BY <3>0, <3>1, <4>1, ViewedRows
    <3>3. PackageView[p].state = "open" /\ PackageView[p].left > 0
      BY <3>0, ViewOf
    <3>4. Meter!PackageSlot(d, m, p)
      BY <2>1, <2>4, <3>2, <3>3 DEF Meter!PackageSlot
    <3> QED
      BY <1>0, <1>1, <1>3, <2>2, <3>0, <3>4 DEF Meter!Grant, Doc
  <2> QED
    BY <2>3, <2>4
<1> QED
  BY <1>2, <1>3

\* The transactions implement SlotMeter: each reservation takes effect in one
\* step and answers what it did, for any number of transactions, documents,
\* packages and months.
THEOREM QuotaKeepsMeter == QuotaSpec => KeepsMeter
<1>1. QuotaInit => Meter!MeterInit
  BY DEF QuotaInit, Meter!MeterInit, Meter!NoSlot, Slots, PackageView, NoUsage
<1>2. ASSUME QuotaTypeOK, FiniteUse, TxInv, PackageInv, PlanInv, AnswerInv, [QuotaNext]_quotaVars
      PROVE  [Meter!MeterNext]_(Meter!meterVars)
  <2>1. ASSUME NEW t \in Txs, Ending(t) PROVE Meter!MeterNext
    BY <1>2, <2>1, CommitMeters, RefusalMeters DEF Ending, Meter!MeterNext
  <2> QED
    BY <1>2, <2>1, QuotaSteps, StatementMeters, OutsideMeters
<1>3. QuotaSpec => [](QuotaTypeOK /\ FiniteUse)
  BY QuotaTypesInitially, QuotaTypesInductive, PTL DEF QuotaSpec
<1>4. QuotaSpec => []TxInv
  BY <1>3, TxInitially, TxInductive, PTL DEF QuotaSpec
<1>5. QuotaSpec => []PackageInv
  BY <1>3, <1>4, PackageInitially, PackageInductive, PTL DEF QuotaSpec
<1>6. QuotaSpec => []AnswerInv
  BY <1>3, AnswersInitially, AnswersInductive, PTL DEF QuotaSpec
<1> QED
  BY <1>1, <1>2, <1>3, <1>4, <1>5, <1>6, PlanHolds, PTL DEF QuotaSpec, KeepsMeter, Meter!MeterSpec
=============================================================================

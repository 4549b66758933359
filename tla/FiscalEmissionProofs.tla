------------------------ MODULE FiscalEmissionProofs ------------------------
(***************************************************************************)
(* Proofs about FiscalEmission, for any number of requests, workers, cron  *)
(* runs and webhooks, any bounds and any facturador answers.               *)
(***************************************************************************)
EXTENDS FiscalEmission, FiscalLockProofs, FiniteSetTheorems

-----------------------------------------------------------------------------
\* FiscalEmission uses the lock as FiscalLock says.

\* The steps that leave the Redis key alone.
LEMMA LockKept ==
  ASSUME NEW t \in Threads,
         \/ Presync(t) \/ Recheck(t) \/ Fetch(t) \/ FetchMiss(t) \/ FetchFails(t) \/ Classify(t)
         \/ ApplyRead(t) \/ ApplySave(t) \/ SyncSale(t)
         \/ Reserve(t) \/ SendGuard(t) \/ Mark(t) \/ Emit(t) \/ EmitFails(t) \/ FailRow(t)
         \/ Persist(t) \/ PersistWrite(t) \/ SaleCheck(t) \/ SaleWrite(t)
         \/ Settle(t) \/ SettleWrite(t) \/ Settled(t) \/ MarkSent(t)
         \/ Resync(t) \/ WaitPoll(t) \/ WaitEnds(t)
         \/ TryClaim(t) \/ EnqueueTx(t) \/ Push(t) \/ PushFails(t) \/ PushFailedRow(t)
         \/ DropClaim(t) \/ PushedSale(t) \/ Pop(t)
         \/ RecSelect(t) \/ RecCheck(t)
         \/ HookReceive(t) \/ HookLookupFails(t) \/ HookApplyFails(t)
  PROVE  UNCHANGED lockVars
<1>1. CASE \/ Presync(t) \/ Recheck(t) \/ Fetch(t) \/ FetchMiss(t) \/ FetchFails(t) \/ Classify(t)
           \/ ApplyRead(t) \/ ApplySave(t) \/ SyncSale(t)
  BY <1>1 DEF Presync, Recheck, Fetch, FetchMiss, FetchFails, Classify, ApplyRead, ApplySave, SyncSale
<1>2. CASE \/ Reserve(t) \/ SendGuard(t) \/ Mark(t) \/ Emit(t) \/ EmitFails(t) \/ FailRow(t)
           \/ Persist(t) \/ PersistWrite(t) \/ SaleCheck(t) \/ SaleWrite(t)
  BY <1>2 DEF Reserve, SendGuard, Mark, Emit, EmitFails, FailRow, Persist, PersistWrite,
              SaleCheck, SaleWrite
<1>3. CASE \/ Settle(t) \/ SettleWrite(t) \/ Settled(t) \/ MarkSent(t)
           \/ Resync(t) \/ WaitPoll(t) \/ WaitEnds(t)
  BY <1>3 DEF Settle, SettleWrite, Settled, MarkSent, Resync, WaitPoll, WaitEnds
<1>4. CASE \/ TryClaim(t) \/ EnqueueTx(t) \/ Push(t) \/ PushFails(t) \/ PushFailedRow(t)
           \/ DropClaim(t) \/ PushedSale(t) \/ Pop(t)
  BY <1>4 DEF TryClaim, EnqueueTx, Push, PushFails, PushFailedRow, DropClaim, PushedSale, Pop
<1>5. CASE \/ RecSelect(t) \/ RecCheck(t)
           \/ HookReceive(t) \/ HookLookupFails(t) \/ HookApplyFails(t)
  BY <1>5 DEF RecSelect, RecCheck, HookReceive, HookLookupFails, HookApplyFails
<1> QED
  BY <1>1, <1>2, <1>3, <1>4, <1>5

\* The steps of an operation that take or drop it.
LEMMA LockTaken ==
  ASSUME NEW o \in Ops,
         \/ PrepareAcquire(o) \/ PrepareRefuse(o) \/ Refused(o) \/ FinishPrepared(o)
         \/ Unlock(o) \/ RecLock(o) \/ RecEnd(o) \/ Requeue(o) \/ RecRelease(o)
  PROVE  [LockNext]_lockVars
<1>1. CASE PrepareAcquire(o) \/ PrepareRefuse(o) \/ Refused(o) \/ RecRelease(o)
  BY <1>1 DEF PrepareAcquire, PrepareRefuse, Refused, RecRelease, LockNext
<1>2. CASE FinishPrepared(o) \/ Unlock(o)
  BY <1>2 DEF FinishPrepared, Unlock, LockNext
<1>3. CASE RecLock(o) \/ Requeue(o)
  BY <1>3 DEF RecLock, Requeue, LockNext
<1>4. CASE RecEnd(o)
  <2>1. {o} \in SUBSET Ops
    OBVIOUS
  <2> QED
    BY <1>4, <2>1 DEF RecEnd, LockNext
<1> QED
  BY <1>1, <1>2, <1>3, <1>4

\* Every step of the emission is a step of the lock or leaves it alone.
LEMMA EmissionStepIsLockStep == [EmissionNext]_emissionVars => [LockNext]_lockVars
<1> SUFFICES ASSUME [EmissionNext]_emissionVars PROVE [LockNext]_lockVars
  OBVIOUS
<1> USE DEF Threads
<1>1. ASSUME NEW o \in Ops, OpStep(o) PROVE [LockNext]_lockVars
  BY <1>1, LockKept, LockTaken DEF OpStep, Prepared, Sending, Enqueuing, Reconciling
<1>2. ASSUME NEW t \in Threads, Applying(t) PROVE [LockNext]_lockVars
  BY <1>2, LockKept DEF Applying
<1>3. ASSUME NEW h \in Hooks, HookReceive(h) PROVE [LockNext]_lockVars
  BY <1>3, LockKept
<1>4. CASE RetryFires \/ FisAdvance \/ ClaimExpires \/ LockExpires
  BY <1>4 DEF RetryFires, FisAdvance, ClaimExpires, LockExpires, LockNext
<1>5. CASE Failing
  <2>1. CASE \E o \in Ops : FetchFails(o) \/ EmitFails(o) \/ PushFails(o)
    BY <2>1, LockKept
  <2>2. CASE \E h \in Hooks : HookLookupFails(h) \/ HookApplyFails(h)
    BY <2>2, LockKept
  <2>3. CASE LoseHook
    BY <2>3 DEF LoseHook
  <2>4. ASSUME NEW G \in CrashGroups, Crash(G) PROVE [LockNext]_lockVars
    <3>1. G \cap Ops \in SUBSET Ops
      OBVIOUS
    <3> QED
      BY <2>4, <3>1 DEF Crash, LockNext
  <2> QED
    BY <1>5, <2>1, <2>2, <2>3, <2>4 DEF Failing
<1>6. CASE UNCHANGED emissionVars
  BY <1>6 DEF emissionVars
<1> QED
  BY <1>1, <1>2, <1>3, <1>4, <1>5, <1>6 DEF EmissionNext

\* The emission implements the lock protocol it is built on, so whatever
\* FiscalLock guarantees holds of it.
THEOREM EmissionImplementsLock == EmissionSpec => LockSpec
<1>1. EmissionInit => LockInit
  BY DEF EmissionInit
<1> QED
  BY <1>1, EmissionStepIsLockStep, PTL DEF EmissionSpec, LockSpec

-----------------------------------------------------------------------------
\* Where each thread can be: a synchronisation only ever returns to these
\* statements.
SyncTargets == {"idle", "recheck", "classify", "settled", "release", "abort", "wait",
                "recEnd", "done"}

ControlOK ==
  /\ pc \in [Threads -> Labels]
  /\ then \in [Threads -> SyncTargets]
  /\ phase \in [Ops -> Phases]

\* Every step keeps the control states.
LEMMA ControlStep == ControlOK /\ [EmissionNext]_emissionVars => ControlOK'
<1> SUFFICES ASSUME ControlOK, [EmissionNext]_emissionVars PROVE ControlOK'
  OBVIOUS
<1>0. phase' \in [Ops -> Phases]
  <2>1. [LockNext]_lockVars
    BY EmissionStepIsLockStep
  <2> QED
    BY <2>1 DEF ControlOK, LockNext, lockVars, Phases, Acquire, Refuse, Release, NestedRefusal,
               NestedAcquire, NestedRelease, Abandon, Expire
<1> USE <1>0 DEF ControlOK, Threads, Labels, SyncTargets, At, Go, Sync, Finish, Missed, Fault,
                 db, net, jobs, caps, local
<1>1. ASSUME NEW o \in Ops, Prepared(o) PROVE ControlOK'
  BY <1>1 DEF Prepared, Presync, Recheck, PrepareAcquire, PrepareRefuse, Refused, Fetch,
              FetchMiss, Classify
<1>2. ASSUME NEW o \in Ops, Sending(o) PROVE ControlOK'
  <2>1. CASE Reserve(o) \/ SendGuard(o) \/ Mark(o) \/ Emit(o) \/ FailRow(o)
    BY <2>1 DEF Reserve, SendGuard, Mark, Emit, FailRow
  <2>2. CASE Persist(o) \/ PersistWrite(o) \/ SaleCheck(o) \/ SaleWrite(o)
    <3>1. CASE Persist(o)
      <4>1. \/ pc' = [pc EXCEPT ![o] = AfterPersist(o)]
            \/ pc' = [pc EXCEPT ![o] = "persistWrite"]
        BY <3>1 DEF Persist
      <4>2. UNCHANGED <<lockVars, reserved, net, jobs, then>>
        BY <3>1 DEF Persist
      <4> QED
        BY <3>1, <4>1, <4>2 DEF Persist, AfterPersist
    <3>2. CASE PersistWrite(o)
      BY <3>2 DEF PersistWrite
    <3>3. CASE SaleCheck(o) \/ SaleWrite(o)
      BY <3>3 DEF SaleCheck, SaleWrite, AfterPersist
    <3> QED
      BY <2>2, <3>1, <3>2, <3>3
  <2>3. CASE Settle(o)
    BY <2>3 DEF Settle
  <2>4. CASE SettleWrite(o) \/ Settled(o) \/ MarkSent(o)
    BY <2>4 DEF SettleWrite, Settled, MarkSent
  <2>5. CASE FinishPrepared(o) \/ Resync(o) \/ WaitPoll(o) \/ WaitEnds(o)
    BY <2>5 DEF FinishPrepared, Resync, WaitPoll, WaitEnds
  <2> QED
    BY <1>2, <2>1, <2>2, <2>3, <2>4, <2>5 DEF Sending
<1>3. ASSUME NEW o \in Ops, Enqueuing(o) \/ Pop(o) PROVE ControlOK'
  <2>1. CASE Unlock(o) \/ TryClaim(o)
    BY <2>1 DEF Unlock, TryClaim
  <2>2. CASE EnqueueTx(o)
    BY <2>2 DEF EnqueueTx
  <2>3. CASE Push(o) \/ PushFailedRow(o) \/ DropClaim(o)
    BY <2>3 DEF Push, PushFailedRow, DropClaim
  <2>4. CASE PushedSale(o) \/ Pop(o)
    BY <2>4 DEF PushedSale, Pop
  <2> QED
    BY <1>3, <2>1, <2>2, <2>3, <2>4 DEF Enqueuing
<1>4. ASSUME NEW o \in Ops, Reconciling(o) PROVE ControlOK'
  BY <1>4 DEF Reconciling, RecSelect, RecLock, RecCheck, RecEnd, Requeue, RecRelease
<1>5. ASSUME NEW t \in Threads, Applying(t) PROVE ControlOK'
  <2>1. CASE ApplyRead(t) \/ ApplySave(t)
    BY <2>1 DEF ApplyRead, ApplySave
  <2>2. CASE SyncSale(t)
    <3>1. then[t] \in Labels
      OBVIOUS
    <3> QED
      BY <2>2, <3>1 DEF SyncSale
  <2> QED
    BY <1>5, <2>1, <2>2 DEF Applying
<1>6. ASSUME NEW h \in Hooks, HookReceive(h) PROVE ControlOK'
  BY <1>6 DEF HookReceive
<1>7. CASE RetryFires \/ FisAdvance \/ ClaimExpires \/ LockExpires
  BY <1>7 DEF RetryFires, FisAdvance, ClaimExpires, LockExpires
<1>8. CASE Failing
  <2>1. ASSUME NEW o \in Ops, FetchFails(o) \/ EmitFails(o) \/ PushFails(o) PROVE ControlOK'
    BY <2>1 DEF FetchFails, EmitFails, PushFails
  <2>2. ASSUME NEW h \in Hooks, HookLookupFails(h) \/ HookApplyFails(h) PROVE ControlOK'
    BY <2>2 DEF HookLookupFails, HookApplyFails
  <2>3. CASE LoseHook
    BY <2>3 DEF LoseHook
  <2>4. ASSUME NEW G \in CrashGroups, Crash(G) PROVE ControlOK'
    BY <2>4 DEF Crash
  <2> QED
    BY <1>8, <2>1, <2>2, <2>3, <2>4 DEF Failing
<1>9. CASE UNCHANGED emissionVars
  BY <1>9 DEF emissionVars, lockVars
<1> QED
  BY <1>1, <1>2, <1>3, <1>4, <1>5, <1>6, <1>7, <1>8, <1>9 DEF EmissionNext, OpStep

-----------------------------------------------------------------------------
\* Reservation before emission.

\* Statements from which an operation emits or queues the sale.
Committed == {"guard", "mark", "emit", "unlock", "claim", "tx", "push"}

\* Until the slot is consumed the document is nowhere and nobody is about to
\* emit or queue it: no worker has a job, no other operation is past Reserve.
ReservationInv ==
  ~reserved => /\ fis = "none"
               /\ queue = 0 /\ retries = 0
               /\ \A o \in Workers : pc[o] = "idle"
               /\ \A o \in Ops : pc[o] \notin Committed

\* Every step keeps what is known of the reservation.
LEMMA ReservationStep ==
  ControlOK /\ ReservationInv /\ [EmissionNext]_emissionVars => ReservationInv'
<1> SUFFICES ASSUME ControlOK, ReservationInv, [EmissionNext]_emissionVars, ~reserved'
             PROVE  ReservationInv'
  BY DEF ReservationInv
<1> USE OpsAssumption
    DEF ControlOK, ReservationInv, Threads, SyncTargets, Committed, At, Go, Sync, Finish, Missed,
        Fault, db, net, jobs, caps, local
<1>1. ASSUME NEW o \in Ops, Prepared(o) PROVE ReservationInv'
  <2>1. CASE Presync(o) \/ Recheck(o)
    BY <2>1 DEF Presync, Recheck
  <2>2. CASE PrepareAcquire(o) \/ PrepareRefuse(o) \/ Refused(o)
    BY <2>2 DEF PrepareAcquire, PrepareRefuse, Refused
  <2>3. CASE Fetch(o)
    BY <2>3 DEF Fetch
  <2>4. CASE FetchMiss(o)
    BY <2>4 DEF FetchMiss
  <2>5. CASE Classify(o)
    BY <2>5 DEF Classify
  <2> QED
    BY <1>1, <2>1, <2>2, <2>3, <2>4, <2>5 DEF Prepared
<1>2. ASSUME NEW o \in Ops, Sending(o) PROVE ReservationInv'
  <2>1. CASE Reserve(o) \/ SendGuard(o) \/ Mark(o) \/ Emit(o) \/ FailRow(o)
    BY <2>1 DEF Reserve, SendGuard, Mark, Emit, FailRow
  <2>2. CASE Persist(o) \/ PersistWrite(o) \/ SaleCheck(o) \/ SaleWrite(o)
    <3>1. CASE Persist(o)
      <4>1. \/ pc' = [pc EXCEPT ![o] = AfterPersist(o)]
            \/ pc' = [pc EXCEPT ![o] = "persistWrite"]
        BY <3>1 DEF Persist
      <4>2. UNCHANGED <<lockVars, reserved, net, jobs, then>>
        BY <3>1 DEF Persist
      <4> QED
        BY <3>1, <4>1, <4>2 DEF Persist, AfterPersist
    <3>2. CASE PersistWrite(o)
      BY <3>2 DEF PersistWrite
    <3>3. CASE SaleCheck(o) \/ SaleWrite(o)
      BY <3>3 DEF SaleCheck, SaleWrite, AfterPersist
    <3> QED
      BY <2>2, <3>1, <3>2, <3>3
  <2>3. CASE Settle(o)
    BY <2>3 DEF Settle
  <2>4. CASE SettleWrite(o) \/ Settled(o) \/ MarkSent(o)
    BY <2>4 DEF SettleWrite, Settled, MarkSent
  <2>5. CASE FinishPrepared(o) \/ Resync(o) \/ WaitPoll(o) \/ WaitEnds(o)
    BY <2>5 DEF FinishPrepared, Resync, WaitPoll, WaitEnds
  <2> QED
    BY <1>2, <2>1, <2>2, <2>3, <2>4, <2>5 DEF Sending
<1>3. ASSUME NEW o \in Ops, Enqueuing(o) \/ Pop(o) PROVE ReservationInv'
  <2>1. CASE Unlock(o) \/ TryClaim(o) \/ EnqueueTx(o) \/ Push(o)
    BY <2>1 DEF Unlock, TryClaim, EnqueueTx, Push
  <2>2. CASE PushFailedRow(o) \/ DropClaim(o) \/ PushedSale(o)
    BY <2>2 DEF PushFailedRow, DropClaim, PushedSale
  <2>3. CASE Pop(o)
    BY <2>3 DEF Pop
  <2> QED
    BY <1>3, <2>1, <2>2, <2>3 DEF Enqueuing
<1>4. ASSUME NEW o \in Ops, Reconciling(o) PROVE ReservationInv'
  <2>1. CASE RecSelect(o) \/ RecLock(o) \/ RecCheck(o)
    BY <2>1 DEF RecSelect, RecLock, RecCheck
  <2>2. CASE RecEnd(o) \/ Requeue(o) \/ RecRelease(o)
    BY <2>2 DEF RecEnd, Requeue, RecRelease
  <2> QED
    BY <1>4, <2>1, <2>2 DEF Reconciling
<1>5. ASSUME NEW t \in Threads, Applying(t) PROVE ReservationInv'
  <2>1. CASE ApplyRead(t) \/ ApplySave(t)
    BY <2>1 DEF ApplyRead, ApplySave
  <2>2. CASE SyncSale(t)
    BY <2>2 DEF SyncSale
  <2> QED
    BY <1>5, <2>1, <2>2 DEF Applying
<1>6. ASSUME NEW h \in Hooks, HookReceive(h) PROVE ReservationInv'
  BY <1>6 DEF HookReceive
<1>7. CASE RetryFires \/ FisAdvance \/ ClaimExpires \/ LockExpires
  BY <1>7 DEF RetryFires, FisAdvance, ClaimExpires, LockExpires
<1>8. CASE Failing
  <2>1. ASSUME NEW o \in Ops, FetchFails(o) \/ EmitFails(o) \/ PushFails(o) PROVE ReservationInv'
    BY <2>1 DEF FetchFails, EmitFails, PushFails
  <2>2. ASSUME NEW h \in Hooks, HookLookupFails(h) \/ HookApplyFails(h) PROVE ReservationInv'
    BY <2>2 DEF HookLookupFails, HookApplyFails
  <2>3. CASE LoseHook
    BY <2>3 DEF LoseHook
  <2>4. ASSUME NEW G \in CrashGroups, Crash(G) PROVE ReservationInv'
    BY <2>4 DEF Crash
  <2> QED
    BY <1>8, <2>1, <2>2, <2>3, <2>4 DEF Failing
<1>9. CASE UNCHANGED emissionVars
  BY <1>9 DEF emissionVars
<1> QED
  BY <1>1, <1>2, <1>3, <1>4, <1>5, <1>6, <1>7, <1>8, <1>9 DEF EmissionNext, OpStep

\* No document reaches the queue or the facturador before its quota slot has
\* been consumed.
THEOREM EmissionReserved == EmissionSpec => []EmissionIsReserved
<1>1. EmissionInit => ControlOK /\ ReservationInv
  BY OpsAssumption DEF EmissionInit, LockInit, ControlOK, ReservationInv, Threads, Labels,
                       SyncTargets, Phases, Committed
<1>2. ControlOK /\ ReservationInv /\ [EmissionNext]_emissionVars => (ControlOK /\ ReservationInv)'
  BY ControlStep, ReservationStep
<1>3. ReservationInv => EmissionIsReserved
  BY DEF ReservationInv, EmissionIsReserved
<1> QED
  BY <1>1, <1>2, <1>3, PTL DEF EmissionSpec

-----------------------------------------------------------------------------
\* Mutual exclusion of emissions.

\* Statements between TryAcquire and the record of the emission.
Deciding == {"classify", "reserve", "guard", "mark", "emit", "persist", "persistWrite",
             "saleCheck", "saleWrite", "settle", "settleWrite"}

\* An operation only decides, reserves and emits inside the critical section.
PhaseInv ==
  \A o \in Ops :
    \/ pc[o] \in Deciding
    \/ pc[o] \in {"fetch", "read", "save", "sale"} /\ then[o] = "classify"
    => phase[o] = "inside"

\* Every step keeps the threads that emit inside the lock.
LEMMA PhaseStep ==
  ControlOK /\ PhaseInv /\ [EmissionNext]_emissionVars => PhaseInv'
<1> SUFFICES ASSUME ControlOK, PhaseInv, [EmissionNext]_emissionVars
             PROVE  PhaseInv'
  OBVIOUS
<1> USE OpsAssumption
    DEF ControlOK, PhaseInv, Threads, SyncTargets, Deciding, At, Go, Sync, Finish, Missed, local
<1>a. ASSUME UNCHANGED lockVars PROVE phase' = phase
  BY <1>a DEF lockVars
<1>1. ASSUME NEW o \in Ops, Prepared(o) PROVE PhaseInv'
  <2>1. CASE Presync(o) \/ Recheck(o)
    BY <1>a, <2>1 DEF Presync, Recheck
  <2>2. CASE PrepareAcquire(o) \/ PrepareRefuse(o) \/ Refused(o)
    BY <2>2 DEF PrepareAcquire, PrepareRefuse, Refused, Acquire, Refuse, Release
  <2>3. CASE Fetch(o)
    BY <1>a, <2>3 DEF Fetch
  <2>4. CASE FetchMiss(o)
    BY <1>a, <2>4 DEF FetchMiss
  <2>5. CASE Classify(o)
    BY <1>a, <2>5 DEF Classify
  <2> QED
    BY <1>1, <2>1, <2>2, <2>3, <2>4, <2>5 DEF Prepared
<1>2. ASSUME NEW o \in Ops, Sending(o) PROVE PhaseInv'
  <2>1. CASE Reserve(o) \/ SendGuard(o) \/ Mark(o) \/ Emit(o) \/ FailRow(o)
    BY <1>a, <2>1 DEF Reserve, SendGuard, Mark, Emit, FailRow
  <2>2. CASE Persist(o) \/ PersistWrite(o) \/ SaleCheck(o) \/ SaleWrite(o)
    <3>1. CASE Persist(o)
      <4>1. \/ pc' = [pc EXCEPT ![o] = AfterPersist(o)]
            \/ pc' = [pc EXCEPT ![o] = "persistWrite"]
        BY <3>1 DEF Persist
      <4>2. UNCHANGED <<lockVars, reserved, net, jobs, then>>
        BY <3>1 DEF Persist
      <4> QED
        BY <1>a, <3>1, <4>1, <4>2 DEF Persist, AfterPersist
    <3>2. CASE PersistWrite(o)
      BY <1>a, <3>2 DEF PersistWrite
    <3>3. CASE SaleCheck(o) \/ SaleWrite(o)
      BY <1>a, <3>3 DEF SaleCheck, SaleWrite, AfterPersist
    <3> QED
      BY <2>2, <3>1, <3>2, <3>3
  <2>3. CASE Settle(o)
    BY <1>a, <2>3 DEF Settle
  <2>4. CASE SettleWrite(o) \/ Settled(o) \/ MarkSent(o)
    <3>1. CASE SettleWrite(o)
      BY <1>a, <3>1 DEF SettleWrite
    <3>2. CASE Settled(o)
      BY <1>a, <3>2 DEF Settled
    <3>3. CASE MarkSent(o)
      BY <1>a, <3>3 DEF MarkSent
    <3> QED
      BY <2>4, <3>1, <3>2, <3>3
  <2>5. CASE FinishPrepared(o)
    BY <2>5 DEF FinishPrepared, Release, NestedRelease
  <2>6. CASE Resync(o) \/ WaitPoll(o) \/ WaitEnds(o)
    BY <1>a, <2>6 DEF Resync, WaitPoll, WaitEnds
  <2> QED
    BY <1>2, <2>1, <2>2, <2>3, <2>4, <2>5, <2>6 DEF Sending
<1>3. ASSUME NEW o \in Ops, Enqueuing(o) \/ Pop(o) PROVE PhaseInv'
  <2>1. CASE Unlock(o)
    BY <2>1 DEF Unlock, Release, NestedRelease
  <2>2. CASE TryClaim(o)
    BY <1>a, <2>2 DEF TryClaim
  <2>3. CASE EnqueueTx(o)
    <3>1. phase' = phase /\ then' = then
      BY <1>a, <2>3 DEF EnqueueTx
    <3>2. pc' = [pc EXCEPT ![o] = "dropClaim"] \/ pc' = [pc EXCEPT ![o] = "push"]
      BY <2>3 DEF EnqueueTx
    <3> QED
      BY <3>1, <3>2
  <2>4. CASE Push(o) \/ Pop(o)
    BY <1>a, <2>4 DEF Push, Pop
  <2>5. CASE PushFailedRow(o) \/ DropClaim(o) \/ PushedSale(o)
    BY <1>a, <2>5 DEF PushFailedRow, DropClaim, PushedSale
  <2> QED
    BY <1>3, <2>1, <2>2, <2>3, <2>4, <2>5 DEF Enqueuing
<1>4. ASSUME NEW o \in Ops, Reconciling(o) PROVE PhaseInv'
  <2>1. CASE RecSelect(o) \/ RecCheck(o)
    BY <1>a, <2>1 DEF RecSelect, RecCheck
  <2>2. CASE RecLock(o) \/ RecRelease(o)
    BY <1>a, <2>2 DEF RecLock, RecRelease, Acquire, Release
  <2>3. CASE RecEnd(o)
    BY <1>a, <2>3 DEF RecEnd, Abandon
  <2>4. CASE Requeue(o)
    BY <1>a, <2>4 DEF Requeue, NestedRefusal, NestedAcquire
  <2> QED
    BY <1>4, <2>1, <2>2, <2>3, <2>4 DEF Reconciling
<1>5. ASSUME NEW t \in Threads, Applying(t) PROVE PhaseInv'
  <2>1. CASE ApplyRead(t) \/ ApplySave(t)
    <3>1. CASE ApplyRead(t)
      BY <1>a, <3>1 DEF ApplyRead
    <3>2. CASE ApplySave(t)
      BY <1>a, <3>2 DEF ApplySave
    <3> QED
      BY <2>1, <3>1, <3>2
  <2>2. CASE SyncSale(t)
    BY <1>a, <2>2 DEF SyncSale
  <2> QED
    BY <1>5, <2>1, <2>2 DEF Applying
<1>6. ASSUME NEW h \in Hooks, HookReceive(h) PROVE PhaseInv'
  BY <1>a, <1>6 DEF HookReceive
<1>7. CASE RetryFires \/ FisAdvance \/ ClaimExpires \/ LockExpires
  BY <1>a, <1>7 DEF RetryFires, FisAdvance, ClaimExpires, LockExpires, Expire
<1>8. CASE Failing
  <2>1. ASSUME NEW o \in Ops, FetchFails(o) \/ EmitFails(o) \/ PushFails(o) PROVE PhaseInv'
    BY <1>a, <2>1 DEF FetchFails, EmitFails, PushFails
  <2>2. ASSUME NEW h \in Hooks, HookLookupFails(h) \/ HookApplyFails(h) PROVE PhaseInv'
    BY <1>a, <2>2 DEF HookLookupFails, HookApplyFails
  <2>3. CASE LoseHook
    BY <1>a, <2>3 DEF LoseHook
  <2>4. ASSUME NEW G \in CrashGroups, Crash(G) PROVE PhaseInv'
    BY <2>4 DEF Crash, Abandon
  <2> QED
    BY <1>8, <2>1, <2>2, <2>3, <2>4 DEF Failing
<1>9. CASE UNCHANGED emissionVars
  BY <1>a, <1>9 DEF emissionVars
<1> QED
  BY <1>1, <1>2, <1>3, <1>4, <1>5, <1>6, <1>7, <1>8, <1>9 DEF EmissionNext, OpStep

\* Duplicate-emission protection: with operations of distinct sources that
\* end within the TTL of the lock, no two emit the sale at the same time.
THEOREM EmissionExclusive == EmissionSpec => []NoConcurrentEmission
<1>1. EmissionInit => ControlOK /\ PhaseInv
  BY OpsAssumption DEF EmissionInit, LockInit, ControlOK, PhaseInv, Threads, Labels,
                       SyncTargets, Phases, Deciding
<1>2. ControlOK /\ PhaseInv /\ [EmissionNext]_emissionVars => (ControlOK /\ PhaseInv)'
  BY ControlStep, PhaseStep
<1>3. PhaseInv /\ MutualExclusion => NoConcurrentEmission
  BY DEF PhaseInv, MutualExclusion, NoConcurrentEmission, Emitting, Inside, Deciding
<1> QED
  BY <1>1, <1>2, <1>3, EmissionImplementsLock, Exclusion, PTL DEF EmissionSpec

\* Of the operations inside the critical section, at most one owns the key.
COROLLARY EmissionOneOwner == EmissionSpec => []OneOwnerInside
<1> QED
  BY EmissionImplementsLock, OneOwner, PTL

-----------------------------------------------------------------------------
\* Type correctness.

\* The derived statuses are statuses.
LEMMA DerivedTypes ==
  ASSUME NEW p \in Pipelines
  PROVE  /\ LegacyBillingStatus(p) \in BillingStatuses
         /\ LegacySunatStatus(p) \in SunatStatuses
         /\ JobStatusFromPipeline(p) \in JobStatuses
<1>1. LegacyBillingStatus(p) \in BillingStatuses
  BY DEF LegacyBillingStatus, BillingStatuses
<1>2. LegacySunatStatus(p) \in SunatStatuses
  BY DEF LegacySunatStatus, SunatStatuses
<1>3. JobStatusFromPipeline(p) \in JobStatuses
  BY DEF JobStatusFromPipeline, JobStatuses
<1> QED
  BY <1>1, <1>2, <1>3

\* Every facturador status maps to a stage and a code.
LEMMA MappedTypes ==
  ASSUME NEW s \in FiscalStatuses
  PROVE  CodeOf(s) \in SunatCodes /\ MapFiscalStatusToPipeline(s, CodeOf(s)) \in Pipelines
<1>1. CodeOf(s) \in SunatCodes
  BY DEF CodeOf, SunatCodes
<1>2. MapFiscalStatusToPipeline(s, CodeOf(s)) \in Pipelines
  BY DEF CodeOf, MapFiscalStatusToPipeline, Pipelines, InFlight, Terminal, FiscalStatuses
<1> QED
  BY <1>1, <1>2

\* A new row is a row.
LEMMA NewInvoiceType ==
  ASSUME NEW p \in Pipelines, NEW ext \in BOOLEAN
  PROVE  NewInvoice(p, ext) \in InvoiceRows
BY DerivedTypes DEF NewInvoice, InvoiceRows, SunatCodes

\* The missing row has the type of a row.
LEMMA NoInvoiceType == NoInvoice \in InvoiceRows
<1>1. NewInvoice("DRAFT", FALSE) \in InvoiceRows
  BY NewInvoiceType DEF Pipelines
<1> QED
  BY <1>1 DEF NoInvoice, InvoiceRows

\* ApplyStatus turns a row into a row.
LEMMA AppliedRowType ==
  ASSUME NEW r \in InvoiceRows, NEW s \in FiscalStatuses
  PROVE  AppliedRow(r, s) \in InvoiceRows
<1> DEFINE mapped == MapFiscalStatusToPipeline(s, CodeOf(s))
           p == IF CanTransition(r.pipeline, mapped) THEN mapped ELSE r.pipeline
           code == IF CodeOf(s) # "" THEN CodeOf(s) ELSE r.code
           files == r.files \/ s \in {"accepted", "observed"}
           sent == r.sent \/ p \notin {"DRAFT", "PENDING_QUEUE"}
<1>1. p \in Pipelines /\ code \in SunatCodes
  BY MappedTypes DEF InvoiceRows
<1>2. JobStatusFromPipeline(p) \in JobStatuses /\ LegacySunatStatus(p) \in SunatStatuses
  BY <1>1, DerivedTypes
<1>3. AppliedRow(r, s) = [r EXCEPT !.ext = TRUE, !.pipeline = p,
                                   !.job = JobStatusFromPipeline(p),
                                   !.sunat = LegacySunatStatus(p),
                                   !.code = code, !.files = files, !.sent = sent]
  BY DEF AppliedRow
<1>4. files \in BOOLEAN /\ sent \in BOOLEAN
  BY DEF InvoiceRows
<1> HIDE DEF p, code, files, sent
<1> QED
  BY <1>1, <1>2, <1>3, <1>4 DEF InvoiceRows

\* The part of the type invariant about rows, messages and counters.
DataOK ==
  /\ inv \in InvoiceRows
  /\ sale \in BillingStatuses
  /\ reserved \in BOOLEAN
  /\ fis \in FiscalStatuses
  /\ wire \subseteq FiscalStatuses
  /\ dedup \subseteq FiscalStatuses
  /\ queue \in Nat /\ claim \in BOOLEAN /\ retries \in Nat
  /\ faults \in Nat /\ claimTTLs \in Nat
  /\ row \in [Threads -> InvoiceRows]
  /\ pay \in [Threads -> FiscalStatuses]
  /\ seen \in [Threads -> BillingStatuses]

\* Columns of a row updated with values of their types leave a row.
LEMMA RowUpdate ==
  ASSUME NEW r \in InvoiceRows, NEW p \in Pipelines, NEW j \in JobStatuses
  PROVE  /\ [r EXCEPT !.job = j] \in InvoiceRows
         /\ [r EXCEPT !.pipeline = p, !.job = j] \in InvoiceRows
BY DEF InvoiceRows

\* Every step writes rows and statuses of their types.
LEMMA DataStep == ControlOK /\ DataOK /\ [EmissionNext]_emissionVars => DataOK'
<1> SUFFICES ASSUME ControlOK, DataOK, [EmissionNext]_emissionVars PROVE DataOK'
  OBVIOUS
<1> USE EmissionAssumption
    DEF ControlOK, DataOK, Threads, At, Fault, db, net, jobs, caps, local
<1>0. /\ "PENDING_FISCAL" \in Pipelines /\ "PROCESSING" \in Pipelines /\ "FAILED" \in Pipelines
      /\ "UNKNOWN" \in Pipelines /\ "SUNAT_ACCEPTED" \in Pipelines
      /\ "FACTURADOR_RECEIVED" \in Pipelines
      /\ "pending" \in JobStatuses /\ "processing" \in JobStatuses
      /\ "sent" \in JobStatuses /\ "failed" \in JobStatuses
  BY DEF Pipelines, Terminal, InFlight, JobStatuses
<1>1. ASSUME NEW o \in Ops, Prepared(o) PROVE DataOK'
  <2>1. CASE Presync(o) \/ Recheck(o) \/ PrepareAcquire(o) \/ PrepareRefuse(o) \/ Classify(o)
    BY <2>1 DEF Presync, Recheck, PrepareAcquire, PrepareRefuse, Classify
  <2>2. CASE Refused(o)
    BY <2>2 DEF Refused
  <2>3. CASE Fetch(o)
    <3>1. Fetched(o) \subseteq FiscalStatuses
      BY DEF Fetched, FiscalStatuses
    <3>2. inv' \in InvoiceRows
      BY <2>3, RowUpdate DEF Fetch, InvoiceRows
    <3> QED
      BY <2>3, <3>1, <3>2 DEF Fetch
  <2>4. CASE FetchMiss(o)
    <3>1. inv' \in InvoiceRows
      BY <2>4 DEF FetchMiss, InvoiceRows
    <3> QED
      BY <2>4, <3>1 DEF FetchMiss
  <2> QED
    BY <1>1, <2>1, <2>2, <2>3, <2>4 DEF Prepared
<1>2. ASSUME NEW o \in Ops, Sending(o) PROVE DataOK'
  <2>1. CASE Reserve(o) \/ SendGuard(o)
    BY <2>1 DEF Reserve, SendGuard
  <2>2. CASE Mark(o)
    <3>1. inv' \in InvoiceRows
      BY <1>0, <2>2, RowUpdate DEF Mark
    <3> QED
      BY <2>2, <3>1 DEF Mark
  <2>3. CASE Emit(o)
    BY <2>3 DEF Emit, FisReceives, FiscalStatuses
  <2>4. CASE FailRow(o)
    <3>1. inv' \in InvoiceRows
      BY <1>0, <2>4, RowUpdate DEF FailRow
    <3>2. [NoInvoice EXCEPT !.pipeline = "FAILED"] \in InvoiceRows
      BY <1>0, NoInvoiceType DEF InvoiceRows
    <3> QED
      BY <2>4, <3>1, <3>2 DEF FailRow
  <2>5. CASE Persist(o)
    <3>0. NewInvoice("PENDING_FISCAL", FALSE) \in InvoiceRows
      BY <1>0, NewInvoiceType
    <3> DEFINE read == IF inv.exists THEN inv ELSE NewInvoice("PENDING_FISCAL", FALSE)
    <3>2. read \in InvoiceRows
      BY <3>0
    <3>3. inv' \in {read, [read EXCEPT !.ext = TRUE]}
      BY <2>5 DEF Persist
    <3> HIDE DEF read
    <3>1. inv' \in InvoiceRows
      BY <3>2, <3>3 DEF InvoiceRows
    <3> QED
      BY <2>5, <3>1 DEF Persist
  <2>6. CASE PersistWrite(o)
    <3>1. inv' \in InvoiceRows
      BY <1>0, <2>6 DEF PersistWrite, InvoiceRows, SunatStatuses
    <3> QED
      BY <2>6, <3>1 DEF PersistWrite
  <2>7. CASE SaleCheck(o) \/ SaleWrite(o)
    <3>1. LegacyBillingStatus("PENDING_FISCAL") \in BillingStatuses
      BY <1>0, DerivedTypes
    <3> QED
      BY <2>7, <3>1 DEF SaleCheck, SaleWrite
  <2>8. CASE Settle(o)
    <3>1. /\ [inv EXCEPT !.pipeline = "SUNAT_ACCEPTED", !.job = "sent"] \in InvoiceRows
          /\ [inv EXCEPT !.job = "failed"] \in InvoiceRows
          /\ [inv EXCEPT !.pipeline = "UNKNOWN", !.job = "failed"] \in InvoiceRows
      BY <1>0, RowUpdate
    <3>2. row' \in [Threads -> InvoiceRows]
      BY <2>8, <3>1 DEF Settle
    <3> QED
      BY <2>8, <3>2 DEF Settle
  <2>9. CASE SettleWrite(o)
    <3>1. row[o].job \in JobStatuses /\ row[o].pipeline \in Pipelines
      BY DEF InvoiceRows
    <3>2. inv' \in InvoiceRows
      BY <2>9, <3>1 DEF SettleWrite, InvoiceRows
    <3> QED
      BY <2>9, <3>2 DEF SettleWrite
  <2>10. CASE MarkSent(o)
    <3>1. inv' \in InvoiceRows
      BY <1>0, <2>10, RowUpdate DEF MarkSent
    <3> QED
      BY <2>10, <3>1 DEF MarkSent
  <2>11. CASE Settled(o) \/ FinishPrepared(o) \/ Resync(o) \/ WaitPoll(o) \/ WaitEnds(o)
    BY <2>11 DEF Settled, FinishPrepared, Resync, WaitPoll, WaitEnds
  <2> QED
    BY <1>2, <2>1, <2>2, <2>3, <2>4, <2>5, <2>6, <2>7, <2>8, <2>9, <2>10, <2>11 DEF Sending
<1>3. ASSUME NEW o \in Ops, Enqueuing(o) \/ Pop(o) PROVE DataOK'
  <2>1. CASE Unlock(o) \/ TryClaim(o) \/ DropClaim(o)
    BY <2>1 DEF Unlock, TryClaim, DropClaim
  <2>5. CASE Push(o) \/ Pop(o)
    BY <2>5 DEF Push, Pop
  <2>2. CASE EnqueueTx(o)
    <3>0. NewInvoice("PENDING_FISCAL", FALSE) \in InvoiceRows
      BY <1>0, NewInvoiceType
    <3>1. inv' \in InvoiceRows
      BY <1>0, <2>2, <3>0 DEF EnqueueTx, InvoiceRows
    <3> QED
      BY <2>2, <3>1 DEF EnqueueTx
  <2>3. CASE PushFailedRow(o)
    <3>1. inv' \in InvoiceRows
      BY <1>0, <2>3, RowUpdate DEF PushFailedRow
    <3> QED
      BY <2>3, <3>1 DEF PushFailedRow
  <2>4. CASE PushedSale(o)
    <3>1. LegacyBillingStatus("PENDING_FISCAL") \in BillingStatuses
      BY <1>0, DerivedTypes
    <3> QED
      BY <2>4, <3>1 DEF PushedSale
  <2> QED
    BY <1>3, <2>1, <2>2, <2>3, <2>4, <2>5 DEF Enqueuing
<1>4. ASSUME NEW o \in Ops, Reconciling(o) PROVE DataOK'
  BY <1>4 DEF Reconciling, RecSelect, RecLock, RecCheck, RecEnd, Requeue, RecRelease, BillingStatuses
<1>5. ASSUME NEW t \in Threads, Applying(t) PROVE DataOK'
  <2>1. CASE ApplyRead(t)
    <3>1. inv' \in InvoiceRows
      BY <2>1, MappedTypes, NewInvoiceType DEF ApplyRead
    <3> QED
      BY <2>1, <3>1 DEF ApplyRead
  <2>2. CASE ApplySave(t)
    <3>1. AppliedRow(row[t], pay[t]) \in InvoiceRows
      BY AppliedRowType
    <3> QED
      BY <2>2, <3>1 DEF ApplySave
  <2>3. CASE SyncSale(t)
    <3>1. row[t].pipeline \in Pipelines
      BY DEF InvoiceRows
    <3>2. LegacyBillingStatus(row[t].pipeline) \in BillingStatuses
      BY <3>1, DerivedTypes
    <3>3. "none" \in FiscalStatuses
      BY DEF FiscalStatuses
    <3> QED
      BY <2>3, <3>2, <3>3, NoInvoiceType DEF SyncSale
  <2> QED
    BY <1>5, <2>1, <2>2, <2>3 DEF Applying
<1>6. ASSUME NEW h \in Hooks, HookReceive(h) PROVE DataOK'
  BY <1>6 DEF HookReceive, FiscalStatuses
<1>7. CASE RetryFires \/ FisAdvance \/ ClaimExpires \/ LockExpires
  <2>1. CASE FisAdvance
    BY <2>1 DEF FisAdvance, FiscalStatuses
  <2>2. CASE RetryFires
    BY <2>2 DEF RetryFires
  <2>3. CASE ClaimExpires
    <3>1. claimTTLs' \in Nat
      BY <2>3 DEF ClaimExpires
    <3>2. claim' = FALSE
      BY <2>3 DEF ClaimExpires
    <3>3. UNCHANGED <<db, net, queue, retries, faults, row, pay, seen>>
      BY <2>3 DEF ClaimExpires
    <3> QED
      BY <3>1, <3>2, <3>3
  <2>4. CASE LockExpires
    BY <2>4 DEF LockExpires
  <2> QED
    BY <1>7, <2>1, <2>2, <2>3, <2>4
<1>8. CASE Failing
  <2>1. ASSUME NEW o \in Ops, FetchFails(o) \/ EmitFails(o) \/ PushFails(o) PROVE DataOK'
    <3>1. CASE FetchFails(o) \/ PushFails(o)
      BY <3>1 DEF FetchFails, PushFails
    <3>2. CASE EmitFails(o)
      <4>1. faults' \in Nat /\ claimTTLs' \in Nat
        BY <3>2 DEF EmitFails
      <4>2. fis' \in FiscalStatuses /\ wire' \subseteq FiscalStatuses /\ dedup' = dedup
        BY <3>2 DEF EmitFails, FisReceives, FiscalStatuses
      <4> QED
        BY <3>2, <4>1, <4>2 DEF EmitFails
    <3> QED
      BY <2>1, <3>1, <3>2
  <2>2. ASSUME NEW h \in Hooks, HookLookupFails(h) \/ HookApplyFails(h) PROVE DataOK'
    <3>1. faults' \in Nat /\ claimTTLs' \in Nat
      BY <2>2 DEF HookLookupFails, HookApplyFails
    <3>2. wire' \subseteq FiscalStatuses /\ dedup' \subseteq FiscalStatuses
      BY <2>2 DEF HookLookupFails, HookApplyFails
    <3>3. pay' \in [Threads -> FiscalStatuses]
      BY <2>2 DEF HookLookupFails, HookApplyFails, FiscalStatuses
    <3> QED
      BY <2>2, <3>1, <3>2, <3>3 DEF HookLookupFails, HookApplyFails
  <2>3. CASE LoseHook
    BY <2>3 DEF LoseHook
  <2>4. ASSUME NEW G \in CrashGroups, Crash(G) PROVE DataOK'
    BY <2>4, NoInvoiceType DEF Crash, FiscalStatuses, BillingStatuses
  <2> QED
    BY <1>8, <2>1, <2>2, <2>3, <2>4 DEF Failing
<1>9. CASE UNCHANGED emissionVars
  BY <1>9 DEF emissionVars
<1> QED
  BY <1>1, <1>2, <1>3, <1>4, <1>5, <1>6, <1>7, <1>8, <1>9 DEF EmissionNext, OpStep

\* Type correctness of the whole specification.
THEOREM EmissionTypeCorrect == EmissionSpec => []EmissionTypeOK
<1>1. EmissionInit => ControlOK
  BY OpsAssumption DEF EmissionInit, LockInit, ControlOK, Threads, Labels, SyncTargets, Phases
<1>2. EmissionInit => DataOK
  <2>1. NewInvoice("DRAFT", FALSE) \in InvoiceRows
    BY NewInvoiceType DEF Pipelines
  <2>2. EmissionInit => inv \in InvoiceRows
    BY <2>1, NoInvoiceType DEF EmissionInit
  <2>3. EmissionInit => row \in [Threads -> InvoiceRows]
    BY NoInvoiceType DEF EmissionInit
  <2>4. EmissionInit => /\ sale \in BillingStatuses /\ fis \in FiscalStatuses
                        /\ pay \in [Threads -> FiscalStatuses]
                        /\ seen \in [Threads -> BillingStatuses]
    BY DEF EmissionInit, BillingStatuses, FiscalStatuses
  <2>5. EmissionInit => reserved \in BOOLEAN /\ claim \in BOOLEAN
    BY DEF EmissionInit
  <2>6. EmissionInit => queue \in Nat /\ retries \in Nat /\ faults \in Nat /\ claimTTLs \in Nat
    BY DEF EmissionInit
  <2>7. EmissionInit => wire \subseteq FiscalStatuses /\ dedup \subseteq FiscalStatuses
    BY DEF EmissionInit
  <2> QED
    BY <2>2, <2>3, <2>4, <2>5, <2>6, <2>7 DEF DataOK
<1>3. ControlOK /\ DataOK /\ [EmissionNext]_emissionVars => (ControlOK /\ DataOK)'
  BY ControlStep, DataStep
<1>4. ControlOK /\ DataOK /\ LockTypeOK => EmissionTypeOK
  BY DEF ControlOK, DataOK, EmissionTypeOK, SyncTargets, Labels
<1> QED
  BY <1>1, <1>2, <1>3, <1>4, EmissionImplementsLock, LockTypeCorrect, PTL DEF EmissionSpec

-----------------------------------------------------------------------------
\* No acceptance without the facturador's.

Acceptances == {"accepted", "observed"}

\* A row that shows neither the stage nor the evidence of an acceptance.
Clean(r) == r.pipeline \notin {"SUNAT_ACCEPTED", "OBSERVED"} /\ r.code # "0"

\* Until the facturador has accepted, no row, no copy of a row held by a
\* thread, no payload and no webhook says so.
RealInv ==
  fis \notin Acceptances =>
    /\ Clean(inv) /\ sale # "accepted"
    /\ wire \cap Acceptances = {}
    /\ \A t \in Threads : Clean(row[t]) /\ pay[t] \notin Acceptances

\* The rows the code creates show no acceptance.
LEMMA CleanRows ==
  /\ Clean(NoInvoice) /\ Clean(NewInvoice("DRAFT", FALSE))
  /\ Clean(NewInvoice("PENDING_FISCAL", FALSE))
  /\ Clean([NoInvoice EXCEPT !.pipeline = "FAILED"])
BY DEF Clean, NoInvoice, NewInvoice

\* A status that is not an acceptance leaves a clean row clean.
LEMMA CleanApply ==
  ASSUME NEW r \in InvoiceRows, Clean(r), NEW s \in FiscalStatuses \ Acceptances
  PROVE  /\ Clean(AppliedRow(r, s))
         /\ Clean(NewInvoice(MapFiscalStatusToPipeline(s, CodeOf(s)), TRUE))
<1>1. CodeOf(s) # "0"
  BY DEF CodeOf, Acceptances
<1>2. MapFiscalStatusToPipeline(s, CodeOf(s)) \notin {"SUNAT_ACCEPTED", "OBSERVED"}
  BY DEF CodeOf, MapFiscalStatusToPipeline, Acceptances, FiscalStatuses
<1>3. AppliedRow(r, s).pipeline \in {r.pipeline, MapFiscalStatusToPipeline(s, CodeOf(s))}
  BY DEF AppliedRow, InvoiceRows
<1>4. AppliedRow(r, s).code \in {r.code, CodeOf(s)}
  BY DEF AppliedRow, InvoiceRows
<1> QED
  BY <1>1, <1>2, <1>3, <1>4 DEF Clean, NewInvoice

\* A sale synchronised with a clean row is not accepted.
LEMMA CleanSale ==
  ASSUME NEW r \in InvoiceRows, Clean(r)
  PROVE  LegacyBillingStatus(r.pipeline) # "accepted"
BY DEF Clean, LegacyBillingStatus, InFlight

\* No step invents an acceptance.
LEMMA RealStep ==
  ControlOK /\ DataOK /\ RealInv /\ [EmissionNext]_emissionVars => RealInv'
<1> SUFFICES ASSUME ControlOK, DataOK, RealInv, [EmissionNext]_emissionVars,
                    fis' \notin Acceptances
             PROVE  RealInv'
  BY DEF RealInv
<1>0. fis \notin Acceptances
  <2>1. FisAdvance \/ FisReceives \/ UNCHANGED fis
    <3> USE DEF net
    <3>1. ASSUME NEW o \in Ops, OpStep(o) PROVE FisReceives \/ UNCHANGED fis
      <4>1. CASE Prepared(o)
        BY <4>1 DEF Prepared, Presync, Recheck, PrepareAcquire, PrepareRefuse, Refused, Fetch,
                    FetchMiss, Classify
      <4>2. CASE Sending(o)
        BY <4>2 DEF Sending, Reserve, SendGuard, Mark, Emit, FailRow, Persist, PersistWrite,
                    SaleCheck, SaleWrite, Settle, SettleWrite, Settled, MarkSent,
                    FinishPrepared, Resync, WaitPoll, WaitEnds
      <4>3. CASE Enqueuing(o) \/ Pop(o)
        BY <4>3 DEF Enqueuing, Unlock, TryClaim, EnqueueTx, Push, PushFailedRow, DropClaim,
                    PushedSale, Pop
      <4>4. CASE Reconciling(o)
        BY <4>4 DEF Reconciling, RecSelect, RecLock, RecCheck, RecEnd, Requeue, RecRelease
      <4> QED
        BY <3>1, <4>1, <4>2, <4>3, <4>4 DEF OpStep
    <3>2. ASSUME NEW t \in Threads, Applying(t) PROVE UNCHANGED fis
      BY <3>2 DEF Applying, ApplyRead, ApplySave, SyncSale
    <3>3. ASSUME NEW h \in Hooks, HookReceive(h) PROVE UNCHANGED fis
      BY <3>3 DEF HookReceive
    <3>4. CASE RetryFires \/ FisAdvance \/ ClaimExpires \/ LockExpires
      BY <3>4 DEF RetryFires, ClaimExpires, LockExpires
    <3>5. CASE Failing
      BY <3>5 DEF Failing, FetchFails, EmitFails, PushFails, HookLookupFails, HookApplyFails,
                  LoseHook, Crash
    <3>6. CASE UNCHANGED emissionVars
      BY <3>6 DEF emissionVars
    <3> QED
      BY <3>1, <3>2, <3>3, <3>4, <3>5, <3>6 DEF EmissionNext
  <2> QED
    BY <2>1 DEF FisAdvance, FisReceives, Acceptances
<1>1. /\ Clean(inv) /\ sale # "accepted"
      /\ wire \cap Acceptances = {}
      /\ \A t \in Threads : Clean(row[t]) /\ pay[t] \notin Acceptances
  BY <1>0 DEF RealInv
<1> USE <1>0, <1>1 DEF ControlOK, DataOK, RealInv, Threads, At, net, db, local
<1>2. ASSUME NEW o \in Ops, Prepared(o) PROVE RealInv'
  <2>1. CASE \/ Presync(o) \/ Recheck(o) \/ PrepareAcquire(o) \/ PrepareRefuse(o) \/ Refused(o)
             \/ Classify(o)
    BY <2>1 DEF Presync, Recheck, PrepareAcquire, PrepareRefuse, Refused, Classify
  <2>2. CASE Fetch(o)
    <3>1. Clean(inv')
      BY <2>2 DEF Fetch, Clean, InvoiceRows
    <3>2. Fetched(o) \cap Acceptances = {}
      BY DEF Fetched, Acceptances
    <3> QED
      BY <2>2, <3>1, <3>2 DEF Fetch
  <2>3. CASE FetchMiss(o)
    <3>1. Clean(inv')
      BY <2>3 DEF FetchMiss, Clean, InvoiceRows
    <3> QED
      BY <2>3, <3>1 DEF FetchMiss
  <2> QED
    BY <1>2, <2>1, <2>2, <2>3 DEF Prepared
<1>3. ASSUME NEW o \in Ops, Sending(o) PROVE RealInv'
  <2>1. CASE \/ Reserve(o) \/ SendGuard(o) \/ SaleCheck(o) \/ Settled(o) \/ FinishPrepared(o)
             \/ Resync(o) \/ WaitPoll(o) \/ WaitEnds(o)
    BY <2>1 DEF Reserve, SendGuard, SaleCheck, Settled, FinishPrepared, Resync, WaitPoll, WaitEnds
  <2>2. CASE Mark(o) \/ PersistWrite(o) \/ MarkSent(o)
    <3>1. Clean(inv')
      BY <2>2 DEF Mark, PersistWrite, MarkSent, Clean, InvoiceRows
    <3> QED
      BY <2>2, <3>1 DEF Mark, PersistWrite, MarkSent
  <2>3. CASE Emit(o)
    BY <2>3 DEF Emit, FisReceives, Acceptances
  <2>4. CASE FailRow(o)
    <3>1. Clean(inv')
      BY <2>4 DEF FailRow, Clean, InvoiceRows
    <3> QED
      BY <2>4, <3>1, CleanRows DEF FailRow
  <2>5. CASE Persist(o)
    <3> DEFINE read == IF inv.exists THEN inv ELSE NewInvoice("PENDING_FISCAL", FALSE)
    <3>2. "PENDING_FISCAL" \in Pipelines
      BY DEF Pipelines, InFlight
    <3>3. read \in InvoiceRows /\ Clean(read)
      BY <3>2, NewInvoiceType, CleanRows
    <3>4. inv' \in {read, [read EXCEPT !.ext = TRUE]}
      BY <2>5 DEF Persist
    <3> HIDE DEF read
    <3>1. Clean(inv')
      BY <3>3, <3>4 DEF Clean, InvoiceRows
    <3> QED
      BY <2>5, <3>1 DEF Persist
  <2>6. CASE SaleWrite(o)
    BY <2>6 DEF SaleWrite, LegacyBillingStatus, InFlight
  <2>7. CASE Settle(o)
    <3>1. ~HasAcceptanceEvidence(inv)
      BY DEF HasAcceptanceEvidence, Clean
    <3>2. /\ Clean([inv EXCEPT !.job = "failed"])
          /\ Clean([inv EXCEPT !.pipeline = "UNKNOWN", !.job = "failed"])
      BY DEF Clean, InvoiceRows
    <3>3. \A t \in Threads : Clean(row'[t])
      BY <2>7, <3>1, <3>2 DEF Settle
    <3> QED
      BY <2>7, <3>3 DEF Settle
  <2>8. CASE SettleWrite(o)
    <3>1. Clean(inv')
      BY <2>8 DEF SettleWrite, Clean, InvoiceRows
    <3> QED
      BY <2>8, <3>1 DEF SettleWrite
  <2> QED
    BY <1>3, <2>1, <2>2, <2>3, <2>4, <2>5, <2>6, <2>7, <2>8 DEF Sending
<1>4. ASSUME NEW o \in Ops, Enqueuing(o) \/ Pop(o) PROVE RealInv'
  <2>1. CASE Unlock(o) \/ TryClaim(o) \/ Push(o) \/ DropClaim(o) \/ Pop(o)
    BY <2>1 DEF Unlock, TryClaim, Push, DropClaim, Pop
  <2>2. CASE EnqueueTx(o)
    <3>1. Clean(inv')
      BY <2>2, CleanRows DEF EnqueueTx, Clean, InvoiceRows
    <3> QED
      BY <2>2, <3>1 DEF EnqueueTx
  <2>3. CASE PushFailedRow(o)
    <3>1. Clean(inv')
      BY <2>3 DEF PushFailedRow, Clean, InvoiceRows
    <3> QED
      BY <2>3, <3>1 DEF PushFailedRow
  <2>4. CASE PushedSale(o)
    BY <2>4 DEF PushedSale, LegacyBillingStatus, InFlight
  <2> QED
    BY <1>4, <2>1, <2>2, <2>3, <2>4 DEF Enqueuing
<1>5. ASSUME NEW o \in Ops, Reconciling(o) PROVE RealInv'
  BY <1>5 DEF Reconciling, RecSelect, RecLock, RecCheck, RecEnd, Requeue, RecRelease
<1>6. ASSUME NEW t \in Threads, Applying(t) PROVE RealInv'
  <2>1. CASE ApplyRead(t)
    <3>1. Clean(inv')
      BY <2>1, CleanApply DEF ApplyRead
    <3> QED
      BY <2>1, <3>1 DEF ApplyRead
  <2>2. CASE ApplySave(t)
    <3>1. Clean(inv')
      BY <2>2, CleanApply DEF ApplySave
    <3> QED
      BY <2>2, <3>1 DEF ApplySave
  <2>3. CASE SyncSale(t)
    <3>1. sale' # "accepted"
      BY <2>3, CleanSale DEF SyncSale
    <3> QED
      BY <2>3, <3>1, CleanRows DEF SyncSale, Acceptances
  <2> QED
    BY <1>6, <2>1, <2>2, <2>3 DEF Applying
<1>7. ASSUME NEW h \in Hooks, HookReceive(h) PROVE RealInv'
  BY <1>7 DEF HookReceive
<1>8. CASE RetryFires \/ FisAdvance \/ ClaimExpires \/ LockExpires
  BY <1>8 DEF RetryFires, FisAdvance, ClaimExpires, LockExpires
<1>9. CASE Failing
  <2>1. ASSUME NEW o \in Ops, FetchFails(o) \/ EmitFails(o) \/ PushFails(o) PROVE RealInv'
    BY <2>1 DEF FetchFails, EmitFails, PushFails, FisReceives, Acceptances
  <2>2. ASSUME NEW h \in Hooks, HookLookupFails(h) \/ HookApplyFails(h) PROVE RealInv'
    BY <2>2 DEF HookLookupFails, HookApplyFails, Acceptances
  <2>3. CASE LoseHook
    BY <2>3 DEF LoseHook
  <2>4. ASSUME NEW G \in CrashGroups, Crash(G) PROVE RealInv'
    BY <2>4, CleanRows DEF Crash, Acceptances
  <2> QED
    BY <1>9, <2>1, <2>2, <2>3, <2>4 DEF Failing
<1>10. CASE UNCHANGED emissionVars
  BY <1>10 DEF emissionVars
<1> QED
  BY <1>2, <1>3, <1>4, <1>5, <1>6, <1>7, <1>8, <1>9, <1>10 DEF EmissionNext, OpStep

\* The ERP never shows a document as accepted that the facturador has not
\* accepted, whatever is lost, repeated, late or overwritten.
THEOREM AcceptanceIsReal == EmissionSpec => []AcceptedIsReal
<1>1. EmissionInit => RealInv
  <2>1. EmissionInit => Clean(inv)
    BY CleanRows DEF EmissionInit
  <2>2. EmissionInit => \A t \in Threads : Clean(row[t]) /\ pay[t] \notin Acceptances
    BY CleanRows DEF EmissionInit, Acceptances
  <2>3. EmissionInit => sale # "accepted" /\ wire \cap Acceptances = {}
    BY DEF EmissionInit
  <2> QED
    BY <2>1, <2>2, <2>3 DEF RealInv
<1>2. ControlOK /\ DataOK /\ RealInv => AcceptedIsReal
  BY DEF RealInv, AcceptedIsReal, Acceptances, Clean, HasAcceptanceEvidence
<1>3. EmissionTypeOK /\ ControlOK => DataOK
  BY DEF EmissionTypeOK, DataOK
<1>4. EmissionInit => ControlOK
  BY OpsAssumption DEF EmissionInit, LockInit, ControlOK, Threads, Labels, SyncTargets, Phases
<1> QED
  BY <1>1, <1>2, <1>3, <1>4, ControlStep, RealStep, EmissionTypeCorrect, PTL DEF EmissionSpec

-----------------------------------------------------------------------------
\* No sale is left waiting for a worker that will not come.

\* The row says that the sale was accepted.
Shows(r) == r.code = "0" \/ r.pipeline \in {"SUNAT_ACCEPTED", "OBSERVED"}

\* The row exists wherever it is written to, what shows an acceptance has been
\* in the facturador, and what is written after the emission awaits no worker.
RowInv ==
  /\ inv.ext => inv.exists
  /\ Shows(inv) => inv.ext
  /\ \A t \in Threads :
       /\ pc[t] \in {"fetch", "persistWrite", "saleCheck", "saleWrite", "settle"} => inv.exists
       /\ pc[t] = "save" => row[t].exists
       /\ pc[t] = "settleWrite" => row[t].job # "pending" /\ (Shows(row[t]) => inv.ext)

\* A step of the row never takes back its existence or its uuid, and leaves an
\* acceptance only beside the uuid.
RowMoves ==
  /\ inv.exists => inv.exists'
  /\ inv.ext => inv.ext'
  /\ inv.ext' => inv.exists'
  /\ Shows(inv)' => inv.ext'

\* The steps of a thread that leave the row alone.
LEMMA RowKept ==
  ASSUME NEW t \in Threads,
         \/ Presync(t) \/ Recheck(t) \/ PrepareAcquire(t) \/ PrepareRefuse(t) \/ Refused(t)
         \/ FetchFails(t) \/ Classify(t) \/ SyncSale(t)
         \/ Reserve(t) \/ SendGuard(t) \/ Emit(t) \/ EmitFails(t) \/ SaleCheck(t) \/ SaleWrite(t)
         \/ Settle(t) \/ Settled(t) \/ FinishPrepared(t) \/ Resync(t) \/ WaitPoll(t) \/ WaitEnds(t)
         \/ Unlock(t) \/ TryClaim(t) \/ Push(t) \/ PushFails(t) \/ DropClaim(t)
         \/ PushedSale(t) \/ Pop(t) \/ Reconciling(t)
         \/ HookReceive(t) \/ HookLookupFails(t) \/ HookApplyFails(t)
  PROVE  inv' = inv
<1> USE DEF db
<1>1. CASE \/ Presync(t) \/ Recheck(t) \/ PrepareAcquire(t) \/ PrepareRefuse(t) \/ Refused(t)
           \/ FetchFails(t) \/ Classify(t) \/ SyncSale(t)
  BY <1>1 DEF Presync, Recheck, PrepareAcquire, PrepareRefuse, Refused, FetchFails, Classify, SyncSale
<1>2. CASE \/ Reserve(t) \/ SendGuard(t) \/ Emit(t) \/ EmitFails(t) \/ SaleCheck(t) \/ SaleWrite(t)
  BY <1>2 DEF Reserve, SendGuard, Emit, EmitFails, SaleCheck, SaleWrite
<1>3. CASE \/ Settle(t) \/ Settled(t) \/ FinishPrepared(t) \/ Resync(t) \/ WaitPoll(t) \/ WaitEnds(t)
  BY <1>3 DEF Settle, Settled, FinishPrepared, Resync, WaitPoll, WaitEnds
<1>4. CASE \/ Unlock(t) \/ TryClaim(t) \/ Push(t) \/ PushFails(t) \/ DropClaim(t)
           \/ PushedSale(t) \/ Pop(t)
  BY <1>4 DEF Unlock, TryClaim, Push, PushFails, DropClaim, PushedSale, Pop
<1>5. CASE Reconciling(t)
  BY <1>5 DEF Reconciling, RecSelect, RecLock, RecCheck, RecEnd, Requeue, RecRelease
<1>6. CASE HookReceive(t) \/ HookLookupFails(t) \/ HookApplyFails(t)
  BY <1>6 DEF HookReceive, HookLookupFails, HookApplyFails
<1> QED
  BY <1>1, <1>2, <1>3, <1>4, <1>5, <1>6

\* The steps that write the row.
LEMMA RowWritten ==
  ASSUME ControlOK, DataOK, RowInv, NEW t \in Threads,
         \/ Fetch(t) \/ FetchMiss(t) \/ ApplyRead(t) \/ ApplySave(t) \/ Mark(t) \/ FailRow(t)
         \/ Persist(t) \/ PersistWrite(t) \/ SettleWrite(t) \/ MarkSent(t)
         \/ EnqueueTx(t) \/ PushFailedRow(t)
  PROVE  RowMoves
<1>1. /\ inv \in InvoiceRows /\ row[t] \in InvoiceRows
      /\ inv.ext => inv.exists
      /\ Shows(inv) => inv.ext
      /\ pc[t] \in {"fetch", "persistWrite"} => inv.exists
      /\ pc[t] = "save" => row[t].exists
      /\ pc[t] = "settleWrite" => (Shows(row[t]) => inv.ext)
  BY DEF DataOK, RowInv
<1> USE DEF RowMoves, Shows, At
<1>2. CASE Fetch(t) \/ FetchMiss(t)
  <2>1. CASE Fetch(t)
    <3>1. inv' = [inv EXCEPT !.ext = TRUE] /\ inv.exists
      BY <1>1, <2>1 DEF Fetch
    <3> QED
      BY <1>1, <3>1 DEF InvoiceRows
  <2>2. CASE FetchMiss(t)
    <3>1. inv' = [inv EXCEPT !.ext = @ \/ fis # "none"] /\ inv.exists
      BY <1>1, <2>2 DEF FetchMiss
    <3>2. inv' = [inv EXCEPT !.ext = TRUE] \/ inv' = inv
      BY <1>1, <3>1 DEF InvoiceRows
    <3> QED
      BY <1>1, <3>1, <3>2 DEF InvoiceRows
  <2> QED
    BY <1>2, <2>1, <2>2
<1>3. CASE ApplyRead(t)
  <2>1. PICK p : inv' = IF inv.exists THEN inv ELSE NewInvoice(p, TRUE)
    BY <1>3 DEF ApplyRead
  <2> QED
    BY <1>1, <2>1 DEF NewInvoice, InvoiceRows
<1>4. CASE ApplySave(t)
  <2>1. inv' = AppliedRow(row[t], pay[t]) /\ row[t].exists
    BY <1>1, <1>4 DEF ApplySave
  <2>2. inv'.ext = TRUE /\ inv'.exists = row[t].exists
    BY <1>1, <2>1 DEF AppliedRow, InvoiceRows
  <2> QED
    BY <2>1, <2>2
<1>5. CASE Mark(t) \/ FailRow(t) \/ MarkSent(t) \/ PushFailedRow(t)
  <2>1. \/ inv' = inv
        \/ inv' = [inv EXCEPT !.pipeline = "PROCESSING", !.job = "processing"]
        \/ inv' = [inv EXCEPT !.pipeline = "FAILED", !.job = "failed"]
        \/ inv' = [inv EXCEPT !.job = "sent"]
    BY <1>5 DEF Mark, FailRow, MarkSent, PushFailedRow
  <2> QED
    BY <1>1, <2>1 DEF InvoiceRows
<1>6. CASE Persist(t)
  <2> DEFINE read == IF inv.exists THEN inv ELSE NewInvoice("PENDING_FISCAL", FALSE)
  <2>1. /\ read \in InvoiceRows /\ read.exists /\ (inv.ext => read.ext)
        /\ Shows(read) => read.ext
    <3>1. CASE inv.exists
      BY <1>1, <3>1
    <3>2. CASE ~inv.exists
      <4>1. NewInvoice("PENDING_FISCAL", FALSE) \in InvoiceRows
        BY NewInvoiceType DEF Pipelines, InFlight
      <4> QED
        BY <1>1, <3>2, <4>1 DEF NewInvoice
    <3> QED
      BY <3>1, <3>2
  <2>2. inv' = read \/ inv' = [read EXCEPT !.ext = TRUE]
    BY <1>6 DEF Persist
  <2> HIDE DEF read
  <2> QED
    BY <1>1, <2>1, <2>2 DEF InvoiceRows
<1>7. CASE PersistWrite(t)
  <2>1. inv' = [inv EXCEPT !.pipeline = "FACTURADOR_RECEIVED", !.job = "sent",
                           !.sunat = "pending", !.ext = TRUE, !.sent = TRUE] /\ inv.exists
    BY <1>1, <1>7 DEF PersistWrite
  <2> QED
    BY <1>1, <2>1 DEF InvoiceRows
<1>8. CASE SettleWrite(t)
  <2>1. PICK p \in {inv.pipeline, row[t].pipeline} :
          inv' = [inv EXCEPT !.job = row[t].job, !.pipeline = p]
    BY <1>1, <1>8 DEF SettleWrite, InvoiceRows
  <2>2. /\ inv'.exists = inv.exists /\ inv'.ext = inv.ext
        /\ inv'.code = inv.code /\ inv'.pipeline = p
    BY <1>1, <2>1 DEF InvoiceRows
  <2> QED
    BY <1>1, <1>8, <2>2 DEF SettleWrite
<1>9. CASE EnqueueTx(t)
  <2>1. \/ inv' = inv
        \/ inv' = [inv EXCEPT !.pipeline = "PENDING_FISCAL", !.job = "pending"]
        \/ ~inv.exists /\ inv' = NewInvoice("PENDING_FISCAL", FALSE)
    BY <1>9 DEF EnqueueTx
  <2>2. CASE ~inv.exists /\ inv' = NewInvoice("PENDING_FISCAL", FALSE)
    <3>1. inv'.exists /\ ~inv'.ext /\ ~Shows(inv')
      BY <2>2 DEF NewInvoice
    <3> QED
      BY <1>1, <2>2, <3>1
  <2>3. CASE inv' = inv \/ inv' = [inv EXCEPT !.pipeline = "PENDING_FISCAL", !.job = "pending"]
    BY <1>1, <2>3 DEF InvoiceRows
  <2> QED
    BY <2>1, <2>2, <2>3
<1> QED
  BY <1>2, <1>3, <1>4, <1>5, <1>6, <1>7, <1>8, <1>9

\* Every step moves the row forward.
LEMMA RowForward ==
  ControlOK /\ DataOK /\ RowInv /\ [EmissionNext]_emissionVars => RowMoves
<1> SUFFICES ASSUME ControlOK, DataOK, RowInv, [EmissionNext]_emissionVars PROVE RowMoves
  OBVIOUS
<1> USE DEF Threads, db
<1>1. ASSUME inv' = inv PROVE RowMoves
  BY <1>1 DEF RowInv, RowMoves, Shows
<1>2. ASSUME NEW o \in Ops, OpStep(o) PROVE RowMoves
  BY <1>1, <1>2, RowKept, RowWritten DEF OpStep, Prepared, Sending, Enqueuing
<1>3. ASSUME NEW t \in Threads, Applying(t) PROVE RowMoves
  BY <1>1, <1>3, RowKept, RowWritten DEF Applying
<1>4. ASSUME NEW h \in Hooks, HookReceive(h) PROVE RowMoves
  BY <1>1, <1>4, RowKept
<1>5. CASE RetryFires \/ FisAdvance \/ ClaimExpires \/ LockExpires
  BY <1>1, <1>5 DEF RetryFires, FisAdvance, ClaimExpires, LockExpires
<1>6. CASE Failing
  <2>1. ASSUME NEW o \in Ops, FetchFails(o) \/ EmitFails(o) \/ PushFails(o) PROVE RowMoves
    BY <1>1, <2>1, RowKept
  <2>2. ASSUME NEW h \in Hooks, HookLookupFails(h) \/ HookApplyFails(h) PROVE RowMoves
    BY <1>1, <2>2, RowKept
  <2>3. CASE LoseHook
    BY <1>1, <2>3 DEF LoseHook
  <2>4. ASSUME NEW G \in CrashGroups, Crash(G) PROVE RowMoves
    BY <1>1, <2>4 DEF Crash
  <2> QED
    BY <1>6, <2>1, <2>2, <2>3, <2>4 DEF Failing
<1>7. CASE UNCHANGED emissionVars
  BY <1>1, <1>7 DEF emissionVars
<1> QED
  BY <1>2, <1>3, <1>4, <1>5, <1>6, <1>7 DEF EmissionNext

\* A thread's part of RowInv.
RowOf(t) ==
  /\ pc[t] \in {"fetch", "persistWrite", "saleCheck", "saleWrite", "settle"} => inv.exists
  /\ pc[t] = "save" => row[t].exists
  /\ pc[t] = "settleWrite" => row[t].job # "pending" /\ (Shows(row[t]) => inv.ext)

\* Every step keeps what is known of the row.
LEMMA RowStep ==
  ControlOK /\ DataOK /\ RowInv /\ [EmissionNext]_emissionVars => RowInv'
<1> SUFFICES ASSUME ControlOK, DataOK, RowInv, [EmissionNext]_emissionVars PROVE RowInv'
  OBVIOUS
<1>1. RowMoves
  BY RowForward
<1>2. \A t \in Threads : RowOf(t)
  BY DEF RowInv, RowOf
<1>3. ASSUME \A t \in Threads : RowOf(t)' PROVE RowInv'
  BY <1>1, <1>3 DEF RowInv, RowMoves, RowOf
<1>4. ASSUME NEW t \in Threads, pc'[t] = pc[t], row'[t] = row[t] PROVE RowOf(t)'
  BY <1>1, <1>2, <1>4 DEF RowOf, RowMoves, Shows
<1>5. ASSUME NEW t \in Threads, RowOf(t)',
             \A u \in Threads \ {t} : pc'[u] = pc[u] /\ row'[u] = row[u]
      PROVE  RowInv'
  BY <1>3, <1>4, <1>5
<1> USE DEF ControlOK, DataOK, Threads, At, Go, local
<1>6. ASSUME NEW o \in Ops, Prepared(o) PROVE RowInv'
  <2>1. /\ \A u \in Threads \ {o} : pc'[u] = pc[u]
        /\ row' = row
    BY <1>6 DEF Prepared, Presync, Recheck, PrepareAcquire, PrepareRefuse, Refused, Fetch,
                FetchMiss, Classify, Sync
  <2>2. pc'[o] \notin {"persistWrite", "save", "settleWrite", "saleCheck", "saleWrite", "settle"}
    BY <1>6 DEF Prepared, Presync, Recheck, PrepareAcquire, PrepareRefuse, Refused, Fetch,
                FetchMiss, Classify, Sync, Finish, Missed, SyncTargets
  <2>3. ASSUME pc'[o] = "fetch" PROVE inv.exists
    <3>1. CASE Presync(o) \/ Recheck(o) \/ PrepareAcquire(o)
      BY <2>3, <3>1 DEF Presync, Recheck, PrepareAcquire, Sync
    <3>2. CASE PrepareRefuse(o) \/ Refused(o) \/ Fetch(o) \/ FetchMiss(o) \/ Classify(o)
      BY <2>3, <3>2 DEF PrepareRefuse, Refused, Fetch, FetchMiss, Classify, Finish, Missed,
                        SyncTargets
    <3> QED
      BY <1>6, <3>1, <3>2 DEF Prepared
  <2>4. RowOf(o)'
    BY <1>1, <2>2, <2>3 DEF RowOf, RowMoves
  <2> QED
    BY <1>5, <2>1, <2>4
<1>7. ASSUME NEW o \in Ops, Sending(o) PROVE RowInv'
  <2>1. CASE \/ Reserve(o) \/ SendGuard(o) \/ Mark(o) \/ Emit(o) \/ FailRow(o)
             \/ SettleWrite(o) \/ Settled(o) \/ MarkSent(o) \/ FinishPrepared(o) \/ WaitEnds(o)
    <3>1. /\ \A u \in Threads \ {o} : pc'[u] = pc[u] /\ row'[u] = row[u]
          /\ pc'[o] \notin {"fetch", "persistWrite", "save", "settleWrite", "saleCheck",
                            "saleWrite", "settle"}
      BY <2>1 DEF Reserve, SendGuard, Mark, Emit, FailRow, SettleWrite, Settled, MarkSent,
                  FinishPrepared, WaitEnds, Finish
    <3>2. RowOf(o)'
      BY <3>1 DEF RowOf
    <3> QED
      BY <1>5, <3>1, <3>2
  <2>2. CASE Persist(o)
    <3>1. row' = row /\ \A u \in Threads \ {o} : pc'[u] = pc[u]
      BY <2>2 DEF Persist
    <3>2. pc'[o] \in {"persistWrite", "settle", "release"}
      BY <2>2 DEF Persist, AfterPersist
    <3>3. inv'.exists
      <4>1. CASE inv.exists
        BY <1>1, <4>1 DEF RowMoves
      <4>2. CASE ~inv.exists
        <5>1. NewInvoice("PENDING_FISCAL", FALSE) \in InvoiceRows
          BY NewInvoiceType DEF Pipelines, InFlight
        <5>2. \/ inv' = NewInvoice("PENDING_FISCAL", FALSE)
              \/ inv' = [NewInvoice("PENDING_FISCAL", FALSE) EXCEPT !.ext = TRUE]
          BY <2>2, <4>2 DEF Persist
        <5> QED
          BY <5>1, <5>2 DEF InvoiceRows, NewInvoice
      <4> QED
        BY <4>1, <4>2
    <3>4. RowOf(o)'
      BY <3>2, <3>3 DEF RowOf
    <3> QED
      BY <1>5, <3>1, <3>4
  <2>3. CASE PersistWrite(o) \/ SaleCheck(o) \/ SaleWrite(o)
    <3>1. /\ row' = row /\ \A u \in Threads \ {o} : pc'[u] = pc[u]
          /\ pc'[o] \in {"saleCheck", "saleWrite", "settle", "release"}
          /\ pc[o] \in {"persistWrite", "saleCheck", "saleWrite"}
      BY <2>3 DEF PersistWrite, SaleCheck, SaleWrite, AfterPersist
    <3>2. RowOf(o)'
      BY <1>1, <1>2, <3>1 DEF RowOf, RowMoves
    <3> QED
      BY <1>5, <3>1, <3>2
  <2>4. CASE Settle(o)
    <3>0. inv.exists /\ inv' = inv
      BY <1>2, <2>4, RowKept DEF Settle, RowOf
    <3>1. \A u \in Threads \ {o} : pc'[u] = pc[u] /\ row'[u] = row[u]
      BY <2>4 DEF Settle
    <3>2. pc'[o] \in {"settleWrite", "release", "fetch"}
      BY <2>4 DEF Settle
    <3>3. ASSUME pc'[o] = "settleWrite" PROVE RowOf(o)'
      <4>1. \/ /\ HasAcceptanceEvidence(inv)
               /\ row'[o] = [inv EXCEPT !.pipeline = "SUNAT_ACCEPTED", !.job = "sent"]
            \/ row'[o] = [inv EXCEPT !.job = "failed"]
            \/ row'[o] = [inv EXCEPT !.pipeline = "UNKNOWN", !.job = "failed"]
        BY <2>4, <3>3 DEF Settle
      <4>2. row'[o].job # "pending" /\ (Shows(row'[o]) => inv.ext)
        <5>1. Shows(inv) => inv.ext
          BY DEF RowInv
        <5> QED
          BY <4>1, <5>1 DEF Shows, InvoiceRows, HasAcceptanceEvidence
      <4> QED
        BY <3>0, <3>3, <4>2 DEF RowOf, Shows
    <3>4. RowOf(o)'
      BY <3>0, <3>2, <3>3 DEF RowOf
    <3> QED
      BY <1>5, <3>1, <3>4
  <2>5. CASE Resync(o) \/ WaitPoll(o)
    <3>1. /\ row' = row /\ \A u \in Threads \ {o} : pc'[u] = pc[u]
          /\ pc'[o] \in {"fetch", "done", "wait"}
          /\ pc'[o] = "fetch" => inv.exists
      BY <2>5 DEF Resync, WaitPoll, Sync
    <3>2. RowOf(o)'
      BY <1>1, <3>1 DEF RowOf, RowMoves
    <3> QED
      BY <1>5, <3>1, <3>2
  <2> QED
    BY <1>7, <2>1, <2>2, <2>3, <2>4, <2>5 DEF Sending
<1>8. ASSUME NEW o \in Ops, Enqueuing(o) \/ Pop(o) PROVE RowInv'
  <2>1. row' = row
    BY <1>8 DEF Enqueuing, Pop, Unlock, TryClaim, EnqueueTx, Push, PushFailedRow, DropClaim,
                PushedSale
  <2>2. \E l \in {"claim", "tx", "push", "pushed", "dropClaim", "prepare", "idle", "recRelease",
                  "done"} : pc' = [pc EXCEPT ![o] = l]
    <3>1. CASE EnqueueTx(o)
      BY <3>1 DEF EnqueueTx
    <3>2. CASE Unlock(o) \/ TryClaim(o) \/ Push(o) \/ PushFailedRow(o)
      BY <3>2 DEF Unlock, TryClaim, Push, PushFailedRow, Finish
    <3>3. CASE DropClaim(o) \/ PushedSale(o) \/ Pop(o)
      BY <3>3 DEF DropClaim, PushedSale, Pop, Finish
    <3> QED
      BY <1>8, <3>1, <3>2, <3>3 DEF Enqueuing
  <2>3. RowOf(o)'
    BY <2>2 DEF RowOf
  <2> QED
    BY <1>5, <2>1, <2>2, <2>3
<1>9. ASSUME NEW o \in Ops, Reconciling(o) PROVE RowInv'
  <2>1. row' = row /\ \A u \in Threads \ {o} : pc'[u] = pc[u]
    BY <1>9 DEF Reconciling, RecSelect, RecLock, RecCheck, RecEnd, Requeue, RecRelease, Sync
  <2>2. /\ pc'[o] \notin {"persistWrite", "save", "settleWrite", "saleCheck", "saleWrite", "settle"}
        /\ pc'[o] = "fetch" => inv.exists
    BY <1>9 DEF Reconciling, RecSelect, RecLock, RecCheck, RecEnd, Requeue, RecRelease, Sync
  <2>3. RowOf(o)'
    BY <1>1, <2>2 DEF RowOf, RowMoves
  <2> QED
    BY <1>5, <2>1, <2>3
<1>10. ASSUME NEW t \in Threads, Applying(t) PROVE RowInv'
  <2>1. \A u \in Threads \ {t} : pc'[u] = pc[u] /\ row'[u] = row[u]
    BY <1>10 DEF Applying, ApplyRead, ApplySave, SyncSale
  <2>2. CASE ApplyRead(t)
    <3>1. pc'[t] = "save" /\ row'[t] = inv'
      BY <2>2 DEF ApplyRead
    <3>2. inv'.exists
      BY <2>2 DEF ApplyRead, NewInvoice
    <3>3. RowOf(t)'
      BY <3>1, <3>2 DEF RowOf
    <3> QED
      BY <1>5, <2>1, <3>3
  <2>3. CASE ApplySave(t)
    <3>1. RowOf(t)'
      BY <2>3 DEF ApplySave, RowOf
    <3> QED
      BY <1>5, <2>1, <3>1
  <2>4. CASE SyncSale(t)
    <3>1. pc'[t] \in SyncTargets
      BY <2>4 DEF SyncSale
    <3>2. RowOf(t)'
      BY <3>1 DEF SyncTargets, RowOf
    <3> QED
      BY <1>5, <2>1, <3>2
  <2> QED
    BY <1>10, <2>2, <2>3, <2>4 DEF Applying
<1>11. ASSUME NEW h \in Hooks, HookReceive(h) PROVE RowInv'
  <2>1. /\ row' = row /\ \A u \in Threads \ {h} : pc'[u] = pc[u]
        /\ pc'[h] \in {"idle", "read"}
    BY <1>11 DEF HookReceive
  <2>2. RowOf(h)'
    BY <2>1 DEF RowOf
  <2> QED
    BY <1>5, <2>1, <2>2
<1>12. CASE RetryFires \/ FisAdvance \/ ClaimExpires \/ LockExpires
  <2>1. UNCHANGED <<pc, row>>
    BY <1>12 DEF RetryFires, FisAdvance, ClaimExpires, LockExpires
  <2> QED
    BY <1>3, <1>4, <2>1
<1>13. CASE Failing
  <2>1. ASSUME NEW o \in Ops, FetchFails(o) \/ EmitFails(o) \/ PushFails(o) PROVE RowInv'
    <3>1. /\ row' = row /\ \A u \in Threads \ {o} : pc'[u] = pc[u]
          /\ pc'[o] \notin {"fetch", "persistWrite", "save", "settleWrite", "saleCheck",
                            "saleWrite", "settle"}
      BY <2>1 DEF FetchFails, EmitFails, PushFails, Missed, SyncTargets
    <3>2. RowOf(o)'
      BY <3>1 DEF RowOf
    <3> QED
      BY <1>5, <3>1, <3>2
  <2>2. ASSUME NEW h \in Hooks, HookLookupFails(h) \/ HookApplyFails(h) PROVE RowInv'
    <3>1. /\ row' = row /\ \A u \in Threads \ {h} : pc'[u] = pc[u]
          /\ pc'[h] \in {"idle", pc[h]}
      BY <2>2 DEF HookLookupFails, HookApplyFails
    <3>2. RowOf(h)'
      BY <1>4, <3>1 DEF RowOf
    <3> QED
      BY <1>5, <3>1, <3>2
  <2>3. CASE LoseHook
    <3>1. UNCHANGED <<pc, row>>
      BY <2>3 DEF LoseHook
    <3> QED
      BY <1>3, <1>4, <3>1
  <2>4. ASSUME NEW G \in CrashGroups, Crash(G) PROVE RowInv'
    <3>1. ASSUME NEW t \in Threads PROVE RowOf(t)'
      <4>1. CASE t \in G
        <5>1. pc'[t] \in {"done", "idle"}
          BY <2>4, <4>1 DEF Crash
        <5> QED
          BY <5>1 DEF RowOf
      <4>2. CASE t \notin G
        <5>1. pc'[t] = pc[t] /\ row'[t] = row[t]
          BY <2>4, <4>2 DEF Crash
        <5> QED
          BY <1>4, <5>1
      <4> QED
        BY <4>1, <4>2
    <3> QED
      BY <1>3, <3>1
  <2> QED
    BY <1>13, <2>1, <2>2, <2>3, <2>4 DEF Failing
<1>14. CASE UNCHANGED emissionVars
  <2>1. UNCHANGED <<pc, row>>
    BY <1>14 DEF emissionVars
  <2> QED
    BY <1>3, <1>4, <2>1
<1> QED
  BY <1>6, <1>7, <1>8, <1>9, <1>10, <1>11, <1>12, <1>13, <1>14 DEF EmissionNext, OpStep

\* A worker that has not emitted the sale yet, and will return its job if it
\* cannot.
Pursues(w) ==
  \/ pc[w] \in {"idle", "prepare", "refused", "classify", "emit", "persist", "persistWrite"}
  \/ pc[w] \in {"fetch", "read", "save", "sale"} /\ then[w] = "classify"

\* While nothing fails, a waiting row is carried; what makes that inductive is
\* that, until the document is in the facturador, no worker lets go of its job.
StrandInv ==
  faults = 0 => /\ AwaitsWorker(inv) => Carried
                /\ inv.ext \/ \A w \in Workers : Pursues(w)

\* An accepted phase is one the row shows.
LEMMA AcceptedShows == ASSUME AcceptedPhase(inv) PROVE Shows(inv)
<1>1. Phase(inv) \in {"accepted", "observed"}
  BY DEF AcceptedPhase
<1>2. inv.exists /\ DisplayPhaseFromPipeline(ViewPipeline(inv)) \in {"accepted", "observed"}
  BY <1>1 DEF Phase
<1>3. ViewPipeline(inv) \in {"SUNAT_ACCEPTED", "OBSERVED"}
  BY <1>2 DEF DisplayPhaseFromPipeline
<1>4. CASE inv.pipeline = "DRAFT"
  <2>1. InferPipeline(inv) \in {"SUNAT_ACCEPTED", "OBSERVED"}
    BY <1>2, <1>3, <1>4 DEF ViewPipeline
  <2>2. HasAcceptanceEvidence(inv)
    BY <2>1 DEF InferPipeline
  <2> QED
    BY <2>2 DEF HasAcceptanceEvidence, Shows
<1>5. CASE inv.pipeline # "DRAFT"
  BY <1>3, <1>5 DEF ViewPipeline, Shows
<1> QED
  BY <1>4, <1>5

\* Sums of jobs in the list and jobs held by timers.
LEMMA JobSums ==
  ASSUME NEW a \in Nat, NEW b \in Nat, NEW c \in Nat, NEW d \in Nat
  PROVE  /\ c = a /\ (d = b \/ d = b + 1) => c + d >= a + b
         /\ c = a /\ d = b + 1 => c + d > 0
         /\ c + d >= a + b /\ ~(c + d > 0) => ~(a + b > 0)
         /\ c = a + 1 /\ d = b - 1 => c + d = a + b
OBVIOUS

\* What a step that leaves the document out of the facturador has to keep.
StillPursued ==
  /\ AwaitsWorker(inv)' => Carried'
  /\ \A w \in Workers : Pursues(w)'

\* A thread that keeps what it carries, or hands it on, strands nothing.
LEMMA HandsOn ==
  ASSUME ControlOK, DataOK, NEW t \in Threads, NEW l \in Labels,
         AwaitsWorker(inv) => Carried, \A w \in Workers : Pursues(w),
         pc' = [pc EXCEPT ![t] = l],
         \A w \in Workers \ {t} : then'[w] = then[w],
         t \in Workers => Pursues(t)',
         DataOK',
         AwaitsWorker(inv)' => AwaitsWorker(inv) \/ l \in {"push", "persistWrite"},
         l \in {"push", "persistWrite"} => t \in Ops,
         \/ queue' + retries' >= queue + retries
         \/ t \in Workers /\ l # "idle",
         \/ t \in Workers => l # "idle"
         \/ queue' + retries' > 0,
         \/ pc[t] \notin {"push", "pushFailed", "persistWrite"}
         \/ queue' + retries' > 0
         \/ ~AwaitsWorker(inv)'
  PROVE  StillPursued
<1> USE OpsAssumption DEF ControlOK, Threads
<1>1. \A w \in Workers : Pursues(w)'
  BY DEF Pursues
<1>2. ASSUME AwaitsWorker(inv)' PROVE Carried'
  <2>1. CASE queue' + retries' > 0
    BY <2>1 DEF Carried
  <2>2. CASE t \in Workers /\ l # "idle"
    <3>1. t \in Workers /\ pc'[t] # "idle"
      BY <2>2
    <3> QED
      BY <3>1 DEF Carried
  <2>3. CASE l \in {"push", "persistWrite"}
    <3>1. t \in Ops /\ pc'[t] \in {"push", "pushFailed", "persistWrite"}
      BY <2>3
    <3> QED
      BY <3>1 DEF Carried
  <2>4. CASE /\ ~(queue' + retries' > 0) /\ ~(t \in Workers /\ l # "idle")
             /\ l \notin {"push", "persistWrite"}
    <3>1. /\ t \notin Workers
          /\ queue' + retries' >= queue + retries
          /\ pc[t] \notin {"push", "pushFailed", "persistWrite"}
          /\ Carried
      BY <1>2, <2>4
    <3>2. ~(queue + retries > 0)
      <4>1. queue \in Nat /\ retries \in Nat /\ queue' \in Nat /\ retries' \in Nat
        BY DEF DataOK
      <4> QED
        BY <2>4, <3>1, <4>1, JobSums
    <3>3. CASE \E o \in Workers : pc[o] # "idle"
      <4>1. PICK o \in Workers : pc[o] # "idle"
        BY <3>3
      <4>2. pc'[o] # "idle"
        BY <3>1, <4>1
      <4> QED
        BY <4>2 DEF Carried
    <3>4. CASE \E o \in Ops : pc[o] \in {"push", "pushFailed", "persistWrite"}
      <4>1. PICK o \in Ops : pc[o] \in {"push", "pushFailed", "persistWrite"}
        BY <3>4
      <4>2. pc'[o] = pc[o]
        BY <3>1, <4>1
      <4> QED
        BY <4>1, <4>2 DEF Carried
    <3> QED
      BY <3>1, <3>2, <3>3, <3>4 DEF Carried
  <2> QED
    BY <2>1, <2>2, <2>3, <2>4
<1> QED
  BY <1>1, <1>2 DEF StillPursued

\* Failures are counted.
LEMMA FaultsCounted ==
  DataOK /\ Failing => faults' # 0
<1> SUFFICES ASSUME DataOK, Failing PROVE faults' # 0
  OBVIOUS
<1>1. Failing => Fault
  BY DEF Failing, FetchFails, EmitFails, PushFails, HookLookupFails, HookApplyFails, LoseHook, Crash
<1>2. faults' = faults + 1
  BY <1>1 DEF Fault
<1>3. faults \in Nat
  BY DEF DataOK
<1> QED
  BY <1>2, <1>3

\* Every step keeps the job of a waiting sale.
LEMMA StrandStep ==
  ControlOK /\ DataOK /\ DataOK' /\ RowInv /\ RowInv' /\ StrandInv /\ [EmissionNext]_emissionVars
    => StrandInv'
<1> SUFFICES ASSUME ControlOK, DataOK, DataOK', RowInv, RowInv', StrandInv,
                    [EmissionNext]_emissionVars, faults' = 0, ~inv'.ext
             PROVE  StillPursued
  BY DEF StrandInv, StillPursued, AwaitsWorker
<1>1. RowMoves
  BY RowForward
<1>2. ~inv.ext /\ ~Shows(inv) /\ ~Shows(inv')
  BY <1>1 DEF RowMoves, RowInv
<1>3. ASSUME faults' = faults
      PROVE  (AwaitsWorker(inv) => Carried) /\ \A w \in Workers : Pursues(w)
  BY <1>2, <1>3 DEF StrandInv
<1>4. ASSUME faults' = faults, UNCHANGED <<inv, pc, then>>, queue' + retries' = queue + retries
      PROVE  StillPursued
  BY <1>3, <1>4 DEF StillPursued, AwaitsWorker, Carried, Pursues
<1> USE OpsAssumption
    DEF ControlOK, Threads, At, Go, db, jobs, caps, local
<1>0. queue \in Nat /\ retries \in Nat /\ queue' \in Nat /\ retries' \in Nat
  BY DEF DataOK
<1>5. ASSUME NEW o \in Ops, Prepared(o) PROVE StillPursued
  <2>1. inv' = inv /\ faults' = faults
    <3>1. CASE Fetch(o)
      <4>1. inv'.ext
        BY <3>1 DEF Fetch, DataOK, InvoiceRows
      <4> QED
        BY <4>1
    <3>2. CASE FetchMiss(o)
      <4>1. inv' = [inv EXCEPT !.ext = inv.ext \/ fis # "none"]
        BY <3>2 DEF FetchMiss
      <4>2. inv'.ext = (inv.ext \/ fis # "none")
        BY <4>1 DEF DataOK, InvoiceRows
      <4>3. (inv.ext \/ fis # "none") = inv.ext
        BY <1>2, <4>2 DEF DataOK, InvoiceRows
      <4> QED
        BY <3>2, <4>1, <4>3 DEF FetchMiss, DataOK, InvoiceRows
    <3> QED
      BY <1>5, <3>1, <3>2, RowKept
         DEF Prepared, Presync, Recheck, PrepareAcquire, PrepareRefuse, Refused, Classify
  <2>2. UNCHANGED queue /\ (UNCHANGED retries \/ retries' = retries + 1)
    BY <1>5 DEF Prepared, Presync, Recheck, PrepareAcquire, PrepareRefuse, Refused, Fetch,
                FetchMiss, Classify
  <2>3. PICK l \in Labels : pc' = [pc EXCEPT ![o] = l]
    BY <1>5 DEF Prepared, Presync, Recheck, PrepareAcquire, PrepareRefuse, Refused, Fetch,
                FetchMiss, Classify, Sync, Finish, Missed, Labels, SyncTargets
  <2>4. \A w \in Workers \ {o} : then'[w] = then[w]
    BY <1>5 DEF Prepared, Presync, Recheck, PrepareAcquire, PrepareRefuse, Refused, Fetch,
                FetchMiss, Classify, Sync
  <2>5. ASSUME o \in Workers PROVE Pursues(o)' /\ (l # "idle" \/ retries' = retries + 1)
    <3>0. Pursues(o)
      BY <1>3, <2>1, <2>5
    <3>1. CASE Presync(o) \/ Recheck(o)
      BY <3>0, <3>1 DEF Presync, Recheck, Pursues
    <3>2. CASE PrepareAcquire(o)
      BY <2>3, <3>2 DEF PrepareAcquire, Sync, Pursues
    <3>3. CASE PrepareRefuse(o)
      BY <2>3, <3>3 DEF PrepareRefuse, Pursues
    <3>4. CASE Refused(o)
      BY <2>3, <2>5, <3>4 DEF Refused, Finish, Pursues
    <3>5. CASE Fetch(o)
      BY <2>3, <3>0, <3>5 DEF Fetch, Pursues
    <3>6. CASE FetchMiss(o)
      BY <2>3, <3>0, <3>6 DEF FetchMiss, Missed, Pursues
    <3>7. CASE Classify(o)
      <4>1. ~AcceptedPhase(inv)
        BY <1>2, AcceptedShows
      <4>2. AllowResend(o)
        BY <2>5 DEF AllowResend
      <4>3. pc' = [pc EXCEPT ![o] = "emit"]
        BY <2>5, <3>7, <4>1, <4>2 DEF Classify
      <4> QED
        BY <2>3, <4>3 DEF Pursues
    <3> QED
      BY <1>5, <3>1, <3>2, <3>3, <3>4, <3>5, <3>6, <3>7 DEF Prepared
  <2>6. pc[o] \notin {"push", "pushFailed", "persistWrite"}
    BY <1>5 DEF Prepared, Presync, Recheck, PrepareAcquire, PrepareRefuse, Refused, Fetch,
                FetchMiss, Classify
  <2>7. queue' + retries' >= queue + retries /\ (retries' = retries + 1 => queue' + retries' > 0)
    BY <1>0, <2>2, JobSums
  <2>8. AwaitsWorker(inv) => Carried
    BY <1>3, <2>1
  <2>9. \A w \in Workers : Pursues(w)
    BY <1>3, <2>1
  <2>10. AwaitsWorker(inv)' => AwaitsWorker(inv)
    BY <2>1 DEF AwaitsWorker
  <2> QED
    BY <2>3, <2>4, <2>5, <2>6, <2>7, <2>8, <2>9, <2>10, HandsOn
<1>6. ASSUME NEW o \in Ops, Sending(o) PROVE StillPursued
  <2>1. /\ faults' = faults /\ UNCHANGED <<queue, retries>>
        /\ \A w \in Workers \ {o} : then'[w] = then[w]
    <3>1. CASE \/ Reserve(o) \/ SendGuard(o) \/ Mark(o) \/ Emit(o) \/ FailRow(o)
               \/ Persist(o) \/ PersistWrite(o) \/ SaleCheck(o) \/ SaleWrite(o)
      BY <3>1 DEF Reserve, SendGuard, Mark, Emit, FailRow, Persist, PersistWrite, SaleCheck,
                  SaleWrite
    <3>2. CASE \/ Settle(o) \/ SettleWrite(o) \/ Settled(o) \/ MarkSent(o)
               \/ FinishPrepared(o) \/ Resync(o) \/ WaitPoll(o) \/ WaitEnds(o)
      BY <3>2 DEF Settle, SettleWrite, Settled, MarkSent, FinishPrepared, Resync, WaitPoll,
                  WaitEnds, Sync
    <3> QED
      BY <1>6, <3>1, <3>2 DEF Sending
  <2>2. PICK l \in Labels : pc' = [pc EXCEPT ![o] = l]
    <3>1. CASE \/ Reserve(o) \/ SendGuard(o) \/ Mark(o) \/ Emit(o) \/ FailRow(o)
               \/ PersistWrite(o) \/ SaleCheck(o) \/ SaleWrite(o)
      BY <3>1 DEF Reserve, SendGuard, Mark, Emit, FailRow, PersistWrite, SaleCheck, SaleWrite,
                  AfterPersist, Labels
    <3>2. CASE Persist(o)
      <4>1. \/ pc' = [pc EXCEPT ![o] = AfterPersist(o)]
            \/ pc' = [pc EXCEPT ![o] = "persistWrite"]
        BY <3>2 DEF Persist
      <4> QED
        BY <4>1 DEF AfterPersist, Labels
    <3>3. CASE \/ Settle(o) \/ SettleWrite(o) \/ Settled(o) \/ MarkSent(o)
               \/ FinishPrepared(o) \/ Resync(o) \/ WaitPoll(o) \/ WaitEnds(o)
      BY <3>3 DEF Settle, SettleWrite, Settled, MarkSent, FinishPrepared, Resync, WaitPoll,
                  WaitEnds, Sync, Finish, Labels
    <3> QED
      BY <1>6, <3>1, <3>2, <3>3 DEF Sending
  <2>3. AwaitsWorker(inv) => Carried
    BY <1>3, <2>1
  <2>4. \A w \in Workers : Pursues(w)
    BY <1>3, <2>1
  <2>5. ~PersistWrite(o)
    <3>1. ASSUME PersistWrite(o) PROVE inv'.ext
      BY <3>1 DEF PersistWrite, DataOK, InvoiceRows
    <3> QED
      BY <3>1
  <2>6. pc[o] \notin {"push", "pushFailed", "persistWrite"}
    BY <1>6, <2>5 DEF Sending, Reserve, SendGuard, Mark, Emit, FailRow, Persist, SaleCheck,
                      SaleWrite, Settle, SettleWrite, Settled, MarkSent, FinishPrepared, Resync,
                      WaitPoll, WaitEnds
  <2>7. AwaitsWorker(inv)' => AwaitsWorker(inv) \/ l = "persistWrite"
    <3>1. CASE \/ Reserve(o) \/ SendGuard(o) \/ Emit(o) \/ SaleCheck(o) \/ SaleWrite(o)
               \/ Settle(o) \/ Settled(o) \/ FinishPrepared(o) \/ Resync(o) \/ WaitPoll(o)
               \/ WaitEnds(o)
      <4>1. inv' = inv
        BY <3>1, RowKept
      <4> QED
        BY <4>1 DEF AwaitsWorker
    <3>2. CASE Mark(o) \/ FailRow(o) \/ MarkSent(o)
      <4>1. \/ inv' = inv
            \/ inv' = [inv EXCEPT !.pipeline = "PROCESSING", !.job = "processing"]
            \/ inv' = [inv EXCEPT !.pipeline = "FAILED", !.job = "failed"]
            \/ inv' = [inv EXCEPT !.job = "sent"]
        BY <3>2 DEF Mark, FailRow, MarkSent
      <4> QED
        BY <4>1 DEF AwaitsWorker, DataOK, InvoiceRows
    <3>3. CASE Persist(o)
      <4> DEFINE read == IF inv.exists THEN inv ELSE NewInvoice("PENDING_FISCAL", FALSE)
      <4>0. read \in InvoiceRows
        BY NewInvoiceType DEF DataOK, Pipelines, InFlight
      <4>1. \/ inv' = [read EXCEPT !.ext = TRUE]
            \/ pc' = [pc EXCEPT ![o] = "persistWrite"]
        BY <3>3 DEF Persist
      <4> HIDE DEF read
      <4> QED
        BY <2>2, <4>0, <4>1 DEF InvoiceRows
    <3>4. CASE SettleWrite(o)
      <4>1. row[o].job # "pending" /\ inv'.job = row[o].job
        BY <3>4 DEF SettleWrite, RowInv, DataOK, InvoiceRows
      <4> QED
        BY <4>1 DEF AwaitsWorker
    <3> QED
      BY <1>6, <2>5, <3>1, <3>2, <3>3, <3>4 DEF Sending
  <2>8. ASSUME o \in Workers PROVE Pursues(o)' /\ l # "idle"
    <3>0. Pursues(o)
      BY <2>4, <2>8
    <3>1. CASE Emit(o)
      BY <2>2, <3>1 DEF Emit, Pursues
    <3>2. CASE Persist(o)
      <4> DEFINE read == IF inv.exists THEN inv ELSE NewInvoice("PENDING_FISCAL", FALSE)
      <4>0. read \in InvoiceRows
        BY NewInvoiceType DEF DataOK, Pipelines, InFlight
      <4>1. \/ inv' = [read EXCEPT !.ext = TRUE]
            \/ pc' = [pc EXCEPT ![o] = "persistWrite"]
        BY <3>2 DEF Persist
      <4> HIDE DEF read
      <4>2. pc' = [pc EXCEPT ![o] = "persistWrite"]
        BY <4>0, <4>1 DEF InvoiceRows
      <4> QED
        BY <2>2, <4>2 DEF Pursues
    <3>3. pc[o] \in {"emit", "persist"}
      BY <1>6, <2>5, <3>0 DEF Pursues, Sending, Reserve, SendGuard, Mark, Emit, FailRow, Persist,
                              SaleCheck, SaleWrite, Settle, SettleWrite, Settled, MarkSent,
                              FinishPrepared, Resync, WaitPoll, WaitEnds
    <3>4. Emit(o) \/ Persist(o)
      BY <1>6, <3>3 DEF Sending, Reserve, SendGuard, Mark, FailRow, PersistWrite, SaleCheck,
                        SaleWrite, Settle, SettleWrite, Settled, MarkSent, FinishPrepared, Resync,
                        WaitPoll, WaitEnds
    <3> QED
      BY <3>1, <3>2, <3>4
  <2>9. queue' + retries' >= queue + retries
    BY <1>0, <2>1
  <2> QED
    BY <2>1, <2>2, <2>3, <2>4, <2>6, <2>7, <2>8, <2>9, HandsOn
<1>7. ASSUME NEW o \in Ops, Enqueuing(o) \/ Pop(o) PROVE StillPursued
  <2>1. faults' = faults /\ then' = then
    BY <1>7 DEF Enqueuing, Pop, Unlock, TryClaim, EnqueueTx, Push, PushFailedRow, DropClaim,
                PushedSale
  <2>2. AwaitsWorker(inv) => Carried
    BY <1>3, <2>1
  <2>3. \A w \in Workers : Pursues(w)
    BY <1>3, <2>1
  <2>4. CASE Pop(o)
    <3>1. o \in Workers /\ pc' = [pc EXCEPT ![o] = "prepare"] /\ inv' = inv
      BY <2>4, RowKept DEF Pop
    <3>2. Pursues(o)'
      BY <3>1 DEF Pursues
    <3>3. pc[o] = "idle"
      BY <2>4 DEF Pop
    <3>4. AwaitsWorker(inv)' => AwaitsWorker(inv)
      BY <3>1 DEF AwaitsWorker
    <3> QED
      BY <2>1, <2>2, <2>3, <3>1, <3>2, <3>3, <3>4, HandsOn DEF Labels
  <2>5. CASE Enqueuing(o)
    <3>1. o \notin Workers
      <4>1. pc[o] \in {"unlock", "claim", "tx", "push", "pushFailed", "dropClaim", "pushed"}
        BY <2>5 DEF Enqueuing, Unlock, TryClaim, EnqueueTx, Push, PushFailedRow, DropClaim,
                    PushedSale
      <4> QED
        BY <2>3, <4>1 DEF Pursues
    <3>2. CASE Unlock(o) \/ TryClaim(o) \/ DropClaim(o) \/ PushedSale(o)
      <4>1. inv' = inv /\ UNCHANGED <<queue, retries>>
        BY <3>2, RowKept DEF Unlock, TryClaim, DropClaim, PushedSale
      <4>2. PICK l \in Labels : pc' = [pc EXCEPT ![o] = l]
        BY <3>2 DEF Unlock, TryClaim, DropClaim, PushedSale, Finish, Labels
      <4>3. pc[o] \notin {"push", "pushFailed", "persistWrite"}
        BY <3>2 DEF Unlock, TryClaim, DropClaim, PushedSale
      <4>4. AwaitsWorker(inv)' => AwaitsWorker(inv)
        BY <4>1 DEF AwaitsWorker
      <4>5. queue' + retries' >= queue + retries
        BY <1>0, <4>1
      <4> QED
        BY <2>1, <2>2, <2>3, <3>1, <4>2, <4>3, <4>4, <4>5, HandsOn
    <3>3. CASE EnqueueTx(o)
      <4>1. UNCHANGED <<queue, retries>> /\ pc[o] = "tx"
        BY <3>3 DEF EnqueueTx
      <4>2. PICK l \in {"dropClaim", "push"} :
              pc' = [pc EXCEPT ![o] = l] /\ (l = "dropClaim" => inv' = inv)
        <5>1. CASE HasFinalSunatOutcome(inv) /\ HasAcceptanceEvidence(inv)
          BY <3>3, <5>1 DEF EnqueueTx
        <5>2. CASE ~(HasFinalSunatOutcome(inv) /\ HasAcceptanceEvidence(inv))
          BY <3>3, <5>2 DEF EnqueueTx
        <5> QED
          BY <5>1, <5>2
      <4>3. AwaitsWorker(inv)' => AwaitsWorker(inv) \/ l = "push"
        BY <4>2 DEF AwaitsWorker
      <4>4. queue' + retries' >= queue + retries
        BY <1>0, <4>1
      <4> QED
        BY <2>1, <2>2, <2>3, <3>1, <4>1, <4>2, <4>3, <4>4, HandsOn DEF Labels
    <3>4. CASE Push(o)
      <4>1. inv' = inv /\ queue' = queue + 1 /\ retries' = retries
        BY <3>4, RowKept DEF Push
      <4>2. pc' = [pc EXCEPT ![o] = "pushed"]
        BY <3>4 DEF Push
      <4>3. queue' + retries' >= queue + retries /\ queue' + retries' > 0
        BY <1>0, <4>1
      <4>4. AwaitsWorker(inv)' => AwaitsWorker(inv)
        BY <4>1 DEF AwaitsWorker
      <4> QED
        BY <2>1, <2>2, <2>3, <3>1, <4>2, <4>3, <4>4, HandsOn DEF Labels
    <3>5. CASE PushFailedRow(o)
      <4>1. UNCHANGED <<queue, retries>> /\ pc' = [pc EXCEPT ![o] = "dropClaim"]
        BY <3>5 DEF PushFailedRow
      <4>2. ~AwaitsWorker(inv)'
        <5>1. inv'.job = "failed"
          BY <3>5 DEF PushFailedRow, DataOK, InvoiceRows
        <5> QED
          BY <5>1 DEF AwaitsWorker
      <4>3. queue' + retries' >= queue + retries
        BY <1>0, <4>1
      <4> QED
        BY <2>1, <2>2, <2>3, <3>1, <4>1, <4>2, <4>3, HandsOn DEF Labels
    <3> QED
      BY <2>5, <3>2, <3>3, <3>4, <3>5 DEF Enqueuing
  <2> QED
    BY <1>7, <2>4, <2>5
<1>8. ASSUME NEW o \in Ops, Reconciling(o) PROVE StillPursued
  <2>1. faults' = faults /\ UNCHANGED <<queue, retries>> /\ inv' = inv
    BY <1>8, RowKept DEF Reconciling, RecSelect, RecLock, RecCheck, RecEnd, Requeue, RecRelease
  <2>2. AwaitsWorker(inv) => Carried
    BY <1>3, <2>1
  <2>3. \A w \in Workers : Pursues(w)
    BY <1>3, <2>1
  <2>4. /\ pc[o] \in {"idle", "recLock", "recCheck", "recEnd", "requeue", "recRelease"}
        /\ pc[o] = "idle" => o \in Reconcilers
    BY <1>8 DEF Reconciling, RecSelect, RecLock, RecCheck, RecEnd, Requeue, RecRelease
  <2>5. o \notin Workers
    BY <2>3, <2>4 DEF Pursues
  <2>6. PICK l \in Labels \ {"push", "persistWrite"} : pc' = [pc EXCEPT ![o] = l]
    BY <1>8 DEF Reconciling, RecSelect, RecLock, RecCheck, RecEnd, Requeue, RecRelease, Sync,
                Labels
  <2>7. \A w \in Workers \ {o} : then'[w] = then[w]
    BY <1>8 DEF Reconciling, RecSelect, RecLock, RecCheck, RecEnd, Requeue, RecRelease, Sync
  <2>8. AwaitsWorker(inv)' => AwaitsWorker(inv)
    BY <2>1 DEF AwaitsWorker
  <2>9. queue' + retries' >= queue + retries
    BY <1>0, <2>1
  <2> QED
    BY <2>2, <2>3, <2>4, <2>5, <2>6, <2>7, <2>8, <2>9, HandsOn
<1>9. ASSUME NEW t \in Threads, Applying(t) PROVE StillPursued
  <2>1. faults' = faults /\ UNCHANGED <<queue, retries>>
    BY <1>9 DEF Applying, ApplyRead, ApplySave, SyncSale
  <2>2. AwaitsWorker(inv) => Carried
    BY <1>3, <2>1
  <2>3. \A w \in Workers : Pursues(w)
    BY <1>3, <2>1
  <2>4. CASE ApplyRead(t)
    <3>1. inv' = inv
      <4>1. ASSUME ~inv.exists PROVE inv'.ext
        BY <2>4, <4>1 DEF ApplyRead, NewInvoice
      <4> QED
        BY <2>4, <4>1 DEF ApplyRead
    <3>2. pc' = [pc EXCEPT ![t] = "save"] /\ pc[t] = "read" /\ then' = then
      BY <2>4 DEF ApplyRead
    <3>3. t \in Workers => Pursues(t)'
      BY <2>3, <3>2 DEF Pursues
    <3>4. AwaitsWorker(inv)' => AwaitsWorker(inv)
      BY <3>1 DEF AwaitsWorker
    <3>5. queue' + retries' >= queue + retries
      BY <1>0, <2>1
    <3> QED
      BY <2>2, <2>3, <3>2, <3>3, <3>4, <3>5, HandsOn DEF Labels
  <2>5. CASE ApplySave(t)
    <3>1. inv' = AppliedRow(row[t], pay[t])
      BY <2>5 DEF ApplySave
    <3>2. inv'.ext
      BY <3>1 DEF AppliedRow, DataOK, InvoiceRows
    <3> QED
      BY <3>2
  <2>6. CASE SyncSale(t)
    <3>1. inv' = inv
      BY <2>6, RowKept
    <3>2. /\ pc' = [pc EXCEPT ![t] = then[t]] /\ pc[t] = "sale"
          /\ then' = [then EXCEPT ![t] = "idle"]
      BY <2>6 DEF SyncSale
    <3>3. then[t] \in Labels \ {"push", "persistWrite"}
      BY DEF Labels, SyncTargets
    <3>4. t \in Workers => Pursues(t)' /\ then[t] # "idle"
      BY <2>3, <3>2 DEF Pursues
    <3>5. AwaitsWorker(inv)' => AwaitsWorker(inv)
      BY <3>1 DEF AwaitsWorker
    <3>6. queue' + retries' >= queue + retries
      BY <1>0, <2>1
    <3>7. \A w \in Workers \ {t} : then'[w] = then[w]
      BY <3>2
    <3> QED
      BY <2>2, <2>3, <3>2, <3>3, <3>4, <3>5, <3>6, <3>7, HandsOn
  <2> QED
    BY <1>9, <2>4, <2>5, <2>6 DEF Applying
<1>10. ASSUME NEW h \in Hooks, HookReceive(h) PROVE StillPursued
  <2>1. /\ faults' = faults /\ UNCHANGED <<queue, retries, then>>
        /\ pc[h] = "idle" /\ \E l \in {"idle", "read"} : pc' = [pc EXCEPT ![h] = l]
    BY <1>10 DEF HookReceive
  <2>2. inv' = inv
    BY <1>10, RowKept
  <2>3. PICK l \in {"idle", "read"} : pc' = [pc EXCEPT ![h] = l]
    BY <2>1
  <2>4. h \notin Workers
    OBVIOUS
  <2>5. AwaitsWorker(inv)' => AwaitsWorker(inv)
    BY <2>2 DEF AwaitsWorker
  <2>6. queue' + retries' >= queue + retries
    BY <1>0, <2>1
  <2>7. AwaitsWorker(inv) => Carried
    BY <1>3, <2>1
  <2>8. \A w \in Workers : Pursues(w)
    BY <1>3, <2>1
  <2> QED
    BY <2>1, <2>3, <2>4, <2>5, <2>6, <2>7, <2>8, HandsOn DEF Labels
<1>11. CASE RetryFires \/ FisAdvance \/ ClaimExpires \/ LockExpires
  <2>1. faults' = faults /\ UNCHANGED <<inv, pc, then>>
    BY <1>11 DEF RetryFires, FisAdvance, ClaimExpires, LockExpires
  <2>2. queue' + retries' = queue + retries
    <3>1. CASE RetryFires
      BY <1>0, <3>1, JobSums DEF RetryFires
    <3>2. CASE FisAdvance \/ ClaimExpires \/ LockExpires
      BY <3>2 DEF FisAdvance, ClaimExpires, LockExpires
    <3> QED
      BY <1>11, <3>1, <3>2
  <2> QED
    BY <1>4, <2>1, <2>2
<1>12. CASE Failing
  BY <1>12, FaultsCounted
<1>13. CASE UNCHANGED emissionVars
  BY <1>4, <1>13 DEF emissionVars
<1> QED
  BY <1>5, <1>6, <1>7, <1>8, <1>9, <1>10, <1>11, <1>12, <1>13 DEF EmissionNext, OpStep

\* No row shows an acceptance when the operations start.
LEMMA RowStart == EmissionInit => RowInv
<1>1. EmissionInit => inv \in {NewInvoice("DRAFT", FALSE), NoInvoice}
  BY DEF EmissionInit
<1>2. ASSUME NEW r \in {NewInvoice("DRAFT", FALSE), NoInvoice} PROVE ~r.ext /\ ~Shows(r)
  <2>1. ~r.ext
    <3>1. ~NewInvoice("DRAFT", FALSE).ext
      BY DEF NewInvoice
    <3>2. ~NoInvoice.ext
      BY DEF NoInvoice, NewInvoice
    <3> QED
      BY <1>2, <3>1, <3>2
  <2> QED
    BY <1>2, <2>1, CleanRows DEF Clean, Shows
<1>3. EmissionInit => \A t \in Threads : pc[t] \in {"presync", "prepare", "idle"}
  BY DEF EmissionInit
<1> QED
  BY <1>1, <1>2, <1>3 DEF RowInv

\* While nothing crashes or fails, a sale waiting for the worker always has a
\* job: refusals by the lock, expiries and late writes do not strand it.
THEOREM NothingStranded == EmissionSpec => []NoStrandedJob
<1>1. EmissionInit => StrandInv
  <2>1. EmissionInit => ~AwaitsWorker(inv)
    <3>1. NewInvoice("DRAFT", FALSE).pipeline = "DRAFT" /\ ~NoInvoice.exists
      BY DEF NoInvoice, NewInvoice
    <3> QED
      BY <3>1 DEF EmissionInit, AwaitsWorker
  <2>2. EmissionInit => \A w \in Workers : pc[w] \in {"idle", "prepare"}
    BY OpsAssumption DEF EmissionInit, Threads
  <2> QED
    BY <2>1, <2>2 DEF StrandInv, Pursues
<1>2. EmissionInit => ControlOK
  BY OpsAssumption DEF EmissionInit, LockInit, ControlOK, Threads, Labels, SyncTargets, Phases
<1>3. EmissionTypeOK /\ ControlOK => DataOK
  BY DEF EmissionTypeOK, DataOK
<1>4. StrandInv => NoStrandedJob
  BY DEF StrandInv, NoStrandedJob
<1> QED
  BY <1>1, <1>2, <1>3, <1>4, RowStart, ControlStep, DataStep, RowStep, StrandStep,
     EmissionTypeCorrect, PTL DEF EmissionSpec

-----------------------------------------------------------------------------
\* The jobs of a sale are bounded by its claims.

\* Operations that may enqueue, and the statements of EnqueueFiscalEmit.
Callers == Enqueuers \cup Reconcilers

Queueing == {"unlock", "claim", "tx", "push", "pushFailed", "dropClaim", "pushed"}

\* Workers emit what they popped and senders what they prepared: neither
\* enqueues.
RoleInv ==
  \A o \in Ops : /\ pc[o] = "reserve" => o \notin Workers
                 /\ pc[o] \in Queueing => o \in Callers

\* A popped job, or a claim on its way to the queue.
Holds(o) == IF o \in Workers THEN pc[o] # "idle" ELSE pc[o] \in {"tx", "push"}

Holders == {o \in Ops : Holds(o)}

Load == queue + retries + Cardinality(Holders)

\* Jobs the claim leaves room for: each expiry lets one more through.
Room == (IF claim THEN 1 ELSE 0) + claimTTLs

\* Statements from which an operation may still take the claim.
Ahead(o) ==
  \/ pc[o] \in {"presync", "recheck", "prepare", "classify", "reserve", "unlock", "claim"}
  \/ /\ pc[o] \in {"fetch", "read", "save", "sale", "settleWrite"}
     /\ then[o] \in {"recheck", "classify"}

\* At most two callers enqueue the sale.
FewCallers == \A a, b, c \in Callers : a = b \/ b = c \/ a = c

\* The claim is dropped only over a document the facturador has, and then by
\* the owner of the claim or beside another caller that has had it; while no
\* one else's claim is dropped, every claim covers at most one job.
JobInv ==
  faults = 0 =>
    /\ IsFiniteSet(Holders)
    /\ \A o \in Ops : /\ pc[o] # "pushFailed"
                      /\ pc[o] = "dropClaim" => inv.ext
                      /\ pc[o] = "dropClaim" /\ claim => \E p \in Callers \ {o} : ~Ahead(p)
    /\ \/ Load <= Room
       \/ inv.ext /\ (FewCallers => Load <= 1 + claimTTLs /\ \A p \in Callers : ~Ahead(p))

\* Every step keeps who enqueues.
LEMMA RoleStep == ControlOK /\ RoleInv /\ [EmissionNext]_emissionVars => RoleInv'
<1> SUFFICES ASSUME ControlOK, RoleInv, [EmissionNext]_emissionVars PROVE RoleInv'
  OBVIOUS
<1>0. ASSUME NEW t \in Threads, \A u \in Threads \ {t} : pc'[u] = pc[u],
             pc'[t] \in Queueing => pc[t] \in Queueing, pc'[t] # "reserve"
      PROVE  RoleInv'
  BY <1>0 DEF RoleInv, Threads
<1>00. ASSUME pc' = pc PROVE RoleInv'
  BY <1>00 DEF RoleInv
<1> USE OpsAssumption
    DEF ControlOK, Threads, SyncTargets, Queueing, At, Go, Sync, Finish, Missed, local
<1>1. ASSUME NEW o \in Ops, Prepared(o) PROVE RoleInv'
  <2>1. CASE Presync(o) \/ Recheck(o) \/ PrepareAcquire(o) \/ PrepareRefuse(o) \/ Refused(o)
    BY <1>0, <2>1 DEF Presync, Recheck, PrepareAcquire, PrepareRefuse, Refused
  <2>2. CASE Fetch(o) \/ FetchMiss(o)
    BY <1>0, <2>2 DEF Fetch, FetchMiss
  <2>3. CASE Classify(o)
    BY <2>3 DEF Classify, RoleInv
  <2> QED
    BY <1>1, <2>1, <2>2, <2>3 DEF Prepared
<1>2. ASSUME NEW o \in Ops, Sending(o) PROVE RoleInv'
  <2>1. CASE Reserve(o)
    BY <2>1 DEF Reserve, RoleInv, Callers
  <2>2. CASE \/ SendGuard(o) \/ Mark(o) \/ Emit(o) \/ FailRow(o)
             \/ PersistWrite(o) \/ SaleCheck(o) \/ SaleWrite(o)
    BY <1>0, <2>2 DEF SendGuard, Mark, Emit, FailRow, PersistWrite, SaleCheck, SaleWrite,
                      AfterPersist
  <2>3. CASE Persist(o)
    <3>1. \/ pc' = [pc EXCEPT ![o] = AfterPersist(o)]
          \/ pc' = [pc EXCEPT ![o] = "persistWrite"]
      BY <2>3 DEF Persist
    <3> QED
      BY <1>0, <3>1 DEF AfterPersist
  <2>4. CASE Settle(o) \/ SettleWrite(o) \/ Settled(o) \/ MarkSent(o)
    BY <1>0, <2>4 DEF Settle, SettleWrite, Settled, MarkSent
  <2>5. CASE FinishPrepared(o) \/ Resync(o) \/ WaitPoll(o) \/ WaitEnds(o)
    BY <1>0, <2>5 DEF FinishPrepared, Resync, WaitPoll, WaitEnds
  <2> QED
    BY <1>2, <2>1, <2>2, <2>3, <2>4, <2>5 DEF Sending
<1>3. ASSUME NEW o \in Ops, Enqueuing(o) PROVE RoleInv'
  BY <1>0, <1>3 DEF Enqueuing, Unlock, TryClaim, EnqueueTx, Push, PushFailedRow, DropClaim,
                    PushedSale
<1>4. ASSUME NEW o \in Ops, Pop(o) \/ Reconciling(o) PROVE RoleInv'
  BY <1>0, <1>4 DEF Pop, Reconciling, RecSelect, RecLock, RecCheck, RecEnd, Requeue, RecRelease
<1>5. ASSUME NEW t \in Threads, Applying(t) PROVE RoleInv'
  BY <1>0, <1>5 DEF Applying, ApplyRead, ApplySave, SyncSale
<1>6. ASSUME NEW h \in Hooks, HookReceive(h) PROVE RoleInv'
  BY <1>0, <1>00, <1>6 DEF HookReceive
<1>7. CASE RetryFires \/ FisAdvance \/ ClaimExpires \/ LockExpires
  BY <1>00, <1>7 DEF RetryFires, FisAdvance, ClaimExpires, LockExpires
<1>8. CASE Failing
  <2>1. ASSUME NEW o \in Ops, FetchFails(o) \/ EmitFails(o) \/ PushFails(o) PROVE RoleInv'
    BY <1>0, <2>1 DEF FetchFails, EmitFails, PushFails
  <2>2. ASSUME NEW h \in Hooks, HookLookupFails(h) \/ HookApplyFails(h) PROVE RoleInv'
    BY <1>0, <1>00, <2>2 DEF HookLookupFails, HookApplyFails
  <2>3. CASE LoseHook
    BY <1>00, <2>3 DEF LoseHook
  <2>4. ASSUME NEW G \in CrashGroups, Crash(G) PROVE RoleInv'
    BY <2>4 DEF Crash, RoleInv
  <2> QED
    BY <1>8, <2>1, <2>2, <2>3, <2>4 DEF Failing
<1>9. CASE UNCHANGED emissionVars
  BY <1>00, <1>9 DEF emissionVars
<1> QED
  BY <1>1, <1>2, <1>3, <1>4, <1>5, <1>6, <1>7, <1>8, <1>9 DEF EmissionNext, OpStep

\* Once the document is in the facturador no caller starts over.
LEMMA AheadStep ==
  ControlOK /\ inv.ext /\ [EmissionNext]_emissionVars
    => \A p \in Callers : Ahead(p)' => Ahead(p)
<1> DEFINE Behind == \A p \in Callers : Ahead(p)' => Ahead(p)
<1> SUFFICES ASSUME ControlOK, inv.ext, [EmissionNext]_emissionVars PROVE Behind
  OBVIOUS
<1>0. ASSUME NEW t \in Threads,
             \A u \in Threads \ {t} : pc'[u] = pc[u] /\ then'[u] = then[u],
             t \in Callers /\ Ahead(t)' => Ahead(t)
      PROVE  Behind
  BY <1>0, OpsAssumption DEF Ahead, Threads, Callers
<1>00. ASSUME pc' = pc, then' = then PROVE Behind
  BY <1>00 DEF Ahead
<1> HIDE DEF Behind
<1> USE OpsAssumption
    DEF ControlOK, Threads, SyncTargets, Callers, Ahead, At, Go, Sync, Finish, Missed, local
<1>1. ASSUME NEW o \in Ops, Prepared(o) PROVE Behind
  <2>1. CASE Presync(o) \/ Recheck(o) \/ PrepareAcquire(o)
    BY <1>0, <2>1 DEF Presync, Recheck, PrepareAcquire
  <2>2. CASE PrepareRefuse(o) \/ Refused(o) \/ Classify(o)
    BY <1>0, <2>2 DEF PrepareRefuse, Refused, Classify
  <2>3. CASE Fetch(o) \/ FetchMiss(o)
    BY <1>0, <2>3 DEF Fetch, FetchMiss
  <2> QED
    BY <1>1, <2>1, <2>2, <2>3 DEF Prepared
<1>2. ASSUME NEW o \in Ops, Sending(o) PROVE Behind
  <2>1. CASE Reserve(o)
    BY <1>0, <2>1 DEF Reserve
  <2>2. CASE \/ SendGuard(o) \/ Mark(o) \/ Emit(o) \/ FailRow(o)
             \/ PersistWrite(o) \/ SaleCheck(o) \/ SaleWrite(o)
    BY <1>0, <2>2 DEF SendGuard, Mark, Emit, FailRow, PersistWrite, SaleCheck, SaleWrite,
                      AfterPersist
  <2>3. CASE Persist(o)
    <3>1. \/ pc' = [pc EXCEPT ![o] = AfterPersist(o)]
          \/ pc' = [pc EXCEPT ![o] = "persistWrite"]
      BY <2>3 DEF Persist
    <3>2. then' = then
      BY <2>3 DEF Persist
    <3> QED
      BY <1>0, <3>1, <3>2 DEF AfterPersist
  <2>4. CASE Settle(o) \/ SettleWrite(o) \/ Settled(o) \/ MarkSent(o)
    <3>1. CASE Settle(o)
      BY <1>0, <3>1 DEF Settle
    <3>2. CASE SettleWrite(o)
      <4>1. pc' = [pc EXCEPT ![o] = "sale"] /\ then' = then /\ pc[o] = "settleWrite"
        BY <3>2 DEF SettleWrite
      <4> QED
        BY <1>0, <4>1
    <3>3. CASE Settled(o) \/ MarkSent(o)
      BY <1>0, <3>3 DEF Settled, MarkSent
    <3> QED
      BY <2>4, <3>1, <3>2, <3>3
  <2>5. CASE FinishPrepared(o) \/ Resync(o) \/ WaitPoll(o) \/ WaitEnds(o)
    BY <1>0, <2>5 DEF FinishPrepared, Resync, WaitPoll, WaitEnds
  <2> QED
    BY <1>2, <2>1, <2>2, <2>3, <2>4, <2>5 DEF Sending
<1>3. ASSUME NEW o \in Ops, Enqueuing(o) PROVE Behind
  <2>1. CASE Unlock(o) \/ TryClaim(o)
    BY <1>0, <2>1 DEF Unlock, TryClaim
  <2>2. CASE EnqueueTx(o)
    <3>1. \/ pc' = [pc EXCEPT ![o] = "dropClaim"]
          \/ pc' = [pc EXCEPT ![o] = "push"]
      BY <2>2 DEF EnqueueTx
    <3>2. then' = then
      BY <2>2 DEF EnqueueTx
    <3> QED
      BY <1>0, <3>1, <3>2
  <2>3. CASE Push(o) \/ PushFailedRow(o) \/ DropClaim(o) \/ PushedSale(o)
    BY <1>0, <2>3 DEF Push, PushFailedRow, DropClaim, PushedSale
  <2> QED
    BY <1>3, <2>1, <2>2, <2>3 DEF Enqueuing
<1>4. ASSUME NEW o \in Ops, Pop(o) \/ Reconciling(o) PROVE Behind
  <2>1. CASE Pop(o)
    BY <1>0, <2>1 DEF Pop
  <2>2. CASE RecSelect(o) \/ RecLock(o) \/ RecCheck(o) \/ RecEnd(o) \/ RecRelease(o)
    BY <1>0, <2>2 DEF RecSelect, RecLock, RecCheck, RecEnd, RecRelease
  <2>3. CASE Requeue(o)
    BY <1>0, <2>3 DEF Requeue, Stale
  <2> QED
    BY <1>4, <2>1, <2>2, <2>3 DEF Reconciling
<1>5. ASSUME NEW t \in Threads, Applying(t) PROVE Behind
  <2>1. CASE ApplyRead(t) \/ ApplySave(t)
    <3>1. /\ then' = then
          /\ \/ pc[t] = "read" /\ pc' = [pc EXCEPT ![t] = "save"]
             \/ pc[t] = "save" /\ pc' = [pc EXCEPT ![t] = "sale"]
      BY <2>1 DEF ApplyRead, ApplySave
    <3> QED
      BY <1>0, <3>1
  <2>2. CASE SyncSale(t)
    BY <1>0, <2>2 DEF SyncSale
  <2> QED
    BY <1>5, <2>1, <2>2 DEF Applying
<1>6. ASSUME NEW h \in Hooks, HookReceive(h) PROVE Behind
  BY <1>0, <1>00, <1>6 DEF HookReceive
<1>7. CASE RetryFires \/ FisAdvance \/ ClaimExpires \/ LockExpires
  BY <1>00, <1>7 DEF RetryFires, FisAdvance, ClaimExpires, LockExpires
<1>8. CASE Failing
  <2>1. ASSUME NEW o \in Ops, FetchFails(o) \/ EmitFails(o) \/ PushFails(o) PROVE Behind
    BY <1>0, <2>1 DEF FetchFails, EmitFails, PushFails
  <2>2. ASSUME NEW h \in Hooks, HookLookupFails(h) \/ HookApplyFails(h) PROVE Behind
    BY <1>0, <1>00, <2>2 DEF HookLookupFails, HookApplyFails
  <2>3. CASE LoseHook
    BY <1>00, <2>3 DEF LoseHook
  <2>4. ASSUME NEW G \in CrashGroups, Crash(G) PROVE Behind
    BY <2>4 DEF Crash, Behind
  <2> QED
    BY <1>8, <2>1, <2>2, <2>3, <2>4 DEF Failing
<1>9. CASE UNCHANGED emissionVars
  BY <1>00, <1>9 DEF emissionVars
<1> QED
  BY <1>1, <1>2, <1>3, <1>4, <1>5, <1>6, <1>7, <1>8, <1>9 DEF EmissionNext, OpStep

\* A step that creates no job and leaves the claim alone.
Quiet ==
  /\ \A o \in Ops : Holds(o)' => Holds(o)
  /\ \A o \in Ops : pc'[o] \in {"pushFailed", "dropClaim"} => pc'[o] = pc[o]
  /\ UNCHANGED <<queue, retries, claim, claimTTLs>>

\* The steps that move a job or the claim.
JobMove(o) ==
  \/ Refused(o) \/ TryClaim(o) \/ EnqueueTx(o) \/ Push(o) \/ DropClaim(o) \/ Pop(o)

\* While nothing fails, every other step of a thread is quiet.
LEMMA QuietSteps ==
  ControlOK /\ RoleInv /\ DataOK /\ [EmissionNext]_emissionVars /\ faults' = 0
    /\ (\A o \in Ops : pc[o] # "pushFailed")
    => Quiet \/ RetryFires \/ ClaimExpires \/ \E o \in Ops : JobMove(o)
<1> DEFINE Goal == Quiet \/ RetryFires \/ ClaimExpires \/ \E o \in Ops : JobMove(o)
<1> SUFFICES ASSUME ControlOK, RoleInv, DataOK, [EmissionNext]_emissionVars, faults' = 0,
                    \A o \in Ops : pc[o] # "pushFailed"
             PROVE  Goal
  OBVIOUS
<1>0. ASSUME NEW t \in Threads, \A u \in Threads \ {t} : pc'[u] = pc[u],
             pc'[t] \notin {"tx", "push", "pushFailed", "dropClaim"},
             t \in Workers => pc[t] # "idle",
             UNCHANGED <<queue, retries, claim, claimTTLs>>
      PROVE  Goal
  <2>1. Quiet
    BY <1>0 DEF Quiet, Holds, Threads
  <2> QED
    BY <2>1
<1>00. ASSUME pc' = pc, UNCHANGED <<queue, retries, claim, claimTTLs>> PROVE Goal
  <2>1. Quiet
    BY <1>00 DEF Quiet, Holds
  <2> QED
    BY <2>1
<1>000. ASSUME NEW o \in Ops, JobMove(o) PROVE Goal
  BY <1>000
<1> HIDE DEF Goal
<1> USE OpsAssumption
    DEF ControlOK, Threads, SyncTargets, At, Go, Sync, Finish, Missed, local, jobs, caps
<1>1. ASSUME NEW o \in Ops, Prepared(o) PROVE Goal
  <2>1. CASE Presync(o) \/ Recheck(o) \/ PrepareAcquire(o)
    BY <1>0, <2>1 DEF Presync, Recheck, PrepareAcquire
  <2>2. CASE PrepareRefuse(o) \/ Classify(o)
    BY <1>0, <2>2 DEF PrepareRefuse, Classify
  <2>3. CASE Fetch(o) \/ FetchMiss(o)
    BY <1>0, <2>3 DEF Fetch, FetchMiss
  <2> QED
    BY <1>1, <1>000, <2>1, <2>2, <2>3 DEF Prepared, JobMove
<1>2. ASSUME NEW o \in Ops, Sending(o) PROVE Goal
  <2>1. CASE Reserve(o)
    BY <1>0, <2>1 DEF Reserve
  <2>2. CASE \/ SendGuard(o) \/ Mark(o) \/ Emit(o) \/ FailRow(o)
             \/ PersistWrite(o) \/ SaleCheck(o) \/ SaleWrite(o)
    BY <1>0, <2>2 DEF SendGuard, Mark, Emit, FailRow, PersistWrite, SaleCheck, SaleWrite,
                      AfterPersist
  <2>3. CASE Persist(o)
    <3>1. /\ pc[o] = "persist" /\ UNCHANGED <<jobs, caps>>
          /\ \/ pc' = [pc EXCEPT ![o] = AfterPersist(o)]
             \/ pc' = [pc EXCEPT ![o] = "persistWrite"]
      BY <2>3 DEF Persist
    <3> QED
      BY <1>0, <3>1 DEF AfterPersist
  <2>4. CASE Settle(o)
    BY <1>0, <2>4 DEF Settle
  <2>5. CASE SettleWrite(o)
    <3>1. /\ pc[o] = "settleWrite" /\ UNCHANGED <<jobs, caps>>
          /\ pc' = [pc EXCEPT ![o] = "sale"]
      BY <2>5 DEF SettleWrite
    <3> QED
      BY <1>0, <3>1
  <2>6. CASE Settled(o) \/ MarkSent(o)
    BY <1>0, <2>6 DEF Settled, MarkSent
  <2>7. CASE FinishPrepared(o) \/ Resync(o) \/ WaitPoll(o) \/ WaitEnds(o)
    BY <1>0, <2>7 DEF FinishPrepared, Resync, WaitPoll, WaitEnds
  <2> QED
    BY <1>2, <2>1, <2>2, <2>3, <2>4, <2>5, <2>6, <2>7 DEF Sending
<1>3. ASSUME NEW o \in Ops, Enqueuing(o) PROVE Goal
  <2>1. CASE Unlock(o) \/ PushedSale(o)
    BY <1>0, <2>1 DEF Unlock, PushedSale
  <2>2. ~PushFailedRow(o)
    BY DEF PushFailedRow
  <2> QED
    BY <1>3, <1>000, <2>1, <2>2 DEF Enqueuing, JobMove
<1>4. ASSUME NEW o \in Ops, Pop(o) \/ Reconciling(o) PROVE Goal
  <2>1. CASE RecSelect(o) \/ RecLock(o) \/ RecCheck(o) \/ RecEnd(o)
    BY <1>0, <2>1 DEF RecSelect, RecLock, RecCheck, RecEnd
  <2>2. CASE Requeue(o) \/ RecRelease(o)
    BY <1>0, <2>2 DEF Requeue, RecRelease
  <2> QED
    BY <1>4, <1>000, <2>1, <2>2 DEF Reconciling, JobMove
<1>5. ASSUME NEW t \in Threads, Applying(t) PROVE Goal
  <2>1. CASE ApplyRead(t) \/ ApplySave(t)
    <3>1. /\ UNCHANGED <<jobs, caps>>
          /\ \/ pc[t] = "read" /\ pc' = [pc EXCEPT ![t] = "save"]
             \/ pc[t] = "save" /\ pc' = [pc EXCEPT ![t] = "sale"]
      BY <2>1 DEF ApplyRead, ApplySave
    <3> QED
      BY <1>0, <3>1
  <2>2. CASE SyncSale(t)
    BY <1>0, <2>2 DEF SyncSale
  <2> QED
    BY <1>5, <2>1, <2>2 DEF Applying
<1>6. ASSUME NEW h \in Hooks, HookReceive(h) PROVE Goal
  BY <1>0, <1>00, <1>6 DEF HookReceive
<1>7. CASE RetryFires \/ FisAdvance \/ ClaimExpires \/ LockExpires
  BY <1>00, <1>7 DEF FisAdvance, LockExpires, Goal
<1>8. CASE Failing
  BY <1>8, FaultsCounted
<1>9. CASE UNCHANGED emissionVars
  BY <1>00, <1>9 DEF emissionVars
<1> QED
  BY <1>1, <1>2, <1>3, <1>4, <1>5, <1>6, <1>7, <1>8, <1>9 DEF EmissionNext, OpStep

\* Only a failure changes the count of failures.
LEMMA FaultsKept == [EmissionNext]_emissionVars => Failing \/ faults' = faults
<1> SUFFICES ASSUME [EmissionNext]_emissionVars, ~Failing PROVE faults' = faults
  OBVIOUS
<1> USE DEF caps
<1>1. ASSUME NEW o \in Ops, Prepared(o) PROVE faults' = faults
  BY <1>1 DEF Prepared, Presync, Recheck, PrepareAcquire, PrepareRefuse, Refused, Fetch,
              FetchMiss, Classify
<1>2. ASSUME NEW o \in Ops, Sending(o) PROVE faults' = faults
  BY <1>2 DEF Sending, Reserve, SendGuard, Mark, Emit, FailRow, Persist, PersistWrite, SaleCheck,
              SaleWrite, Settle, SettleWrite, Settled, MarkSent, FinishPrepared, Resync, WaitPoll,
              WaitEnds
<1>3. ASSUME NEW o \in Ops, Enqueuing(o) \/ Pop(o) \/ Reconciling(o) PROVE faults' = faults
  BY <1>3 DEF Enqueuing, Unlock, TryClaim, EnqueueTx, Push, PushFailedRow, DropClaim, PushedSale,
              Pop, Reconciling, RecSelect, RecLock, RecCheck, RecEnd, Requeue, RecRelease
<1>4. ASSUME NEW t \in Threads, Applying(t) PROVE faults' = faults
  BY <1>4 DEF Applying, ApplyRead, ApplySave, SyncSale
<1>5. ASSUME NEW h \in Hooks, HookReceive(h) PROVE faults' = faults
  BY <1>5 DEF HookReceive
<1>6. CASE RetryFires \/ FisAdvance \/ ClaimExpires \/ LockExpires
  BY <1>6 DEF RetryFires, FisAdvance, ClaimExpires, LockExpires
<1>7. CASE UNCHANGED emissionVars
  BY <1>7 DEF emissionVars
<1> QED
  BY <1>1, <1>2, <1>3, <1>4, <1>5, <1>6, <1>7 DEF EmissionNext, OpStep

\* An enqueuer that finds the acceptance leaves no job behind.
LEMMA EvidenceShows == ASSUME HasAcceptanceEvidence(inv) PROVE Shows(inv)
BY DEF HasAcceptanceEvidence, Shows

\* A job less pays for a claim less.
LEMMA OneLess ==
  ASSUME NEW load \in Int, NEW room \in Int, NEW left \in Int, room <= left + 1
  PROVE  load <= room => load - 1 <= left
OBVIOUS

\* Every step keeps the bound on the jobs.
LEMMA JobStep ==
  ControlOK /\ RoleInv /\ RowInv /\ DataOK /\ DataOK' /\ JobInv /\ [EmissionNext]_emissionVars
    => JobInv'
<1> SUFFICES ASSUME ControlOK, RoleInv, RowInv, DataOK, DataOK', JobInv,
                    [EmissionNext]_emissionVars, faults' = 0
             PROVE  JobInv'
  BY DEF JobInv
<1>1. faults = 0
  BY FaultsCounted, FaultsKept
<1>2. /\ IsFiniteSet(Holders)
      /\ \A o \in Ops : /\ pc[o] # "pushFailed"
                        /\ pc[o] = "dropClaim" => inv.ext
                        /\ pc[o] = "dropClaim" /\ claim => \E p \in Callers \ {o} : ~Ahead(p)
  BY <1>1 DEF JobInv
<1>3. \/ Load <= Room
      \/ inv.ext /\ (FewCallers => Load <= 1 + claimTTLs /\ \A p \in Callers : ~Ahead(p))
  BY <1>1 DEF JobInv
<1>4. inv.ext => inv'.ext /\ \A p \in Callers : Ahead(p)' => Ahead(p)
  <2>1. inv.ext => inv'.ext
    BY RowForward DEF RowMoves
  <2> QED
    BY <2>1, AheadStep
<1>5. /\ queue \in Nat /\ retries \in Nat /\ queue' \in Nat /\ retries' \in Nat
      /\ claimTTLs \in Nat /\ claimTTLs' \in Nat /\ claim \in BOOLEAN /\ claim' \in BOOLEAN
      /\ Cardinality(Holders) \in Nat
  BY <1>2, FS_CardinalityType DEF DataOK
<1>6. ASSUME IsFiniteSet(Holders'), Load' <= Load, UNCHANGED <<claim, claimTTLs>>,
             \A o \in Ops : pc'[o] \in {"pushFailed", "dropClaim"} => pc'[o] = pc[o]
      PROVE  JobInv'
  <2>1. Load \in Nat /\ Load' \in Nat /\ Room \in Nat /\ Room' = Room
    <3>1. Cardinality(Holders') \in Nat
      BY <1>6, FS_CardinalityType
    <3> QED
      BY <1>5, <1>6, <3>1 DEF Load, Room
  <2>2. \/ Load' <= Room'
        \/ inv'.ext /\ (FewCallers => Load' <= 1 + claimTTLs' /\ \A p \in Callers : ~Ahead(p)')
    BY <1>3, <1>4, <1>5, <1>6, <2>1
  <2>3. \A o \in Ops : /\ pc'[o] # "pushFailed"
                       /\ pc'[o] = "dropClaim" => inv'.ext
                       /\ pc'[o] = "dropClaim" /\ claim' => \E p \in Callers \ {o} : ~Ahead(p)'
    BY <1>2, <1>4, <1>6
  <2> QED
    BY <1>6, <2>2, <2>3 DEF JobInv, FewCallers, Callers
<1> USE OpsAssumption DEF ControlOK, Threads, Callers, Queueing, At, Go, Finish, jobs, caps
\* A holder that goes.
<1>7. ASSUME NEW o \in Ops, Holds(o), ~Holds(o)', \A p \in Ops \ {o} : Holds(p)' = Holds(p)
      PROVE  IsFiniteSet(Holders') /\ Cardinality(Holders') = Cardinality(Holders) - 1
  <2>1. Holders' = Holders \ {o} /\ o \in Holders
    BY <1>7 DEF Holders
  <2> QED
    BY <1>2, <2>1, FS_RemoveElement
\* A holder that comes.
<1>8. ASSUME NEW o \in Ops, ~Holds(o), Holds(o)', \A p \in Ops \ {o} : Holds(p)' = Holds(p)
      PROVE  IsFiniteSet(Holders') /\ Cardinality(Holders') = Cardinality(Holders) + 1
  <2>1. Holders' = Holders \cup {o} /\ o \notin Holders
    BY <1>8 DEF Holders
  <2> QED
    BY <1>2, <2>1, FS_AddElement
\* None comes.
<1>9. ASSUME \A p \in Ops : Holds(p)' => Holds(p)
      PROVE  /\ IsFiniteSet(Holders') /\ Cardinality(Holders') \in Nat
             /\ Cardinality(Holders') <= Cardinality(Holders)
  <2>1. Holders' \in SUBSET Holders
    BY <1>9 DEF Holders
  <2> QED
    BY <1>2, <2>1, FS_Subset, FS_CardinalityType
<1>10. CASE Quiet
  <2>1. Load' <= Load
    BY <1>5, <1>9, <1>10 DEF Quiet, Load
  <2> QED
    BY <1>6, <1>9, <1>10, <2>1 DEF Quiet
<1>11. CASE RetryFires
  <2>1. UNCHANGED <<pc, claim, claimTTLs>> /\ retries' = retries - 1 /\ queue' = queue + 1
    BY <1>11 DEF RetryFires
  <2>2. \A p \in Ops : Holds(p)' => Holds(p)
    BY <2>1 DEF Holds
  <2>3. Load' <= Load
    BY <1>5, <1>9, <2>1, <2>2 DEF Load
  <2> QED
    BY <1>6, <1>9, <2>1, <2>2, <2>3
<1>12. CASE ClaimExpires
  <2>1. UNCHANGED <<pc, then, queue, retries, inv>> /\ claim /\ ~claim' /\ claimTTLs' = claimTTLs + 1
    BY <1>12 DEF ClaimExpires, db, local
  <2>2. Holders' = Holders /\ Load' = Load
    BY <2>1 DEF Holders, Holds, Load
  <2>3. Room' = Room
    BY <1>5, <2>1 DEF Room
  <2>4. Load \in Nat
    BY <1>5 DEF Load
  <2>5. \/ Load' <= Room'
        \/ inv'.ext /\ (FewCallers => Load' <= 1 + claimTTLs' /\ \A p \in Callers : ~Ahead(p)')
    BY <1>3, <1>4, <1>5, <2>1, <2>2, <2>3, <2>4
  <2> QED
    BY <1>2, <2>1, <2>2, <2>5 DEF JobInv, FewCallers
<1>13. ASSUME NEW o \in Ops, Refused(o) PROVE JobInv'
  <2>1. /\ UNCHANGED <<queue, claim, claimTTLs>> /\ pc[o] = "refused"
        /\ pc' = [pc EXCEPT ![o] = Finish(o)]
        /\ retries' = IF o \in Workers THEN retries + 1 ELSE retries
    BY <1>13 DEF Refused
  <2>2. Finish(o) \notin {"pushFailed", "dropClaim", "tx", "push"}
    OBVIOUS
  <2>3. CASE o \in Workers
    <3>1. Holds(o) /\ ~Holds(o)' /\ \A p \in Ops \ {o} : Holds(p)' = Holds(p)
      BY <2>1, <2>3 DEF Holds
    <3>2. IsFiniteSet(Holders') /\ Cardinality(Holders') = Cardinality(Holders) - 1
      BY <1>7, <3>1
    <3>3. Load' <= Load
      BY <1>5, <2>1, <2>3, <3>2 DEF Load
    <3> QED
      BY <1>6, <2>1, <2>2, <3>2, <3>3
  <2>4. CASE o \notin Workers
    <3>1. \A p \in Ops : Holds(p)' => Holds(p)
      BY <2>1, <2>2, <2>4 DEF Holds
    <3>2. Load' <= Load
      BY <1>5, <1>9, <2>1, <2>4, <3>1 DEF Load
    <3> QED
      BY <1>6, <1>9, <2>1, <2>2, <3>1, <3>2
  <2> QED
    BY <2>3, <2>4
<1>14. ASSUME NEW o \in Ops, Pop(o) PROVE JobInv'
  <2>1. /\ UNCHANGED <<retries, claim, claimTTLs>> /\ pc[o] = "idle" /\ o \in Workers
        /\ pc' = [pc EXCEPT ![o] = "prepare"] /\ queue' = queue - 1
    BY <1>14 DEF Pop
  <2>2. ~Holds(o) /\ Holds(o)' /\ \A p \in Ops \ {o} : Holds(p)' = Holds(p)
    BY <2>1 DEF Holds
  <2>3. IsFiniteSet(Holders') /\ Cardinality(Holders') = Cardinality(Holders) + 1
    BY <1>8, <2>2
  <2>4. Load' <= Load
    BY <1>5, <2>1, <2>3 DEF Load
  <2> QED
    BY <1>6, <2>1, <2>3, <2>4
<1>15. ASSUME NEW o \in Ops, Push(o) PROVE JobInv'
  <2>1. /\ UNCHANGED <<retries, claim, claimTTLs>> /\ pc[o] = "push"
        /\ pc' = [pc EXCEPT ![o] = "pushed"] /\ queue' = queue + 1
    BY <1>15 DEF Push
  <2>2. o \notin Workers
    BY <2>1 DEF RoleInv
  <2>3. Holds(o) /\ ~Holds(o)' /\ \A p \in Ops \ {o} : Holds(p)' = Holds(p)
    BY <2>1, <2>2 DEF Holds
  <2>4. IsFiniteSet(Holders') /\ Cardinality(Holders') = Cardinality(Holders) - 1
    BY <1>7, <2>3
  <2>5. Load' <= Load
    BY <1>5, <2>1, <2>4 DEF Load
  <2> QED
    BY <1>6, <2>1, <2>4, <2>5
<1>16. ASSUME NEW o \in Ops, TryClaim(o) PROVE JobInv'
  <2>1. /\ UNCHANGED <<inv, then, queue, retries, claimTTLs>> /\ claim' /\ pc[o] = "claim"
        /\ pc' = [pc EXCEPT ![o] = IF claim THEN Finish(o) ELSE "tx"]
    BY <1>16 DEF TryClaim, db, local
  <2>2. o \notin Workers /\ o \in Callers
    BY <2>1 DEF RoleInv
  <2>3. CASE claim
    <3>1. \A p \in Ops : Holds(p)' => Holds(p)
      BY <2>1, <2>2, <2>3 DEF Holds
    <3>2. Load' <= Load
      BY <1>5, <1>9, <2>1, <3>1 DEF Load
    <3>3. claim' = claim
      BY <1>5, <2>1, <2>3
    <3>4. \A p \in Ops : pc'[p] \in {"pushFailed", "dropClaim"} => pc'[p] = pc[p]
      BY <2>1, <2>2, <2>3
    <3> QED
      BY <1>6, <1>9, <2>1, <3>1, <3>2, <3>3, <3>4
  <2>4. CASE ~claim
    <3>1. ~Holds(o) /\ Holds(o)' /\ \A p \in Ops \ {o} : Holds(p)' = Holds(p)
      BY <2>1, <2>2, <2>4 DEF Holds
    <3>2. IsFiniteSet(Holders') /\ Cardinality(Holders') = Cardinality(Holders) + 1
      BY <1>8, <3>1
    <3>3. Load' = Load + 1 /\ Room' = Room + 1 /\ Load \in Nat /\ Room \in Nat
      BY <1>5, <2>1, <2>4, <3>2 DEF Load, Room
    <3>4. \/ Load' <= Room'
          \/ inv'.ext /\ ~FewCallers
      BY <1>3, <1>4, <2>1, <2>2, <3>3 DEF Ahead
    <3>5. ~Ahead(o)'
      BY <2>1, <2>4 DEF Ahead
    <3>6. \A p \in Ops : /\ pc'[p] # "pushFailed"
                         /\ pc'[p] = "dropClaim" => inv'.ext
                         /\ pc'[p] = "dropClaim" /\ claim' => \E q \in Callers \ {p} : ~Ahead(q)'
      BY <1>2, <1>4, <2>1, <2>2, <2>4, <3>5
    <3> QED
      BY <3>2, <3>4, <3>6 DEF JobInv, FewCallers
  <2> QED
    BY <2>3, <2>4
<1>17. ASSUME NEW o \in Ops, EnqueueTx(o) PROVE JobInv'
  <2>1. pc[o] = "tx" /\ UNCHANGED <<queue, retries, claimTTLs, then>>
    BY <1>17 DEF EnqueueTx, local
  <2>2. o \notin Workers /\ o \in Callers
    BY <2>1 DEF RoleInv
  <2>3. CASE HasFinalSunatOutcome(inv) /\ HasAcceptanceEvidence(inv)
    <3>1. pc' = [pc EXCEPT ![o] = "dropClaim"] /\ inv' = inv /\ ~claim'
      BY <1>17, <2>3 DEF EnqueueTx
    <3>2. inv'.ext
      BY <2>3, <3>1, EvidenceShows DEF RowInv
    <3>3. Holds(o) /\ ~Holds(o)' /\ \A p \in Ops \ {o} : Holds(p)' = Holds(p)
      BY <2>1, <2>2, <3>1 DEF Holds
    <3>4. IsFiniteSet(Holders') /\ Cardinality(Holders') = Cardinality(Holders) - 1
      BY <1>7, <3>3
    <3>5. Load' = Load - 1 /\ Room <= Room' + 1 /\ Load \in Int /\ Room \in Int /\ Room' \in Int
      BY <1>5, <2>1, <3>1, <3>4 DEF Load, Room
    <3>6. \/ Load' <= Room'
          \/ inv'.ext /\ (FewCallers => Load' <= 1 + claimTTLs' /\ \A p \in Callers : ~Ahead(p)')
      <4>1. Load <= Room => Load' <= Room'
        BY <3>5, OneLess
      <4>2. Load <= 1 + claimTTLs => Load' <= 1 + claimTTLs'
        BY <1>5, <2>1, <3>5
      <4> QED
        BY <1>3, <1>4, <4>1, <4>2
    <3>7. \A p \in Ops : pc'[p] # "pushFailed" /\ (pc'[p] = "dropClaim" => inv'.ext)
      BY <1>2, <3>1, <3>2
    <3> QED
      BY <3>1, <3>4, <3>6, <3>7 DEF JobInv, FewCallers
  <2>4. CASE ~(HasFinalSunatOutcome(inv) /\ HasAcceptanceEvidence(inv))
    <3>1. pc' = [pc EXCEPT ![o] = "push"] /\ claim' = claim
      BY <1>17, <2>4 DEF EnqueueTx
    <3>2. \A p \in Ops : Holds(p)' => Holds(p)
      BY <2>1, <2>2, <3>1 DEF Holds
    <3>3. Load' <= Load
      BY <1>5, <1>9, <2>1, <3>2 DEF Load
    <3> QED
      BY <1>6, <1>9, <2>1, <3>1, <3>2, <3>3
  <2> QED
    BY <2>3, <2>4
<1>18. ASSUME NEW o \in Ops, DropClaim(o) PROVE JobInv'
  <2>1. /\ pc[o] = "dropClaim" /\ ~claim' /\ UNCHANGED <<inv, then, queue, retries, claimTTLs>>
        /\ pc' = [pc EXCEPT ![o] = Finish(o)]
    BY <1>18 DEF DropClaim, db, local
  <2>2. o \notin Workers /\ o \in Callers /\ inv.ext
    BY <1>2, <2>1 DEF RoleInv
  <2>3. \A p \in Ops : Holds(p)' => Holds(p)
    BY <2>1, <2>2 DEF Holds
  <2>4. /\ Load' <= Load /\ Load \in Nat /\ Load' \in Nat
        /\ Room <= 1 + claimTTLs' /\ (~claim => Room' = Room) /\ Room \in Nat
    BY <1>5, <1>9, <2>1, <2>3 DEF Load, Room
  <2>5. ASSUME FewCallers, claim PROVE \A p \in Callers : ~Ahead(p)'
    <3>1. PICK q \in Callers \ {o} : ~Ahead(q)
      BY <1>2, <2>1, <2>5
    <3>2. \A p \in Callers : p = o \/ p = q
      BY <2>2, <2>5, <3>1 DEF FewCallers
    <3>3. ~Ahead(o)
      BY <2>1 DEF Ahead
    <3> QED
      BY <1>4, <2>2, <3>1, <3>2, <3>3
  <2>6. \/ Load' <= Room'
        \/ inv'.ext /\ (FewCallers => Load' <= 1 + claimTTLs' /\ \A p \in Callers : ~Ahead(p)')
    <3>1. CASE claim
      <4>1. FewCallers => Load' <= 1 + claimTTLs'
        BY <1>3, <1>5, <2>1, <2>4
      <4> QED
        BY <1>4, <2>2, <2>5, <3>1, <4>1
    <3>2. CASE ~claim
      <4>1. Load <= Room => Load' <= Room'
        BY <2>4, <3>2
      <4>2. FewCallers /\ Load <= 1 + claimTTLs => Load' <= 1 + claimTTLs'
        BY <1>5, <2>1, <2>4
      <4> QED
        BY <1>3, <1>4, <4>1, <4>2
    <3> QED
      BY <3>1, <3>2
  <2>7. \A p \in Ops : pc'[p] # "pushFailed" /\ (pc'[p] = "dropClaim" => inv'.ext)
    BY <1>2, <2>1, <2>2
  <2> QED
    BY <1>9, <2>1, <2>3, <2>6, <2>7 DEF JobInv, FewCallers
<1> QED
  <2>1. Quiet \/ RetryFires \/ ClaimExpires \/ \E o \in Ops : JobMove(o)
    BY <1>2, QuietSteps
  <2> QED
    BY <1>10, <1>11, <1>12, <1>13, <1>14, <1>15, <1>16, <1>17, <1>18, <2>1 DEF JobMove

\* A load within the bound is within it as the property counts it: a claim
\* on its way to the transaction is no job yet.
LEMMA LoadBounds ==
  ASSUME ControlOK, DataOK, RoleInv, JobInv, faults = 0, FewCallers \/ ~inv.ext
  PROVE  LiveJobs <= 1 + claimTTLs
<1> DEFINE busy == {o \in Workers : pc[o] # "idle"}
           pushing == {o \in Ops : pc[o] = "push"}
<1>1. IsFiniteSet(Holders) /\ Load <= 1 + claimTTLs
  <2>1. IsFiniteSet(Holders) /\ (Load <= Room \/ Load <= 1 + claimTTLs)
    BY DEF JobInv
  <2>2. /\ queue \in Nat /\ retries \in Nat /\ claimTTLs \in Nat
        /\ Cardinality(Holders) \in Nat
    BY <2>1, FS_CardinalityType DEF DataOK
  <2> QED
    BY <2>1, <2>2 DEF Load, Room
<1>2. busy \cup pushing \in SUBSET Holders /\ busy \in SUBSET Holders /\ pushing \in SUBSET Holders
  BY OpsAssumption DEF Holders, Holds, RoleInv, Queueing, Callers
<1>3. busy \cap pushing = {}
  BY OpsAssumption DEF RoleInv, Queueing, Callers
<1>4. IsFiniteSet(busy) /\ IsFiniteSet(pushing)
  BY <1>1, <1>2, FS_Subset
<1>5. Cardinality(busy \cup pushing) = Cardinality(busy) + Cardinality(pushing)
  <2>1. Cardinality(busy \cup pushing)
          = Cardinality(busy) + Cardinality(pushing) - Cardinality(busy \cap pushing)
    BY <1>4, FS_Union
  <2>2. /\ Cardinality(busy \cap pushing) = 0
        /\ Cardinality(busy) \in Nat /\ Cardinality(pushing) \in Nat
    BY <1>3, <1>4, FS_EmptySet, FS_CardinalityType
  <2> QED
    BY <2>1, <2>2
<1>6. Cardinality(busy \cup pushing) <= Cardinality(Holders)
  BY <1>1, <1>2, FS_Subset
<1>7. /\ queue \in Nat /\ retries \in Nat /\ claimTTLs \in Nat /\ Cardinality(Holders) \in Nat
      /\ Cardinality(busy) \in Nat /\ Cardinality(pushing) \in Nat
  BY <1>1, <1>4, FS_CardinalityType DEF DataOK
<1>8. LiveJobs = queue + retries + Cardinality(busy) + Cardinality(pushing)
  BY DEF LiveJobs
<1> HIDE DEF busy, pushing
<1> QED
  BY <1>1, <1>5, <1>6, <1>7, <1>8 DEF Load

\* What the bound rests on holds of every behaviour.
LEMMA JobsInvariant ==
  EmissionSpec => [](ControlOK /\ DataOK /\ RoleInv /\ JobInv)
<1>1. EmissionInit => RoleInv /\ JobInv
  <2> SUFFICES ASSUME EmissionInit PROVE RoleInv /\ JobInv
    OBVIOUS
  <2>1. \A o \in Ops : pc[o] \in {"presync", "prepare", "idle"} /\ (o \in Workers => pc[o] = "idle")
    BY OpsAssumption DEF EmissionInit, Threads
  <2>2. RoleInv
    BY <2>1 DEF RoleInv, Queueing
  <2>3. Holders = {}
    BY <2>1 DEF Holders, Holds
  <2>4. IsFiniteSet(Holders) /\ Cardinality(Holders) = 0
    BY <2>3, FS_EmptySet
  <2>5. Load <= Room
    BY <2>4 DEF EmissionInit, Load, Room
  <2> QED
    BY <2>1, <2>2, <2>4, <2>5 DEF JobInv
<1>2. EmissionInit => ControlOK
  BY OpsAssumption DEF EmissionInit, LockInit, ControlOK, Threads, Labels, SyncTargets, Phases
<1>3. EmissionTypeOK /\ ControlOK => DataOK
  BY DEF EmissionTypeOK, DataOK
<1> QED
  BY <1>1, <1>2, <1>3, RowStart, ControlStep, DataStep, RowStep, RoleStep, JobStep,
     EmissionTypeCorrect, PTL DEF EmissionSpec

\* Without failures, one more than the times the claim has run out: the jobs
\* of a sale that at most two callers enqueue.  Three do not keep it:
\* EnqueueFiscalEmit drops the claim of an accepted document twice, the second
\* time perhaps another caller's, and a stale webhook that takes the acceptance
\* off the row again lets that caller and the third both queue the sale.
THEOREM FewCallersBoundJobs == ASSUME FewCallers PROVE EmissionSpec => []JobsBounded
<1>1. ControlOK /\ DataOK /\ RoleInv /\ JobInv => JobsBounded
  BY LoadBounds DEF JobsBounded
<1> QED
  BY <1>1, JobsInvariant, PTL

\* And of every sale, whoever enqueues it and however often, until its row
\* has the uuid the facturador gave the document.
THEOREM UnsentJobsBounded == EmissionSpec => [](~inv.ext => JobsBounded)
<1>1. ControlOK /\ DataOK /\ RoleInv /\ JobInv => (~inv.ext => JobsBounded)
  BY LoadBounds DEF JobsBounded
<1> QED
  BY <1>1, JobsInvariant, PTL
=============================================================================

------------------------- MODULE BillingQueueProofs -------------------------
(***************************************************************************)
(* Proofs about BillingQueue for any sets of sales, processes, workers and *)
(* requests and any bounds on faults, expiries and retries.                *)
(***************************************************************************)
EXTENDS BillingQueue, FiniteSetTheorems, FunctionTheorems, TLAPS

\* A worker that is not idle has a payload of some sale in its hand.
LEMMA HandPayload ==
  ASSUME QueueTypeOK, NEW w \in Workers, wpc[w] # "idle"
  PROVE  /\ hand[w] \in Payloads /\ hand[w] # None
         /\ hand[w][1] \in Keys /\ hand[w][2] \in Attempts
         /\ hand[w] = <<hand[w][1], hand[w][2]>>
<1>1. hand[w] # None /\ hand[w] \in Payloads
  BY DEF QueueTypeOK
<1> QED
  BY <1>1 DEF Payloads

\* None is not a payload.
LEMMA NoneIsNoPayload == None \notin Payloads
BY NoneAssumption, RetriesAssumption DEF Payloads, Attempts

\* One more try stays within the attempts.
LEMMA NextAttempt ==
  ASSUME QueueTypeOK, NEW w \in Workers, wpc[w] = "retrying"
  PROVE  <<hand[w][1], hand[w][2] + 1>> \in Payloads
BY HandPayload, RetriesAssumption DEF QueueTypeOK, Payloads, Attempts

\* LREM leaves counts counts.
LEMMA AckType ==
  ASSUME QueueTypeOK, NEW w \in Workers, wpc[w] # "idle", Ack(w)
  PROVE  processing' \in [Payloads -> Nat]
BY HandPayload DEF QueueTypeOK, Ack

\* One more, or one less, of one process's timers: counts stay counts.
LEMMA TimerArmed ==
  ASSUME QueueTypeOK, NEW i \in Instances, NEW p \in Payloads
  PROVE  [timers EXCEPT ![i][p] = @ + 1] \in [Instances -> [Payloads -> Nat]]
BY DEF QueueTypeOK

LEMMA TimerGone ==
  ASSUME QueueTypeOK, NEW i \in Instances, NEW p \in Payloads, timers[i][p] > 0
  PROVE  [timers EXCEPT ![i][p] = @ - 1] \in [Instances -> [Payloads -> Nat]]
BY DEF QueueTypeOK

-----------------------------------------------------------------------------
LEMMA TypesInitially == QueueInit => QueueTypeOK
BY NoneAssumption DEF QueueInit, QueueTypeOK, Phases, Requesting, Stages

LEMMA TypesInductive ==
  ASSUME QueueTypeOK, [QueueNext]_queueVars
  PROVE  QueueTypeOK'
<1> USE DEF QueueTypeOK
<1> USE DEF lists, procs, work, feed, row, history, counts
<1>1. ASSUME NEW r \in Requests, ClaimEnqueue(r) PROVE QueueTypeOK'
  BY <1>1, SaleAssumption DEF ClaimEnqueue, Requesting
<1>2. ASSUME NEW r \in Requests, RecordPending(r) PROVE QueueTypeOK'
  BY ZenonT(60), <1>2, SaleAssumption DEF RecordPending, Requesting, Stages
<1>3. ASSUME NEW r \in Requests, Push(r) PROVE QueueTypeOK'
  <2>1. Sale[r] \in Keys /\ <<Sale[r], 0>> \in Payloads
    BY SaleAssumption, RetriesAssumption DEF Payloads, Attempts
  <2> QED
    BY <1>3, <2>1 DEF Push, Requesting
<1>4. ASSUME NEW r \in Requests, PushFails(r) PROVE QueueTypeOK'
  <2>1. stage' \in [Keys -> Stages] /\ claimed' \in [Keys -> BOOLEAN]
    BY <1>4, SaleAssumption DEF PushFails, Stages
  <2> QED
    BY <1>4, <2>1 DEF PushFails, Requesting
<1>5. ASSUME NEW k \in Keys, ClaimExpires(k) PROVE QueueTypeOK'
  BY <1>5 DEF ClaimExpires
<1>6. ASSUME NEW w \in Workers, NEW p \in Payloads, Take(w, p) PROVE QueueTypeOK'
  BY <1>6, NoneIsNoPayload DEF Take, Phases
<1>7. ASSUME NEW w \in Workers, Lock(w) PROVE QueueTypeOK'
  BY <1>7, HandPayload DEF Lock, Phases
<1>8. ASSUME NEW w \in Workers, LockHeld(w) PROVE QueueTypeOK'
  BY <1>8, AckType DEF LockHeld, Phases
<1>9. ASSUME NEW w \in Workers, LockFails(w) PROVE QueueTypeOK'
  <2>1. processing' \in [Payloads -> Nat]
    BY <1>9, AckType DEF LockFails
  <2> QED
    BY <1>9, <2>1 DEF LockFails, Phases
<1>10. ASSUME NEW w \in Workers, Return(w) PROVE QueueTypeOK'
  BY <1>10, HandPayload, NoneIsNoPayload DEF Return, Phases
<1>11. ASSUME NEW w \in Workers, ReturnFails(w) PROVE QueueTypeOK'
  BY <1>11, NoneIsNoPayload DEF ReturnFails, Phases
<1>12. ASSUME NEW w \in Workers, Begin(w) PROVE QueueTypeOK'
  BY <1>12, HandPayload DEF Begin, Phases, Stages
<1>13. ASSUME NEW w \in Workers, SendEnds(w) PROVE QueueTypeOK'
  BY <1>13, HandPayload DEF SendEnds, Phases, Stages
<1>14. ASSUME NEW w \in Workers, SendFails(w) PROVE QueueTypeOK'
  <2>1. stage' \in [Keys -> Stages]
    BY <1>14, HandPayload DEF SendFails, Stages
  <2> QED
    BY <1>14, <2>1 DEF SendFails, Phases
<1>15. ASSUME NEW k \in Keys, FinalElsewhere(k) PROVE QueueTypeOK'
  BY <1>15 DEF FinalElsewhere, Stages
<1>16. ASSUME NEW w \in Workers, Judge(w) PROVE QueueTypeOK'
  <2>1. wpc'[w] \in {"succeeded", "burying", "retrying"}
        /\ (wpc'[w] = "retrying" => hand[w][2] + 1 < MaxRetries)
    BY <1>16, HandPayload, RetriesAssumption DEF Judge, Attempts
  <2> QED
    BY <1>16, <2>1 DEF Judge, Phases
<1>17. ASSUME NEW w \in Workers, Bury(w) PROVE QueueTypeOK'
  BY <1>17, HandPayload DEF Bury, Phases, Stages
<1>18. ASSUME NEW w \in Workers, Settle(w) PROVE QueueTypeOK'
  <2>1. processing' \in [Payloads -> Nat] /\ answered' \in [Keys -> BOOLEAN]
    BY <1>18, AckType, HandPayload DEF Settle
  <2> QED
    BY <1>18, <2>1 DEF Settle, Phases
<1>19. ASSUME NEW w \in Workers, SettleUnacked(w) PROVE QueueTypeOK'
  BY <1>19, HandPayload DEF SettleUnacked, Phases
<1>20. ASSUME NEW w \in Workers, Retry(w) PROVE QueueTypeOK'
  <2>1. processing' \in [Payloads -> Nat]
    BY <1>20, AckType DEF Retry
  <2>2. timers' \in [Instances -> [Payloads -> Nat]]
    BY <1>20, NextAttempt, HomeAssumption, TimerArmed DEF Retry
  <2> QED
    BY <1>20, <2>1, <2>2 DEF Retry, Phases
<1>21. ASSUME NEW w \in Workers, RetryUnacked(w) PROVE QueueTypeOK'
  <2>2. timers' \in [Instances -> [Payloads -> Nat]]
    BY <1>21, NextAttempt, HomeAssumption, TimerArmed DEF RetryUnacked
  <2> QED
    BY <1>21, <2>2 DEF RetryUnacked, Phases
<1>22. ASSUME NEW w \in Workers, Unlock(w) PROVE QueueTypeOK'
  BY <1>22, HandPayload, NoneIsNoPayload DEF Unlock, Phases, Holding
<1>23. ASSUME NEW k \in Keys, LockExpires(k) PROVE QueueTypeOK'
  BY <1>23 DEF LockExpires
<1>24. ASSUME NEW i \in Instances, NEW p \in Payloads, TimerFires(i, p) PROVE QueueTypeOK'
  <2>3. timers' \in [Instances -> [Payloads -> Nat]]
    BY <1>24, TimerGone DEF TimerFires
  <2> QED
    BY <1>24, <2>3 DEF TimerFires
<1>25. ASSUME NEW i \in Instances, NEW p \in Payloads, TimerLost(i, p) PROVE QueueTypeOK'
  <2>3. timers' \in [Instances -> [Payloads -> Nat]]
    BY <1>25, TimerGone DEF TimerLost
  <2> QED
    BY <1>25, <2>3 DEF TimerLost
<1>26. ASSUME NEW i \in Instances, End(i) PROVE QueueTypeOK'
  BY <1>26, NoneIsNoPayload DEF End, Phases
<1>27. ASSUME NEW i \in Instances, Start(i) PROVE QueueTypeOK'
  BY <1>27 DEF Start
<1>28. ASSUME NEW i \in Instances, NEW p \in Payloads, RecoverPop(i, p) PROVE QueueTypeOK'
  BY <1>28 DEF RecoverPop
<1>29. ASSUME NEW i \in Instances, RecoverPush(i) PROVE QueueTypeOK'
  BY <1>29 DEF RecoverPush
<1>30. ASSUME NEW i \in Instances, RecoverEnds(i) PROVE QueueTypeOK'
  BY <1>30 DEF RecoverEnds
<1>31. CASE UNCHANGED queueVars
  BY <1>31 DEF queueVars
<1> QED
  BY <1>1, <1>2, <1>3, <1>4, <1>5, <1>6, <1>7, <1>8, <1>9, <1>10, <1>11, <1>12, <1>13,
     <1>14, <1>15, <1>16, <1>17, <1>18, <1>19, <1>20, <1>21, <1>22, <1>23, <1>24, <1>25,
     <1>26, <1>27, <1>28, <1>29, <1>30, <1>31
  DEF QueueNext, WorkerStep, RequestStep, RecoverStep

\* The queue's rows, lists and workers keep their types whatever fails; in
\* particular no retry carries an attempt BillingMaxRetries does not have.
THEOREM QueueTypeCorrect == QueueSpec => []QueueTypeOK
BY TypesInitially, TypesInductive, PTL DEF QueueSpec

-----------------------------------------------------------------------------
\* The processing lock.

\* Who is inside and was not robbed holds the lock of his sale, and whoever
\* was robbed is still inside.
LockInv ==
  /\ \A w \in robbed : wpc[w] \in Inside
  /\ \A w \in Workers \ robbed : wpc[w] \in Inside => plock[hand[w][1]] = w

\* The robbed of one sale are as many as the locks that ran out, at most: a
\* robbed worker that ends robs one other.
RobbedInv == \A k \in Keys : Cardinality(Holding(k) \cap robbed) <= expiries

\* A worker inside goes on inside.
Advances(w) ==
  /\ wpc[w] \in Inside
  /\ \E x \in Inside : wpc' = [wpc EXCEPT ![w] = x]
  /\ UNCHANGED <<hand, plock, robbed, expiries>>

\* A worker outside goes on outside.
StaysOut(w) ==
  /\ wpc[w] \notin Inside
  /\ \E x \in Phases \ Inside : wpc' = [wpc EXCEPT ![w] = x]
  /\ \E p \in Payloads \cup {None} : hand' = [hand EXCEPT ![w] = p]
  /\ UNCHANGED <<plock, robbed, expiries>>

\* What the steps of the queue do to the locks.
LEMMA WorkShape ==
  ASSUME QueueTypeOK, [QueueNext]_queueVars
  PROVE  \/ UNCHANGED work /\ expiries' \in {expiries, expiries + 1}
         \/ \E w \in Workers : Advances(w) \/ StaysOut(w) \/ Lock(w) \/ Unlock(w)
         \/ \E k \in Keys : LockExpires(k)
         \/ \E i \in Instances : End(i)
<1> USE DEF counts, history, row, feed, procs
<1>1. ASSUME NEW w \in Workers, NEW p \in Payloads, Take(w, p) PROVE StaysOut(w)
  BY <1>1 DEF Take, StaysOut, Phases, Inside
<1>2. ASSUME NEW w \in Workers, LockHeld(w) \/ LockFails(w) PROVE StaysOut(w)
  <2>1. hand' = [hand EXCEPT ![w] = hand[w]] /\ hand[w] \in Payloads \cup {None}
    BY <1>2 DEF QueueTypeOK, LockHeld, LockFails
  <2> QED
    BY <1>2, <2>1 DEF LockHeld, LockFails, StaysOut, Phases, Inside
<1>3. ASSUME NEW w \in Workers, Return(w) \/ ReturnFails(w) PROVE StaysOut(w)
  BY <1>3 DEF Return, ReturnFails, StaysOut, Phases, Inside
<1>4. ASSUME NEW w \in Workers, Begin(w) \/ SendEnds(w) \/ SendFails(w) \/ Bury(w)
      PROVE  Advances(w)
  BY <1>4 DEF Begin, SendEnds, SendFails, Bury, Advances, Inside
<1>5. ASSUME NEW w \in Workers, Judge(w) PROVE Advances(w)
  BY <1>5 DEF Judge, Advances, Inside
<1>6. ASSUME NEW w \in Workers,
             Settle(w) \/ SettleUnacked(w) \/ Retry(w) \/ RetryUnacked(w)
      PROVE  Advances(w)
  BY <1>6 DEF Settle, SettleUnacked, Retry, RetryUnacked, Advances, Inside
<1>7. ASSUME NEW r \in Requests, RequestStep(r) \/ PushFails(r)
      PROVE  UNCHANGED work /\ UNCHANGED expiries
  BY <1>7 DEF RequestStep, ClaimEnqueue, RecordPending, Push, PushFails
<1>8. ASSUME NEW k \in Keys, ClaimExpires(k) \/ FinalElsewhere(k)
      PROVE  UNCHANGED work /\ expiries' \in {expiries, expiries + 1}
  BY <1>8 DEF ClaimExpires, FinalElsewhere
<1>9. ASSUME NEW i \in Instances, NEW p \in Payloads, TimerFires(i, p) \/ TimerLost(i, p)
      PROVE  UNCHANGED work /\ UNCHANGED expiries
  BY <1>9 DEF TimerFires, TimerLost
<1>10. ASSUME NEW i \in Instances, RecoverStep(i)
       PROVE  UNCHANGED work /\ UNCHANGED expiries
  BY <1>10 DEF RecoverStep, Start, RecoverPush, RecoverEnds, RecoverPop
<1>11. CASE UNCHANGED queueVars
  BY <1>11 DEF queueVars
<1> QED
  BY <1>1, <1>2, <1>3, <1>4, <1>5, <1>6, <1>7, <1>8, <1>9, <1>10, <1>11
  DEF QueueNext, WorkerStep

LEMMA LockInvInductive ==
  ASSUME QueueTypeOK, LockInv, [QueueNext]_queueVars
  PROVE  LockInv'
<1> USE DEF LockInv
<1>1. CASE UNCHANGED work
  BY <1>1 DEF work
<1>2. ASSUME NEW w \in Workers, Advances(w) PROVE LockInv'
  BY <1>2 DEF QueueTypeOK, Advances
<1>3. ASSUME NEW w \in Workers, StaysOut(w) PROVE LockInv'
  BY <1>3 DEF QueueTypeOK, StaysOut
<1>4. ASSUME NEW w \in Workers, Lock(w) PROVE LockInv'
  <2>1. /\ wpc' = [wpc EXCEPT ![w] = "locked"] /\ UNCHANGED <<hand, robbed>>
        /\ plock' = [plock EXCEPT ![hand[w][1]] = w]
        /\ plock[hand[w][1]] = None /\ hand[w][1] \in Keys
    BY <1>4, HandPayload DEF Lock
  <2> QED
    BY <2>1, NoneAssumption DEF QueueTypeOK, Inside
<1>5. ASSUME NEW w \in Workers, Unlock(w) PROVE LockInv'
  <2> DEFINE k == hand[w][1]
  <2>1. /\ wpc' = [wpc EXCEPT ![w] = "idle"] /\ hand' = [hand EXCEPT ![w] = None]
        /\ plock' = [plock EXCEPT ![k] = None]
        /\ robbed' = (robbed \cup {v \in Holding(k) : plock[k] = v}) \ {w}
    BY <1>5 DEF Unlock
  <2>2. ASSUME NEW v \in robbed' PROVE wpc'[v] \in Inside
    BY <2>1, <2>2 DEF QueueTypeOK, Holding
  <2>3. ASSUME NEW v \in Workers \ robbed', wpc'[v] \in Inside
        PROVE  plock'[hand'[v][1]] = v
    <3>1. v # w /\ wpc[v] \in Inside /\ hand'[v] = hand[v] /\ v \notin robbed
      BY <2>1, <2>3 DEF QueueTypeOK, Inside
    <3>2. wpc[v] # "idle"
      BY <3>1 DEF Inside
    <3>3. hand[v] # None /\ plock[hand[v][1]] = v /\ hand[v][1] \in Keys
      BY <3>1, <3>2, HandPayload
    <3>4. hand[v][1] # k
      BY <2>1, <2>3, <3>1, <3>3 DEF Holding
    <3> QED
      BY <2>1, <3>1, <3>3, <3>4 DEF QueueTypeOK
  <2> QED
    BY <2>2, <2>3
<1>6. ASSUME NEW k \in Keys, LockExpires(k) PROVE LockInv'
  <2>1. /\ UNCHANGED <<wpc, hand>> /\ plock' = [plock EXCEPT ![k] = None]
        /\ robbed' = IF plock[k] \in Holding(k) THEN robbed \cup {plock[k]} ELSE robbed
    BY <1>6 DEF LockExpires
  <2>2. ASSUME NEW v \in robbed' PROVE wpc'[v] \in Inside
    BY <2>1, <2>2 DEF Holding
  <2>3. ASSUME NEW v \in Workers \ robbed', wpc'[v] \in Inside
        PROVE  plock'[hand'[v][1]] = v
    <3>1. wpc[v] \in Inside /\ wpc[v] # "idle" /\ v \notin robbed
      BY <2>1, <2>3 DEF Inside
    <3>2. hand[v] # None /\ plock[hand[v][1]] = v /\ hand[v][1] \in Keys
      BY <3>1, HandPayload
    <3>3. hand[v][1] # k
      BY <2>1, <2>3, <3>1, <3>2 DEF Holding
    <3> QED
      BY <2>1, <3>2, <3>3 DEF QueueTypeOK
  <2> QED
    BY <2>2, <2>3
<1>7. ASSUME NEW i \in Instances, End(i) PROVE LockInv'
  BY <1>7 DEF QueueTypeOK, End, Inside
<1> QED
  BY <1>1, <1>2, <1>3, <1>4, <1>5, <1>6, <1>7, WorkShape

\* Two workers never process jobs of one sale together, but for those whose
\* lock ran out or was deleted by a worker that had outlived its own.
THEOREM OneProcessor == QueueSpec => []OneProcessorPerSale
<1>1. QueueInit => LockInv
  BY DEF QueueInit, LockInv, Inside
<1>2. QueueTypeOK /\ LockInv => OneProcessorPerSale
  BY DEF LockInv, OneProcessorPerSale, Holding
<1> QED
  BY <1>1, <1>2, LockInvInductive, QueueTypeCorrect, PTL DEF QueueSpec

-----------------------------------------------------------------------------
\* The processing list.

Backed == \A p \in Payloads : processing[p] >= Cardinality(Unfinished(p))

LEMMA UnfinishedFinite ==
  ASSUME NEW p
  PROVE  IsFiniteSet(Unfinished(p)) /\ Cardinality(Unfinished(p)) \in Nat
<1>1. Unfinished(p) \subseteq Workers
  BY DEF Unfinished
<1> QED
  BY <1>1, FiniteAssumption, FS_Subset, FS_CardinalityType

\* A worker that is done with its payload, whose LREM may have failed.
Leaves(w) ==
  /\ wpc[w] \in Unacked
  /\ \E x \in Phases \ (Unacked \cup {"idle"}) : wpc' = [wpc EXCEPT ![w] = x]
  /\ UNCHANGED hand
  /\ Ack(w) \/ UNCHANGED processing

\* The workers' work changes in no way that the processing list can tell.
Works ==
  /\ UNCHANGED processing
  /\ \A p \in Payloads : Unfinished(p)' \subseteq Unfinished(p)

LEMMA LeavesBacked ==
  ASSUME QueueTypeOK, Backed, NEW w \in Workers, Leaves(w)
  PROVE  Backed'
<1>1. wpc[w] # "idle"
  BY DEF Leaves, Unacked
<1>2. hand[w] \in Payloads /\ w \in Unfinished(hand[w])
  BY <1>1, HandPayload DEF Leaves, Unfinished
<1>3. \A p \in Payloads : Unfinished(p)' = Unfinished(p) \ {w}
  BY DEF QueueTypeOK, Leaves, Unfinished
<1>4. /\ Cardinality(Unfinished(hand[w])') = Cardinality(Unfinished(hand[w])) - 1
      /\ \A p \in Payloads \ {hand[w]} : Unfinished(p)' = Unfinished(p)
  <2>1. \A p \in Payloads \ {hand[w]} : w \notin Unfinished(p)
    BY DEF Unfinished
  <2> QED
    <3>1. Cardinality(Unfinished(hand[w]) \ {w}) = Cardinality(Unfinished(hand[w])) - 1
      BY <1>2, UnfinishedFinite, FS_RemoveElement
    <3>2. Unfinished(hand[w])' = Unfinished(hand[w]) \ {w}
      BY <1>2, <1>3 DEF Leaves
    <3>3. \A p \in Payloads \ {hand[w]} : Unfinished(p) \ {w} = Unfinished(p)
      BY <2>1
    <3> QED
      BY <1>3, <3>1, <3>2, <3>3
<1>5. ASSUME NEW p \in Payloads PROVE processing'[p] >= Cardinality(Unfinished(p)')
  <2>1. CASE p = hand[w]
    BY <1>2, <1>4, <2>1, UnfinishedFinite DEF QueueTypeOK, Backed, Leaves, Ack
  <2>2. CASE p # hand[w]
    BY <1>4, <2>2 DEF QueueTypeOK, Backed, Leaves, Ack
  <2> QED
    BY <2>1, <2>2
<1> QED
  BY <1>5 DEF Backed, Unfinished

LEMMA WorksBacked ==
  ASSUME QueueTypeOK, Backed, Works
  PROVE  Backed'
<1>1. \A p \in Payloads : Cardinality(Unfinished(p)') <= Cardinality(Unfinished(p))
  BY UnfinishedFinite, FS_Subset DEF Works
<1>2. \A p \in Payloads : Cardinality(Unfinished(p)') \in Nat
  <2>1. \A p \in Payloads : IsFiniteSet(Unfinished(p)')
    BY UnfinishedFinite, FS_Subset DEF Works
  <2> QED
    BY <2>1, FS_CardinalityType
<1>3. ASSUME NEW p \in Payloads PROVE processing'[p] >= Cardinality(Unfinished(p)')
  <2>1. processing'[p] = processing[p] /\ processing[p] \in Nat
    BY DEF QueueTypeOK, Works
  <2>2. processing[p] >= Cardinality(Unfinished(p))
    BY DEF Backed
  <2> QED
    BY <1>1, <1>2, <2>1, <2>2, UnfinishedFinite
<1> QED
  BY <1>3 DEF Backed, Unfinished

LEMMA BackedInductive ==
  ASSUME QueueTypeOK, WorkIsBacked, [QueueNext]_queueVars
  PROVE  WorkIsBacked'
<1> USE DEF lists, counts, history, row, feed, procs, work
<1>1. SUFFICES ASSUME moved' = 0 PROVE Backed'
  BY DEF WorkIsBacked, Backed, Unfinished
<1>2. ASSUME moved = 0 PROVE Backed
  BY <1>2 DEF WorkIsBacked, Backed
<1>3. ASSUME NEW w \in Workers, NEW p \in Payloads, Take(w, p) PROVE Backed'
  <2>1. /\ w \notin Unfinished(p) /\ Unfinished(p)' = Unfinished(p) \cup {w}
        /\ \A q \in Payloads \ {p} : Unfinished(q)' = Unfinished(q)
    BY <1>3, NoneIsNoPayload DEF QueueTypeOK, Take, Unfinished, Unacked
  <2>2. Cardinality(Unfinished(p)') = Cardinality(Unfinished(p)) + 1
    BY <2>1, UnfinishedFinite, FS_AddElement
  <2>3. moved = 0 /\ processing' = [processing EXCEPT ![p] = @ + 1]
    BY <1>1, <1>3 DEF Take
  <2>4. ASSUME NEW q \in Payloads PROVE processing'[q] >= Cardinality(Unfinished(q)')
    <3>1. processing[q] \in Nat /\ processing'[q] = IF q = p THEN processing[q] + 1 ELSE processing[q]
      BY <2>3 DEF QueueTypeOK
    <3>2. processing[q] >= Cardinality(Unfinished(q))
      BY <1>2, <2>3 DEF Backed
    <3>3. Cardinality(Unfinished(q)) \in Nat
      BY UnfinishedFinite
    <3>4. CASE q = p
      BY <2>2, <3>1, <3>2, <3>3, <3>4
    <3>5. CASE q # p
      BY <2>1, <3>1, <3>2, <3>5
    <3> QED
      BY <3>4, <3>5
  <2> QED
    BY <2>4 DEF Backed, Unfinished
<1>4. ASSUME NEW w \in Workers,
             \/ LockHeld(w) \/ LockFails(w) \/ Settle(w)
             \/ SettleUnacked(w) \/ Retry(w) \/ RetryUnacked(w)
      PROVE  Backed'
  <2>1. Leaves(w) /\ moved' = moved
    BY <1>4 DEF LockHeld, LockFails, Settle, SettleUnacked, Retry, RetryUnacked,
                Leaves, Unacked, Phases
  <2> QED
    BY <1>1, <1>2, <2>1, LeavesBacked
<1>5. ASSUME NEW w \in Workers, Lock(w) \/ Begin(w) \/ SendEnds(w) \/ SendFails(w) \/ Bury(w)
      PROVE  Backed'
  <2>1. Works /\ moved' = moved
    BY <1>5 DEF QueueTypeOK, Lock, Begin, SendEnds, SendFails, Bury, Works, Unfinished, Unacked
  <2> QED
    BY <1>1, <1>2, <2>1, WorksBacked
<1>6. ASSUME NEW w \in Workers, Judge(w) PROVE Backed'
  <2>1. Works /\ moved' = moved
    BY <1>6 DEF QueueTypeOK, Judge, Works, Unfinished, Unacked
  <2> QED
    BY <1>1, <1>2, <2>1, WorksBacked
<1>7. ASSUME NEW w \in Workers, Return(w) \/ ReturnFails(w) \/ Unlock(w) PROVE Backed'
  <2>1. Works /\ moved' = moved
    BY <1>7, NoneIsNoPayload DEF QueueTypeOK, Return, ReturnFails, Unlock, Works, Unfinished, Unacked
  <2> QED
    BY <1>1, <1>2, <2>1, WorksBacked
<1>8. ASSUME NEW i \in Instances, End(i) PROVE Backed'
  <2>1. Works /\ moved' = moved
    BY <1>8 DEF QueueTypeOK, End, Works, Unfinished, Unacked
  <2> QED
    BY <1>1, <1>2, <2>1, WorksBacked
<1>9. ASSUME NEW r \in Requests, RequestStep(r) \/ PushFails(r) PROVE Backed'
  <2>1. UNCHANGED <<processing, wpc, hand, moved>>
    BY <1>9 DEF RequestStep, ClaimEnqueue, RecordPending, Push, PushFails
  <2> QED
    BY <1>1, <1>2, <2>1 DEF Backed, Unfinished
<1>10. ASSUME NEW k \in Keys, ClaimExpires(k) \/ LockExpires(k) \/ FinalElsewhere(k)
       PROVE  Backed'
  <2>1. UNCHANGED <<processing, wpc, hand, moved>>
    BY <1>10 DEF ClaimExpires, LockExpires, FinalElsewhere
  <2> QED
    BY <1>1, <1>2, <2>1 DEF Backed, Unfinished
<1>11. ASSUME NEW i \in Instances, NEW p \in Payloads, TimerFires(i, p) \/ TimerLost(i, p)
       PROVE  Backed'
  <2>1. UNCHANGED <<processing, wpc, hand, moved>>
    BY <1>11 DEF TimerFires, TimerLost
  <2> QED
    BY <1>1, <1>2, <2>1 DEF Backed, Unfinished
<1>12. ASSUME NEW i \in Instances, NEW p \in Payloads, RecoverPop(i, p) PROVE Backed'
  <2>1. /\ processing[p] > 0 /\ processing' = [processing EXCEPT ![p] = @ - 1]
        /\ UNCHANGED <<wpc, hand>> /\ moved' \in {moved, moved + 1}
        /\ (\E w \in Workers : hand[w] = p /\ wpc[w] \in Unacked) => moved' = moved + 1
    BY <1>12 DEF RecoverPop
  <2>2. moved = 0 /\ Unfinished(p) = {}
    BY <1>1, <2>1 DEF QueueTypeOK, Unfinished
  <2>3. Cardinality(Unfinished(p)) = 0
    BY <2>2, FS_EmptySet
  <2>4. ASSUME NEW q \in Payloads PROVE processing'[q] >= Cardinality(Unfinished(q))
    <3>1. processing[q] \in Nat /\ processing'[q] = IF q = p THEN processing[q] - 1 ELSE processing[q]
      BY <2>1 DEF QueueTypeOK
    <3>2. processing[q] >= Cardinality(Unfinished(q))
      BY <1>2, <2>2 DEF Backed
    <3> QED
      BY <2>1, <2>3, <3>1, <3>2, UnfinishedFinite
  <2> QED
    BY <2>1, <2>4 DEF Backed, Unfinished
<1>13. ASSUME NEW i \in Instances, Start(i) \/ RecoverPush(i) \/ RecoverEnds(i)
       PROVE  Backed'
  <2>1. UNCHANGED <<processing, wpc, hand, moved>>
    BY <1>13 DEF Start, RecoverPush, RecoverEnds
  <2> QED
    BY <1>1, <1>2, <2>1 DEF Backed, Unfinished
<1>14. CASE UNCHANGED queueVars
  <2>1. UNCHANGED <<processing, wpc, hand, moved>>
    BY <1>14 DEF queueVars
  <2> QED
    BY <1>1, <1>2, <2>1 DEF Backed, Unfinished
<1> QED
  BY <1>3, <1>4, <1>5, <1>6, <1>7, <1>8, <1>9, <1>10, <1>11, <1>12, <1>13, <1>14
  DEF QueueNext, WorkerStep, RecoverStep

\* Until a start-up moves the entry of a job in progress, every payload a
\* worker has not acknowledged has an entry of its own in the processing list.
THEOREM ProcessingBacksWork == QueueSpec => []WorkIsBacked
<1>1. QueueInit => WorkIsBacked
  <2>1. ASSUME QueueInit, NEW p \in Payloads PROVE processing[p] >= Cardinality(Unfinished(p))
    <3>1. Unfinished(p) = {} /\ processing[p] = 0
      BY <2>1 DEF QueueInit, Unfinished, Unacked
    <3> QED
      BY <3>1, FS_EmptySet
  <2> QED
    BY <2>1 DEF WorkIsBacked
<1> QED
  BY <1>1, BackedInductive, QueueTypeCorrect, PTL DEF QueueSpec

-----------------------------------------------------------------------------
\* Rows that wait.

\* Phases of a worker whose payload still goes on to something.
Undecided == {"taken", "returning", "locked", "sending", "failed", "burying", "retrying"}

Recorded(k) == \E r \in Requests : Sale[r] = k /\ rpc[r] = "recorded"
Queued(k)   == \E p \in Payloads : p[1] = k /\ queued[p] > 0
Timed(k)    == \E i \in Instances, p \in Payloads : p[1] = k /\ timers[i][p] > 0
InHand(k)   == \E w \in Workers : wpc[w] \in Undecided /\ hand[w][1] = k

\* Something will move the row of k on.
MovesOn(k) == Recorded(k) \/ Queued(k) \/ Timed(k) \/ InHand(k)

\* What a worker found final is final, the row of a final outcome waits only
\* if a job began again, and a row that waits is moved on by a request, a copy
\* in the queue or a timer, or a worker that has not decided yet: one that has
\* (sent or buried) leaves no row waiting behind it.
WaitingInv ==
  /\ \A w \in Workers : wpc[w] = "succeeded" => final[hand[w][1]]
  /\ \A k \in Keys : final[k] /\ ~redone[k] => stage[k] \in {"final", "failed", "dead"}
  /\ \A k \in Keys :
       faults = 0 /\ stage[k] \in {"pending", "processing"} /\ ~redone[k] => MovesOn(k)

LEMMA WaitingInductive ==
  ASSUME QueueTypeOK, WaitingInv, [QueueNext]_queueVars
  PROVE  WaitingInv'
<1> DEFINE Waits(k) == faults = 0 /\ stage[k] \in {"pending", "processing"} /\ ~redone[k]
<1> USE DEF lists, counts, history, row, feed, procs, work
<1>0. \A k \in Keys : Waits(k) => MovesOn(k) /\ ~final[k]
  BY DEF WaitingInv, QueueTypeOK
<1>1. ASSUME NEW r \in Requests, ClaimEnqueue(r) PROVE WaitingInv'
  <2>1. /\ UNCHANGED <<queued, timers, wpc, hand, stage, final, redone, faults>>
        /\ \A q \in Requests : rpc[q] = "recorded" => rpc'[q] = "recorded"
    BY <1>1 DEF QueueTypeOK, ClaimEnqueue
  <2> QED
    BY <2>1 DEF WaitingInv, MovesOn, Recorded, Queued, Timed, InHand
<1>2. ASSUME NEW r \in Requests, RecordPending(r) PROVE WaitingInv'
  <2>1. /\ UNCHANGED <<queued, timers, wpc, hand, final, redone, faults>>
        /\ \A q \in Requests : rpc[q] = "recorded" => rpc'[q] = "recorded"
    BY <1>2 DEF QueueTypeOK, RecordPending
  <2>2. CASE final[Sale[r]]
    BY <1>2, <2>1, <2>2 DEF RecordPending, WaitingInv, MovesOn, Recorded, Queued, Timed, InHand
  <2>3. CASE ~final[Sale[r]]
    <3>1. rpc'[r] = "recorded" /\ \A k \in Keys \ {Sale[r]} : stage'[k] = stage[k]
      BY <1>2, <2>3, SaleAssumption DEF RecordPending, QueueTypeOK
    <3> QED
      BY <2>1, <2>3, <3>1 DEF WaitingInv, MovesOn, Recorded, Queued, Timed, InHand
  <2> QED
    BY <2>2, <2>3
<1>3. ASSUME NEW r \in Requests, Push(r) PROVE WaitingInv'
  <2>1. /\ UNCHANGED <<timers, wpc, hand, stage, final, redone, faults>>
        /\ \A q \in Requests \ {r} : rpc'[q] = rpc[q]
        /\ <<Sale[r], 0>> \in Payloads
        /\ queued'[<<Sale[r], 0>>] > 0
        /\ \A p \in Payloads : queued[p] > 0 => queued'[p] > 0
    <3>1. Sale[r] \in Keys /\ <<Sale[r], 0>> \in Payloads
      BY SaleAssumption, RetriesAssumption DEF Payloads, Attempts
    <3> DEFINE job == <<Sale[r], 0>>
    <3>2. /\ UNCHANGED <<timers, wpc, hand, stage, final, redone, faults>>
          /\ rpc' = [rpc EXCEPT ![r] = "done"]
          /\ queued' = [queued EXCEPT ![job] = @ + 1]
      BY <1>3 DEF Push
    <3> HIDE DEF job
    <3>3. queued'[job] > 0 /\ \A p \in Payloads : queued[p] > 0 => queued'[p] > 0
      <4>1. \A p \in Payloads : queued[p] \in Nat /\ queued'[p] = IF p = job THEN queued[p] + 1 ELSE queued[p]
        BY <3>2 DEF QueueTypeOK
      <4>2. job \in Payloads
        BY <3>1 DEF job
      <4> QED
        BY <4>1, <4>2
    <3> QED
      BY <3>1, <3>2, <3>3 DEF QueueTypeOK, job
  <2>2. \A k \in Keys : Recorded(k) => Recorded(k)' \/ Queued(k)'
    BY <2>1 DEF Recorded, Queued
  <2>3. \A k \in Keys : Queued(k) => Queued(k)'
    BY <2>1 DEF Queued
  <2> QED
    BY <2>1, <2>2, <2>3 DEF WaitingInv, MovesOn, Timed, InHand
<1>4. ASSUME NEW r \in Requests, PushFails(r) PROVE WaitingInv'
  BY <1>4, SaleAssumption DEF PushFails, WaitingInv, QueueTypeOK
<1>5. ASSUME NEW k \in Keys, ClaimExpires(k) \/ LockExpires(k) PROVE WaitingInv'
  <2>1. UNCHANGED <<queued, timers, wpc, hand, rpc, stage, final, redone, faults>>
    BY <1>5 DEF ClaimExpires, LockExpires
  <2> QED
    BY <2>1 DEF WaitingInv, MovesOn, Recorded, Queued, Timed, InHand
<1>6. ASSUME NEW k \in Keys, FinalElsewhere(k) PROVE WaitingInv'
  <2>1. /\ UNCHANGED <<queued, timers, wpc, hand, rpc, redone, faults>>
        /\ final'[k] = TRUE /\ stage'[k] = "final"
        /\ \A j \in Keys \ {k} : final'[j] = final[j] /\ stage'[j] = stage[j]
    BY <1>6 DEF QueueTypeOK, FinalElsewhere
  <2>2. \A v \in Workers : wpc'[v] = "succeeded" => final'[hand'[v][1]]
    <3>1. \A v \in Workers : wpc[v] = "succeeded" => final[hand[v][1]] /\ hand[v][1] \in Keys
      BY HandPayload DEF WaitingInv
    <3> QED
      BY <2>1, <3>1
  <2>3. \A j \in Keys : final'[j] /\ ~redone'[j] => stage'[j] \in {"final", "failed", "dead"}
    BY <2>1 DEF WaitingInv
  <2>4. \A j \in Keys : MovesOn(j) => MovesOn(j)'
    BY <2>1 DEF MovesOn, Recorded, Queued, Timed, InHand
  <2> QED
    BY <2>1, <2>2, <2>3, <2>4 DEF WaitingInv
<1>7. ASSUME NEW w \in Workers, NEW p \in Payloads, Take(w, p) PROVE WaitingInv'
  <2>1. /\ UNCHANGED <<timers, rpc, stage, final, redone, faults>>
        /\ wpc[w] = "idle" /\ wpc'[w] = "taken" /\ hand'[w] = p
        /\ \A v \in Workers \ {w} : wpc'[v] = wpc[v] /\ hand'[v] = hand[v]
        /\ \A q \in Payloads \ {p} : queued'[q] = queued[q]
    BY <1>7 DEF QueueTypeOK, Take
  <2>2. \A k \in Keys : Queued(k) => Queued(k)' \/ InHand(k)'
    BY <2>1 DEF Queued, InHand, Undecided
  <2>3. \A k \in Keys : InHand(k) => InHand(k)'
    BY <2>1 DEF InHand, Undecided
  <2> QED
    BY <2>1, <2>2, <2>3 DEF WaitingInv, MovesOn, Recorded, Timed
<1>8. ASSUME NEW w \in Workers, Lock(w) \/ LockHeld(w) PROVE WaitingInv'
  <2>1. /\ UNCHANGED <<queued, timers, hand, rpc, stage, final, redone, faults>>
        /\ wpc[w] = "taken" /\ wpc'[w] \in {"locked", "returning"}
        /\ \A v \in Workers \ {w} : wpc'[v] = wpc[v]
    BY <1>8 DEF QueueTypeOK, Lock, LockHeld
  <2> QED
    BY <2>1 DEF WaitingInv, MovesOn, Recorded, Queued, Timed, InHand, Undecided
<1>9. ASSUME NEW w \in Workers,
             LockFails(w) \/ ReturnFails(w) \/ RetryUnacked(w) \/ SettleUnacked(w)
      PROVE  WaitingInv'
  <2>1. /\ UNCHANGED <<stage, final, redone>> /\ faults' # 0
        /\ wpc'[w] # "succeeded"
        /\ \A v \in Workers \ {w} : wpc'[v] = wpc[v] /\ hand'[v] = hand[v]
    BY <1>9 DEF QueueTypeOK, LockFails, ReturnFails, RetryUnacked, SettleUnacked
  <2> QED
    BY <2>1 DEF WaitingInv
<1>10. ASSUME NEW w \in Workers, Return(w) PROVE WaitingInv'
  <2>1. /\ UNCHANGED <<timers, rpc, stage, final, redone, faults>>
        /\ hand[w] \in Payloads /\ queued'[hand[w]] > 0
        /\ \A p \in Payloads : queued[p] > 0 => queued'[p] > 0
        /\ wpc'[w] = "idle"
        /\ \A v \in Workers \ {w} : wpc'[v] = wpc[v] /\ hand'[v] = hand[v]
    BY <1>10, HandPayload DEF QueueTypeOK, Return
  <2>2. \A k \in Keys : Queued(k) => Queued(k)'
    BY <2>1 DEF Queued
  <2>3. \A k \in Keys : InHand(k) => InHand(k)' \/ Queued(k)'
    BY <2>1 DEF Queued, InHand
  <2> QED
    BY <2>1, <2>2, <2>3 DEF WaitingInv, MovesOn, Recorded, Timed
<1>11. ASSUME NEW w \in Workers, Begin(w) PROVE WaitingInv'
  <2>1. /\ UNCHANGED <<queued, timers, hand, rpc, final, faults>>
        /\ wpc[w] = "locked" /\ wpc'[w] = "sending" /\ hand[w][1] \in Keys
        /\ \A v \in Workers \ {w} : wpc'[v] = wpc[v]
        /\ redone'[hand[w][1]] = (redone[hand[w][1]] \/ final[hand[w][1]])
        /\ \A k \in Keys \ {hand[w][1]} : stage'[k] = stage[k] /\ redone'[k] = redone[k]
    BY <1>11, HandPayload DEF QueueTypeOK, Begin
  <2>2. \A k \in Keys : MovesOn(k) \/ k = hand[w][1] => MovesOn(k)'
    BY <2>1 DEF MovesOn, Recorded, Queued, Timed, InHand, Undecided
  <2>3. \A k \in Keys : final'[k] /\ ~redone'[k] => stage'[k] \in {"final", "failed", "dead"}
    BY <2>1 DEF WaitingInv
  <2> QED
    BY <2>1, <2>2, <2>3 DEF WaitingInv
<1>12. ASSUME NEW w \in Workers, SendEnds(w) PROVE WaitingInv'
  <2> DEFINE k == hand[w][1]
  <2>1. /\ UNCHANGED <<queued, timers, hand, rpc, redone, faults>>
        /\ k \in Keys /\ final'[k] = TRUE /\ wpc'[w] = "succeeded"
        /\ stage'[k] = IF final[k] THEN stage[k] ELSE "final"
        /\ \A v \in Workers \ {w} : wpc'[v] = wpc[v]
        /\ \A j \in Keys \ {k} : stage'[j] = stage[j] /\ final'[j] = final[j]
    BY <1>12, HandPayload DEF QueueTypeOK, SendEnds
  <2>2. \A v \in Workers : wpc'[v] = "succeeded" => final'[hand'[v][1]]
    <3>1. \A v \in Workers : wpc[v] = "succeeded" => final[hand[v][1]] /\ hand[v][1] \in Keys
      BY HandPayload DEF WaitingInv
    <3> QED
      BY <2>1, <3>1
  <2>3. \A j \in Keys : final'[j] /\ ~redone'[j] => stage'[j] \in {"final", "failed", "dead"}
    BY <2>1 DEF WaitingInv
  <2>4. \A j \in Keys \ {k} : MovesOn(j) => MovesOn(j)'
    BY <2>1 DEF MovesOn, Recorded, Queued, Timed, InHand
  <2> QED
    BY <2>1, <2>2, <2>3, <2>4 DEF WaitingInv
<1>13. ASSUME NEW w \in Workers, SendFails(w) PROVE WaitingInv'
  <2>1. /\ UNCHANGED <<queued, timers, hand, rpc, final, redone, faults>>
        /\ wpc[w] = "sending" /\ wpc'[w] = "failed" /\ hand[w][1] \in Keys
        /\ \A v \in Workers \ {w} : wpc'[v] = wpc[v]
        /\ stage'[hand[w][1]] \in {"failed", stage[hand[w][1]]}
        /\ \A k \in Keys \ {hand[w][1]} : stage'[k] = stage[k]
    BY <1>13, HandPayload DEF QueueTypeOK, SendFails
  <2> QED
    BY <2>1 DEF WaitingInv, MovesOn, Recorded, Queued, Timed, InHand, Undecided
<1>14. ASSUME NEW w \in Workers, Judge(w) PROVE WaitingInv'
  <2>1. /\ UNCHANGED <<queued, timers, hand, rpc, stage, final, redone, faults>>
        /\ hand[w][1] \in Keys
        /\ IF final[hand[w][1]] THEN wpc'[w] = "succeeded" ELSE wpc'[w] \in {"burying", "retrying"}
        /\ \A v \in Workers \ {w} : wpc'[v] = wpc[v]
    BY <1>14, HandPayload DEF QueueTypeOK, Judge
  <2>2. \A k \in Keys : ~final[k] /\ MovesOn(k) => MovesOn(k)'
    BY <2>1 DEF MovesOn, Recorded, Queued, Timed, InHand, Undecided
  <2> QED
    BY <1>0, <2>1, <2>2 DEF WaitingInv
<1>15. ASSUME NEW w \in Workers, Bury(w) PROVE WaitingInv'
  <2>1. /\ UNCHANGED <<queued, timers, hand, rpc, final, redone, faults>>
        /\ hand[w][1] \in Keys /\ stage'[hand[w][1]] = "dead" /\ wpc'[w] = "buried"
        /\ \A v \in Workers \ {w} : wpc'[v] = wpc[v]
        /\ \A k \in Keys \ {hand[w][1]} : stage'[k] = stage[k]
    BY <1>15, HandPayload DEF QueueTypeOK, Bury
  <2>2. \A k \in Keys \ {hand[w][1]} : MovesOn(k) => MovesOn(k)'
    BY <2>1 DEF MovesOn, Recorded, Queued, Timed, InHand
  <2> QED
    BY <2>1, <2>2 DEF WaitingInv
<1>16. ASSUME NEW w \in Workers, Settle(w) \/ Unlock(w) PROVE WaitingInv'
  <2>1. /\ UNCHANGED <<queued, timers, rpc, stage, final, redone, faults>>
        /\ wpc[w] \notin Undecided /\ wpc'[w] # "succeeded"
        /\ \A v \in Workers \ {w} : wpc'[v] = wpc[v] /\ hand'[v] = hand[v]
    BY <1>16 DEF QueueTypeOK, Settle, Unlock, Undecided
  <2> QED
    BY <2>1 DEF WaitingInv, MovesOn, Recorded, Queued, Timed, InHand
<1>17. ASSUME NEW w \in Workers, Retry(w) PROVE WaitingInv'
  <2> DEFINE next == <<hand[w][1], hand[w][2] + 1>>
  <2>0. next \in Payloads /\ Home[w] \in Instances
    BY <1>17, NextAttempt, HomeAssumption DEF Retry
  <2>1. /\ UNCHANGED <<queued, hand, rpc, stage, final, redone, faults>>
        /\ wpc'[w] = "unlocking"
        /\ \A v \in Workers \ {w} : wpc'[v] = wpc[v]
        /\ timers' = [timers EXCEPT ![Home[w]][next] = @ + 1]
    BY <1>17 DEF QueueTypeOK, Retry
  <2>2. /\ timers'[Home[w]][next] > 0
        /\ \A i \in Instances, p \in Payloads : timers[i][p] > 0 => timers'[i][p] > 0
    <3>1. \A i \in Instances, p \in Payloads : timers[i][p] \in Nat
      BY DEF QueueTypeOK
    <3>2. \A i \in Instances, p \in Payloads :
            timers'[i][p] = IF i = Home[w] /\ p = next THEN timers[i][p] + 1 ELSE timers[i][p]
      BY <2>0, <2>1 DEF QueueTypeOK
    <3> HIDE DEF next
    <3> QED
      BY <2>0, <3>1, <3>2
  <2>3. \A k \in Keys : Timed(k) => Timed(k)'
    BY <2>2 DEF Timed
  <2>4. \A k \in Keys : InHand(k) => InHand(k)' \/ Timed(k)'
    BY <2>0, <2>1, <2>2 DEF InHand, Timed
  <2> QED
    BY <2>1, <2>3, <2>4 DEF WaitingInv, MovesOn, Recorded, Queued
<1>18. ASSUME NEW i \in Instances, NEW p \in Payloads, TimerFires(i, p) PROVE WaitingInv'
  <2>1. /\ UNCHANGED <<wpc, hand, rpc, stage, final, redone, faults>>
        /\ timers' = [timers EXCEPT ![i][p] = @ - 1]
        /\ queued'[p] > 0 /\ \A q \in Payloads : queued[q] > 0 => queued'[q] > 0
    BY <1>18 DEF QueueTypeOK, TimerFires
  <2>2. \A j \in Instances, q \in Payloads : timers[j][q] > 0 => timers'[j][q] > 0 \/ q = p
    BY <2>1 DEF QueueTypeOK
  <2>3. \A k \in Keys : Timed(k) => Timed(k)' \/ Queued(k)'
    BY <2>1, <2>2 DEF Timed, Queued
  <2>4. \A k \in Keys : Queued(k) => Queued(k)'
    BY <2>1 DEF Queued
  <2> QED
    BY <2>1, <2>3, <2>4 DEF WaitingInv, MovesOn, Recorded, InHand
<1>19. ASSUME NEW i \in Instances, NEW p \in Payloads, TimerLost(i, p) PROVE WaitingInv'
  BY <1>19 DEF TimerLost, WaitingInv, QueueTypeOK
<1>20. ASSUME NEW i \in Instances, End(i) PROVE WaitingInv'
  BY <1>20 DEF End, WaitingInv, QueueTypeOK
<1>21. ASSUME NEW i \in Instances, NEW p \in Payloads, RecoverPop(i, p) PROVE WaitingInv'
  BY <1>21 DEF RecoverPop, WaitingInv, MovesOn, Recorded, Queued, Timed, InHand
<1>22. ASSUME NEW i \in Instances, RecoverPush(i) PROVE WaitingInv'
  <2>1. /\ UNCHANGED <<timers, wpc, hand, rpc, stage, final, redone, faults>>
        /\ \A q \in Payloads : queued[q] > 0 => queued'[q] > 0
    BY <1>22 DEF QueueTypeOK, RecoverPush
  <2>2. \A k \in Keys : Queued(k) => Queued(k)'
    BY <2>1 DEF Queued
  <2> QED
    BY <2>1, <2>2 DEF WaitingInv, MovesOn, Recorded, Timed, InHand
<1>23. ASSUME NEW i \in Instances, Start(i) \/ RecoverEnds(i) PROVE WaitingInv'
  BY <1>23 DEF Start, RecoverEnds, WaitingInv, MovesOn, Recorded, Queued, Timed, InHand
<1>24. CASE UNCHANGED queueVars
  BY <1>24 DEF queueVars, WaitingInv, MovesOn, Recorded, Queued, Timed, InHand
<1> QED
  BY <1>1, <1>2, <1>3, <1>4, <1>5, <1>6, <1>7, <1>8, <1>9, <1>10, <1>11, <1>12, <1>13,
     <1>14, <1>15, <1>16, <1>17, <1>18, <1>19, <1>20, <1>21, <1>22, <1>23, <1>24
  DEF QueueNext, WorkerStep, RequestStep, RecoverStep

\* Without faults, and unless a job began again over a final row, a row that
\* waits or is being processed has a job or a request that moves it on.
THEOREM WaitingRowsMoveOn == QueueSpec => []WaitingRowHasJob
<1>1. QueueInit => WaitingInv
  BY DEF QueueInit, WaitingInv
<1>2. QueueTypeOK /\ WaitingInv => WaitingRowHasJob
  <2> SUFFICES ASSUME QueueTypeOK, WaitingInv, NEW k \in Keys, faults = 0,
                      stage[k] \in {"pending", "processing"}, ~redone[k], ~Recorded(k)
               PROVE  Live(k)
    BY DEF WaitingRowHasJob, Recorded
  <2>1. Queued(k) \/ Timed(k) \/ InHand(k)
    BY DEF WaitingInv, MovesOn
  <2>2. InHand(k) => \E w \in Workers : hand[w] # None /\ hand[w][1] = k
                                      /\ wpc[w] \in Unacked \cup {"returning"}
    BY HandPayload DEF InHand, Undecided, Unacked
  <2> QED
    BY <2>1, <2>2 DEF Live, Queued, Timed
<1> QED
  BY <1>1, <1>2, WaitingInductive, QueueTypeCorrect, PTL DEF QueueSpec

-----------------------------------------------------------------------------
\* The promise of JobDelivery.

Entered(k) == \E p \in Payloads : p[1] = k /\ processing[p] > 0
Carried(k) == \E i \in Instances : carry[i] # None /\ carry[i][1] = k
Busy(k)    == \E w \in Workers : wpc[w] \in Unacked \cup {"returning"} /\ hand[w][1] = k

\* Where the copies of a job are.
LEMMA LiveParts ==
  ASSUME QueueTypeOK, NEW k \in Keys
  PROVE  Live(k) <=> Queued(k) \/ Entered(k) \/ Timed(k) \/ Carried(k) \/ Busy(k)
BY HandPayload DEF Live, Queued, Entered, Timed, Carried, Busy, Unacked

LEMMA LivePartsNext ==
  ASSUME QueueTypeOK', NEW k \in Keys
  PROVE  Live(k)' <=> Queued(k)' \/ Entered(k)' \/ Timed(k)' \/ Carried(k)' \/ Busy(k)'
<1>1. \A w \in Workers : wpc'[w] \in Unacked \cup {"returning"} => hand'[w] # None
  BY DEF QueueTypeOK, Unacked
<1> QED
  BY <1>1 DEF Live, Queued, Entered, Timed, Carried, Busy

\* The kinds of steps.  Copies move, but none is lost and none appears...
Moves ==
  /\ UNCHANGED <<accepted, answered, faults>>
  /\ \A k \in Keys : Live(k)' <=> Live(k)

\* ... something fails, and copies may be lost with it...
Loses ==
  /\ UNCHANGED <<accepted, answered>> /\ faults' = faults + 1
  /\ \A k \in Keys : Live(k)' => Live(k)

\* ... a job that was live ends...
Ends(k) ==
  /\ UNCHANGED accepted /\ faults' \in {faults, faults + 1}
  /\ answered' = [answered EXCEPT ![k] = TRUE]
  /\ Live(k) /\ \A j \in Keys \ {k} : Live(j)' <=> Live(j)

\* ... or one is accepted.
Accepts(k) ==
  /\ UNCHANGED faults
  /\ accepted' = [accepted EXCEPT ![k] = TRUE]
  /\ answered' = [answered EXCEPT ![k] = FALSE]
  /\ Live(k)' /\ \A j \in Keys \ {k} : Live(j)' <=> Live(j)

\* Steps that leave every copy where it is.
LEMMA CopiesStay ==
  ASSUME QueueTypeOK, UNCHANGED <<queued, processing, timers, carry>>,
         \A k \in Keys : Busy(k)' <=> Busy(k), QueueTypeOK'
  PROVE  \A k \in Keys : Live(k)' <=> Live(k)
BY LiveParts, LivePartsNext DEF Queued, Entered, Timed, Carried

\* LREM takes entries of the worker's sale only.
LEMMA AckTakes ==
  ASSUME QueueTypeOK, NEW w \in Workers, wpc[w] # "idle", Ack(w) \/ UNCHANGED processing
  PROVE  /\ \A k \in Keys : Entered(k)' => Entered(k)
         /\ \A k \in Keys : Entered(k) => Entered(k)' \/ k = hand[w][1]
<1>1. \A p \in Payloads : processing[p] \in Nat /\ hand[w] \in Payloads
  BY HandPayload DEF QueueTypeOK
<1>2. \A p \in Payloads : processing'[p] > 0 => processing[p] > 0
  BY SMTT(30), <1>1 DEF QueueTypeOK, Ack
<1>3. \A p \in Payloads : p # hand[w] => processing'[p] = processing[p]
  BY <1>1 DEF QueueTypeOK, Ack
<1> QED
  BY <1>2, <1>3 DEF Entered

\* A copy pushed to the queue, or armed in a timer, is there.
LEMMA QueueGets ==
  ASSUME QueueTypeOK, NEW p \in Payloads, queued' = [queued EXCEPT ![p] = @ + 1]
  PROVE  \A k \in Keys : Queued(k)' <=> Queued(k) \/ k = p[1]
<1>1. \A q \in Payloads : queued[q] \in Nat /\ queued'[q] = IF q = p THEN queued[q] + 1 ELSE queued[q]
  BY DEF QueueTypeOK
<1>2. queued'[p] > 0 /\ \A q \in Payloads \ {p} : queued'[q] = queued[q]
  BY <1>1
<1> QED
  BY <1>2 DEF Queued

LEMMA TimerGets ==
  ASSUME QueueTypeOK, NEW i \in Instances, NEW p \in Payloads,
         timers' = [timers EXCEPT ![i][p] = @ + 1]
  PROVE  \A k \in Keys : Timed(k)' <=> Timed(k) \/ k = p[1]
<1>1. \A j \in Instances, q \in Payloads : timers[j][q] \in Nat
  BY DEF QueueTypeOK
<1>2. \A j \in Instances, q \in Payloads :
        timers'[j][q] = IF j = i /\ q = p THEN timers[j][q] + 1 ELSE timers[j][q]
  BY DEF QueueTypeOK
<1>3. timers'[i][p] > 0
  BY <1>1, <1>2
<1> QED
  BY <1>2, <1>3 DEF Timed

LEMMA EnqueueKinds ==
  ASSUME QueueTypeOK, QueueTypeOK', NEW r \in Requests, RequestStep(r) \/ PushFails(r)
  PROVE  Moves \/ Loses \/ Accepts(Sale[r])
<1> USE DEF lists, counts, history, row, feed, procs, work
<1>1. CASE ClaimEnqueue(r) \/ RecordPending(r)
  <2>1. UNCHANGED <<queued, processing, timers, carry, wpc, hand, accepted, answered, faults>>
    BY <1>1 DEF ClaimEnqueue, RecordPending
  <2> QED
    BY <2>1, CopiesStay DEF Moves, Busy
<1>2. CASE Push(r)
  <2> DEFINE job == <<Sale[r], 0>>
  <2>1. job \in Payloads /\ job[1] = Sale[r] /\ Sale[r] \in Keys
    BY SaleAssumption, RetriesAssumption DEF Payloads, Attempts
  <2>2. /\ UNCHANGED <<processing, timers, carry, wpc, hand, faults>>
        /\ queued' = [queued EXCEPT ![job] = @ + 1]
        /\ accepted' = [accepted EXCEPT ![Sale[r]] = TRUE]
        /\ answered' = [answered EXCEPT ![Sale[r]] = FALSE]
    BY <1>2 DEF Push
  <2> HIDE DEF job
  <2>3. \A p \in Payloads : queued[p] \in Nat /\ queued'[p] = IF p = job THEN queued[p] + 1 ELSE queued[p]
    BY <2>2 DEF QueueTypeOK
  <2>4. queued'[job] > 0
    BY <2>1, <2>3
  <2>5. Queued(Sale[r])' /\ \A j \in Keys \ {Sale[r]} : Queued(j)' <=> Queued(j)
    BY <2>1, <2>3, <2>4 DEF Queued
  <2> QED
    BY <2>1, <2>2, <2>5, LiveParts, LivePartsNext DEF Accepts, Entered, Timed, Carried, Busy
<1>3. CASE PushFails(r)
  <2>1. /\ UNCHANGED <<queued, processing, timers, carry, wpc, hand, accepted, answered>>
        /\ faults' = faults + 1
    BY <1>3 DEF PushFails
  <2> QED
    BY <2>1, CopiesStay DEF Loses, Busy
<1> QED
  BY <1>1, <1>2, <1>3 DEF RequestStep

LEMMA WorkerKinds ==
  ASSUME QueueTypeOK, QueueTypeOK', NEW w \in Workers,
         \/ WorkerStep(w) \/ LockFails(w) \/ ReturnFails(w)
         \/ SettleUnacked(w) \/ RetryUnacked(w)
         \/ \E p \in Payloads : Take(w, p)
  PROVE  Moves \/ Loses \/ \E k \in Keys : Ends(k)
<1> USE DEF lists, counts, history, row, feed, procs, work
<1>1. ASSUME NEW p \in Payloads, Take(w, p) PROVE Moves
  <2>1. /\ UNCHANGED <<timers, carry, accepted, answered, faults>>
        /\ queued[p] > 0 /\ queued' = [queued EXCEPT ![p] = @ - 1]
        /\ processing' = [processing EXCEPT ![p] = @ + 1]
        /\ wpc[w] = "idle" /\ wpc' = [wpc EXCEPT ![w] = "taken"]
        /\ hand' = [hand EXCEPT ![w] = p]
    BY <1>1 DEF Take
  <2>2. \A q \in Payloads \ {p} : queued'[q] = queued[q] /\ processing'[q] = processing[q]
    BY <2>1 DEF QueueTypeOK
  <2>3. Busy(p[1])' /\ \A k \in Keys \ {p[1]} : Busy(k)' <=> Busy(k)
    BY <2>1 DEF QueueTypeOK, Busy, Unacked
  <2>4. Queued(p[1])
    BY <2>1 DEF Queued
  <2>5. \A k \in Keys \ {p[1]} : (Queued(k)' <=> Queued(k)) /\ (Entered(k)' <=> Entered(k))
    BY <2>2 DEF Queued, Entered
  <2> QED
    BY <2>1, <2>3, <2>4, <2>5, LiveParts, LivePartsNext DEF Moves, Timed, Carried
<1>2. CASE \/ Lock(w) \/ Begin(w) \/ SendEnds(w) \/ SendFails(w)
           \/ Judge(w) \/ Bury(w) \/ Unlock(w)
  <2>1. UNCHANGED <<queued, processing, timers, carry, accepted, answered, faults>>
    BY <1>2 DEF Lock, Begin, SendEnds, SendFails, Judge, Bury, Unlock
  <2>2. CASE Unlock(w)
    BY <2>1, <2>2, CopiesStay DEF QueueTypeOK, Unlock, Moves, Busy, Unacked
  <2>3. CASE Lock(w) \/ Begin(w) \/ SendEnds(w) \/ SendFails(w) \/ Judge(w) \/ Bury(w)
    <3>1. /\ wpc[w] \in Unacked /\ wpc'[w] \in Unacked /\ UNCHANGED hand
          /\ \A v \in Workers \ {w} : wpc'[v] = wpc[v]
      BY <2>3 DEF QueueTypeOK, Lock, Begin, SendEnds, SendFails, Judge, Bury, Unacked
    <3> QED
      BY <2>1, <3>1, CopiesStay DEF Moves, Busy
  <2> QED
    BY <1>2, <2>2, <2>3
<1>3. CASE LockHeld(w) \/ LockFails(w)
  <2>1. /\ UNCHANGED <<queued, timers, carry, hand, accepted, answered>>
        /\ wpc[w] = "taken" /\ wpc' = [wpc EXCEPT ![w] = "returning"]
        /\ Ack(w) \/ UNCHANGED processing
        /\ (LockHeld(w) /\ faults' = faults) \/ faults' = faults + 1
    BY <1>3 DEF LockHeld, LockFails
  <2>2. Busy(hand[w][1]) /\ Busy(hand[w][1])' /\ \A k \in Keys : Busy(k)' <=> Busy(k)
    BY <2>1 DEF QueueTypeOK, Busy, Unacked
  <2>3. \A k \in Keys : (Entered(k)' => Entered(k)) /\ (Entered(k) => Entered(k)' \/ Busy(k)')
    BY <2>1, <2>2, AckTakes
  <2> QED
    BY <2>1, <2>2, <2>3, LiveParts, LivePartsNext DEF Moves, Loses, Queued, Timed, Carried
<1>4. CASE Return(w)
  <2>0. wpc[w] = "returning" /\ hand[w] \in Payloads
    BY <1>4, HandPayload DEF Return
  <2>1. PICK p \in Payloads : hand[w] = p
    BY <2>0
  <2>2. /\ UNCHANGED <<processing, timers, carry, accepted, answered, faults>>
        /\ queued' = [queued EXCEPT ![p] = @ + 1]
        /\ wpc[w] = "returning" /\ wpc' = [wpc EXCEPT ![w] = "idle"]
        /\ hand' = [hand EXCEPT ![w] = None]
    BY <1>4, <2>1 DEF Return
  <2>3. Busy(p[1]) /\ \A k \in Keys \ {p[1]} : Busy(k)' <=> Busy(k)
    BY <2>1, <2>2 DEF QueueTypeOK, Busy, Unacked
  <2>4. \A k \in Keys : Queued(k)' <=> Queued(k) \/ k = p[1]
    BY <2>2, QueueGets
  <2> QED
    BY <2>2, <2>3, <2>4, LiveParts, LivePartsNext DEF Moves, Entered, Timed, Carried
<1>5. CASE ReturnFails(w)
  <2>1. /\ UNCHANGED <<queued, processing, timers, carry, accepted, answered>>
        /\ faults' = faults + 1 /\ wpc' = [wpc EXCEPT ![w] = "idle"]
        /\ hand' = [hand EXCEPT ![w] = None]
    BY <1>5 DEF ReturnFails
  <2>2. \A k \in Keys : Busy(k)' => Busy(k)
    BY <2>1 DEF QueueTypeOK, Busy, Unacked
  <2> QED
    BY <2>1, <2>2, LiveParts, LivePartsNext DEF Loses, Queued, Entered, Timed, Carried
<1>6. CASE Settle(w) \/ SettleUnacked(w)
  <2> DEFINE k == hand[w][1]
  <2>1. /\ UNCHANGED <<queued, timers, carry, hand, accepted>>
        /\ wpc[w] \in {"succeeded", "buried"} /\ wpc' = [wpc EXCEPT ![w] = "unlocking"]
        /\ Ack(w) \/ UNCHANGED processing
        /\ answered' = [answered EXCEPT ![k] = TRUE]
        /\ faults' \in {faults, faults + 1}
    BY <1>6 DEF Settle, SettleUnacked
  <2>2. wpc[w] # "idle" /\ k \in Keys /\ Busy(k)
    BY <2>1, HandPayload DEF Busy, Unacked
  <2>3. \A j \in Keys \ {k} : Busy(j)' <=> Busy(j)
    BY <2>1 DEF QueueTypeOK, Busy, Unacked
  <2>4. \A j \in Keys \ {k} : Entered(j)' <=> Entered(j)
    BY <2>1, <2>2, AckTakes
  <2>5. Ends(k)
    BY <2>1, <2>2, <2>3, <2>4, LiveParts, LivePartsNext DEF Ends, Queued, Timed, Carried
  <2> QED
    BY <2>2, <2>5
<1>7. CASE Retry(w) \/ RetryUnacked(w)
  <2>0. <<hand[w][1], hand[w][2] + 1>> \in Payloads
    BY <1>7, NextAttempt DEF Retry, RetryUnacked
  <2>1. PICK next \in Payloads : next = <<hand[w][1], hand[w][2] + 1>>
    BY <2>0
  <2>2. /\ UNCHANGED <<queued, carry, hand, accepted, answered>>
        /\ wpc[w] = "retrying" /\ wpc' = [wpc EXCEPT ![w] = "unlocking"]
        /\ Ack(w) \/ UNCHANGED processing
        /\ timers' = [timers EXCEPT ![Home[w]][next] = @ + 1]
        /\ faults' = faults \/ faults' = faults + 1
    BY <1>7, <2>1 DEF Retry, RetryUnacked
  <2>3. wpc[w] # "idle" /\ Busy(next[1]) /\ \A j \in Keys \ {next[1]} : Busy(j)' <=> Busy(j)
    BY <2>1, <2>2 DEF QueueTypeOK, Busy, Unacked
  <2>4. /\ \A j \in Keys : Entered(j)' => Entered(j)
        /\ \A j \in Keys \ {next[1]} : Entered(j)' <=> Entered(j)
    BY <2>1, <2>2, <2>3, AckTakes
  <2>5. \A j \in Keys : Timed(j)' <=> Timed(j) \/ j = next[1]
    BY <2>2, HomeAssumption, TimerGets
  <2>6. \A j \in Keys : Live(j)' <=> Live(j)
    BY <2>2, <2>3, <2>4, <2>5, LiveParts, LivePartsNext DEF Queued, Carried
  <2> QED
    BY <2>2, <2>6 DEF Moves, Loses
<1> QED
  BY <1>1, <1>2, <1>3, <1>4, <1>5, <1>6, <1>7 DEF WorkerStep

LEMMA ProcessKinds ==
  ASSUME QueueTypeOK, QueueTypeOK', NEW i \in Instances,
         \/ End(i) \/ RecoverStep(i)
         \/ \E p \in Payloads : TimerFires(i, p) \/ TimerLost(i, p)
  PROVE  Moves \/ Loses
<1> USE DEF lists, counts, history, row, feed, procs, work
<1>1. ASSUME NEW p \in Payloads, TimerFires(i, p) PROVE Moves
  <2>1. /\ UNCHANGED <<processing, carry, wpc, hand, accepted, answered, faults>>
        /\ timers[i][p] > 0 /\ timers' = [timers EXCEPT ![i][p] = @ - 1]
        /\ queued' = [queued EXCEPT ![p] = @ + 1]
    BY <1>1 DEF TimerFires
  <2>2. /\ \A q \in Payloads \ {p} : queued'[q] = queued[q]
        /\ \A j \in Instances, q \in Payloads \ {p} : timers'[j][q] = timers[j][q]
    BY <2>1 DEF QueueTypeOK
  <2>3. queued'[p] > 0
    BY <2>1 DEF QueueTypeOK
  <2>4. Timed(p[1]) /\ Queued(p[1])'
    BY <2>1, <2>3 DEF Timed, Queued
  <2>5. \A k \in Keys \ {p[1]} : (Queued(k)' <=> Queued(k)) /\ (Timed(k)' <=> Timed(k))
    BY <2>2 DEF Queued, Timed
  <2> QED
    BY <2>1, <2>4, <2>5, LiveParts, LivePartsNext DEF Moves, Entered, Carried, Busy
<1>2. ASSUME NEW p \in Payloads, TimerLost(i, p) PROVE Loses
  <2>1. /\ UNCHANGED <<queued, processing, carry, wpc, hand, accepted, answered>>
        /\ timers[i][p] > 0 /\ timers' = [timers EXCEPT ![i][p] = @ - 1]
        /\ faults' = faults + 1
    BY <1>2 DEF TimerLost
  <2>2. \A j \in Instances, q \in Payloads \ {p} : timers'[j][q] = timers[j][q]
    BY <2>1 DEF QueueTypeOK
  <2>3. \A k \in Keys : Timed(k)' => Timed(k)
    BY <2>1, <2>2 DEF Timed
  <2> QED
    BY <2>1, <2>3, LiveParts, LivePartsNext DEF Loses, Queued, Entered, Carried, Busy
<1>3. CASE End(i)
  <2>1. /\ UNCHANGED <<queued, processing, accepted, answered>> /\ faults' = faults + 1
        /\ carry' = [carry EXCEPT ![i] = None]
        /\ timers' = [timers EXCEPT ![i] = [p \in Payloads |-> 0]]
        /\ wpc' = [w \in Workers |-> IF Home[w] = i THEN "idle" ELSE wpc[w]]
        /\ hand' = [w \in Workers |-> IF Home[w] = i THEN None ELSE hand[w]]
    BY <1>3 DEF End
  <2>2. \A k \in Keys : Timed(k)' => Timed(k)
    BY <2>1 DEF QueueTypeOK, Timed
  <2>3. \A k \in Keys : Carried(k)' => Carried(k)
    BY <2>1 DEF QueueTypeOK, Carried
  <2>4. \A k \in Keys : Busy(k)' => Busy(k)
    BY <2>1 DEF QueueTypeOK, Busy, Unacked
  <2> QED
    BY <2>1, <2>2, <2>3, <2>4, LiveParts, LivePartsNext DEF Loses, Queued, Entered
<1>4. CASE Start(i) \/ RecoverEnds(i)
  <2>1. UNCHANGED <<queued, processing, timers, carry, wpc, hand, accepted, answered, faults>>
    BY <1>4 DEF Start, RecoverEnds
  <2> QED
    BY <2>1, CopiesStay DEF Moves, Busy
<1>5. ASSUME NEW p \in Payloads, RecoverPop(i, p) PROVE Moves
  <2>1. /\ UNCHANGED <<queued, timers, wpc, hand, accepted, answered, faults>>
        /\ processing[p] > 0 /\ processing' = [processing EXCEPT ![p] = @ - 1]
        /\ carry[i] = None /\ carry' = [carry EXCEPT ![i] = p]
    BY <1>5 DEF RecoverPop
  <2>2. \A q \in Payloads \ {p} : processing'[q] = processing[q]
    BY <2>1 DEF QueueTypeOK
  <2>3. Entered(p[1]) /\ \A k \in Keys \ {p[1]} : Entered(k)' <=> Entered(k)
    BY <2>1, <2>2 DEF Entered
  <2>4. Carried(p[1])' /\ \A k \in Keys \ {p[1]} : Carried(k)' <=> Carried(k)
    BY <2>1, NoneIsNoPayload DEF QueueTypeOK, Carried
  <2> QED
    BY <2>1, <2>3, <2>4, LiveParts, LivePartsNext DEF Moves, Queued, Timed, Busy
<1>6. CASE RecoverPush(i)
  <2>1. PICK p \in Payloads : carry[i] = p
    BY <1>6 DEF QueueTypeOK, RecoverPush
  <2>2. /\ UNCHANGED <<processing, timers, wpc, hand, accepted, answered, faults>>
        /\ queued' = [queued EXCEPT ![p] = @ + 1]
        /\ carry[i] # None /\ carry' = [carry EXCEPT ![i] = None]
    BY <1>6, <2>1 DEF RecoverPush
  <2>3. \A k \in Keys : Queued(k)' <=> Queued(k) \/ k = p[1]
    BY <2>2, QueueGets
  <2>4. Carried(p[1]) /\ \A k \in Keys \ {p[1]} : Carried(k)' <=> Carried(k)
    BY <2>1, <2>2 DEF QueueTypeOK, Carried
  <2> QED
    BY <2>2, <2>3, <2>4, LiveParts, LivePartsNext DEF Moves, Entered, Timed, Busy
<1> QED
  BY <1>1, <1>2, <1>3, <1>4, <1>5, <1>6 DEF RecoverStep

\* What any step does to the copies of the jobs.
LEMMA StepKinds ==
  ASSUME QueueTypeOK, QueueTypeOK', [QueueNext]_queueVars
  PROVE  Moves \/ Loses \/ \E k \in Keys : Ends(k) \/ Accepts(k)
<1>1. ASSUME NEW k \in Keys, ClaimExpires(k) \/ LockExpires(k) \/ FinalElsewhere(k)
      PROVE  Moves
  <2>1. UNCHANGED <<queued, processing, timers, carry, wpc, hand, accepted, answered, faults>>
    BY <1>1 DEF ClaimExpires, LockExpires, FinalElsewhere, lists, procs, work, history, counts
  <2> QED
    BY <2>1, CopiesStay DEF Moves, Busy
<1>2. ASSUME UNCHANGED queueVars PROVE Moves
  <2>1. UNCHANGED <<queued, processing, timers, carry, wpc, hand, accepted, answered, faults>>
    BY <1>2 DEF queueVars, lists, procs, work, history, counts
  <2> QED
    BY <2>1, CopiesStay DEF Moves, Busy
<1>3. ASSUME NEW r \in Requests, RequestStep(r) \/ PushFails(r)
      PROVE  Moves \/ Loses \/ \E k \in Keys : Accepts(k)
  BY <1>3, EnqueueKinds, SaleAssumption
<1> QED
  BY <1>1, <1>2, <1>3, WorkerKinds, ProcessKinds DEF QueueNext

-----------------------------------------------------------------------------
LEMMA StatusOf ==
  ASSUME QueueTypeOK, NEW k \in Keys
  PROVE  JobStatus[k] = IF ~accepted[k] THEN "none"
                        ELSE IF answered[k] THEN "settled"
                        ELSE IF Live(k) THEN "owed" ELSE "lost"
BY DEF QueueTypeOK, JobStatus

LEMMA StatusOfNext ==
  ASSUME QueueTypeOK', NEW k \in Keys
  PROVE  JobStatus'[k] = IF ~accepted'[k] THEN "none"
                         ELSE IF answered'[k] THEN "settled"
                         ELSE IF Live(k)' THEN "owed" ELSE "lost"
BY DEF QueueTypeOK, JobStatus

\* A step of the queue is a step of the promise, or none.
LEMMA StepKeepsPromise ==
  ASSUME QueueTypeOK, QueueTypeOK', [QueueNext]_queueVars
  PROVE  [JD!DeliveryNext]_(JD!deliveryVars)
<1> USE StatusOf, StatusOfNext
<1>0. /\ JobStatus = [k \in Keys |-> JobStatus[k]]
      /\ JobStatus' = [k \in Keys |-> JobStatus'[k]]
  BY DEF JobStatus
<1>1. CASE Moves
  <2>1. \A k \in Keys : JobStatus'[k] = JobStatus[k]
    BY <1>1 DEF Moves
  <2> QED
    BY <1>0, <1>1, <2>1 DEF Moves, JD!deliveryVars
<1>2. CASE Loses
  <2>1. \A k \in Keys : JobStatus'[k] # JobStatus[k]
                          => JobStatus[k] = "owed" /\ JobStatus'[k] = "lost"
    BY <1>2 DEF Loses
  <2>2. JobStatus' \in [Keys -> JD!Statuses]
    BY <1>0 DEF JD!Statuses
  <2> QED
    BY <1>2, <2>1, <2>2 DEF Loses, JD!Fault, JD!DeliveryNext
<1>3. ASSUME NEW k \in Keys, Accepts(k) PROVE JD!Accept(k)
  <2>0. \A j \in Keys \ {k} : /\ accepted'[j] = accepted[j] /\ answered'[j] = answered[j]
                              /\ Live(j)' <=> Live(j)
    BY <1>3 DEF Accepts, QueueTypeOK
  <2>1. accepted'[k] /\ ~answered'[k] /\ Live(k)'
    BY <1>3 DEF Accepts, QueueTypeOK
  <2>2. JobStatus'[k] = "owed"
    <3>1. ~(~accepted'[k])
      BY <2>1
    <3> QED
      BY <2>1, <3>1
  <2>3. \A j \in Keys \ {k} : JobStatus'[j] = JobStatus[j]
    BY <2>0
  <2> QED
    BY <1>0, <1>3, <2>2, <2>3 DEF Accepts, JD!Accept
<1>4. ASSUME NEW k \in Keys, Ends(k)
      PROVE  JD!Settle(k) \/ JD!Fault \/ UNCHANGED JD!deliveryVars
  <2>0. \A j \in Keys \ {k} : /\ accepted'[j] = accepted[j] /\ answered'[j] = answered[j]
                              /\ Live(j)' <=> Live(j)
    BY <1>4 DEF Ends, QueueTypeOK
  <2>1. \A j \in Keys \ {k} : JobStatus'[j] = JobStatus[j]
    BY <2>0
  <2>2. CASE accepted[k]
    <3>1. JobStatus[k] \in {"owed", "settled"} /\ JobStatus'[k] = "settled"
      BY <1>4, <2>2 DEF Ends, QueueTypeOK
    <3> QED
      BY <1>0, <1>4, <2>1, <3>1 DEF Ends, JD!Settle
  <2>3. CASE ~accepted[k]
    <3>1. JobStatus' = JobStatus
      <4>1. JobStatus'[k] = JobStatus[k]
        BY <1>4, <2>3 DEF Ends
      <4> QED
        BY <1>0, <2>1, <4>1
    <3>2. JobStatus' \in [Keys -> JD!Statuses]
      BY <1>0 DEF JD!Statuses
    <3> QED
      BY <1>4, <3>1, <3>2 DEF Ends, JD!Fault, JD!deliveryVars
  <2> QED
    BY <2>2, <2>3
<1> QED
  BY <1>1, <1>2, <1>3, <1>4, StepKinds DEF JD!DeliveryNext

\* The queue implements JobDelivery: only a step in which something fails
\* loses a job whose Enqueue succeeded.
THEOREM QueueKeepsPromise == QueueSpec => KeepsPromise
<1>1. QueueInit => JD!DeliveryInit
  BY DEF QueueInit, JD!DeliveryInit, JobStatus
<1>2. QueueTypeOK /\ QueueTypeOK' /\ [QueueNext]_queueVars => [JD!DeliveryNext]_(JD!deliveryVars)
  BY StepKeepsPromise
<1> QED
  BY <1>1, <1>2, QueueTypeCorrect, PTL DEF QueueSpec, KeepsPromise, JD!Delivery
-----------------------------------------------------------------------------
\* The runs that the copies of a job still allow.

\* Where a copy of a job can be: the lists, the timers and the pop of a
\* process, the hand of a worker that acknowledged it to push it back.
InQueue == <<"queue", None>>
InList == <<"list", None>>
InTimers(i) == <<"timers", i>>
InCarry(i) == <<"carry", i>>
InWorker(w) == <<"hand", w>>

Places == {InQueue, InList} \cup {InTimers(i) : i \in Instances}
          \cup {InCarry(i) : i \in Instances} \cup {InWorker(w) : w \in Workers}
Spots == Places \X Payloads

\* The copies of each payload at each place, for any contents of the places.
CopiesOf(q, l, t, c, h, ph) ==
  [x \in Spots |->
     CASE x[1][1] = "queue" -> q[x[2]]
       [] x[1][1] = "list" -> l[x[2]]
       [] x[1][1] = "timers" -> t[x[1][2]][x[2]]
       [] x[1][1] = "carry" -> IF c[x[1][2]] = x[2] THEN 1 ELSE 0
       [] OTHER -> IF h[x[1][2]] = x[2] /\ ph[x[1][2]] = "returning" THEN 1 ELSE 0]

Copies == CopiesOf(queued, processing, timers, carry, hand, wpc)

\* The n-th copy at spot x allows the attempts from its own on.
Tries(x, n) == {x} \X ({n} \X (x[2][2] .. MaxRetries - 1))

\* The runs of k that f copies of each payload at each spot allow.
Allowed(f, k) ==
  {t \in Spots \X (Nat \X Attempts) :
     /\ t[1][2][1] = k
     /\ t[2][1] # 0 /\ t[2][1] <= f[t[1]]
     /\ t[1][2][2] <= t[2][2]}

\* The workers that began a run of k and have not acknowledged its copy.
Begun(k) ==
  {w \in Workers : /\ hand[w] # None /\ hand[w][1] = k
                   /\ wpc[w] \in Unacked \ {"taken", "locked"}}

\* Each Enqueue and each fault allow MaxRetries runs, and each process that
\* ends costs the runs that its workers had begun.
RunsBound(k) == MaxRetries * (pushes[k] + faults) + faults * expiries

Counted(k) ==
  /\ IsFiniteSet(Allowed(Copies, k))
  /\ runs[k] + Cardinality(Allowed(Copies, k)) <= RunsBound(k) + Cardinality(Begun(k))

RunsInv == moved = 0 => \A k \in Keys : Counted(k)

LEMMA SpotFacts ==
  ASSUME NEW x \in Spots
  PROVE  /\ x[2] \in Payloads /\ x[2][1] \in Keys /\ x[2][2] \in Attempts
         /\ x[2][2] \in Nat /\ x[2][2] < MaxRetries /\ MaxRetries \in Nat
         /\ MaxRetries - x[2][2] \in Nat
BY RetriesAssumption DEF Spots, Payloads, Attempts

LEMMA TriesCount ==
  ASSUME NEW x \in Spots, NEW n
  PROVE  IsFiniteSet(Tries(x, n)) /\ Cardinality(Tries(x, n)) = MaxRetries - x[2][2]
<1> DEFINE a == x[2][2]
           m == MaxRetries - 1
<1>0. a \in Nat /\ m \in Int /\ a <= m /\ MaxRetries \in Nat /\ a \in Int
  BY SpotFacts, RetriesAssumption
<1>1. IsFiniteSet(a .. m) /\ Cardinality(a .. m) = MaxRetries - a
  <2>1. IsFiniteSet(a .. m) /\ Cardinality(a .. m) = IF a > m THEN 0 ELSE m - a + 1
    BY <1>0, FS_Interval
  <2> QED
    BY <1>0, <2>1
<1>2. IsFiniteSet({x}) /\ Cardinality({x}) = 1 /\ IsFiniteSet({n}) /\ Cardinality({n}) = 1
  BY FS_Singleton
<1> HIDE DEF m
<1>3. /\ IsFiniteSet({n} \X (a .. m))
      /\ Cardinality({n} \X (a .. m)) = Cardinality({n}) * Cardinality(a .. m)
  BY <1>1, <1>2, FS_Product
<1>4. /\ IsFiniteSet({x} \X ({n} \X (a .. m)))
      /\ Cardinality({x} \X ({n} \X (a .. m))) = Cardinality({x}) * Cardinality({n} \X (a .. m))
  BY <1>2, <1>3, FS_Product
<1>5. Cardinality({x} \X ({n} \X (a .. m))) = MaxRetries - a
  <2>1. MaxRetries - a \in Nat
    BY SpotFacts
  <2> HIDE DEF a
  <2> QED
    BY <1>1, <1>2, <1>3, <1>4, <2>1
<1> QED
  BY <1>4, <1>5 DEF Tries, m

\* What the copy at a spot allows for k.
Weight(x, k) == IF x[2][1] = k THEN MaxRetries - x[2][2] ELSE 0

LEMMA NoMore ==
  ASSUME NEW f \in [Spots -> Nat], NEW g \in [Spots -> Nat], NEW k, IsFiniteSet(Allowed(f, k)),
         \A y \in Spots : g[y] <= f[y]
  PROVE  /\ IsFiniteSet(Allowed(g, k))
         /\ Cardinality(Allowed(g, k)) <= Cardinality(Allowed(f, k))
<1>1. Allowed(g, k) \subseteq Allowed(f, k)
  <2> SUFFICES ASSUME NEW t \in Allowed(g, k) PROVE t \in Allowed(f, k)
    OBVIOUS
  <2>1. /\ t \in Spots \X (Nat \X Attempts) /\ t[1] \in Spots /\ t[2][1] \in Nat
        /\ t[2][1] <= g[t[1]] /\ t[1][2][1] = k /\ t[2][1] # 0 /\ t[1][2][2] <= t[2][2]
    BY DEF Allowed
  <2>2. t[2][1] <= f[t[1]]
    <3>1. g[t[1]] \in Nat /\ f[t[1]] \in Nat /\ g[t[1]] <= f[t[1]]
      BY <2>1
    <3> QED
      BY <2>1, <3>1
  <2> QED
    BY <2>1, <2>2 DEF Allowed
<1> QED
  BY <1>1, FS_Subset

LEMMA OneMore ==
  ASSUME NEW f \in [Spots -> Nat], NEW g \in [Spots -> Nat], NEW k, IsFiniteSet(Allowed(f, k)),
         NEW x \in Spots, g[x] <= f[x] + 1, \A y \in Spots : y # x => g[y] <= f[y]
  PROVE  /\ IsFiniteSet(Allowed(g, k))
         /\ Cardinality(Allowed(g, k)) <= Cardinality(Allowed(f, k)) + Weight(x, k)
<1> DEFINE new == Tries(x, f[x] + 1)
           more == IF x[2][1] = k THEN new ELSE {}
<1>1. Allowed(g, k) \subseteq Allowed(f, k) \cup more
  <2> SUFFICES ASSUME NEW t \in Allowed(g, k), t \notin Allowed(f, k) PROVE t \in more
    OBVIOUS
  <2>1. /\ t \in Spots \X (Nat \X Attempts) /\ t[1] \in Spots /\ t[2][1] \in Nat
        /\ t[2][2] \in Attempts /\ t = <<t[1], <<t[2][1], t[2][2]>>>>
        /\ t[2][1] <= g[t[1]] /\ t[1][2][1] = k /\ t[2][1] # 0 /\ t[1][2][2] <= t[2][2]
    BY DEF Allowed
  <2>2. ~(t[2][1] <= f[t[1]])
    BY <2>1 DEF Allowed
  <2>3. t[1] = x
    <3> SUFFICES ASSUME t[1] # x PROVE FALSE
      OBVIOUS
    <3>1. g[t[1]] \in Nat /\ f[t[1]] \in Nat /\ g[t[1]] <= f[t[1]]
      BY <2>1
    <3> QED
      BY <2>1, <2>2, <3>1
  <2>4. t[2][1] = f[x] + 1
    <3>1. f[x] \in Nat /\ g[x] \in Nat
      OBVIOUS
    <3> QED
      BY <2>1, <2>2, <2>3, <3>1
  <2>5. t[2][2] \in x[2][2] .. MaxRetries - 1
    BY <2>1, <2>3, SpotFacts DEF Attempts
  <2> QED
    BY <2>1, <2>3, <2>4, <2>5 DEF Tries
<1>2. IsFiniteSet(more) /\ Cardinality(more) = Weight(x, k) /\ Weight(x, k) \in Nat
  BY TriesCount, SpotFacts, FS_EmptySet DEF Weight
<1> HIDE DEF more
<1>3. /\ IsFiniteSet(Allowed(f, k) \cup more)
      /\ Cardinality(Allowed(f, k) \cup more) =
           Cardinality(Allowed(f, k)) + Cardinality(more) - Cardinality(Allowed(f, k) \cap more)
      /\ Cardinality(Allowed(f, k) \cap more) \in Nat /\ Cardinality(Allowed(f, k)) \in Nat
  BY <1>2, FS_Union, FS_Intersection, FS_CardinalityType
<1>4. /\ IsFiniteSet(Allowed(g, k)) /\ Cardinality(Allowed(g, k)) \in Nat
      /\ Cardinality(Allowed(g, k)) <= Cardinality(Allowed(f, k) \cup more)
  BY <1>1, <1>3, FS_Subset, FS_CardinalityType
<1> QED
  BY <1>2, <1>3, <1>4

LEMMA OneLess ==
  ASSUME NEW f \in [Spots -> Nat], NEW g \in [Spots -> Nat], NEW k, IsFiniteSet(Allowed(f, k)),
         NEW x \in Spots, g[x] < f[x], \A y \in Spots : y # x => g[y] <= f[y]
  PROVE  /\ IsFiniteSet(Allowed(g, k))
         /\ Cardinality(Allowed(g, k)) + Weight(x, k) <= Cardinality(Allowed(f, k))
<1> DEFINE old == Tries(x, f[x])
           less == IF x[2][1] = k THEN old ELSE {}
<1>0. f[x] \in Nat /\ g[x] \in Nat /\ f[x] # 0
  OBVIOUS
<1>1. Allowed(g, k) \subseteq Allowed(f, k)
  <2>1. \A y \in Spots : g[y] <= f[y]
    BY <1>0
  <2> SUFFICES ASSUME NEW t \in Allowed(g, k) PROVE t \in Allowed(f, k)
    OBVIOUS
  <2>2. /\ t \in Spots \X (Nat \X Attempts) /\ t[1] \in Spots /\ t[2][1] \in Nat
        /\ t[2][1] <= g[t[1]] /\ t[1][2][1] = k /\ t[2][1] # 0 /\ t[1][2][2] <= t[2][2]
    BY DEF Allowed
  <2>3. g[t[1]] \in Nat /\ f[t[1]] \in Nat /\ g[t[1]] <= f[t[1]]
    BY <2>1, <2>2
  <2>4. t[2][1] <= f[t[1]]
    BY <2>2, <2>3
  <2> QED
    BY <2>2, <2>4 DEF Allowed
<1>2. less \subseteq Allowed(f, k)
  <2> SUFFICES ASSUME NEW t \in less PROVE t \in Allowed(f, k)
    OBVIOUS
  <2>1. /\ x[2][1] = k /\ t = <<t[1], t[2]>> /\ t[1] = x /\ t[2] = <<t[2][1], t[2][2]>>
        /\ t[2][1] = f[x] /\ t[2][2] \in x[2][2] .. MaxRetries - 1
    BY DEF Tries
  <2>2. t[2][2] \in Attempts /\ x[2][2] <= t[2][2]
    BY <2>1, SpotFacts DEF Attempts
  <2>3. t \in Spots \X (Nat \X Attempts)
    BY <1>0, <2>1, <2>2
  <2>4. t[2][1] <= f[t[1]]
    BY <1>0, <2>1
  <2> QED
    BY <1>0, <2>1, <2>2, <2>3, <2>4 DEF Allowed
<1>3. Allowed(g, k) \cap less = {}
  <2> SUFFICES ASSUME NEW t \in Allowed(g, k), t \in less PROVE FALSE
    OBVIOUS
  <2>1. t[1] = x /\ t[2][1] = f[x]
    BY DEF Tries
  <2>2. t[2][1] <= g[t[1]]
    BY DEF Allowed
  <2> QED
    BY <1>0, <2>1, <2>2
<1>4. IsFiniteSet(less) /\ Cardinality(less) = Weight(x, k) /\ Weight(x, k) \in Nat
  BY TriesCount, SpotFacts, FS_EmptySet DEF Weight
<1> HIDE DEF less
<1>5. IsFiniteSet(Allowed(g, k)) /\ Cardinality(Allowed(g, k)) \in Nat
  BY <1>1, FS_Subset, FS_CardinalityType
<1>6. /\ IsFiniteSet(Allowed(g, k) \cup less)
      /\ Cardinality(Allowed(g, k) \cup less) =
           Cardinality(Allowed(g, k)) + Cardinality(less) - Cardinality(Allowed(g, k) \cap less)
      /\ Cardinality(Allowed(g, k) \cap less) = 0
  BY <1>3, <1>4, <1>5, FS_Union, FS_EmptySet
<1>7. Cardinality(Allowed(g, k) \cup less) <= Cardinality(Allowed(f, k))
  BY <1>1, <1>2, FS_Subset
<1> QED
  BY <1>4, <1>5, <1>6, <1>7

LEMMA OneTurns ==
  ASSUME NEW f \in [Spots -> Nat], NEW g \in [Spots -> Nat], NEW k, IsFiniteSet(Allowed(f, k)),
         NEW x \in Spots, NEW y \in Spots, x # y, g[x] < f[x], g[y] <= f[y] + 1,
         \A z \in Spots : z # x /\ z # y => g[z] <= f[z]
  PROVE  /\ IsFiniteSet(Allowed(g, k))
         /\ Cardinality(Allowed(g, k)) + Weight(x, k)
              <= Cardinality(Allowed(f, k)) + Weight(y, k)
<1> DEFINE h == [z \in Spots |-> IF z = x THEN g[x] ELSE f[z]]
<1>1. h \in [Spots -> Nat] /\ h[x] = g[x] /\ \A z \in Spots : z # x => h[z] = f[z]
  OBVIOUS
<1>2. \A z \in Spots : f[z] \in Nat /\ g[z] \in Nat
  OBVIOUS
<1> HIDE DEF h
<1>3. h[x] < f[x] /\ \A z \in Spots : z # x => h[z] <= f[z]
  BY <1>1, <1>2
<1>4. g[y] <= h[y] + 1 /\ \A z \in Spots : z # y => g[z] <= h[z]
  BY <1>1, <1>2
<1>5. /\ IsFiniteSet(Allowed(h, k))
      /\ Cardinality(Allowed(h, k)) + Weight(x, k) <= Cardinality(Allowed(f, k))
  BY <1>1, <1>3, OneLess
<1>6. /\ IsFiniteSet(Allowed(g, k))
      /\ Cardinality(Allowed(g, k)) <= Cardinality(Allowed(h, k)) + Weight(y, k)
  BY <1>1, <1>4, <1>5, OneMore
<1>7. Weight(x, k) \in Nat /\ Weight(y, k) \in Nat
  BY SpotFacts DEF Weight
<1>8. /\ Cardinality(Allowed(f, k)) \in Nat /\ Cardinality(Allowed(g, k)) \in Nat
      /\ Cardinality(Allowed(h, k)) \in Nat
  BY <1>5, <1>6, FS_CardinalityType
<1> QED
  BY <1>5, <1>6, <1>7, <1>8

\* The copies at each place.
LEMMA CopiesAt ==
  ASSUME NEW q \in [Payloads -> Nat], NEW l \in [Payloads -> Nat],
         NEW t \in [Instances -> [Payloads -> Nat]], NEW c, NEW h, NEW ph
  PROVE  LET f == CopiesOf(q, l, t, c, h, ph) IN
         /\ f \in [Spots -> Nat]
         /\ \A p \in Payloads :
              /\ <<InQueue, p>> \in Spots /\ f[<<InQueue, p>>] = q[p]
              /\ <<InList, p>> \in Spots /\ f[<<InList, p>>] = l[p]
         /\ \A p \in Payloads, i \in Instances :
              /\ <<InTimers(i), p>> \in Spots /\ f[<<InTimers(i), p>>] = t[i][p]
              /\ <<InCarry(i), p>> \in Spots /\ f[<<InCarry(i), p>>] = IF c[i] = p THEN 1 ELSE 0
         /\ \A p \in Payloads, w \in Workers :
              /\ <<InWorker(w), p>> \in Spots
              /\ f[<<InWorker(w), p>>] = IF h[w] = p /\ ph[w] = "returning" THEN 1 ELSE 0
<1> DEFINE f == CopiesOf(q, l, t, c, h, ph)
<1>1. \A x \in Spots : f[x] =
     CASE x[1][1] = "queue" -> q[x[2]]
       [] x[1][1] = "list" -> l[x[2]]
       [] x[1][1] = "timers" -> t[x[1][2]][x[2]]
       [] x[1][1] = "carry" -> IF c[x[1][2]] = x[2] THEN 1 ELSE 0
       [] OTHER -> IF h[x[1][2]] = x[2] /\ ph[x[1][2]] = "returning" THEN 1 ELSE 0
  BY DEF CopiesOf
<1>2. \A p \in Payloads :
              /\ <<InQueue, p>> \in Spots /\ f[<<InQueue, p>>] = q[p]
              /\ <<InList, p>> \in Spots /\ f[<<InList, p>>] = l[p]
  BY <1>1 DEF Spots, Places, InQueue, InList
<1>3. \A p \in Payloads, i \in Instances :
              /\ <<InTimers(i), p>> \in Spots /\ f[<<InTimers(i), p>>] = t[i][p]
              /\ <<InCarry(i), p>> \in Spots /\ f[<<InCarry(i), p>>] = IF c[i] = p THEN 1 ELSE 0
  <2> TAKE p \in Payloads, i \in Instances
  <2>1. <<InTimers(i), p>> \in Spots /\ <<InCarry(i), p>> \in Spots
    BY DEF Spots, Places
  <2>2. f[<<InTimers(i), p>>] = t[i][p]
    BY <1>1, <2>1 DEF InTimers
  <2>3. f[<<InCarry(i), p>>] = IF c[i] = p THEN 1 ELSE 0
    BY <1>1, <2>1 DEF InCarry
  <2> QED
    BY <2>1, <2>2, <2>3
<1>4. \A p \in Payloads, w \in Workers :
              /\ <<InWorker(w), p>> \in Spots
              /\ f[<<InWorker(w), p>>] = IF h[w] = p /\ ph[w] = "returning" THEN 1 ELSE 0
  <2> TAKE p \in Payloads, w \in Workers
  <2>1. <<InWorker(w), p>> \in Spots
    BY DEF Spots, Places
  <2>2. f[<<InWorker(w), p>>] = IF h[w] = p /\ ph[w] = "returning" THEN 1 ELSE 0
    BY <1>1, <2>1 DEF InWorker
  <2> QED
    BY <2>1, <2>2
<1>5. ASSUME NEW x \in Spots
      PROVE  \E p \in Payloads :
               \/ x = <<InQueue, p>> \/ x = <<InList, p>>
               \/ \E i \in Instances : x = <<InTimers(i), p>> \/ x = <<InCarry(i), p>>
               \/ \E w \in Workers : x = <<InWorker(w), p>>
  BY DEF Spots, Places
<1>6. \A x \in Spots : f[x] \in Nat
  <2> TAKE x \in Spots
  <2>0. PICK p \in Payloads :
          \/ x = <<InQueue, p>> \/ x = <<InList, p>>
          \/ \E i \in Instances : x = <<InTimers(i), p>> \/ x = <<InCarry(i), p>>
          \/ \E w \in Workers : x = <<InWorker(w), p>>
    BY <1>5
  <2>1. CASE x = <<InQueue, p>> \/ x = <<InList, p>>
    BY <1>2, <2>1
  <2>2. ASSUME NEW i \in Instances, x = <<InTimers(i), p>> PROVE f[x] \in Nat
    <3>1. f[x] = t[i][p]
      BY <1>3, <2>2
    <3> QED
      BY <3>1
  <2>3. ASSUME NEW i \in Instances, x = <<InCarry(i), p>> PROVE f[x] \in Nat
    <3>1. f[x] = IF c[i] = p THEN 1 ELSE 0
      BY <1>3, <2>3
    <3> QED
      BY <3>1
  <2>4. ASSUME NEW w \in Workers, x = <<InWorker(w), p>> PROVE f[x] \in Nat
    <3>1. f[x] = IF h[w] = p /\ ph[w] = "returning" THEN 1 ELSE 0
      BY <1>4, <2>4
    <3> QED
      BY <3>1
  <2> QED
    BY <2>0, <2>1, <2>2, <2>3, <2>4
<1>7. f \in [Spots -> Nat]
  <2>1. f = [x \in Spots |-> f[x]]
    BY DEF CopiesOf
  <2> HIDE DEF f
  <2> QED
    BY <1>6, <2>1
<1> QED
  BY <1>2, <1>3, <1>4, <1>7

LEMMA SpotIs ==
  ASSUME NEW x \in Spots
  PROVE  \E p \in Payloads :
           \/ x = <<InQueue, p>> \/ x = <<InList, p>>
           \/ \E i \in Instances : x = <<InTimers(i), p>> \/ x = <<InCarry(i), p>>
           \/ \E w \in Workers : x = <<InWorker(w), p>>
BY DEF Spots, Places

-----------------------------------------------------------------------------
\* How many workers run jobs of one sale together.

LEMMA HoldingFinite ==
  ASSUME NEW k, NEW S
  PROVE  /\ IsFiniteSet(Holding(k)) /\ Cardinality(Holding(k)) \in Nat
         /\ IsFiniteSet(Holding(k) \cap S) /\ Cardinality(Holding(k) \cap S) \in Nat
<1>1. Holding(k) \subseteq Workers /\ Holding(k) \cap S \subseteq Workers
  BY DEF Holding
<1> QED
  BY <1>1, FiniteAssumption, FS_Subset, FS_CardinalityType

LEMMA RobbedInductive ==
  ASSUME QueueTypeOK, LockInv, RobbedInv, [QueueNext]_queueVars
  PROVE  RobbedInv'
<1> SUFFICES ASSUME NEW k \in Keys PROVE Cardinality(Holding(k)' \cap robbed') <= expiries'
  BY DEF RobbedInv
<1> DEFINE S == Holding(k) \cap robbed
<1>0. /\ Cardinality(S) <= expiries /\ expiries \in Nat
      /\ IsFiniteSet(S) /\ Cardinality(S) \in Nat
  BY HoldingFinite DEF RobbedInv, QueueTypeOK
<1>1. ASSUME Holding(k)' \cap robbed' \subseteq S, expiries' \in {expiries, expiries + 1}
      PROVE  Cardinality(Holding(k)' \cap robbed') <= expiries'
  <2> DEFINE S2 == Holding(k)' \cap robbed'
  <2> HIDE DEF S, S2
  <2>1. IsFiniteSet(S2) /\ Cardinality(S2) \in Nat /\ Cardinality(S2) <= Cardinality(S)
    BY <1>0, <1>1, FS_Subset, FS_CardinalityType DEF S2
  <2>2. Cardinality(S2) <= expiries'
    BY <1>0, <1>1, <2>1
  <2> QED
    BY <2>2 DEF S2
<1>2. CASE UNCHANGED work /\ expiries' \in {expiries, expiries + 1}
  BY <1>1, <1>2 DEF work, Holding
<1>3. ASSUME NEW w \in Workers, Advances(w) \/ StaysOut(w) \/ Lock(w)
      PROVE  Cardinality(Holding(k)' \cap robbed') <= expiries'
  <2>1. robbed' = robbed /\ expiries' = expiries
    BY <1>3 DEF Advances, StaysOut, Lock, counts
  <2>2. \A v \in Workers : v # w => wpc'[v] = wpc[v] /\ hand'[v] = hand[v]
    BY <1>3 DEF Advances, StaysOut, Lock, QueueTypeOK
  <2>3. w \in robbed => wpc[w] \in Inside /\ hand'[w] = hand[w]
    BY <1>3 DEF LockInv, Advances, StaysOut, Lock, Inside
  <2>4. Holding(k)' \cap robbed' \subseteq S
    BY <2>1, <2>2, <2>3 DEF Holding, QueueTypeOK
  <2> QED
    BY <1>1, <2>1, <2>4
<1>4. ASSUME NEW w \in Workers, Unlock(w)
      PROVE  Cardinality(Holding(k)' \cap robbed') <= expiries'
  <2> DEFINE h == hand[w][1]
  <2>1. /\ robbed' = (robbed \cup {v \in Holding(h) : plock[h] = v}) \ {w}
        /\ wpc' = [wpc EXCEPT ![w] = "idle"] /\ hand' = [hand EXCEPT ![w] = None]
        /\ expiries' = expiries /\ wpc[w] = "unlocking"
    BY <1>4 DEF Unlock, counts
  <2>2. hand[w] # None /\ w \in Holding(h) /\ wpc[w] \in Inside
    BY <2>1, HandPayload DEF Holding, Inside
  <2>3. Holding(k)' \subseteq Holding(k) \ {w}
    BY <2>1 DEF Holding, QueueTypeOK
  <2>4. CASE h # k
    <3>1. \A v \in Holding(k) : v \notin Holding(h)
      BY <2>4 DEF Holding
    <3>2. Holding(k)' \cap robbed' \subseteq S
      BY <2>1, <2>3, <3>1
    <3> QED
      BY <1>1, <2>1, <3>2
  <2>5. CASE h = k /\ w \notin robbed
    <3>1. plock[h] = w
      BY <2>2, <2>5 DEF LockInv
    <3>2. Holding(k)' \cap robbed' \subseteq S
      BY <2>1, <2>3, <3>1
    <3> QED
      BY <1>1, <2>1, <3>2
  <2>6. CASE h = k /\ w \in robbed
    <3>1. w \in S
      BY <2>2, <2>6
    <3>2. Holding(k)' \cap robbed' \subseteq (S \ {w}) \cup {plock[h]}
      BY <2>1, <2>3
    <3> DEFINE S2 == Holding(k)' \cap robbed'
               R == S \ {w}
    <3> HIDE DEF S
    <3>3. IsFiniteSet(R) /\ Cardinality(R) = Cardinality(S) - 1
      BY <1>0, <3>1, FS_RemoveElement
    <3>4. Cardinality(R) \in Nat
      BY <3>3, FS_CardinalityType
    <3> HIDE DEF R, S2
    <3>5. IsFiniteSet(R \cup {plock[h]}) /\ Cardinality(R \cup {plock[h]}) <= Cardinality(R) + 1
      <4>1. /\ IsFiniteSet(R \cup {plock[h]})
            /\ Cardinality(R \cup {plock[h]})
                 = IF plock[h] \in R THEN Cardinality(R) ELSE Cardinality(R) + 1
        BY <3>3, FS_AddElement
      <4> QED
        BY <3>4, <4>1
    <3>6. S2 \subseteq R \cup {plock[h]}
      BY <3>2 DEF R, S2
    <3>7. Cardinality(S2) <= Cardinality(R \cup {plock[h]})
      BY <3>5, <3>6, FS_Subset
    <3>8. Cardinality(R \cup {plock[h]}) \in Nat /\ Cardinality(S2) \in Nat
      BY <3>5, <3>6, FS_Subset, FS_CardinalityType
    <3>9. Cardinality(S2) <= expiries
      BY <1>0, <3>3, <3>4, <3>5, <3>7, <3>8
    <3> QED
      BY <2>1, <3>9 DEF S2
  <2> QED
    BY <2>4, <2>5, <2>6
<1>5. ASSUME NEW j \in Keys, LockExpires(j)
      PROVE  Cardinality(Holding(k)' \cap robbed') <= expiries'
  <2>1. Holding(k)' = Holding(k)
    BY <1>5 DEF LockExpires, Holding
  <2>2. CASE plock[j] \notin Holding(j)
    <3>1. robbed' = robbed /\ expiries' = expiries
      BY <1>5, <2>2 DEF LockExpires
    <3> QED
      BY <1>1, <2>1, <3>1
  <2>3. CASE plock[j] \in Holding(j)
    <3>1. robbed' = robbed \cup {plock[j]} /\ expiries' = expiries + 1
      BY <1>5, <2>3 DEF LockExpires
    <3> DEFINE S2 == Holding(k)' \cap robbed'
    <3>2. S2 \subseteq S \cup {plock[j]}
      BY <2>1, <3>1
    <3> HIDE DEF S, S2
    <3>3. IsFiniteSet(S \cup {plock[j]}) /\ Cardinality(S \cup {plock[j]}) <= Cardinality(S) + 1
      BY <1>0, FS_AddElement
    <3>4. Cardinality(S2) <= Cardinality(S \cup {plock[j]})
      BY <3>2, <3>3, FS_Subset
    <3>5. Cardinality(S \cup {plock[j]}) \in Nat /\ Cardinality(S2) \in Nat
      BY <3>2, <3>3, FS_Subset, FS_CardinalityType
    <3>6. Cardinality(S2) <= expiries'
      BY <1>0, <3>1, <3>3, <3>4, <3>5
    <3> QED
      BY <3>6 DEF S2
  <2> QED
    BY <2>2, <2>3
<1>6. ASSUME NEW i \in Instances, End(i)
      PROVE  Cardinality(Holding(k)' \cap robbed') <= expiries'
  <2>1. Holding(k)' \cap robbed' \subseteq S /\ expiries' = expiries
    BY <1>6 DEF End, Holding
  <2> QED
    BY <1>1, <2>1
<1> QED
  BY <1>2, <1>3, <1>4, <1>5, <1>6, WorkShape

\* A sale is being processed by one worker, and those that locks that ran out
\* let in.
LEMMA HoldingBounded ==
  ASSUME QueueTypeOK, LockInv, RobbedInv, NEW k \in Keys
  PROVE  Cardinality(Holding(k)) <= 1 + expiries
<1> DEFINE S == Holding(k) \cap robbed
           R == Holding(k) \ robbed
<1>0. /\ Cardinality(S) <= expiries /\ expiries \in Nat
      /\ IsFiniteSet(S) /\ Cardinality(S) \in Nat
  BY HoldingFinite DEF RobbedInv, QueueTypeOK
<1>1. \A v, w \in R : v = w
  BY DEF LockInv, Holding
<1>2. IsFiniteSet(R) /\ Cardinality(R) <= 1 /\ Cardinality(R) \in Nat
  <2>1. CASE R = {}
    BY <2>1, FS_EmptySet
  <2>2. CASE R # {}
    <3>1. PICK w \in R : TRUE
      BY <2>2
    <3>2. R = {w}
      BY <1>1, <3>1
    <3>3. IsFiniteSet({w}) /\ Cardinality({w}) = 1
      BY FS_Singleton
    <3> HIDE DEF R
    <3> QED
      BY <3>2, <3>3
  <2> QED
    BY <2>1, <2>2
<1>3. S \cup R = Holding(k) /\ S \cap R = {}
  OBVIOUS
<1> HIDE DEF S, R
<1>4. Cardinality(S \cup R) = Cardinality(S) + Cardinality(R) - Cardinality(S \cap R)
  BY <1>0, <1>2, FS_Union
<1>5. Cardinality(S \cap R) = 0
  BY <1>3, FS_EmptySet
<1>6. Cardinality(S \cup R) = Cardinality(Holding(k))
  BY <1>3
<1>7. Cardinality(S \cup R) <= 1 + expiries
  BY <1>0, <1>2, <1>4, <1>5
<1> QED
  BY <1>6, <1>7

-----------------------------------------------------------------------------
\* What the count of a sale may do in a step.

LEMMA BegunFinite ==
  ASSUME NEW k
  PROVE  IsFiniteSet(Begun(k)) /\ Cardinality(Begun(k)) \in Nat
<1>1. Begun(k) \subseteq Workers
  BY DEF Begun
<1> QED
  BY <1>1, FiniteAssumption, FS_Subset, FS_CardinalityType

LEMMA BegunFiniteNext ==
  ASSUME NEW k
  PROVE  IsFiniteSet(Begun(k)') /\ Cardinality(Begun(k)') \in Nat
<1>1. Begun(k)' \subseteq Workers
  BY DEF Begun
<1> QED
  BY <1>1, FiniteAssumption, FS_Subset, FS_CardinalityType

LEMMA BoundSteps ==
  ASSUME NEW m \in Nat, NEW p \in Nat, NEW f \in Nat, NEW e \in Nat
  PROVE  /\ m * (p + f) + f * e \in Nat
         /\ m * ((p + 1) + f) + f * e = m * (p + f) + f * e + m
         /\ m * (p + (f + 1)) + (f + 1) * e = m * (p + f) + f * e + m + e
         /\ m * (p + f) + f * (e + 1) = m * (p + f) + f * e + f
<1>1. m * (p + f) \in Nat /\ f * e \in Nat
  OBVIOUS
<1>2. m * ((p + 1) + f) = m * (p + f) + m /\ m * (p + (f + 1)) = m * (p + f) + m
  OBVIOUS
<1>3. (f + 1) * e = f * e + e /\ f * (e + 1) = f * e + f
  OBVIOUS
<1> DEFINE a == m * (p + f)
           b == f * e
<1> HIDE DEF a, b
<1>4. /\ a \in Nat /\ b \in Nat
      /\ m * ((p + 1) + f) = a + m /\ m * (p + (f + 1)) = a + m
      /\ (f + 1) * e = b + e /\ f * (e + 1) = b + f
  BY <1>1, <1>2, <1>3 DEF a, b
<1>5. /\ a + b \in Nat
      /\ m * ((p + 1) + f) + b = a + b + m
      /\ m * (p + (f + 1)) + (f + 1) * e = a + b + m + e
      /\ a + f * (e + 1) = a + b + f
  BY <1>4
<1> QED
  BY <1>5 DEF a, b

\* What the runs of k may come to, for what is granted.
LEMMA CountedNext ==
  ASSUME QueueTypeOK, QueueTypeOK', NEW k \in Keys, Counted(k),
         NEW more \in Nat, NEW less \in Nat,
         IsFiniteSet(Allowed(Copies', k)),
         Cardinality(Allowed(Copies', k)) + less <= Cardinality(Allowed(Copies, k)) + more,
         (runs'[k] + more) + (Cardinality(Begun(k)) + RunsBound(k))
           <= (runs[k] + less) + (Cardinality(Begun(k)') + RunsBound(k)')
  PROVE  Counted(k)'
<1>1. Allowed(Copies, k)' = Allowed(Copies', k)
  BY DEF Allowed
<1>2. /\ Cardinality(Allowed(Copies', k)) \in Nat /\ Cardinality(Allowed(Copies, k)) \in Nat
  BY FS_CardinalityType DEF Counted
<1>3. Cardinality(Begun(k)) \in Nat /\ Cardinality(Begun(k)') \in Nat
  BY BegunFinite, BegunFiniteNext
<1>4. RunsBound(k) \in Nat /\ RunsBound(k)' \in Nat
  BY ZenonT(60), BoundSteps, RetriesAssumption DEF RunsBound, QueueTypeOK
<1>5. runs[k] \in Nat /\ runs'[k] \in Nat
  BY DEF QueueTypeOK
<1>6. runs[k] + Cardinality(Allowed(Copies, k)) <= RunsBound(k) + Cardinality(Begun(k))
  BY DEF Counted
<1>7. runs'[k] + Cardinality(Allowed(Copies', k)) <= RunsBound(k)' + Cardinality(Begun(k)')
  <2> DEFINE r == runs[k]
             r2 == runs'[k]
             a == Cardinality(Allowed(Copies, k))
             a2 == Cardinality(Allowed(Copies', k))
             b == RunsBound(k)
             b2 == RunsBound(k)'
             c == Cardinality(Begun(k))
             c2 == Cardinality(Begun(k)')
  <2>1. /\ r \in Nat /\ r2 \in Nat /\ a \in Nat /\ a2 \in Nat /\ b \in Nat /\ b2 \in Nat
        /\ c \in Nat /\ c2 \in Nat /\ a2 + less <= a + more
        /\ (r2 + more) + (c + b) <= (r + less) + (c2 + b2) /\ r + a <= b + c
    BY <1>2, <1>3, <1>4, <1>5, <1>6
  <2> HIDE DEF r, r2, a, a2, b, b2, c, c2
  <2>2. r2 + a2 <= b2 + c2
    BY <2>1
  <2> QED
    BY <2>2 DEF r2, a2, b2, c2
<1> QED
  BY <1>1, <1>7 DEF Counted

\* What the bound does.
LEMMA BoundNext ==
  ASSUME QueueTypeOK, NEW k \in Keys
  PROVE  /\ RunsBound(k) \in Nat
         /\ pushes'[k] = pushes[k] /\ faults' = faults /\ expiries' = expiries
              => RunsBound(k)' = RunsBound(k)
         /\ pushes'[k] = pushes[k] + 1 /\ faults' = faults /\ expiries' = expiries
              => RunsBound(k)' = RunsBound(k) + MaxRetries
         /\ pushes'[k] = pushes[k] /\ faults' = faults + 1 /\ expiries' = expiries
              => RunsBound(k)' = RunsBound(k) + MaxRetries + expiries
         /\ pushes'[k] = pushes[k] /\ faults' = faults /\ expiries' = expiries + 1
              => RunsBound(k)' = RunsBound(k) + faults
<1>1. /\ MaxRetries \in Nat /\ pushes[k] \in Nat /\ faults \in Nat /\ expiries \in Nat
  BY RetriesAssumption DEF QueueTypeOK
<1>2. /\ RunsBound(k) \in Nat
      /\ MaxRetries * ((pushes[k] + 1) + faults) + faults * expiries = RunsBound(k) + MaxRetries
      /\ MaxRetries * (pushes[k] + (faults + 1)) + (faults + 1) * expiries
           = RunsBound(k) + MaxRetries + expiries
      /\ MaxRetries * (pushes[k] + faults) + faults * (expiries + 1) = RunsBound(k) + faults
  BY <1>1, BoundSteps DEF RunsBound
<1>3. RunsBound(k)' = MaxRetries * (pushes'[k] + faults') + faults' * expiries'
  BY DEF RunsBound
<1>4. RunsBound(k) = MaxRetries * (pushes[k] + faults) + faults * expiries
  BY DEF RunsBound
<1>5. pushes'[k] = pushes[k] /\ faults' = faults /\ expiries' = expiries
        => RunsBound(k)' = RunsBound(k)
  BY <1>3, <1>4
<1>6. pushes'[k] = pushes[k] + 1 /\ faults' = faults /\ expiries' = expiries
        => RunsBound(k)' = RunsBound(k) + MaxRetries
  BY <1>2, <1>3
<1>7. pushes'[k] = pushes[k] /\ faults' = faults + 1 /\ expiries' = expiries
        => RunsBound(k)' = RunsBound(k) + MaxRetries + expiries
  BY <1>2, <1>3
<1>8. pushes'[k] = pushes[k] /\ faults' = faults /\ expiries' = expiries + 1
        => RunsBound(k)' = RunsBound(k) + faults
  BY <1>2, <1>3
<1> QED
  BY <1>2, <1>5, <1>6, <1>7, <1>8

\* The copies at each place, before and after a step.
LEMMA CopiesNow ==
  ASSUME QueueTypeOK
  PROVE  /\ Copies \in [Spots -> Nat]
         /\ \A p \in Payloads :
              /\ <<InQueue, p>> \in Spots /\ Copies[<<InQueue, p>>] = queued[p]
              /\ <<InList, p>> \in Spots /\ Copies[<<InList, p>>] = processing[p]
         /\ \A p \in Payloads, i \in Instances :
              /\ <<InTimers(i), p>> \in Spots /\ Copies[<<InTimers(i), p>>] = timers[i][p]
              /\ <<InCarry(i), p>> \in Spots
              /\ Copies[<<InCarry(i), p>>] = IF carry[i] = p THEN 1 ELSE 0
         /\ \A p \in Payloads, w \in Workers :
              /\ <<InWorker(w), p>> \in Spots
              /\ Copies[<<InWorker(w), p>>]
                   = IF hand[w] = p /\ wpc[w] = "returning" THEN 1 ELSE 0
<1>1. /\ queued \in [Payloads -> Nat] /\ processing \in [Payloads -> Nat]
      /\ timers \in [Instances -> [Payloads -> Nat]]
  BY DEF QueueTypeOK
<1>2. Copies = CopiesOf(queued, processing, timers, carry, hand, wpc)
  BY DEF Copies
<1> QED
  BY <1>1, <1>2, CopiesAt

LEMMA CopiesNext ==
  ASSUME QueueTypeOK'
  PROVE  /\ Copies' \in [Spots -> Nat]
         /\ \A p \in Payloads :
              /\ <<InQueue, p>> \in Spots /\ Copies'[<<InQueue, p>>] = queued'[p]
              /\ <<InList, p>> \in Spots /\ Copies'[<<InList, p>>] = processing'[p]
         /\ \A p \in Payloads, i \in Instances :
              /\ <<InTimers(i), p>> \in Spots /\ Copies'[<<InTimers(i), p>>] = timers'[i][p]
              /\ <<InCarry(i), p>> \in Spots
              /\ Copies'[<<InCarry(i), p>>] = IF carry'[i] = p THEN 1 ELSE 0
         /\ \A p \in Payloads, w \in Workers :
              /\ <<InWorker(w), p>> \in Spots
              /\ Copies'[<<InWorker(w), p>>]
                   = IF hand'[w] = p /\ wpc'[w] = "returning" THEN 1 ELSE 0
<1>1. /\ queued' \in [Payloads -> Nat] /\ processing' \in [Payloads -> Nat]
      /\ timers' \in [Instances -> [Payloads -> Nat]]
  BY DEF QueueTypeOK
<1>2. Copies' = CopiesOf(queued', processing', timers', carry', hand', wpc')
  BY DEF Copies, CopiesOf
<1> QED
  BY <1>1, <1>2, CopiesAt

\* No spot but those of D gets a copy more.
LEMMA CopiesKept ==
  ASSUME QueueTypeOK, QueueTypeOK', NEW D,
         \A p \in Payloads : <<InQueue, p>> \in D \/ queued'[p] <= queued[p],
         \A p \in Payloads : <<InList, p>> \in D \/ processing'[p] <= processing[p],
         \A p \in Payloads, i \in Instances :
           <<InTimers(i), p>> \in D \/ timers'[i][p] <= timers[i][p],
         \A p \in Payloads, i \in Instances :
           <<InCarry(i), p>> \in D \/ (carry'[i] = p => carry[i] = p),
         \A p \in Payloads, w \in Workers :
           \/ <<InWorker(w), p>> \in D
           \/ (hand'[w] = p /\ wpc'[w] = "returning" => hand[w] = p /\ wpc[w] = "returning")
  PROVE  \A z \in Spots : z \in D \/ Copies'[z] <= Copies[z]
<1> TAKE z \in Spots
<1>1. PICK p \in Payloads :
        \/ z = <<InQueue, p>> \/ z = <<InList, p>>
        \/ \E i \in Instances : z = <<InTimers(i), p>> \/ z = <<InCarry(i), p>>
        \/ \E w \in Workers : z = <<InWorker(w), p>>
  BY SpotIs
<1>2. CASE z = <<InQueue, p>> \/ z = <<InList, p>>
  <2>1. /\ Copies[<<InQueue, p>>] = queued[p] /\ Copies'[<<InQueue, p>>] = queued'[p]
        /\ Copies[<<InList, p>>] = processing[p] /\ Copies'[<<InList, p>>] = processing'[p]
    BY CopiesNow, CopiesNext
  <2> QED
    BY <1>2, <2>1
<1>3. ASSUME NEW i \in Instances, z = <<InTimers(i), p>>
      PROVE  z \in D \/ Copies'[z] <= Copies[z]
  <2>1. Copies[z] = timers[i][p] /\ Copies'[z] = timers'[i][p]
    BY <1>3, CopiesNow, CopiesNext
  <2> QED
    BY <1>3, <2>1
<1>4. ASSUME NEW i \in Instances, z = <<InCarry(i), p>>
      PROVE  z \in D \/ Copies'[z] <= Copies[z]
  <2>1. /\ Copies[z] = IF carry[i] = p THEN 1 ELSE 0
        /\ Copies'[z] = IF carry'[i] = p THEN 1 ELSE 0
    BY ZenonT(60), <1>4, CopiesNow, CopiesNext
  <2> QED
    BY <1>4, <2>1
<1>5. ASSUME NEW w \in Workers, z = <<InWorker(w), p>>
      PROVE  z \in D \/ Copies'[z] <= Copies[z]
  <2>1. /\ Copies[z] = IF hand[w] = p /\ wpc[w] = "returning" THEN 1 ELSE 0
        /\ Copies'[z] = IF hand'[w] = p /\ wpc'[w] = "returning" THEN 1 ELSE 0
    BY <1>5, CopiesNow, CopiesNext
  <2> QED
    BY <1>5, <2>1
<1> QED
  BY <1>1, <1>2, <1>3, <1>4, <1>5
-----------------------------------------------------------------------------
\* The steps of the queue, by what they do to the copies.

LEMMA WeightFacts ==
  ASSUME NEW x \in Spots, NEW k
  PROVE  /\ Weight(x, k) \in Nat /\ Weight(x, k) <= MaxRetries
         /\ x[2][1] = k => Weight(x, k) >= 1
BY SpotFacts DEF Weight

LEMMA Needed ==
  ASSUME MaxRetries \in Nat \ {0}
  PROVE  MaxRetries \in Nat /\ MaxRetries >= 1
OBVIOUS

\* The step begins and ends no run of k.
Quiet(k) ==
  /\ Begun(k)' = Begun(k) /\ runs'[k] = runs[k] /\ pushes'[k] = pushes[k]
  /\ \/ faults' = faults /\ expiries' \in {expiries, expiries + 1}
     \/ faults' = faults + 1 /\ expiries' = expiries

LEMMA QuietGrows ==
  ASSUME QueueTypeOK, NEW k \in Keys, Quiet(k)
  PROVE  (runs'[k] + 0) + (Cardinality(Begun(k)) + RunsBound(k))
           <= (runs[k] + 0) + (Cardinality(Begun(k)') + RunsBound(k)')
<1>1. /\ RunsBound(k) \in Nat /\ MaxRetries \in Nat /\ faults \in Nat /\ expiries \in Nat
      /\ runs[k] \in Nat
  BY BoundNext, RetriesAssumption DEF QueueTypeOK
<1>2. RunsBound(k)' \in {RunsBound(k), RunsBound(k) + faults, RunsBound(k) + MaxRetries + expiries}
  BY BoundNext DEF Quiet
<1>3. Cardinality(Begun(k)') = Cardinality(Begun(k)) /\ Cardinality(Begun(k)) \in Nat
  BY BegunFinite DEF Quiet
<1>4. RunsBound(k) <= RunsBound(k)' /\ RunsBound(k)' \in Nat
  BY <1>1, <1>2
<1>5. runs'[k] = runs[k]
  BY DEF Quiet
<1> QED
  BY <1>1, <1>3, <1>4, <1>5

LEMMA StillCounted ==
  ASSUME QueueTypeOK, QueueTypeOK', NEW k \in Keys, Counted(k), Quiet(k),
         \A z \in Spots : Copies'[z] <= Copies[z]
  PROVE  Counted(k)'
<1>1. /\ IsFiniteSet(Allowed(Copies', k))
      /\ Cardinality(Allowed(Copies', k)) <= Cardinality(Allowed(Copies, k))
  BY CopiesNow, CopiesNext, NoMore DEF Counted
<1>2. Cardinality(Allowed(Copies', k)) \in Nat /\ Cardinality(Allowed(Copies, k)) \in Nat
  BY <1>1, FS_CardinalityType DEF Counted
<1>3. Cardinality(Allowed(Copies', k)) + 0 <= Cardinality(Allowed(Copies, k)) + 0
  BY <1>1, <1>2
<1> QED
  BY <1>1, <1>3, QuietGrows, CountedNext

LEMMA MoveCounted ==
  ASSUME QueueTypeOK, QueueTypeOK', NEW k \in Keys, Counted(k), Quiet(k),
         NEW x \in Spots, NEW y \in Spots, x # y, x[2] = y[2],
         Copies'[x] < Copies[x], Copies'[y] <= Copies[y] + 1,
         \A z \in Spots : z \in {x, y} \/ Copies'[z] <= Copies[z]
  PROVE  Counted(k)'
<1>1. /\ IsFiniteSet(Allowed(Copies', k))
      /\ Cardinality(Allowed(Copies', k)) + Weight(x, k)
           <= Cardinality(Allowed(Copies, k)) + Weight(y, k)
  BY CopiesNow, CopiesNext, OneTurns DEF Counted
<1>2. Cardinality(Allowed(Copies', k)) \in Nat /\ Cardinality(Allowed(Copies, k)) \in Nat
  BY <1>1, FS_CardinalityType DEF Counted
<1>3. Weight(x, k) = Weight(y, k) /\ Weight(x, k) \in Nat
  BY WeightFacts DEF Weight
<1>4. Cardinality(Allowed(Copies', k)) + 0 <= Cardinality(Allowed(Copies, k)) + 0
  BY <1>1, <1>2, <1>3
<1> QED
  BY <1>1, <1>4, QuietGrows, CountedNext

\* A worker's own entry of the processing list is there for it to remove.
LEMMA AckTakesOne ==
  ASSUME QueueTypeOK, Backed, NEW w \in Workers, wpc[w] \in Unacked, Ack(w)
  PROVE  /\ hand[w] \in Payloads /\ processing[hand[w]] \in Nat
         /\ processing'[hand[w]] = processing[hand[w]] - 1
         /\ \A p \in Payloads : processing'[p] <= processing[p]
<1>1. wpc[w] # "idle" /\ hand[w] \in Payloads
  BY HandPayload DEF Unacked
<1>2. w \in Unfinished(hand[w])
  BY DEF Unfinished
<1>3. Cardinality(Unfinished(hand[w])) # 0
  BY <1>2, UnfinishedFinite, FS_EmptySet
<1>4. processing[hand[w]] \in Nat /\ processing[hand[w]] >= Cardinality(Unfinished(hand[w]))
  BY <1>1 DEF QueueTypeOK, Backed
<1>5. processing[hand[w]] > 0
  BY <1>3, <1>4, UnfinishedFinite
<1>6. \A p \in Payloads :
        processing[p] \in Nat
        /\ processing'[p] = IF p = hand[w] THEN processing[p] - 1 ELSE processing[p]
  BY <1>1, <1>5 DEF QueueTypeOK, Ack
<1> QED
  BY <1>1, <1>6

\* Steps that leave every copy where it is, or lose one, and no run's count.
LEMMA StillSteps ==
  ASSUME QueueTypeOK, QueueTypeOK', NEW k \in Keys, Counted(k),
         UNCHANGED <<queued, processing, carry>>,
         \A i \in Instances, p \in Payloads : timers'[i][p] <= timers[i][p],
         \A w \in Workers : wpc'[w] = "returning" => wpc[w] = "returning" /\ hand'[w] = hand[w],
         Quiet(k)
  PROVE  Counted(k)'
<1>1. \A p \in Payloads : queued[p] \in Nat /\ processing[p] \in Nat
  BY DEF QueueTypeOK
<1>2. \A p \in Payloads : queued'[p] <= queued[p] /\ processing'[p] <= processing[p]
  BY <1>1
<1>3. \A p \in Payloads, i \in Instances : carry'[i] = p => carry[i] = p
  OBVIOUS
<1>4. \A p \in Payloads, w \in Workers :
        hand'[w] = p /\ wpc'[w] = "returning" => hand[w] = p /\ wpc[w] = "returning"
  OBVIOUS
<1> DEFINE D == {}
<1>5. \A z \in Spots : z \in D \/ Copies'[z] <= Copies[z]
  <2> HIDE DEF D
  <2> QED
    BY <1>2, <1>3, <1>4, CopiesKept
<1> QED
  BY <1>5, StillCounted

LEMMA EnqueueCounted ==
  ASSUME QueueTypeOK, QueueTypeOK', NEW k \in Keys, Counted(k),
         NEW r \in Requests, RequestStep(r) \/ PushFails(r)
  PROVE  Counted(k)'
<1> USE DEF lists, counts, history, row, feed, procs, work
<1>1. CASE ClaimEnqueue(r) \/ RecordPending(r) \/ PushFails(r)
  <2>1. UNCHANGED <<queued, processing, timers, carry, wpc, hand, runs, pushes>>
    BY <1>1 DEF ClaimEnqueue, RecordPending, PushFails
  <2>2. expiries' = expiries /\ faults' \in {faults, faults + 1}
    BY <1>1 DEF ClaimEnqueue, RecordPending, PushFails
  <2>3. Quiet(k)
    BY <2>1, <2>2 DEF Quiet, Begun
  <2>4. \A i \in Instances, p \in Payloads : timers[i][p] \in Nat
    BY DEF QueueTypeOK
  <2> QED
    BY <2>1, <2>3, <2>4, StillSteps
<1>2. CASE Push(r)
  <2> DEFINE job == <<Sale[r], 0>>
             y == <<InQueue, job>>
  <2>1. job \in Payloads /\ Sale[r] \in Keys
    BY SaleAssumption, RetriesAssumption DEF Payloads, Attempts
  <2>2. /\ UNCHANGED <<processing, timers, carry, wpc, hand, runs, faults, expiries>>
        /\ queued' = [queued EXCEPT ![job] = @ + 1]
        /\ pushes' = [pushes EXCEPT ![Sale[r]] = @ + 1]
    BY <1>2 DEF Push
  <2>3. y[2] = job /\ job[1] = Sale[r] /\ job[2] = 0
    OBVIOUS
  <2> HIDE DEF job
  <2>4. \A p \in Payloads :
          /\ queued[p] \in Nat /\ processing[p] \in Nat
          /\ queued'[p] = IF p = job THEN queued[p] + 1 ELSE queued[p]
    BY <2>2 DEF QueueTypeOK
  <2>5. \A i \in Instances, p \in Payloads : timers[i][p] \in Nat
    BY DEF QueueTypeOK
  <2> DEFINE D == {y}
  <2>6. \A p \in Payloads : <<InQueue, p>> \in D \/ queued'[p] <= queued[p]
    BY <2>4
  <2>7. \A z \in Spots : z \in D \/ Copies'[z] <= Copies[z]
    <3>1. /\ \A p \in Payloads : processing'[p] <= processing[p]
          /\ \A p \in Payloads, i \in Instances : timers'[i][p] <= timers[i][p]
      BY <2>2, <2>4, <2>5
    <3>2. \A p \in Payloads, i \in Instances : carry'[i] = p => carry[i] = p
      BY <2>2
    <3>3. \A p \in Payloads, w \in Workers :
            hand'[w] = p /\ wpc'[w] = "returning" => hand[w] = p /\ wpc[w] = "returning"
      BY <2>2
    <3> HIDE DEF D
    <3> QED
      BY <2>6, <3>1, <3>2, <3>3, CopiesKept
  <2>8. y \in Spots /\ Copies'[y] = queued'[job] /\ Copies[y] = queued[job]
    BY <2>1, CopiesNow, CopiesNext
  <2>9. Copies'[y] <= Copies[y] + 1
    BY <2>1, <2>4, <2>8
  <2> HIDE DEF y
  <2>10. /\ IsFiniteSet(Allowed(Copies', k))
         /\ Cardinality(Allowed(Copies', k)) <= Cardinality(Allowed(Copies, k)) + Weight(y, k)
    BY <2>7, <2>8, <2>9, CopiesNow, CopiesNext, OneMore DEF Counted
  <2>11. /\ Cardinality(Allowed(Copies', k)) \in Nat /\ Cardinality(Allowed(Copies, k)) \in Nat
    BY <2>10, FS_CardinalityType DEF Counted
  <2>12. Weight(y, k) \in Nat /\ Weight(y, k) <= MaxRetries /\ MaxRetries \in Nat
    BY <2>8, WeightFacts, RetriesAssumption
  <2>13. Cardinality(Allowed(Copies', k)) + 0 <= Cardinality(Allowed(Copies, k)) + Weight(y, k)
    BY <2>10, <2>11, <2>12
  <2>14. Begun(k)' = Begun(k)
    BY <2>2 DEF Begun
  <2>15. Cardinality(Begun(k)') = Cardinality(Begun(k)) /\ Cardinality(Begun(k)) \in Nat
    BY <2>14, BegunFinite
  <2>16. RunsBound(k) \in Nat /\ RunsBound(k) + Weight(y, k) <= RunsBound(k)' /\ RunsBound(k)' \in Nat
    <3>1. RunsBound(k) \in Nat
      BY BoundNext
    <3>2. CASE k = Sale[r]
      <4>1. pushes'[k] = pushes[k] + 1
        BY <2>2, <3>2 DEF QueueTypeOK
      <4>2. RunsBound(k)' = RunsBound(k) + MaxRetries
        BY <2>2, <4>1, BoundNext
      <4> QED
        BY <2>12, <3>1, <4>2
    <3>3. CASE k # Sale[r]
      <4>1. pushes'[k] = pushes[k]
        BY <2>2, <3>3 DEF QueueTypeOK
      <4>2. RunsBound(k)' = RunsBound(k)
        BY <2>2, <4>1, BoundNext
      <4>3. Weight(y, k) = 0
        BY <2>3, <3>3 DEF Weight
      <4> QED
        BY <3>1, <4>2, <4>3
    <3> QED
      BY <3>2, <3>3
  <2>17. runs'[k] = runs[k] /\ runs[k] \in Nat
    BY <2>2 DEF QueueTypeOK
  <2>18. (runs'[k] + Weight(y, k)) + (Cardinality(Begun(k)) + RunsBound(k))
           <= (runs[k] + 0) + (Cardinality(Begun(k)') + RunsBound(k)')
    BY <2>12, <2>15, <2>16, <2>17
  <2> QED
    BY <2>10, <2>12, <2>13, <2>18, CountedNext
<1> QED
  BY <1>1, <1>2 DEF RequestStep
-----------------------------------------------------------------------------
LEMMA CommandCounted ==
  ASSUME QueueTypeOK, QueueTypeOK', NEW k \in Keys, Counted(k), NEW i \in Instances,
         \/ Start(i) \/ RecoverEnds(i) \/ RecoverPush(i)
         \/ \E p \in Payloads : RecoverPop(i, p) \/ TimerFires(i, p) \/ TimerLost(i, p)
  PROVE  Counted(k)'
<1> USE DEF lists, counts, history, row, feed, procs, work
<1>0. /\ \A p \in Payloads : queued[p] \in Nat /\ processing[p] \in Nat
      /\ \A j \in Instances, p \in Payloads : timers[j][p] \in Nat
  BY DEF QueueTypeOK
<1>1. CASE Start(i) \/ RecoverEnds(i)
  <2>1. UNCHANGED <<queued, processing, timers, carry, wpc, hand, runs, pushes, faults, expiries>>
    BY <1>1 DEF Start, RecoverEnds
  <2>2. Quiet(k)
    BY <2>1 DEF Quiet, Begun
  <2> QED
    BY <1>0, <2>1, <2>2, StillSteps
<1>2. ASSUME NEW p \in Payloads, TimerLost(i, p) PROVE Counted(k)'
  <2>1. /\ UNCHANGED <<queued, processing, carry, wpc, hand, runs, pushes, expiries>>
        /\ faults' = faults + 1 /\ timers' = [timers EXCEPT ![i][p] = @ - 1]
    BY <1>2 DEF TimerLost
  <2>2. Quiet(k)
    BY <2>1 DEF Quiet, Begun
  <2>3. \A j \in Instances, q \in Payloads :
          timers'[j][q] = IF j = i /\ q = p THEN timers[j][q] - 1 ELSE timers[j][q]
    BY <2>1 DEF QueueTypeOK
  <2>4. \A j \in Instances, q \in Payloads : timers'[j][q] <= timers[j][q]
    BY <1>0, <2>3
  <2> QED
    BY <2>1, <2>2, <2>4, StillSteps
<1>3. ASSUME NEW p \in Payloads, TimerFires(i, p) PROVE Counted(k)'
  <2>1. /\ UNCHANGED <<processing, carry, wpc, hand, runs, pushes, faults, expiries>>
        /\ timers[i][p] > 0 /\ timers' = [timers EXCEPT ![i][p] = @ - 1]
        /\ queued' = [queued EXCEPT ![p] = @ + 1]
    BY <1>3 DEF TimerFires
  <2>2. Quiet(k)
    BY <2>1 DEF Quiet, Begun
  <2>3. /\ \A j \in Instances, q \in Payloads :
             timers'[j][q] = IF j = i /\ q = p THEN timers[j][q] - 1 ELSE timers[j][q]
        /\ \A q \in Payloads : queued'[q] = IF q = p THEN queued[q] + 1 ELSE queued[q]
    BY <2>1 DEF QueueTypeOK
  <2> DEFINE x == <<InTimers(i), p>>
             y == <<InQueue, p>>
             D == {x, y}
  <2>4. x \in Spots /\ y \in Spots /\ x # y /\ x[2] = y[2]
    BY CopiesNow DEF InTimers, InQueue
  <2>5. Copies'[x] < Copies[x] /\ Copies'[y] <= Copies[y] + 1
    <3>1. /\ Copies[x] = timers[i][p] /\ Copies'[x] = timers'[i][p]
          /\ Copies[y] = queued[p] /\ Copies'[y] = queued'[p]
      BY CopiesNow, CopiesNext
    <3> QED
      BY <1>0, <2>1, <2>3, <3>1
  <2>6. \A q \in Payloads : <<InQueue, q>> \in D \/ queued'[q] <= queued[q]
    BY <1>0, <2>3
  <2>7. \A q \in Payloads, j \in Instances : <<InTimers(j), q>> \in D \/ timers'[j][q] <= timers[j][q]
    BY <1>0, <2>3
  <2>8. \A z \in Spots : z \in D \/ Copies'[z] <= Copies[z]
    <3>1. \A q \in Payloads : processing'[q] <= processing[q]
      BY <1>0, <2>1
    <3> HIDE DEF D
    <3> QED
      BY <2>1, <2>6, <2>7, <3>1, CopiesKept
  <2> HIDE DEF x, y
  <2> QED
    BY <2>2, <2>4, <2>5, <2>8, MoveCounted
<1>4. ASSUME NEW p \in Payloads, RecoverPop(i, p) PROVE Counted(k)'
  <2>1. /\ UNCHANGED <<queued, timers, wpc, hand, runs, pushes, faults, expiries>>
        /\ processing[p] > 0 /\ processing' = [processing EXCEPT ![p] = @ - 1]
        /\ carry[i] = None /\ carry' = [carry EXCEPT ![i] = p]
    BY <1>4 DEF RecoverPop
  <2>2. Quiet(k)
    BY <2>1 DEF Quiet, Begun
  <2>3. /\ \A q \in Payloads : processing'[q] = IF q = p THEN processing[q] - 1 ELSE processing[q]
        /\ carry'[i] = p /\ \A j \in Instances \ {i} : carry'[j] = carry[j]
    BY <2>1 DEF QueueTypeOK
  <2> DEFINE x == <<InList, p>>
             y == <<InCarry(i), p>>
             D == {x, y}
  <2>4. x \in Spots /\ y \in Spots /\ x # y /\ x[2] = y[2]
    BY CopiesNow DEF InCarry, InList
  <2>5. Copies'[x] < Copies[x] /\ Copies'[y] <= Copies[y] + 1
    <3>1. Copies[x] = processing[p] /\ Copies'[x] = processing'[p]
      BY CopiesNow, CopiesNext
    <3>2. Copies[y] = IF carry[i] = p THEN 1 ELSE 0
      BY CopiesNow
    <3>3. Copies'[y] = IF carry'[i] = p THEN 1 ELSE 0
      BY CopiesNext
    <3> QED
      BY <1>0, <2>1, <2>3, <3>1, <3>2, <3>3
  <2>6. \A q \in Payloads : <<InList, q>> \in D \/ processing'[q] <= processing[q]
    BY <1>0, <2>3
  <2>7. \A q \in Payloads, j \in Instances : <<InCarry(j), q>> \in D \/ (carry'[j] = q => carry[j] = q)
    BY <2>3
  <2>8. \A z \in Spots : z \in D \/ Copies'[z] <= Copies[z]
    <3>1. /\ \A q \in Payloads : queued'[q] <= queued[q]
          /\ \A q \in Payloads, j \in Instances : timers'[j][q] <= timers[j][q]
      BY <1>0, <2>1
    <3> HIDE DEF D
    <3> QED
      BY <2>1, <2>6, <2>7, <3>1, CopiesKept
  <2> HIDE DEF x, y
  <2> QED
    BY <2>2, <2>4, <2>5, <2>8, MoveCounted
<1>5. CASE RecoverPush(i)
  <2>0. PICK p \in Payloads : carry[i] = p
    BY <1>5 DEF QueueTypeOK, RecoverPush
  <2>1. /\ UNCHANGED <<processing, timers, wpc, hand, runs, pushes, faults, expiries>>
        /\ queued' = [queued EXCEPT ![p] = @ + 1] /\ carry' = [carry EXCEPT ![i] = None]
    BY <1>5, <2>0 DEF RecoverPush
  <2>2. Quiet(k)
    BY <2>1 DEF Quiet, Begun
  <2>3. /\ \A q \in Payloads : queued'[q] = IF q = p THEN queued[q] + 1 ELSE queued[q]
        /\ carry'[i] = None /\ \A j \in Instances \ {i} : carry'[j] = carry[j]
    BY <2>1 DEF QueueTypeOK
  <2> DEFINE x == <<InCarry(i), p>>
             y == <<InQueue, p>>
             D == {x, y}
  <2>4. x \in Spots /\ y \in Spots /\ x # y /\ x[2] = y[2]
    BY CopiesNow DEF InCarry, InQueue
  <2>5. Copies'[x] < Copies[x] /\ Copies'[y] <= Copies[y] + 1
    <3>1. Copies[y] = queued[p] /\ Copies'[y] = queued'[p]
      BY CopiesNow, CopiesNext
    <3>2. Copies[x] = IF carry[i] = p THEN 1 ELSE 0
      BY CopiesNow
    <3>3. Copies'[x] = IF carry'[i] = p THEN 1 ELSE 0
      BY CopiesNext
    <3> QED
      BY <1>0, <2>0, <2>3, <3>1, <3>2, <3>3, NoneIsNoPayload
  <2>6. \A q \in Payloads : <<InQueue, q>> \in D \/ queued'[q] <= queued[q]
    BY <1>0, <2>3
  <2>7. \A q \in Payloads, j \in Instances : <<InCarry(j), q>> \in D \/ (carry'[j] = q => carry[j] = q)
    BY <2>3, NoneIsNoPayload
  <2>8. \A z \in Spots : z \in D \/ Copies'[z] <= Copies[z]
    <3>1. /\ \A q \in Payloads : processing'[q] <= processing[q]
          /\ \A q \in Payloads, j \in Instances : timers'[j][q] <= timers[j][q]
      BY <1>0, <2>1
    <3> HIDE DEF D
    <3> QED
      BY <2>1, <2>6, <2>7, <3>1, CopiesKept
  <2> HIDE DEF x, y
  <2> QED
    BY <2>2, <2>4, <2>5, <2>8, MoveCounted
<1> QED
  BY <1>1, <1>2, <1>3, <1>4, <1>5

LEMMA HandlingCounted ==
  ASSUME QueueTypeOK, QueueTypeOK', Backed, NEW k \in Keys, Counted(k), NEW w \in Workers,
         \/ LockHeld(w) \/ LockFails(w) \/ Return(w) \/ \E p \in Payloads : Take(w, p)
  PROVE  Counted(k)'
<1> USE DEF lists, counts, history, row, feed, procs, work
<1>0. /\ \A p \in Payloads : queued[p] \in Nat /\ processing[p] \in Nat
      /\ \A j \in Instances, p \in Payloads : timers[j][p] \in Nat
  BY DEF QueueTypeOK
<1>1. ASSUME NEW p \in Payloads, Take(w, p) PROVE Counted(k)'
  <2>1. /\ UNCHANGED <<timers, carry, runs, pushes, faults, expiries>>
        /\ queued[p] > 0 /\ queued' = [queued EXCEPT ![p] = @ - 1]
        /\ processing' = [processing EXCEPT ![p] = @ + 1]
        /\ wpc[w] = "idle" /\ wpc' = [wpc EXCEPT ![w] = "taken"]
        /\ hand' = [hand EXCEPT ![w] = p]
    BY <1>1 DEF Take
  <2>2. Quiet(k)
    BY <2>1 DEF Quiet, Begun, QueueTypeOK
  <2>3. \A q \in Payloads :
          /\ queued'[q] = IF q = p THEN queued[q] - 1 ELSE queued[q]
          /\ processing'[q] = IF q = p THEN processing[q] + 1 ELSE processing[q]
    BY <2>1 DEF QueueTypeOK
  <2> DEFINE x == <<InQueue, p>>
             y == <<InList, p>>
             D == {x, y}
  <2>4. x \in Spots /\ y \in Spots /\ x # y /\ x[2] = y[2]
    BY CopiesNow DEF InList, InQueue
  <2>5. Copies'[x] < Copies[x] /\ Copies'[y] <= Copies[y] + 1
    <3>1. /\ Copies[x] = queued[p] /\ Copies'[x] = queued'[p]
          /\ Copies[y] = processing[p] /\ Copies'[y] = processing'[p]
      BY CopiesNow, CopiesNext
    <3> QED
      BY <1>0, <2>1, <2>3, <3>1
  <2>6. /\ \A q \in Payloads : <<InQueue, q>> \in D \/ queued'[q] <= queued[q]
        /\ \A q \in Payloads : <<InList, q>> \in D \/ processing'[q] <= processing[q]
    BY <1>0, <2>3
  <2>7. \A q \in Payloads, v \in Workers :
          hand'[v] = q /\ wpc'[v] = "returning" => hand[v] = q /\ wpc[v] = "returning"
    BY <2>1 DEF QueueTypeOK
  <2>8. \A z \in Spots : z \in D \/ Copies'[z] <= Copies[z]
    <3>1. \A q \in Payloads, j \in Instances : timers'[j][q] <= timers[j][q]
      BY <1>0, <2>1
    <3> HIDE DEF D
    <3> QED
      BY <2>1, <2>6, <2>7, <3>1, CopiesKept
  <2> HIDE DEF x, y
  <2> QED
    BY <2>2, <2>4, <2>5, <2>8, MoveCounted
<1>2. CASE LockHeld(w) \/ LockFails(w)
  <2>1. /\ UNCHANGED <<queued, timers, carry, hand, runs, pushes, expiries>>
        /\ wpc[w] = "taken" /\ wpc' = [wpc EXCEPT ![w] = "returning"]
        /\ \/ Ack(w) /\ faults' \in {faults, faults + 1}
           \/ UNCHANGED processing /\ faults' = faults + 1
    <3>1. CASE LockHeld(w)
      BY <3>1 DEF LockHeld
    <3>2. CASE LockFails(w)
      BY <3>2 DEF LockFails
    <3> QED
      BY <1>2, <3>1, <3>2
  <2>2. Quiet(k)
    <3>1. Begun(k)' = Begun(k)
      BY <2>1 DEF Begun, QueueTypeOK, Unacked
    <3> QED
      BY <2>1, <3>1 DEF Quiet
  <2>3. PICK p \in Payloads : hand[w] = p
    BY <2>1, HandPayload
  <2> DEFINE x == <<InList, p>>
             y == <<InWorker(w), p>>
  <2>4. x \in Spots /\ y \in Spots /\ x # y /\ x[2] = y[2]
    BY CopiesNow DEF InList, InWorker
  <2>5. /\ Copies[x] = processing[p] /\ Copies'[x] = processing'[p]
        /\ Copies[y] = 0 /\ Copies'[y] = 1
    <3>1. Copies[y] = IF hand[w] = p /\ wpc[w] = "returning" THEN 1 ELSE 0
      BY CopiesNow
    <3>4. Copies'[y] = IF hand'[w] = p /\ wpc'[w] = "returning" THEN 1 ELSE 0
      BY CopiesNext
    <3>2. wpc'[w] = "returning" /\ hand'[w] = p /\ wpc[w] # "returning"
      BY <2>1, <2>3 DEF QueueTypeOK
    <3>3. Copies[x] = processing[p] /\ Copies'[x] = processing'[p]
      BY CopiesNow, CopiesNext
    <3> QED
      BY <3>1, <3>2, <3>3, <3>4
  <2>6. /\ \A q \in Payloads : queued'[q] <= queued[q]
        /\ \A q \in Payloads, j \in Instances : timers'[j][q] <= timers[j][q]
    BY <1>0, <2>1
  <2>7. \A q \in Payloads, v \in Workers :
          \/ <<InWorker(v), q>> = y
          \/ (hand'[v] = q /\ wpc'[v] = "returning" => hand[v] = q /\ wpc[v] = "returning")
    BY <2>1, <2>3 DEF QueueTypeOK
  <2>8. CASE Ack(w)
    <3> DEFINE D == {x, y}
    <3>1. processing'[p] < processing[p] /\ \A q \in Payloads : processing'[q] <= processing[q]
      BY <1>0, <2>1, <2>3, <2>8, AckTakesOne DEF Unacked
    <3>2. \A q \in Payloads, v \in Workers :
            \/ <<InWorker(v), q>> \in D
            \/ (hand'[v] = q /\ wpc'[v] = "returning" => hand[v] = q /\ wpc[v] = "returning")
      BY <2>7
    <3>3. \A z \in Spots : z \in D \/ Copies'[z] <= Copies[z]
      <4> HIDE DEF D
      <4> QED
        BY <2>1, <2>6, <3>1, <3>2, CopiesKept
    <3>4. Copies'[x] < Copies[x] /\ Copies'[y] <= Copies[y] + 1
      BY <2>5, <3>1
    <3> HIDE DEF x, y
    <3> QED
      BY <2>2, <2>4, <3>3, <3>4, MoveCounted
  <2>9. CASE UNCHANGED processing /\ faults' = faults + 1
    <3> DEFINE D == {y}
    <3>1. \A q \in Payloads : processing'[q] <= processing[q]
      BY <1>0, <2>9
    <3>2. \A q \in Payloads, v \in Workers :
            \/ <<InWorker(v), q>> \in D
            \/ (hand'[v] = q /\ wpc'[v] = "returning" => hand[v] = q /\ wpc[v] = "returning")
      BY <2>7
    <3>3. \A z \in Spots : z \in D \/ Copies'[z] <= Copies[z]
      <4> HIDE DEF D
      <4> QED
        BY <2>1, <2>6, <3>1, <3>2, CopiesKept
    <3>4. Copies'[y] <= Copies[y] + 1
      BY <2>5
    <3> HIDE DEF x, y
    <3>5. /\ IsFiniteSet(Allowed(Copies', k))
          /\ Cardinality(Allowed(Copies', k)) <= Cardinality(Allowed(Copies, k)) + Weight(y, k)
      BY <2>4, <3>3, <3>4, CopiesNow, CopiesNext, OneMore DEF Counted
    <3>6. /\ Cardinality(Allowed(Copies', k)) \in Nat /\ Cardinality(Allowed(Copies, k)) \in Nat
      BY <3>5, FS_CardinalityType DEF Counted
    <3>7. /\ Weight(y, k) \in Nat /\ Weight(y, k) <= MaxRetries /\ MaxRetries \in Nat
          /\ expiries \in Nat /\ runs[k] \in Nat
      BY <2>4, WeightFacts, RetriesAssumption DEF QueueTypeOK
    <3>8. Cardinality(Allowed(Copies', k)) + 0 <= Cardinality(Allowed(Copies, k)) + Weight(y, k)
      BY <3>5, <3>6, <3>7
    <3>9. RunsBound(k) \in Nat /\ RunsBound(k)' = RunsBound(k) + MaxRetries + expiries
      BY <2>1, <2>9, BoundNext
    <3>10. runs'[k] = runs[k] /\ Cardinality(Begun(k)') = Cardinality(Begun(k))
           /\ Cardinality(Begun(k)) \in Nat
      BY <2>1, <2>2, BegunFinite DEF Quiet
    <3>11. (runs'[k] + Weight(y, k)) + (Cardinality(Begun(k)) + RunsBound(k))
             <= (runs[k] + 0) + (Cardinality(Begun(k)') + RunsBound(k)')
      BY <3>7, <3>9, <3>10
    <3> QED
      BY <3>5, <3>7, <3>8, <3>11, CountedNext
  <2> QED
    BY <2>1, <2>8, <2>9
<1>3. CASE Return(w)
  <2>0. wpc[w] = "returning" /\ hand[w] \in Payloads
    BY <1>3, HandPayload DEF Return
  <2>1. PICK p \in Payloads : hand[w] = p
    BY <2>0
  <2>2. /\ UNCHANGED <<processing, timers, carry, runs, pushes, faults, expiries>>
        /\ queued' = [queued EXCEPT ![p] = @ + 1]
        /\ wpc' = [wpc EXCEPT ![w] = "idle"] /\ hand' = [hand EXCEPT ![w] = None]
    BY <1>3, <2>1 DEF Return
  <2>3. Quiet(k)
    <3>1. Begun(k)' = Begun(k)
      BY <2>0, <2>2 DEF Begun, QueueTypeOK, Unacked
    <3> QED
      BY <2>2, <3>1 DEF Quiet
  <2>4. /\ \A q \in Payloads : queued'[q] = IF q = p THEN queued[q] + 1 ELSE queued[q]
        /\ wpc'[w] = "idle"
        /\ \A v \in Workers \ {w} : wpc'[v] = wpc[v] /\ hand'[v] = hand[v]
    BY <2>2 DEF QueueTypeOK
  <2> DEFINE x == <<InWorker(w), p>>
             y == <<InQueue, p>>
             D == {x, y}
  <2>5. x \in Spots /\ y \in Spots /\ x # y /\ x[2] = y[2]
    BY CopiesNow DEF InWorker, InQueue
  <2>6. Copies'[x] < Copies[x] /\ Copies'[y] <= Copies[y] + 1
    <3>1. Copies[y] = queued[p] /\ Copies'[y] = queued'[p]
      BY CopiesNow, CopiesNext
    <3>2. Copies[x] = IF hand[w] = p /\ wpc[w] = "returning" THEN 1 ELSE 0
      BY CopiesNow
    <3>3. Copies'[x] = IF hand'[w] = p /\ wpc'[w] = "returning" THEN 1 ELSE 0
      BY CopiesNext
    <3> QED
      BY <1>0, <2>0, <2>1, <2>4, <3>1, <3>2, <3>3
  <2>7. /\ \A q \in Payloads : <<InQueue, q>> \in D \/ queued'[q] <= queued[q]
        /\ \A q \in Payloads, v \in Workers :
             hand'[v] = q /\ wpc'[v] = "returning" => hand[v] = q /\ wpc[v] = "returning"
    BY <1>0, <2>4
  <2>8. \A z \in Spots : z \in D \/ Copies'[z] <= Copies[z]
    <3>1. /\ \A q \in Payloads : processing'[q] <= processing[q]
          /\ \A q \in Payloads, j \in Instances : timers'[j][q] <= timers[j][q]
      BY <1>0, <2>2
    <3> HIDE DEF D
    <3> QED
      BY <2>2, <2>7, <3>1, CopiesKept
  <2> HIDE DEF x, y
  <2> QED
    BY <2>3, <2>5, <2>6, <2>8, MoveCounted
<1> QED
  BY <1>1, <1>2, <1>3
-----------------------------------------------------------------------------
\* A run begins, or the copy it was made from is acknowledged.
LEMMA BegunJoins ==
  ASSUME NEW k, NEW w, w \notin Begun(k), Begun(k)' = Begun(k) \cup {w}
  PROVE  Cardinality(Begun(k)') = Cardinality(Begun(k)) + 1
BY BegunFinite, FS_AddElement

LEMMA BegunLeaves ==
  ASSUME QueueTypeOK, NEW w \in Workers, wpc[w] \in Unacked \ {"taken", "locked"},
         wpc' = [wpc EXCEPT ![w] = "unlocking"], hand' = hand, NEW k
  PROVE  Cardinality(Begun(k)) =
           Cardinality(Begun(k)') + (IF k = hand[w][1] THEN 1 ELSE 0)
<1>0. wpc[w] # "idle" /\ hand[w] # None
  BY HandPayload DEF Unacked
<1>1. Begun(k)' = Begun(k) \ {w}
  BY DEF QueueTypeOK, Begun, Unacked
<1>2. CASE k = hand[w][1]
  <2>1. w \in Begun(k)
    BY <1>0, <1>2 DEF Begun
  <2>2. Cardinality(Begun(k) \ {w}) = Cardinality(Begun(k)) - 1
    BY <2>1, BegunFinite, FS_RemoveElement
  <2> QED
    BY <1>1, <1>2, <2>2, BegunFinite
<1>3. CASE k # hand[w][1]
  <2>1. Begun(k)' = Begun(k)
    BY <1>1, <1>3 DEF Begun
  <2> QED
    BY <1>3, <2>1, BegunFinite
<1> QED
  BY <1>2, <1>3

LEMMA OtherCounted ==
  ASSUME QueueTypeOK, QueueTypeOK', NEW k \in Keys, Counted(k), NEW w \in Workers,
         \/ Lock(w) \/ SendEnds(w) \/ SendFails(w) \/ Judge(w) \/ Bury(w)
         \/ Unlock(w) \/ ReturnFails(w)
  PROVE  Counted(k)'
<1> USE DEF lists, counts, history, row, feed, procs, work
<1>1. /\ UNCHANGED <<queued, processing, timers, carry, runs, pushes, expiries>>
      /\ faults' \in {faults, faults + 1}
  BY DEF Lock, SendEnds, SendFails, Judge, Bury, Unlock, ReturnFails
<1>2. \A i \in Instances, p \in Payloads : timers'[i][p] <= timers[i][p]
  BY <1>1 DEF QueueTypeOK
<1>3. CASE Unlock(w) \/ ReturnFails(w)
  <2>1. /\ wpc[w] \in {"unlocking", "returning"} /\ wpc' = [wpc EXCEPT ![w] = "idle"]
        /\ hand' = [hand EXCEPT ![w] = None]
    BY <1>3 DEF Unlock, ReturnFails
  <2>2. Begun(k)' = Begun(k)
    BY <2>1 DEF QueueTypeOK, Begun, Unacked
  <2>3. \A v \in Workers : wpc'[v] = "returning" => wpc[v] = "returning" /\ hand'[v] = hand[v]
    BY <2>1 DEF QueueTypeOK
  <2>4. Quiet(k)
    BY <1>1, <2>2 DEF Quiet
  <2> QED
    BY <1>1, <1>2, <2>3, <2>4, StillSteps
<1>4. CASE Lock(w) \/ SendEnds(w) \/ SendFails(w) \/ Judge(w) \/ Bury(w)
  <2>1. /\ UNCHANGED hand /\ \A v \in Workers \ {w} : wpc'[v] = wpc[v]
        /\ \/ wpc[w] = "taken" /\ wpc'[w] = "locked"
           \/ /\ wpc[w] \in Unacked \ {"taken", "locked"}
              /\ wpc'[w] \in Unacked \ {"taken", "locked"}
    <3>1. CASE Lock(w)
      BY <3>1 DEF QueueTypeOK, Lock
    <3>2. CASE SendEnds(w) \/ SendFails(w) \/ Bury(w)
      BY <3>2 DEF QueueTypeOK, SendEnds, SendFails, Bury, Unacked
    <3>3. CASE Judge(w)
      BY <3>3 DEF QueueTypeOK, Judge, Unacked
    <3> QED
      BY <1>4, <3>1, <3>2, <3>3
  <2>2. Begun(k)' = Begun(k)
    BY <2>1 DEF Begun
  <2>3. \A v \in Workers : wpc'[v] = "returning" => wpc[v] = "returning" /\ hand'[v] = hand[v]
    BY <2>1 DEF Unacked
  <2>4. Quiet(k)
    BY <1>1, <2>2 DEF Quiet
  <2> QED
    BY <1>1, <1>2, <2>3, <2>4, StillSteps
<1> QED
  BY <1>3, <1>4

LEMMA KeyCounted ==
  ASSUME QueueTypeOK, QueueTypeOK', NEW k \in Keys, Counted(k), NEW j \in Keys,
         ClaimExpires(j) \/ LockExpires(j) \/ FinalElsewhere(j)
  PROVE  Counted(k)'
<1> USE DEF lists, counts, history, row, feed, procs, work
<1>1. /\ UNCHANGED <<queued, processing, timers, carry, wpc, hand, runs, pushes, faults>>
      /\ expiries' \in {expiries, expiries + 1}
  BY DEF ClaimExpires, LockExpires, FinalElsewhere
<1>2. \A i \in Instances, p \in Payloads : timers'[i][p] <= timers[i][p]
  BY <1>1 DEF QueueTypeOK
<1>3. Quiet(k)
  BY <1>1 DEF Quiet, Begun
<1> QED
  BY <1>1, <1>2, <1>3, StillSteps

\* Copies that stay: what a step that begins or ends runs needs of them.
LEMMA SameCopies ==
  ASSUME QueueTypeOK, QueueTypeOK', NEW k \in Keys, Counted(k),
         UNCHANGED <<queued, processing>>,
         \A i \in Instances, p \in Payloads : timers'[i][p] <= timers[i][p],
         \A i \in Instances, p \in Payloads : carry'[i] = p => carry[i] = p,
         \A w \in Workers : wpc'[w] = "returning" => wpc[w] = "returning" /\ hand'[w] = hand[w]
  PROVE  /\ IsFiniteSet(Allowed(Copies', k))
         /\ Cardinality(Allowed(Copies', k)) + 0 <= Cardinality(Allowed(Copies, k)) + 0
<1>1. \A p \in Payloads : queued'[p] <= queued[p] /\ processing'[p] <= processing[p]
  BY DEF QueueTypeOK
<1>2. \A p \in Payloads, w \in Workers :
        hand'[w] = p /\ wpc'[w] = "returning" => hand[w] = p /\ wpc[w] = "returning"
  OBVIOUS
<1> DEFINE D == {}
<1>3. \A z \in Spots : z \in D \/ Copies'[z] <= Copies[z]
  <2> HIDE DEF D
  <2> QED
    BY <1>1, <1>2, CopiesKept
<1>4. /\ IsFiniteSet(Allowed(Copies', k))
      /\ Cardinality(Allowed(Copies', k)) <= Cardinality(Allowed(Copies, k))
  BY <1>3, CopiesNow, CopiesNext, NoMore DEF Counted
<1>5. Cardinality(Allowed(Copies', k)) \in Nat /\ Cardinality(Allowed(Copies, k)) \in Nat
  BY <1>4, FS_CardinalityType DEF Counted
<1> QED
  BY <1>4, <1>5

LEMMA BeginCounted ==
  ASSUME QueueTypeOK, QueueTypeOK', NEW k \in Keys, Counted(k), NEW w \in Workers, Begin(w)
  PROVE  Counted(k)'
<1> USE DEF lists, counts, history, row, feed, procs, work
<1> DEFINE j == hand[w][1]
<1>1. /\ UNCHANGED <<queued, processing, timers, carry, hand, pushes, faults, expiries>>
      /\ wpc[w] = "locked" /\ wpc' = [wpc EXCEPT ![w] = "sending"]
      /\ runs' = [runs EXCEPT ![j] = @ + 1]
  BY DEF Begin
<1>2. hand[w] # None /\ j \in Keys
  BY <1>1, HandPayload
<1>3. /\ \A i \in Instances, p \in Payloads : timers'[i][p] <= timers[i][p]
      /\ \A v \in Workers : wpc'[v] = "returning" => wpc[v] = "returning" /\ hand'[v] = hand[v]
  BY <1>1 DEF QueueTypeOK
<1>4. /\ IsFiniteSet(Allowed(Copies', k))
      /\ Cardinality(Allowed(Copies', k)) + 0 <= Cardinality(Allowed(Copies, k)) + 0
  BY <1>1, <1>3, SameCopies
<1>5. RunsBound(k)' = RunsBound(k) /\ RunsBound(k) \in Nat
  BY <1>1, BoundNext
<1>6. runs[k] \in Nat /\ Cardinality(Begun(k)) \in Nat
  BY BegunFinite DEF QueueTypeOK
<1>7. (runs'[k] + 0) + (Cardinality(Begun(k)) + RunsBound(k))
        <= (runs[k] + 0) + (Cardinality(Begun(k)') + RunsBound(k)')
  <2>1. CASE k = j
    <3>1. w \notin Begun(k) /\ Begun(k)' = Begun(k) \cup {w}
      BY <1>1, <1>2, <2>1 DEF QueueTypeOK, Begun, Unacked
    <3>2. Cardinality(Begun(k)') = Cardinality(Begun(k)) + 1
      BY <3>1, BegunJoins
    <3>3. runs'[k] = runs[k] + 1
      BY <1>1, <2>1 DEF QueueTypeOK
    <3> QED
      BY <1>5, <1>6, <3>2, <3>3
  <2>2. CASE k # j
    <3>1. Begun(k)' = Begun(k)
      BY <1>1, <2>2 DEF QueueTypeOK, Begun
    <3>2. runs'[k] = runs[k]
      BY <1>1, <2>2 DEF QueueTypeOK
    <3>3. Cardinality(Begun(k)') = Cardinality(Begun(k))
      BY <3>1
    <3> QED
      BY <1>5, <1>6, <3>2, <3>3
  <2> QED
    BY <2>1, <2>2
<1> QED
  BY <1>4, <1>7, CountedNext

LEMMA SettleCounted ==
  ASSUME QueueTypeOK, QueueTypeOK', Backed, NEW k \in Keys, Counted(k), NEW w \in Workers,
         Settle(w)
  PROVE  Counted(k)'
<1> USE DEF lists, counts, history, row, feed, procs, work
<1>1. /\ UNCHANGED <<queued, timers, carry, hand, runs, pushes, faults, expiries>> /\ Ack(w)
      /\ wpc[w] \in {"succeeded", "buried"} /\ wpc' = [wpc EXCEPT ![w] = "unlocking"]
  BY DEF Settle
<1>2. wpc[w] \in Unacked \ {"taken", "locked"}
  BY <1>1 DEF Unacked
<1>3. PICK p \in Payloads : hand[w] = p
  BY <1>1, HandPayload
<1>4. processing'[p] < processing[p] /\ \A q \in Payloads : processing'[q] <= processing[q]
  <2>1. /\ processing[p] \in Nat /\ processing'[p] = processing[p] - 1
        /\ \A q \in Payloads : processing'[q] <= processing[q]
    BY <1>1, <1>2, <1>3, AckTakesOne
  <2> QED
    BY <2>1
<1> DEFINE x == <<InList, p>>
           D == {x}
<1>5. x \in Spots /\ Copies'[x] < Copies[x] /\ x[2][1] = p[1]
  BY <1>4, CopiesNow, CopiesNext
<1>6. \A z \in Spots : z \in D \/ Copies'[z] <= Copies[z]
  <2>1. /\ \A q \in Payloads : queued'[q] <= queued[q]
        /\ \A q \in Payloads, i \in Instances : timers'[i][q] <= timers[i][q]
        /\ \A q \in Payloads, v \in Workers :
             hand'[v] = q /\ wpc'[v] = "returning" => hand[v] = q /\ wpc[v] = "returning"
    BY <1>1 DEF QueueTypeOK
  <2> HIDE DEF D
  <2> QED
    BY <1>1, <1>4, <2>1, CopiesKept
<1> HIDE DEF x
<1>7. /\ IsFiniteSet(Allowed(Copies', k))
      /\ Cardinality(Allowed(Copies', k)) + Weight(x, k) <= Cardinality(Allowed(Copies, k))
  BY <1>5, <1>6, CopiesNow, CopiesNext, OneLess DEF Counted
<1>8. /\ Cardinality(Allowed(Copies', k)) \in Nat /\ Cardinality(Allowed(Copies, k)) \in Nat
  BY <1>7, FS_CardinalityType DEF Counted
<1>9. Weight(x, k) \in Nat /\ (k = p[1] => Weight(x, k) >= 1)
  BY <1>5, WeightFacts
<1>10. Cardinality(Allowed(Copies', k)) + Weight(x, k) <= Cardinality(Allowed(Copies, k)) + 0
  BY <1>7, <1>8, <1>9
<1>11. Cardinality(Begun(k)) = Cardinality(Begun(k)') + (IF k = p[1] THEN 1 ELSE 0)
  BY <1>1, <1>2, <1>3, BegunLeaves
<1>12. /\ RunsBound(k)' = RunsBound(k) /\ RunsBound(k) \in Nat /\ runs'[k] = runs[k]
       /\ runs[k] \in Nat /\ Cardinality(Begun(k)') \in Nat
  BY <1>1, BoundNext, BegunFiniteNext DEF QueueTypeOK
<1>13. (runs'[k] + 0) + (Cardinality(Begun(k)) + RunsBound(k))
         <= (runs[k] + Weight(x, k)) + (Cardinality(Begun(k)') + RunsBound(k)')
  BY <1>9, <1>11, <1>12
<1> QED
  BY <1>7, <1>9, <1>10, <1>13, CountedNext

LEMMA SettleUnackedCounted ==
  ASSUME QueueTypeOK, QueueTypeOK', NEW k \in Keys, Counted(k), NEW w \in Workers,
         SettleUnacked(w)
  PROVE  Counted(k)'
<1> USE DEF lists, counts, history, row, feed, procs, work
<1>1. /\ UNCHANGED <<queued, processing, timers, carry, hand, runs, pushes, expiries>>
      /\ faults' = faults + 1
      /\ wpc[w] \in {"succeeded", "buried"} /\ wpc' = [wpc EXCEPT ![w] = "unlocking"]
  BY DEF SettleUnacked
<1>2. wpc[w] \in Unacked \ {"taken", "locked"}
  BY <1>1 DEF Unacked
<1>3. /\ \A i \in Instances, p \in Payloads : timers'[i][p] <= timers[i][p]
      /\ \A v \in Workers : wpc'[v] = "returning" => wpc[v] = "returning" /\ hand'[v] = hand[v]
  BY <1>1 DEF QueueTypeOK
<1>4. /\ IsFiniteSet(Allowed(Copies', k))
      /\ Cardinality(Allowed(Copies', k)) + 0 <= Cardinality(Allowed(Copies, k)) + 0
  BY <1>1, <1>3, SameCopies
<1>5. Cardinality(Begun(k)) = Cardinality(Begun(k)') + (IF k = hand[w][1] THEN 1 ELSE 0)
  BY <1>1, <1>2, BegunLeaves
<1>6. /\ RunsBound(k)' = RunsBound(k) + MaxRetries + expiries /\ RunsBound(k) \in Nat
      /\ runs'[k] = runs[k] /\ runs[k] \in Nat /\ Cardinality(Begun(k)') \in Nat
      /\ expiries \in Nat /\ MaxRetries \in Nat /\ MaxRetries >= 1
  BY <1>1, BoundNext, BegunFiniteNext, RetriesAssumption, Needed DEF QueueTypeOK
<1>7. (runs'[k] + 0) + (Cardinality(Begun(k)) + RunsBound(k))
        <= (runs[k] + 0) + (Cardinality(Begun(k)') + RunsBound(k)')
  BY <1>5, <1>6
<1> QED
  BY <1>4, <1>7, CountedNext

\* The retry of a payload: one attempt fewer.
LEMMA RetryCounted ==
  ASSUME QueueTypeOK, QueueTypeOK', Backed, NEW k \in Keys, Counted(k), NEW w \in Workers,
         Retry(w) \/ RetryUnacked(w)
  PROVE  Counted(k)'
<1> USE DEF lists, counts, history, row, feed, procs, work
<1>0. wpc[w] = "retrying"
  BY DEF Retry, RetryUnacked
<1>1. wpc[w] \in Unacked \ {"taken", "locked"}
  BY <1>0 DEF Unacked
<1>2. PICK p \in Payloads : hand[w] = p
  BY <1>0, HandPayload
<1>3. PICK next \in Payloads : next = <<p[1], p[2] + 1>>
  BY <1>0, <1>2, NextAttempt
<1>4. PICK i \in Instances : Home[w] = i
  BY HomeAssumption
<1>5. /\ UNCHANGED <<queued, carry, hand, runs, pushes, expiries>>
      /\ wpc' = [wpc EXCEPT ![w] = "unlocking"]
      /\ timers' = [timers EXCEPT ![i][next] = @ + 1]
      /\ \/ Ack(w) /\ faults' = faults
         \/ UNCHANGED processing /\ faults' = faults + 1
  <2>1. CASE Retry(w)
    BY <1>2, <1>3, <1>4, <2>1 DEF Retry
  <2>2. CASE RetryUnacked(w)
    BY <1>2, <1>3, <1>4, <2>2 DEF RetryUnacked
  <2> QED
    BY <2>1, <2>2
<1> DEFINE x == <<InList, p>>
           y == <<InTimers(i), next>>
<1>6. x \in Spots /\ y \in Spots /\ x # y /\ x[2] = p /\ y[2] = next
  BY CopiesNow DEF InList, InTimers
<1>7. /\ p[2] \in Nat /\ next[1] = p[1] /\ next[2] = p[2] + 1
  BY <1>3 DEF Payloads, Attempts
<1>8. \A j \in Instances, q \in Payloads :
        /\ timers[j][q] \in Nat
        /\ timers'[j][q] = IF j = i /\ q = next THEN timers[j][q] + 1 ELSE timers[j][q]
  BY <1>5 DEF QueueTypeOK
<1>9. Copies'[y] <= Copies[y] + 1
  <2>1. Copies'[y] = timers'[i][next] /\ Copies[y] = timers[i][next]
    BY CopiesNow, CopiesNext
  <2> QED
    BY <1>8, <2>1
<1>10. /\ \A q \in Payloads : queued'[q] <= queued[q]
       /\ \A q \in Payloads, v \in Workers :
            hand'[v] = q /\ wpc'[v] = "returning" => hand[v] = q /\ wpc[v] = "returning"
  BY <1>5 DEF QueueTypeOK
<1>11. \A q \in Payloads, j \in Instances : <<InTimers(j), q>> = y \/ timers'[j][q] <= timers[j][q]
  BY <1>8
<1>12. Cardinality(Begun(k)) = Cardinality(Begun(k)') + (IF k = p[1] THEN 1 ELSE 0)
  BY <1>1, <1>2, <1>5, BegunLeaves
<1>13. /\ RunsBound(k) \in Nat /\ runs'[k] = runs[k] /\ expiries \in Nat
       /\ runs[k] \in Nat /\ Cardinality(Begun(k)') \in Nat
       /\ MaxRetries \in Nat /\ MaxRetries >= 1
  BY <1>5, BoundNext, BegunFiniteNext, RetriesAssumption, Needed DEF QueueTypeOK
<1>14. /\ Weight(x, k) \in Nat /\ Weight(y, k) \in Nat
       /\ k = p[1] => Weight(x, k) = Weight(y, k) + 1
       /\ k # p[1] => Weight(x, k) = 0 /\ Weight(y, k) = 0
  <2>1. /\ Weight(x, k) = IF p[1] = k THEN MaxRetries - p[2] ELSE 0
        /\ Weight(y, k) = IF p[1] = k THEN MaxRetries - next[2] ELSE 0
    BY <1>6, <1>7 DEF Weight
  <2>2. Weight(x, k) \in Nat /\ Weight(y, k) \in Nat
    BY <1>6, WeightFacts
  <2> QED
    BY <1>7, <1>13, <2>1, <2>2
<1>15. CASE Ack(w) /\ faults' = faults
  <2> DEFINE D == {x, y}
  <2>1. processing'[p] < processing[p] /\ \A q \in Payloads : processing'[q] <= processing[q]
    <3>1. /\ processing[p] \in Nat /\ processing'[p] = processing[p] - 1
          /\ \A q \in Payloads : processing'[q] <= processing[q]
      BY <1>1, <1>2, <1>15, AckTakesOne
    <3> QED
      BY <3>1
  <2>2. Copies'[x] < Copies[x]
    BY <2>1, CopiesNow, CopiesNext
  <2>3. \A z \in Spots : z \in D \/ Copies'[z] <= Copies[z]
    <3>1. \A q \in Payloads, j \in Instances : <<InTimers(j), q>> \in D \/ timers'[j][q] <= timers[j][q]
      BY <1>11
    <3> HIDE DEF D
    <3> QED
      BY <1>5, <1>10, <2>1, <3>1, CopiesKept
  <2> HIDE DEF x, y
  <2>4. /\ IsFiniteSet(Allowed(Copies', k))
        /\ Cardinality(Allowed(Copies', k)) + Weight(x, k)
             <= Cardinality(Allowed(Copies, k)) + Weight(y, k)
    BY <1>6, <1>9, <2>2, <2>3, CopiesNow, CopiesNext, OneTurns DEF Counted
  <2>5. RunsBound(k)' = RunsBound(k)
    BY <1>5, <1>15, BoundNext
  <2>6. (runs'[k] + Weight(y, k)) + (Cardinality(Begun(k)) + RunsBound(k))
          <= (runs[k] + Weight(x, k)) + (Cardinality(Begun(k)') + RunsBound(k)')
    BY <1>12, <1>13, <1>14, <2>5
  <2> QED
    BY <1>14, <2>4, <2>6, CountedNext
<1>16. CASE UNCHANGED processing /\ faults' = faults + 1
  <2> DEFINE D == {y}
  <2>1. \A z \in Spots : z \in D \/ Copies'[z] <= Copies[z]
    <3>1. /\ \A q \in Payloads, j \in Instances :
               <<InTimers(j), q>> \in D \/ timers'[j][q] <= timers[j][q]
          /\ \A q \in Payloads : processing'[q] <= processing[q]
      BY <1>11, <1>16 DEF QueueTypeOK
    <3> HIDE DEF D
    <3> QED
      BY <1>5, <1>10, <3>1, CopiesKept
  <2>2. Weight(x, k) <= MaxRetries
    BY <1>6, WeightFacts
  <2> HIDE DEF x, y
  <2>3. /\ IsFiniteSet(Allowed(Copies', k))
        /\ Cardinality(Allowed(Copies', k)) <= Cardinality(Allowed(Copies, k)) + Weight(y, k)
    BY <1>6, <1>9, <2>1, CopiesNow, CopiesNext, OneMore DEF Counted
  <2>4. /\ Cardinality(Allowed(Copies', k)) \in Nat /\ Cardinality(Allowed(Copies, k)) \in Nat
    BY <2>3, FS_CardinalityType DEF Counted
  <2>5. Cardinality(Allowed(Copies', k)) + 0 <= Cardinality(Allowed(Copies, k)) + Weight(y, k)
    BY <1>14, <2>3, <2>4
  <2>6. RunsBound(k)' = RunsBound(k) + MaxRetries + expiries
    BY <1>5, <1>16, BoundNext
  <2>7. (runs'[k] + Weight(y, k)) + (Cardinality(Begun(k)) + RunsBound(k))
          <= (runs[k] + 0) + (Cardinality(Begun(k)') + RunsBound(k)')
    BY <1>12, <1>13, <1>14, <2>2, <2>6
  <2> QED
    BY <1>14, <2>3, <2>5, <2>7, CountedNext
<1> QED
  BY <1>5, <1>15, <1>16

\* A process that ends: the runs its workers had begun are not many.
LEMMA EndCounted ==
  ASSUME QueueTypeOK, QueueTypeOK', LockInv, RobbedInv, NEW k \in Keys, Counted(k),
         NEW i \in Instances, End(i)
  PROVE  Counted(k)'
<1> USE DEF lists, counts, history, row, feed, procs, work
<1>1. /\ UNCHANGED <<queued, processing, runs, pushes, expiries>> /\ faults' = faults + 1
      /\ carry' = [carry EXCEPT ![i] = None]
      /\ timers' = [timers EXCEPT ![i] = [p \in Payloads |-> 0]]
      /\ wpc' = [w \in Workers |-> IF Home[w] = i THEN "idle" ELSE wpc[w]]
      /\ hand' = [w \in Workers |-> IF Home[w] = i THEN None ELSE hand[w]]
  BY DEF End
<1>2. \A j \in Instances, p \in Payloads : timers'[j][p] <= timers[j][p]
  <2>1. \A j \in Instances, p \in Payloads :
          timers[j][p] \in Nat /\ timers'[j][p] \in {0, timers[j][p]}
    BY <1>1 DEF QueueTypeOK
  <2> QED
    BY <2>1
<1>3. \A j \in Instances, p \in Payloads : carry'[j] = p => carry[j] = p
  BY <1>1, NoneIsNoPayload DEF QueueTypeOK
<1>4. \A w \in Workers : wpc'[w] = "returning" => wpc[w] = "returning" /\ hand'[w] = hand[w]
  BY <1>1
<1>5. /\ IsFiniteSet(Allowed(Copies', k))
      /\ Cardinality(Allowed(Copies', k)) + 0 <= Cardinality(Allowed(Copies, k)) + 0
  BY <1>1, <1>2, <1>3, <1>4, SameCopies
<1>6. Cardinality(Begun(k)) <= 1 + expiries
  <2>1. Begun(k) \subseteq Holding(k)
    BY DEF Begun, Holding, Unacked, Inside
  <2>2. Cardinality(Begun(k)) <= Cardinality(Holding(k))
    BY <2>1, HoldingFinite, FS_Subset
  <2>3. expiries \in Nat
    BY DEF QueueTypeOK
  <2>4. Cardinality(Holding(k)) <= 1 + expiries
    BY HoldingBounded
  <2>5. Cardinality(Holding(k)) \in Nat /\ Cardinality(Begun(k)) \in Nat
    BY HoldingFinite, BegunFinite
  <2> QED
    BY <2>2, <2>3, <2>4, <2>5
<1>7. /\ RunsBound(k)' = RunsBound(k) + MaxRetries + expiries /\ RunsBound(k) \in Nat
      /\ runs'[k] = runs[k] /\ runs[k] \in Nat /\ Cardinality(Begun(k)') \in Nat
      /\ Cardinality(Begun(k)) \in Nat
      /\ expiries \in Nat /\ MaxRetries \in Nat /\ MaxRetries >= 1
  BY <1>1, BoundNext, BegunFinite, BegunFiniteNext, RetriesAssumption, Needed DEF QueueTypeOK
<1>8. (runs'[k] + 0) + (Cardinality(Begun(k)) + RunsBound(k))
        <= (runs[k] + 0) + (Cardinality(Begun(k)') + RunsBound(k)')
  BY <1>6, <1>7
<1> QED
  BY <1>5, <1>8, CountedNext
-----------------------------------------------------------------------------
LEMMA RunsInductive ==
  ASSUME QueueTypeOK, QueueTypeOK', LockInv, RobbedInv, WorkIsBacked, RunsInv,
         [QueueNext]_queueVars
  PROVE  RunsInv'
<1> USE DEF lists, counts, history, row, feed, procs, work
<1> SUFFICES ASSUME moved' = 0, NEW k \in Keys PROVE Counted(k)'
  BY DEF RunsInv
<1>1. moved = 0
  <2>1. moved' = moved \/ \E i \in Instances, p \in Payloads : RecoverPop(i, p)
    BY ZenonT(60) DEF QueueNext, WorkerStep, RequestStep, RecoverStep, queueVars, ClaimEnqueue,
           RecordPending, Push, PushFails, ClaimExpires, Take, Lock, LockHeld, LockFails,
           Return, ReturnFails, Begin, SendEnds, SendFails, FinalElsewhere, Judge, Bury,
           Settle, SettleUnacked, Retry, RetryUnacked, Unlock, LockExpires, TimerFires,
           TimerLost, End, Start, RecoverPush, RecoverEnds
  <2>2. ASSUME NEW i \in Instances, NEW p \in Payloads, RecoverPop(i, p)
        PROVE  moved' \in {moved, moved + 1}
    BY <2>2 DEF RecoverPop
  <2> QED
    BY <2>1, <2>2 DEF QueueTypeOK
<1>2. Counted(k) /\ Backed
  BY <1>1 DEF RunsInv, WorkIsBacked, Backed
<1>3. ASSUME NEW w \in Workers, WorkerStep(w) PROVE Counted(k)'
  BY <1>2, <1>3, HandlingCounted, OtherCounted, BeginCounted, SettleCounted, RetryCounted
  DEF WorkerStep
<1>4. ASSUME NEW w \in Workers,
             LockFails(w) \/ ReturnFails(w) \/ SettleUnacked(w) \/ RetryUnacked(w)
      PROVE  Counted(k)'
  BY <1>2, <1>4, HandlingCounted, OtherCounted, SettleUnackedCounted, RetryCounted
<1>5. ASSUME NEW w \in Workers, NEW p \in Payloads, Take(w, p) PROVE Counted(k)'
  BY <1>2, <1>5, HandlingCounted
<1>6. ASSUME NEW r \in Requests, RequestStep(r) \/ PushFails(r) PROVE Counted(k)'
  BY <1>2, <1>6, EnqueueCounted
<1>7. ASSUME NEW j \in Keys, ClaimExpires(j) \/ LockExpires(j) \/ FinalElsewhere(j)
      PROVE  Counted(k)'
  BY <1>2, <1>7, KeyCounted
<1>8. ASSUME NEW i \in Instances, NEW p \in Payloads, TimerFires(i, p) \/ TimerLost(i, p)
      PROVE  Counted(k)'
  BY <1>2, <1>8, CommandCounted
<1>9. ASSUME NEW i \in Instances, End(i) PROVE Counted(k)'
  BY <1>2, <1>9, EndCounted
<1>10. ASSUME NEW i \in Instances, RecoverStep(i) PROVE Counted(k)'
  BY <1>2, <1>10, CommandCounted DEF RecoverStep
<1>11. CASE UNCHANGED queueVars
  <2>1. UNCHANGED <<queued, processing, timers, carry, wpc, hand, runs, pushes, faults, expiries>>
    BY <1>11 DEF queueVars
  <2>2. Quiet(k)
    BY <2>1 DEF Quiet, Begun
  <2>3. \A i \in Instances, p \in Payloads : timers'[i][p] <= timers[i][p]
    BY <2>1 DEF QueueTypeOK
  <2> QED
    BY <1>2, <2>1, <2>2, <2>3, StillSteps
<1> QED
  BY <1>3, <1>4, <1>5, <1>6, <1>7, <1>8, <1>9, <1>10, <1>11 DEF QueueNext

\* At the start no copy allows anything.
LEMMA RunsInitially == QueueInit => RunsInv
<1> SUFFICES ASSUME QueueInit, NEW k \in Keys PROVE Counted(k)
  BY DEF RunsInv
<1>1. QueueTypeOK
  BY TypesInitially
<1>2. ASSUME NEW t \in Allowed(Copies, k) PROVE FALSE
  <2>1. t[1] \in Spots /\ t[2][1] \in Nat /\ t[2][1] # 0 /\ t[2][1] <= Copies[t[1]]
    BY <1>2 DEF Allowed
  <2>2. \A z \in Spots : Copies[z] = 0
    <3> TAKE z \in Spots
    <3>1. PICK p \in Payloads :
            \/ z = <<InQueue, p>> \/ z = <<InList, p>>
            \/ \E i \in Instances : z = <<InTimers(i), p>> \/ z = <<InCarry(i), p>>
            \/ \E w \in Workers : z = <<InWorker(w), p>>
      BY SpotIs
    <3>2. /\ queued[p] = 0 /\ processing[p] = 0 /\ \A i \in Instances : timers[i][p] = 0
          /\ \A i \in Instances : carry[i] # p
          /\ \A w \in Workers : wpc[w] # "returning"
      BY NoneIsNoPayload DEF QueueInit
    <3>3. Copies[<<InQueue, p>>] = 0 /\ Copies[<<InList, p>>] = 0
      BY <1>1, <3>2, CopiesNow
    <3>4. ASSUME NEW i \in Instances
          PROVE  Copies[<<InTimers(i), p>>] = 0 /\ Copies[<<InCarry(i), p>>] = 0
      <4>1. Copies[<<InTimers(i), p>>] = timers[i][p]
        BY <1>1, CopiesNow
      <4>2. Copies[<<InCarry(i), p>>] = IF carry[i] = p THEN 1 ELSE 0
        BY <1>1, CopiesNow
      <4> QED
        BY <3>2, <4>1, <4>2
    <3>5. ASSUME NEW w \in Workers PROVE Copies[<<InWorker(w), p>>] = 0
      <4>1. Copies[<<InWorker(w), p>>] = IF hand[w] = p /\ wpc[w] = "returning" THEN 1 ELSE 0
        BY <1>1, CopiesNow
      <4> QED
        BY <3>2, <4>1
    <3> QED
      BY <3>1, <3>3, <3>4, <3>5
  <2> QED
    BY <2>1, <2>2
<1>3. Allowed(Copies, k) = {} /\ IsFiniteSet({}) /\ Cardinality({}) = 0
  BY <1>2, FS_EmptySet
<1>4. runs[k] = 0 /\ RunsBound(k) \in Nat
  BY <1>1, BoundNext DEF QueueInit
<1>5. runs[k] + 0 <= RunsBound(k) + Cardinality(Begun(k))
  BY <1>4, BegunFinite
<1> QED
  BY <1>3, <1>5 DEF Counted

\* Each run that has begun still has its own entry in the processing list.
LEMMA BegunAreAllowed ==
  ASSUME QueueTypeOK, Backed, NEW k \in Keys, Counted(k)
  PROVE  Cardinality(Begun(k)) <= Cardinality(Allowed(Copies, k))
<1> DEFINE Entries(p) == 1 .. processing[p]
<1>1. ASSUME NEW p \in Payloads PROVE Injection(Unfinished(p), Entries(p)) # {}
  <2> DEFINE n == Cardinality(Unfinished(p))
  <2>1. n \in Nat /\ processing[p] \in Nat /\ n <= processing[p]
    BY UnfinishedFinite DEF QueueTypeOK, Backed
  <2>2. ExistsBijection(1 .. n, Unfinished(p))
    BY UnfinishedFinite, FS_CardinalityType
  <2>3. ExistsBijection(Unfinished(p), 1 .. n)
    BY <2>2, Fun_ExistsBijSymmetric
  <2>4. PICK b : b \in Injection(Unfinished(p), 1 .. n)
    BY <2>3 DEF ExistsBijection, Bijection
  <2>5. 1 .. n \subseteq Entries(p)
    BY <2>1
  <2>6. b \in Injection(Unfinished(p), Entries(p))
    <3> HIDE DEF n, Entries
    <3> QED
      BY <2>4, <2>5 DEF Injection, IsInjective
  <2> QED
    BY <2>6
<1> DEFINE at == [p \in Payloads |-> CHOOSE b \in Injection(Unfinished(p), Entries(p)) : TRUE]
           F == [w \in Begun(k) |-> <<<<InList, hand[w]>>, <<at[hand[w]][w], hand[w][2]>>>>]
<1>2. ASSUME NEW p \in Payloads PROVE at[p] \in Injection(Unfinished(p), Entries(p))
  BY <1>1
<1> HIDE DEF at
<1>3. ASSUME NEW w \in Begun(k)
      PROVE  /\ w \in Workers /\ hand[w] \in Payloads /\ hand[w][1] = k
             /\ hand[w][2] \in Attempts /\ hand[w][2] \in Nat
             /\ w \in Unfinished(hand[w])
  <2>1. w \in Workers /\ wpc[w] # "idle" /\ hand[w][1] = k /\ wpc[w] \in Unacked
    BY DEF Begun, Unacked
  <2>2. hand[w] \in Payloads /\ hand[w][2] \in Attempts
    BY <2>1, HandPayload
  <2> QED
    BY <2>1, <2>2 DEF Unfinished, Attempts
<1>4. ASSUME NEW w \in Begun(k)
      PROVE  at[hand[w]][w] \in Nat /\ at[hand[w]][w] # 0 /\ at[hand[w]][w] <= processing[hand[w]]
  <2>1. at[hand[w]] \in Injection(Unfinished(hand[w]), Entries(hand[w]))
    BY <1>2, <1>3
  <2>2. at[hand[w]][w] \in Entries(hand[w])
    BY <1>3, <2>1 DEF Injection
  <2>3. processing[hand[w]] \in Nat
    BY <1>3 DEF QueueTypeOK
  <2> QED
    BY <2>2, <2>3
<1>5. ASSUME NEW w \in Begun(k) PROVE F[w] \in Allowed(Copies, k)
  <2>1. PICK t : t = <<<<InList, hand[w]>>, <<at[hand[w]][w], hand[w][2]>>>>
    OBVIOUS
  <2>2. /\ t[1] = <<InList, hand[w]>> /\ t[1][2][1] = k /\ t[2][1] = at[hand[w]][w]
        /\ t[2][2] = hand[w][2] /\ t[1][2][2] = hand[w][2]
    BY <1>3, <2>1
  <2>3. <<InList, hand[w]>> \in Spots /\ Copies[<<InList, hand[w]>>] = processing[hand[w]]
    BY <1>3, CopiesNow
  <2>4. t \in Spots \X (Nat \X Attempts)
    BY <1>3, <1>4, <2>1, <2>3
  <2>5. t[2][1] # 0 /\ t[2][1] <= Copies[t[1]] /\ t[1][2][2] <= t[2][2]
    BY <1>3, <1>4, <2>2, <2>3
  <2>6. t \in Allowed(Copies, k)
    BY <2>2, <2>4, <2>5 DEF Allowed
  <2> QED
    BY <2>1, <2>6
<1>6. ASSUME NEW v \in Begun(k), NEW w \in Begun(k), F[v] = F[w] PROVE v = w
  <2>1. hand[v] = hand[w] /\ at[hand[v]][v] = at[hand[w]][w]
    BY <1>6
  <2>2. at[hand[w]] \in Injection(Unfinished(hand[w]), Entries(hand[w]))
    BY <1>2, <1>3
  <2>3. v \in Unfinished(hand[w]) /\ w \in Unfinished(hand[w])
    BY <1>3, <2>1
  <2> QED
    BY <2>1, <2>2, <2>3 DEF Injection, IsInjective
<1>7. F \in Injection(Begun(k), Allowed(Copies, k))
  <2>1. F \in [Begun(k) -> Allowed(Copies, k)]
    BY <1>5
  <2>2. DOMAIN F = Begun(k)
    OBVIOUS
  <2> HIDE DEF F
  <2> QED
    BY <1>6, <2>1, <2>2 DEF Injection, IsInjective
<1> HIDE DEF F
<1> QED
  BY <1>7, FS_Injection DEF Counted

\* The retries of a sale are bounded: the processor runs at most BillingMaxRetries
\* times for each successful Enqueue and each fault, and for each fault once
\* more per processing lock that had run out, until a start-up moves the entry
\* of a job in progress.
THEOREM RunsAreBounded == QueueSpec => []RunsBounded
<1>1. QueueInit => LockInv /\ RobbedInv
  <2>1. ASSUME QueueInit, NEW k \in Keys PROVE Cardinality(Holding(k) \cap robbed) <= expiries
    <3>1. Holding(k) \cap robbed = {} /\ expiries = 0
      BY <2>1 DEF QueueInit
    <3>2. Cardinality({}) = 0
      BY FS_EmptySet
    <3> QED
      BY <3>1, <3>2
  <2> QED
    BY <2>1 DEF QueueInit, LockInv, Inside, RobbedInv
<1>2. QueueTypeOK /\ WorkIsBacked /\ RunsInv => RunsBounded
  <2> SUFFICES ASSUME QueueTypeOK, WorkIsBacked, RunsInv, moved = 0, NEW k \in Keys
               PROVE  runs[k] <= MaxRetries * (pushes[k] + faults) + faults * expiries
    BY DEF RunsBounded
  <2>1. Counted(k) /\ Backed
    BY DEF RunsInv, WorkIsBacked, Backed
  <2>2. Cardinality(Begun(k)) <= Cardinality(Allowed(Copies, k))
    BY <2>1, BegunAreAllowed
  <2>3. /\ Cardinality(Begun(k)) \in Nat /\ Cardinality(Allowed(Copies, k)) \in Nat
        /\ RunsBound(k) \in Nat /\ runs[k] \in Nat
        /\ runs[k] + Cardinality(Allowed(Copies, k)) <= RunsBound(k) + Cardinality(Begun(k))
    BY <2>1, BegunFinite, BoundNext, FS_CardinalityType DEF Counted, QueueTypeOK
  <2>4. runs[k] <= RunsBound(k)
    BY <2>2, <2>3
  <2> QED
    BY <2>4 DEF RunsBound
<1>3. QueueTypeOK /\ QueueTypeOK' /\ LockInv /\ RobbedInv /\ WorkIsBacked /\ RunsInv
        /\ [QueueNext]_queueVars => LockInv' /\ RobbedInv' /\ RunsInv'
  BY LockInvInductive, RobbedInductive, RunsInductive
<1> QED
  BY <1>1, <1>2, <1>3, RunsInitially, QueueTypeCorrect, ProcessingBacksWork, PTL DEF QueueSpec
=============================================================================

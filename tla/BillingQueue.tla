---------------------------- MODULE BillingQueue ----------------------------
(***************************************************************************)
(* The older billing queue (pkg/billingqueue), its processor               *)
(* (internal/billing/worker) and the branch of EnqueueSendToSUNAT that     *)
(* feeds it when no facturador is configured: two Redis lists, a claim key *)
(* and a processing lock per sale, retries kept in timers of the process,  *)
(* and the start-up that moves the whole processing list back.             *)
(*                                                                         *)
(* A payload is <<key, attempt>>.  The lists are counted per payload: LREM *)
(* removes one equal payload whichever worker pushed it, and the FIFO order*)
(* of the queue only appears as the fairness of Take.  The sending itself  *)
(* is FiscalEmission's; here it ends in an acceptance or in an error.  A   *)
(* rejection, after which a request may queue the sale again, is left out; *)
(* so are a start-up whose RPOP fails, which leaves the rest of the list to*)
(* the next one, and one whose LPUSH fails.                                *)
(***************************************************************************)
EXTENDS Naturals, FiniteSets

CONSTANTS
  Keys,           \* idempotency keys (billingstate.SaleIdempotencyKey)
  Instances,      \* backend processes
  Workers, Home,  \* workerLoop goroutines; Home[w]: the process of worker w
  Requests, Sale, \* calls of EnqueueSendToSUNAT; Sale[r]: their key
  None,
  MaxRetries,     \* BillingMaxRetries
  MaxFaults,      \* bound: process ends and failed Redis commands
  MaxExpiries,    \* bound: claims, and locks of live workers, that run out
  MaxMoved        \* bound: entries of jobs in progress that start-ups move

ASSUME HomeAssumption    == Home \in [Workers -> Instances]
ASSUME SaleAssumption    == Sale \in [Requests -> Keys]
ASSUME NoneAssumption    == None \notin Workers /\ None \notin Keys \X Nat
ASSUME RetriesAssumption == MaxRetries \in Nat \ {0}
ASSUME FiniteAssumption  == IsFiniteSet(Workers) /\ IsFiniteSet(Instances)

VARIABLES
  queued,     \* queued[p]: copies of p in tukifac:billing:queue
  processing, \* processing[p]: copies of p in tukifac:billing:processing
  timers,     \* timers[i][p]: time.AfterFunc retries of process i
  mode,       \* mode[i]: "up", "down", or "recovering" its start-up
  carry,      \* carry[i]: the payload recoverStuckProcessing popped
  wpc, hand,  \* where worker w is in processOne, and its payload
  plock,      \* plock[k]: worker whose SETNX put the value "1", or None
  robbed,     \* history: workers whose processing lock is gone under them
  claimed,    \* claimed[k]: the claim key exists
  rpc,        \* where request r is in EnqueueSendToSUNAT
  stage,      \* stage[k]: pipeline of the tenant_invoices row
  final,      \* final[k]: the row holds SUNAT's acceptance
  accepted,   \* history: an Enqueue of k succeeded
  answered,   \* history: k was ended since its last successful Enqueue
  redone,     \* history: a job of k began although its row was final
  moved,      \* entries of jobs in progress that start-ups have moved
  runs,       \* history: runs[k]: calls of the processor
  pushes,     \* history: pushes[k]: successful Enqueues
  expiries,   \* claims and live locks that ran out
  faults

lists   == <<queued, processing, timers>>
procs   == <<mode, carry>>
work    == <<wpc, hand, plock, robbed>>
feed    == <<claimed, rpc, pushes>>
row     == <<stage, final>>
history == <<accepted, answered, redone, moved, runs>>
counts  == <<expiries, faults>>
queueVars == <<lists, procs, work, feed, row, history, counts>>

Attempts == 0 .. MaxRetries - 1
Payloads == Keys \X Attempts

Phases   == {"idle", "taken", "returning", "locked", "sending", "failed",
             "succeeded", "burying", "retrying", "buried", "unlocking"}
Requesting == {"start", "claimed", "recorded", "done"}
Stages   == {"none", "pending", "processing", "final", "failed", "dead"}

\* Phases in which the worker's payload has not been acknowledged yet.
Unacked == {"taken", "locked", "sending", "failed", "succeeded",
            "burying", "retrying", "buried"}

\* Phases in which the worker counts on holding the processing lock.
Inside == {"locked", "sending", "failed", "succeeded",
           "burying", "retrying", "buried", "unlocking"}

Up(w) == mode[Home[w]] = "up"

\* The workers that are processing a job of key k.
Holding(k) == {w \in Workers : hand[w] # None /\ hand[w][1] = k /\ wpc[w] \in Inside}

QueueInit ==
  /\ queued = [p \in Payloads |-> 0]
  /\ processing = [p \in Payloads |-> 0]
  /\ timers = [i \in Instances |-> [p \in Payloads |-> 0]]
  /\ mode = [i \in Instances |-> "up"]
  /\ carry = [i \in Instances |-> None]
  /\ wpc = [w \in Workers |-> "idle"]
  /\ hand = [w \in Workers |-> None]
  /\ plock = [k \in Keys |-> None]
  /\ robbed = {}
  /\ claimed = [k \in Keys |-> FALSE]
  /\ rpc = [r \in Requests |-> "start"]
  /\ stage = [k \in Keys |-> "none"]
  /\ final = [k \in Keys |-> FALSE]
  /\ accepted = [k \in Keys |-> FALSE]
  /\ answered = [k \in Keys |-> FALSE]
  /\ redone = [k \in Keys |-> FALSE]
  /\ moved = 0
  /\ runs = [k \in Keys |-> 0]
  /\ pushes = [k \in Keys |-> 0]
  /\ expiries = 0
  /\ faults = 0

-----------------------------------------------------------------------------
\* EnqueueSendToSUNAT, from its claim on.

\* TryClaimEnqueue; a request that finds the claim returns the row as it is.
ClaimEnqueue(r) ==
  /\ rpc[r] = "start"
  /\ rpc' = [rpc EXCEPT ![r] = IF claimed[Sale[r]] THEN "done" ELSE "claimed"]
  /\ claimed' = [claimed EXCEPT ![Sale[r]] = TRUE]
  /\ UNCHANGED <<lists, procs, work, pushes, row, history, counts>>

\* The transaction over the row.  A final row ends the request, which gives
\* its claim back; a row that is already in flight is left as it is and the
\* request still goes on to enqueue.
RecordPending(r) ==
  LET k == Sale[r] IN
  /\ rpc[r] = "claimed"
  /\ IF final[k]
       THEN /\ rpc' = [rpc EXCEPT ![r] = "done"]
            /\ claimed' = [claimed EXCEPT ![k] = FALSE]
            /\ UNCHANGED stage
       ELSE /\ rpc' = [rpc EXCEPT ![r] = "recorded"]
            /\ stage' = [stage EXCEPT ![k] = IF @ = "processing" THEN @ ELSE "pending"]
            /\ UNCHANGED claimed
  /\ UNCHANGED <<lists, procs, work, pushes, final, history, counts>>

\* Enqueue succeeds; the claim is left to its 15 minutes.
Push(r) ==
  LET k == Sale[r] IN
  /\ rpc[r] = "recorded"
  /\ rpc' = [rpc EXCEPT ![r] = "done"]
  /\ queued' = [queued EXCEPT ![<<k, 0>>] = @ + 1]
  /\ pushes' = [pushes EXCEPT ![k] = @ + 1]
  /\ accepted' = [accepted EXCEPT ![k] = TRUE]
  /\ answered' = [answered EXCEPT ![k] = FALSE]
  /\ UNCHANGED <<processing, timers, procs, work, claimed, row, redone, moved, runs, counts>>

\* Enqueue fails: the row is marked failed and the claim given back.
PushFails(r) ==
  LET k == Sale[r] IN
  /\ rpc[r] = "recorded"
  /\ faults < MaxFaults
  /\ faults' = faults + 1
  /\ rpc' = [rpc EXCEPT ![r] = "done"]
  /\ claimed' = [claimed EXCEPT ![k] = FALSE]
  /\ stage' = [stage EXCEPT ![k] = "failed"]
  /\ UNCHANGED <<lists, procs, work, pushes, final, history, expiries>>

\* The claim's 15 minutes run out.
ClaimExpires(k) ==
  /\ claimed[k]
  /\ expiries < MaxExpiries
  /\ expiries' = expiries + 1
  /\ claimed' = [claimed EXCEPT ![k] = FALSE]
  /\ UNCHANGED <<lists, procs, work, rpc, pushes, row, history, faults>>

-----------------------------------------------------------------------------
\* workerLoop and processOne.

\* Mutant of Take: BRPOP instead of BRPOPLPUSH.
TakeByPop(w, p) ==
  /\ Up(w) /\ wpc[w] = "idle" /\ queued[p] > 0
  /\ queued' = [queued EXCEPT ![p] = @ - 1]
  /\ wpc' = [wpc EXCEPT ![w] = "taken"]
  /\ hand' = [hand EXCEPT ![w] = p]
  /\ UNCHANGED <<processing, timers, procs, plock, robbed, feed, row, history, counts>>

\* BRPOPLPUSH moves a payload from the queue to the processing list.
Take(w, p) ==
  /\ Up(w) /\ wpc[w] = "idle" /\ queued[p] > 0
  /\ queued' = [queued EXCEPT ![p] = @ - 1]
  /\ processing' = [processing EXCEPT ![p] = @ + 1]
  /\ wpc' = [wpc EXCEPT ![w] = "taken"]
  /\ hand' = [hand EXCEPT ![w] = p]
  /\ UNCHANGED <<timers, procs, plock, robbed, feed, row, history, counts>>

\* Mutant of Lock: SET instead of SETNX.
LockBySet(w) ==
  /\ wpc[w] = "taken"
  /\ plock' = [plock EXCEPT ![hand[w][1]] = w]
  /\ wpc' = [wpc EXCEPT ![w] = "locked"]
  /\ UNCHANGED <<lists, procs, hand, robbed, feed, row, history, counts>>

\* SETNX of the processing lock succeeds.
Lock(w) ==
  /\ wpc[w] = "taken"
  /\ plock[hand[w][1]] = None
  /\ plock' = [plock EXCEPT ![hand[w][1]] = w]
  /\ wpc' = [wpc EXCEPT ![w] = "locked"]
  /\ UNCHANGED <<lists, procs, hand, robbed, feed, row, history, counts>>

\* LREM of one payload equal to the worker's, if there is any.
Ack(w) == processing' = [processing EXCEPT ![hand[w]] = IF @ > 0 THEN @ - 1 ELSE 0]

\* The lock is held: the payload is acknowledged, to be pushed back next.
LockHeld(w) ==
  /\ wpc[w] = "taken"
  /\ plock[hand[w][1]] # None
  /\ Ack(w)
  /\ wpc' = [wpc EXCEPT ![w] = "returning"]
  /\ UNCHANGED <<queued, timers, procs, hand, plock, robbed, feed, row, history, counts>>

\* SETNX fails: same branch, and the worker's LREM may fail with it.
LockFails(w) ==
  /\ wpc[w] = "taken"
  /\ faults < MaxFaults
  /\ faults' = faults + 1
  /\ Ack(w) \/ UNCHANGED processing
  /\ wpc' = [wpc EXCEPT ![w] = "returning"]
  /\ UNCHANGED <<queued, timers, procs, hand, plock, robbed, feed, row, history, expiries>>

\* Mutant of Return: the payload of a held lock is dropped.
ReturnForgotten(w) ==
  /\ wpc[w] = "returning"
  /\ wpc' = [wpc EXCEPT ![w] = "idle"]
  /\ hand' = [hand EXCEPT ![w] = None]
  /\ UNCHANGED <<lists, procs, plock, robbed, feed, row, history, counts>>

\* requeuePayload, in a call of its own after the acknowledgement.
Return(w) ==
  /\ wpc[w] = "returning"
  /\ queued' = [queued EXCEPT ![hand[w]] = @ + 1]
  /\ wpc' = [wpc EXCEPT ![w] = "idle"]
  /\ hand' = [hand EXCEPT ![w] = None]
  /\ UNCHANGED <<processing, timers, procs, plock, robbed, feed, row, history, counts>>

\* requeuePayload discards the error of its LPUSH.
ReturnFails(w) ==
  /\ wpc[w] = "returning"
  /\ faults < MaxFaults
  /\ faults' = faults + 1
  /\ wpc' = [wpc EXCEPT ![w] = "idle"]
  /\ hand' = [hand EXCEPT ![w] = None]
  /\ UNCHANGED <<lists, procs, plock, robbed, feed, row, history, expiries>>

\* ProcessJob marks the row PROCESSING whatever it held.
Begin(w) ==
  LET k == hand[w][1] IN
  /\ wpc[w] = "locked"
  /\ stage' = [stage EXCEPT ![k] = "processing"]
  /\ redone' = [redone EXCEPT ![k] = @ \/ final[k]]
  /\ runs' = [runs EXCEPT ![k] = @ + 1]
  /\ wpc' = [wpc EXCEPT ![w] = "sending"]
  /\ UNCHANGED <<lists, procs, hand, plock, robbed, feed, final, accepted, answered, moved, counts>>

\* ProcessSendToSUNAT records a final outcome, or finds one and leaves the row.
SendEnds(w) ==
  LET k == hand[w][1] IN
  /\ wpc[w] = "sending"
  /\ stage' = [stage EXCEPT ![k] = IF final[k] THEN @ ELSE "final"]
  /\ final' = [final EXCEPT ![k] = TRUE]
  /\ wpc' = [wpc EXCEPT ![w] = "succeeded"]
  /\ UNCHANGED <<lists, procs, hand, plock, robbed, feed, history, counts>>

\* ProcessSendToSUNAT returns an error: before it touched the row (the fiscal
\* lock is held, no quota is left) or after it marked the row failed.
SendFails(w) ==
  LET k == hand[w][1] IN
  /\ wpc[w] = "sending"
  /\ ~final[k]
  /\ \/ stage' = [stage EXCEPT ![k] = "failed"]
     \/ UNCHANGED stage
  /\ wpc' = [wpc EXCEPT ![w] = "failed"]
  /\ UNCHANGED <<lists, procs, hand, plock, robbed, feed, final, history, counts>>

\* Another operation on the sale (a manual send) records its final outcome.
FinalElsewhere(k) ==
  /\ stage[k] # "none"
  /\ ~final[k]
  /\ final' = [final EXCEPT ![k] = TRUE]
  /\ stage' = [stage EXCEPT ![k] = "final"]
  /\ UNCHANGED <<lists, procs, work, feed, history, counts>>

\* Mutant of Judge: off by one, the last retry is armed for an attempt nobody makes.
JudgeLate(w) ==
  /\ wpc[w] = "failed"
  /\ wpc' = [wpc EXCEPT ![w] = IF final[hand[w][1]] THEN "succeeded" ELSE "retrying"]
  /\ UNCHANGED <<lists, procs, hand, plock, robbed, feed, row, history, counts>>

\* ProcessJob reads the row again; processOne counts the attempt.
Judge(w) ==
  /\ wpc[w] = "failed"
  /\ wpc' = [wpc EXCEPT ![w] = IF final[hand[w][1]] THEN "succeeded"
                               ELSE IF hand[w][2] + 1 >= MaxRetries THEN "burying"
                               ELSE "retrying"]
  /\ UNCHANGED <<lists, procs, hand, plock, robbed, feed, row, history, counts>>

\* markJobDeadLetter and pushDeadLetter, before the acknowledgement.
Bury(w) ==
  /\ wpc[w] = "burying"
  /\ stage' = [stage EXCEPT ![hand[w][1]] = "dead"]
  /\ wpc' = [wpc EXCEPT ![w] = "buried"]
  /\ UNCHANGED <<lists, procs, hand, plock, robbed, feed, final, history, counts>>

\* The job ends, sent or buried, and is acknowledged.
Settle(w) ==
  /\ wpc[w] \in {"succeeded", "buried"}
  /\ Ack(w)
  /\ answered' = [answered EXCEPT ![hand[w][1]] = TRUE]
  /\ wpc' = [wpc EXCEPT ![w] = "unlocking"]
  /\ UNCHANGED <<queued, timers, procs, hand, plock, robbed, feed, row,
                 accepted, redone, moved, runs, counts>>

\* The LREM fails and its error is discarded: the entry stays in the list.
SettleUnacked(w) ==
  /\ wpc[w] \in {"succeeded", "buried"}
  /\ faults < MaxFaults
  /\ faults' = faults + 1
  /\ answered' = [answered EXCEPT ![hand[w][1]] = TRUE]
  /\ wpc' = [wpc EXCEPT ![w] = "unlocking"]
  /\ UNCHANGED <<lists, procs, hand, plock, robbed, feed, row,
                 accepted, redone, moved, runs, expiries>>

\* Mutant of Retry: the retry carries the attempt it was made from.
RetrySameAttempt(w) ==
  /\ wpc[w] = "retrying"
  /\ runs[hand[w][1]] < 4 * MaxRetries
  /\ Ack(w)
  /\ timers' = [timers EXCEPT ![Home[w]][hand[w]] = @ + 1]
  /\ wpc' = [wpc EXCEPT ![w] = "unlocking"]
  /\ UNCHANGED <<queued, procs, hand, plock, robbed, feed, row, history, counts>>

\* Mutant of Retry: the retry is not armed.
RetryForgotten(w) ==
  /\ wpc[w] = "retrying"
  /\ Ack(w)
  /\ wpc' = [wpc EXCEPT ![w] = "unlocking"]
  /\ UNCHANGED <<queued, timers, procs, hand, plock, robbed, feed, row, history, counts>>

\* scheduleRetry: acknowledge, then wait in a timer of this process.
Retry(w) ==
  LET next == <<hand[w][1], hand[w][2] + 1>> IN
  /\ wpc[w] = "retrying"
  /\ Ack(w)
  /\ timers' = [timers EXCEPT ![Home[w]][next] = @ + 1]
  /\ wpc' = [wpc EXCEPT ![w] = "unlocking"]
  /\ UNCHANGED <<queued, procs, hand, plock, robbed, feed, row, history, counts>>

\* The same with an LREM that fails: the retry and the entry are two copies.
RetryUnacked(w) ==
  LET next == <<hand[w][1], hand[w][2] + 1>> IN
  /\ wpc[w] = "retrying"
  /\ faults < MaxFaults
  /\ faults' = faults + 1
  /\ timers' = [timers EXCEPT ![Home[w]][next] = @ + 1]
  /\ wpc' = [wpc EXCEPT ![w] = "unlocking"]
  /\ UNCHANGED <<queued, processing, procs, hand, plock, robbed, feed, row, history, expiries>>

\* The deferred DEL, which does not look at who holds the lock.
Unlock(w) ==
  LET k == hand[w][1] IN
  /\ wpc[w] = "unlocking"
  /\ plock' = [plock EXCEPT ![k] = None]
  /\ robbed' = (robbed \cup {v \in Holding(k) : plock[k] = v}) \ {w}
  /\ wpc' = [wpc EXCEPT ![w] = "idle"]
  /\ hand' = [hand EXCEPT ![w] = None]
  /\ UNCHANGED <<lists, procs, feed, row, history, counts>>

\* The lock's TTL runs out: always behind a worker that is gone, and within
\* the bound under one that is still inside.
LockExpires(k) ==
  LET w == plock[k] IN
  /\ w # None
  /\ IF w \in Holding(k)
       THEN /\ expiries < MaxExpiries
            /\ expiries' = expiries + 1
            /\ robbed' = robbed \cup {w}
       ELSE UNCHANGED <<expiries, robbed>>
  /\ plock' = [plock EXCEPT ![k] = None]
  /\ UNCHANGED <<lists, procs, wpc, hand, feed, row, history, faults>>

\* A retry timer of process i puts its payload back in the queue.
TimerFires(i, p) ==
  /\ mode[i] # "down"
  /\ timers[i][p] > 0
  /\ timers' = [timers EXCEPT ![i][p] = @ - 1]
  /\ queued' = [queued EXCEPT ![p] = @ + 1]
  /\ UNCHANGED <<processing, procs, work, feed, row, history, counts>>

\* Its LPUSH fails: the error is discarded, and the job with it.
TimerLost(i, p) ==
  /\ mode[i] # "down"
  /\ timers[i][p] > 0
  /\ faults < MaxFaults
  /\ faults' = faults + 1
  /\ timers' = [timers EXCEPT ![i][p] = @ - 1]
  /\ UNCHANGED <<queued, processing, procs, work, feed, row, history, expiries>>

-----------------------------------------------------------------------------
\* The process ends (a crash, or a stop that does not wait for its timers) and
\* starts again.

End(i) ==
  /\ mode[i] # "down"
  /\ faults < MaxFaults
  /\ faults' = faults + 1
  /\ mode' = [mode EXCEPT ![i] = "down"]
  /\ carry' = [carry EXCEPT ![i] = None]
  /\ timers' = [timers EXCEPT ![i] = [p \in Payloads |-> 0]]
  /\ wpc' = [w \in Workers |-> IF Home[w] = i THEN "idle" ELSE wpc[w]]
  /\ hand' = [w \in Workers |-> IF Home[w] = i THEN None ELSE hand[w]]
  /\ robbed' = {w \in robbed : Home[w] # i}
  /\ UNCHANGED <<queued, processing, plock, feed, row, history, expiries>>

Start(i) ==
  /\ mode[i] = "down"
  /\ mode' = [mode EXCEPT ![i] = "recovering"]
  /\ UNCHANGED <<lists, carry, work, feed, row, history, counts>>

\* recoverStuckProcessing pops an entry, whoever is processing it...
RecoverPop(i, p) ==
  /\ mode[i] = "recovering" /\ carry[i] = None
  /\ processing[p] > 0
  /\ processing' = [processing EXCEPT ![p] = @ - 1]
  /\ carry' = [carry EXCEPT ![i] = p]
  /\ IF \E w \in Workers : hand[w] = p /\ wpc[w] \in Unacked
       THEN moved < MaxMoved /\ moved' = moved + 1
       ELSE UNCHANGED moved
  /\ UNCHANGED <<queued, timers, mode, work, feed, row, accepted, answered, redone, runs, counts>>

\* ... and pushes it to the queue.
RecoverPush(i) ==
  /\ mode[i] = "recovering" /\ carry[i] # None
  /\ queued' = [queued EXCEPT ![carry[i]] = @ + 1]
  /\ carry' = [carry EXCEPT ![i] = None]
  /\ UNCHANGED <<processing, timers, mode, work, feed, row, history, counts>>

\* Mutant of RecoverEnds: the workers start without waiting for the list.
RecoverNothing(i) ==
  /\ mode[i] = "recovering" /\ carry[i] = None
  /\ mode' = [mode EXCEPT ![i] = "up"]
  /\ UNCHANGED <<lists, carry, work, feed, row, history, counts>>

\* The list is empty: the workers start.
RecoverEnds(i) ==
  /\ mode[i] = "recovering" /\ carry[i] = None
  /\ \A p \in Payloads : processing[p] = 0
  /\ mode' = [mode EXCEPT ![i] = "up"]
  /\ UNCHANGED <<lists, carry, work, feed, row, history, counts>>

-----------------------------------------------------------------------------

WorkerStep(w) ==
  \/ Lock(w) \/ LockHeld(w) \/ Return(w) \/ Begin(w) \/ SendEnds(w) \/ SendFails(w)
  \/ Judge(w) \/ Bury(w) \/ Settle(w) \/ Retry(w) \/ Unlock(w)

RequestStep(r) == ClaimEnqueue(r) \/ RecordPending(r) \/ Push(r)

RecoverStep(i) ==
  Start(i) \/ RecoverPush(i) \/ RecoverEnds(i) \/ \E p \in Payloads : RecoverPop(i, p)

QueueNext ==
  \/ \E w \in Workers : \/ WorkerStep(w) \/ LockFails(w) \/ ReturnFails(w)
                        \/ SettleUnacked(w) \/ RetryUnacked(w)
  \/ \E w \in Workers, p \in Payloads : Take(w, p)
  \/ \E r \in Requests : RequestStep(r) \/ PushFails(r)
  \/ \E k \in Keys : ClaimExpires(k) \/ LockExpires(k) \/ FinalElsewhere(k)
  \/ \E i \in Instances, p \in Payloads : TimerFires(i, p) \/ TimerLost(i, p)
  \/ \E i \in Instances : End(i) \/ RecoverStep(i)

QueueSpec == QueueInit /\ [][QueueNext]_queueVars

\* Fairness the process gives: its goroutines and timers go on, the container
\* is restarted, Redis runs TTLs out, and BRPOPLPUSH serves the queue in order
\* (a payload that is offered again and again is taken).
FairQueueSpec ==
  /\ QueueSpec
  /\ \A w \in Workers : WF_queueVars(WorkerStep(w))
  /\ \A i \in Instances : WF_queueVars(RecoverStep(i))
  /\ \A i \in Instances, p \in Payloads : WF_queueVars(TimerFires(i, p))
  /\ \A p \in Payloads : SF_queueVars(\E w \in Workers : Take(w, p))
  /\ \A k \in Keys : WF_queueVars(LockExpires(k))

-----------------------------------------------------------------------------

QueueTypeOK ==
  /\ queued \in [Payloads -> Nat]
  /\ processing \in [Payloads -> Nat]
  /\ timers \in [Instances -> [Payloads -> Nat]]
  /\ mode \in [Instances -> {"up", "down", "recovering"}]
  /\ carry \in [Instances -> Payloads \cup {None}]
  /\ wpc \in [Workers -> Phases]
  /\ hand \in [Workers -> Payloads \cup {None}]
  /\ \A w \in Workers : hand[w] = None <=> wpc[w] = "idle"
  /\ \A w \in Workers : wpc[w] = "retrying" => hand[w][2] + 1 < MaxRetries
  /\ plock \in [Keys -> Workers \cup {None}]
  /\ robbed \subseteq Workers
  /\ claimed \in [Keys -> BOOLEAN]
  /\ rpc \in [Requests -> Requesting]
  /\ stage \in [Keys -> Stages]
  /\ final \in [Keys -> BOOLEAN]
  /\ accepted \in [Keys -> BOOLEAN]
  /\ answered \in [Keys -> BOOLEAN]
  /\ redone \in [Keys -> BOOLEAN]
  /\ moved \in Nat
  /\ runs \in [Keys -> Nat]
  /\ pushes \in [Keys -> Nat]
  /\ expiries \in Nat
  /\ faults \in Nat

\* The processing lock: two workers run jobs of one sale together only if the
\* lock of one of them ran out, or was deleted by a worker that had outlived
\* its own (processOne's deferred DEL compares nothing).
OneProcessorPerSale ==
  \A k \in Keys : \A v, w \in Holding(k) \ robbed : v = w

\* The workers that hold payload p and have not acknowledged it.
Unfinished(p) == {w \in Workers : hand[w] = p /\ wpc[w] \in Unacked}

\* The reliable-queue pattern of BRPOPLPUSH: as long as no start-up moved the
\* entry of a job in progress (Start recovers the list of every live instance,
\* not only its own), each job being processed has an entry of its own in the
\* processing list, so a crash of its worker leaves it recoverable.
WorkIsBacked ==
  moved = 0 => \A p \in Payloads : processing[p] >= Cardinality(Unfinished(p))

\* A retry never begins an attempt past BillingMaxRetries: unless a start-up
\* duplicated a job in progress, the processor runs at most MaxRetries times
\* per successful Enqueue.  A failed command can leave a second copy of the
\* job, with all its attempts, and a process that ends costs its workers the
\* attempt they were making: one worker per sale, and those that locks which
\* ran out let in.
RunsBounded ==
  moved = 0 => \A k \in Keys :
    runs[k] <= MaxRetries * (pushes[k] + faults) + faults * expiries

\* A copy of a job of key k exists somewhere.
Live(k) ==
  \/ \E p \in Payloads : p[1] = k /\ (queued[p] > 0 \/ processing[p] > 0)
  \/ \E i \in Instances, p \in Payloads : p[1] = k /\ timers[i][p] > 0
  \/ \E i \in Instances : carry[i] # None /\ carry[i][1] = k
  \/ \E w \in Workers : /\ hand[w] # None /\ hand[w][1] = k
                        /\ wpc[w] \in Unacked \cup {"returning"}

\* A row that waits or is being processed has something that will move it on:
\* a job, or a request about to push one.  Faults break it, and so does a
\* second job that begins after the row was final: ProcessJob overwrites the
\* final stage with PROCESSING and, finding the outcome, leaves it there.
WaitingRowHasJob ==
  \A k \in Keys :
    faults = 0 /\ stage[k] \in {"pending", "processing"} /\ ~redone[k]
      => Live(k) \/ \E r \in Requests : Sale[r] = k /\ rpc[r] = "recorded"

-----------------------------------------------------------------------------
\* The queue keeps the promise of JobDelivery.

JobStatus ==
  [k \in Keys |-> CASE ~accepted[k] -> "none"
                    [] accepted[k] /\ answered[k] -> "settled"
                    [] accepted[k] /\ ~answered[k] /\ Live(k) -> "owed"
                    [] OTHER -> "lost"]

JD == INSTANCE JobDelivery WITH status <- JobStatus

\* Every step of the queue is a step the promise allows: only a fault loses a
\* job whose Enqueue succeeded.
KeepsPromise == JD!Delivery

\* Every job whose Enqueue succeeded is ended, or lost to a fault.
JobsAreAnswered == JD!Answered
=============================================================================

--------------------------- MODULE FiscalEmission ---------------------------
(***************************************************************************)
(* The electronic emission of one sale: the HTTP requests that send it     *)
(* (processSendToSUNAT), the callers that enqueue it (EnqueueSendToSUNAT), *)
(* the workers of the Redis fiscal queue, the reconcile cron and the       *)
(* webhooks of the facturador, all of them on the same tenant_invoices and *)
(* tenant_sales rows.  Each action is one statement that touches shared    *)
(* state (a Redis command, a read of a row, an UPDATE, an HTTP call), so   *)
(* the threads interleave wherever the code lets them.                     *)
(*                                                                         *)
(* The lock is FiscalLock's; the steps that take or drop it are its steps. *)
(***************************************************************************)
EXTENDS FiscalLock, BillingState, Integers

CONSTANTS
  Senders,      \* ManualSendToSUNAT and ManualResendToSUNAT requests
  Enqueuers,    \* EnqueueSendToSUNAT calls after a sale, a note, a resend
  Workers,      \* fiscalqueue workers
  Reconcilers,  \* the reconcile cron (cronlock lets one run at a time)
  Hooks,        \* handlers of POST /api/internal/fiscal/status
  Presyncers,   \* senders and enqueuers that first synchronise, without the lock
  Resends,      \* enqueuers whose source allows a resend (enqueueAllowResend)
  Draft,        \* the sale is a note: its row already exists at DRAFT
  SlowCron,     \* the cron's 7 min are long against the queue's 2 s retries
  Answers,      \* statuses the facturador gives this document
  CrashGroups,  \* sets of threads that stop together (the ERP instances)
  MaxFaults,    \* bound on failed calls, crashes and lost events
  MaxClaimTTLs  \* bound on expiries of the 120 s enqueue claim

Threads == Ops \cup Hooks

ASSUME OpsAssumption ==
  /\ Ops = Senders \cup Enqueuers \cup Workers \cup Reconcilers
  /\ Senders \cap Enqueuers = {}
  /\ (Senders \cup Enqueuers) \cap Workers = {}
  /\ (Senders \cup Enqueuers \cup Workers) \cap Reconcilers = {}
  /\ Ops \cap Hooks = {}
  /\ Presyncers \subseteq Senders \cup Enqueuers
  /\ Resends \subseteq Enqueuers
ASSUME EmissionAssumption ==
  /\ Draft \in BOOLEAN /\ SlowCron \in BOOLEAN
  /\ Answers \subseteq {"retrying", "accepted", "observed", "rejected", "error"}
  /\ CrashGroups \subseteq SUBSET Threads
  /\ MaxFaults \in Nat /\ MaxClaimTTLs \in Nat

VARIABLES
  inv,        \* row of tenant_invoices
  sale,       \* tenant_sales.billing_status
  reserved,   \* the document's quota slot has been consumed (docusage)
  fis,        \* external: status of the document in the facturador
  wire,       \* external: webhooks on their way
  dedup,      \* webhook event ids marked as processed (TTL 72 h)
  queue,      \* jobs of this sale in the Redis list
  claim,      \* the enqueue claim key exists
  retries,    \* jobs held by scheduleFiscalRetry timers
  faults, claimTTLs,
  pc, row, pay, then, seen  \* per thread: next statement, row read, payload,
                            \* statement after a synchronisation, sale read

db    == <<inv, sale, reserved>>
net   == <<fis, wire, dedup>>
jobs  == <<queue, claim, retries>>
caps  == <<faults, claimTTLs>>
local == <<row, pay, then, seen>>
emissionVars == <<lockVars, db, net, jobs, caps, pc, local>>

Labels == {"idle", "presync", "recheck", "prepare", "refused", "fetch", "read", "save",
           "sale", "classify", "reserve", "guard", "mark", "emit", "persist",
           "persistWrite", "saleCheck", "saleWrite", "settle", "settleWrite", "settled",
           "sent", "failRow", "release", "abort", "resync", "stale", "wait", "unlock",
           "claim", "tx", "push", "pushed", "pushFailed", "dropClaim", "recLock",
           "recCheck", "recEnd", "requeue", "recRelease", "done"}

Go(t, label) == pc' = [pc EXCEPT ![t] = label]

At(t, label) == pc[t] = label

Fault == faults < MaxFaults /\ faults' = faults + 1 /\ UNCHANGED claimTTLs

\* What follows an operation's last statement.
Finish(o) ==
  CASE o \in Workers     -> "idle"
    [] o \in Reconcilers -> "recRelease"
    [] OTHER             -> "done"

AllowResend(o) == o \notin Enqueuers \/ o \in Resends

\* Phase of the row in the view PrepareFiscalOperation classifies.
Phase(r) == IF r.exists THEN DisplayPhaseFromPipeline(ViewPipeline(r)) ELSE "pending"

AcceptedPhase(r) == Phase(r) \in {"accepted", "observed"}

\* The calling statement continues with SyncSaleWithSSOT and then with label.
Sync(o, label) ==
  IF inv.exists
    THEN Go(o, "fetch") /\ then' = [then EXCEPT ![o] = label]
    ELSE Go(o, label) /\ UNCHANGED then

EmissionInit ==
  /\ LockInit
  /\ inv = IF Draft THEN NewInvoice("DRAFT", FALSE) ELSE NoInvoice
  /\ sale = "pending"
  /\ reserved = FALSE
  /\ fis = "none" /\ wire = {} /\ dedup = {}
  /\ queue = 0 /\ claim = FALSE /\ retries = 0
  /\ faults = 0 /\ claimTTLs = 0
  /\ pc = [t \in Threads |-> IF t \in Presyncers THEN "presync"
                             ELSE IF t \in Senders \cup Enqueuers THEN "prepare" ELSE "idle"]
  /\ row = [t \in Threads |-> NoInvoice]
  /\ pay = [t \in Threads |-> "none"]
  /\ then = [t \in Threads |-> "idle"]
  /\ seen = [t \in Threads |-> "pending"]

-----------------------------------------------------------------------------
\* Preparation: lock, synchronisation with the facturador, classification.

Presync(o) ==
  /\ At(o, "presync")
  /\ Sync(o, "recheck")
  /\ UNCHANGED <<lockVars, db, net, jobs, caps, row, pay, seen>>

\* ManualResendToSUNAT and ResendTenantPending stop when the
\* synchronisation shows an accepted document.
Recheck(o) ==
  /\ At(o, "recheck")
  /\ IF AcceptedPhase(inv) THEN Go(o, "done") /\ UNCHANGED then
     ELSE IF inv.exists /\ (HasAcceptanceEvidence(inv) \/ EffectiveBillingStatus(sale, inv) = "accepted")
       THEN Sync(o, "done")
       ELSE Go(o, "prepare") /\ UNCHANGED then
  /\ UNCHANGED <<lockVars, db, net, jobs, caps, row, pay, seen>>

\* PrepareFiscalOperation with a free key, up to the read of the row.
PrepareAcquire(o) ==
  /\ At(o, "prepare")
  /\ Acquire(o)
  /\ Sync(o, "classify")
  /\ UNCHANGED <<db, net, jobs, caps, row, pay, seen>>

\* Mutant of PrepareRefuse: a refused TryAcquire is not an early return.
PrepareRegardless(o) ==
  /\ At(o, "prepare")
  /\ lock # None
  /\ phase' = [phase EXCEPT ![o] = "inside"]
  /\ Sync(o, "classify")
  /\ UNCHANGED <<lock, holder, robbed, db, net, jobs, caps, row, pay, seen>>

PrepareRefuse(o) ==
  /\ At(o, "prepare")
  /\ Refuse(o)
  /\ Go(o, "refused")
  /\ UNCHANGED <<db, net, jobs, caps, local>>

\* Mutant of Refused: the worker drops the job it could not lock.
RefusedDropsJob(o) ==
  /\ At(o, "refused")
  /\ Release(o)
  /\ Go(o, Finish(o))
  /\ UNCHANGED <<db, net, jobs, caps, local>>

\* The caller of a refused operation returns: a worker schedules the job
\* again, and the deferred ReleaseLock runs for every caller.
Refused(o) ==
  /\ At(o, "refused")
  /\ Release(o)
  /\ Go(o, Finish(o))
  /\ retries' = IF o \in Workers THEN retries + 1 ELSE retries
  /\ UNCHANGED <<db, net, queue, claim, caps, local>>

\* Payloads a synchronisation may apply: the reconcile cron takes final
\* statuses only, the wait of a manual send also takes a configuration error
\* reported while the facturador retries, as "error".
Fetched(o) ==
  IF fis = "none" THEN {}
  ELSE CASE then[o] = "recEnd" -> {s \in {fis} : IsFiscalTerminalStatus(s)}
         [] then[o] = "wait"   -> {s \in {fis} : IsFiscalTerminalStatus(s)}
                                    \cup (IF fis = "retrying" THEN {"error"} ELSE {})
         [] OTHER              -> {fis}

\* Where a synchronisation that applied nothing leads.
Missed(label) ==
  CASE label = "settled" -> "sent"
    [] label = "recEnd"  -> "requeue"
    [] OTHER             -> label

\* fetchAndApplyFiscalDocument finds the document, stores its uuid and calls
\* ApplyStatus.
Fetch(o) ==
  /\ At(o, "fetch")
  /\ \E s \in Fetched(o) : pay' = [pay EXCEPT ![o] = s]
  /\ inv' = [inv EXCEPT !.ext = TRUE]
  /\ Go(o, "read")
  /\ UNCHANGED <<lockVars, sale, reserved, net, jobs, caps, row, then, seen>>

\* Nothing to apply (no document, a filtered status) ...
FetchMiss(o) ==
  /\ At(o, "fetch")
  /\ Fetched(o) = {} \/ (then[o] = "wait" /\ fis = "retrying")
  /\ inv' = [inv EXCEPT !.ext = @ \/ fis # "none"]
  /\ Go(o, Missed(then[o]))
  /\ then' = [then EXCEPT ![o] = "idle"]
  /\ UNCHANGED <<lockVars, sale, reserved, net, jobs, caps, row, pay, seen>>

\* ... or the facturador does not answer.
FetchFails(o) ==
  /\ At(o, "fetch")
  /\ Fault
  /\ Go(o, Missed(then[o]))
  /\ then' = [then EXCEPT ![o] = "idle"]
  /\ UNCHANGED <<lockVars, db, net, jobs, row, pay, seen>>

\* classifyAfterSync.
Classify(o) ==
  /\ At(o, "classify")
  /\ IF AcceptedPhase(inv)
       THEN Go(o, IF o \in Senders THEN "stale" ELSE "release")
     ELSE IF ~AllowResend(o) /\ Phase(inv) \in {"rejected", "queued", "sending", "retrying"}
       THEN Go(o, "abort")
     ELSE Go(o, IF o \in Workers THEN "emit" ELSE "reserve")
  /\ UNCHANGED <<lockVars, db, net, jobs, caps, local>>

-----------------------------------------------------------------------------
\* ApplyStatus, by whichever thread: read or create the row, save the whole
\* row, update the sale.

ApplyRead(t) ==
  /\ At(t, "read")
  /\ LET mapped == MapFiscalStatusToPipeline(pay[t], CodeOf(pay[t]))
     IN inv' = IF inv.exists THEN inv ELSE NewInvoice(mapped, TRUE)
  /\ row' = [row EXCEPT ![t] = inv']
  /\ Go(t, "save")
  /\ UNCHANGED <<lockVars, sale, reserved, net, jobs, caps, pay, then, seen>>

ApplySave(t) ==
  /\ At(t, "save")
  /\ inv' = AppliedRow(row[t], pay[t])
  /\ row' = [row EXCEPT ![t] = inv']
  /\ Go(t, "sale")
  /\ UNCHANGED <<lockVars, sale, reserved, net, jobs, caps, pay, then, seen>>

\* SyncSaleBillingStatus with the stage of the row just written.
SyncSale(t) ==
  /\ At(t, "sale")
  /\ sale' = LegacyBillingStatus(row[t].pipeline)
  /\ Go(t, then[t])
  /\ row' = [row EXCEPT ![t] = NoInvoice]
  /\ pay' = [pay EXCEPT ![t] = "none"]
  /\ then' = [then EXCEPT ![t] = "idle"]
  /\ UNCHANGED <<lockVars, inv, reserved, net, jobs, caps, seen>>

-----------------------------------------------------------------------------
\* Sending: processSendToSUNAT after Prepare, and EmitFiscal for a worker.

\* Mutant of Reserve: the slot is taken after emitting, so never here.
ReserveLater(o) ==
  /\ At(o, "reserve")
  /\ Go(o, IF o \in Senders THEN "guard" ELSE "unlock")
  /\ UNCHANGED <<lockVars, inv, sale, reserved, net, jobs, caps, local>>

\* reserveSaleDocument: idempotent; without a slot left the operation ends.
Reserve(o) ==
  /\ At(o, "reserve")
  /\ \/ /\ reserved' = TRUE
        /\ Go(o, IF o \in Senders THEN "guard" ELSE "unlock")
     \/ /\ ~reserved
        /\ Go(o, "abort")
        /\ UNCHANGED reserved
  /\ UNCHANGED <<lockVars, inv, sale, net, jobs, caps, local>>

\* executeFiscalSend: an accepted row with its evidence is not sent again.
SendGuard(o) ==
  /\ At(o, "guard")
  /\ Go(o, IF HasFinalSunatOutcome(inv) /\ HasAcceptanceEvidence(inv) THEN "release" ELSE "mark")
  /\ UNCHANGED <<lockVars, db, net, jobs, caps, local>>

\* TransitionPipeline(PROCESSING).
Mark(o) ==
  /\ At(o, "mark")
  /\ inv' = IF inv.exists THEN [inv EXCEPT !.pipeline = "PROCESSING", !.job = "processing"] ELSE inv
  /\ Go(o, "emit")
  /\ UNCHANGED <<lockVars, sale, reserved, net, jobs, caps, local>>

\* External: the facturador receives an emission.  It is idempotent per
\* document and may start again one that ended in error or rejection.
FisReceives ==
  /\ \/ fis' = "queued" /\ fis \in {"none", "error", "rejected"}
     \/ fis' = fis /\ fis # "none"
  /\ \/ wire' = wire
     \/ fis' # fis /\ wire' = wire \cup {"queued"}
  /\ UNCHANGED dedup

Emit(o) ==
  /\ At(o, "emit")
  /\ FisReceives
  /\ Go(o, "persist")
  /\ UNCHANGED <<lockVars, db, jobs, caps, local>>

\* The call fails; the facturador may have received it all the same.
EmitFails(o) ==
  /\ At(o, "emit")
  /\ Fault
  /\ FisReceives \/ UNCHANGED net
  /\ Go(o, IF o \in Senders THEN "abort" ELSE "failRow")
  /\ UNCHANGED <<lockVars, db, jobs, local>>

\* ProcessJob's row after a failed emission.
FailRow(o) ==
  /\ At(o, "failRow")
  /\ inv' = IF inv.exists THEN [inv EXCEPT !.pipeline = "FAILED", !.job = "failed"] ELSE inv
  /\ row' = [row EXCEPT ![o] = [NoInvoice EXCEPT !.pipeline = "FAILED"]]
  /\ then' = [then EXCEPT ![o] = "release"]
  /\ Go(o, "sale")
  /\ UNCHANGED <<lockVars, sale, reserved, net, jobs, caps, pay, seen>>

AfterPersist(o) == IF o \in Senders THEN "settle" ELSE "release"

\* persistInvoiceAfterEmit: the row, created at PENDING_FISCAL if missing,
\* is read; a final outcome gets the metadata only.
Persist(o) ==
  /\ At(o, "persist")
  /\ LET read == IF inv.exists THEN inv ELSE NewInvoice("PENDING_FISCAL", FALSE)
     IN IF HasFinalSunatOutcome(read)
          THEN /\ inv' = [read EXCEPT !.ext = TRUE]
               /\ Go(o, AfterPersist(o))
          ELSE /\ inv' = read
               /\ Go(o, "persistWrite")
  /\ UNCHANGED <<lockVars, sale, reserved, net, jobs, caps, local>>

PersistWrite(o) ==
  /\ At(o, "persistWrite")
  /\ inv' = [inv EXCEPT !.pipeline = "FACTURADOR_RECEIVED", !.job = "sent",
                        !.sunat = "pending", !.ext = TRUE, !.sent = TRUE]
  /\ Go(o, "saleCheck")
  /\ UNCHANGED <<lockVars, sale, reserved, net, jobs, caps, local>>

SaleCheck(o) ==
  /\ At(o, "saleCheck")
  /\ Go(o, IF ~HasFinalSunatOutcome(inv) /\ sale \notin {"accepted", "rejected"}
             THEN "saleWrite" ELSE AfterPersist(o))
  /\ UNCHANGED <<lockVars, db, net, jobs, caps, local>>

SaleWrite(o) ==
  /\ At(o, "saleWrite")
  /\ sale' = LegacyBillingStatus("PENDING_FISCAL")
  /\ Go(o, AfterPersist(o))
  /\ UNCHANGED <<lockVars, inv, reserved, net, jobs, caps, local>>

\* executeFiscalSend reloads the row and decides what to record ...
Settle(o) ==
  /\ At(o, "settle")
  /\ CASE HasAcceptanceEvidence(inv) ->
            /\ row' = [row EXCEPT ![o] = [inv EXCEPT !.pipeline = "SUNAT_ACCEPTED", !.job = "sent"]]
            /\ then' = [then EXCEPT ![o] = "release"]
            /\ Go(o, "settleWrite")
       [] ~HasAcceptanceEvidence(inv) /\ inv.pipeline = "SUNAT_REJECTED" ->
            /\ row' = [row EXCEPT ![o] = [inv EXCEPT !.job = "failed"]]
            /\ then' = [then EXCEPT ![o] = "abort"]
            /\ Go(o, "settleWrite")
       [] ~HasAcceptanceEvidence(inv) /\ inv.pipeline \in {"SUNAT_ACCEPTED", "OBSERVED"} ->
            /\ Go(o, "release")
            /\ UNCHANGED <<row, then>>
       [] ~HasAcceptanceEvidence(inv) /\ inv.pipeline \in {"FACTURADOR_RECEIVED", "PENDING_FISCAL"} ->
            /\ Go(o, "fetch")
            /\ then' = [then EXCEPT ![o] = "settled"]
            /\ UNCHANGED row
       [] OTHER ->
            /\ row' = [row EXCEPT ![o] = [inv EXCEPT !.pipeline = "UNKNOWN", !.job = "failed"]]
            /\ then' = [then EXCEPT ![o] = "abort"]
            /\ Go(o, "settleWrite")
  /\ UNCHANGED <<lockVars, db, net, jobs, caps, pay, seen>>

\* ... and updates those columns; a rejection only changes job_status.
SettleWrite(o) ==
  /\ At(o, "settleWrite")
  /\ inv' = [inv EXCEPT !.job = row[o].job,
                        !.pipeline = IF row[o].pipeline = "SUNAT_REJECTED" THEN @ ELSE row[o].pipeline]
  /\ Go(o, "sale")
  /\ UNCHANGED <<lockVars, sale, reserved, net, jobs, caps, local>>

\* The immediate synchronisation after the emission applied something.
Settled(o) ==
  /\ At(o, "settled")
  /\ Go(o, IF HasFinalSunatOutcome(inv) THEN "release" ELSE "sent")
  /\ UNCHANGED <<lockVars, db, net, jobs, caps, local>>

MarkSent(o) ==
  /\ At(o, "sent")
  /\ inv' = [inv EXCEPT !.job = "sent"]
  /\ Go(o, "release")
  /\ UNCHANGED <<lockVars, sale, reserved, net, jobs, caps, local>>

\* ReleaseLock: a sender goes on waiting for the outcome when it has sent
\* ("release"), synchronises once more when the document was already
\* accepted ("stale"), and returns when it failed ("abort").
FinishPrepared(o) ==
  /\ pc[o] \in {"release", "stale", "abort"}
  /\ IF o \in Reconcilers THEN NestedRelease(o) ELSE Release(o)
  /\ Go(o, CASE o \in Senders /\ At(o, "release") -> "wait"
             [] o \in Senders /\ At(o, "stale")   -> "resync"
             [] OTHER                             -> Finish(o))
  /\ UNCHANGED <<db, net, jobs, caps, local>>

Resync(o) ==
  /\ At(o, "resync")
  /\ Sync(o, "done")
  /\ UNCHANGED <<lockVars, db, net, jobs, caps, row, pay, seen>>

\* waitForFacturadorOutcome: polls without the lock until the row is final
\* or 90 s have passed.
WaitPoll(o) ==
  /\ At(o, "wait")
  /\ ~HasFinalSunatOutcome(inv)
  /\ Sync(o, "wait")
  /\ UNCHANGED <<lockVars, db, net, jobs, caps, row, pay, seen>>

WaitEnds(o) ==
  /\ At(o, "wait")
  /\ Go(o, "done")
  /\ UNCHANGED <<lockVars, db, net, jobs, caps, local>>

-----------------------------------------------------------------------------
\* Enqueuing: EnqueueSendToSUNAT drops the lock and calls EnqueueFiscalEmit.

Unlock(o) ==
  /\ At(o, "unlock")
  /\ IF o \in Reconcilers THEN NestedRelease(o) ELSE Release(o)
  /\ Go(o, "claim")
  /\ UNCHANGED <<db, net, jobs, caps, local>>

\* Mutant of TryClaim: GET instead of SETNX.
ReadClaim(o) ==
  /\ At(o, "claim")
  /\ Go(o, IF claim THEN Finish(o) ELSE "tx")
  /\ UNCHANGED <<lockVars, db, net, jobs, caps, local>>

TryClaim(o) ==
  /\ At(o, "claim")
  /\ Go(o, IF claim THEN Finish(o) ELSE "tx")
  /\ claim' = TRUE
  /\ UNCHANGED <<lockVars, db, net, queue, retries, caps, local>>

\* The transaction with SELECT ... FOR UPDATE; an accepted row makes the
\* caller release the claim, and the deferred function release it again.
EnqueueTx(o) ==
  /\ At(o, "tx")
  /\ IF HasFinalSunatOutcome(inv) /\ HasAcceptanceEvidence(inv)
       THEN /\ claim' = FALSE
            /\ Go(o, "dropClaim")
            /\ UNCHANGED inv
       ELSE /\ inv' = IF inv.exists
                        THEN [inv EXCEPT !.pipeline = "PENDING_FISCAL", !.job = "pending"]
                        ELSE NewInvoice("PENDING_FISCAL", FALSE)
            /\ Go(o, "push")
            /\ UNCHANGED claim
  /\ UNCHANGED <<lockVars, sale, reserved, net, queue, retries, caps, local>>

Push(o) ==
  /\ At(o, "push")
  /\ queue' = queue + 1
  /\ Go(o, "pushed")
  /\ UNCHANGED <<lockVars, db, net, claim, retries, caps, local>>

PushFails(o) ==
  /\ At(o, "push")
  /\ Fault
  /\ Go(o, "pushFailed")
  /\ UNCHANGED <<lockVars, db, net, jobs, local>>

PushFailedRow(o) ==
  /\ At(o, "pushFailed")
  /\ inv' = [inv EXCEPT !.pipeline = "FAILED", !.job = "failed"]
  /\ Go(o, "dropClaim")
  /\ UNCHANGED <<lockVars, sale, reserved, net, jobs, caps, local>>

DropClaim(o) ==
  /\ At(o, "dropClaim")
  /\ claim' = FALSE
  /\ Go(o, Finish(o))
  /\ UNCHANGED <<lockVars, db, net, queue, retries, caps, local>>

\* SyncSaleBillingStatus(PENDING_FISCAL) once the job is in the queue.
PushedSale(o) ==
  /\ At(o, "pushed")
  /\ sale' = LegacyBillingStatus("PENDING_FISCAL")
  /\ Go(o, Finish(o))
  /\ UNCHANGED <<lockVars, inv, reserved, net, jobs, caps, local>>

-----------------------------------------------------------------------------
\* The fiscal queue's workers.

\* A worker takes a job of the list (BLPOP).
Pop(o) ==
  /\ o \in Workers /\ At(o, "idle")
  /\ queue > 0
  /\ queue' = queue - 1
  /\ Go(o, "prepare")
  /\ UNCHANGED <<lockVars, db, net, claim, retries, caps, local>>

\* Mutant of RetryFires: the timer is armed again instead of pushing the job.
RetryRearmed == retries > 0 /\ UNCHANGED emissionVars

\* A retry timer fires and pushes its job.
RetryFires ==
  /\ retries > 0
  /\ retries' = retries - 1
  /\ queue' = queue + 1
  /\ UNCHANGED <<lockVars, db, net, claim, caps, pc, local>>

-----------------------------------------------------------------------------
\* ReconcileTenantPending, on this sale.

\* Mutant of RecSelect: only the rows' stages select a sale, as of a cron
\* that trusts the sale's own status.
RecSelectQueued(o) ==
  /\ o \in Reconcilers /\ At(o, "idle")
  /\ SlowCron => queue = 0 /\ retries = 0 /\ \A w \in Workers : pc[w] = "idle"
  /\ inv.exists /\ inv.pipeline \in {"PENDING_FISCAL", "PENDING_QUEUE"}
  /\ sale \notin {"accepted", "rejected"}
  /\ Go(o, "recLock")
  /\ UNCHANGED <<lockVars, db, net, jobs, caps, local>>

RecSelect(o) ==
  /\ o \in Reconcilers /\ At(o, "idle")
  /\ SlowCron => queue = 0 /\ retries = 0 /\ \A w \in Workers : pc[w] = "idle"
  /\ sale \in {"pending", "sent"} \/ (inv.exists /\ inv.pipeline \in InFlight)
  /\ sale \notin {"accepted", "rejected"}
  /\ ~inv.exists \/ inv.pipeline \notin Terminal
  /\ Go(o, "recLock")
  /\ UNCHANGED <<lockVars, db, net, jobs, caps, local>>

RecLock(o) ==
  /\ At(o, "recLock")
  /\ \/ Acquire(o) /\ Go(o, "recCheck")
     \/ lock # None /\ Go(o, "idle") /\ UNCHANGED lockVars
  /\ UNCHANGED <<db, net, jobs, caps, local>>

\* ReconcileSaleFromFacturador up to the query of the facturador.
RecCheck(o) ==
  /\ At(o, "recCheck")
  /\ IF sale \in {"accepted", "rejected"} \/ ~inv.exists \/ HasFinalSunatOutcome(inv)
       THEN Go(o, "requeue") /\ UNCHANGED <<then, seen>>
       ELSE /\ Sync(o, "recEnd")
            /\ seen' = [seen EXCEPT ![o] = sale]
  /\ UNCHANGED <<lockVars, db, net, jobs, caps, row, pay>>

\* A sale it synchronised is left with `continue`, without the Release.
RecEnd(o) ==
  /\ At(o, "recEnd")
  /\ IF sale # seen[o]
       THEN Abandon({o}) /\ Go(o, "idle")
       ELSE UNCHANGED lockVars /\ Go(o, "requeue")
  /\ seen' = [seen EXCEPT ![o] = "pending"]
  /\ UNCHANGED <<db, net, jobs, caps, row, pay, then>>

\* RequeueStaleFiscalJob's conditions (90 s without change is left open).
Stale == /\ inv.exists /\ ~inv.ext /\ inv.job = "pending"
         /\ inv.pipeline \in {"PENDING_FISCAL", "PENDING_QUEUE"}

\* Its EnqueueSendToSUNAT prepares the operation while ReconcileTenantPending
\* holds the key, under the same source.
Requeue(o) ==
  /\ At(o, "requeue")
  /\ \/ ~Stale /\ Go(o, "recRelease") /\ UNCHANGED <<lockVars, then>>
     \/ Stale /\ NestedRefusal(o) /\ Go(o, "recRelease") /\ UNCHANGED then
     \/ Stale /\ NestedAcquire(o) /\ Sync(o, "classify")
  /\ UNCHANGED <<db, net, jobs, caps, row, pay, seen>>

RecRelease(o) ==
  /\ At(o, "recRelease")
  /\ Release(o)
  /\ Go(o, "idle")
  /\ UNCHANGED <<db, net, jobs, caps, local>>

-----------------------------------------------------------------------------
\* Webhooks.  Without an event_id the event is uuid:status; its mark is put
\* before the event is processed.

HookReceive(h) ==
  /\ At(h, "idle")
  /\ \E s \in wire :
       /\ wire' = wire \ {s}
       /\ IF s \in dedup
            THEN UNCHANGED <<dedup, pc, pay>>
            ELSE /\ dedup' = dedup \cup {s}
                 /\ pay' = [pay EXCEPT ![h] = s]
                 /\ Go(h, "read")
  /\ UNCHANGED <<lockVars, db, fis, jobs, caps, row, then, seen>>

\* The tenant or its database is not available: 4xx/5xx, the mark stays and
\* the facturador sends the event again.
HookLookupFails(h) ==
  /\ At(h, "idle")
  /\ Fault
  /\ \E s \in wire \ dedup : dedup' = dedup \cup {s}
  /\ UNCHANGED <<lockVars, db, fis, wire, jobs, pc, local>>

\* ApplyStatus fails: the mark is released and the event is sent again.
HookApplyFails(h) ==
  /\ At(h, "read")
  /\ Fault
  /\ dedup' = dedup \ {pay[h]}
  /\ wire' = wire \cup {pay[h]}
  /\ pay' = [pay EXCEPT ![h] = "none"]
  /\ Go(h, "idle")
  /\ UNCHANGED <<lockVars, db, fis, jobs, row, then, seen>>

-----------------------------------------------------------------------------
\* Environment.

\* External: the facturador moves the document on and notifies the change.
FisAdvance ==
  /\ \/ fis = "queued" /\ fis' = "sending"
     \/ fis = "sending" /\ fis' \in Answers
     \/ fis = "retrying" /\ fis' = "sending"
  /\ wire' = wire \cup {fis'}
  /\ UNCHANGED <<lockVars, db, dedup, jobs, caps, pc, local>>

\* A webhook never arrives.
LoseHook ==
  /\ Fault
  /\ \E s \in wire : wire' = wire \ {s}
  /\ UNCHANGED <<lockVars, db, fis, dedup, jobs, pc, local>>

ClaimExpires ==
  /\ claim /\ claimTTLs < MaxClaimTTLs
  /\ claim' = FALSE
  /\ claimTTLs' = claimTTLs + 1
  /\ UNCHANGED <<lockVars, db, net, queue, retries, faults, pc, local>>

LockExpires ==
  /\ Expire
  /\ UNCHANGED <<db, net, jobs, caps, pc, local>>

\* An instance stops: its requests, popped jobs and timers are gone.
Crash(G) ==
  /\ Fault
  /\ Abandon(G \cap Ops)
  /\ pc' = [t \in Threads |-> IF t \notin G THEN pc[t]
                              ELSE IF t \in Senders \cup Enqueuers THEN "done" ELSE "idle"]
  /\ row' = [t \in Threads |-> IF t \in G THEN NoInvoice ELSE row[t]]
  /\ pay' = [t \in Threads |-> IF t \in G THEN "none" ELSE pay[t]]
  /\ then' = [t \in Threads |-> IF t \in G THEN "idle" ELSE then[t]]
  /\ seen' = [t \in Threads |-> IF t \in G THEN "pending" ELSE seen[t]]
  /\ retries' \in 0..retries
  /\ UNCHANGED <<db, net, queue, claim>>

-----------------------------------------------------------------------------
Prepared(o) ==
  \/ Presync(o) \/ Recheck(o) \/ PrepareAcquire(o) \/ PrepareRefuse(o) \/ Refused(o)
  \/ Fetch(o) \/ FetchMiss(o) \/ Classify(o)

Sending(o) ==
  \/ Reserve(o) \/ SendGuard(o) \/ Mark(o) \/ Emit(o) \/ FailRow(o)
  \/ Persist(o) \/ PersistWrite(o) \/ SaleCheck(o) \/ SaleWrite(o)
  \/ Settle(o) \/ SettleWrite(o) \/ Settled(o) \/ MarkSent(o)
  \/ FinishPrepared(o) \/ Resync(o) \/ WaitPoll(o) \/ WaitEnds(o)

Enqueuing(o) ==
  \/ Unlock(o) \/ TryClaim(o) \/ EnqueueTx(o) \/ Push(o)
  \/ PushFailedRow(o) \/ DropClaim(o) \/ PushedSale(o)

Reconciling(o) ==
  \/ RecSelect(o) \/ RecLock(o) \/ RecCheck(o) \/ RecEnd(o) \/ Requeue(o) \/ RecRelease(o)

Applying(t) == ApplyRead(t) \/ ApplySave(t) \/ SyncSale(t)

OpStep(o) == Prepared(o) \/ Sending(o) \/ Enqueuing(o) \/ Pop(o) \/ Reconciling(o)

Failing ==
  \/ \E o \in Ops : FetchFails(o) \/ EmitFails(o) \/ PushFails(o)
  \/ \E h \in Hooks : HookLookupFails(h) \/ HookApplyFails(h)
  \/ LoseHook
  \/ \E G \in CrashGroups : Crash(G)

EmissionNext ==
  \/ \E o \in Ops : OpStep(o)
  \/ \E t \in Threads : Applying(t)
  \/ \E h \in Hooks : HookReceive(h)
  \/ RetryFires \/ FisAdvance \/ ClaimExpires \/ LockExpires
  \/ Failing

EmissionSpec == EmissionInit /\ [][EmissionNext]_emissionVars

\* Scheduling: a goroutine in the middle of an operation goes on, workers keep
\* popping, timers and TTLs run out, the cron keeps running and the
\* facturador finishes what it accepted and delivers its webhooks.  A job
\* that finds the key held is retried until it gets in: the holders end.
EmissionFairness ==
  /\ \A o \in Ops : WF_emissionVars(OpStep(o)) /\ WF_emissionVars(Applying(o))
  /\ \A o \in Workers : SF_emissionVars(PrepareAcquire(o))
  /\ \A h \in Hooks : WF_emissionVars(HookReceive(h)) /\ WF_emissionVars(Applying(h))
  /\ WF_emissionVars(RetryFires) /\ WF_emissionVars(FisAdvance)
  /\ WF_emissionVars(LockExpires) /\ WF_emissionVars(ClaimExpires)

FairEmissionSpec == EmissionSpec /\ EmissionFairness

-----------------------------------------------------------------------------
EmissionTypeOK ==
  /\ LockTypeOK
  /\ inv \in InvoiceRows
  /\ sale \in BillingStatuses
  /\ reserved \in BOOLEAN
  /\ fis \in FiscalStatuses
  /\ wire \subseteq FiscalStatuses
  /\ dedup \subseteq FiscalStatuses
  /\ queue \in Nat /\ claim \in BOOLEAN /\ retries \in Nat
  /\ faults \in Nat /\ claimTTLs \in Nat
  /\ pc \in [Threads -> Labels]
  /\ row \in [Threads -> InvoiceRows]
  /\ pay \in [Threads -> FiscalStatuses]
  /\ then \in [Threads -> Labels]
  /\ seen \in [Threads -> BillingStatuses]

\* The ERP never shows a document as accepted that the facturador has not
\* accepted, whatever is lost, repeated, late or overwritten.
AcceptedIsReal ==
  inv.pipeline \in {"SUNAT_ACCEPTED", "OBSERVED"} \/ HasAcceptanceEvidence(inv) \/ sale = "accepted"
    => fis \in {"accepted", "observed"}

\* No document reaches the queue or the facturador before its quota slot has
\* been consumed.
EmissionIsReserved == fis # "none" \/ queue + retries > 0 => reserved

\* Operations between the decision to emit and the facturador's answer.
Emitting == {o \in Ops : pc[o] \in {"guard", "mark", "emit", "persist", "persistWrite"}}

\* Duplicate-emission protection: with operations of distinct sources that
\* end within the TTL, no two of them emit the sale at the same time.
NoConcurrentEmission ==
  DistinctSources /\ ~MayExpire => \A o, p \in Emitting : o = p

\* A row waiting for the fiscal worker, with no document in the facturador.
AwaitsWorker(r) ==
  r.exists /\ ~r.ext /\ r.pipeline = "PENDING_FISCAL" /\ r.job = "pending"

\* Something that will still process it: a queued or delayed job, a worker, an
\* enqueuer about to push or a sender about to persist its emission.
Carried ==
  \/ queue + retries > 0
  \/ \E o \in Workers : pc[o] # "idle"
  \/ \E o \in Ops : pc[o] \in {"push", "pushFailed", "persistWrite"}

\* While nothing crashes or fails, a sale waiting for the worker always has a
\* job: refusals by the lock, expiries and late writes do not strand it.
NoStrandedJob == faults = 0 /\ AwaitsWorker(inv) => Carried

\* Jobs of the sale that exist or are about to.
LiveJobs ==
  queue + retries + Cardinality({o \in Workers : pc[o] # "idle"})
    + Cardinality({o \in Ops : pc[o] = "push"})

\* The claim bounds the jobs of a sale: without failures, one more than the
\* times the claim has run out.  So it is while at most two callers enqueue
\* the sale, and until its row has the uuid.  After that EnqueueFiscalEmit
\* drops the claim of an accepted sale twice, the second time perhaps another
\* caller's, and a stale webhook that takes the acceptance off the row again
\* lets that caller and a third one queue the sale.
JobsBounded == faults = 0 => LiveJobs <= 1 + claimTTLs

\* Every queued job is eventually processed and every refused one retried
\* until it is.
QueueDrains == []<>(queue = 0 /\ retries = 0 /\ \A o \in Workers : pc[o] = "idle")

\* Once the facturador has accepted, the ERP comes to show it, unless a
\* failure left the row failed with nothing to look at it again.
AcceptanceIsShown ==
  fis = "accepted" ~> EffectiveBillingStatus(sale, inv) = "accepted" \/ faults > 0

=============================================================================

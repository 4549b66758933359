----------------------------- MODULE FiscalLock -----------------------------
(***************************************************************************)
(* The Redis lock of pkg/billinglock that every fiscal operation on one    *)
(* sale goes through: key tukifac:billing:lock:t{tenant}:{sale}, value the *)
(* SOURCE of the operation (manual, fiscal_queue, reconcile, ...), not an  *)
(* identifier of the operation.  The module models the key and how the     *)
(* callers (PrepareFiscalOperation and ReconcileTenantPending) use it; what*)
(* an operation does while it is inside is left to FiscalEmission.         *)
(*                                                                         *)
(* holder and robbed are history variables: the operation whose SETNX put  *)
(* the current value, and the operations that are still inside although    *)
(* the key they set is gone.                                               *)
(***************************************************************************)
EXTENDS FiniteSets

CONSTANTS
  Ops,          \* concurrent operations on one sale (requests, workers, cron)
  Sources,      \* FiscalOpSource values
  Source,       \* Source[o]: the value operation o writes in the key
  None,         \* the key does not exist
  MayExpire     \* the 45 s TTL may run out while an operation is inside

ASSUME SourceAssumption == Source \in [Ops -> Sources]
ASSUME NoneAssumption   == None \notin Ops \cup Sources
ASSUME ExpireAssumption == MayExpire \in BOOLEAN

VARIABLES
  lock,         \* value of the key
  holder,       \* history: operation that set it
  phase,        \* phase[o]: where o is with respect to the lock
  robbed        \* history: operations inside whose key was removed

lockVars == <<lock, holder, phase, robbed>>

Phases == {"outside", "inside", "refused"}

Inside == {o \in Ops : phase[o] = "inside"}

LockInit ==
  /\ lock = None
  /\ holder = None
  /\ phase = [o \in Ops |-> "outside"]
  /\ robbed = {}

\* Mutant of Acquire: SET instead of SETNX.
AcquireBySet(o) ==
  /\ phase[o] = "outside"
  /\ lock' = Source[o]
  /\ holder' = o
  /\ phase' = [phase EXCEPT ![o] = "inside"]
  /\ UNCHANGED robbed

\* TryAcquire succeeds: SETNX on a free key.
Acquire(o) ==
  /\ phase[o] = "outside"
  /\ lock = None
  /\ lock' = Source[o]
  /\ holder' = o
  /\ phase' = [phase EXCEPT ![o] = "inside"]
  /\ UNCHANGED robbed

\* TryAcquire finds the key held: PrepareFiscalOperation answers
\* already_processing and keeps lockOwner, so the caller's deferred
\* ReleaseLock is still to run.
Refuse(o) ==
  /\ phase[o] = "outside"
  /\ lock # None
  /\ phase' = [phase EXCEPT ![o] = "refused"]
  /\ UNCHANGED <<lock, holder, robbed>>

\* Mutant of DelIfOwner: DEL without comparing the owner.
DelAlways(o) == lock' = None /\ holder' = None

\* Release's script: DEL if GET = owner, where owner is only the source.
DelIfOwner(o) ==
  IF lock = Source[o]
    THEN /\ lock' = None
         /\ holder' = None
    ELSE UNCHANGED <<lock, holder>>

\* The operations inside that DelIfOwner(o) leaves without their key.
RobbedBy(o) ==
  IF lock = Source[o] /\ holder \in Inside THEN robbed \cup {holder} ELSE robbed

\* Release at the end of an operation, whether it had acquired or not.
Release(o) ==
  /\ phase[o] \in {"inside", "refused"}
  /\ DelIfOwner(o)
  /\ phase' = [phase EXCEPT ![o] = "outside"]
  /\ robbed' = RobbedBy(o) \ {o}

\* A nested EnqueueSendToSUNAT of the reconcile worker: its TryAcquire meets
\* the worker's own key and the deferred release of that attempt removes it;
\* the worker's own Release is still to run.
NestedRefusal(o) ==
  /\ phase[o] = "inside"
  /\ lock # None
  /\ DelIfOwner(o)
  /\ phase' = [phase EXCEPT ![o] = "refused"]
  /\ robbed' = RobbedBy(o) \ {o}

\* The nested attempt of the reconcile worker finds the key expired.
NestedAcquire(o) ==
  /\ phase[o] = "inside"
  /\ lock = None
  /\ lock' = Source[o]
  /\ holder' = o
  /\ robbed' = robbed \ {o}
  /\ UNCHANGED phase

\* The nested attempt of the reconcile worker releases what it acquired.
NestedRelease(o) ==
  /\ phase[o] = "inside"
  /\ DelIfOwner(o)
  /\ phase' = [phase EXCEPT ![o] = "refused"]
  /\ robbed' = RobbedBy(o) \ {o}

\* Operations end and leave the key to its TTL: a process crash, or the
\* reconcile worker's `continue` after a successful synchronisation.
Abandon(S) ==
  /\ phase' = [o \in Ops |-> IF o \in S THEN "outside" ELSE phase[o]]
  /\ robbed' = robbed \ S
  /\ UNCHANGED <<lock, holder>>

\* The TTL runs out.
Expire ==
  /\ lock # None
  /\ MayExpire \/ phase[holder] # "inside"
  /\ lock' = None
  /\ holder' = None
  /\ robbed' = IF holder \in Inside THEN robbed \cup {holder} ELSE robbed
  /\ UNCHANGED phase

LockNext ==
  \/ \E o \in Ops :
       \/ Acquire(o) \/ Refuse(o) \/ Release(o)
       \/ NestedRefusal(o) \/ NestedAcquire(o) \/ NestedRelease(o)
  \/ \E S \in SUBSET Ops : Abandon(S)
  \/ Expire

LockSpec == LockInit /\ [][LockNext]_lockVars

-----------------------------------------------------------------------------

LockTypeOK ==
  /\ lock \in Sources \cup {None}
  /\ holder \in Ops \cup {None}
  /\ phase \in [Ops -> Phases]
  /\ robbed \in SUBSET Ops

\* Whatever fails around it, two operations can be inside together only if
\* one of them lost its key: PrepareFiscalOperation plus billinglock give
\* mutual exclusion among the operations that still own the key.
OneOwnerInside ==
  \A p, q \in Inside \ robbed : p = q

\* The operations in flight have distinct sources.
DistinctSources == \A p, q \in Ops : Source[p] = Source[q] => p = q

\* When the operations in flight have distinct sources and none outlives the
\* TTL, at most one is inside: the duplicate-emission protection the package
\* comment of billinglock announces.
MutualExclusion ==
  DistinctSources /\ ~MayExpire => \A p, q \in Inside : p = q

\* What keeps OneOwnerInside inductive: the key always belongs to one of the
\* operations, and whoever is inside and not robbed is the one it belongs to.
LockInv ==
  /\ LockTypeOK
  /\ lock # None => holder \in Ops /\ lock = Source[holder]
  /\ lock = None => holder = None
  /\ robbed \subseteq Inside
  /\ \A o \in Inside \ robbed : lock # None /\ holder = o
=============================================================================

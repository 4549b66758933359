---------------------------- MODULE JobDelivery ----------------------------
(***************************************************************************)
(* What a caller of the older billing queue may rely on: a job whose       *)
(* Enqueue returned without error is owed until the processor ends it (it  *)
(* returned nil, or its attempts ran out and it was buried), and it can be *)
(* lost only in a step in which something failed: a process that ended or  *)
(* a Redis command that did.  Delivery is at least once: nothing is said   *)
(* of how often the processor runs.                                        *)
(***************************************************************************)
EXTENDS Naturals

CONSTANT Keys           \* idempotency keys, one per sale

VARIABLES
  status,               \* status[k]: what became of the last job accepted for k
  faults                \* process ends and failed Redis commands so far

deliveryVars == <<status, faults>>

Statuses == {"none", "owed", "settled", "lost"}

DeliveryInit ==
  /\ status = [k \in Keys |-> "none"]
  /\ faults = 0

Accept(k) ==
  /\ status' = [status EXCEPT ![k] = "owed"]
  /\ UNCHANGED faults

\* A job ends; what follows its end may fail in the same step.
Settle(k) ==
  /\ status[k] \in {"owed", "settled"}
  /\ status' = [status EXCEPT ![k] = "settled"]
  /\ faults' \in {faults, faults + 1}

\* One fault loses any number of the jobs that are owed.
Fault ==
  /\ faults' = faults + 1
  /\ status' \in [Keys -> Statuses]
  /\ \A k \in Keys : status'[k] # status[k] => status[k] = "owed" /\ status'[k] = "lost"

DeliveryNext == Fault \/ \E k \in Keys : Accept(k) \/ Settle(k)

Delivery == DeliveryInit /\ [][DeliveryNext]_deliveryVars

\* An owed job is eventually ended or lost to a fault.
Answered == \A k \in Keys : status[k] = "owed" ~> status[k] # "owed"
=============================================================================

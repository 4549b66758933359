----------------------------- MODULE SlotMeter -----------------------------
(***************************************************************************)
(* What a tenant may rely on when its documents are counted: a reservation *)
(* is one step.  It answers ok having given the document one slot, of the  *)
(* plan of a month that has begun or of a package that is open, or finding *)
(* that it has one; every other answer changes nothing.  A slot is final,  *)
(* and the document is refused for quota only when no open package has     *)
(* anything left.                                                          *)
(***************************************************************************)
EXTENDS Integers, FiniteSets

CONSTANTS
  Txs, Docs, Packages, None,
  Qty,          \* documents of a package
  Tenants,      \* as in DocQuota: doc, offer and buys
  CycleMonths, LastMonth

VARIABLES
  tenant,
  month,
  slot,         \* slot[d]: what document d was charged to
  package,      \* package[p]: whether documents can be taken from p, and how many
  answer        \* answer[t]: what the reservation t returned

meterVars == <<tenant, month, slot, package, answer>>

NoSlot == [from |-> "none", period |-> 0, pkg |-> None]

MeterInit ==
  /\ tenant \in Tenants
  /\ month = 0
  /\ slot = [d \in Docs |-> NoSlot]
  /\ package = [p \in Packages |-> [state |-> "new", left |-> 0]]
  /\ answer = [t \in Txs |-> "none"]

Answer(t, res) ==
  /\ answer[t] = "none"
  /\ answer' = [answer EXCEPT ![t] = res]

Has(d) == slot[d].from # "none"

ChargedTo(m) == {d \in Docs : slot[d].from = "plan_base" /\ slot[d].period = m}

\* The plan of month m has room, under one of the limits the tenant may have.
Room(m) ==
  \E limit \in tenant.offer : limit = 0 - 1 \/ Cardinality(ChargedTo(m)) < limit

PlanSlot(d, m) ==
  /\ Room(m)
  /\ slot' = [slot EXCEPT ![d] = [from |-> "plan_base", period |-> m, pkg |-> None]]
  /\ UNCHANGED package

PackageSlot(d, m, p) ==
  /\ package[p].state = "open" /\ package[p].left > 0
  /\ slot' = [slot EXCEPT ![d] = [from |-> "package", period |-> m, pkg |-> p]]
  /\ package' = [package EXCEPT ![p].left = @ - 1]

Grant(t) ==
  /\ tenant.doc[t] # None /\ ~Has(tenant.doc[t])
  /\ \E m \in 0..month : m < CycleMonths /\ \/ PlanSlot(tenant.doc[t], m)
                                            \/ \E p \in Packages : PackageSlot(tenant.doc[t], m, p)
  /\ Answer(t, "ok")
  /\ UNCHANGED <<tenant, month>>

\* There is nothing to reserve, or it is reserved.
Nothing(t) ==
  /\ tenant.doc[t] = None \/ Has(tenant.doc[t])
  /\ Answer(t, "ok")
  /\ UNCHANGED <<tenant, month, slot, package>>

\* The document is refused.
Exceeded(t) ==
  /\ tenant.doc[t] # None
  /\ \E limit \in tenant.offer : limit # 0 - 1
  /\ \A p \in Packages : package[p].state = "open" => package[p].left = 0
  /\ Answer(t, "exceeded")

Duplicate(t) ==
  /\ tenant.doc[t] # None /\ Has(tenant.doc[t])
  /\ Answer(t, "duplicate")

Refuse(t) ==
  /\ \/ Exceeded(t) \/ Duplicate(t)
     \/ Answer(t, "not_found") \/ Answer(t, "failed")
  /\ UNCHANGED <<tenant, month, slot, package>>

\* A package the tenant bought is opened, or never will be.
Open(p) ==
  /\ p \in tenant.buys /\ package[p].state = "new"
  /\ package' = [package EXCEPT ![p] = [state |-> "open", left |-> Qty]]
  /\ UNCHANGED <<tenant, month, slot, answer>>

Decline(p) ==
  /\ p \in tenant.buys /\ package[p].state = "new"
  /\ package' = [package EXCEPT ![p].state = "closed"]
  /\ UNCHANGED <<tenant, month, slot, answer>>

\* The cycle has ended: open packages close, with what is left of them.
CloseAll ==
  /\ month >= CycleMonths
  /\ package' = [p \in Packages |-> IF package[p].state = "open"
                                      THEN [state |-> "closed", left |-> 0] ELSE package[p]]
  /\ UNCHANGED <<tenant, month, slot, answer>>

Tick ==
  /\ month < LastMonth
  /\ month' = month + 1
  /\ UNCHANGED <<tenant, slot, package, answer>>

MeterNext ==
  \/ \E t \in Txs : Grant(t) \/ Nothing(t) \/ Refuse(t)
  \/ \E p \in Packages : Open(p) \/ Decline(p)
  \/ CloseAll \/ Tick

MeterSpec == MeterInit /\ [][MeterNext]_meterVars
=============================================================================

----------------------------- MODULE MCDocQuota -----------------------------
(***************************************************************************)
(* Small tenants for DocQuota.                                             *)
(***************************************************************************)
EXTENDS DocQuota, TLC

CONSTANTS t1, t2, t3,  \* transactions
          d1, d2,      \* documents
          p1           \* a package

\* Two documents, one of them reserved twice, or two and a reader of the quota.
Retried == t1 :> d1 @@ t2 :> d2 @@ t3 :> d1
Reading == t1 :> d1 @@ t2 :> d2 @@ t3 :> None

SomeTenants == {
  [doc |-> Retried, offer |-> {1, Unlimited}, buys |-> {p1}],
  [doc |-> Reading, offer |-> {1}, buys |-> {}],
  [doc |-> Reading, offer |-> {1, 2}, buys |-> {}],
  [doc |-> Retried, offer |-> {Unlimited}, buys |-> {}]}
=============================================================================

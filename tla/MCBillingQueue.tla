--------------------------- MODULE MCBillingQueue ---------------------------
(***************************************************************************)
(* Small instances of BillingQueue: two processes with a worker each.      *)
(***************************************************************************)
EXTENDS BillingQueue

CONSTANTS k1, k2, i1, i2, w1, w2, r1, r2

\* One worker in each process.
TwoHomes == [w \in Workers |-> IF w = w1 THEN i1 ELSE i2]

\* Every request is for the same sale.
SameSale == [r \in Requests |-> k1]
=============================================================================

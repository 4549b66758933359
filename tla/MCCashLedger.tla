---------------------------- MODULE MCCashLedger ----------------------------
(***************************************************************************)
(* CashLedger with two users, each with a session open, and one more       *)
(* session for u1 to open twice; a sale and a purchase worth two units.    *)
(***************************************************************************)
EXTENDS CashLedger

CONSTANTS u1, u2, t1, t2, t3, t4, sale, buy,
          c1, c2, c3, b1, b2, k1, k2, x1, x2, o1, o2, e1, f1, f2, p1, p2, m1, m2

TheUsers == {u1, u2}
TheTills == {t1, t2, t3, t4}
Theirs == [t \in TheTills |-> IF t = t2 THEN u2 ELSE u1]
Already == {t1, t2}
TheDocs == {sale, buy}
Worth == [d \in TheDocs |-> 2]

All == {c1, c2, c3, b1, b2, k1, k2, x1, x2, o1, o2, e1, f1, f2, p1, p2, m1, m2}
WhatKind == [r \in All |->
  CASE r \in {c1, c2, c3, b1, b2} -> "collect"
    [] r \in {k1, k2} -> "cancel"
    [] r \in {x1, x2} -> "close"
    [] r \in {o1, o2} -> "open"
    [] r = e1 -> "delete"
    [] r \in {f1, f2} -> "refund"
    [] r \in {p1, p2} -> "pay"
    [] OTHER -> "manual"]
Who == [r \in All |-> IF r \in {c2, b2, k1, p2} THEN u2 ELSE u1]
What == [r \in All |-> IF r \in {p1, p2} THEN buy ELSE sale]
Where == [r \in All |-> IF r \in {b1, b2, p2, m1} THEN "bank" ELSE "cash"]
InOrOut == [r \in All |-> IF r = m2 THEN "out" ELSE "in"]
Fresh == [r \in All |-> IF r = o2 THEN t4 ELSE t3]

\* Sets of requests: what may meet in one run.
Together == {
  {c1, c2, c3, k1}, {b1, b2, m1, k1}, {c1, b1, k1, k2},
  {c1, k1, f1, f2, x1}, {c1, k1, f1, x1, o1}, {o1, o2, x1, e1},
  {c1, e1, x1, x2}, {p1, p2, m2, x1}, {m1, p2, b1, e1}}
=============================================================================

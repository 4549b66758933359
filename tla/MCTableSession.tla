--------------------------- MODULE MCTableSession ---------------------------
(***************************************************************************)
(* TableSession with two tables, one of them taken by a session with two   *)
(* comandas.                                                               *)
(***************************************************************************)
EXTENDS TableSession

CONSTANTS ta, tb, s0, s1, s2, s3, l1, l2, l3, l4,
          o1, o2, o3, a1, a2, m1, m2, c1, c2, d1, k1, k2, b1, b2, y1, z1, z2, h1, h2

TheTables == {ta, tb}
TheSessions == {s0, s1, s2, s3}
TheLines == {l1, l2, l3, l4}
All == {o1, o2, o3, a1, a2, m1, m2, c1, c2, d1, k1, k2, b1, b2, y1, z1, z2, h1, h2}
WhatKind == [r \in All |->
  CASE r \in {o1, o2, o3} -> "open"
    [] r \in {a1, a2} -> "order"
    [] r \in {m1, m2} -> "move"
    [] r \in {c1, c2} -> "close"
    [] r = d1 -> "drop"
    [] r \in {k1, k2} -> "cancel"
    [] r \in {b1, b2} -> "bill"
    [] r = y1 -> "keep"
    [] r \in {z1, z2} -> "split"
    [] OTHER -> "part"]
Where == [r \in All |-> IF r \in {o1, m2} THEN ta ELSE tb]
Fresh == [r \in All |-> CASE r = o2 -> s2 [] r = o3 -> s3 [] OTHER -> s1]
FreshLine == [r \in All |-> IF r = a2 THEN l4 ELSE l3]
\* Half of the bill, one unit, and more than the comanda is worth.
Rebate == [r \in All |->
  CASE r = z1 -> [percent |-> TRUE, value |-> 50]
    [] r = y1 -> [percent |-> FALSE, value |-> 1]
    [] r = h1 -> [percent |-> FALSE, value |-> 3]
    [] OTHER -> [percent |-> FALSE, value |-> 0]]
Start == [s \in TheSessions |-> IF s = s0 THEN ta ELSE None]
Eaten == [l \in TheLines |-> IF l \in {l1, l2} THEN s0 ELSE None]

\* Sets of requests: what may meet in one run.
Together == {
  {o1, o2, m1, c1}, {o2, o3, m1, c1}, {o1, m1, d1, c1}, {o1, b1, a1, d1},
  {o2, o3, a1, a2, b1}, {b1, b2, c1, a1}, {k1, a1, y1, c2}, {k1, k2, z1, h1},
  {z1, z2, a1, b1}, {h1, h2, z1, b1}, {h1, k1, b1, d1}, {m1, m2, o1, c1, d1}}
JustBills == {{z1, z2}}
=============================================================================

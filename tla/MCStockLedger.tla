--------------------------- MODULE MCStockLedger ---------------------------
(***************************************************************************)
(* Small instances of StockLedger: two branches, two sale series, one      *)
(* inventory series.                                                       *)
(***************************************************************************)
EXTENDS StockLedger, TLC

CONSTANTS b1, b2, x1, x2, x3, A, B, I, s1, s2, s3, din, dout, t1,
          r1, r2, r3, r4, c1, c2, f1, f2, g1, v1, w1, d1, d2, d3

\* x1 and x2 start in b1; x3 is unknown until a document brings it.
Opening == (x1 :> b1) @@ (x2 :> b1) @@ (x3 :> None)

\* s1 and s2 are sales of series A, s3 of series B; all in b1.
SalePapers == {s1, s2, s3}
AllBranch == [p \in Papers |-> b1]
AllDestination == [p \in Papers |-> b2]
Directions == [p \in Papers |-> IF p = dout THEN "OUT" ELSE "IN"]
Lines == [p \in Papers |-> CASE p = din -> x3 [] p = dout -> x1 [] OTHER -> None]
Numbering == [p \in Papers |-> CASE p \in {s1, s2} -> A [] p = s3 -> B [] OTHER -> I]

\* r1 and r2 retry one charge; c1 and c2 cancel it.
Operation ==
  [r \in Requests |->
     CASE r \in {r1, r2, r3, r4} -> "sale" [] r \in {c1, c2} -> "cancel"
       [] r \in {f1, f2, g1} -> "confirm" [] r \in {v1, w1} -> "void"
       [] r = d1 -> "send" [] r = d2 -> "receive" [] OTHER -> "withdraw"]
About ==
  [r \in Requests |->
     CASE r \in {r1, r2, c1, c2} -> s1 [] r = r3 -> s2 [] r = r4 -> s3
       [] r \in {f1, f2, v1} -> din [] r \in {g1, w1} -> dout [] OTHER -> t1]

Together ==
  { {r1, r2, r3, r4, c1}, {r1, r3, c1, c2, g1}, {f1, f2, v1, r4, g1},
    {g1, w1, r1, f1}, {d1, d2, d3, r1, c1}, {d1, d2, r1, g1, w1} }

\* Sales of two series at the same time, and nothing else.
SalesOnly == { {r1, r3, r4} }
=============================================================================

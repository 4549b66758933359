SPECIFICATION StockSpec
CONSTANTS
  b1 = b1
  b2 = b2
  x1 = x1
  x2 = x2
  x3 = x3
  A = A
  B = B
  I = I
  s1 = s1
  s2 = s2
  s3 = s3
  din = din
  dout = dout
  t1 = t1
  r1 = r1
  r2 = r2
  r3 = r3
  r4 = r4
  c1 = c1
  c2 = c2
  f1 = f1
  f2 = f2
  g1 = g1
  v1 = v1
  w1 = w1
  d1 = d1
  d2 = d2
  d3 = d3
  None = None
  Branches = {b1, b2}
  Serials = {x1, x2, x3}
  Shelf <- Opening
  Papers = {s1, s2, s3, din, dout, t1}
  Branch <- AllBranch
  Destination <- AllDestination
  Direction <- Directions
  Listed <- Lines
  DocSeries <- Numbering
  Series = {A, B, I}
  Requests = {r1, r2, r3, r4, c1, c2, f1, f2, g1, v1, w1, d1, d2, d3}
  Kind <- Operation
  Paper <- About
  Mixes <- SalesOnly
INVARIANT NeverOversold
CHECK_DEADLOCK FALSE

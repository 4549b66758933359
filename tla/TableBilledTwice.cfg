SPECIFICATION TableSpec
CONSTANTS
  ta = ta
  tb = tb
  s0 = s0
  s1 = s1
  s2 = s2
  s3 = s3
  l1 = l1
  l2 = l2
  l3 = l3
  l4 = l4
  o1 = o1
  o2 = o2
  o3 = o3
  a1 = a1
  a2 = a2
  m1 = m1
  m2 = m2
  c1 = c1
  c2 = c2
  d1 = d1
  k1 = k1
  k2 = k2
  b1 = b1
  b2 = b2
  y1 = y1
  z1 = z1
  z2 = z2
  h1 = h1
  h2 = h2
  None = None
  Tables <- TheTables
  Sessions <- TheSessions
  Lines <- TheLines
  Units = 2
  Requests <- All
  Kind <- WhatKind
  Table <- Where
  NewSession <- Fresh
  NewLine <- FreshLine
  Discount <- Rebate
  Seated <- Start
  Served <- Eaten
  Mixes <- JustBills
CHECK_DEADLOCK FALSE
INVARIANT NeverChargedTwice

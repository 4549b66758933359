SPECIFICATION CashSpec
CONSTANTS
  u1 = u1
  u2 = u2
  t1 = t1
  t2 = t2
  t3 = t3
  t4 = t4
  sale = sale
  buy = buy
  c1 = c1
  c2 = c2
  c3 = c3
  b1 = b1
  b2 = b2
  k1 = k1
  k2 = k2
  x1 = x1
  x2 = x2
  o1 = o1
  o2 = o2
  e1 = e1
  f1 = f1
  f2 = f2
  p1 = p1
  p2 = p2
  m1 = m1
  m2 = m2
  None = None
  Users <- TheUsers
  Tills <- TheTills
  Owner <- Theirs
  FirstTills <- Already
  Docs <- TheDocs
  Total <- Worth
  Requests <- All
  Kind <- WhatKind
  User <- Who
  Doc <- What
  Method <- Where
  Way <- InOrOut
  NewTill <- Fresh
  Mixes <- Together
CHECK_DEADLOCK FALSE
INVARIANT BankBalanceIsMovements
INVARIANT ReversedOnce
INVARIANT DebtsSettle
INVARIANT CloseCountsAll
INVARIANT DrawersKept
INVARIANT CancelledSettles

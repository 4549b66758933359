SPECIFICATION PoolSpec
CONSTANTS
  n1 = n1
  n2 = n2
  q1 = q1
  q2 = q2
  q3 = q3
  b1 = b1
  r1 = r1
  c1 = c1
  c2 = c2
  c3 = c3
  None = None
  Names = {n1, n2}
  Requests = {q1, q2, q3}
  Leakers = {q3}
  Background = {b1}
  Removers = {r1}
  Handles = {c1, c2, c3}
  MaxPools = 1
SYMMETRY Symmetric
CHECK_DEADLOCK FALSE
INVARIANT UsesCounted
INVARIANT UsersHaveOpenHandles
INVARIANT OpenHandlesAreKept
PROPERTY LimitExceededWhenBusy

SPECIFICATION QuotaSpec
CONSTANTS
  t1 = t1
  t2 = t2
  t3 = t3
  d1 = d1
  d2 = d2
  p1 = p1
  None = None
  Txs = {t1, t2, t3}
  Docs = {d1, d2}
  Packages = {p1}
  Qty = 1
  Tenants <- SomeTenants
  CycleMonths = 1
  LastMonth = 1
  MaxChanges = 1
INVARIANT NotOverdrawn
INVARIANT PlanConsumptionKept
INVARIANT PackagesBalance
PROPERTY KeepsMeter
CHECK_DEADLOCK FALSE

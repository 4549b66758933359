SPECIFICATION EmissionSpec
CONSTANTS
  s1 = s1
  s2 = s2
  s3 = s3
  e1 = e1
  e2 = e2
  e3 = e3
  w1 = w1
  w2 = w2
  r1 = r1
  h1 = h1
  h2 = h2
  None = None
  Senders = {}
  Enqueuers = {e1, e2}
  Workers = {w1, w2}
  Reconcilers = {}
  Hooks = {}
  Presyncers = {}
  Resends = {e2}
  Draft = FALSE
  SlowCron = FALSE
  Answers = {"accepted"}
  CrashGroups <- TwoInstances
  MaxFaults = 1
  MaxClaimTTLs = 1
  Ops <- MCOps
  Sources <- MCSources
  Source <- CodeSource
  MayExpire = TRUE
CHECK_DEADLOCK FALSE
INVARIANT JobsBounded
INVARIANT NoStrandedJob
INVARIANT OneOwnerInside

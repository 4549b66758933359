SPECIFICATION EmissionSpec
CONSTANTS
  s1 = s1
  s2 = s2
  s3 = s3
  e1 = e1
  e2 = e2
  e3 = e3
  w1 = w1
  w2 = w2
  r1 = r1
  h1 = h1
  h2 = h2
  None = None
  Senders = {s1}
  Enqueuers = {e1}
  Workers = {w1}
  Reconcilers = {}
  Hooks = {h1}
  Presyncers = {s1}
  Resends = {}
  Draft = FALSE
  SlowCron = FALSE
  Answers = {"accepted"}
  CrashGroups <- NoGroups
  MaxFaults = 0
  MaxClaimTTLs = 0
  Ops <- MCOps
  Sources <- MCSources
  Source <- CodeSource
  MayExpire = FALSE
CHECK_DEADLOCK FALSE
INVARIANT NoConcurrentEmission
PROPERTY LockSpec

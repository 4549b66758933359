SPECIFICATION FairEmissionSpec
CONSTANTS
  s1 = s1
  s2 = s2
  s3 = s3
  e1 = e1
  e2 = e2
  e3 = e3
  w1 = w1
  w2 = w2
  r1 = r1
  h1 = h1
  h2 = h2
  None = None
  Senders = {}
  Enqueuers = {e1, e2}
  Workers = {w1}
  Reconcilers = {r1}
  Hooks = {}
  Presyncers = {}
  Resends = {e2}
  Draft = FALSE
  SlowCron = TRUE
  Answers = {"accepted", "error", "retrying"}
  CrashGroups <- TwoInstances
  MaxFaults = 1
  MaxClaimTTLs = 0
  Ops <- MCOps
  Sources <- MCSources
  Source <- CodeSource
  MayExpire = FALSE
CHECK_DEADLOCK FALSE
PROPERTY AcceptanceIsShown
PROPERTY QueueDrains

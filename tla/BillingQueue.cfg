SPECIFICATION FairQueueSpec
CONSTANTS
  k1 = k1
  k2 = k2
  i1 = i1
  i2 = i2
  w1 = w1
  w2 = w2
  r1 = r1
  r2 = r2
  None = None
  Keys = {k1}
  Instances = {i1, i2}
  Workers = {w1, w2}
  Home <- TwoHomes
  Requests = {r1, r2}
  Sale <- SameSale
  MaxRetries = 2
  MaxFaults = 1
  MaxExpiries = 1
  MaxMoved = 1
CHECK_DEADLOCK FALSE
INVARIANT QueueTypeOK
INVARIANT OneProcessorPerSale
INVARIANT WorkIsBacked
INVARIANT RunsBounded
INVARIANT WaitingRowHasJob
PROPERTY KeepsPromise
PROPERTY JobsAreAnswered

\* Two workers and the goroutines of their batches contend for two targets with manual and webhook tasks.
CONSTANTS
  None = None
  s1 = s1
  s2 = s2
  t1 = t1
  t2 = t2
  w1 = w1
  w2 = w2
  Sources <- OneSource
  Targets <- TwoTargets
  Workers <- TwoWorkers
  QueueSize = 1
  SkipUnchanged <- TwoTargets
  PartialOps <- Nothing
  PartialSources <- Nothing
  Failing <- Nothing
  MaxGen = 1
  MaxData = 0
  MaxEdits = 0
  MaxFaults = 0
  MaxTriggers = 1
  MaxWebhooks = 1
  MaxEvents = 2
SPECIFICATION Spec
SYMMETRY LockSymmetry
INVARIANTS
  LocksAccounted
  SyncExclusive
PROPERTY
  ImplementsLock

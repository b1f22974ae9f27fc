\* A sync that failed is skipped as unchanged by every later batch.
CONSTANTS
  None = None
  s1 = s1
  s2 = s2
  t1 = t1
  t2 = t2
  w1 = w1
  w2 = w2
  Sources <- OneSource
  Targets <- OneTarget
  Workers <- OneWorker
  QueueSize = 1
  SkipUnchanged <- OneTarget
  PartialOps <- OneTarget
  PartialSources <- OneSource
  Failing <- Calls
  MaxGen = 1
  MaxData = 0
  MaxEdits = 0
  MaxFaults = 1
  MaxTriggers = 0
  MaxWebhooks = 0
  MaxEvents = 1
SPECIFICATION FairSpec
PROPERTY
  Converges

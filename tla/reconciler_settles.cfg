\* Two workers; two of a fault, an edit, a change of data and a webhook for an operator without PartialSync; nothing is skipped.
CONSTANTS
  None = None
  s1 = s1
  s2 = s2
  t1 = t1
  t2 = t2
  w1 = w1
  w2 = w2
  Sources <- OneSource
  Targets <- OneTarget
  Workers <- TwoWorkers
  QueueSize = 1
  SkipUnchanged <- Nothing
  PartialOps <- Nothing
  PartialSources <- OneSource
  Failing <- Calls
  MaxGen = 1
  MaxData = 1
  MaxEdits = 1
  MaxFaults = 1
  MaxTriggers = 0
  MaxWebhooks = 1
  MaxEvents = 2
SPECIFICATION FairSpec
INVARIANT StatusTruthful
PROPERTY
  Converges

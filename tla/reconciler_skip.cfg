\* A target moves between two sources, is removed and added again, and data changes; no call fails.
CONSTANTS
  None = None
  s1 = s1
  s2 = s2
  t1 = t1
  t2 = t2
  w1 = w1
  w2 = w2
  Sources <- TwoSources
  Targets <- OneTarget
  Workers <- OneWorker
  QueueSize = 1
  SkipUnchanged <- OneTarget
  PartialOps <- OneTarget
  PartialSources <- TwoSources
  Failing <- Unaffected
  MaxGen = 2
  MaxData = 2
  MaxEdits = 2
  MaxFaults = 1
  MaxTriggers = 0
  MaxWebhooks = 1
  MaxEvents = 3
SPECIFICATION Spec
SYMMETRY SourceSymmetry
INVARIANT SkipIsSound

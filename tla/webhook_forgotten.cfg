\* An event added to an update that a flush has already copied.
CONSTANTS
  None = None
  s1 = s1
  s2 = s2
  t1 = t1
  t2 = t2
  t3 = t3
  Sources = {s1, s2}
  Targets = {t1, t2, t3}
  TargetsOf <- TwoSources
  Items = {i1, i2}
  WebhookQueueSize = 2
  QueueSize = 2
  Objects = {o1, o2}
  Flushers = {f1, f2}
SPECIFICATION Spec
INVARIANT NoUpdateForgotten
CHECK_DEADLOCK FALSE

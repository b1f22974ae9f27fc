\* Timers that fire together, channels that fill; it stops when every item is posted.
CONSTANTS
  None = None
  s1 = s1
  s2 = s2
  t1 = t1
  t2 = t2
  t3 = t3
  Sources = {s1}
  Targets = {t1, t2}
  TargetsOf <- Fanout
  Items = {i1, i2, i3}
  WebhookQueueSize = 1
  QueueSize = 1
  Objects = {o1, o2, o3}
  Flushers = {f1, f2}
SPECIFICATION FairSpec
INVARIANTS
  PendingIsFlushed
  FlushedOnce
PROPERTY
  AcceptedIsHandled
CHECK_DEADLOCK FALSE

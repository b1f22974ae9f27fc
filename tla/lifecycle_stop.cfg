\* Shutdown at any point of a running controller; the process may end.
CONSTANTS
  Workers = {w1, w2}
  Handlers = {h1}
  Timers = {f1}
  QueueSize = 2
  MaxDue = 2
  MaxTicks = 1
  MaxEvents = 2
SPECIFICATION FairSpec
INVARIANTS
  TypeOK
PROPERTY
  ManagerStops
CHECK_DEADLOCK FALSE

\* A sender meets the queue that Start has closed; the process ends.
CONSTANTS
  Workers = {w1, w2}
  Handlers = {h1}
  Timers = {f1}
  QueueSize = 2
  MaxDue = 2
  MaxTicks = 1
  MaxEvents = 2
SPECIFICATION Spec
INVARIANT
  NoSendOnClosedQueue
CHECK_DEADLOCK FALSE

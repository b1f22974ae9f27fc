\* One call for two identities; a call of the service fails, and it is lost for good, anywhere; it ends when the call returns.
SPECIFICATION SmallSpec
CONSTANTS
  u1 = u1
  u2 = u2
  n1 = n1
  n2 = n2
  v1 = v1
  v2 = v2
  g1 = g1
  g2 = g2
  h1 = h1
  h2 = h2
  Uids = {u1, u2}
  Names = {n1, n2}
  Values = {v1, v2}
  Groups = {g1, g2}
  Homes = {h1, h2}
  None = none
  Missing = missing
  Wants <- SmallWants
  Starts <- SmallStarts
  MaxFaults = 2
  MaxConcurrency = 2
INVARIANTS TypeOK Reported AuditTruthful AuditComplete
PROPERTIES LeavesAlone ImplementsContract SyncEnds
CHECK_DEADLOCK FALSE

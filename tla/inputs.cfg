\* Store: one edit, one failure, one restart.  Authentik: two edits, one failure.  LDAP: one
\* failure, and a source that is connected, once, after it was initialised: the Manager never does.
CONSTANTS
  s1 = s1
  s2 = s2
  t1 = t1
  a = a
  b = b
  c = c
  None = None
  MaxEdits = 2
  MaxFileEdits = 1
  MaxFaults = 1
  Modes = {"file", "git"}
  MaxFile = 3
  Sources = {s1, s2}
  Targets = {t1}
  Manifests <- SmallManifests
  Starts <- SmallFiles
  MaxRestarts = 1
  MaxUser = 3
  MaxGroup = 2
  PageSize = 1
  NoUid = NoUid
  Services <- SmallServices
  Requests <- SmallRequests
  Connects = TRUE
  Texts = {a, b, c}
  Directories <- SmallDirectories
SPECIFICATION FairSpec
INVARIANTS TypeOK NobodyOverlooked GroupsFollow NestedGroups
PROPERTIES KeepsDeclared FilesAreFollowed
CHECK_DEADLOCK FALSE

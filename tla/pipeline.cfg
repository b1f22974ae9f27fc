\* The pipelines of two targets over the same source data; it ends when both have returned.
SPECIFICATION Spec
CONSTANTS
  Attrs <- AttrNames
  GroupIds = {"g1", "g2", "g3"}
  TrueTexts = {"true", "1"}
  FalseTexts = {"false", "0", ""}
  ParsedTexts <- JSON
  Targets = {"t1", "t2"}
  Uids = {"u1", "u2"}
  Cells = {"c1"}
  Manifests <- SmallManifests
  SourceData <- SmallData
INVARIANTS TypeOK Isolated OrderFree AllOrNothing HeaviestWins InheritsReachable
CHECK_DEADLOCK FALSE

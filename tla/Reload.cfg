SPECIFICATION Spec
CONSTANTS
  Tag = {"a", "b"}
  Readable = {"a", "b"}
  Write = {}
  Target <- MCTarget
  Config = {"start", "formula", "source", "bad", "torn"}
  Cfg <- MCCfg
  Torn = "torn"
  First = "start"
  None = None
  NoNode = NoNode
  Workers = 2
  QueueCap = 1
  MaxPlant = 1
  MaxEdits = 1
INVARIANTS
  RecipeKept
  NodesCurrent
PROPERTIES
  ReadingsSurvive
CHECK_DEADLOCK FALSE

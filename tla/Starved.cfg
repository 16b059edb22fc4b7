SPECIFICATION FairSpec
CONSTANTS
  Tag = {"a"}
  Readable = {"a"}
  Write = {"w1"}
  Target <- MCTarget
  Config = {"start", "formula", "torn"}
  Cfg <- MCCfg
  Torn = "torn"
  First = "start"
  None = None
  NoNode = NoNode
  Workers = 1
  QueueCap = 1
  MaxPlant = 0
  MaxEdits = 0
PROPERTIES
  EveryWriteAnsweredAnyhow
CHECK_DEADLOCK FALSE

SPECIFICATION FairSpec
CONSTANTS
  Tag = {"a"}
  Readable = {}
  Write = {"w1", "w2"}
  Target <- MCTarget
  Config = {"start", "formula", "torn"}
  Cfg <- MCCfg
  Torn = "torn"
  First = "start"
  None = None
  NoNode = NoNode
  Workers = 3
  QueueCap = 1
  MaxPlant = 0
  MaxEdits = 0
INVARIANTS
  NoStaleWrite
  ClientTold
PROPERTIES
  EveryWriteAnswered
CHECK_DEADLOCK FALSE

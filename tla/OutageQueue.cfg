SPECIFICATION Spec
CONSTANTS
  Device = {"d1", "d2"}
  Tag = {"a", "b", "e"}
  Txn = {"r1", "s1", "s2", "r3"}
  Group = {"g1", "g2"}
  Period = {"p"}
  Cmd = {"w"}
  NoCmd = NoCmd
  TagDev <- MCTagDev
  TxnDev <- MCTxnDev
  TagsOf <- TcpTagsOf
  SplitOf <- TcpSplitOf
  GroupDev <- MCGroupDev
  GroupTxns <- TcpGroupTxns
  BatchOf <- OneBatch
  Diagnostic = {}
  Refused = {}
  Recurring = {}
  Mortal = {}
  Settles = FALSE
  Target <- MCTarget
  Header <- MCHeader
  Length <- SameLength
  LengthRule <- ExactRule
  BadTag = {"b"}
  HalfDuplex = FALSE
  OfflineAfter = 2
  MaxRetries = 1
  MaxBackoff = 0
  QueueCap = 2
  MaxLate = 1
PROPERTIES
  OutageEmptiesQueue
CHECK_DEADLOCK FALSE

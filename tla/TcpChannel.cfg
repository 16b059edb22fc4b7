SPECIFICATION FairSpec
CONSTANTS
  Device = {"d1"}
  Tag = {"a", "b"}
  Txn = {"r1", "s1", "s2"}
  Group = {"g1"}
  Period = {"p"}
  Cmd = {"q", "w"}
  NoCmd = NoCmd
  TagDev <- MCTagDev
  TxnDev <- MCTxnDev
  TagsOf <- OneTcpTagsOf
  SplitOf <- TcpSplitOf
  GroupDev <- OneGroupDev
  GroupTxns <- OneGroupTxns
  BatchOf <- OneGroupBatch
  Diagnostic = {"q"}
  Refused = {}
  Recurring = {"q"}
  Mortal = {}
  Settles = TRUE
  Target <- MCTarget
  Header <- MCHeader
  Length <- SameLength
  LengthRule <- ExactRule
  BadTag = {"b"}
  HalfDuplex = FALSE
  OfflineAfter = 1
  MaxRetries = 1
  MaxBackoff = 0
  QueueCap = 1
  MaxLate = 1
PROPERTIES
  TagsRecover
  DuePollServed
CHECK_DEADLOCK FALSE

SPECIFICATION Spec
CONSTANTS
  Device = {"d1", "d2"}
  Tag = {"a", "b", "e"}
  Txn = {"r1", "r2", "r3"}
  Group = {"g1", "g2"}
  Period = {"p"}
  Cmd = {"w"}
  NoCmd = NoCmd
  TagDev <- MCTagDev
  TxnDev <- MCTxnDev
  TagsOf <- StreamTagsOf
  SplitOf <- StreamSplitOf
  GroupDev <- MCGroupDev
  GroupTxns <- StreamGroupTxns
  BatchOf <- OneBatch
  Diagnostic = {}
  Refused = {}
  Recurring = {}
  Mortal = {}
  Settles = FALSE
  Target <- MCTarget
  Header <- MCHeader
  Length <- SameLength
  LengthRule <- ExactRule
  BadTag = {}
  HalfDuplex = TRUE
  OfflineAfter = 2
  MaxRetries = 0
  MaxBackoff = 0
  QueueCap = 2
  MaxLate = 1
INVARIANTS
  GoodIsOwn
CHECK_DEADLOCK FALSE

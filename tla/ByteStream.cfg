SPECIFICATION Spec
CONSTANTS
  Device = {"d1", "d2"}
  Tag = {"a", "b", "e"}
  Txn = {"r1", "r2", "r3"}
  Group = {"g1", "g2"}
  Period = {"p"}
  Cmd = {"w", "x"}
  NoCmd = NoCmd
  TagDev <- MCTagDev
  TxnDev <- MCTxnDev
  TagsOf <- StreamTagsOf
  SplitOf <- StreamSplitOf
  GroupDev <- MCGroupDev
  GroupTxns <- StreamGroupTxns
  BatchOf <- OneBatch
  Diagnostic = {}
  Refused = {"x"}
  Recurring = {}
  Mortal = {}
  Settles = FALSE
  Target <- MCTarget
  Header <- MCHeader
  Length <- MixedLength
  LengthRule <- MixedRule
  BadTag = {}
  HalfDuplex = TRUE
  OfflineAfter = 2
  MaxRetries = 1
  MaxBackoff = 2
  QueueCap = 2
  MaxLate = 1
INVARIANTS
  TypeOK
  OfflineIsBad
  OutageIsBad
  WriteLatency
  GoodIsOwn
PROPERTIES
  BackoffEarned
CHECK_DEADLOCK FALSE

SPECIFICATION FairSpec
CONSTANTS
  Device = {"d1"}
  Tag = {"a"}
  Txn = {"r1"}
  Group = {"g1"}
  Period = {"p"}
  Cmd = {"q"}
  NoCmd = NoCmd
  TagDev <- MCTagDev
  TxnDev <- MCTxnDev
  TagsOf <- OneTagsOf
  SplitOf <- StreamSplitOf
  GroupDev <- OneGroupDev
  GroupTxns <- OneGroupTxns
  BatchOf <- OneGroupBatch
  Diagnostic = {"q"}
  Refused = {}
  Recurring = {"q"}
  Mortal = {}
  Settles = TRUE
  Target <- MCTarget
  Header <- MCHeader
  Length <- SameLength
  LengthRule <- ExactRule
  BadTag = {}
  HalfDuplex = TRUE
  OfflineAfter = 1
  MaxRetries = 0
  MaxBackoff = 0
  QueueCap = 2
  MaxLate = 1
PROPERTIES
  DuePollServed
CHECK_DEADLOCK FALSE

SPECIFICATION FairSpec
CONSTANTS
  Device = {"d1"}
  Tag = {"a"}
  Txn = {"r1"}
  Group = {"g1"}
  Period = {"p"}
  Cmd = {"v", "w"}
  NoCmd = NoCmd
  TagDev <- MCTagDev
  TxnDev <- MCTxnDev
  TagsOf <- OneTagsOf
  SplitOf <- StreamSplitOf
  GroupDev <- OneGroupDev
  GroupTxns <- OneGroupTxns
  BatchOf <- OneGroupBatch
  Diagnostic = {}
  Refused = {}
  Recurring = {"v", "w"}
  Mortal = {"d1"}
  Settles = FALSE
  Target <- MCTarget
  Header <- MCHeader
  Length <- SameLength
  LengthRule <- ExactRule
  BadTag = {}
  HalfDuplex = TRUE
  OfflineAfter = 3
  MaxRetries = 0
  MaxBackoff = 0
  QueueCap = 2
  MaxLate = 1
INVARIANTS
  GenuineAck
PROPERTIES
  KeepsContract
  EveryCommandAnswered
  ShutdownStops
  SilentDeviceTurnsBad
CHECK_DEADLOCK FALSE

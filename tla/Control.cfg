SPECIFICATION FairSpec
CONSTANTS
  Client = {c1, c2}
  Leaver = {c1}
  Feature = {"port", "tag"}
  Job = {j1}
  Resource = {"port"}
  Op = {"save", "stage", "apply", "start", "stop", "restart", "scan", "cancel", "probe", "shutdown"}
  MaxRunning = 1
  MaxEvents = 3
  None = None
  Watcher = Watcher
  Host = Host
INVARIANTS
  AckedKept
  OnlyAsked
  PortExclusive
  ClosedIsClean
PROPERTIES
  FileSettles
CHECK_DEADLOCK FALSE

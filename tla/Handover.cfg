SPECIFICATION FairSpec
CONSTANTS
  Service = {s}
  Window = {w1}
  MaxEvents = 6
  MaxFaults = 1
  None = None
INVARIANTS
  OneRuntime
  ShutdownIsFinal
PROPERTIES
  PollingResumes
  Settles
CHECK_DEADLOCK FALSE

SPECIFICATION FairSpec
CONSTANTS
  Service = {s}
  Window = {w1}
  MaxEvents = 2
  MaxFaults = 0
  None = None
PROPERTIES
  PollingOutlivesWindow
CHECK_DEADLOCK FALSE

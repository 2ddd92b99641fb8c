SPECIFICATION Spec
CONSTANTS
  Threads = {d1, d2}
  NoThread = nothread
  MaxServers = 1
  MaxParts = 1
  XmlAttempts = 1
  PartAttempts = 1
PROPERTIES
  StopWaitsForThread
CHECK_DEADLOCK FALSE

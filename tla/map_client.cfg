SPECIFICATION FairSpec
CONSTANTS
  Threads = {d1, d2}
  NoThread = nothread
  MaxServers = 2
  MaxParts = 2
  XmlAttempts = 1
  PartAttempts = 1
INVARIANTS
  TypeOK
  ArchiveComplete
  AllServersAsked
  NothingLeft
PROPERTIES
  JobKept
  StopReturns
  DownloadEnds
CHECK_DEADLOCK FALSE

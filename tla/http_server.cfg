SPECIFICATION VerdictSpec
SYMMETRY Symmetry
CONSTANTS
  IPs = {a1, a2}
  NoIP = noip
  Nodes = {n1, n2}
  Workers = {w1, w2}
  Game = game
  NoThread = nothread
  NoNode = null
  Limits = {2}
  CooldownTimes = {1}
  ForgetTimes = {2}
  MaxTime = 2
  MaxTotal = 4
  MaxPermanent = 1
  MaxHold = 1
  FileRoots = {FALSE}
INVARIANTS
  TypeOK
  AdmissionsBounded
  ConnectElementsUnique
  PermanentBanEnforced
  BanMatchesCount
PROPERTIES
  RefusedOnlyIfBanned
  TableKept
CHECK_DEADLOCK FALSE

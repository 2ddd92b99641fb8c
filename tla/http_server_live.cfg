SPECIFICATION Spec
CONSTANTS
  IPs = {a1}
  NoIP = noip
  Nodes = {n1, n2}
  Workers = {w1, w2}
  Game = game
  NoThread = nothread
  NoNode = null
  Limits = {0, 2}
  CooldownTimes = {1}
  ForgetTimes = {2}
  MaxTime = 2
  MaxTotal = 3
  MaxPermanent = 1
  MaxHold = 1
  FileRoots = {TRUE}
PROPERTIES
  RequestsAnswered
  StopCompletes
  BanExpires
CHECK_DEADLOCK FALSE

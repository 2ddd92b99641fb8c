SPECIFICATION VerdictSpec
SYMMETRY Symmetry
CONSTANTS
  Workers = {w1, w2}
  Game = game
  NoThread = nothread
  Maps = {m1, m2}
  NoMap = nomap
  Elements = {e1}
  NoElement = null
  Dangling = dangling
  Wrap = 4
INVARIANTS
  TypeOK
  RequestsCounted
  StopWaitsForCounted
  SearchesLiveElements
  FaultsExplained
  AnswersRequestedMap
PROPERTIES
  GateKept
CONSTRAINT Undisturbed

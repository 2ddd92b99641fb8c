SPECIFICATION FairSpec
CONSTANTS
  Workers = {w1, w2}
  Game = game
  NoThread = nothread
  Maps = {m1}
  NoMap = nomap
  Elements = {e1}
  NoElement = null
  Dangling = dangling
  Wrap = 4
PROPERTIES
  StopReturns
  RequestsEnd
CONSTRAINT Undisturbed

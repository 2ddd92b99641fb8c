SPECIFICATION Spec
CONSTANTS
  Game = game
  Download = download
  NoThread = nothread
  Slots = {s1, s2}
  NoSlot = noslot
  Ids = {i1, i2}
  NoId = noid
  Sources <- OneSource
  Users <- OneSourceAndPart
  ManualUsers = {part}
  Part = part
  NoUser = nouser
  Documents <- CompleteDocuments
  NoDocument = nodoc
  Failed = failed
  Garbled = garbled
  MaxVersion = 2
  MaxLoads = 3
  Platforms = {"user"}
PROPERTIES
  ReceivedVersionsCount

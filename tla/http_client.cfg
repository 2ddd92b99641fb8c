SPECIFICATION Spec
CONSTANTS
  Game = game
  Download = download
  NoThread = nothread
  Slots = {s1, s2, s3}
  NoSlot = noslot
  Ids = {i1, i2}
  NoId = noid
  Sources <- TwoSources
  Users <- TwoSourcesAndPart
  ManualUsers = {part}
  Part = part
  NoUser = nouser
  Documents <- MixedDocuments
  NoDocument = nodoc
  Failed = failed
  Garbled = garbled
  MaxVersion = 2
  MaxLoads = 3
  Platforms = {"user", "dedi"}
SYMMETRY Symmetry
INVARIANTS
  TypeOK
  LiveRequestsHeld
  IndexesExclusive
  MutexLeakNeedsLostSlots
  NothingHeldBetweenChecks
  DedicatedKeepsSlots
PROPERTIES
  PromiseKept
  NewestAdopted

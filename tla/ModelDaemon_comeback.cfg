SPECIFICATION MCAnsweredSpec
CONSTANTS
  c1 = c1
  c2 = c2
  gcrn = gcrn
  yamnet = yamnet
  broken = broken
  Clients = {c1}
  Models = {gcrn, broken}
  Loadable = {gcrn}
  Default = gcrn
  PathLen <- MCSameLen
  NoPath = NoPath
  Garbled = Garbled
  Backlog = 2
  Chunks = 1
  MaxCrashes = 1
  Happens = {"crash"}
PROPERTIES ComesBack

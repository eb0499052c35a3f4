SPECIFICATION FairSpec
CONSTANTS
  c1 = c1
  c2 = c2
  gcrn = gcrn
  yamnet = yamnet
  broken = broken
  Clients = {c1, c2}
  Models = {gcrn, broken}
  Loadable = {gcrn}
  Default = gcrn
  PathLen <- MCSameLen
  NoPath = NoPath
  Garbled = Garbled
  Backlog = 1
  Chunks = 1
  MaxCrashes = 1
  Happens = {"kill", "artifacts", "crash", "sigterm", "preload", "denied"}
PROPERTIES  ComesBackOrBroken

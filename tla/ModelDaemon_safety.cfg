SPECIFICATION CalmSpec
CONSTANTS
  c1 = c1
  c2 = c2
  gcrn = gcrn
  yamnet = yamnet
  broken = broken
  Clients = {c1, c2}
  Models = {gcrn, yamnet, broken}
  Loadable = {gcrn, yamnet}
  Default = gcrn
  PathLen <- MCPathLen
  NoPath = NoPath
  Garbled = Garbled
  Backlog = 1
  Chunks = 2
  MaxCrashes = 1
  Happens = {"kill", "crash", "c7x", "failure", "denied"}
SYMMETRY MCSymmetry
INVARIANTS TypeOK OneModelPerRun Lockstep ConfirmedIsResident RightModelAlone
PROPERTIES Implements

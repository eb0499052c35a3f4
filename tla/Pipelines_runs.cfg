SPECIFICATION FairSpec
CONSTANTS
  HopSize = 2
  TotalFrames = 5
  OverlapFrames = 3
  BatchN = 2
  IstftBatchN = 3
  StreamFrame = 3
  Room = 2
  MaxViews = 1
  Lengths <- MCLengths
  Layouts <- MCLayouts
  Frames = 3
  BatchSize = 2
  Sizes <- MCSizes
  MaxOverruns = 1
INVARIANTS TypeOK Timeline Restored EachSampleOnce HeardInOrder ArtifactsBeforeUse
PROPERTIES Finishes

SPECIFICATION FairSpec
CONSTANTS
  QueueSize = 3
  BufferSize = 5
  FrameData = 2
  SummaryEvery = 2
  SummaryLines = 1
  MaxFrames = 4
  MaxToggles = 2
INVARIANTS LinesInOrder FramesWhole FilterFollows
PROPERTIES Drains

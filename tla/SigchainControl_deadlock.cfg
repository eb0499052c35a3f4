SPECIFICATION FairSpec
CONSTANTS
  Polls = 2
  Toggles = 2
  Worlds <- MCInterrupted
PROPERTIES CleanShutdown
CHECK_DEADLOCK FALSE

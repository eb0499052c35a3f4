SPECIFICATION FairSpec
CONSTANTS
  Polls = 2
  Toggles = 2
  Worlds <- MCWorlds
INVARIANTS TypeOK OkMeansDone DemoNeedsCodecs NoStaleReply 
PROPERTIES CommandsEnd SignalEnds
CHECK_DEADLOCK FALSE

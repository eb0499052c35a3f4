SPECIFICATION FairSpec
CONSTANTS
  Top = 11
  Pending = 2
  Worlds <- MCWorlds
INVARIANTS
  LeavesBase
PROPERTIES
  LogStaysInLog
  ServedAgain
CHECK_DEADLOCK TRUE

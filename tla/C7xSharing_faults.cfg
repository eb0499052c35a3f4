SPECIFICATION Spec
CONSTANTS
  MaxRuns = 2
  MaxBoots = 2
  Faults = {"sysfs", "symlink", "rpmsg", "data", "param", "file", "message", "signal"}
INVARIANTS BaseAfterExit FreesWhatItHas TalksToItsFirmware ReadyMeansEdge BootRepairs

SPECIFICATION FairSpec
CONSTANTS
  Frames = 2
  Faults = {"sysfs", "symlink", "rpmsg", "buffer", "uart", "open", "thread", "message",
            "signal", "command", "viewer", "stall"}
INVARIANTS BaseAfterExit CrashesOnlyBy PlaysFiltered
PROPERTIES Ends

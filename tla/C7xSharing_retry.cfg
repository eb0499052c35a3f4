SPECIFICATION Spec
CONSTANTS
  MaxRuns = 2
  MaxBoots = 0
  Faults = {"sysfs"}
INVARIANTS FailsForAReason

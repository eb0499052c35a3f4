SPECIFICATION Spec
CONSTANTS
  Dacs = 2
  Adcs = 2
  Calls = 3
  Faults = {"bus", "write", "signal"}
INVARIANT InitMeansOn
PROPERTY KnownUntilOff

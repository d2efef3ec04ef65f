SPECIFICATION Spec
CONSTANTS
  Devices = {"disk", "locked disk", "ISO", "CD-RW", "audio CD"}
  BlankSteps = 3
INVARIANT SenseTruthful
INVARIANT BlankOutcomeTold

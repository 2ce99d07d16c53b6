SPECIFICATION Spec
CONSTANTS
  Cells <- TwoCells
  NoCell = "none"
  MaxTimeouts = 2
  MaxOthers = 1
INVARIANTS
  HeldIsLocked
PROPERTIES
  StopReleases
CHECK_DEADLOCK FALSE

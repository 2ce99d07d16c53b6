SPECIFICATION Spec
CONSTANTS
  Earfcns = {1, 2, 3}
  Fdd = {1, 2}
  Ghosts = {}
  Pcis = {1, 2, 3}
  Plmns = {1, 2}
  World <- Air
  Refusals <- NoneOrOne
  Sib1 <- SomeReadable
  Frontier = 2
  Modes <- BothModes
  MaxFaults = 1
INVARIANTS
  TargetIsPinned
PROPERTIES
  NoSecondVisit
  WalkFinishes
CHECK_DEADLOCK FALSE

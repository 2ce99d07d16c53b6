SPECIFICATION Spec
CONSTANTS
  Recipes <- All
  UserModes <- Found
  MaxLost = 1
  MaxDrops = 1
INVARIANTS
  EndRestored
PROPERTIES
  BackOnLte
  HoldIsRestored
  WalkModeEnds
CHECK_DEADLOCK FALSE

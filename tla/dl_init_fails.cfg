SPECIFICATION Spec
CONSTANTS
  Nodes <- TwoNodes
  Packs <- TwoPacks
  Attempts = 1
  WritesMayFail = TRUE
  MaxFaults = 2
  MaxRequests = 0
PROPERTIES
  PackSettles
CHECK_DEADLOCK FALSE

SPECIFICATION Spec
CONSTANTS
  Nodes <- TwoNodes
  Packs <- TwoPacks
  Attempts = 1
  WritesMayFail = FALSE
  MaxFaults = 3
  MaxRequests = 1
INVARIANTS
  TypeOK
  ThreadConfined
PROPERTIES
  LinkRecovers
  PackSettles
  StopEnds
CHECK_DEADLOCK FALSE

SPECIFICATION Spec
CONSTANTS
  Earfcns = {1, 2, 3, 4}
  Fdd = {1, 2, 4}
  Ghosts = {4}
  Pcis = {1, 2}
  Plmns = {1, 2}
  RowKinds <- Kinds
INVARIANTS
  RankingIsStrictOrder
  WalkCoversUncamped
  WalkTargetIsStrongest
  NewCarrierFirst
  SeedsAreWalkTargets
CHECK_DEADLOCK FALSE

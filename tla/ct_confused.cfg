SPECIFICATION Spec
CONSTANTS
  Rats = {"LTE"}
  Freqs = {1}
  Pcis = {1, 2}
  Cids = {11, 12}
  WideCids = {}
  GsmCids = {}
  Tacs = {21, 22}
  Plmns = {31, 32}
  PassportInputs <- ConfusedPassports
  CgiInputs <- OrphanCgi
  EventKeys <- OrphanKeys
  Carriers <- LteCarrier
  Truth <- TwoCellTruth
INVARIANTS
  OneServingPerRat
  EciUnique
  WeakRowHasNoIdentity
  PendingIsUnbound
  NoNullRow
PROPERTIES
  FullIsSticky
  HardPlmnStaysHard
CHECK_DEADLOCK FALSE

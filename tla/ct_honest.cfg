SPECIFICATION Spec
CONSTANTS
  Rats = {"LTE"}
  Freqs = {1}
  Pcis = {1, 2}
  Cids = {11, 12}
  WideCids = {}
  GsmCids = {}
  Tacs = {21, 22}
  Plmns = {31, 32}
  PassportInputs <- HonestPassports
  CgiInputs <- HonestCgi
  EventKeys <- LteKeys
  Carriers <- LteCarrier
  Truth <- TwoCellTruth
INVARIANTS
  TypeOK
  IdentityIsOwn
  TacIsOwn
  CampedIsIdentified
CHECK_DEADLOCK FALSE

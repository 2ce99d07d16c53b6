SPECIFICATION Spec
CONSTANTS
  Rats = {"GSM", "NR", "WCDMA"}
  Freqs = {1, 2, 3, 4}
  Pcis = {5}
  Cids = {11, 12}
  WideCids = {}
  GsmCids = {11, 12}
  Tacs = {21, 22}
  Plmns = {31, 32}
  PassportInputs <- OtherPassports
  CgiInputs <- OtherCgi
  EventKeys <- OtherKeys
  Carriers <- OtherCarriers
  Truth <- TwoCellTruth
INVARIANTS
  CidRowIsLastResort
PROPERTIES
  RatIsStable
CHECK_DEADLOCK FALSE

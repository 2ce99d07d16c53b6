SPECIFICATION Spec
CONSTANTS
  Earfcns = {1, 2, 3, 4}
  Fdd = {1, 2}
  Ghosts = {}
  Pcis = {1, 2}
  Plmns = {1}
  World <- Air
  Readable <- AirReadable
  Refused <- AirRefused
  Report <- AirReport
  HopMax = 1
  WalkMax = 5
  Weak = 3
  Cool = 2
  FddBan = 5
  TddBan = 2
  BandWaves = 1
  OperWaves = 2
  Modes <- BothModes
PROPERTIES
  SurveyGoesOn
  CandidatesGetTheirTurn

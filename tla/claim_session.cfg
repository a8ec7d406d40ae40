SPECIFICATION FairChildren
CONSTANTS
  InitReq = init
  Calls = {}
  Doctors = {}
  Plain = {}
  NoReq = NoReq
  WireOn = TRUE
  WriteRetries = 8
  SetupRetries = 1
  MaxFaults = 1
  MaxSpawnFails = 0
  MaxVersion = 1
PROPERTY SessionSurvives
CHECK_DEADLOCK FALSE

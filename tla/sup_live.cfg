SPECIFICATION FairSpec
CONSTANTS
  InitReq = init
  Calls = {c}
  Doctors = {}
  Plain = {}
  NoReq = NoReq
  WireOn = TRUE
  WriteRetries = 3
  SetupRetries = 1
  MaxFaults = 1
  MaxSpawnFails = 2
  MaxVersion = 2
PROPERTIES Respawned TrafficWakes CallsAnswered
CHECK_DEADLOCK FALSE

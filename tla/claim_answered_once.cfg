SPECIFICATION Spec
CONSTANTS
  InitReq = init
  Calls = {}
  Doctors = {d}
  Plain = {}
  NoReq = NoReq
  WireOn = FALSE
  WriteRetries = 8
  SetupRetries = 1
  MaxFaults = 1
  MaxSpawnFails = 0
  MaxVersion = 1
INVARIANT AnsweredOnce
CHECK_DEADLOCK FALSE

SPECIFICATION Spec
CONSTANTS
  InitReq = init
  Calls = {}
  Doctors = {d1, d2}
  Plain = {}
  NoReq = NoReq
  WireOn = TRUE
  WriteRetries = 8
  SetupRetries = 1
  MaxFaults = 1
  MaxSpawnFails = 0
  MaxVersion = 1
INVARIANT NoCallHangs
CHECK_DEADLOCK FALSE

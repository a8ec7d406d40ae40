SPECIFICATION Spec
CONSTANTS
  InitReq = init
  Calls = {c}
  Doctors = {d}
  Plain = {}
  NoReq = NoReq
  WireOn = TRUE
  WriteRetries = 2
  SetupRetries = 1
  MaxFaults = 1
  MaxSpawnFails = 1
  MaxVersion = 2
INVARIANTS RunsOnce
CHECK_DEADLOCK FALSE

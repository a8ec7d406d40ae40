SPECIFICATION Spec
CONSTANTS
  InitReq = init
  Calls = {c}
  Doctors = {}
  Plain = {}
  NoReq = NoReq
  WireOn = TRUE
  WriteRetries = 8
  SetupRetries = 1
  MaxFaults = 1
  MaxSpawnFails = 0
  MaxVersion = 1
PROPERTY SnapshotIsUnread
CHECK_DEADLOCK FALSE

SPECIFICATION Spec
CONSTANTS
  InitReq = init
  Calls = {}
  Doctors = {d}
  Plain = {}
  NoReq = NoReq
  WireOn = TRUE
  WriteRetries = 2
  SetupRetries = 1
  MaxFaults = 3
  MaxSpawnFails = 1
  MaxVersion = 1
INVARIANTS TypeOK ForwardOnce NoContradiction NeverForgotten IdleStrandsNothing DeadIsReplaced
  OneSpawnPerFault
PROPERTY IsReplyChannel
ACTION_CONSTRAINT ThirdFaultEarly
CHECK_DEADLOCK FALSE

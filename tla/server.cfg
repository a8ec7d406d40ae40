SPECIFICATION FairSpec
CONSTANTS
  Calls = {d, m}
  Doctors = {d}
  Drivers = {m}
  NoCall = NoCall
  ReplyTime = 1
  FlushGrace = 2
  DrainTimeout = 1
  DrainIdle = 2
  RunDeferMax = 2
  IdleExit = 3
  MaxRuns = 1
  Horizon = 3
INVARIANTS TypeOK
PROPERTIES QuietExit ServesAsChild OwnReplyLeft KilledLate NewCodeLoads IdlesOut
CHECK_DEADLOCK FALSE

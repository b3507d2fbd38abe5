SPECIFICATION MutexLiveSpec
CONSTANTS
  a = a
  b = b
  c = c
  Tcb = {a, b, c}
  Modes = {TRUE}
  RtSched = FALSE
  RtTasks = {}
  Credits <- NoCredits
  InitTasks <- ABC
  Idle = {}
  Calls = {"sem"}
  Levels = {31}
  Delays = {1}
  MaxTasks = 3
  Value = 1
  MaxCount = 2
INVARIANTS MutualExclusion
PROPERTIES EveryoneEnters

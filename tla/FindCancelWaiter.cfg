SPECIFICATION SemSpec
CONSTANTS
  idle = idle
  a = a
  b = b
  c = c
  Tcb = {idle, a, b}
  Modes = {TRUE}
  RtSched = FALSE
  RtTasks = {}
  Credits <- NoCredits
  InitTasks <- IdleAB
  Idle = {idle}
  Calls = {"sem", "cancel"}
  Levels = {31}
  Delays = {1}
  MaxTasks = 3
  Value = 1
  MaxCount = 2
INVARIANTS CancelLeavesNoTrace

SPECIFICATION Spec
CONSTANTS
  idle = idle
  r = r
  a = a
  b = b
  c = c
  Tcb = {idle, a, b}
  Modes = {FALSE}
  RtSched = FALSE
  RtTasks = {}
  Credits <- OneCredit
  InitTasks <- IdleLast
  Idle = {idle}
  Calls = {"delay"}
  Levels = {7, 31}
  Delays = {2}
INVARIANTS PanicMeansNoTasks

SPECIFICATION LiveSpec
CONSTANTS
  idle = idle
  r = r
  a = a
  b = b
  c = c
  Tcb = {idle, a, b}
  Modes = {TRUE, FALSE}
  RtSched = FALSE
  RtTasks = {}
  Credits <- OneCredit
  InitTasks <- IdleFirst
  Idle = {idle}
  Calls <- WaitCalls
  Levels = {1, 3, 7}
  Delays = {1, 2}
PROPERTIES NoStarvation DelaysExpire

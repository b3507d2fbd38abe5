SPECIFICATION Spec
CONSTANTS
  idle = idle
  r = r
  a = a
  b = b
  c = c
  Tcb = {idle, a, b}
  Modes = {TRUE, FALSE}
  RtSched = TRUE
  RtTasks = {b}
  Credits <- TwoCredits
  InitTasks <- IdleLast
  Idle = {idle}
  Calls <- PriorityCalls
  Levels = {1, 3, 7}
  Delays = {1}
INVARIANTS TypeInv OneRunning CountdownWithinBase LoopSelects

SPECIFICATION Spec
CONSTANTS
  idle = idle
  r = r
  a = a
  b = b
  c = c
  Tcb = {idle, r, a, b, c}
  Modes = {TRUE, FALSE}
  RtSched = TRUE
  RtTasks = {r}
  Credits <- TwoCredits
  InitTasks <- WithRt
  Idle = {idle, r}
  Calls <- LifeCalls
  Levels = {31}
  Delays = {1, 2}
INVARIANTS CurrentListed StoppedTasksDoNotRun
           DelayOnlyWhileBlocked HalfBuiltNeverScheduled NoFalsePanic
PROPERTIES StoppedUntilWoken

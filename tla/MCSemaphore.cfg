SPECIFICATION AppSpec
CONSTANTS
  idle = idle
  a = a
  b = b
  c = c
  Tcb = {idle, a, b, c}
  Modes = {TRUE, FALSE}
  RtSched = FALSE
  RtTasks = {}
  Credits <- NoCredits
  InitTasks <- IdleABC
  Idle = {idle}
  Calls <- SemLifeCalls
  Levels = {31}
  Delays = {1}
  MaxTasks = 3
  Value = 1
  MaxCount = 2
INVARIANTS CountMatchesQueue WaitersBlocked NoLostWaiter QueueSuffices
PROPERTIES ImplementsDijkstra

SPECIFICATION LiveSpec
CONSTANTS
  k0 = k0
  k1 = k1
  a = a
  b = b
  c = c
  d = d
  NoCore = NoCore
  Core <- OneCore
  TasksOf <- TwoTasks
  Callers = {a, b}
  Multicore = FALSE
  MaxNest = 2
PROPERTIES YieldReturns
CHECK_DEADLOCK FALSE

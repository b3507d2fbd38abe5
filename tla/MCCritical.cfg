SPECIFICATION Spec
CONSTANTS
  k0 = k0
  k1 = k1
  a = a
  b = b
  c = c
  d = d
  NoCore = NoCore
  Core <- TwoCores
  TasksOf <- TwoEach
  Callers = {a, c}
  Multicore = TRUE
  MaxNest = 1
INVARIANTS OneCoreInside
CHECK_DEADLOCK FALSE

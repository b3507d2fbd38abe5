SPECIFICATION Spec
CONSTANTS
  c0 = c0
  c1 = c1
  c2 = c2
  None = None
  Core <- Cores
INVARIANTS MutualExclusion
PROPERTIES CallsDeliver

SPECIFICATION Spec
CONSTANTS
  G = {g1, g2, g3}
  NoG = NoG
  Addr = {s}
  sema = s
  MaxSpin = 1
  Patience = 1
  MaxCalls = 4
CHECK_DEADLOCK FALSE
INVARIANTS MutualExclusion NoThrow StarvingHasWaiters WaitersCounted NotForgotten IInv
PROPERTY Returns

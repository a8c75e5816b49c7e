SPECIFICATION Spec
CONSTANTS
  G = {g1, g2, g3}
  NoG = NoG
  Addr = {a, b}
  MaxAcquire = 2
  MaxRelease = 2
CHECK_DEADLOCK FALSE
INVARIANTS SemaInvariant NoLostWakeup Conserved
PROPERTY UnitsMeetWaiters

SPECIFICATION Spec
CONSTANTS
  G = {g1, g2, g3, g4, g5}
  None = None
  rwmutexMaxReaders = 6
INVARIANT Exclusion
PROPERTY LockReturns

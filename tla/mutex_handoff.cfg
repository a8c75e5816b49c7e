SPECIFICATION Spec
CONSTANTS
  G = {g1, g2, g3}
  NoG = NoG
  Addr = {s}
  sema = s
  MaxSpin = 0
  Patience = 0
  MaxCalls = 5
CHECK_DEADLOCK FALSE
PROPERTY HandoffToFront

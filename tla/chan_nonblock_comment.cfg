SPECIFICATION NSpec
CONSTANTS
  G = {g1, g2, g3}
  NoG = NoG
  Nil = Nil
  Channel <- Chans1
  dataqsiz <- Unbuffered
  Ops <- ChanOps
  MaxCalls = 1
CHECK_DEADLOCK FALSE
SYMMETRY Symmetric
INVARIANT SendDefaultJustified

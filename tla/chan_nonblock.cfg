SPECIFICATION NSpec
CONSTANTS
  G = {g1, g2, g3}
  NoG = NoG
  Nil = Nil
  Channel <- Chans2
  dataqsiz <- Mixed
  Ops <- MixedOps
  MaxCalls = 1
CHECK_DEADLOCK FALSE
SYMMETRY Symmetric
INVARIANT DefaultJustified
PROPERTY Linearizable

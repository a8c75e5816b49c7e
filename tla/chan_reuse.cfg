SPECIFICATION Spec
CONSTANTS
  G = {g1, g2}
  NoG = NoG
  Nil = Nil
  Channel <- Chans2
  dataqsiz <- Mixed2
  Ops <- ReuseOps
  MaxCalls = 3
CHECK_DEADLOCK FALSE
SYMMETRY Symmetric
INVARIANTS TypeOK NoLostWaiter NoDanglingSudog IInv
PROPERTY Linearizable

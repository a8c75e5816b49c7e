SPECIFICATION Spec
CONSTANTS
  G = {g1, g2, g3}
  NoG = NoG
  Nil = Nil
  Channel <- Chans2
  dataqsiz <- Mixed
  Ops <- SelectOps
  MaxCalls = 1
CHECK_DEADLOCK FALSE
PROPERTIES Linearizable OpProgress CloseReleases
INVARIANTS WaitqInvariant ReadyOnce WaitingListStable ClosedDrained NoThrow

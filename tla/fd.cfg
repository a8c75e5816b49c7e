CONSTANTS
  g1 = g1
  g2 = g2
  g3 = g3
  f1 = f1
  f2 = f2
  None = None
  Poller = {p1}
  SeqMod = 4
  G <- MCG
  F <- MCF
  Ops <- MCOps
  MaxCalls = 3
  MaxEvents = 1
SPECIFICATION Spec
INVARIANTS FdAlive NoThrow NoLostReady NoLostCancel EventErrOwn
PROPERTIES OnTime CloseReturns DeadlineReturns
CHECK_DEADLOCK FALSE

SPECIFICATION Spec
CONSTANTS
  P = {p1, p2}
  M = {m1, m2, m3}
  Nil = Nil
  MaxG = 3
CHECK_DEADLOCK FALSE
INVARIANT Owned
PROPERTY WorkConserving

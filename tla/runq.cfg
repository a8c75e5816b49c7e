SPECIFICATION Spec
CONSTANTS
  P = {p1, p2, p3}
  G = {1, 2, 3, 4, 5, 6}
  Nil = Nil
  Len256 = 4
  Wrap = 16
  Start = 14
  Starts <- MCStarts
SYMMETRY Symmetric
INVARIANTS EachOnce EmptyJustified

\* Two vectors that grow by two, and as many elements as they can hold.
CONSTANTS
  VecId = {v, w}
  Elem = {a, b, c, d}
  Junk = Junk
  Align = 2
  MaxCap = 4
  Trivial = FALSE
  MovesValues = TRUE
  TruncateTo = {0}
SPECIFICATION Spec
SYMMETRY Symmetry
INVARIANTS
  MemoryHoldsElements
  InOnePlace
  NoElementLost
CHECK_DEADLOCK FALSE

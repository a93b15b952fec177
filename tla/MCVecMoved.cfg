\* A vector of elements with destructors is moved from.
CONSTANTS
  VecId = {v, w}
  Elem = {a, b}
  Junk = Junk
  Align = 2
  MaxCap = 4
  Trivial = FALSE
  MovesValues = TRUE
  TruncateTo = {0}
SPECIFICATION Spec
INVARIANTS
  NoNullDrop
CHECK_DEADLOCK FALSE

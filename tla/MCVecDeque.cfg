\* Queues that grow from nothing, one and two slots to 4 and to 8, at every
\* rotation.
CONSTANTS
  Value = {x, y}
  Junk = Junk
  MinCap = 4
  FirstCaps = {0, 2}
  MaxLen = 6
SPECIFICATION Spec
INVARIANTS
  IterMeetsOnce
PROPERTIES
  ImplementsDeque
CHECK_DEADLOCK FALSE

\* Every number in every style.
CONSTANTS
  Capacity = 48
  UsizeMod = 65536
  Ints <- MCInts
  Floats <- MCFloats
  Precisions = {0, 1, 2, 3}
  Styles <- MCStyles
SPECIFICATION Spec
INVARIANTS
  LoopFits
  NumbersSpelled
  FieldFilled
CHECK_DEADLOCK FALSE

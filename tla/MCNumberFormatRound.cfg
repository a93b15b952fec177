\* A float whose fraction rounds up to 1.
CONSTANTS
  Capacity = 48
  UsizeMod = 65536
  Ints <- MCInts
  Floats <- MCFloats
  Precisions = {0, 1, 2, 3}
  Styles <- MCStyles
SPECIFICATION Spec
INVARIANTS
  FloatsSpelled
CHECK_DEADLOCK FALSE

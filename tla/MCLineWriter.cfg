\* Capacity 2, slices up to 3: buffered, flushed and written past the buffer;
\* the inner writer fails at most twice.
CONSTANTS
  Cap = 2
  IsNewline <- NegativeIsNewline
  MaxFaults = 2
  MaxStream = 5
  MaxSlice = 3
SPECIFICATION FairSpec
INVARIANTS
  ToldIsDelivered
  LinesGoOut
  FaultsLoseNothing
PROPERTIES
  CallsReturn
CHECK_DEADLOCK FALSE

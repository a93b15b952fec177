\* Two threads, two calls each; a buffer of two; short writes, up to one failure.
CONSTANTS
  Cap = 2
  IsNewline <- EndsLine
  MaxFaults = 1
  Thread = {t1, t2}
  Texts <- MCTexts
  MaxCalls = 2
  Nobody = Nobody
SPECIFICATION FairSpec
INVARIANTS
  WriterIsLocked
  TextsUninterleaved
  PrintedIsOut
PROPERTIES
  CallsReturn
CHECK_DEADLOCK FALSE

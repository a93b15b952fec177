\* Logger: two entries in all, a line buffer of five, vectors that grow by two,
\* up to three backends, one write of a file that is cut short or fails.
\* Stderr: two threads, two texts of two pieces each, one write that fails.
CONSTANTS
  Thread = {t1, t2}
  Nobody = Nobody
  Levels = {0, 1}
  Messages = {"long", "short"}
  Letters = {"a", "b", "c", "d", "e", "n"}
  Pieces <- MCPieces
  LineCap = 5
  Indent = 1
  Align = 2
  MaxBackends = 3
  MaxCalls = 2
  MaxFaults = 1
  StderrPieces = 2
  MaxTexts = 2
  StderrFaults = 1
SPECIFICATION ReportsSpec
INVARIANTS
  IterationsInMemory
  LinesSeparate
  EntriesDelivered
PROPERTIES
  StderrReports
  LogReturns
CHECK_DEADLOCK FALSE

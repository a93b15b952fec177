\* Heaps of up to seven elements, three full levels, of four values.
\* Texts of up to five characters are parsed; lists grow to 200 entries, with a
\* spare capacity of four bits; paths have up to seven characters; arrays up to
\* three axes; a file has up to two bytes, two File objects and two descriptors; three
\* Options or Results share two resources.
CONSTANTS
  Value = {1, 2, 3, 4}
  NoValue = NoValue
  MaxLen = 7
  Searches <- MCSearches
  Numerals <- MCNumerals
  Templates <- MCTemplates
  Boxes <- MCBoxes
  Values <- MCValues
  Structs <- MCStructs
  Moments <- MCMoments
  NanosPerMilli = 4
  MillisPerSec = 5
  U64 = 512
  U32Max = 100
  Suites <- MCSuites
  Descs <- MCDescs
  Letters <- MCLetters
  MaxText = 5
  Align = 8
  ResMod = 16
  MaxPush = 200
  PathParts <- MCParts
  PathNames <- MCNames
  PathExts <- MCExts
  MaxPath = 7
  ArrayDims <- MCDims
  Longest = 3
  Ends = {0, 1, 4}
  Handle = {h1, h2}
  Fids = {1, 2}
  Bytes = {1}
  MaxFile = 2
  Slot = {s1, s2, s3}
  Resource = {r1, r2}
SPECIFICATION MCSpec
INVARIANTS
  HeapOrdered
  TextsFound
  NumbersHold
  FormatsAsAsked
  NodesHold
  OwnedOnce
  ViewsShow
PROPERTIES
  ImplementsQueue
  CallsReturn
  FilesAndNames
CHECK_DEADLOCK FALSE

CONSTANTS
  Conns = {c1, c2}
  Main = Main
  NoOwner = NoOwner
  NULL = NULL
  ListHead = ListHead
  Newline = "n"
  Chunks <- MCOneLine
  MaxChunks = 1
  BufferSize = 10
  Limit = 2
  Stored <- MCNothingStored
  Faults = {}
SPECIFICATION FairSpec
PROPERTIES
  LinesAreAnswered
  ShutdownCompletes
CHECK_DEADLOCK FALSE

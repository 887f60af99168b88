CONSTANTS
  Conns = {c1, c2}
  Main = Main
  NoOwner = NoOwner
  NULL = NULL
  ListHead = ListHead
  Newline = "n"
  Chunks <- MCLines
  MaxChunks = 1
  BufferSize = 10
  Limit = 2
  Stored <- MCStored
  Faults = {}
SPECIFICATION Spec
INVARIANT AnswerHasOwnLine
CHECK_DEADLOCK FALSE

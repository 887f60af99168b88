CONSTANTS
  Conns = {c1, c2}
  Main = Main
  NoOwner = NoOwner
  NULL = NULL
  ListHead = ListHead
  Newline = "n"
  Chunks <- MCChunks
  MaxChunks = 2
  BufferSize = 10
  Limit = 2
  Stored <- MCStored
  Faults = {}
SPECIFICATION Spec
INVARIANT OwnDescriptors
CHECK_DEADLOCK FALSE

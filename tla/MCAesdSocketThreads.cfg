CONSTANTS
  Conns = {c1, c2}
  Main = Main
  NoOwner = NoOwner
  NULL = NULL
  ListHead = ListHead
  Newline = "n"
  Chunks <- MCAnswerChunks
  MaxChunks = 1
  BufferSize = 10
  Limit = 2
  Stored <- MCPerhapsStored
  Faults = {"pthread_create", "open", "open_read", "read", "write", "send", "ioctl"}
SPECIFICATION Spec
SYMMETRY MCSymmetry
INVARIANTS
  TypeOK
  MutexDiscipline
  ThreadsAreListed
  OwnDescriptors
  NothingLeftOpen
  AnswerIsTheFile
CHECK_DEADLOCK FALSE

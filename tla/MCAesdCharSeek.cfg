CONSTANTS
  MaxWriteOps = 2
  NULL = NULL
  FREE = FREE
  NoProc = NoProc
  Procs = {p1, p2}
  Blocks <- MCBlocks
  Bytes <- MCBytes
  Newline = "n"
  Payloads <- MCPayloads
  ReadCounts <- MCReadCounts
  Seeks <- MCSeeks
  SeekTos <- MCSeekTosBehind
  IntBits = 4
  Faults = {}
  MaxCalls = 4
SPECIFICATION Spec
INVARIANT SeekNamesStoredCommand

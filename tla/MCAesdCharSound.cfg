CONSTANTS
  MaxWriteOps = 2
  NULL = NULL
  FREE = FREE
  NoProc = NoProc
  Procs = {p1, p2}
  Blocks <- MCBlocks
  Bytes <- MCBytes
  Newline = "n"
  Payloads <- MCPayloads
  ReadCounts <- MCReadCounts
  Seeks <- MCSeeks
  SeekTos <- MCSeekTos
  IntBits = 4
  Faults = {"interrupt", "copy_to_user", "cdev_add"}
  MaxCalls = 4
SPECIFICATION Spec
SYMMETRY MCSymmetry
INVARIANTS
  TypeOK
  MutualExclusion
  NoUseAfterFree
  Ownership
  NoBlockOutlivesModule
  CommandsAreWhole
PROPERTIES
  SeekIsExact
  ImplementsAesdDevice

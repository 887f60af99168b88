CONSTANTS
  MaxWriteOps = 2
  NULL = NULL
  FREE = FREE
  NoProc = NoProc
  Procs = {p1, p2}
  Blocks <- MCBlocks
  Bytes <- MCBytes
  Newline = "n"
  Payloads <- MCPayloads
  ReadCounts <- MCReadCounts
  Seeks <- MCSeeks
  SeekTos <- MCSeekTosNegative
  IntBits = 4
  Faults = {"kmalloc", "copy_from_user", "interrupt_write", "krealloc", "interrupt",
            "copy_to_user", "cdev_add"}
  MaxCalls = 3
SPECIFICATION FairSpec
INVARIANTS
  LockDiscipline
  Ownership
PROPERTIES
  StepsImplementDevice
  EveryCallReturns
CHECK_DEADLOCK FALSE

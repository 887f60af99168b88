CONSTANTS
  MaxWriteOps = 3
  NULL = NULL
  Ptrs = {p1, p2, p3, p4}
  Sizes <- MCSizes
  MaxAdds = 7
SPECIFICATION Spec
SYMMETRY MCSymmetry
INVARIANTS
  TypeOK
  SlotsHoldHistory
  WindowIsRecentHistory
  HeldIsStored
  FindIsConcatenation
PROPERTY ImplementsRecentCommands
CHECK_DEADLOCK FALSE

SPECIFICATION MCSpec
CONSTANTS
  Planes <- Both
  Ops <- AnyOp
  HealthOps <- NoHealth
  None = None
  CompletedRetention = 64
  EvidenceRetention = 64
  Calls = {c1, c2}
  FenceFirst = FALSE
  MaxFaults = 2
SYMMETRY CallSymmetry
CHECK_DEADLOCK FALSE
INVARIANTS NothingThrows JournalTellsTheTruth NoOrphanedSlot
PROPERTIES BaselineIsWhole CancelledHasNoEffect

SPECIFICATION FairSpec
CONSTANTS
  Planes <- Both
  Ops <- OneOp
  HealthOps <- LaterDelta
  None = None
  CompletedRetention = 64
  EvidenceRetention = 64
  Calls = {c1, c2}
  FenceFirst = TRUE
  MaxFaults = 0
CHECK_DEADLOCK FALSE
INVARIANTS TypeOK JournalTellsTheTruth
PROPERTIES CancelledHasNoEffect CallsReturn

SPECIFICATION RecoveredSpec
CONSTANTS
  Planes <- Both
  Ops <- Repair
  HealthOps <- Delta
  None = None
  CompletedRetention = 64
  EvidenceRetention = 64
  Calls = {c1}
  FenceFirst = TRUE
  MaxFaults = 1
CHECK_DEADLOCK FALSE
PROPERTIES RecoveryConverges

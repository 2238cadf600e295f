SPECIFICATION MCSpec
CONSTANTS
  Planes = {"http"}
  Ops <- AnyOp
  HealthOps <- Delta
  None = None
  CompletedRetention = 1
  EvidenceRetention = 1
  MaxToken = 2
  MaxSeq = 2
  ProgressMaps <- AllCommitted
INVARIANTS TypeOK StandingIsJustified OnlyUnfencedTokensThrow
PROPERTIES ActivationIsImplemented NoResurrection PositionsMoveUp

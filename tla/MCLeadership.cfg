SPECIFICATION MCSpec
CONSTANTS
  Nodes = {n1, n2}
  Conns = {k1, k2, k3, k4}
  None = None
  MaxFaults = 2
  EndsFirst = TRUE
INVARIANTS TypeOK TheHolderOutranks ALeaderHoldsTheLockOrIsCut
PROPERTIES SomebodyLeads

SPECIFICATION FairMCSpec
CONSTANTS
  n1 = n1
  n2 = n2
  b1 = b1
  b2 = b2
  Nodes = {n1, n2}
  Backends = {b1, b2}
  BackendOrder <- InOrder
  None = None
  Plays = {"projections", "terms", "follower"}
  Fall = 2
  Rise = 1
  MaxSeq = 6
  MaxEpoch = 2
  MaxChange = 3
  MaxFaults = 2
CHECK_DEADLOCK FALSE
INVARIANTS RoutingTypeOK VerdictsFollowResults 
 

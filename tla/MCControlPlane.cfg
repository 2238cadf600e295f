SPECIFICATION FairMCSpec
CONSTANTS
  Planes <- BothPlanes
  PlaneOrder <- HttpFirst
  Confs = {"a", "b"}
  n1 = n1
  n2 = n2
  c1 = c1
  c2 = c2
  Nodes = {n1, n2}
  Calls = {c1, c2}
  Plays = {"requests", "recovers", "rivals", "terms", "cluster"}
  None = None
  Keep = 1
  MaxPlan = 3
  MaxToken = 2
  MaxHealth = 1
  MaxDelta = 1
  MaxFaults = 2
CHECK_DEADLOCK FALSE
INVARIANTS TypeOK ActivatedRowsHappened WhatIsPublishedIsKept CancelledIsNotActivated
PROPERTIES FollowersConverge

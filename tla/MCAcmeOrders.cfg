SPECIFICATION MCFairSpec
CONSTANTS
  r1 = r1
  r2 = r2
  p1 = p1
  p2 = p2
  Runners = {r1, r2}
  Publishers = {p1, p2}
  i1 = i1
  i2 = i2
  Intents = {i1, i2}
  None = None
  MaxAttempts = 2
  MaxOrders = 4
  MaxFaults = 1
  MaxChanges = 2
INVARIANTS AcmeTypeOK RetriesResume
PROPERTIES  PlacedChallengesAreRemoved

SPECIFICATION MCProberSpec
CONSTANTS
  Nodes = {n1, n2}
  b1 = b1
  b2 = b2
  Backends = {b1, b2}
  BackendOrder <- InOrder
  None = None
  Fall = 2
  Rise = 1
  MaxSeq = 4
CHECK_DEADLOCK FALSE
PROPERTIES OnlyOvertakenResultsAreDropped

SPECIFICATION MCSpec
CONSTANTS
  Nodes = {n1, n2}
  Conns = {k1, k2, k3, k4}
  None = None
  MaxFaults = 1
  EndsFirst = FALSE
PROPERTIES SomebodyLeads

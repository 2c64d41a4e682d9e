CONSTANTS
  Tickets = {t1, t2}
  Events = {1}
  Replicas = {r1}
  Take = 1
  Attempts = 2
  MaxStalls = 1
  Outputs = {"on"}
  p1 = p1
  p2 = p2
  v1 = v1
  v2 = v2
  n1 = n1
  Requests <- TwoHosts
  Hosts <- OneAddress
  None = None
SPECIFICATION Spec
INVARIANTS RightInstance OneJobPerEvent
SYMMETRY Alike
CHECK_DEADLOCK FALSE

CONSTANTS
  Tickets = {t1}
  Events = {1}
  Replicas = {r1}
  Take = 1
  Attempts = 3
  MaxStalls = 0
  Outputs = {"on"}
  p1 = p1
  p2 = p2
  v1 = v1
  v2 = v2
  n1 = n1
  Requests <- OneHost
  Hosts <- OwnAddress
  None = None
SPECIFICATION Spec
INVARIANTS NoEventGivenUp
CHECK_DEADLOCK FALSE

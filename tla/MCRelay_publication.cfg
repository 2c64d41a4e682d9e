CONSTANTS
  Tickets = {t1}
  Events = {1}
  Replicas = {r1, r2}
  Take = 1
  Attempts = 2
  MaxStalls = 0
  Outputs = {"on", "off", "missing"}
  p1 = p1
  p2 = p2
  v1 = v1
  v2 = v2
  n1 = n1
  Requests <- OneHost
  Hosts <- OwnAddress
  None = None
SPECIFICATION LiveSpec
INVARIANTS TypeOK QueuedHasJob DeliveredIsReceived
PROPERTIES DeliveredForever PublicationRecovered EarlyEventSettled
CHECK_DEADLOCK FALSE

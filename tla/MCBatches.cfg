CONSTANTS
  Requests = {q1, q2}
  Executions = {x1, x2}
  Keys = {k1, k2}
  MaxConcurrent = 1
  RateLimit = 2
  Threshold = 1
  MaxRetries = 1
  Messages = {m1, m2}
  MediaMessages = {m1}
  Workloads <- Mixed
  None = None
  q1 = q1
  q2 = q2
  x1 = x1
  x2 = x2
  k1 = k1
  k2 = k2
  m1 = m1
  m2 = m2
SPECIFICATION Spec
INVARIANTS WorkHasSlot BatchAccounted
PROPERTIES MediaSentOnce StaleEnds ProxyConfirmedIsHeld
CHECK_DEADLOCK FALSE

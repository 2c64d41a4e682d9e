CONSTANTS
  Tickets = {t1, t2}
  Products = {p1, p2}
  Providers = {v1}
  Urls = {u1}
  Endpoint <- OwnEndpoint
  ClientToken = {}
  Foreign <- Intruders
  Workloads <- Mixed
  ProviderEdits <- LimitEdits
  ProductEdits <- RelayEdits
  AllocationEnabled = TRUE
  NotGiven = NotGiven
  None = None
  Collectors = {c1, c2}
  Checkers = {r1, r2}
  Threshold = 2
  p1 = p1
  p2 = p2
  v1 = v1
  t1 = t1
  t2 = t2
  n1 = n1
  n2 = n2
  u1 = u1
  f1 = f1
  c1 = c1
  c2 = c2
  r1 = r1
  r2 = r2
SPECIFICATION Spec
INVARIANTS TypeOK AbsentIsGone EligibleIsAdmitted OfferedIsFree
PROPERTIES LimitKept ReconciliationEnds HealthFollows
CHECK_DEADLOCK FALSE

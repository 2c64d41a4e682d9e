CONSTANTS
  Tickets = {t1}
  Products = {p1, p2}
  Providers = {v1, v2}
  Urls = {u1, u2}
  Endpoint <- Installations
  ClientToken = {}
  Foreign = {}
  Workloads <- Mixed
  ProviderEdits <- AnyEdit
  ProductEdits <- Settings
  AllocationEnabled = TRUE
  NotGiven = NotGiven
  None = None
  ChangeIds = {h1, h2}
  Replicas = {r1, r2}
  p1 = p1
  p2 = p2
  v1 = v1
  v2 = v2
  u1 = u1
  u2 = u2
  e1 = e1
  t1 = t1
  n1 = n1
  h1 = h1
  h2 = h2
  r1 = r1
  r2 = r2
SPECIFICATION Spec
INVARIANTS TypeOK NothingUnlinked LimitedIsAlone CallbackSettled
PROPERTIES AppliedAsPrepared AppliedIsUsable ChangeSettles
CHECK_DEADLOCK FALSE

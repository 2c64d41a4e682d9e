CONSTANTS
  Tickets = {t1, t2}
  Recoverers = {r1}
  Deleters = {}
  Importers = {}
  Foreign = {}
  p1 = p1
  p2 = p2
  v1 = v1
  v2 = v2
  n1 = n1
  Products = {p1}
  Providers = {v1}
  Names = {n1}
  Requests <- OneHost
  ExternalDeletes = FALSE
  None = None
SPECIFICATION Spec
INVARIANTS TypeOK Accounting CommittedConfigured
PROPERTIES LeaseExclusive KeepsPromise
SYMMETRY SameTickets
CHECK_DEADLOCK FALSE

CONSTANTS
  Tickets = {t1, t2}
  Recoverers = {r1}
  Deleters = {d1}
  Importers = {}
  Foreign = {}
  p1 = p1
  p2 = p2
  v1 = v1
  v2 = v2
  n1 = n1
  Products = {p1, p2}
  Providers = {v1, v2}
  Names = {n1}
  Requests <- TwoHosts
  ExternalDeletes = FALSE
  None = None
SPECIFICATION Spec
INVARIANTS OpenRowKept OneSessionPerName
SYMMETRY SameTickets
CHECK_DEADLOCK FALSE

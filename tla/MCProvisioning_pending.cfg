CONSTANTS
  Tickets = {t1}
  Recoverers = {r1}
  Deleters = {}
  Importers = {}
  Foreign = {}
  p1 = p1
  p2 = p2
  v1 = v1
  v2 = v2
  n1 = n1
  Products = {p1}
  Providers = {v1}
  Names = {n1}
  Requests <- OneHost
  ExternalDeletes = FALSE
  None = None
SPECIFICATION Spec
INVARIANT PendingIsUnfinished
CHECK_DEADLOCK FALSE

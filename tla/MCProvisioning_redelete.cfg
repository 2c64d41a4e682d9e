CONSTANTS
  Tickets = {t1, t2}
  Recoverers = {r1}
  Deleters = {d1, d2}
  Importers = {}
  Foreign = {}
  p1 = p1
  p2 = p2
  v1 = v1
  v2 = v2
  n1 = n1
  Products = {p1}
  Providers = {v1}
  Names = {n1}
  Requests <- Plain
  ExternalDeletes = FALSE
  None = None
SPECIFICATION Spec
INVARIANT DeletesOnlyItsOwn
CHECK_DEADLOCK FALSE

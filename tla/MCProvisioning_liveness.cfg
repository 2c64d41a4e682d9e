CONSTANTS
  Tickets = {t1}
  Recoverers = {r1, r2}
  Deleters = {}
  Importers = {}
  Foreign = {}
  p1 = p1
  p2 = p2
  v1 = v1
  v2 = v2
  n1 = n1
  Products = {p1}
  Providers = {v1}
  Names = {n1}
  Requests <- Hooked
  ExternalDeletes = FALSE
  None = None
SPECIFICATION LiveSpec
PROPERTIES ReservationReleased CreationResolved CleanupCompleted
CHECK_DEADLOCK FALSE

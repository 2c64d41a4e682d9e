CONSTANTS
  Tickets = {t1}
  Recoverers = {r1, r2}
  Deleters = {}
  Importers = {m1}
  Foreign = {f1}
  p1 = p1
  p2 = p2
  v1 = v1
  v2 = v2
  n1 = n1
  Products = {p1}
  Providers = {v1}
  Names = {n1}
  Requests <- SharedToken
  ExternalDeletes = TRUE
  None = None
SPECIFICATION Spec
INVARIANTS SessionAccounted OwnEvidence RecordNeverCollides
SYMMETRY SameRecoverers
CHECK_DEADLOCK FALSE

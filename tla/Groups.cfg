SPECIFICATION Spec
CONSTANTS
  Requests = {r1, r2}
  Users = {owner, u1}
  Owner = owner
  Tickets = {t1, t2}
  Docs = {d1, d2}
  NoTicket = NoTicket
SYMMETRY Symmetry
INVARIANTS PendingOverlapped DecisionsBounded OwnerStays
PROPERTY DissolveIsComplete
CHECK_DEADLOCK FALSE

SPECIFICATION Spec
CONSTANTS
  Requests = {r1, r2, r3}
  Models = {m1, m2, m3}
  Env = Env
SYMMETRY Symmetry
INVARIANTS SettingsInvariant AtMostOneActive
PROPERTY ConfigStays
CHECK_DEADLOCK FALSE

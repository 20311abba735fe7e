SPECIFICATION Spec
CONSTANTS
  MaxTime = 2
  MaxUid = 2
  MaxBehind = 1
  MaxFaults = 0
  Callers = {r1, r2}
  TTLs = {1}
  Retention = 1
  NumControls = 1
  MetricsEnabled = FALSE
  Bundles = {}
  BadBundles = {}
  Lagging = {"namespace"}
SYMMETRY Perms
PROPERTIES ExpiryMovesForward KeepsLease
CHECK_DEADLOCK FALSE

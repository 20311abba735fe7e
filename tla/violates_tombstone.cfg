SPECIFICATION Spec
CONSTANTS
  MaxTime = 2
  MaxUid = 1
  MaxBehind = 2
  MaxFaults = 0
  Callers = {r1}
  TTLs = {1}
  Retention = 1
  NumControls = 1
  MetricsEnabled = FALSE
  Bundles = {}
  BadBundles = {}
  Lagging = {}
INVARIANTS ForgottenMeansGone
CHECK_DEADLOCK FALSE

SPECIFICATION Spec
CONSTANTS
  MaxTime = 2
  MaxUid = 1
  MaxBehind = 1
  MaxFaults = 0
  Callers = {r1}
  TTLs = {1}
  Retention = 1
  NumControls = 2
  MetricsEnabled = TRUE
  Bundles = {"good", "bad"}
  BadBundles = {"bad"}
  Lagging = {"evidence"}
INVARIANTS TypeOK ReadyIsReal TombstoneIsTerminal ListedEvidenceKept
CHECK_DEADLOCK FALSE

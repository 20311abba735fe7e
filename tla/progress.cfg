SPECIFICATION FairSpec
CONSTANTS
  MaxTime = 2
  MaxUid = 1
  MaxBehind = 1
  MaxFaults = 1
  Callers = {r1}
  TTLs = {1}
  Retention = 1
  NumControls = 0
  MetricsEnabled = FALSE
  Bundles = {}
  BadBundles = {}
  Lagging = {}
INVARIANTS ReadyIsReal NothingOrphaned
PROPERTIES DeletionCompletes ExpiryCompletes TombstonesReaped
CHECK_DEADLOCK FALSE

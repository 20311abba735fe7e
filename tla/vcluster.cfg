SPECIFICATION FairSpec
CONSTANTS
  Options <- MCOptions
  MaxFaults = 3
INVARIANTS TypeOK ReadyIsExact ReadyAppliesOptions
PROPERTIES KeepsContract HandoffRestored ReleaseRemoved

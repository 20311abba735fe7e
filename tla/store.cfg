SPECIFICATION FairSpec
CONSTANTS
  Writers = {"controller", "command", "rerun"}
  Retrying = {"controller"}
  Digests <- MCDigests
  RunIDs = {"r1", "r2"}
  RunID <- ReusedRunID
  Sources <- Conflicting
  Files = {"f1", "f2"}
  MaxFaults = 2
INVARIANTS TypeOK OneBundlePerRun AcknowledgedIsWhole
PROPERTIES StoreIsAtomic StoredUnlessBlocked

SPECIFICATION FairSpec
CONSTANTS
  Writers = {"controller", "command"}
  Retrying = {"controller"}
  Digests <- MCDigests
  RunIDs = {"r1", "r2", "r3"}
  RunID <- UniqueRunID
  Sources <- Overlapping
  Files = {"f1"}
  MaxFaults = 1
PROPERTY EveryBundleStored

SPECIFICATION BundleSpec
CONSTANTS
  Runs <- MCRuns
  Rank <- MCRank
  Nodes <- MCNodes
  SecretObjectHasValues <- secretObjectHasValues
  Reach <- ReachOf
  InputLists <- MCInputLists
INVARIANT SecretsExcluded
CHECK_DEADLOCK FALSE

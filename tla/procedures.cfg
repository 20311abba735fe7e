SPECIFICATION Spec
CONSTANTS
    Now = 10
    Minute = 1
    MaxDuration = 8
    Requests <- MCRequests
    Bodies <- MCBodies
    Series <- MCSeries
    FilterValue <- Filtered
    Values <- MCValues
    SampleCount <- Samples
    Places <- MCPlaces
    Runs <- MCRuns
    Rank <- MCRank
    Nodes <- MCNodes
    SecretObjectHasValues <- secretObjectHasValues
    Reach <- ReachOf
    InputLists <- MCInputLists
    TargetSets <- MCTargetSets
    Answers <- MCAnswers
    Callers = {"c1", "c2"}
    Owner <- MCOwner
    Seconds = {1, 3, 9}
    HalfRange = 8
    Second = 2
    MinTTL = 2
    MaxTTL = 6
    MaxNow = 2
    MaxUid = 3
    MaxFaults = 1
    Subjects = {"s1"}
    Handlers = {q1, q2, q3}
    MaxTime = 5
    ExpiresAt = 4
    Window = 2
    MaxRequestsPerMinute = 2
    MaxConcurrency = 2
    TTLs = {0, 4}
    DefaultTTL = 3
    LongestTTL = 3
SYMMETRY Perms
INVARIANTS  SlotsBalanced LongRunRate ForwardedReadsOwn ForwardedWithinBudget ReplyIsFiltered BundleIsComplete RetryBuildsTheSame CoverageIsExact AnswersAreOwn LeaseWithinLimits
PROPERTIES OthersUntouched
CHECK_DEADLOCK FALSE

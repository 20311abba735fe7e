SPECIFICATION Spec
CONSTANTS
  MaxTime = 14
  MaxUid = 2
  Leases = {3, 14}
  PollInterval = 1
  CallTimeout = 1
  LocalTime = 0
  Lifetimes = {1, 12, 20}
  MinRemaining = 2
  MaxRemaining = 12
INVARIANTS TypeOK OwnIncarnation EndsWithLease PromptRevocation EndsWithTunnel FreshCredential

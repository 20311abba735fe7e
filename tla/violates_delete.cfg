SPECIFICATION ServiceSpec
CONSTANTS
  Callers = {"c1", "c2"}
  Owner <- MCOwner
  Seconds = {1}
  HalfRange = 8
  Second = 2
  MinTTL = 2
  MaxTTL = 6
  MaxNow = 2
  MaxUid = 2
  MaxFaults = 0
PROPERTY DeletesOwn
CHECK_DEADLOCK FALSE

------------------------ MODULE MCLifecycleService ------------------------
\* Two callers of different owners for TLC.
EXTENDS LifecycleService

MCOwner == [c1 |-> "A", c2 |-> "B"]

===========================================================================

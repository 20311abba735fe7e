-------------------------- MODULE MCEvidenceStore -------------------------
(* Instances of EvidenceStore for TLC: the controller with two pending     *)
(* bundles beside a run of evidence-export.                                *)
EXTENDS EvidenceStore

MCDigests == {"d1", "d2", "d3"}

\* d1 and d3 claim the same run.
ReusedRunID == [d \in MCDigests |-> IF d = "d2" THEN "r2" ELSE "r1"]

\* Every run ID is used once.
UniqueRunID == [d \in MCDigests |-> IF d = "d1" THEN "r1" ELSE
                                     IF d = "d2" THEN "r2" ELSE "r3"]

\* One command exports a rerun under an ID the controller's bundle has, the
\* other one of the bundles the controller exports, too ...
Conflicting == [w \in {"controller", "command", "rerun"} |->
                  CASE w = "controller" -> {"d1", "d2"}
                    [] w = "command" -> {"d1"}
                    [] w = "rerun" -> {"d3"}]

\* ... or there is only the latter.
Overlapping == [w \in {"controller", "command"} |->
                  IF w = "controller" THEN {"d1", "d2"} ELSE {"d1"}]

===========================================================================

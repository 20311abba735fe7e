---------------------------- MODULE BundleStore ----------------------------
(***************************************************************************)
(* What the evidence store promises those who write to it: a run ID goes   *)
(* to the first bundle that claims it and stays with it, and a bundle is   *)
(* stored in one step, with all its files, under its own run ID only.      *)
(* There are no writers here, no indexes and no half-written files.        *)
(***************************************************************************)

CONSTANTS
    Digests,  \* bundles
    RunIDs,   \* identities of measured runs
    RunID,    \* [Digests -> RunIDs]: the run a bundle's manifest names
    Whole     \* the files of a bundle

VARIABLES
    claim,       \* the bundle that each run ID belongs to, or "none"
    content,     \* the files that are stored of each bundle
    acknowledged \* bundles that somebody was told are stored

vars == <<claim, content, acknowledged>>

Init ==
    /\ claim = [r \in RunIDs |-> "none"]
    /\ content = [d \in Digests |-> {}]
    /\ acknowledged = {}

Claim(d) ==
    /\ claim[RunID[d]] = "none"
    /\ claim' = [claim EXCEPT ![RunID[d]] = d]
    /\ UNCHANGED <<content, acknowledged>>

\* Putting again what is there changes nothing.
Put(d) ==
    /\ claim[RunID[d]] = d
    /\ content' = [content EXCEPT ![d] = Whole]
    /\ acknowledged' = acknowledged \cup {d}
    /\ UNCHANGED claim

Next == \E d \in Digests : Claim(d) \/ Put(d)

Spec == Init /\ [][Next]_vars

===========================================================================

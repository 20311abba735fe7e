--------------------------- MODULE EvidenceStore ---------------------------
(***************************************************************************)
(* The directory store that keeps evidence bundles (internal/evidence):    *)
(* the controller's exporter and runs of the evidence-export command write *)
(* to one directory with no lock between them.  Put is split at every file *)
(* system call another process could notice; each of them can fail, and a  *)
(* process can die between any two.                                        *)
(*                                                                         *)
(* A bundle is known by its digest.  Manifest and files are a function of  *)
(* it, since Build hashes the manifest, which lists every file's hash.     *)
(***************************************************************************)
EXTENDS Naturals, FiniteSets

CONSTANTS
    Writers,     \* processes that export: the controller, evidence-export runs
    Retrying,    \* those that export again until all is stored: the controller
    Digests,     \* bundles
    RunIDs,      \* identities of measured runs
    RunID,       \* [Digests -> RunIDs]: the run a bundle's manifest names
    Sources,     \* [Writers -> SUBSET Digests]: what each of them exports
    Files,       \* artifacts of a bundle
    MaxFaults    \* bound on failing calls and dying processes

ASSUME StoreAssumption ==
    /\ RunID \in [Digests -> RunIDs]
    /\ Sources \in [Writers -> SUBSET Digests]
    /\ Retrying \subseteq Writers
    /\ "manifest" \notin Files
    /\ "absent" \notin Digests /\ "empty" \notin Digests /\ "none" \notin Digests
    /\ MaxFaults \in Nat

VARIABLES
    index,        \* .run-ids/<run ID>: "absent", "empty" or the digest in it
    target,       \* the files in <root>/<digest>; {} when it does not exist
    pc,           \* where each writer stands
    todo,         \* bundles its export loop has still to put
    digest,       \* the bundle it is putting, or "none"
    temp,         \* the files in its temporary directory
    abandoned,    \* temporary directories that nobody will remove
    acknowledged, \* history: bundles a Put said were stored
    faults

vars == <<index, target, pc, todo, digest, temp, acknowledged, abandoned, faults>>

Whole == Files \cup {"manifest"}

Labels == {"idle", "next", "reserve", "writeIndex", "readIndex", "lookup",
           "manifest", "stage", "publish"}

run(w) == RunID[digest[w]]

Goto(w, label) == pc' = [pc EXCEPT ![w] = label]

Init ==
    /\ index = [r \in RunIDs |-> "absent"]
    /\ target = [d \in Digests |-> {}]
    /\ pc = [w \in Writers |-> "idle"]
    /\ todo = [w \in Writers |-> {}]
    /\ digest = [w \in Writers |-> "none"]
    /\ temp = [w \in Writers |-> {}]
    /\ acknowledged = {}
    /\ abandoned = 0 /\ faults = 0

---------------------------------------------------------------------------
(* The export loop around Put: one bundle after the other, in the order    *)
(* the list came in, stopping at the first that is refused.                *)

Begin(w) ==
    /\ pc[w] = "idle"
    /\ Goto(w, "next")
    /\ todo' = [todo EXCEPT ![w] = Sources[w]]
    /\ UNCHANGED <<index, target, digest, temp, acknowledged, abandoned, faults>>

PutNext(w) ==
    /\ pc[w] = "next"
    /\ \E d \in todo[w] : digest' = [digest EXCEPT ![w] = d]
    /\ Goto(w, "reserve")
    /\ UNCHANGED <<index, target, todo, temp, acknowledged, abandoned, faults>>

ExportDone(w) ==
    /\ pc[w] = "next"
    /\ todo[w] = {}
    /\ Goto(w, "idle")
    /\ UNCHANGED <<index, target, todo, digest, temp, acknowledged, abandoned, faults>>

\* Put returns without an error; its deferred RemoveAll clears what is left.
Stored(w) ==
    /\ acknowledged' = acknowledged \cup {digest[w]}
    /\ todo' = [todo EXCEPT ![w] = @ \ {digest[w]}]
    /\ digest' = [digest EXCEPT ![w] = "none"]
    /\ temp' = [temp EXCEPT ![w] = {}]
    /\ Goto(w, "next")

\* Mutation of Refused: an error path that leaves the temporary directory behind.
Refused_KeepsTemp(w) ==
    /\ todo' = [todo EXCEPT ![w] = {}]
    /\ digest' = [digest EXCEPT ![w] = "none"]
    /\ Goto(w, "idle")
    /\ UNCHANGED <<temp, acknowledged>>

\* Put returns an error, and the loop with it.
Refused(w) ==
    /\ todo' = [todo EXCEPT ![w] = {}]
    /\ digest' = [digest EXCEPT ![w] = "none"]
    /\ temp' = [temp EXCEPT ![w] = {}]
    /\ Goto(w, "idle")
    /\ UNCHANGED acknowledged

---------------------------------------------------------------------------
(* reserveRunID: create the index exclusively, then write the digest in;   *)
(* whoever finds it there compares.                                        *)

\* Mutation of Reserve: opening the index without O_EXCL.
Reserve_Truncates(w) ==
    /\ pc[w] = "reserve"
    /\ index' = [index EXCEPT ![run(w)] = "empty"]
    /\ Goto(w, "writeIndex")
    /\ UNCHANGED <<target, todo, digest, temp, acknowledged, abandoned, faults>>

Reserve(w) ==
    /\ pc[w] = "reserve"
    /\ IF index[run(w)] = "absent"
         THEN /\ index' = [index EXCEPT ![run(w)] = "empty"]
              /\ Goto(w, "writeIndex")
         ELSE /\ Goto(w, "readIndex")
              /\ UNCHANGED index
    /\ UNCHANGED <<target, todo, digest, temp, acknowledged, abandoned, faults>>

WriteIndex(w) ==
    /\ pc[w] = "writeIndex"
    /\ index' = [index EXCEPT ![run(w)] = digest[w]]
    /\ Goto(w, "lookup")
    /\ UNCHANGED <<target, todo, digest, temp, acknowledged, abandoned, faults>>

\* Mutation of ReadIndex: an empty index is taken over, not refused.
ReadIndex_AdoptsEmpty(w) ==
    /\ pc[w] = "readIndex"
    /\ IF index[run(w)] \in {"empty", digest[w]}
         THEN Goto(w, "lookup") /\ UNCHANGED <<todo, digest, temp, acknowledged>>
         ELSE Refused(w)
    /\ UNCHANGED <<index, target, abandoned, faults>>

\* Mutation of ReadIndex: any index that is there counts as somebody else's.
ReadIndex_RefusesOwn(w) ==
    /\ pc[w] = "readIndex"
    /\ Refused(w)
    /\ UNCHANGED <<index, target, abandoned, faults>>

ReadIndex(w) ==
    /\ pc[w] = "readIndex"
    /\ IF index[run(w)] = digest[w]
         THEN Goto(w, "lookup") /\ UNCHANGED <<todo, digest, temp, acknowledged>>
         ELSE Refused(w)
    /\ UNCHANGED <<index, target, abandoned, faults>>

---------------------------------------------------------------------------
(* The rest of Put: a manifest in place means the bundle is stored; if     *)
(* there is none, stage everything aside and rename.                       *)

\* The loop compares the manifest found with its own; equal digests have
\* equal manifests.
Lookup(w) ==
    /\ pc[w] = "lookup"
    /\ IF "manifest" \in target[digest[w]]
         THEN Stored(w)
         ELSE Goto(w, "manifest") /\ UNCHANGED <<todo, digest, temp, acknowledged>>
    /\ UNCHANGED <<index, target, abandoned, faults>>

\* Mutation of Stage: writing into the bundle's directory, not aside.
Stage_InPlace(w) ==
    /\ pc[w] \in {"manifest", "stage"}
    /\ \E f \in IF pc[w] = "manifest" THEN {"manifest"} ELSE Files \ temp[w] :
          /\ temp' = [temp EXCEPT ![w] = @ \cup {f}]
          /\ target' = [target EXCEPT ![digest[w]] = @ \cup {f}]
    /\ Goto(w, IF temp'[w] = Whole THEN "publish" ELSE "stage")
    /\ UNCHANGED <<index, todo, digest, acknowledged, abandoned, faults>>

\* MkdirTemp and the manifest first, then the files in the map's order.
Stage(w) ==
    /\ pc[w] \in {"manifest", "stage"}
    /\ \E f \in IF pc[w] = "manifest" THEN {"manifest"} ELSE Files \ temp[w] :
          temp' = [temp EXCEPT ![w] = @ \cup {f}]
    /\ Goto(w, IF temp'[w] = Whole THEN "publish" ELSE "stage")
    /\ UNCHANGED <<index, target, todo, digest, acknowledged, abandoned, faults>>

\* Rename does not replace a directory.  Who loses that race finds the
\* winner's manifest, which is the same.
Publish(w) ==
    /\ pc[w] = "publish"
    /\ IF target[digest[w]] = {}
         THEN target' = [target EXCEPT ![digest[w]] = temp[w]]
         ELSE UNCHANGED target
    /\ Stored(w)
    /\ UNCHANGED <<index, abandoned, faults>>

---------------------------------------------------------------------------
(* Faults.                                                                 *)

InPut(w) == pc[w] \notin {"idle", "next"}

\* MkdirTemp has made its directory, or may have, before the manifest is in it.
MayHaveTemp(w) == temp[w] # {} \/ pc[w] = "manifest"

\* A call fails, or the context was cancelled: Put returns the error.  The
\* write of the index may have taken effect all the same (Close failed), and the
\* deferred RemoveAll may fail like the call before it, which nobody is told.
CallFails(w) ==
    /\ faults < MaxFaults
    /\ InPut(w)
    /\ faults' = faults + 1
    /\ Refused(w)
    /\ \/ UNCHANGED index
       \/ pc[w] = "writeIndex" /\ index' = [index EXCEPT ![run(w)] = digest[w]]
    /\ \/ UNCHANGED abandoned
       \/ MayHaveTemp(w) /\ abandoned' = abandoned + 1
    /\ UNCHANGED target

\* The process dies, and its deferred RemoveAll with it: the temporary directory
\* stays.
Crash(w) ==
    /\ faults < MaxFaults
    /\ pc[w] # "idle"
    /\ faults' = faults + 1
    /\ Refused(w)
    /\ \/ temp[w] = {} /\ UNCHANGED abandoned
       \/ MayHaveTemp(w) /\ abandoned' = abandoned + 1
    /\ UNCHANGED <<index, target>>

---------------------------------------------------------------------------

Step(w) ==
    \/ PutNext(w) \/ ExportDone(w)
    \/ Reserve(w) \/ WriteIndex(w) \/ ReadIndex(w)
    \/ Lookup(w) \/ Stage(w) \/ Publish(w)

Next == \E w \in Writers : Begin(w) \/ Step(w) \/ CallFails(w) \/ Crash(w)

Spec == Init /\ [][Next]_vars

\* A running process goes on; the controller comes back to the bundles still
\* pending (its work queue retries an error); nobody reruns the command.
Fairness ==
    /\ \A w \in Writers : WF_vars(Step(w))
    /\ \A w \in Retrying : WF_vars(Begin(w))

FairSpec == Spec /\ Fairness

---------------------------------------------------------------------------
(* Properties.                                                             *)

\* Types, and that a temporary directory outlives its Put only where the process
\* died or a call of it failed: there is at most one such directory for each.
TypeOK ==
    /\ index \in [RunIDs -> Digests \cup {"absent", "empty"}]
    /\ target \in [Digests -> SUBSET Whole]
    /\ pc \in [Writers -> Labels]
    /\ todo \in [Writers -> SUBSET Digests]
    /\ digest \in [Writers -> Digests \cup {"none"}]
    /\ temp \in [Writers -> SUBSET Whole]
    /\ acknowledged \subseteq Digests
    /\ faults \in 0..MaxFaults /\ abandoned \in 0..faults
    /\ \A w \in Writers :
          /\ InPut(w) => digest[w] # "none"
          /\ pc[w] \notin {"stage", "publish"} => temp[w] = {}

\* A run ID identifies one bundle: whatever two writers do at once, and
\* wherever one of them is interrupted, reserveRunID lets the store publish at
\* most one bundle for it.
OneBundlePerRun ==
    \A d, e \in Digests : target[d] # {} /\ target[e] # {} /\ RunID[d] = RunID[e] => d = e

\* When Put says a bundle is stored, every file of it is, also when it was
\* another writer's bundle that Put found or lost the rename to.
AcknowledgedIsWhole == \A d \in acknowledged : target[d] = Whole

\* An index that is still empty claims nothing.
Promise == INSTANCE BundleStore WITH
    claim <- [r \in RunIDs |-> IF index[r] \in Digests THEN index[r] ELSE "none"],
    content <- target

\* Writers that share no lock, and of which any may fail or die at any call,
\* behave as if each bundle were put in one step into a store that gives a run
\* ID away once: the order of index, staging and rename in Put makes it so.
StoreIsAtomic == Promise!Spec

\* A published bundle keeps its files and a run ID its bundle: no Put, rerun
\* or retry overwrites what the store holds.
NothingOverwritten ==
    [][/\ \A d \in Digests : target[d] \subseteq target'[d]
       /\ \A r \in RunIDs : index[r] \in Digests => index'[r] = index[r]]_vars

\* The index of a run exists, empty, and nobody is about to write it.
Torn(r) ==
    /\ index[r] = "empty"
    /\ \A w \in Writers : ~(pc[w] = "writeIndex" /\ run(w) = r)

\* The run ID of a bundle is another bundle's.
Taken(d) == index[RunID[d]] \in Digests \ {d}

\* The controller exports every pending bundle in the end, whatever calls fail
\* and whenever it dies, with two exceptions: another bundle has the run ID of
\* one of them, or a Put was cut short after creating the index of a run and
\* before writing it.  Either blocks reserveRunID, and the loop with it.
StoredUnlessBlocked ==
    \/ \A w \in Retrying : \A d \in Sources[w] : <>(d \in acknowledged)
    \/ \E w \in Retrying : \E d \in Sources[w] : <>[]Taken(d)
    \/ \E r \in RunIDs : <>[]Torn(r)

\* "The lifecycle controller exports every pending bundle" (README.md:108):
\* with unique run IDs, whatever is pending is stored in the end.
EveryBundleStored ==
    \A w \in Retrying : \A d \in Sources[w] : <>(d \in acknowledged)

===========================================================================

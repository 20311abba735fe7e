------------------------ MODULE EvidenceStoreProofs ------------------------
(* The store's safety properties, for any number of writers, bundles, runs *)
(* and faults.                                                             *)
EXTENDS EvidenceStore, TLAPS

Reserved == {"lookup", "manifest", "stage", "publish"}

\* Only the writer that created an index writes it.
IndexInv ==
    /\ \A w \in Writers : pc[w] = "writeIndex" => index[run(w)] = "empty"
    /\ \A v, w \in Writers :
          pc[v] = "writeIndex" /\ pc[w] = "writeIndex" /\ v # w => run(v) # run(w)

\* Past reserveRunID the index names the writer's bundle, and what is renamed
\* into place is whole.
ReservedInv ==
    \A w \in Writers :
        /\ pc[w] \in Reserved => index[run(w)] = digest[w]
        /\ pc[w] = "publish" => temp[w] = Whole

\* Every published bundle is whole, and the index of its run names it.
PublishedInv ==
    /\ \A d \in Digests : target[d] # {} => target[d] = Whole /\ index[RunID[d]] = d
    /\ \A d \in acknowledged : target[d] = Whole

StoreInv == TypeOK /\ IndexInv /\ ReservedInv /\ PublishedInv

\* The initial store satisfies the invariant.
LEMMA StoreInit == Init => StoreInv
BY StoreAssumption DEF Init, StoreInv, TypeOK, IndexInv, ReservedInv, PublishedInv, Labels,
   InPut, Reserved

\* Each step, of any writer, keeps the types.
LEMMA StoreTypes == ASSUME TypeOK, NEW w \in Writers,
                           Begin(w) \/ Step(w) \/ CallFails(w) \/ Crash(w)
                    PROVE  TypeOK'
<1> USE StoreAssumption DEF TypeOK, Labels, InPut, Whole
<1>1. CASE Begin(w)
  BY <1>1 DEF Begin, Goto
<1>2. CASE PutNext(w)
  BY <1>2 DEF PutNext, Goto
<1>3. CASE ExportDone(w)
  BY <1>3 DEF ExportDone, Goto
<1>4. CASE Reserve(w)
  BY <1>4 DEF Reserve, Goto, run
<1>5. CASE WriteIndex(w)
  BY <1>5 DEF WriteIndex, Goto, run
<1>6. CASE ReadIndex(w)
  BY <1>6 DEF ReadIndex, Refused, Goto
<1>7. CASE Lookup(w)
  BY <1>7 DEF Lookup, Stored, Goto
<1>8. CASE Stage(w)
  BY <1>8 DEF Stage, Goto
<1>9. CASE Publish(w)
  BY <1>9 DEF Publish, Stored, Goto
<1>10. CASE CallFails(w)
  BY <1>10 DEF CallFails, Refused, Goto, run
<1>11. CASE Crash(w)
  BY <1>11, SMTT(30) DEF Crash, Refused, Goto
<1> QED
  BY <1>1, <1>2, <1>3, <1>4, <1>5, <1>6, <1>7, <1>8, <1>9, <1>10, <1>11 DEF Step

\* Each step, of any writer, keeps the invariant.
LEMMA StoreStep == ASSUME StoreInv, NEW w \in Writers,
                          Begin(w) \/ Step(w) \/ CallFails(w) \/ Crash(w)
                   PROVE  StoreInv'
<1>0. TypeOK /\ TypeOK'
  BY StoreTypes DEF StoreInv
<1> USE <1>0, StoreAssumption
    DEF StoreInv, IndexInv, ReservedInv, PublishedInv, TypeOK, Reserved, run, InPut
<1>1. CASE Begin(w)
  BY <1>1 DEF Begin, Goto
<1>2. CASE PutNext(w)
  BY <1>2 DEF PutNext, Goto
<1>3. CASE ExportDone(w)
  BY <1>3 DEF ExportDone, Goto
<1>4. CASE Reserve(w)
  BY <1>4 DEF Reserve, Goto
<1>5. CASE WriteIndex(w)
  BY <1>5 DEF WriteIndex, Goto
<1>6. CASE ReadIndex(w)
  BY <1>6 DEF ReadIndex, Refused, Goto
<1>7. CASE Lookup(w)
  BY <1>7 DEF Lookup, Stored, Goto
<1>8. CASE Stage(w)
  BY <1>8 DEF Stage, Goto
<1>9. CASE Publish(w)
  BY <1>9 DEF Publish, Stored, Goto
<1>10. CASE CallFails(w)
  BY <1>10 DEF CallFails, Refused, Goto
<1>11. CASE Crash(w)
  BY <1>11 DEF Crash, Refused, Goto
<1> QED
  BY <1>1, <1>2, <1>3, <1>4, <1>5, <1>6, <1>7, <1>8, <1>9, <1>10, <1>11, Zenon DEF Step

\* The invariant holds in every reachable state of the store.
THEOREM StoreInductive == Spec => []StoreInv
<1>1. StoreInv /\ [Next]_vars => StoreInv'
  <2> SUFFICES ASSUME StoreInv, [Next]_vars PROVE StoreInv'
    OBVIOUS
  <2>1. CASE Next
    BY <2>1, StoreStep DEF Next
  <2>2. CASE UNCHANGED vars
    BY <2>2 DEF vars, StoreInv, TypeOK, IndexInv, ReservedInv, PublishedInv, InPut, run,
       Reserved
  <2> QED
    BY <2>1, <2>2
<1> QED
  BY <1>1, StoreInit, PTL DEF Spec

\* A run ID never has two published bundles (reserveRunID).
THEOREM RunIDsUnique == Spec => []OneBundlePerRun
<1>1. StoreInv => OneBundlePerRun
  BY DEF StoreInv, PublishedInv, OneBundlePerRun
<1> QED
  BY <1>1, StoreInductive, PTL

\* What Put acknowledges is in the store, whole.
THEOREM StoredIsWhole == Spec => []AcknowledgedIsWhole
<1>1. StoreInv => AcknowledgedIsWhole
  BY DEF StoreInv, PublishedInv, AcknowledgedIsWhole
<1> QED
  BY <1>1, StoreInductive, PTL

\* No step takes a published file away or gives a run ID another bundle.
THEOREM StoreKeeps == Spec => NothingOverwritten
<1> DEFINE Keeps == /\ \A d \in Digests : target[d] \subseteq target'[d]
                   /\ \A r \in RunIDs : index[r] \in Digests => index'[r] = index[r]
<1>1. StoreInv /\ [Next]_vars => [Keeps]_vars
  <2> SUFFICES ASSUME StoreInv, NEW w \in Writers,
                      Begin(w) \/ Step(w) \/ CallFails(w) \/ Crash(w)
               PROVE  Keeps
    BY DEF Next
  <2> USE StoreAssumption DEF StoreInv, TypeOK, IndexInv, InPut
  <2>1. CASE Reserve(w) \/ WriteIndex(w) \/ CallFails(w)
    BY <2>1 DEF Reserve, WriteIndex, CallFails, Refused, Goto, run
  <2>2. CASE Publish(w)
    BY <2>2 DEF Publish, Stored, Goto
  <2>3. CASE Begin(w) \/ PutNext(w) \/ ExportDone(w) \/ ReadIndex(w) \/ Lookup(w)
             \/ Stage(w) \/ Crash(w)
    BY <2>3 DEF Begin, PutNext, ExportDone, ReadIndex, Lookup, Stage, Crash
  <2> QED
    BY <2>1, <2>2, <2>3 DEF Step
<1> QED
  BY <1>1, StoreInductive, PTL DEF Spec, NothingOverwritten

\* The types are right throughout, and a temporary directory outlives its Put only
\* where the process died or a call of it failed.
THEOREM StoreTyped == Spec => []TypeOK
<1>1. StoreInv => TypeOK
  BY DEF StoreInv
<1> QED
  BY <1>1, StoreInductive, PTL

\* A step of a writer is a claim, a put, or nothing to those who see the promise.
LEMMA StepKeepsPromise ==
    ASSUME StoreInv, NEW w \in Writers, Begin(w) \/ Step(w) \/ CallFails(w) \/ Crash(w)
    PROVE  Promise!Next \/ UNCHANGED Promise!vars
<1> DEFINE claim == [r \in RunIDs |-> IF index[r] \in Digests THEN index[r] ELSE "none"]
<1> USE StoreAssumption DEF StoreInv, TypeOK, InPut, run, Promise!vars
<1>1. CASE Begin(w) \/ PutNext(w) \/ ExportDone(w) \/ ReadIndex(w) \/ Stage(w) \/ Crash(w)
  BY <1>1 DEF Begin, PutNext, ExportDone, ReadIndex, Stage, Crash, Refused
<1>2. CASE Reserve(w)
  <2>1. claim' = claim
    BY <1>2 DEF Reserve
  <2> QED
    BY <1>2, <2>1 DEF Reserve
<1>3. CASE pc[w] = "writeIndex" /\ index' = [index EXCEPT ![run(w)] = digest[w]]
           /\ UNCHANGED <<target, acknowledged>>
  <2>1. PICK d \in Digests : d = digest[w]
    BY <1>3
  <2>2. index[RunID[d]] = "empty" /\ RunID[d] \in RunIDs
    BY <1>3, <2>1 DEF IndexInv
  <2>3. claim[RunID[d]] = "none"
    BY <2>2
  <2>4. claim' = [claim EXCEPT ![RunID[d]] = d]
    <3>1. ASSUME NEW r \in RunIDs
          PROVE  claim'[r] = [claim EXCEPT ![RunID[d]] = d][r]
      BY <1>3, <2>1, <2>2
    <3> QED
      BY <3>1, Zenon
  <2>5. Promise!Claim(d)
    BY <1>3, <2>3, <2>4, Zenon DEF Promise!Claim
  <2> QED
    BY <2>5, Zenon DEF Promise!Next
<1>4. CASE Lookup(w) \/ Publish(w)
  <2>1. CASE acknowledged' = acknowledged /\ UNCHANGED <<index, target>>
    BY <2>1
  <2>2. CASE ~(acknowledged' = acknowledged /\ UNCHANGED <<index, target>>)
    <3>1. PICK d \in Digests : d = digest[w]
      BY <1>4 DEF Lookup, Publish
    <3>2. /\ index[RunID[d]] = d /\ RunID[d] \in RunIDs
          /\ acknowledged' = acknowledged \cup {d} /\ index' = index
      BY <1>4, <2>2, <3>1 DEF Lookup, Publish, Stored, ReservedInv, Reserved
    <3>3. target' = [target EXCEPT ![d] = Whole]
      <4>1. target[d] # {} => target[d] = Whole
        BY DEF PublishedInv
      <4>2. CASE Lookup(w)
        BY <2>2, <3>1, <4>1, <4>2 DEF Lookup
      <4>3. CASE Publish(w)
        BY <3>1, <4>1, <4>3 DEF Publish, ReservedInv
      <4> QED
        BY <1>4, <4>2, <4>3
    <3>4. claim[RunID[d]] = d /\ claim' = claim
      BY <3>2
    <3>5. Promise!Put(d)
      BY <3>2, <3>3, <3>4, Zenon DEF Promise!Put
    <3> QED
      BY <3>5, Zenon DEF Promise!Next
  <2> QED
    BY <2>1, <2>2
<1>5. CASE WriteIndex(w)
  BY <1>3, <1>5 DEF WriteIndex
<1>6. CASE CallFails(w)
  <2>1. CASE UNCHANGED index
    BY <1>6, <2>1 DEF CallFails, Refused
  <2>2. CASE ~UNCHANGED index
    BY <1>3, <1>6, <2>2 DEF CallFails, Refused
  <2> QED
    BY <2>1, <2>2
<1> QED
  BY <1>1, <1>2, <1>4, <1>5, <1>6 DEF Step

\* Unsynchronised writers, failing calls and dying processes included, implement
\* the store that takes each bundle in one step.
THEOREM StoreRefines == Spec => StoreIsAtomic
<1>1. Init => Promise!Init
  BY StoreAssumption DEF Init, Promise!Init
<1>2. StoreInv /\ [Next]_vars => [Promise!Next]_Promise!vars
  <2> SUFFICES ASSUME StoreInv, [Next]_vars PROVE Promise!Next \/ UNCHANGED Promise!vars
    OBVIOUS
  <2>1. CASE Next
    BY <2>1, StepKeepsPromise DEF Next
  <2>2. CASE UNCHANGED vars
    BY <2>2 DEF vars, Promise!vars
  <2> QED
    BY <2>1, <2>2
<1> QED
  BY <1>1, <1>2, StoreInductive, PTL DEF Spec, StoreIsAtomic, Promise!Spec

===========================================================================

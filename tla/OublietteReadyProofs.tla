------------------------ MODULE OublietteReadyProofs ------------------------
(* The inductive invariant of the lifecycle and what follows from it: Ready *)
(* means usable, expiries move forward, nothing is orphaned, and evidence  *)
(* once listed is not lost.                                                *)
EXTENDS OublietteProofs

\* Most steps are first-order reasoning; a step that needs arithmetic cites SMT.
USE Zenon

---------------------------------------------------------------------------
(* The Ready marks.                                                        *)

\* A Ready mark taken from the reconcile's copy fits the object it lands on.
LEMMA MarkFits ==
    ASSUME TypeOK, FinalizerInv, WorkInv, pc \in AsRead, work.finalizer, ~work.deleting
    PROVE  /\ obj.uid = work.uid /\ obj.finalizer /\ Exists(obj)
           /\ cache.uid = obj.uid
           /\ work.generation <= obj.generation /\ work.generation <= cache.generation
           /\ work.generation = obj.generation => work.expiresAt = obj.expiresAt
  <1>1. pc # "idle"
    BY DEF AsRead, Provisioning
  <1>2. obj.uid = work.uid /\ obj.finalizer /\ Exists(obj)
    BY <1>1 DEF FinalizerInv, WorkInv, Held, Exists
  <1> QED
    BY <1>2 DEF WorkInv, Precedes

\* A write of an object whose mark is right keeps the marks right.
LEMMA MarkWrite ==
    ASSUME TypeOK, ChainInv, MarkInv, NEW new \in Object, NEW holders, Write(new, holders),
           cache' = cache, Marked(new),
           conditionTrue(new, "Ready") =>
              cache.uid = new.uid /\ new.conditions["Ready"].generation <= cache.generation,
           pc' \in AsRead => pc \in AsRead /\ work' = work
    PROVE  MarkInv'
  <1>1. /\ obj' = new
        /\ Version(Len(feed))' = new
        /\ \A i \in Indices' : \/ i \in Indices /\ Version(i)' = Version(i)
                               \/ i \notin Indices /\ i = Len(feed)' /\ Version(i)' = new
    BY WriteVersions
  <1>2. \A i \in Indices' : Marked(Version(i)')
    BY <1>1 DEF MarkInv
  <1> QED
    BY <1>1, <1>2 DEF MarkInv, Marked, conditionTrue

\* A step that leaves the versions alone keeps the marks.
LEMMA MarkStill ==
    ASSUME MarkInv, Still, pc' \in AsRead => Marked(work')
    PROVE  MarkInv'
  BY DEF MarkInv, Still, Version, Indices, Marked, conditionTrue

\* A Ready mark is that of an object with a finalizer.
LEMMA MarkedObject ==
    ASSUME TypeOK, ChainInv, MarkInv
    PROVE  /\ Marked(obj) /\ Marked(cache)
           /\ conditionTrue(obj, "Ready") => Exists(obj)
  BY LastVersion, NotFoundFields DEF MarkInv, Marked

\* Renewals, deletions and the finalizer leave the conditions as they are.
LEMMA SameMark ==
    ASSUME TypeOK, MarkInv, Marked(obj), NEW new \in Object,
           \/ Renewed(new) \/ Deleted(new) \/ Finalized(new)
           \/ SameMeta(obj, new) /\ new.conditions["Ready"] = obj.conditions["Ready"]
    PROVE  /\ Marked(new)
           /\ conditionTrue(new, "Ready") =>
                 cache.uid = new.uid /\ new.conditions["Ready"].generation <= cache.generation
  <1>1. CASE new = NotFound
    BY <1>1, NotFoundFields DEF Marked, ConditionTypes
  <1>2. CASE /\ new.uid = obj.uid /\ new.conditions["Ready"] = obj.conditions["Ready"]
             /\ new.generation \in {obj.generation, obj.generation + 1}
             /\ obj.finalizer => new.finalizer
    <2>1. obj.generation \in Nat /\ obj.conditions["Ready"].generation \in Nat
      BY DEF TypeOK, Object, ConditionTypes, Condition
    <2>2. obj.conditions["Ready"].generation <= obj.generation =>
             new.conditions["Ready"].generation <= new.generation
      BY <1>2, <2>1, SMT
    <2> QED
      BY <1>2, <2>2 DEF Marked, MarkInv, conditionTrue
  <1> QED
    BY <1>1, <1>2 DEF Renewed, Deleted, Finalized, SameMeta

\* No step makes a Ready mark newer than the object that carries it.
LEMMA MarkStep ==
    ASSUME TypeOK, ChainInv, RenewalInv, FinalizerInv, WorkInv, MarkInv, [Next]_vars
    PROVE  MarkInv'
  <1>0. Marked(obj) /\ Marked(cache)
    BY MarkedObject
  <1>1. CASE Outside
    <2>1. Still /\ pc' = pc /\ work' = work
      BY <1>1, OutsideEffect
    <2> QED
      BY <2>1, MarkStill DEF MarkInv, Marked, conditionTrue
  <1>2. CASE Local
    <2>1. Still
      BY <1>2, LocalEffect
    <2>2. pc' \in AsRead => pc \in Provisioning /\ (work' = work \/ work' = Composed(work, TRUE))
      BY <1>2, LocalEffect DEF AsRead, Provisioning
    <2>3. pc \in Provisioning => Marked(work) /\ work.finalizer
      BY DEF MarkInv, FinalizerInv, AsRead
    <2>4. work.finalizer => Marked(Composed(work, TRUE))
      <3>1. work \in Object
        BY DEF TypeOK
      <3>2. work.generation \in Nat
        BY <3>1 DEF Object
      <3>3. work.generation <= work.generation
        BY <3>2, SMT
      <3> QED
        BY <3>1, <3>3, ComposedMeta DEF Marked, SameMeta
    <2>5. pc' \in AsRead => Marked(work')
      BY <2>2, <2>3, <2>4 DEF Marked, conditionTrue
    <2> QED
      BY <2>1, <2>5, MarkStill
  <1>3. CASE ReportStatus \/ Fail \/ Forget
    <2>1. cache' = cache /\ lastUid' = lastUid /\ pc' \notin AsRead
      BY <1>3, ReportEffect DEF AsRead, Provisioning
    <2>2. CASE UNCHANGED <<obj, feed, current>>
      BY <2>1, <2>2, MarkStill DEF Still
    <2>3. CASE \E new \in Object : StatusEffect(new)
      <3>1. PICK new \in Object : StatusEffect(new)
        BY <2>3
      <3>2. Write(new, {}) /\ SameMeta(obj, new)
        BY <3>1 DEF StatusEffect
      <3>3. CASE ~conditionTrue(new, "Ready")
        BY <2>1, <3>2, <3>3, MarkWrite DEF Marked
      <3>4. CASE new.conditions["Ready"] = obj.conditions["Ready"]
        BY <1>0, <2>1, <3>2, <3>4, SameMark, MarkWrite
      <3>5. CASE pc = "reportReady" /\ new.conditions["Ready"].generation = work.generation
        <4>1. pc \in AsRead /\ work.finalizer /\ ~work.deleting
          BY <3>5 DEF AsRead, Provisioning, FinalizerInv
        <4>2. /\ obj.finalizer /\ cache.uid = obj.uid
              /\ work.generation <= obj.generation /\ work.generation <= cache.generation
          BY <4>1, MarkFits
        <4>3. Marked(new)
          BY <3>2, <3>5, <4>2 DEF Marked, SameMeta
        <4> QED
          BY <2>1, <3>2, <3>5, <4>2, <4>3, MarkWrite DEF SameMeta
      <3> QED
        BY <3>1, <3>3, <3>4, <3>5 DEF StatusEffect
    <2> QED
      BY <1>3, <2>2, <2>3, ReportEffect
  <1>4. CASE MarkExpiring
    <2>1. cache' = cache /\ lastUid' = lastUid /\ pc' \notin AsRead /\ pc = "markExpiring"
      BY <1>4, MarkExpiringEffect DEF AsRead, Provisioning, MarkExpiring
    <2>2. CASE UNCHANGED <<obj, feed, current>>
      BY <2>1, <2>2, MarkStill DEF Still
    <2>3. CASE \E new \in Object :
                  /\ Write(new, {"work"}) /\ SameMeta(obj, new)
                  /\ new.conditions["Ready"] \in {obj.conditions["Ready"], work.conditions["Ready"]}
      <3>1. PICK new \in Object :
                  /\ Write(new, {"work"}) /\ SameMeta(obj, new)
                  /\ new.conditions["Ready"] \in {obj.conditions["Ready"], work.conditions["Ready"]}
        BY <2>3
      <3>2. CASE ~conditionTrue(new, "Ready")
        BY <2>1, <3>1, <3>2, MarkWrite DEF Marked
      <3>3. CASE new.conditions["Ready"] = obj.conditions["Ready"]
        BY <1>0, <2>1, <3>1, <3>3, SameMark, MarkWrite
      <3>4. CASE conditionTrue(new, "Ready") /\ new.conditions["Ready"] = work.conditions["Ready"]
        <4>1. pc \in AsRead /\ conditionTrue(work, "Ready")
          BY <2>1, <3>4 DEF AsRead, conditionTrue
        <4>2. /\ work.finalizer /\ ~work.deleting
              /\ work.conditions["Ready"].generation <= work.generation
          BY <2>1, <4>1 DEF MarkInv, Marked, WorkInv
        <4>3. /\ obj.finalizer /\ cache.uid = obj.uid
              /\ work.generation <= obj.generation /\ work.generation <= cache.generation
          BY <4>1, <4>2, MarkFits
        <4>4. /\ work.generation \in Nat /\ obj.generation \in Nat /\ cache.generation \in Nat
              /\ work.conditions["Ready"].generation \in Nat
          BY DEF TypeOK, Object, ConditionTypes, Condition
        <4>5. /\ work.conditions["Ready"].generation <= obj.generation
              /\ work.conditions["Ready"].generation <= cache.generation
          BY <4>2, <4>3, <4>4, SMT
        <4>6. Marked(new)
          BY <3>1, <3>4, <4>3, <4>5 DEF Marked, SameMeta
        <4> QED
          BY <2>1, <3>1, <3>4, <4>3, <4>5, <4>6, MarkWrite DEF SameMeta
      <3> QED
        BY <3>1, <3>2, <3>3, <3>4
    <2> QED
      BY <1>4, <2>2, <2>3, MarkExpiringEffect
  <1>5. CASE \E ttl \in TTLs : Create(ttl)
    <2>1. PICK ttl \in TTLs : Create(ttl)
      BY <1>5
    <2> DEFINE new == NewObject(lastUid + 1, now + ttl)
    <2>2. Write(new, {}) /\ cache' = cache /\ UNCHANGED <<pc, work>>
      BY <2>1 DEF Create, controller
    <2>3. new \in Object /\ ~conditionTrue(new, "Ready")
      <3>1. lastUid + 1 \in Nat /\ now + ttl \in Nat
        BY ConstantsAssumption, SMT DEF TypeOK
      <3>2. new \in Object
        BY <3>1, NewObjectType
      <3> QED
        BY <3>2 DEF NewObject, conditionTrue, ConditionTypes
    <2> HIDE DEF new
    <2> QED
      BY <2>2, <2>3, MarkWrite DEF Marked
  <1>6. CASE (\E c \in Callers : RenewWrite(c)) \/ Delete
    <2>1. /\ UNCHANGED <<cache, lastUid, pc, work>>
          /\ \/ UNCHANGED <<obj, feed, current>>
             \/ \E new \in Object : Renewed(new) \/ Deleted(new)
      BY <1>6, RenewEffect, DeleteEffect
    <2>2. CASE UNCHANGED <<obj, feed, current>>
      BY <2>1, <2>2, MarkStill DEF Still, MarkInv, Marked, conditionTrue
    <2>3. CASE \E new \in Object : Renewed(new) \/ Deleted(new)
      <3>1. PICK new \in Object : Renewed(new) \/ Deleted(new)
        BY <2>3
      <3>2. Write(new, {})
        BY <3>1 DEF Renewed, Deleted
      <3> QED
        BY <1>0, <2>1, <3>1, <3>2, SameMark, MarkWrite
    <2> QED
      BY <2>1, <2>2, <2>3
  <1>7. CASE ReapTombstone \/ AddFinalizer
    <2>1. /\ cache' = cache /\ lastUid' = lastUid /\ pc' \notin AsRead
          /\ \/ UNCHANGED <<obj, feed, current>>
             \/ \E new \in Object : Deleted(new) \/ Finalized(new)
      BY <1>7, ReapEffect, FinalizerEffect DEF AsRead, Provisioning
    <2>2. CASE UNCHANGED <<obj, feed, current>>
      BY <2>1, <2>2, MarkStill DEF Still
    <2>3. CASE \E new \in Object : Deleted(new) \/ Finalized(new)
      <3>1. PICK new \in Object : Deleted(new) \/ Finalized(new)
        BY <2>3
      <3>2. Write(new, {})
        BY <3>1 DEF Finalized, Deleted
      <3> QED
        BY <1>0, <2>1, <3>1, <3>2, SameMark, MarkWrite
    <2> QED
      BY <2>1, <2>2, <2>3
  <1>8. CASE RemoveFinalizer
    <2>1. cache' = cache /\ lastUid' = lastUid /\ pc' \notin AsRead
      BY <1>8, ReleaseEffect DEF AsRead, Provisioning
    <2>2. CASE UNCHANGED <<obj, feed, current>>
      BY <2>1, <2>2, MarkStill DEF Still
    <2>3. CASE Write(NotFound, {})
      BY <2>1, <2>3, NotFoundType, NotFoundFields, MarkWrite DEF Marked, ConditionTypes
    <2> QED
      BY <1>8, <2>2, <2>3, ReleaseEffect
  <1>9. CASE Reconcile
    <2>1. Still /\ (pc' \in AsRead => work' = cache)
      BY <1>9, ReconcileEffect DEF AsRead, Provisioning
    <2> QED
      BY <1>0, <2>1, MarkStill DEF Marked, conditionTrue
  <1>10. CASE WatchObject
    <2>1. UNCHANGED <<obj, pc, work>>
      BY <1>10 DEF WatchObject
    <2>2. /\ Len(feed) \in Nat \ {0}
          /\ Len(feed)' = Len(feed) - 1
          /\ \A i \in Indices' : i + 1 \in Indices /\ Version(i)' = Version(i + 1)
      BY <1>10, WatchVersions
    <2>3. \A i \in Indices' : Marked(Version(i)')
      BY <2>2 DEF MarkInv
    <2>4. 1 \in Indices /\ cache' = Version(1)
      BY <1>10, FirstVersions DEF WatchObject
    <2>5. /\ Precedes(cache, Version(1))
          /\ Exists(obj) /\ cache.uid = obj.uid => Version(1).uid = obj.uid
      BY <2>4, LastVersion, SMT DEF ChainInv
    <2>6. conditionTrue(obj, "Ready") =>
             cache'.uid = obj.uid /\ obj.conditions["Ready"].generation <= cache'.generation
      <3>1. cache \in Object /\ Version(1) \in Object
        BY <2>4, VersionTypes DEF TypeOK
      <3>2. /\ cache.generation \in Nat /\ Version(1).generation \in Nat
            /\ obj.conditions["Ready"].generation \in Nat
        BY <3>1 DEF Object, TypeOK, ConditionTypes, Condition
      <3>3. conditionTrue(obj, "Ready") =>
               /\ Exists(obj) /\ cache.uid = obj.uid
               /\ obj.conditions["Ready"].generation <= cache.generation
        BY MarkedObject DEF MarkInv
      <3>4. /\ Exists(obj) /\ cache.uid = obj.uid => Version(1).uid = obj.uid
            /\ Version(1).uid = cache.uid => cache.generation <= Version(1).generation
        BY <2>5 DEF Precedes
      <3>5. conditionTrue(obj, "Ready") =>
               Version(1).uid = obj.uid /\ cache.generation <= Version(1).generation
        BY <3>3, <3>4
      <3>6. conditionTrue(obj, "Ready") =>
               /\ Version(1).uid = obj.uid
               /\ obj.conditions["Ready"].generation <= Version(1).generation
        BY <3>2, <3>3, <3>5, SMT
      <3> QED
        BY <2>4, <3>6
    <2> QED
      BY <2>1, <2>3, <2>6 DEF MarkInv, Marked, conditionTrue
  <1>11. CASE Restart
    <2>1. /\ pc' = "idle" /\ Indices' = {0} /\ Version(0)' = obj /\ obj' = obj /\ cache' = obj
      BY <1>11, RestartVersions DEF Restart
    <2> QED
      BY <1>0, <2>1 DEF MarkInv, Marked, AsRead, Provisioning, conditionTrue
  <1> QED
    BY <1>1, <1>2, <1>3, <1>4, <1>5, <1>6, <1>7, <1>8, <1>9, <1>10, <1>11, StepKinds

---------------------------------------------------------------------------
(* Readiness.                                                              *)

\* An object that keeps its meta data and its Ready mark is no more live.
LEMMA SameLive ==
    ASSUME TypeOK, now' \in Nat, now' >= now, SameMeta(obj, obj'),
           obj'.conditions["Ready"] = obj.conditions["Ready"]
    PROVE  Live' => Live
  <1>1. obj.expiresAt \in Nat /\ now \in Nat
    BY DEF TypeOK, Object
  <1> QED
    BY <1>1, SMT DEF Live, ReadyNow, conditionTrue, SameMeta

\* A mark that is not newer than the object says nothing of a later generation.
LEMMA NotLive ==
    ASSUME TypeOK, Marked(obj), NEW new \in Object, obj' = new,
           Renewed(new) \/ (Deleted(new) /\ new # obj) \/ ~conditionTrue(new, "Ready")
    PROVE  ~Live'
  <1>1. obj.generation \in Nat /\ obj.conditions["Ready"].generation \in Nat
    BY DEF TypeOK, Object, ConditionTypes, Condition
  <1>2. CASE Renewed(new)
    <2>1. new.generation = obj.generation + 1 /\ new.conditions = obj.conditions
      BY <1>2 DEF Renewed
    <2>2. conditionTrue(obj, "Ready") => obj.conditions["Ready"].generation # obj.generation + 1
      BY <1>1, SMT DEF Marked
    <2>3. ~ReadyNow(new)
      BY <2>1, <2>2 DEF ReadyNow, conditionTrue
    <2> QED
      BY <2>3 DEF Live, ReadyNow, conditionTrue
  <1>3. CASE Deleted(new) /\ new # obj
    BY <1>3, NotFoundFields DEF Deleted, Live, ReadyNow, conditionTrue, ConditionTypes
  <1>4. CASE ~conditionTrue(new, "Ready")
    BY <1>4 DEF Live, ReadyNow, conditionTrue
  <1> QED
    BY <1>2, <1>3, <1>4

\* A reconcile that provisions works for the incarnation that exists.
LEMMA SameIncarnation ==
    ASSUME FinalizerInv, WorkInv, pc \in Provisioning
    PROVE  obj.uid = work.uid /\ obj.finalizer /\ Exists(obj)
  <1>1. pc # "idle"
    BY DEF Provisioning
  <1> QED
    BY <1>1 DEF FinalizerInv, WorkInv, Held, Exists

\* The environment takes nothing away from a live object.
LEMMA ReadyOutside ==
    ASSUME TypeOK, TypeOK', FinalizerInv, WorkInv, ReadyInv, Outside
    PROVE  ReadyInv'
  <1>1. Still /\ UNCHANGED <<pc, work, expired>> /\ now' >= now /\ now' \in Nat
    BY OutsideEffect DEF TypeOK
  <1>2. Live' => Live
    <2>1. SameMeta(obj, obj') /\ obj'.conditions["Ready"] = obj.conditions["Ready"]
      BY <1>1 DEF Still, SameMeta
    <2> QED
      BY <1>1, <2>1, SameLive
  <1>3. CASE NamespaceGone
    BY <1>1, <1>2, <1>3 DEF NamespaceGone, ReadyInv, HasBoundary, Usable, Reporting
  <1>4. CASE CollectNamespace
    <2>1. pc \in Reporting => obj.uid = work.uid
      BY SameIncarnation DEF Provisioning, Reporting
    <2> QED
      BY <1>1, <1>2, <1>4, <2>1 DEF CollectNamespace, ReadyInv, HasBoundary, virtual, Reporting
  <1>5. CASE ~NamespaceGone /\ ~CollectNamespace
    <2>1. UNCHANGED <<ns, nsOwner, controls, release, handoff>>
      BY <1>5 DEF Outside, Tick, WatchNamespace, WatchEvidence, PublishEvidence, RenewRead,
         vars, host, virtual
    <2> QED
      BY <1>1, <1>2, <2>1 DEF ReadyInv, HasBoundary, Usable, Still
  <1> QED
    BY <1>3, <1>4, <1>5

\* Nor do the calls of a reconcile: what tears down finds no live object.
LEMMA ReadyLocal ==
    ASSUME TypeOK, TypeOK', FinalizerInv, WorkInv, ReleaseInv, ReadyInv, Local
    PROVE  ReadyInv'
  <1>1. Still /\ now' = now
    BY LocalEffect
  <1>2. Live' <=> Live
    BY <1>1 DEF Live, ReadyNow, conditionTrue, Still
  <1>3. pc' \in Teardown => pc \in Teardown
    BY LocalEffect DEF Teardown, Provisioning
  <1>4. CASE EnsureNamespace
    <2>1. obj.uid = work.uid
      BY <1>4, SameIncarnation DEF EnsureNamespace, Provisioning
    <2>2. /\ UNCHANGED <<controls, release, handoff, work>> /\ pc' = "controls"
          /\ ns = "active" => ns' = "active"
          /\ ns' = "active" => nsOwner' = work.uid
      BY <1>4 DEF EnsureNamespace, virtual, Goto
    <2> QED
      BY <1>1, <1>2, <1>3, <2>1, <2>2 DEF ReadyInv, HasBoundary, Usable, Still, Reporting
  <1>5. CASE EnsureControl
    <2>1. /\ UNCHANGED <<ns, nsOwner, release, handoff, work>> /\ pc = "controls"
          /\ controls = NumControls => controls' = NumControls
          /\ \/ pc' = "controls"
             \/ pc' = "exportLive" /\ (controls' = NumControls \/ ns # "active")
      <3>1. NumControls \in Nat
        BY ConstantsAssumption
      <3>2. controls = NumControls => ~(controls < NumControls)
        BY <3>1, SMT
      <3> QED
        BY <1>5, <3>2 DEF EnsureControl, virtual, Goto
    <2> QED
      BY <1>1, <1>2, <1>3, <2>1 DEF ReadyInv, HasBoundary, Usable, Still, Reporting
  <1>6. CASE \/ NamespaceRefused \/ ControlRefused \/ BoundaryFault \/ ExportWhileLive
             \/ ReportFault \/ ExportBeforeTeardown \/ CallFails
    <2>1. UNCHANGED <<ns, nsOwner, controls, release, handoff>>
      BY <1>6 DEF NamespaceRefused, ControlRefused, BoundaryFault, ExportWhileLive, ReportFault,
         ExportBeforeTeardown, CallFails, host, virtual
    <2>2. pc' \in {"controls", "exportLive", "ensure"} \cup Reporting
             => pc = "exportLive" /\ pc' = "ensure" /\ work' = work
      BY <1>6 DEF NamespaceRefused, ControlRefused, BoundaryFault, ExportWhileLive, ReportFault,
         ExportBeforeTeardown, CallFails, Goto, Return, Reporting
    <2> QED
      BY <1>1, <1>2, <1>3, <2>1, <2>2 DEF ReadyInv, HasBoundary, Usable, Still, Reporting
  <1>7. CASE EnsureVCluster
    <2>1. /\ pc = "ensure" /\ pc' = "report" /\ UNCHANGED <<ns, nsOwner, controls, work>>
          /\ (release \/ ns = "active") /\ release'
          /\ handoff' \in {handoff, release}
      BY <1>7 DEF EnsureVCluster, host, Goto
    <2>2. release /\ handoff => handoff'
      BY <2>1
    <2>3. ns = "active"
      BY <2>1 DEF ReleaseInv
    <2> QED
      BY <1>1, <1>2, <1>3, <2>1, <2>2, <2>3 DEF ReadyInv, HasBoundary, Usable, Still, Reporting
  <1>8. CASE EnsureFails
    <2>1. /\ pc' = "fail" /\ UNCHANGED <<ns, nsOwner, controls>>
          /\ \/ UNCHANGED <<release, handoff>>
             \/ release' \in {release, release \/ ns = "active"} /\ handoff' \in {handoff, release}
      BY <1>8 DEF EnsureFails, host, virtual, Goto
    <2>2. release /\ handoff => release' /\ handoff'
      BY <2>1
    <2> QED
      BY <1>1, <1>2, <1>3, <2>1, <2>2 DEF ReadyInv, HasBoundary, Usable, Still, Reporting
  <1>9. CASE AskReady
    <2>1. /\ UNCHANGED <<ns, nsOwner, controls, release, handoff, work>> /\ pc = "report"
          /\ pc' = "reportStarting" \/ (pc' = "reportReady" /\ handoff)
      <3>1. PICK ready \in {FALSE, handoff} :
               pc' = IF ready THEN "reportReady" ELSE "reportStarting"
        BY <1>9 DEF AskReady, Goto
      <3>2. CASE ready
        BY <1>9, <3>1, <3>2 DEF AskReady, host, virtual
      <3>3. CASE ~ready
        BY <1>9, <3>1, <3>3 DEF AskReady, host, virtual
      <3> QED
        BY <3>2, <3>3
    <2> QED
      BY <1>1, <1>2, <1>3, <2>1 DEF ReadyInv, HasBoundary, Usable, Still, Reporting
  <1>10. CASE Uninstall \/ UninstallFails \/ deleteNamespace
    <2>1. pc \in Teardown /\ pc' \notin {"controls", "exportLive", "ensure"} \cup Reporting
      BY <1>10 DEF Uninstall, UninstallFails, deleteNamespace, Teardown, Goto, Return, Reporting
    <2> QED
      BY <1>2, <1>3, <2>1 DEF ReadyInv, HasBoundary, Reporting
  <1> QED
    BY <1>4, <1>5, <1>6, <1>7, <1>8, <1>9, <1>10 DEF Local

\* A teardown begins from an old version only when the newer ones do not matter.
LEMMA ReadyReconcile ==
    ASSUME TypeOK, ChainInv, MarkInv, ReadyInv, Reconcile
    PROVE  ReadyInv'
  <1>1. Still /\ UNCHANGED <<now, ns, nsOwner, controls, release, handoff>>
    BY ReconcileEffect
  <1>2. Live' <=> Live
    BY <1>1 DEF Live, ReadyNow, conditionTrue, Still
  <1>3. pc' \notin {"controls", "exportLive", "ensure"} \cup Reporting
    BY ReconcileEffect DEF Reporting
  <1>4. pc' \in Teardown => cache.deleting \/ now >= cache.expiresAt
    BY ReconcileEffect DEF Teardown
  <1>5. Live => cache.uid = obj.uid /\ cache.generation = obj.generation
    <2>1. obj.generation \in Nat /\ cache.generation \in Nat
      BY DEF TypeOK, Object
    <2>2. Live => cache.uid = obj.uid /\ obj.generation <= cache.generation
      BY DEF Live, ReadyNow, MarkInv
    <2> QED
      BY <2>1, <2>2, LastVersion, SMT DEF Precedes
  <1>6. Live => ~cache.deleting /\ cache.expiresAt = obj.expiresAt
    BY <1>5, LastVersion DEF Precedes, Live
  <1>7. Live => now < cache.expiresAt /\ now \in Nat /\ cache.expiresAt \in Nat
    BY <1>6 DEF Live, TypeOK, Object
  <1>8. pc' \in Teardown => ~Live
    BY <1>4, <1>6, <1>7, SMT
  <1> QED
    BY <1>1, <1>2, <1>3, <1>8 DEF ReadyInv, HasBoundary, Usable, Still, Reporting

\* A status patch claims readiness of what the reconcile has just made sure of.
LEMMA ReadyReport ==
    ASSUME TypeOK, FinalizerInv, WorkInv, MarkInv, ReadyInv, ReportStatus \/ Fail \/ Forget
    PROVE  ReadyInv'
  <1>1. /\ pc' = "idle"
        /\ UNCHANGED <<now, ns, nsOwner, controls, release, handoff>>
    BY ReportEffect
  <1>2. pc' \notin Teardown /\ pc' \notin {"controls", "exportLive", "ensure"} \cup Reporting
    BY <1>1 DEF Teardown, Reporting
  <1>3. now' \in Nat /\ now' >= now
    BY <1>1, SMT DEF TypeOK
  <1>4. CASE UNCHANGED <<obj, feed, current>>
    <2>1. Live' <=> Live
      BY <1>1, <1>4 DEF Live, ReadyNow, conditionTrue
    <2> QED
      BY <1>1, <1>2, <1>4, <2>1 DEF ReadyInv, HasBoundary, Usable, Reporting
  <1>5. CASE \E new \in Object : StatusEffect(new)
    <2>1. PICK new \in Object : StatusEffect(new)
      BY <1>5
    <2>2. obj' = new /\ SameMeta(obj, new)
      BY <2>1 DEF StatusEffect, Write
    <2>3. CASE ~conditionTrue(new, "Ready")
      <3>1. ~Live'
        BY <2>2, <2>3 DEF Live, ReadyNow, conditionTrue
      <3> QED
        BY <1>2, <3>1 DEF ReadyInv, HasBoundary, Reporting
    <2>4. CASE new.conditions["Ready"] = obj.conditions["Ready"]
      <3>1. Live' => Live
        BY <1>3, <2>2, <2>4, SameLive
      <3> QED
        BY <1>1, <1>2, <2>2, <3>1 DEF ReadyInv, HasBoundary, Usable, SameMeta, Reporting
    <2>5. CASE pc = "reportReady"
      <3>1. obj.uid = work.uid
        BY <2>5, SameIncarnation DEF Provisioning
      <3>2. Usable /\ nsOwner = work.uid
        BY <2>5 DEF ReadyInv, HasBoundary, Usable, Reporting
      <3> QED
        BY <1>1, <1>2, <2>2, <3>1, <3>2 DEF ReadyInv, HasBoundary, Usable, SameMeta, Reporting
    <2> QED
      BY <2>1, <2>3, <2>4, <2>5 DEF StatusEffect
  <1> QED
    BY <1>4, <1>5, ReportEffect

\* Marking an expired lease does not bring an old Ready mark back to life.
LEMMA ReadyExpiring ==
    ASSUME TypeOK, FinalizerInv, WorkInv, MarkInv, ReadyInv, MarkExpiring
    PROVE  ReadyInv'
  <1>1. /\ pc = "markExpiring" /\ pc' \in {"idle", "export"}
        /\ UNCHANGED <<now, ns, nsOwner, controls, release, handoff>>
    BY MarkExpiringEffect DEF MarkExpiring
  <1>2. pc \in Teardown /\ ~Live
    BY <1>1 DEF Teardown, ReadyInv, HasBoundary, Reporting
  <1>3. now' \in Nat /\ now' >= now
    BY <1>1, SMT DEF TypeOK
  <1>4. SUFFICES ~Live'
    BY <1>1 DEF ReadyInv, HasBoundary, Reporting
  <1>5. CASE UNCHANGED <<obj, feed, current>>
    BY <1>1, <1>2, <1>5 DEF Live, ReadyNow, conditionTrue
  <1>6. CASE \E new \in Object :
                /\ Write(new, {"work"}) /\ SameMeta(obj, new)
                /\ new.conditions["Ready"] \in {obj.conditions["Ready"], work.conditions["Ready"]}
    <2>1. PICK new \in Object :
                /\ Write(new, {"work"}) /\ SameMeta(obj, new)
                /\ new.conditions["Ready"] \in {obj.conditions["Ready"], work.conditions["Ready"]}
      BY <1>6
    <2>2. obj' = new
      BY <2>1 DEF Write
    <2>3. CASE new.conditions["Ready"] = obj.conditions["Ready"]
      BY <1>2, <1>3, <2>1, <2>2, <2>3, SameLive
    <2>4. CASE ~conditionTrue(new, "Ready")
      BY <2>2, <2>4 DEF Live, ReadyNow, conditionTrue
    <2>5. CASE conditionTrue(new, "Ready") /\ new.conditions["Ready"] = work.conditions["Ready"]
      <3>1. pc \in AsRead /\ conditionTrue(work, "Ready")
        BY <1>1, <2>5 DEF AsRead, conditionTrue
      <3>2. /\ work.finalizer /\ ~work.deleting /\ now >= work.expiresAt
            /\ work.conditions["Ready"].generation <= work.generation
        BY <1>1, <3>1 DEF MarkInv, Marked, WorkInv
      <3>3. /\ work.generation <= obj.generation
            /\ work.generation = obj.generation => work.expiresAt = obj.expiresAt
        BY <3>1, <3>2, MarkFits
      <3>4. /\ work.generation \in Nat /\ obj.generation \in Nat /\ now \in Nat
            /\ work.conditions["Ready"].generation \in Nat /\ work.expiresAt \in Nat
        BY DEF TypeOK, Object, ConditionTypes, Condition
      <3>5. work.conditions["Ready"].generation = obj.generation => now >= obj.expiresAt
        BY <3>2, <3>3, <3>4, SMT
      <3>6. Live' => work.conditions["Ready"].generation = obj.generation /\ now < obj.expiresAt
        BY <1>1, <2>1, <2>2, <2>5 DEF Live, ReadyNow, SameMeta
      <3>7. obj.expiresAt \in Nat
        BY DEF TypeOK, Object
      <3> QED
        BY <3>4, <3>5, <3>6, <3>7, SMT
    <2> QED
      BY <2>1, <2>3, <2>4, <2>5
  <1> QED
    BY <1>5, <1>6, MarkExpiringEffect

\* The release goes first in every teardown, and none is installed without an
\* active namespace of the incarnation that exists.
LEMMA ReleaseStep ==
    ASSUME IndInv, [Next]_vars
    PROVE  ReleaseInv'
  <1>0. /\ TypeOK /\ ChainInv /\ RenewalInv /\ FinalizerInv /\ WorkInv /\ ReleaseInv /\ ReadyInv
        /\ nsOwner \in Nat /\ lastUid \in Nat
    BY DEF IndInv, TypeOK
  <1> DEFINE Gone == {"deleteNamespace", "forget", "removeFinalizer"}
  <1>1. CASE Outside
    <2>1. Still /\ pc' = pc
      BY <1>0, <1>1, OutsideEffect
    <2>2. CASE NamespaceGone
      BY <1>0, <2>1, <2>2, SMT DEF NamespaceGone, ReleaseInv, Still, service, Exists
    <2>3. CASE CollectNamespace
      BY <1>0, <2>1, <2>3 DEF CollectNamespace, ReleaseInv, Still, virtual, service, Exists
    <2>4. CASE ~NamespaceGone /\ ~CollectNamespace
      <3>1. UNCHANGED <<ns, nsOwner, release, lastUid>>
        BY <1>1, <2>4 DEF Outside, Tick, WatchNamespace, WatchEvidence, PublishEvidence,
           RenewRead, vars, host, virtual, service
      <3> QED
        BY <1>0, <2>1, <3>1 DEF ReleaseInv, Still, Exists
    <2> QED
      BY <2>2, <2>3, <2>4
  <1>2. CASE EnsureNamespace
    <2>1. obj.uid = work.uid /\ work.uid <= lastUid
      BY <1>0, <1>2, SameIncarnation DEF EnsureNamespace, Provisioning, WorkInv
    <2>2. /\ obj' = obj /\ UNCHANGED <<release, lastUid>> /\ pc' = "controls"
          /\ ns = "active" => ns' = "active"
          /\ nsOwner' = nsOwner \/ nsOwner' = work.uid
      BY <1>2 DEF EnsureNamespace, server, virtual, service, Goto
    <2> QED
      BY <1>0, <2>1, <2>2 DEF ReleaseInv, Exists
  <1>3. CASE EnsureVCluster \/ EnsureFails
    <2>1. /\ obj' = obj /\ pc = "ensure" /\ pc' \in {"report", "fail"}
          /\ UNCHANGED <<ns, nsOwner, lastUid>>
      BY <1>3 DEF EnsureVCluster, EnsureFails, server, host, service, Goto
    <2>2. release' => release \/ ns = "active"
      BY <1>3 DEF EnsureVCluster, EnsureFails, virtual
    <2>3. obj.uid = work.uid /\ obj.finalizer
      BY <1>0, <2>1, SameIncarnation DEF Provisioning
    <2>4. ns = "active" => nsOwner = work.uid
      BY <1>0, <2>1 DEF ReadyInv
    <2> QED
      BY <1>0, <2>1, <2>2, <2>3, <2>4 DEF ReleaseInv, Exists
  <1>4. CASE \/ NamespaceRefused \/ EnsureControl \/ ControlRefused \/ BoundaryFault
             \/ ExportWhileLive \/ AskReady \/ ReportFault \/ ExportBeforeTeardown
             \/ CallFails \/ Uninstall \/ UninstallFails
    <2>1. /\ obj' = obj /\ UNCHANGED <<ns, nsOwner, lastUid>>
          /\ release' = FALSE \/ (release' = release /\ pc' \notin Gone)
      BY <1>4 DEF NamespaceRefused, EnsureControl, ControlRefused, BoundaryFault,
         ExportWhileLive, AskReady, ReportFault, ExportBeforeTeardown, CallFails, Uninstall,
         UninstallFails, server, host, virtual, service, Goto, Return
    <2> QED
      BY <1>0, <2>1, SMT DEF ReleaseInv, Exists
  <1>5. CASE deleteNamespace
    <2>1. /\ obj' = obj /\ UNCHANGED <<nsOwner, release, lastUid>> /\ pc = "deleteNamespace"
      BY <1>5 DEF deleteNamespace, server, virtual, service
    <2> QED
      BY <1>0, <2>1 DEF ReleaseInv, Exists
  <1>6. CASE ReportStatus \/ Fail \/ Forget
    <2>1. /\ UNCHANGED <<ns, nsOwner, release, lastUid>> /\ pc' = "idle"
          /\ obj' = obj \/ SameMeta(obj, obj')
      BY <1>0, <1>6, ReportEffect DEF StatusEffect, Write
    <2> QED
      BY <1>0, <2>1 DEF ReleaseInv, SameMeta, Exists
  <1>7. CASE MarkExpiring
    <2>1. UNCHANGED <<ns, nsOwner, release, lastUid>> /\ pc' \in {"idle", "export"}
      BY <1>0, <1>7, MarkExpiringEffect
    <2>2. obj' = obj \/ SameMeta(obj, obj')
      BY <1>0, <1>7, MarkExpiringEffect DEF Write
    <2> QED
      BY <1>0, <2>1, <2>2 DEF ReleaseInv, SameMeta, Exists
  <1>8. CASE \E ttl \in TTLs : Create(ttl)
    <2>1. PICK ttl \in TTLs : Create(ttl)
      BY <1>8
    <2>2. /\ ~Exists(obj) /\ UNCHANGED <<pc, ns, nsOwner, release>> /\ lastUid' = lastUid + 1
          /\ obj' = NewObject(lastUid + 1, now + ttl)
      BY <2>1 DEF Create, controller, host, virtual, Write
    <2>3. obj'.uid = lastUid + 1
      BY <2>2 DEF NewObject
    <2>4. ~obj.finalizer
      BY <1>0, <2>2, LastVersion, NotFoundFields
    <2>5. nsOwner <= lastUid => nsOwner <= lastUid + 1
      BY <1>0, SMT
    <2> QED
      BY <1>0, <2>2, <2>3, <2>4, <2>5 DEF ReleaseInv
  <1>9. CASE (\E c \in Callers : RenewWrite(c)) \/ Delete
    <2>1. /\ UNCHANGED <<pc, ns, nsOwner, release, lastUid>>
          /\ \/ UNCHANGED <<obj, feed, current>>
             \/ \E new \in Object : Renewed(new) \/ Deleted(new)
      BY <1>0, <1>9, RenewEffect, DeleteEffect
    <2>2. obj' = obj \/ Keeps(obj')
      BY <2>1, Kept DEF Renewed, Deleted, Write
    <2>3. obj'.uid = obj.uid \/ ~Exists(obj')
      BY <2>1, NotFoundFields DEF Renewed, Deleted, Write, Exists
    <2> QED
      BY <1>0, <2>1, <2>2, <2>3 DEF ReleaseInv, Exists, Keeps
  <1>10. CASE ReapTombstone \/ AddFinalizer
    <2>1. /\ UNCHANGED <<ns, nsOwner, release, lastUid>> /\ pc' = "idle"
          /\ \/ UNCHANGED <<obj, feed, current>>
             \/ \E new \in Object : Deleted(new) \/ Finalized(new)
      BY <1>0, <1>10, ReapEffect, FinalizerEffect
    <2>2. obj' = obj \/ Keeps(obj')
      BY <2>1, Kept DEF Finalized, Deleted, Write
    <2>3. obj'.uid = obj.uid \/ ~Exists(obj')
      BY <2>1, NotFoundFields DEF Finalized, Deleted, Write, Exists
    <2> QED
      BY <1>0, <2>1, <2>2, <2>3 DEF ReleaseInv, Exists, Keeps
  <1>11. CASE RemoveFinalizer
    <2>1. /\ UNCHANGED <<ns, nsOwner, release, lastUid>> /\ pc = "removeFinalizer" /\ pc' = "idle"
          /\ (obj' = obj \/ obj' = NotFound)
      BY <1>0, <1>11, ReleaseEffect DEF Write
    <2> QED
      BY <1>0, <2>1, NotFoundFields DEF ReleaseInv, Exists
  <1>12. CASE Reconcile
    <2>1. Still /\ UNCHANGED <<ns, nsOwner, release, lastUid>> /\ pc' \notin Gone
      BY <1>12 DEF Reconcile, Route, Still, service, host, virtual
    <2> QED
      BY <1>0, <2>1 DEF ReleaseInv, Still, Exists
  <1>13. CASE WatchObject \/ Restart
    <2>1. UNCHANGED <<obj, ns, nsOwner, release, lastUid>> /\ (pc' = pc \/ pc' = "idle")
      BY <1>13 DEF WatchObject, Restart, host, virtual, service
    <2> QED
      BY <1>0, <2>1 DEF ReleaseInv, Exists
  <1> QED
    BY <1>1, <1>2, <1>3, <1>4, <1>5, <1>6, <1>7, <1>8, <1>9, <1>10, <1>11, <1>12, <1>13,
       StepKinds DEF Local

\* Every step keeps Ready true to the host.
LEMMA ReadyStep ==
    ASSUME IndInv, TypeOK', [Next]_vars
    PROVE  ReadyInv'
  <1>0. TypeOK /\ ChainInv /\ RenewalInv /\ FinalizerInv /\ WorkInv /\ MarkInv
        /\ ReleaseInv /\ ReadyInv
    BY DEF IndInv
  <1>1. CASE Outside
    BY <1>0, <1>1, ReadyOutside
  <1>2. CASE Local
    BY <1>0, <1>2, ReadyLocal
  <1>3. CASE ReportStatus \/ Fail \/ Forget
    BY <1>0, <1>3, ReadyReport
  <1>4. CASE MarkExpiring
    BY <1>0, <1>4, ReadyExpiring
  <1>5. CASE \E ttl \in TTLs : Create(ttl)
    <2>1. PICK ttl \in TTLs : Create(ttl)
      BY <1>5
    <2> DEFINE new == NewObject(lastUid + 1, now + ttl)
    <2>2. obj' = new /\ UNCHANGED <<pc, work, ns, nsOwner, controls, release, handoff>>
      BY <2>1 DEF Create, controller, Write, host, virtual
    <2>3. ~conditionTrue(new, "Ready")
      BY DEF NewObject, conditionTrue, ConditionTypes
    <2> HIDE DEF new
    <2>4. ~Live'
      BY <2>2, <2>3 DEF Live, ReadyNow, conditionTrue
    <2> QED
      BY <1>0, <2>2, <2>4 DEF ReadyInv, HasBoundary, Reporting
  <1>6. CASE (\E c \in Callers : RenewWrite(c)) \/ Delete
    <2>1. /\ UNCHANGED <<now, pc, work, ns, nsOwner, controls, release, handoff>>
          /\ \/ UNCHANGED <<obj, feed, current>>
             \/ \E new \in Object : Renewed(new) \/ Deleted(new)
      BY <1>0, <1>6, RenewEffect, DeleteEffect
    <2>2. CASE obj' = obj
      <3>1. Live' <=> Live
        BY <2>1, <2>2 DEF Live, ReadyNow, conditionTrue
      <3> QED
        BY <1>0, <2>1, <2>2, <3>1 DEF ReadyInv, HasBoundary, Usable, Reporting
    <2>3. CASE obj' # obj
      <3>1. PICK new \in Object : Renewed(new) \/ Deleted(new)
        BY <2>1, <2>3
      <3>2. obj' = new
        BY <3>1 DEF Renewed, Deleted, Write
      <3>3. ~Live'
        BY <1>0, <2>3, <3>1, <3>2, NotLive, MarkedObject
      <3> QED
        BY <1>0, <2>1, <3>3 DEF ReadyInv, HasBoundary, Reporting
    <2> QED
      BY <2>2, <2>3
  <1>7. CASE ReapTombstone \/ AddFinalizer
    <2>1. /\ UNCHANGED <<now, ns, nsOwner, controls, release, handoff>> /\ pc' = "idle"
          /\ \/ UNCHANGED <<obj, feed, current>>
             \/ \E new \in Object : Deleted(new) \/ Finalized(new)
      BY <1>0, <1>7, ReapEffect, FinalizerEffect
    <2>2. CASE obj' = obj
      <3>1. Live' <=> Live
        BY <2>1, <2>2 DEF Live, ReadyNow, conditionTrue
      <3> QED
        BY <1>0, <2>1, <2>2, <3>1 DEF ReadyInv, HasBoundary, Usable, Teardown, Reporting
    <2>3. CASE \E new \in Object : Deleted(new) /\ obj' # obj
      <3>1. PICK new \in Object : Deleted(new)
        BY <2>3
      <3>2. obj' = new
        BY <3>1 DEF Deleted, Write
      <3>3. ~Live'
        BY <1>0, <2>3, <3>1, <3>2, NotLive, MarkedObject
      <3> QED
        BY <2>1, <3>3 DEF ReadyInv, HasBoundary, Teardown, Reporting
    <2>4. CASE \E new \in Object : Finalized(new)
      <3>1. PICK new \in Object : Finalized(new)
        BY <2>4
      <3>2. obj' = new
        BY <3>1 DEF Finalized, Write
      <3>3. (Live' <=> Live) /\ obj'.uid = obj.uid
        BY <2>1, <3>1, <3>2 DEF Live, ReadyNow, conditionTrue, Finalized
      <3> QED
        BY <1>0, <2>1, <3>3 DEF ReadyInv, HasBoundary, Usable, Teardown, Reporting
    <2> QED
      BY <2>1, <2>2, <2>3, <2>4
  <1>8. CASE RemoveFinalizer
    <2>1. /\ UNCHANGED <<now, ns, nsOwner, controls, release, handoff>> /\ pc' = "idle"
          /\ (obj' = obj \/ obj' = NotFound)
      BY <1>0, <1>8, ReleaseEffect DEF Write
    <2>2. CASE obj' = obj
      <3>1. Live' <=> Live
        BY <2>1, <2>2 DEF Live, ReadyNow, conditionTrue
      <3> QED
        BY <1>0, <2>1, <2>2, <3>1 DEF ReadyInv, HasBoundary, Usable, Teardown, Reporting
    <2>3. CASE obj' = NotFound
      <3>1. ~Live'
        BY <2>3, NotFoundFields DEF Live, ReadyNow, conditionTrue, ConditionTypes
      <3> QED
        BY <2>1, <3>1 DEF ReadyInv, HasBoundary, Teardown, Reporting
    <2> QED
      BY <2>1, <2>2, <2>3
  <1>9. CASE Reconcile
    BY <1>0, <1>9, ReadyReconcile
  <1>10. CASE WatchObject \/ Restart
    <2>1. /\ UNCHANGED <<now, obj, ns, nsOwner, controls, release, handoff>>
          /\ UNCHANGED <<pc, work>> \/ pc' = "idle"
      BY <1>10 DEF WatchObject, Restart, host, virtual
    <2>2. Live' <=> Live
      BY <2>1 DEF Live, ReadyNow, conditionTrue
    <2> QED
      BY <1>0, <2>1, <2>2 DEF ReadyInv, HasBoundary, Usable, Teardown, Reporting
  <1> QED
    BY <1>1, <1>2, <1>3, <1>4, <1>5, <1>6, <1>7, <1>8, <1>9, <1>10, StepKinds

\* The inductive invariant holds in every behaviour.
THEOREM Inductive == Spec => []IndInv
  <1>1. Init => IndInv
    <2> SUFFICES ASSUME Init PROVE IndInv
      OBVIOUS
    <2>1. TypeOK
      BY TypeInit
    <2>2. /\ feed = <<>> /\ cache = NotFound /\ obj = NotFound /\ lastUid = 0 /\ current = {}
          /\ pc = "idle" /\ expired = FALSE
      BY DEF Init
    <2>3. Len(feed) = 0
      BY <2>2
    <2>4. Indices = {0} /\ Version(0) = NotFound
      BY <2>2, <2>3, SMT DEF Indices, Version
    <2>5. ChainInv
      <3>1. Precedes(NotFound, NotFound)
        BY NotFoundFields, SMT DEF Precedes
      <3> QED
        BY <2>2, <2>3, <2>4, <3>1, NotFoundFields, SMT DEF ChainInv
    <2>6. RenewalInv
      BY <2>2 DEF RenewalInv
    <2>7. FinalizerInv
      BY <2>2, <2>4, NotFoundFields DEF FinalizerInv, Held, Provisioning
    <2>8. WorkInv
      BY <2>2 DEF WorkInv, Provisioning, AsRead, Teardown
    <2>9. MarkInv
      BY <2>2, <2>4, NotFoundFields DEF MarkInv, Marked, AsRead, Provisioning, ConditionTypes
    <2>10. ReleaseInv
      <3>1. nsOwner = 0 /\ lastUid = 0 /\ release = FALSE /\ 0 <= 0
        BY SMT DEF Init
      <3> QED
        BY <2>2, <3>1, NotFoundFields DEF ReleaseInv, Exists
    <2>11. ReadyInv
      BY <2>2, NotFoundFields DEF ReadyInv, HasBoundary, Live, ReadyNow, Teardown,
         ConditionTypes, Reporting
    <2> QED
      BY <2>1, <2>5, <2>6, <2>7, <2>8, <2>9, <2>10, <2>11 DEF IndInv
  <1>2. IndInv /\ [Next]_vars => IndInv'
    <2> SUFFICES ASSUME IndInv, [Next]_vars PROVE IndInv'
      OBVIOUS
    <2>1. TypeOK /\ ChainInv /\ RenewalInv /\ FinalizerInv /\ WorkInv /\ MarkInv
        /\ ReleaseInv /\ ReadyInv
      BY DEF IndInv
    <2>2. TypeOK'
      BY <2>1, TypeStep
    <2>3. ChainInv' /\ RenewalInv' /\ FinalizerInv'
      BY <2>1, ChainStep, RenewalStep, FinalizerStep
    <2>4. WorkInv' /\ MarkInv'
      BY <2>1, <2>2, WorkStep, MarkStep
    <2>5. ReleaseInv' /\ ReadyInv'
      BY <2>2, ReleaseStep, ReadyStep
    <2> QED
      BY <2>2, <2>3, <2>4, <2>5 DEF IndInv
  <1> QED
    BY <1>1, <1>2, PTL DEF Spec

\* A caller that is shown Ready before the expiry has a usable virtual cluster.
THEOREM ReadySound == Spec => []ReadyIsReal
  <1>1. IndInv => ReadyIsReal
    BY DEF IndInv, ReadyInv, ReadyIsReal, Live, ReadyNow, project
  <1> QED
    BY <1>1, Inductive, PTL

\* No renewal moves an expiry back, nor does any other write.
THEOREM ExpiryForward == Spec => ExpiryMovesForward
  <1>1. IndInv /\ [Next]_vars =>
           [obj'.uid = obj.uid =>
              /\ obj'.expiresAt >= obj.expiresAt
              /\ conditionTrue(obj, "Forgotten") => obj'.expiresAt = obj.expiresAt]_vars
    <2> SUFFICES ASSUME IndInv, [Next]_vars, obj'.uid = obj.uid
                 PROVE  /\ obj'.expiresAt >= obj.expiresAt
                        /\ conditionTrue(obj, "Forgotten") => obj'.expiresAt = obj.expiresAt
      OBVIOUS
    <2>0. /\ TypeOK /\ ChainInv /\ RenewalInv /\ WorkInv
          /\ obj.expiresAt \in Nat /\ obj.uid \in Nat /\ lastUid \in Nat
      BY DEF IndInv, TypeOK, Object
    <2>1. CASE \E c \in Callers : RenewWrite(c)
      <3>1. PICK c \in Callers : RenewWrite(c)
        BY <2>1
      <3>2. CASE obj' = obj
        BY <2>0, <3>2, SMT
      <3>3. CASE obj' # obj
        <4>1. PICK new \in Object : Renewed(new) /\ new.expiresAt = renewal[c]
          BY <2>0, <3>1, <3>3, RenewEffect
        <4>2. c \in current /\ renewal[c] # 0
          BY <3>1, <3>3 DEF RenewWrite, server
        <4>3. ~conditionTrue(obj, "Forgotten") /\ renewal[c] > obj.expiresAt
          BY <2>0, <4>2 DEF RenewalInv
        <4>4. obj'.expiresAt = renewal[c] /\ renewal[c] \in Nat
          BY <2>0, <4>1 DEF Renewed, Write, TypeOK
        <4>5. \A x, y \in Nat : x > y => x >= y
          BY SMT
        <4> QED
          BY <2>0, <4>3, <4>4, <4>5
      <3> QED
        BY <3>2, <3>3
    <2>2. CASE obj'.expiresAt = obj.expiresAt
      BY <2>0, <2>2, SMT
    <2>3. CASE Outside \/ Local \/ Reconcile \/ WatchObject \/ Restart
      <3>1. obj' = obj
        BY <2>0, <2>3, OutsideEffect, LocalEffect, ReconcileEffect DEF Still, WatchObject, Restart
      <3> QED
        BY <2>2, <3>1
    <2>4. CASE ReportStatus \/ Fail \/ Forget
      <3>1. obj' = obj \/ obj'.expiresAt = obj.expiresAt
        BY <2>0, <2>4, ReportEffect DEF StatusEffect, SameMeta, Write
      <3> QED
        BY <2>2, <3>1
    <2>5. CASE MarkExpiring
      <3>1. obj' = obj \/ obj'.expiresAt = obj.expiresAt
        BY <2>0, <2>5, MarkExpiringEffect DEF SameMeta, Write
      <3> QED
        BY <2>2, <3>1
    <2>6. CASE \E ttl \in TTLs : Create(ttl)
      <3>1. PICK ttl \in TTLs : obj' = NewObject(lastUid + 1, now + ttl)
        BY <2>6 DEF Create, Write
      <3>2. obj'.uid = lastUid + 1
        BY <3>1 DEF NewObject
      <3>3. obj.uid <= lastUid
        BY <2>0, LastVersion
      <3> QED
        BY <2>0, <3>2, <3>3, SMT
    <2>7. CASE Delete \/ ReapTombstone
      <3>1. obj' = obj \/ obj'.expiresAt = obj.expiresAt \/ (obj' = NotFound /\ Exists(obj))
        BY <2>0, <2>7, DeleteEffect, ReapEffect DEF Deleted, Write
      <3> QED
        BY <2>2, <3>1, NotFoundFields DEF Exists
    <2>8. CASE AddFinalizer
      <3>1. obj' = obj \/ obj'.expiresAt = obj.expiresAt
        BY <2>0, <2>8, FinalizerEffect DEF Finalized, Write
      <3> QED
        BY <2>2, <3>1
    <2>9. CASE RemoveFinalizer
      <3>1. obj' = obj \/ (obj' = NotFound /\ "work" \in current /\ pc = "removeFinalizer")
        BY <2>0, <2>9, ReleaseEffect DEF Write
      <3>2. "work" \in current /\ pc = "removeFinalizer" => Exists(obj)
        BY <2>0 DEF WorkInv, Exists
      <3> QED
        BY <2>2, <3>1, <3>2, NotFoundFields DEF Exists
    <2> QED
      BY <2>1, <2>3, <2>4, <2>5, <2>6, <2>7, <2>8, <2>9, StepKinds
  <1> QED
    BY <1>1, Inductive, PTL DEF Spec, ExpiryMovesForward

---------------------------------------------------------------------------
(* What is provisioned has a finalizer to clean it up.                     *)

\* Every step keeps the namespace and the finalizer together.
LEMMA HostStep ==
    ASSUME "namespace" \notin Lagging, IndInv, HostInv, [Next]_vars
    PROVE  HostInv'
  <1>0. /\ TypeOK /\ ChainInv /\ RenewalInv /\ FinalizerInv /\ WorkInv /\ ReadyInv
        /\ NamespaceRead = ns
    BY DEF IndInv, NamespaceRead
  <1>1. CASE Outside
    <2>1. Still /\ pc' = pc
      BY <1>0, <1>1, OutsideEffect
    <2>2. CASE NamespaceGone
      BY <2>2 DEF NamespaceGone, HostInv
    <2>3. CASE CollectNamespace
      BY <2>1, <2>3 DEF CollectNamespace, HostInv, Still, virtual
    <2>4. CASE ~NamespaceGone /\ ~CollectNamespace
      <3>1. UNCHANGED <<ns, nsOwner, release>>
        BY <1>1, <2>4 DEF Outside, Tick, WatchNamespace, WatchEvidence, PublishEvidence,
           RenewRead, vars, host, virtual
      <3> QED
        BY <2>1, <3>1 DEF HostInv, Still
    <2> QED
      BY <2>2, <2>3, <2>4
  <1>2. CASE EnsureNamespace
    <2>1. obj.uid = work.uid /\ obj.finalizer
      BY <1>0, <1>2, SameIncarnation DEF EnsureNamespace, Provisioning
    <2>2. obj' = obj /\ release' = release /\ pc' = "controls"
      BY <1>2 DEF EnsureNamespace, server, virtual, Goto
    <2>3. (ns' = ns /\ nsOwner' = nsOwner) \/ nsOwner' = work.uid
      BY <1>2 DEF EnsureNamespace
    <2> QED
      BY <2>1, <2>2, <2>3 DEF HostInv
  <1>3. CASE EnsureVCluster \/ EnsureFails \/ AskReady \/ EnsureControl
    <2>1. /\ obj' = obj /\ UNCHANGED <<ns, nsOwner>>
          /\ pc' \notin {"forget", "removeFinalizer"}
      BY <1>3 DEF EnsureVCluster, EnsureFails, AskReady, EnsureControl, server, host, Goto
    <2> QED
      BY <2>1 DEF HostInv
  <1>4. CASE \/ NamespaceRefused \/ ControlRefused \/ BoundaryFault \/ ExportWhileLive
             \/ ReportFault \/ ExportBeforeTeardown \/ CallFails \/ Uninstall \/ UninstallFails
    <2>1. /\ obj' = obj /\ UNCHANGED <<ns, nsOwner>>
          /\ pc' \notin {"forget", "removeFinalizer"}
      BY <1>4 DEF NamespaceRefused, ControlRefused, BoundaryFault, ExportWhileLive, ReportFault,
         ExportBeforeTeardown, CallFails, Uninstall, UninstallFails, server, host, Goto, Return
    <2> QED
      BY <2>1 DEF HostInv
  <1>5. CASE deleteNamespace
    <2>1. /\ obj' = obj /\ UNCHANGED <<nsOwner, release>>
          /\ \/ ns = "absent" /\ ns' = ns
             \/ /\ ns # "absent" /\ ns' \in {ns, "terminating"}
                /\ pc' = "idle"
      BY <1>0, <1>5 DEF deleteNamespace, server, virtual, Return
    <2> QED
      BY <2>1 DEF HostInv
  <1>6. CASE ReportStatus \/ Fail \/ Forget
    <2>1. /\ UNCHANGED <<ns, nsOwner, release>> /\ pc' = "idle"
          /\ obj' = obj \/ SameMeta(obj, obj')
      BY <1>0, <1>6, ReportEffect DEF StatusEffect, Write
    <2> QED
      BY <2>1 DEF HostInv, SameMeta
  <1>7. CASE MarkExpiring
    <2>1. UNCHANGED <<ns, nsOwner, release>> /\ pc' \in {"idle", "export"}
      BY <1>0, <1>7, MarkExpiringEffect
    <2>2. obj' = obj \/ SameMeta(obj, obj')
      BY <1>0, <1>7, MarkExpiringEffect DEF Write
    <2> QED
      BY <2>1, <2>2 DEF HostInv, SameMeta
  <1>8. CASE \E ttl \in TTLs : Create(ttl)
    <2>1. ~Exists(obj) /\ UNCHANGED <<pc, ns, nsOwner, release>>
      BY <1>8 DEF Create, controller, host, virtual
    <2>2. ~obj.finalizer
      BY <1>0, <2>1, LastVersion, NotFoundFields
    <2> QED
      BY <2>1, <2>2 DEF HostInv
  <1>9. CASE (\E c \in Callers : RenewWrite(c)) \/ Delete
    <2>1. /\ UNCHANGED <<pc, ns, nsOwner, release>>
          /\ \/ UNCHANGED <<obj, feed, current>>
             \/ \E new \in Object : Renewed(new) \/ Deleted(new)
      BY <1>0, <1>9, RenewEffect, DeleteEffect
    <2>2. obj' = obj \/ Keeps(obj')
      BY <2>1, Kept DEF Renewed, Deleted, Write
    <2> QED
      BY <2>1, <2>2 DEF HostInv, Keeps
  <1>10. CASE ReapTombstone \/ AddFinalizer
    <2>1. /\ UNCHANGED <<ns, nsOwner, release>> /\ pc' = "idle"
          /\ \/ UNCHANGED <<obj, feed, current>>
             \/ \E new \in Object : Deleted(new) \/ Finalized(new)
      BY <1>0, <1>10, ReapEffect, FinalizerEffect
    <2>2. obj' = obj \/ Keeps(obj')
      BY <2>1, Kept DEF Finalized, Deleted, Write
    <2> QED
      BY <2>1, <2>2 DEF HostInv, Keeps
  <1>11. CASE RemoveFinalizer
    <2>1. UNCHANGED <<ns, nsOwner, release>> /\ pc = "removeFinalizer" /\ pc' = "idle"
      BY <1>0, <1>11, ReleaseEffect
    <2> QED
      BY <2>1 DEF HostInv
  <1>12. CASE Reconcile
    <2>1. Still /\ UNCHANGED <<ns, nsOwner, release>> /\ pc' \notin {"forget", "removeFinalizer"}
      BY <1>0, <1>12, ReconcileEffect
    <2> QED
      BY <2>1 DEF HostInv, Still
  <1>13. CASE WatchObject \/ Restart
    <2>1. UNCHANGED <<obj, ns, nsOwner, release>> /\ (pc' = pc \/ pc' = "idle")
      BY <1>13 DEF WatchObject, Restart, host, virtual
    <2> QED
      BY <2>1 DEF HostInv
  <1> QED
    BY <1>1, <1>2, <1>3, <1>4, <1>5, <1>6, <1>7, <1>8, <1>9, <1>10, <1>11, <1>12, <1>13,
       StepKinds DEF Local

\* With an up-to-date view of the namespace nothing is orphaned.
THEOREM NoOrphans ==
    ASSUME "namespace" \notin Lagging
    PROVE  Spec => []NothingOrphaned
  <1>1. Init => HostInv
    BY DEF Init, HostInv
  <1>2. IndInv /\ HostInv /\ [Next]_vars => HostInv'
    BY HostStep
  <1>3. IndInv /\ HostInv => NothingOrphaned
    BY DEF IndInv, ReleaseInv, HostInv, NothingOrphaned
  <1> QED
    BY <1>1, <1>2, <1>3, Inductive, PTL DEF Spec

---------------------------------------------------------------------------
(* The contract of a lease.                                                *)

\* A step that leaves object and clock alone provides the virtual cluster,
\* withdraws it, or does nothing a reader of the object could see.
LEMMA LeaseHost ==
    ASSUME TypeOK, ChainInv, ReleaseInv', ReadyIsReal', UNCHANGED <<now, obj, lastUid>>
    PROVE  [Promised!Next]_(Promised!leaseVars)
  <1>1. /\ Shown(obj)' = Shown(obj) /\ Incarnation' = Incarnation
        /\ (obj.expiresAt)' = obj.expiresAt /\ now' = now
    BY DEF Shown, Incarnation, Exists, project, conditionTrue
  <1>2. Usable \in BOOLEAN /\ Usable' \in BOOLEAN
    BY DEF Usable
  <1>3. CASE Usable' = Usable
    BY <1>1, <1>3 DEF Promised!leaseVars
  <1>4. CASE Usable'
    <2>1. obj.finalizer
      BY <1>4 DEF Usable, ReleaseInv
    <2>2. Exists(obj)
      BY <2>1, LastVersion, NotFoundFields
    <2>3. Shown(obj) # "absent"
      BY <2>2 DEF Shown
    <2> QED
      BY <1>1, <1>4, <2>3 DEF Promised!Next, Promised!Provide
  <1>5. CASE ~Usable'
    <2>1. Shown(obj) = "ready" => ~(now < obj.expiresAt)
      BY <1>1, <1>5 DEF ReadyIsReal, Shown
    <2>2. now \in Nat /\ obj.expiresAt \in Nat
      BY DEF TypeOK, Object
    <2>3. Shown(obj) = "ready" => now >= obj.expiresAt
      BY <2>1, <2>2, SMT
    <2>4. Usable' = FALSE
      BY <1>2, <1>5
    <2> QED
      BY <1>1, <2>3, <2>4 DEF Promised!Next, Promised!Withdraw
  <1> QED
    BY <1>4, <1>5

\* A write that keeps incarnation and expiry reports a phase.
LEMMA LeaseReport ==
    ASSUME TypeOK', ReadyIsReal', Exists(obj), obj'.uid = obj.uid,
           obj'.expiresAt = obj.expiresAt,
           UNCHANGED <<now, ns, controls, release, handoff>>
    PROVE  Promised!Next
  <1>1. /\ Exists(obj)' /\ Incarnation' = Incarnation /\ Usable' = Usable
        /\ (obj.expiresAt)' = obj.expiresAt /\ now' = now
    BY DEF Exists, Incarnation, Usable
  <1>2. Shown(obj) # "absent" /\ Shown(obj)' \in {"pending", "ready", "ending"}
    BY <1>1 DEF Shown
  <1>3. now' \in Nat /\ obj'.expiresAt \in Nat
    BY DEF TypeOK, Object
  <1>4. ~(now' < obj'.expiresAt) => now' >= obj'.expiresAt
    BY <1>3, SMT
  <1>5. Shown(obj)' = "ready" => Usable' \/ now' >= obj'.expiresAt
    BY <1>4 DEF Shown, ReadyIsReal
  <1> QED
    BY <1>1, <1>2, <1>5 DEF Promised!Next, Promised!Report

\* An object that is let go has no virtual cluster left.
LEMMA LeaseRemove ==
    ASSUME ReleaseInv, Exists(obj), obj' = NotFound, ~release,
           UNCHANGED <<now, lastUid, ns, controls, release, handoff>>
    PROVE  Promised!Next
  <1>1. ~Exists(obj)' /\ (obj.expiresAt)' = 0
    BY NotFoundFields DEF Exists
  <1>2. /\ Incarnation' = Incarnation /\ Usable' = Usable /\ ~Usable /\ now' = now
    BY <1>1 DEF ReleaseInv, Incarnation, Usable
  <1>3. Shown(obj) # "absent" /\ Shown(obj)' = "absent"
    BY <1>1 DEF Shown
  <1> QED
    BY <1>1, <1>2, <1>3 DEF Promised!Next, Promised!Remove

\* Deleting removes an object without the finalizer, and marks one that has it.
LEMMA LeaseDelete ==
    ASSUME TypeOK', ReadyIsReal', ReleaseInv, NEW new \in Object, Deleted(new),
           UNCHANGED <<now, lastUid, ns, controls, release, handoff>>
    PROVE  Promised!Next
  <1>1. Exists(obj) /\ obj' = new
    BY DEF Deleted, Write
  <1>2. CASE new = NotFound /\ ~obj.finalizer
    BY <1>1, <1>2, LeaseRemove DEF ReleaseInv
  <1>3. CASE new.uid = obj.uid /\ new.expiresAt = obj.expiresAt
    BY <1>1, <1>3, LeaseReport
  <1> QED
    BY <1>2, <1>3 DEF Deleted

\* A renewal lets go of a Ready phase: no mark is newer than the object.
LEMMA LeaseRenew ==
    ASSUME TypeOK, ChainInv, MarkInv, RenewalInv, NEW c \in Callers, c \in current,
           renewal[c] # 0, NEW new \in Object, Renewed(new), new.expiresAt = renewal[c],
           UNCHANGED <<now, lastUid, ns, controls, release, handoff>>
    PROVE  Promised!Next
  <1>1. Exists(obj) /\ obj' = new /\ renewal[c] > obj.expiresAt
    BY DEF Renewed, Write, RenewalInv
  <1>2. /\ Exists(obj)' /\ Incarnation' = Incarnation /\ Usable' = Usable /\ now' = now
    BY <1>1 DEF Renewed, Exists, Incarnation, Usable
  <1>3. Marked(obj)
    BY MarkedObject
  <1>4. conditionTrue(obj, "Ready") => obj.conditions["Ready"].generation # obj.generation + 1
    <2>1. obj.generation \in Nat /\ obj.conditions["Ready"].generation \in Nat
      BY DEF TypeOK, Object, Condition, ConditionTypes
    <2> QED
      BY <1>3, <2>1, SMT DEF Marked
  <1>5. /\ obj'.deleting = obj.deleting /\ obj'.conditions = obj.conditions
        /\ obj'.generation = obj.generation + 1
    BY <1>1 DEF Renewed
  <1>6. \A t \in ConditionTypes : conditionTrue(obj', t) <=> conditionTrue(obj, t)
    BY <1>5 DEF conditionTrue
  <1>7. project(obj') = IF project(obj) = "Ready" THEN "Provisioning" ELSE project(obj)
    BY <1>4, <1>5, <1>6 DEF project, ConditionTypes
  <1>8. Shown(obj)' = IF Shown(obj) = "ready" THEN "pending" ELSE Shown(obj)
    BY <1>1, <1>2, <1>7 DEF Shown
  <1>9. Shown(obj) # "absent"
    BY <1>1 DEF Shown
  <1> QED
    BY <1>1, <1>2, <1>8, <1>9 DEF Promised!Next, Promised!Renew

\* Creating an object grants a lease to a new incarnation.
LEMMA LeaseGrant ==
    ASSUME TypeOK, NEW ttl \in TTLs, Create(ttl)
    PROVE  Promised!Next
  <1>1. /\ ~Exists(obj) /\ lastUid' = lastUid + 1
        /\ obj' = NewObject(lastUid + 1, now + ttl)
        /\ UNCHANGED <<now, ns, controls, release, handoff>>
    BY DEF Create, Write, host, virtual
  <1>2. ttl \in Nat \ {0} /\ now \in Nat /\ lastUid \in Nat
    BY ConstantsAssumption DEF TypeOK
  <1>3. now + ttl > now /\ lastUid + 1 # 0
    BY <1>2, SMT
  <1>4. /\ obj'.uid = lastUid + 1 /\ obj'.expiresAt = now + ttl /\ ~obj'.deleting
        /\ \A t \in ConditionTypes : obj'.conditions[t].status = "Unset"
    BY <1>1 DEF NewObject
  <1>5. project(obj') = "Provisioning"
    BY <1>4 DEF project, conditionTrue, ConditionTypes
  <1>6. /\ Shown(obj) = "absent" /\ Shown(obj)' = "pending"
        /\ Incarnation' = Incarnation + 1 /\ (obj.expiresAt)' > now
        /\ Usable' = Usable /\ now' = now
    BY <1>1, <1>3, <1>4, <1>5 DEF Shown, Incarnation, Exists, Usable
  <1> QED
    BY <1>6 DEF Promised!Next, Promised!Grant

\* Every step is a step of the contract, or none.
LEMMA LeaseStep ==
    ASSUME IndInv, IndInv', [Next]_vars
    PROVE  [Promised!Next]_(Promised!leaseVars)
  <1>0. /\ TypeOK /\ ChainInv /\ RenewalInv /\ FinalizerInv /\ WorkInv /\ MarkInv
        /\ ReleaseInv /\ TypeOK' /\ ChainInv' /\ ReleaseInv'
    BY DEF IndInv
  <1>1. ReadyIsReal'
    BY DEF IndInv, ReadyInv, ReadyIsReal, Live, ReadyNow, project
  <1>2. CASE UNCHANGED <<now, obj, lastUid>>
    BY <1>0, <1>1, <1>2, LeaseHost
  <1>3. CASE Tick
    <2>1. now' = now + 1 /\ UNCHANGED <<obj, lastUid, ns, controls, release, handoff>>
      BY <1>3 DEF Tick, server, service, host, virtual
    <2>2. /\ Shown(obj)' = Shown(obj) /\ Incarnation' = Incarnation
          /\ (obj.expiresAt)' = obj.expiresAt /\ Usable' = Usable
      BY <2>1 DEF Shown, Incarnation, Exists, project, conditionTrue, Usable
    <2> QED
      BY <2>1, <2>2 DEF Promised!Next, Promised!Tick
  <1>4. CASE \/ (Outside /\ ~Tick) \/ Local \/ Reconcile \/ WatchObject \/ Restart
    <2>1. UNCHANGED <<obj, lastUid>>
      BY <1>0, <1>4, OutsideEffect, LocalEffect, ReconcileEffect
      DEF Still, WatchObject, Restart, service
    <2>2. now' = now
      BY <1>0, <1>4, LocalEffect, ReconcileEffect
      DEF Outside, WatchNamespace, WatchEvidence, NamespaceGone, CollectNamespace,
          PublishEvidence, RenewRead, vars, WatchObject, Restart
    <2> QED
      BY <1>2, <2>1, <2>2
  <1>5. CASE ReportStatus \/ Fail \/ Forget
    <2>1. /\ UNCHANGED <<now, lastUid, ns, controls, release, handoff>>
          /\ obj' = obj \/ (Exists(obj) /\ SameMeta(obj, obj'))
      BY <1>0, <1>5, ReportEffect DEF StatusEffect, Write
    <2> QED
      BY <1>0, <1>1, <1>2, <2>1, LeaseReport DEF SameMeta
  <1>6. CASE MarkExpiring
    <2>1. UNCHANGED <<now, lastUid, ns, controls, release, handoff>>
      BY <1>0, <1>6, MarkExpiringEffect
    <2>2. obj' = obj \/ (Exists(obj) /\ SameMeta(obj, obj'))
      BY <1>0, <1>6, MarkExpiringEffect DEF Write
    <2> QED
      BY <1>0, <1>1, <1>2, <2>1, <2>2, LeaseReport DEF SameMeta
  <1>7. CASE \E ttl \in TTLs : Create(ttl)
    BY <1>0, <1>7, LeaseGrant
  <1>8. CASE \E c \in Callers : RenewWrite(c)
    <2>1. PICK c \in Callers : RenewWrite(c)
      BY <1>8
    <2>2. UNCHANGED <<now, lastUid, ns, controls, release, handoff>>
      BY <1>0, <2>1, RenewEffect
    <2>3. CASE obj' = obj
      BY <1>2, <2>2, <2>3
    <2>4. CASE obj' # obj
      <3>1. c \in current /\ renewal[c] # 0
        BY <2>1, <2>4 DEF RenewWrite, server
      <3>2. PICK new \in Object : Renewed(new) /\ new.expiresAt = renewal[c]
        BY <1>0, <2>1, <2>4, RenewEffect
      <3> QED
        BY <1>0, <2>2, <3>1, <3>2, LeaseRenew
    <2> QED
      BY <2>3, <2>4
  <1>9. CASE Delete \/ ReapTombstone
    <2>1. /\ UNCHANGED <<now, lastUid, ns, controls, release, handoff>>
          /\ obj' = obj \/ \E new \in Object : Deleted(new)
      BY <1>0, <1>9, DeleteEffect, ReapEffect
    <2> QED
      BY <1>0, <1>1, <1>2, <2>1, LeaseDelete
  <1>10. CASE AddFinalizer
    <2>1. /\ UNCHANGED <<now, lastUid, ns, controls, release, handoff>>
          /\ \/ obj' = obj
             \/ /\ "work" \in current /\ obj'.uid = obj.uid
                /\ obj'.expiresAt = obj.expiresAt
      BY <1>0, <1>10, FinalizerEffect DEF Finalized, Write
    <2>2. "work" \in current => Exists(obj)
      BY <1>0, <1>10 DEF AddFinalizer, WorkInv, Exists
    <2> QED
      BY <1>0, <1>1, <1>2, <2>1, <2>2, LeaseReport
  <1>11. CASE RemoveFinalizer
    <2>1. /\ UNCHANGED <<now, lastUid, ns, controls, release, handoff>>
          /\ pc = "removeFinalizer"
          /\ obj' = obj \/ ("work" \in current /\ obj' = NotFound)
      BY <1>0, <1>11, ReleaseEffect DEF Write
    <2>2. "work" \in current => Exists(obj)
      BY <1>0, <2>1 DEF WorkInv, Exists
    <2>3. ~release
      BY <1>0, <2>1 DEF ReleaseInv
    <2> QED
      BY <1>0, <1>2, <2>1, <2>2, <2>3, LeaseRemove
  <1> QED
    BY <1>3, <1>4, <1>5, <1>6, <1>7, <1>8, <1>9, <1>10, <1>11, StepKinds

\* The lifecycle of a name, with its stale caches, conflicts and restarts, keeps
\* the contract of a lease, for every lag, number of callers and failures.
THEOREM LeaseKept == Spec => KeepsLease
  <1>1. Init => Promised!Init
    <2> SUFFICES ASSUME Init PROVE Promised!Init
      OBVIOUS
    <2>1. /\ now = 0 /\ obj = NotFound /\ lastUid = 0 /\ release = FALSE
      BY DEF Init
    <2>2. ~Exists(obj) /\ obj.expiresAt = 0
      BY <2>1, NotFoundFields DEF Exists, NotFound, NewObject
    <2>3. Shown(obj) = "absent" /\ Incarnation = 0 /\ Usable = FALSE
      BY <2>1, <2>2 DEF Shown, Incarnation, Usable
    <2> QED
      BY <2>1, <2>2, <2>3 DEF Promised!Init
  <1>2. IndInv /\ IndInv' /\ [Next]_vars => [Promised!Next]_(Promised!leaseVars)
    BY LeaseStep
  <1> QED
    BY <1>1, <1>2, Inductive, PTL DEF Spec, KeepsLease, Promised!Spec

---------------------------------------------------------------------------
(* Evidence that was listed is not lost.                                   *)

\* Steps that leave the evidence alone keep its invariant, unless they begin
\* the end of the namespace or go past the export.
LEMMA EvidenceStill ==
    ASSUME EvidenceInv, UNCHANGED evidence,
           ns' = "terminating" => ns = "terminating" \/ pc = "deleteNamespace",
           pc' \in {"uninstall", "deleteNamespace"} => pc \in {"uninstall", "deleteNamespace"}
    PROVE  EvidenceInv'
  <1>1. EvidenceRead' = EvidenceRead
    BY DEF EvidenceRead, evidence
  <1> QED
    BY <1>1 DEF EvidenceInv, ListedEvidenceKept, evidence

\* Every step keeps the listed evidence.
LEMMA EvidenceStep ==
    ASSUME "namespace" \notin Lagging, IndInv, HostInv, EvidenceInv, [Next]_vars
    PROVE  EvidenceInv'
  <1>0. TypeOK
    BY DEF IndInv
  <1>1. CASE Tick \/ WatchNamespace \/ UNCHANGED vars \/ WatchObject
    BY <1>1, EvidenceStill
    DEF Tick, WatchNamespace, WatchObject, vars, controller, host, evidence
  <1>2. CASE \/ \E c \in Callers, ttl \in TTLs : RenewRead(c, ttl)
             \/ \E ttl \in TTLs : Create(ttl)
             \/ \E c \in Callers : RenewWrite(c)
             \/ Delete
    <2>1. UNCHANGED <<evidence, host, pc>>
      <3>1. CASE \E c \in Callers, ttl \in TTLs : RenewRead(c, ttl)
        BY <3>1 DEF RenewRead, controller
      <3>2. CASE \E ttl \in TTLs : Create(ttl)
        BY <3>2 DEF Create, controller
      <3>3. CASE \E c \in Callers : RenewWrite(c)
        BY <3>3 DEF RenewWrite, controller
      <3>4. CASE Delete
        BY <3>4 DEF Delete, controller
      <3> QED
        BY <1>2, <3>1, <3>2, <3>3, <3>4
    <2> QED
      BY <2>1, EvidenceStill DEF host
  <1>3. CASE \/ ReportStatus \/ Fail \/ Forget \/ ReapTombstone \/ AddFinalizer
             \/ RemoveFinalizer \/ CallFails \/ UninstallFails
    <2>1. UNCHANGED <<evidence, host>> /\ pc' = "idle"
      <3>1. CASE ReportStatus
        BY <3>1 DEF ReportStatus, Return
      <3>2. CASE Fail
        BY <3>2 DEF Fail, Return
      <3>3. CASE Forget
        BY <3>3 DEF Forget, Return
      <3>4. CASE ReapTombstone
        BY <3>4 DEF ReapTombstone, Return
      <3>5. CASE AddFinalizer
        BY <3>5 DEF AddFinalizer, Return
      <3>6. CASE RemoveFinalizer
        BY <3>6 DEF RemoveFinalizer, Return
      <3>7. CASE CallFails
        BY <3>7 DEF CallFails, Return
      <3>8. CASE UninstallFails
        BY <3>8 DEF UninstallFails, Return
      <3> QED
        BY <1>3, <3>1, <3>2, <3>3, <3>4, <3>5, <3>6, <3>7, <3>8
    <2> QED
      BY <2>1, EvidenceStill DEF host
  <1>4. CASE MarkExpiring \/ ReportFault
    <2>1. UNCHANGED <<evidence, host>> /\ pc' \in {"idle", "export", "fail"}
      <3>1. CASE MarkExpiring
        BY <3>1 DEF MarkExpiring, Return, Goto
      <3>2. CASE ReportFault
        <4>1. UNCHANGED <<evidence, host>>
          BY <3>2 DEF ReportFault
        <4>2. Goto("fail") \/ Return(TRUE)
          BY <3>2 DEF ReportFault
        <4> QED
          BY <4>1, <4>2 DEF Return, Goto
      <3> QED
        BY <1>4, <3>1, <3>2
    <2> QED
      BY <2>1, EvidenceStill DEF host
  <1>5. CASE Reconcile
    <2>1. UNCHANGED <<evidence, host>> /\ pc' \notin {"uninstall", "deleteNamespace"}
      BY <1>5 DEF Reconcile, Route
    <2> QED
      BY <2>1, EvidenceStill DEF host
  <1>6. CASE \/ EnsureNamespace \/ NamespaceRefused \/ EnsureControl \/ ControlRefused
             \/ BoundaryFault \/ EnsureVCluster \/ EnsureFails \/ AskReady
    <2>1. UNCHANGED evidence /\ pc' \in Provisioning /\ ns' \in {ns, "active"}
      <3>1. CASE EnsureNamespace
        BY <3>1 DEF EnsureNamespace, Goto, Provisioning
      <3>2. CASE NamespaceRefused \/ ControlRefused
        BY <3>2 DEF NamespaceRefused, ControlRefused, Goto, Provisioning, host
      <3>3. CASE EnsureControl
        BY <3>3 DEF EnsureControl, Goto, Provisioning
      <3>4. CASE BoundaryFault \/ AskReady
        BY <3>4 DEF BoundaryFault, AskReady, Goto, Provisioning, host
      <3>5. CASE EnsureVCluster
        BY <3>5 DEF EnsureVCluster, Goto, Provisioning, host
      <3>6. CASE EnsureFails
        BY <3>6 DEF EnsureFails, Goto, Provisioning, host
      <3> QED
        BY <1>6, <3>1, <3>2, <3>3, <3>4, <3>5, <3>6
    <2> QED
      BY <2>1, EvidenceStill DEF Provisioning
  <1>7. CASE Uninstall \/ deleteNamespace
    <2>1. /\ UNCHANGED evidence /\ pc \in {"uninstall", "deleteNamespace"}
          /\ ns' = "terminating" => ns = "terminating" \/ pc = "deleteNamespace"
      <3>1. CASE Uninstall
        BY <3>1 DEF Uninstall, host
      <3>2. CASE deleteNamespace
        BY <3>2 DEF deleteNamespace
      <3> QED
        BY <1>7, <3>1, <3>2
    <2> QED
      BY <2>1, EvidenceStill
  <1>8. CASE CollectNamespace
    BY <1>8 DEF CollectNamespace, HostInv
  <1>9. CASE NamespaceGone
    <2>1. /\ pending' = {} /\ lost' = lost \cup (pending \ exported)
          /\ ns = "terminating" /\ UNCHANGED <<listed, exported>>
      BY <1>9 DEF NamespaceGone
    <2> QED
      BY <2>1 DEF EvidenceInv, ListedEvidenceKept
  <1>10. ASSUME NEW b \in Bundles, PublishEvidence(b)
         PROVE  EvidenceInv'
    <2> DEFINE run == <<b, nsOwner>>
    <2>1. run \notin pending \cup exported \cup lost
      BY <1>10 DEF PublishEvidence
    <2>2. run \notin listed
      BY <2>1 DEF EvidenceInv
    <2>3. /\ pending' = pending \cup {run} /\ UNCHANGED <<ns, pc, listed, exported, lost>>
          /\ EvidenceRead \subseteq EvidenceRead'
      BY <1>10 DEF PublishEvidence, controller, host, EvidenceRead
    <2> HIDE DEF run
    <2> QED
      BY <2>1, <2>2, <2>3 DEF EvidenceInv, ListedEvidenceKept
  <1>11. CASE WatchEvidence
    <2>1. EvidenceRead' = pending /\ UNCHANGED <<pending, listed, exported, lost, ns, pc>>
      BY <1>11 DEF WatchEvidence, EvidenceRead, controller, host
    <2> QED
      BY <2>1 DEF EvidenceInv, ListedEvidenceKept
  <1>12. CASE Restart
    <2>1. /\ EvidenceRead' \in {EvidenceRead, pending} /\ pc' = "idle"
          /\ UNCHANGED <<pending, listed, exported, lost, ns>>
      BY <1>12 DEF Restart, EvidenceRead
    <2> QED
      BY <2>1 DEF EvidenceInv, ListedEvidenceKept
  <1>13. ASSUME Listing, UNCHANGED <<pending, pendingSeen, lost, ns>>,
                exported \subseteq exported'
         PROVE  /\ listed' \subseteq pending' \cup exported' \cup lost'
                /\ pending' \cap lost' = {}
                /\ listed' \cap pending' \subseteq EvidenceRead'
                /\ ns' = "terminating" => listed' \cap pending' \subseteq exported'
                /\ ListedEvidenceKept'
    <2>1. EvidenceRead' = EvidenceRead
      BY <1>13 DEF EvidenceRead
    <2>2. CASE ns = "active"
      BY <1>13, <2>1, <2>2 DEF Listing, EvidenceInv, ListedEvidenceKept
    <2>3. CASE ns # "active"
      BY <1>13, <2>1, <2>3 DEF Listing, EvidenceInv, ListedEvidenceKept
    <2> QED
      BY <2>2, <2>3
  <1>14. ExportAll \/ ExportStopsEarly => Listing /\ exported \subseteq exported'
    BY DEF ExportAll, ExportStopsEarly
  <1>15. CASE ExportWhileLive
    <2>1. /\ UNCHANGED <<pending, pendingSeen, lost, ns>> /\ pc' \in {"ensure", "fail"}
          /\ ExportAll \/ ExportStopsEarly
      BY <1>15 DEF ExportWhileLive, Goto, host
    <2> QED
      BY <1>13, <1>14, <2>1 DEF EvidenceInv
  <1>16. CASE ExportBeforeTeardown
    <2>1. UNCHANGED <<pending, pendingSeen, lost, ns>>
      BY <1>16 DEF ExportBeforeTeardown, host
    <2>2. CASE ExportStopsEarly /\ Return(TRUE)
      BY <1>13, <1>14, <2>1, <2>2 DEF EvidenceInv, Return
    <2>3. CASE ExportAll
      <3>1. listed' \cap pending' \subseteq exported'
        <4>1. listed' \cap pending' \subseteq EvidenceRead
          BY <2>1, <2>3 DEF ExportAll, Listing, EvidenceInv
        <4> QED
          BY <2>3, <4>1 DEF ExportAll
      <3> QED
        BY <1>13, <1>14, <2>1, <2>3, <3>1 DEF EvidenceInv
    <2> QED
      BY <1>16, <2>2, <2>3 DEF ExportBeforeTeardown
  <1> QED
    BY <1>1, <1>2, <1>3, <1>4, <1>5, <1>6, <1>7, <1>8, <1>9, <1>10, <1>11, <1>12, <1>15, <1>16,
       StepKinds, ZenonT(30) DEF Outside, Local

\* With an up-to-date view of the namespace no listed run goes with it, however
\* far the view of the evidence is behind.
THEOREM EvidenceKept ==
    ASSUME "namespace" \notin Lagging
    PROVE  Spec => []ListedEvidenceKept
  <1>1. Init => HostInv /\ EvidenceInv
    BY DEF Init, HostInv, EvidenceInv, ListedEvidenceKept
  <1>2. IndInv /\ HostInv /\ [Next]_vars => HostInv'
    BY HostStep
  <1>3. IndInv /\ HostInv /\ EvidenceInv /\ [Next]_vars => EvidenceInv'
    BY EvidenceStep
  <1>4. EvidenceInv => ListedEvidenceKept
    BY DEF EvidenceInv
  <1> QED
    BY <1>1, <1>2, <1>3, <1>4, Inductive, PTL DEF Spec

=============================================================================

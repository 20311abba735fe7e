-------------------------- MODULE OublietteProofs --------------------------
(* The types of the lifecycle model: every value the code stores in the    *)
(* root object, its cache and its watch stays of its kind, and a tombstone *)
(* stays terminal.  Then what each step does, in the terms of the          *)
(* invariants, and the parts of the lifecycle's inductive invariant about  *)
(* the versions between cache and server, renewals, the finalizer and what *)
(* the reconcile knows: every step keeps them.                             *)
EXTENDS OublietteInvariants, TLAPS

\* Most steps are first-order reasoning; a step that needs arithmetic cites SMT.
USE Zenon

Reasons == {"ReleaseInstalled", "VirtualHandoffReady", "VirtualHandoffStarting",
            "Failed", "TTLExpired", "Forgotten", "MetricsReady", "MetricsNotReady",
            "TTLTeardownComplete"}

\* What Create sends is an object.
LEMMA NewObjectType ==
    ASSUME NEW uid \in Nat, NEW e \in Nat
    PROVE  NewObject(uid, e) \in Object
  BY DEF NewObject, Object, Condition

\* So is the marker for an object that is not there.
LEMMA NotFoundType == NotFound \in Object
  BY NewObjectType DEF NotFound

\* Status().Patch leaves an object.
LEMMA MergePatchType ==
    ASSUME NEW o \in Object, NEW b \in Object, NEW n \in Object
    PROVE  MergePatch(o, b, n) \in Object
  BY ZenonT(30) DEF MergePatch, Object

\* So does a deletion, with or without a finalizer.
LEMMA MarkDeletedType ==
    ASSUME NEW o \in Object
    PROVE  MarkDeleted(o) \in Object
  <1>1. o.generation + 1 \in Nat
    BY SMT DEF Object
  <1>2. [o EXCEPT !.deleting = TRUE, !.generation = o.generation + 1] \in Object
    BY <1>1 DEF Object
  <1> QED
    BY <1>2, NotFoundType DEF MarkDeleted

\* SetStatusCondition keeps the types, for every reason the code gives.
LEMMA SetType ==
    ASSUME NEW o \in Object, NEW t \in ConditionTypes,
           NEW s \in {"True", "False"}, NEW r \in Reasons
    PROVE  SetStatusCondition(o, t, s, r) \in Object
  BY DEF SetStatusCondition, Object, Condition, Reasons

\* The status Reconcile composes is of the right kind.
LEMMA ComposedType ==
    ASSUME NEW o \in Object, NEW ready \in BOOLEAN
    PROVE  Composed(o, ready) \in Object
  <1> DEFINE seen == [o EXCEPT !.observedGeneration = o.generation, !.virtualEndpoint = TRUE]
             installed == SetStatusCondition(seen, "Provisioned", "True", "ReleaseInstalled")
  <1>1. seen \in Object
    BY DEF Object
  <1> HIDE DEF seen
  <1>2. installed \in Object
    BY <1>1, SetType DEF ConditionTypes, Reasons
  <1> HIDE DEF installed
  <1>3. /\ SetStatusCondition(installed, "Ready", "True", "VirtualHandoffReady") \in Object
        /\ SetStatusCondition(installed, "Ready", "False", "VirtualHandoffStarting") \in Object
    BY <1>2, SetType DEF ConditionTypes, Reasons
  <1> QED
    BY <1>3 DEF Composed, installed, seen

\* So is what projectMetricsStatus adds.
LEMMA MetricsType ==
    ASSUME NEW o \in Object, NEW metrics \in BOOLEAN
    PROVE  projectMetricsStatus(o, metrics) \in Object
  BY SetType DEF projectMetricsStatus, ConditionTypes, Reasons

\* So is the tombstone finalize writes.
LEMMA TombstoneType ==
    ASSUME NEW o \in Object, startNow \in Nat
    PROVE  Tombstone(o) \in Object
  <1> DEFINE cleared == [o EXCEPT !.forgottenAt = startNow, !.virtualEndpoint = FALSE]
             unready == SetStatusCondition(cleared, "Ready", "False", "Forgotten")
             revoked == SetStatusCondition(unready, "MetricsReady", "False", "Forgotten")
  <1>1. cleared \in Object
    BY DEF Object
  <1> HIDE DEF cleared
  <1>2. unready \in Object
    BY <1>1, SetType DEF ConditionTypes, Reasons
  <1> HIDE DEF unready
  <1>3. revoked \in Object
    BY <1>2, SetType DEF ConditionTypes, Reasons
  <1> HIDE DEF revoked
  <1>4. SetStatusCondition(revoked, "Forgotten", "True", "TTLTeardownComplete") \in Object
    BY <1>3, SetType DEF ConditionTypes, Reasons
  <1> QED
    BY <1>4 DEF Tombstone, revoked, unready, cleared

\* A write at the API server keeps the types of all that it touches.
LEMMA WriteType ==
    ASSUME TypeOK, NEW new \in Object, NEW holders \in SUBSET ({"work"} \cup Callers),
           Write(new, holders)
    PROVE  /\ obj' \in Object
           /\ current' \subseteq {"work"} \cup Callers
           /\ feed' \in Seq(Object)
  <1>1. obj \in Object /\ feed \in Seq(Object)
    BY DEF TypeOK
  <1>2. Append(feed, new) \in Seq(Object)
    BY <1>1, SMT
  <1> QED
    BY <1>1, <1>2 DEF TypeOK, Write

\* A status patch does, whether or not the object is still there.
LEMMA PatchStatusType ==
    ASSUME TypeOK, NEW base \in Object, NEW new \in Object,
           NEW holders \in SUBSET ({"work"} \cup Callers),
           PatchStatus(base, new, holders)
    PROVE  /\ obj' \in Object
           /\ current' \subseteq {"work"} \cup Callers
           /\ feed' \in Seq(Object)
  <1>1. obj \in Object
    BY DEF TypeOK
  <1>2. MergePatch(obj, base, new) \in Object
    BY <1>1, MergePatchType
  <1>3. CASE Exists(obj)
    BY <1>2, <1>3, WriteType DEF PatchStatus
  <1>4. CASE ~Exists(obj)
    BY <1>4 DEF PatchStatus, server, TypeOK
  <1> QED
    BY <1>3, <1>4

\* Reconcile goes on to one of its labels.
LEMMA RouteType == Route(cache) \in Labels
  BY DEF Route, Labels

\* A reconcile that returns leaves its variables in their types.
LEMMA ReturnType ==
    ASSUME TypeOK, NEW r \in BOOLEAN, Return(r)
    PROVE  /\ pc' \in Labels /\ queued' \in BOOLEAN /\ work' \in Object
           /\ startNow' \in Nat /\ expired' \in BOOLEAN
  BY NotFoundType DEF TypeOK, Return, Labels

\* The budget of faults is kept.
LEMMA FaultType ==
    ASSUME TypeOK, faults < MaxFaults, faults' = faults + 1
    PROVE  faults' \in 0..MaxFaults
  BY ConstantsAssumption, SMT DEF TypeOK

\* Every step of the model keeps the types.
LEMMA TypeStep ==
    ASSUME TypeOK, [Next]_vars
    PROVE  TypeOK'
  <1> USE ConstantsAssumption
  <1>1. CASE Tick
    BY <1>1, SMT DEF TypeOK, Tick, server, service, controller, host, virtual, evidence
  <1>2. ASSUME NEW ttl \in TTLs, Create(ttl)
        PROVE  TypeOK'
    <2>1. /\ lastUid + 1 \in Nat
          /\ now + ttl \in Nat
      BY SMT DEF TypeOK
    <2>2. NewObject(lastUid + 1, now + ttl) \in Object
      BY <2>1, NewObjectType
    <2>3. /\ obj' \in Object
          /\ current' \subseteq {"work"} \cup Callers
          /\ feed' \in Seq(Object)
      BY <1>2, <2>2, WriteType, SMT DEF Create
    <2> QED
      BY <1>2, <2>1, <2>3 DEF TypeOK, Create, controller, host, virtual, evidence
  <1>3. ASSUME NEW c \in Callers, NEW ttl \in TTLs, RenewRead(c, ttl)
        PROVE  TypeOK'
    <2>1. now + ttl \in Nat
      BY SMT DEF TypeOK
    <2>2. renewal' \in [Callers -> Nat]
      BY <1>3, <2>1 DEF TypeOK, RenewRead
    <2>3. current' \subseteq {"work"} \cup Callers
      BY <1>3 DEF TypeOK, RenewRead
    <2> QED
      BY <1>3, <2>2, <2>3 DEF TypeOK, RenewRead, controller, host, virtual, evidence
  <1>4. ASSUME NEW c \in Callers, RenewWrite(c)
        PROVE  TypeOK'
    <2>1. renewal[c] \in Nat /\ obj.generation + 1 \in Nat
      <3>1. renewal[c] \in Nat /\ obj \in Object
        BY DEF TypeOK
      <3>2. obj.generation \in Nat
        BY <3>1 DEF Object
      <3> QED
        BY <3>1, <3>2, SMT
    <2>2. [obj EXCEPT !.expiresAt = renewal[c], !.generation = obj.generation + 1] \in Object
      BY <2>1 DEF TypeOK, Object
    <2>3. /\ obj' \in Object
          /\ current' \subseteq {"work"} \cup Callers
          /\ feed' \in Seq(Object)
      <3>1. CASE c \in current
        BY <1>4, <2>2, <3>1, WriteType, SMT DEF RenewWrite
      <3>2. CASE c \notin current
        BY <1>4, <3>2 DEF RenewWrite, server, TypeOK
      <3> QED
        BY <3>1, <3>2
    <2> QED
      BY <1>4, <2>3 DEF TypeOK, RenewWrite, controller, host, virtual, evidence
  <1>5. CASE Delete
    <2>1. obj \in Object
      BY DEF TypeOK
    <2>2. /\ obj' \in Object
          /\ current' \subseteq {"work"} \cup Callers
          /\ feed' \in Seq(Object)
      BY <1>5, <2>1, MarkDeletedType, WriteType DEF Delete
    <2> QED
      BY <1>5, <2>2 DEF TypeOK, Delete, service, controller, host, virtual, evidence
  <1>6. CASE Reconcile
    BY <1>6, RouteType, NotFoundType DEF TypeOK, Reconcile, service, host, virtual, evidence
  <1>7. CASE ReapTombstone
    <2>1. obj \in Object
      BY DEF TypeOK
    <2>2. /\ obj' \in Object
          /\ current' \subseteq {"work"} \cup Callers
          /\ feed' \in Seq(Object)
      <3>1. CASE Exists(obj)
        BY <1>7, <2>1, <3>1, MarkDeletedType, WriteType DEF ReapTombstone
      <3>2. CASE ~Exists(obj)
        BY <1>7, <3>2 DEF ReapTombstone, server, TypeOK
      <3> QED
        BY <3>1, <3>2
    <2> QED
      BY <1>7, <2>2, NotFoundType
      DEF TypeOK, ReapTombstone, Return, Labels, service, host, virtual, evidence
  <1>8. CASE AddFinalizer
    <2>1. [obj EXCEPT !.finalizer = TRUE] \in Object
      BY DEF TypeOK, Object
    <2>2. /\ obj' \in Object
          /\ current' \subseteq {"work"} \cup Callers
          /\ feed' \in Seq(Object)
      <3>1. CASE "work" \in current
        BY <1>8, <2>1, <3>1, WriteType DEF AddFinalizer
      <3>2. CASE "work" \notin current
        BY <1>8, <3>2 DEF AddFinalizer, server, TypeOK
      <3> QED
        BY <3>1, <3>2
    <2> QED
      BY <1>8, <2>2, NotFoundType
      DEF TypeOK, AddFinalizer, Return, Labels, service, host, virtual, evidence
  <1>9. CASE EnsureNamespace
    <2>1. work.uid \in Nat /\ nsOwner \in Nat
      BY DEF TypeOK, Object
    <2>2. nsOwner' \in Nat /\ ns' \in {"absent", "active", "terminating"}
      BY <1>9, <2>1 DEF EnsureNamespace, TypeOK
    <2> QED
      BY <1>9, <2>2
      DEF TypeOK, EnsureNamespace, Goto, Labels, service, server, virtual, evidence
  <1>10. CASE EnsureControl
    <2>1. controls' \in 0..NumControls
      BY <1>10, ConstantsAssumption, SMT DEF TypeOK, EnsureControl
    <2>2. pc' \in Labels
      BY <1>10 DEF TypeOK, EnsureControl, Goto, Labels
    <2>3. UNCHANGED <<queued, startNow, expired>>
      BY <1>10 DEF EnsureControl, Goto
    <2> QED
      BY <1>10, <2>1, <2>2, <2>3 DEF TypeOK, EnsureControl, service, server, virtual, evidence
  <1>10a. CASE NamespaceRefused \/ ControlRefused \/ AskReady
    BY <1>10a, ZenonT(30) DEF TypeOK, NamespaceRefused, ControlRefused, AskReady, Goto, Labels,
       service, server, host, virtual, evidence
  <1>11. CASE ExportWhileLive
    BY <1>11, SMT DEF TypeOK, ExportWhileLive, ExportAll, ExportStopsEarly, Listing, EvidenceRead,
       Rejected, Goto, Labels, service, server, host, virtual
  <1>12. CASE EnsureVCluster
    BY <1>12 DEF TypeOK, EnsureVCluster, Goto, Labels, service, server, host, evidence
  <1>13. CASE EnsureFails
    <2>1. faults' \in 0..MaxFaults
      BY <1>13, FaultType DEF EnsureFails, TypeOK
    <2>2. release' \in BOOLEAN /\ handoff' \in BOOLEAN
      BY <1>13 DEF EnsureFails, TypeOK, virtual
    <2> QED
      BY <1>13, <2>1, <2>2 DEF TypeOK, EnsureFails, Goto, Labels, service, server, host, evidence
  <1>14. CASE ReportStatus
    <2> DEFINE ready == pc = "reportReady"
    <2>1. PICK metrics \in {FALSE, ready /\ MetricsEnabled} :
             PatchStatus(work, projectMetricsStatus(Composed(work, ready), metrics), {})
      BY <1>14 DEF ReportStatus
    <2>2. ready \in BOOLEAN /\ metrics \in BOOLEAN
      OBVIOUS
    <2> HIDE DEF ready
    <2>3. projectMetricsStatus(Composed(work, ready), metrics) \in Object
      BY <2>2, ComposedType, MetricsType DEF TypeOK
    <2>4. /\ obj' \in Object
          /\ current' \subseteq {"work"} \cup Callers
          /\ feed' \in Seq(Object)
      BY <2>1, <2>3, PatchStatusType DEF TypeOK
    <2> QED
      BY <1>14, <2>4, NotFoundType
      DEF TypeOK, ReportStatus, Return, Labels, service, host, virtual, evidence
  <1>15. CASE Fail
    <2> DEFINE failed == SetStatusCondition(work, "Ready", "False", "Failed")
    <2>1. failed \in Object /\ work \in Object
      BY SetType DEF TypeOK, ConditionTypes, Reasons
    <2>2. [obj EXCEPT !.conditions = failed.conditions] \in Object
      BY <2>1 DEF TypeOK, Object
    <2>3. /\ obj' \in Object
          /\ current' \subseteq {"work"} \cup Callers
          /\ feed' \in Seq(Object)
      <3>1. CASE PatchStatus(work, failed, {})
        BY <2>1, <3>1, PatchStatusType, SMT
      <3>2. CASE Write([obj EXCEPT !.conditions = failed.conditions], {})
        BY <2>2, <3>2, WriteType, SMT
      <3> QED
        BY <1>15, <3>1, <3>2 DEF Fail
    <2> QED
      BY <1>15, <2>3, NotFoundType
      DEF TypeOK, Fail, Return, Labels, service, host, virtual, evidence
  <1>16. CASE MarkExpiring
    <2> DEFINE expiring == SetStatusCondition(work, "Expiring", "True", "TTLExpired")
    <2>1. expiring \in Object /\ work \in Object /\ obj \in Object
      BY SetType DEF TypeOK, ConditionTypes, Reasons
    <2>2. MergePatch(obj, work, expiring) \in Object
      BY <2>1, MergePatchType
    <2>3. CASE /\ Write(MergePatch(obj, work, expiring), {"work"})
               /\ work' = MergePatch(obj, work, expiring)
               /\ Goto("export")
               /\ UNCHANGED faults
      <3>1. /\ obj' \in Object
            /\ current' \subseteq {"work"} \cup Callers
           /\ feed' \in Seq(Object)
        BY <2>2, <2>3, WriteType
      <3> HIDE DEF expiring
      <3> QED
        BY <1>16, <2>2, <2>3, <3>1
        DEF TypeOK, MarkExpiring, Goto, Labels, service, host, virtual, evidence
    <2>4. CASE /\ faults < MaxFaults /\ faults' = faults + 1
               /\ work' = expiring
               /\ UNCHANGED server
               /\ Goto("export")
      <3> HIDE DEF expiring
      <3> QED
        BY <1>16, <2>1, <2>4, SMT
        DEF TypeOK, MarkExpiring, Goto, Labels, server, service, host, virtual, evidence
    <2>5. CASE UNCHANGED <<server, faults>> /\ Return(TRUE)
      BY <1>16, <2>5, NotFoundType
      DEF TypeOK, MarkExpiring, Return, Labels, server, service, host, virtual, evidence
    <2> QED
      BY <1>16, <2>3, <2>4, <2>5 DEF MarkExpiring
  <1>17. CASE ExportBeforeTeardown
    <2>1. /\ listed' \subseteq Runs /\ exported' \subseteq Runs /\ faults' \in 0..MaxFaults
      BY <1>17, FaultType
      DEF TypeOK, ExportBeforeTeardown, ExportAll, ExportStopsEarly, Listing, EvidenceRead
    <2>2. CASE Goto("uninstall") /\ UNCHANGED work
      BY <1>17, <2>1, <2>2
      DEF TypeOK, ExportBeforeTeardown, Goto, Labels, service, server, host, virtual
    <2>3. CASE Return(TRUE)
      BY <1>17, <2>1, <2>3, ReturnType
      DEF TypeOK, ExportBeforeTeardown, service, server, host, virtual
    <2> QED
      BY <1>17, <2>2, <2>3 DEF ExportBeforeTeardown
  <1>18. CASE Uninstall
    BY <1>18 DEF TypeOK, Uninstall, Goto, Labels, service, server, host, evidence
  <1>19. CASE deleteNamespace
    <2>1. CASE Goto(IF expired THEN "forget" ELSE "removeFinalizer") /\ UNCHANGED <<ns, work>>
      BY <1>19, <2>1
      DEF TypeOK, deleteNamespace, Goto, Labels, service, server, virtual, evidence
    <2>2. CASE /\ ns' = IF NamespaceRead = "active" /\ ns = "active" THEN "terminating" ELSE ns
               /\ Return(TRUE)
      BY <1>19, <2>2, ReturnType
      DEF TypeOK, deleteNamespace, service, server, virtual, evidence
    <2> QED
      BY <1>19, <2>1, <2>2 DEF deleteNamespace
  <1>20. CASE Forget
    <2>1. Tombstone(work) \in Object /\ work \in Object
      BY TombstoneType DEF TypeOK
    <2>2. /\ obj' \in Object
          /\ current' \subseteq {"work"} \cup Callers
          /\ feed' \in Seq(Object)
      BY <1>20, <2>1, PatchStatusType DEF Forget
    <2> QED
      BY <1>20, <2>2, NotFoundType
      DEF TypeOK, Forget, Return, Labels, service, host, virtual, evidence
  <1>21. CASE RemoveFinalizer
    <2>1. /\ obj' \in Object
          /\ current' \subseteq {"work"} \cup Callers
          /\ feed' \in Seq(Object)
      <3>1. CASE Write(NotFound, {})
        BY <3>1, NotFoundType, WriteType
      <3>2. CASE UNCHANGED server
        BY <3>2 DEF server, TypeOK
      <3> QED
        BY <1>21, <3>1, <3>2 DEF RemoveFinalizer
    <2>2. \E r \in BOOLEAN : Return(r)
      BY <1>21 DEF RemoveFinalizer, Exists
    <2> QED
      BY <1>21, <2>1, <2>2, ReturnType
      DEF TypeOK, RemoveFinalizer, service, host, virtual, evidence
  <1>22. CASE BoundaryFault
    <2>1. faults' \in 0..MaxFaults
      BY <1>22, FaultType DEF BoundaryFault
    <2> QED
      BY <1>22, <2>1
      DEF TypeOK, BoundaryFault, Goto, Labels, service, server, host, virtual, evidence
  <1>23. CASE ReportFault
    <2>1. faults' \in 0..MaxFaults
      BY <1>23, FaultType DEF ReportFault
    <2>2. CASE Return(TRUE)
      BY <1>23, <2>1, <2>2, ReturnType
      DEF TypeOK, ReportFault, service, server, host, virtual, evidence
    <2>3. CASE Goto("fail") /\ work' \in {work, Composed(work, TRUE)}
      BY <1>23, <2>1, <2>3, ComposedType
      DEF TypeOK, ReportFault, Goto, Labels, service, server, host, virtual, evidence
    <2> QED
      BY <1>23, <2>2, <2>3 DEF ReportFault
  <1>24. CASE CallFails
    BY <1>24, ReturnType, FaultType
    DEF TypeOK, CallFails, service, server, host, virtual, evidence
  <1>25. CASE UninstallFails
    BY <1>25, ReturnType, FaultType
    DEF TypeOK, UninstallFails, service, server, host, evidence
  <1>26. CASE Restart
    <2>1. faults' \in 0..MaxFaults
      BY <1>26, FaultType DEF Restart
    <2>2. nsSeen' \in {"absent", "active", "terminating"} /\ pendingSeen' \subseteq Runs
      BY <1>26 DEF TypeOK, Restart
    <2>3. feed' \in Seq(Object)
      BY <1>26, SMT DEF Restart
    <2> QED
      BY <1>26, <2>1, <2>2, <2>3, NotFoundType DEF TypeOK, Restart, Labels, service, virtual
  <1>27. CASE WatchObject
    <2>1. cache' \in Object /\ feed' \in Seq(Object)
      BY <1>27, SMT DEF TypeOK, WatchObject
    <2> QED
      BY <1>27, <2>1 DEF TypeOK, WatchObject, service, host, virtual, evidence
  <1>32. CASE WatchNamespace
    BY <1>32 DEF TypeOK, WatchNamespace, server, service, controller, virtual, evidence
  <1>33. CASE WatchEvidence
    BY <1>33 DEF TypeOK, WatchEvidence, server, service, controller, host, virtual
  <1>28. CASE NamespaceGone
    <2>1. controls' \in 0..NumControls /\ lost' \subseteq Runs
      BY <1>28, SMT DEF TypeOK, NamespaceGone
    <2> QED
      BY <1>28, <2>1 DEF TypeOK, NamespaceGone, server, service, controller
  <1>31. CASE CollectNamespace
    BY <1>31 DEF TypeOK, CollectNamespace, server, service, controller, virtual, evidence
  <1>29. ASSUME NEW b \in Bundles, PublishEvidence(b)
         PROVE  TypeOK'
    BY <1>29, SMT DEF TypeOK, PublishEvidence, Runs, server, service, controller, host, virtual
  <1>30. CASE UNCHANGED vars
    BY <1>30 DEF TypeOK, vars, server, service, controller, host, virtual, evidence
  <1> QED
    BY <1>1, <1>2, <1>3, <1>4, <1>5, <1>6, <1>7, <1>8, <1>9, <1>10, <1>10a, <1>11, <1>12, <1>13,
       <1>14, <1>15, <1>16, <1>17, <1>18, <1>19, <1>20, <1>21, <1>22, <1>23, <1>24, <1>25,
       <1>26, <1>27, <1>28, <1>29, <1>30, <1>31, <1>32, <1>33
    DEF Next, Service, Controller, Provision, finalize, Faults, Informers, Cluster

\* The initial state has them.
LEMMA TypeInit ==
    ASSUME Init
    PROVE  TypeOK
  <1>1. renewal \in [Callers -> Nat] /\ controls \in 0..NumControls /\ faults \in 0..MaxFaults
    BY ConstantsAssumption, SMT DEF Init
  <1>2. feed \in Seq(Object)
    BY SMT DEF Init
  <1> QED
    BY <1>1, <1>2, NotFoundType DEF Init, TypeOK, Labels

\* The types hold in every behaviour of the lifecycle, for all constants.
THEOREM TypeCorrect == Spec => []TypeOK
  <1>1. Init => TypeOK
    BY TypeInit
  <1>2. TypeOK /\ [Next]_vars => TypeOK'
    BY TypeStep
  <1> QED
    BY <1>1, <1>2, PTL DEF Spec

---------------------------------------------------------------------------
(* A tombstone is terminal.                                                *)

\* Conditions that are not set keep what they said.
LEMMA SetOther ==
    ASSUME NEW o \in Object, NEW t \in ConditionTypes, NEW s, NEW r
    PROVE  /\ conditionTrue(SetStatusCondition(o, t, s, r), t) <=> s = "True"
           /\ \A u \in ConditionTypes \ {t} :
                 conditionTrue(SetStatusCondition(o, t, s, r), u) <=> conditionTrue(o, u)
  BY DEF SetStatusCondition, conditionTrue, Object

\* An object just created is no tombstone.
LEMMA NewTerminal ==
    ASSUME NEW uid \in Nat, NEW e \in Nat
    PROVE  ~conditionTrue(NewObject(uid, e), "Forgotten")
  BY DEF NewObject, conditionTrue, ConditionTypes

\* Nor is the marker for one that is not there.
LEMMA NotFoundTerminal == Terminal(NotFound)
  BY NewTerminal DEF NotFound, Terminal

\* The status of an object that is not Forgotten is composed without it.
LEMMA ComposedLive ==
    ASSUME NEW o \in Object, NEW ready \in BOOLEAN, ~conditionTrue(o, "Forgotten")
    PROVE  ~conditionTrue(Composed(o, ready), "Forgotten")
  <1> DEFINE seen == [o EXCEPT !.observedGeneration = o.generation, !.virtualEndpoint = TRUE]
             installed == SetStatusCondition(seen, "Provisioned", "True", "ReleaseInstalled")
  <1>1. seen \in Object /\ ~conditionTrue(seen, "Forgotten")
    BY DEF Object, conditionTrue
  <1> HIDE DEF seen
  <1>2. installed \in Object
    BY <1>1, SetType DEF ConditionTypes, Reasons
  <1>3. ~conditionTrue(installed, "Forgotten")
    BY <1>1, SetOther, ZenonT(30) DEF ConditionTypes
  <1> HIDE DEF installed
  <1>4. /\ ~conditionTrue(SetStatusCondition(installed, "Ready", "True", "VirtualHandoffReady"),
                          "Forgotten")
        /\ ~conditionTrue(SetStatusCondition(installed, "Ready", "False", "VirtualHandoffStarting"),
                          "Forgotten")
    BY <1>2, <1>3, SetOther, SMT DEF ConditionTypes
  <1> QED
    BY <1>4 DEF Composed, installed, seen

\* Nor does projectMetricsStatus add it.
LEMMA MetricsLive ==
    ASSUME NEW o \in Object, NEW metrics \in BOOLEAN, ~conditionTrue(o, "Forgotten")
    PROVE  ~conditionTrue(projectMetricsStatus(o, metrics), "Forgotten")
  BY SetOther, SMT DEF projectMetricsStatus, ConditionTypes

\* finalize revokes both kinds of readiness with the tombstone it writes.
LEMMA TombstoneTerminal ==
    ASSUME NEW o \in Object, startNow \in Nat
    PROVE  Terminal(Tombstone(o))
  <1> DEFINE cleared == [o EXCEPT !.forgottenAt = startNow, !.virtualEndpoint = FALSE]
             unready == SetStatusCondition(cleared, "Ready", "False", "Forgotten")
             revoked == SetStatusCondition(unready, "MetricsReady", "False", "Forgotten")
  <1>1. cleared \in Object
    BY DEF Object
  <1> HIDE DEF cleared
  <1>2. unready \in Object /\ ~conditionTrue(unready, "Ready")
    BY <1>1, SetType, SetOther, SMT DEF ConditionTypes, Reasons
  <1> HIDE DEF unready
  <1>3. /\ revoked \in Object
        /\ ~conditionTrue(revoked, "Ready") /\ ~conditionTrue(revoked, "MetricsReady")
    BY <1>2, SetType, SetOther, SMT DEF ConditionTypes, Reasons
  <1> HIDE DEF revoked
  <1>4. Terminal(SetStatusCondition(revoked, "Forgotten", "True", "TTLTeardownComplete"))
    BY <1>3, SetOther, ZenonT(30) DEF ConditionTypes, Terminal
  <1> QED
    BY <1>4 DEF Tombstone, revoked, unready, cleared

\* A patch takes the condition list of one side or the other, as a whole.
LEMMA MergeTerminal ==
    ASSUME NEW o \in Object, NEW b \in Object, NEW n \in Object, Terminal(o), Terminal(n)
    PROVE  Terminal(MergePatch(o, b, n))
  <1>1. MergePatch(o, b, n).conditions \in {o.conditions, n.conditions}
    BY DEF MergePatch, Object
  <1> QED
    BY <1>1 DEF Terminal, conditionTrue

\* What the server and the watch hold stays terminal when what is written is.
LEMMA TerminalWrite ==
    ASSUME TypeOK, TerminalInv, NEW new \in Object, Terminal(new), NEW holders,
           Write(new, holders)
    PROVE  Terminal(obj') /\ \A i \in 1..Len(feed') : Terminal(feed'[i])
  <1>1. feed \in Seq(Object)
    BY DEF TypeOK
  <1>2. \A i \in 1..Len(Append(feed, new)) :
           Append(feed, new)[i] = IF i <= Len(feed) THEN feed[i] ELSE new
    BY <1>1, SMT
  <1>3. \A i \in 1..Len(Append(feed, new)) : Terminal(Append(feed, new)[i])
    <2> TAKE i \in 1..Len(Append(feed, new))
    <2>1. CASE i <= Len(feed)
      <3>1. i \in 1..Len(feed)
        BY <1>1, <2>1, SMT
      <3> QED
        BY <1>2, <2>1, <3>1 DEF TerminalInv
    <2>2. CASE ~(i <= Len(feed))
      BY <1>2, <2>2
    <2> QED
      BY <2>1, <2>2
  <1> QED
    BY <1>3 DEF Write, TerminalInv

\* The same for a status patch built from the reconcile's copy.
LEMMA TerminalPatch ==
    ASSUME TypeOK, TerminalInv, NEW new \in Object, Terminal(new), NEW holders,
           PatchStatus(work, new, holders)
    PROVE  Terminal(obj') /\ \A i \in 1..Len(feed') : Terminal(feed'[i])
  <1>1. obj \in Object /\ work \in Object
    BY DEF TypeOK
  <1>2. MergePatch(obj, work, new) \in Object
    BY <1>1, MergePatchType
  <1>3. Terminal(MergePatch(obj, work, new))
    BY <1>1, MergeTerminal DEF TerminalInv
  <1>4. CASE Exists(obj)
    BY <1>2, <1>3, <1>4, TerminalWrite DEF PatchStatus
  <1>5. CASE ~Exists(obj)
    BY <1>5 DEF PatchStatus, server, TerminalInv
  <1> QED
    BY <1>4, <1>5

\* Every step keeps tombstones terminal.
LEMMA TerminalStep ==
    ASSUME TypeOK, TerminalInv, [Next]_vars
    PROVE  TerminalInv'
  <1> USE ConstantsAssumption
  <1>0. obj \in Object /\ cache \in Object /\ work \in Object /\ feed \in Seq(Object)
    BY DEF TypeOK
  <1>1. CASE /\ UNCHANGED <<obj, feed, cache, work>>
             /\ pc' = pc \/ pc' \notin Provisioning
                \/ (pc \in Provisioning /\ pc' \in Provisioning)
    BY <1>1 DEF TerminalInv, Terminal, conditionTrue
  <1>2. CASE UNCHANGED <<obj, feed, cache>> /\ pc' = "idle" /\ work' = NotFound
    BY <1>2, NotFoundTerminal DEF TerminalInv, Provisioning, Terminal, conditionTrue
  <1>3. ASSUME UNCHANGED cache, pc' = "idle", work' = NotFound,
               Terminal(obj'), \A i \in 1..Len(feed') : Terminal(feed'[i])
        PROVE  TerminalInv'
    BY <1>3, NotFoundTerminal DEF TerminalInv, Provisioning, Terminal, conditionTrue
  <1>4. ASSUME UNCHANGED <<cache, pc, work>>,
               Terminal(obj'), \A i \in 1..Len(feed') : Terminal(feed'[i])
        PROVE  TerminalInv'
    BY <1>4 DEF TerminalInv, Provisioning, Terminal, conditionTrue
  <1>5. CASE \/ Tick \/ WatchNamespace \/ WatchEvidence \/ NamespaceGone \/ CollectNamespace
             \/ UNCHANGED vars
    BY <1>1, <1>5 DEF Tick, WatchNamespace, WatchEvidence, NamespaceGone, CollectNamespace,
       vars, server, controller
  <1>6. ASSUME NEW b \in Bundles, PublishEvidence(b)
        PROVE  TerminalInv'
    BY <1>1, <1>6 DEF PublishEvidence, server, controller
  <1>7. ASSUME NEW c \in Callers, NEW ttl \in TTLs, RenewRead(c, ttl)
        PROVE  TerminalInv'
    BY <1>1, <1>7 DEF RenewRead, controller
  <1>8. CASE \/ EnsureNamespace \/ NamespaceRefused \/ EnsureControl \/ ControlRefused
             \/ BoundaryFault \/ ExportWhileLive \/ EnsureVCluster \/ EnsureFails \/ AskReady
    BY <1>1, <1>8 DEF EnsureNamespace, NamespaceRefused, EnsureControl, ControlRefused,
       BoundaryFault, ExportWhileLive, EnsureVCluster, EnsureFails, AskReady, Goto, server,
       Provisioning
  <1>9. CASE Uninstall
    BY <1>1, <1>9 DEF Uninstall, Goto, server, Provisioning
  <1>10. CASE CallFails \/ UninstallFails
    BY <1>2, <1>10 DEF CallFails, UninstallFails, Return, server
  <1>11. CASE ExportBeforeTeardown
    BY <1>1, <1>2, <1>11 DEF ExportBeforeTeardown, Goto, Return, server, Provisioning
  <1>12. CASE deleteNamespace
    BY <1>1, <1>2, <1>12 DEF deleteNamespace, Goto, Return, server, Provisioning
  <1>13. ASSUME NEW ttl \in TTLs, Create(ttl)
         PROVE  TerminalInv'
    <2>1. lastUid + 1 \in Nat /\ now + ttl \in Nat
      BY SMT DEF TypeOK
    <2>2. NewObject(lastUid + 1, now + ttl) \in Object /\ Terminal(NewObject(lastUid + 1, now + ttl))
      BY <2>1, NewObjectType, NewTerminal DEF Terminal
    <2> QED
      BY <1>4, <1>13, <2>2, TerminalWrite DEF Create, controller
  <1>14. ASSUME NEW c \in Callers, RenewWrite(c)
         PROVE  TerminalInv'
    <2> DEFINE new == [obj EXCEPT !.expiresAt = renewal[c], !.generation = obj.generation + 1]
    <2>1. renewal[c] \in Nat /\ obj.generation + 1 \in Nat
      <3>1. obj.generation \in Nat
        BY <1>0 DEF Object
      <3> QED
        BY <3>1, SMT DEF TypeOK
    <2>2. new \in Object /\ new.conditions = obj.conditions
      BY <1>0, <2>1 DEF Object
    <2>3. Terminal(new)
      BY <2>2 DEF TerminalInv, Terminal, conditionTrue
    <2>4. CASE c \in current
      BY <1>4, <1>14, <2>2, <2>3, <2>4, TerminalWrite DEF RenewWrite, controller
    <2>5. CASE c \notin current
      BY <1>1, <1>14, <2>5 DEF RenewWrite, server, controller
    <2> QED
      BY <2>4, <2>5
  <1>15. MarkDeleted(obj) \in Object /\ Terminal(MarkDeleted(obj))
    <2>1. MarkDeleted(obj) \in Object
      BY <1>0, MarkDeletedType
    <2>2. MarkDeleted(obj) = NotFound \/ MarkDeleted(obj).conditions = obj.conditions
      BY <1>0 DEF MarkDeleted, Object
    <2> QED
      BY <2>1, <2>2, NotFoundTerminal DEF TerminalInv, Terminal, conditionTrue
  <1>16. CASE Delete
    BY <1>4, <1>15, <1>16, TerminalWrite DEF Delete, controller
  <1>17. CASE ReapTombstone
    BY <1>2, <1>3, <1>15, <1>17, TerminalWrite DEF ReapTombstone, Return, server
  <1>18. CASE AddFinalizer
    <2> DEFINE new == [obj EXCEPT !.finalizer = TRUE]
    <2>1. new \in Object /\ new.conditions = obj.conditions
      BY <1>0 DEF Object
    <2>2. Terminal(new)
      BY <2>1 DEF TerminalInv, Terminal, conditionTrue
    <2> QED
      BY <1>2, <1>3, <1>18, <2>1, <2>2, TerminalWrite DEF AddFinalizer, Return, server
  <1>19. CASE Reconcile
    <2>1. CASE Route(cache) = "idle"
      BY <1>2, <1>19, <2>1 DEF Reconcile
    <2>2. CASE Route(cache) # "idle"
      <3>1. UNCHANGED <<obj, feed, cache>> /\ work' = cache /\ pc' = Route(cache)
        BY <1>19, <2>2 DEF Reconcile
      <3>2. Route(cache) \in Provisioning => ~conditionTrue(cache, "Forgotten")
        BY DEF Route, Provisioning
      <3> QED
        BY <3>1, <3>2 DEF TerminalInv, Terminal, conditionTrue
    <2> QED
      BY <2>1, <2>2
  <1>20. CASE ReportStatus
    <2> DEFINE ready == pc = "reportReady"
    <2>1. PICK metrics \in {FALSE, ready /\ MetricsEnabled} :
             PatchStatus(work, projectMetricsStatus(Composed(work, ready), metrics), {})
      BY <1>20 DEF ReportStatus
    <2>2. ready \in BOOLEAN /\ metrics \in BOOLEAN
      OBVIOUS
    <2> HIDE DEF ready
    <2>3. ~conditionTrue(work, "Forgotten")
      BY <1>20 DEF ReportStatus, TerminalInv, Provisioning
    <2>4. Composed(work, ready) \in Object /\ ~conditionTrue(Composed(work, ready), "Forgotten")
      BY <1>0, <2>2, <2>3, ComposedType, ComposedLive
    <2>5. /\ projectMetricsStatus(Composed(work, ready), metrics) \in Object
          /\ Terminal(projectMetricsStatus(Composed(work, ready), metrics))
      BY <2>2, <2>4, MetricsType, MetricsLive DEF Terminal
    <2>6. Terminal(obj') /\ \A i \in 1..Len(feed') : Terminal(feed'[i])
      BY <2>1, <2>5, TerminalPatch
    <2> QED
      BY <1>3, <1>20, <2>6 DEF ReportStatus, Return
  <1>21. CASE ReportFault
    <2>1. CASE UNCHANGED work /\ Goto("fail")
      BY <1>1, <1>21, <2>1 DEF ReportFault, Goto, server, Provisioning
    <2>2. CASE Return(TRUE)
      BY <1>2, <1>21, <2>2 DEF ReportFault, Return, server
    <2>3. CASE work' = Composed(work, TRUE) /\ Goto("fail")
      <3>1. ~conditionTrue(work, "Forgotten")
        BY <1>21 DEF ReportFault, TerminalInv, Provisioning
      <3>2. ~conditionTrue(Composed(work, TRUE), "Forgotten")
        BY <1>0, <3>1, ComposedLive
      <3> QED
        BY <1>21, <2>3, <3>2 DEF ReportFault, server, TerminalInv, Terminal, conditionTrue
    <2> QED
      BY <1>21, <2>1, <2>2, <2>3 DEF ReportFault
  <1>22. CASE Fail
    <2> DEFINE failed == SetStatusCondition(work, "Ready", "False", "Failed")
    <2>1. failed \in Object
      BY <1>0, SetType DEF ConditionTypes, Reasons
    <2>2. Terminal(failed)
      BY <1>0, SetOther, SMT DEF ConditionTypes, TerminalInv, Terminal
    <2> HIDE DEF failed
    <2>3. [obj EXCEPT !.conditions = failed.conditions] \in Object
      BY <1>0, <2>1 DEF Object
    <2>4. Terminal([obj EXCEPT !.conditions = failed.conditions])
      BY <1>0, <2>2 DEF Terminal, conditionTrue, Object
    <2>5. CASE PatchStatus(work, failed, {})
      BY <1>3, <1>22, <2>1, <2>2, <2>5, TerminalPatch DEF Fail, Return
    <2>6. CASE Write([obj EXCEPT !.conditions = failed.conditions], {})
      BY <1>3, <1>22, <2>3, <2>4, <2>6, TerminalWrite DEF Fail, Return
    <2> QED
      BY <1>22, <2>5, <2>6 DEF Fail, failed
  <1>23. CASE MarkExpiring
    <2> DEFINE expiring == SetStatusCondition(work, "Expiring", "True", "TTLExpired")
    <2>1. expiring \in Object
      BY <1>0, SetType DEF ConditionTypes, Reasons
    <2>2. Terminal(expiring)
      BY <1>0, SetOther, SMT DEF ConditionTypes, TerminalInv, Terminal
    <2> HIDE DEF expiring
    <2>3. MergePatch(obj, work, expiring) \in Object
      BY <1>0, <2>1, MergePatchType
    <2>4. Terminal(MergePatch(obj, work, expiring))
      BY <1>0, <2>1, <2>2, MergeTerminal DEF TerminalInv
    <2>5. CASE /\ Write(MergePatch(obj, work, expiring), {"work"})
               /\ work' = MergePatch(obj, work, expiring)
               /\ Goto("export")
      <3>1. Terminal(obj') /\ \A i \in 1..Len(feed') : Terminal(feed'[i])
        BY <2>3, <2>4, <2>5, TerminalWrite
      <3>2. Terminal(work')
        BY <2>4, <2>5 DEF Terminal, conditionTrue
      <3> QED
        BY <1>23, <2>5, <3>1, <3>2
        DEF MarkExpiring, Goto, TerminalInv, Provisioning, Terminal, conditionTrue
    <2>6. CASE work' = expiring /\ UNCHANGED server /\ Goto("export")
      BY <1>23, <2>2, <2>6
      DEF MarkExpiring, server, Goto, TerminalInv, Provisioning, Terminal, conditionTrue
    <2>7. CASE UNCHANGED server /\ Return(TRUE)
      BY <1>2, <1>23, <2>7 DEF MarkExpiring, server, Return
    <2> QED
      BY <1>23, <2>5, <2>6, <2>7 DEF MarkExpiring, expiring
  <1>24. CASE Forget
    <2>1. Tombstone(work) \in Object /\ Terminal(Tombstone(work))
      BY <1>0, TombstoneType, TombstoneTerminal DEF TypeOK
    <2>2. Terminal(obj') /\ \A i \in 1..Len(feed') : Terminal(feed'[i])
      BY <1>24, <2>1, TerminalPatch DEF Forget
    <2> QED
      BY <1>3, <1>24, <2>2 DEF Forget, Return
  <1>25. CASE RemoveFinalizer
    <2>1. CASE Write(NotFound, {})
      BY <1>3, <1>25, <2>1, NotFoundType, NotFoundTerminal, TerminalWrite
      DEF RemoveFinalizer, Return
    <2>2. CASE UNCHANGED server
      BY <1>2, <1>25, <2>2 DEF RemoveFinalizer, Return, server
    <2> QED
      BY <1>25, <2>1, <2>2 DEF RemoveFinalizer
  <1>26. CASE Restart
    <2>1. /\ UNCHANGED obj /\ cache' = obj /\ feed' = <<>>
          /\ pc' = "idle" /\ work' = NotFound
      BY <1>26 DEF Restart
    <2>2. Len(feed') = 0
      BY <2>1
    <2> QED
      BY <2>1, <2>2, NotFoundTerminal, SMT DEF TerminalInv, Provisioning, Terminal, conditionTrue
  <1>27. CASE WatchObject
    <2>1. /\ feed # <<>> /\ cache' = Head(feed) /\ feed' = Tail(feed)
          /\ UNCHANGED <<obj, pc, work>>
      BY <1>27 DEF WatchObject
    <2>2. Head(feed) = feed[1] /\ 1 \in 1..Len(feed)
      BY <1>0, <2>1, SMT
    <2>3. Terminal(cache')
      BY <2>1, <2>2 DEF TerminalInv, Terminal, conditionTrue
    <2>4. \A i \in 1..Len(feed') : Terminal(feed'[i])
      <3> TAKE i \in 1..Len(feed')
      <3>1. i + 1 \in 1..Len(feed) /\ Tail(feed)[i] = feed[i + 1]
        BY <1>0, <2>1, SMT
      <3> QED
        BY <2>1, <3>1 DEF TerminalInv, Terminal, conditionTrue
    <2> QED
      BY <2>1, <2>3, <2>4 DEF TerminalInv, Terminal, conditionTrue
  <1> QED
    BY <1>5, <1>6, <1>7, <1>8, <1>9, <1>10, <1>11, <1>12, <1>13, <1>14, <1>16, <1>17, <1>18,
       <1>19, <1>20, <1>21, <1>22, <1>23, <1>24, <1>25, <1>26, <1>27
    DEF Next, Service, Controller, Provision, finalize, Faults, Informers, Cluster

\* A tombstone claims no readiness, in the object or in any copy the controller
\* holds, whatever status patches of stale copies land on it.
THEOREM TombstonesTerminal == Spec => []TombstoneIsTerminal
  <1>1. Init => TerminalInv
    <2> SUFFICES ASSUME Init
                 PROVE  TerminalInv
      OBVIOUS
    <2>1. Len(feed) = 0
      BY DEF Init
    <2> QED
      BY <2>1, NotFoundTerminal, SMT DEF Init, TerminalInv, Provisioning
  <1>2. TypeOK /\ TerminalInv /\ [Next]_vars => TerminalInv'
    BY TerminalStep
  <1>3. TerminalInv => TombstoneIsTerminal
    BY DEF TerminalInv, TombstoneIsTerminal, Terminal
  <1> QED
    BY <1>1, <1>2, <1>3, TypeCorrect, PTL DEF Spec

---------------------------------------------------------------------------
(* What each step does to the root object, its versions and the host, in the *)
(* few terms the invariants are about.                                     *)

\* The fields of an object that is not there.
LEMMA NotFoundFields ==
    /\ NotFound.uid = 0 /\ NotFound.generation = 1 /\ NotFound.expiresAt = 0
    /\ NotFound.deleting = FALSE /\ NotFound.finalizer = FALSE
    /\ ~Exists(NotFound)
    /\ \A t \in ConditionTypes : ~conditionTrue(NotFound, t)
  BY DEF NotFound, NewObject, Exists, conditionTrue

\* The order of versions is transitive within one incarnation.
LEMMA PrecedesTransitive ==
    ASSUME NEW a \in Object, NEW b \in Object, NEW c \in Object,
           Precedes(a, b), Precedes(b, c), b.uid = c.uid
    PROVE  Precedes(a, c)
  BY SMT DEF Precedes, Object

---------------------------------------------------------------------------
(* How the versions between cache and server change.                       *)

\* No new version: the cache, the feed and the object stay.
Still == UNCHANGED <<obj, feed, cache, lastUid>>

\* A write appends one version or, when it changes nothing, none.
LEMMA WriteVersions ==
    ASSUME TypeOK, ChainInv, NEW new \in Object, NEW holders, Write(new, holders),
           cache' = cache
    PROVE  /\ obj' = new
           /\ Version(Len(feed))' = new
           /\ \A i \in Indices' : \/ i \in Indices /\ Version(i)' = Version(i)
                                  \/ i \notin Indices /\ i = Len(feed)' /\ Version(i)' = new
  <1>1. feed \in Seq(Object) /\ Len(feed) \in Nat
    BY SMT DEF TypeOK
  <1>2. CASE new = obj
    BY <1>1, <1>2 DEF Write, ChainInv, Version, Indices
  <1>3. CASE new # obj
    <2>1. feed' = Append(feed, new) /\ obj' = new
      BY <1>3 DEF Write
    <2>2. Len(feed') = Len(feed) + 1
      BY <1>1, <2>1, SMT
    <2>3. \A i \in 1..Len(feed) : feed'[i] = feed[i]
      BY <1>1, <2>1, SMT
    <2>4. feed'[Len(feed) + 1] = new
      BY <1>1, <2>1, SMT
    <2> QED
      BY <1>1, <2>1, <2>2, <2>3, <2>4, SMT DEF Version, Indices
  <1> QED
    BY <1>2, <1>3

\* A watch event drops the oldest version.
LEMMA WatchVersions ==
    ASSUME TypeOK, WatchObject
    PROVE  /\ Len(feed) \in Nat \ {0}
           /\ Len(feed)' = Len(feed) - 1
           /\ \A i \in Indices' : i + 1 \in Indices /\ Version(i)' = Version(i + 1)
  <1>1. feed \in Seq(Object) /\ Len(feed) \in Nat /\ feed # <<>>
    BY SMT DEF TypeOK, WatchObject
  <1>2. feed' = Tail(feed) /\ cache' = Head(feed)
    BY DEF WatchObject
  <1>3. Len(feed) # 0 /\ Len(feed') = Len(feed) - 1 /\ cache' = feed[1]
    BY <1>1, <1>2, SMT
  <1>4. \A i \in 1..Len(feed') : feed'[i] = feed[i + 1]
    BY <1>1, <1>2, SMT
  <1> QED
    BY <1>1, <1>3, <1>4, SMT DEF Version, Indices

\* A restart leaves only the server's version.
LEMMA RestartVersions ==
    ASSUME TypeOK, Restart
    PROVE  /\ Len(feed)' = 0 /\ Indices' = {0} /\ Version(0)' = obj /\ obj' = obj
  <1>1. feed' = <<>> /\ cache' = obj /\ obj' = obj
    BY DEF Restart
  <1>2. Len(feed') = 0
    BY <1>1
  <1> QED
    BY <1>1, <1>2, SMT DEF Version, Indices

\* Every version is an object.
LEMMA VersionTypes ==
    ASSUME TypeOK, NEW i \in Indices
    PROVE  Version(i) \in Object
  BY SMT DEF TypeOK, Version, Indices

---------------------------------------------------------------------------
(* What a write may do to the object.                                      *)

SameMeta(o, n) ==
    /\ n.uid = o.uid /\ n.generation = o.generation /\ n.expiresAt = o.expiresAt
    /\ n.deleting = o.deleting /\ n.finalizer = o.finalizer

\* The cache is the first version, and the watch delivers the second.
LEMMA FirstVersions ==
    ASSUME TypeOK
    PROVE  /\ 0 \in Indices /\ Version(0) = cache
           /\ feed # <<>> => 1 \in Indices /\ Version(1) = Head(feed)
  <1>1. feed \in Seq(Object) /\ Len(feed) \in Nat
    BY SMT DEF TypeOK
  <1>2. feed # <<>> => Len(feed) >= 1 /\ Head(feed) = feed[1]
    BY <1>1, SMT
  <1> QED
    BY <1>1, <1>2, SMT DEF Indices, Version

\* A write that keeps the incarnation, ends it, or begins the next one.
Advance(o, n) ==
    \/ Exists(o) /\ n.uid = o.uid /\ Precedes(o, n)
    \/ n = NotFound

\* A write that advances the object keeps the versions in order.
LEMMA ChainWrite ==
    ASSUME TypeOK, ChainInv, NEW new \in Object, NEW holders, Write(new, holders),
           cache' = cache, lastUid' = lastUid, Advance(obj, new)
    PROVE  ChainInv'
  <1>1. /\ obj' = new
        /\ Version(Len(feed))' = new
        /\ \A i \in Indices' : \/ i \in Indices /\ Version(i)' = Version(i)
                               \/ i \notin Indices /\ i = Len(feed)' /\ Version(i)' = new
    BY WriteVersions
  <1>2. new.uid <= lastUid /\ (new.uid = 0 => new = NotFound)
    <2>1. obj.uid <= lastUid
      <3>1. Len(feed) \in Indices
        BY SMT DEF TypeOK, Indices
      <3> QED
        BY <3>1 DEF ChainInv
    <2> QED
      BY <2>1, NotFoundFields, SMT DEF Advance, TypeOK, Exists
  <1>3. ASSUME NEW i \in Indices
        PROVE  Precedes(Version(i), new)
    <2>1. CASE Exists(obj) /\ new.uid = obj.uid /\ Precedes(obj, new)
      <3>1. Precedes(Version(i), obj)
        BY DEF ChainInv
      <3>2. Version(i) \in Object /\ obj \in Object
        BY VersionTypes DEF TypeOK
      <3> QED
        BY <2>1, <3>1, <3>2, PrecedesTransitive
    <2>2. CASE new = NotFound
      <3>1. Version(i).uid = 0 => Version(i) = NotFound
        BY DEF ChainInv
      <3> QED
        BY <2>2, <3>1, NotFoundFields, SMT DEF Precedes
    <2> QED
      BY <2>1, <2>2 DEF Advance
  <1>4. Precedes(new, new)
    BY SMT DEF Precedes, Object
  <1>5. ASSUME NEW i \in Indices'
        PROVE  /\ Version(i)'.uid <= lastUid
               /\ Version(i)'.uid = 0 => Version(i)' = NotFound
               /\ Precedes(Version(i)', new)
    BY <1>1, <1>2, <1>3, <1>4 DEF ChainInv
  <1>6. ASSUME NEW i \in Indices', NEW j \in Indices', i <= j
        PROVE  /\ Precedes(Version(i)', Version(j)')
               /\ Exists(new) /\ Version(i)'.uid = new.uid => Version(j)'.uid = new.uid
    <2>1. CASE j \in Indices
      <3>1. i \in Indices /\ Version(i)' = Version(i) /\ Version(j)' = Version(j)
        BY <1>1, <1>6, <2>1, SMT DEF Indices, TypeOK
      <3>2. Precedes(Version(i), Version(j))
        BY <1>6, <2>1, <3>1 DEF ChainInv
      <3>3. Exists(new) => Exists(obj) /\ new.uid = obj.uid
        BY NotFoundFields DEF Advance
      <3> QED
        BY <1>6, <2>1, <3>1, <3>2, <3>3 DEF ChainInv
    <2>2. CASE j \notin Indices
      BY <1>1, <1>5, <2>2
    <2> QED
      BY <2>1, <2>2
  <1> QED
    BY <1>1, <1>5, <1>6 DEF ChainInv, Precedes, Exists

\* A step that leaves the versions alone keeps their order.
LEMMA ChainStill ==
    ASSUME ChainInv, Still
    PROVE  ChainInv'
  BY SMT DEF ChainInv, Still, Version, Indices, Exists, Precedes

\* So does the creation of an incarnation.
LEMMA ChainCreate ==
    ASSUME TypeOK, ChainInv, NEW ttl \in TTLs, Create(ttl)
    PROVE  ChainInv'
  <1> DEFINE new == NewObject(lastUid + 1, now + ttl)
  <1>1. /\ Write(new, {}) /\ cache' = cache /\ lastUid' = lastUid + 1 /\ ~Exists(obj)
        /\ lastUid \in Nat
    BY DEF Create, TypeOK
  <1>2. new \in Object /\ new.uid = lastUid + 1
    <2>1. lastUid + 1 \in Nat /\ now + ttl \in Nat
      BY ConstantsAssumption, SMT DEF TypeOK
    <2> QED
      BY <2>1, NewObjectType DEF NewObject
  <1> HIDE DEF new
  <1>3. /\ obj' = new
        /\ Version(Len(feed))' = new
        /\ \A i \in Indices' : \/ i \in Indices /\ Version(i)' = Version(i)
                               \/ i \notin Indices /\ i = Len(feed)' /\ Version(i)' = new
    BY <1>1, <1>2, WriteVersions
  <1>4. \A i \in Indices : Version(i) \in Object /\ Version(i).uid <= lastUid /\ Version(i).uid \in Nat
    BY VersionTypes DEF ChainInv, Object
  <1>5. ASSUME NEW i \in Indices'
        PROVE  /\ Version(i)'.uid <= lastUid'
               /\ Version(i)'.uid = 0 => Version(i)' = NotFound
               /\ Precedes(Version(i)', new)
    <2>1. CASE i \in Indices /\ Version(i)' = Version(i)
      BY <1>1, <1>2, <1>4, <2>1, SMT DEF ChainInv, Precedes
    <2>2. CASE Version(i)' = new
      BY <1>1, <1>2, <2>2, SMT DEF Precedes, Object
    <2> QED
      BY <1>3, <2>1, <2>2
  <1>6. ASSUME NEW i \in Indices', NEW j \in Indices', i <= j
        PROVE  /\ Precedes(Version(i)', Version(j)')
               /\ Version(i)'.uid = new.uid => Version(j)'.uid = new.uid
    <2>1. CASE j \in Indices
      <3>1. i \in Indices /\ Version(i)' = Version(i) /\ Version(j)' = Version(j)
        BY <1>3, <1>6, <2>1, SMT DEF Indices, TypeOK
      <3>2. Precedes(Version(i), Version(j))
        BY <1>6, <2>1, <3>1 DEF ChainInv
      <3>3. Version(i).uid # new.uid
        BY <1>1, <1>2, <1>4, <3>1, SMT
      <3> QED
        BY <3>1, <3>2, <3>3
    <2>2. CASE j \notin Indices
      BY <1>3, <1>5, <2>2
    <2> QED
      BY <2>1, <2>2
  <1> QED
    BY <1>3, <1>5, <1>6 DEF ChainInv, Precedes

\* So does a watch event.
LEMMA ChainWatch ==
    ASSUME TypeOK, ChainInv, WatchObject
    PROVE  ChainInv'
  <1>1. /\ Len(feed) \in Nat \ {0}
        /\ Len(feed)' = Len(feed) - 1
        /\ \A i \in Indices' : i + 1 \in Indices /\ Version(i)' = Version(i + 1)
    BY WatchVersions
  <1>2. obj' = obj /\ lastUid' = lastUid
    BY DEF WatchObject, service
  <1>3. Len(feed)' \in Indices'
    BY <1>1, SMT DEF Indices
  <1>4. Version(Len(feed))' = obj
    BY <1>1, <1>3, SMT DEF ChainInv
  <1>5. \A i \in Indices' : /\ Version(i)'.uid <= lastUid
                            /\ Version(i)'.uid = 0 => Version(i)' = NotFound
                            /\ Precedes(Version(i)', obj)
    BY <1>1 DEF ChainInv
  <1>6. ASSUME NEW i \in Indices', NEW j \in Indices', i <= j
        PROVE  /\ Precedes(Version(i)', Version(j)')
               /\ Exists(obj) /\ Version(i)'.uid = obj.uid => Version(j)'.uid = obj.uid
    <2>1. i + 1 \in Indices /\ j + 1 \in Indices /\ i + 1 <= j + 1
      BY <1>1, <1>6, SMT DEF Indices
    <2> QED
      BY <1>1, <2>1 DEF ChainInv
  <1> QED
    BY <1>2, <1>4, <1>5, <1>6 DEF ChainInv, Precedes, Exists

\* So does a controller restart, which lists anew.
LEMMA ChainRestart ==
    ASSUME TypeOK, ChainInv, Restart
    PROVE  ChainInv'
  <1>1. /\ Len(feed)' = 0 /\ Indices' = {0} /\ Version(0)' = obj /\ obj' = obj
    BY RestartVersions
  <1>2. lastUid' = lastUid
    BY DEF Restart, service
  <1>3. Len(feed) \in Indices /\ obj \in Object
    BY SMT DEF TypeOK, Indices
  <1>4. obj.uid <= lastUid /\ (obj.uid = 0 => obj = NotFound)
    BY <1>3 DEF ChainInv
  <1>5. Precedes(obj, obj)
    BY <1>3, SMT DEF Precedes, Object
  <1>6. Version(Len(feed))' = obj
    BY <1>1
  <1> QED
    BY <1>1, <1>2, <1>4, <1>5, <1>6, ZenonT(30) DEF ChainInv, Precedes, Exists

---------------------------------------------------------------------------
(* What the controller's patches do to the object and to its Ready mark.   *)

\* A status patch leaves meta data and spec alone.
LEMMA MergePatchMeta ==
    ASSUME NEW o \in Object, NEW b \in Object, NEW n \in Object
    PROVE  /\ SameMeta(o, MergePatch(o, b, n))
           /\ MergePatch(o, b, n).conditions \in {o.conditions, n.conditions}
  BY DEF MergePatch, SameMeta, Object

\* SetStatusCondition changes one condition and no meta data.
LEMMA SetMeta ==
    ASSUME NEW o \in Object, NEW t \in ConditionTypes, NEW st, NEW r
    PROVE  LET n == SetStatusCondition(o, t, st, r)
           IN  /\ SameMeta(o, n)
               /\ n.conditions[t].status = st
               /\ n.conditions[t].generation = o.generation
               /\ \A u \in ConditionTypes \ {t} : n.conditions[u] = o.conditions[u]
  BY DEF SetStatusCondition, SameMeta, Object

\* Changes that leave the meta data alone compose.
LEMMA SameMetaTransitive ==
    ASSUME NEW a, NEW b, NEW c, SameMeta(a, b), SameMeta(b, c)
    PROVE  SameMeta(a, c)
  BY DEF SameMeta

\* The status Reconcile composes has the meta data it read, and a Ready mark
\* of the generation it read.
LEMMA ComposedMeta ==
    ASSUME NEW o \in Object, NEW ready \in BOOLEAN
    PROVE  /\ SameMeta(o, Composed(o, ready))
           /\ conditionTrue(Composed(o, ready), "Ready") <=> ready
           /\ Composed(o, ready).conditions["Ready"].generation = o.generation
  <1> DEFINE seen == [o EXCEPT !.observedGeneration = o.generation, !.virtualEndpoint = TRUE]
             installed == SetStatusCondition(seen, "Provisioned", "True", "ReleaseInstalled")
             up == SetStatusCondition(installed, "Ready", "True", "VirtualHandoffReady")
             down == SetStatusCondition(installed, "Ready", "False", "VirtualHandoffStarting")
  <1>1. seen \in Object /\ SameMeta(o, seen)
    BY DEF Object, SameMeta
  <1> HIDE DEF seen
  <1>2. installed \in Object
    BY <1>1, SetType DEF ConditionTypes, Reasons
  <1>3. SameMeta(seen, installed)
    BY <1>1, SetMeta DEF ConditionTypes
  <1> HIDE DEF installed
  <1>4. SameMeta(o, installed)
    BY <1>1, <1>3, SameMetaTransitive
  <1>5. /\ SameMeta(installed, up) /\ up.conditions["Ready"].status = "True"
        /\ up.conditions["Ready"].generation = installed.generation
    BY <1>2, SetMeta, SMT DEF ConditionTypes
  <1>6. /\ SameMeta(installed, down) /\ down.conditions["Ready"].status = "False"
        /\ down.conditions["Ready"].generation = installed.generation
    BY <1>2, SetMeta, SMT DEF ConditionTypes
  <1>7. Composed(o, ready) = IF ready THEN up ELSE down
    BY DEF Composed, installed, seen
  <1> HIDE DEF up, down
  <1> QED
    BY <1>4, <1>5, <1>6, <1>7, SameMetaTransitive DEF SameMeta, conditionTrue

\* projectMetricsStatus leaves both as they are.
LEMMA ReportMeta ==
    ASSUME NEW o \in Object, NEW ready \in BOOLEAN, NEW metrics \in BOOLEAN
    PROVE  LET n == projectMetricsStatus(Composed(o, ready), metrics)
           IN  /\ n \in Object
               /\ conditionTrue(n, "Ready") =>
                     ready /\ n.conditions["Ready"].generation = o.generation
  <1> DEFINE c == Composed(o, ready)
  <1>1. c \in Object
    BY ComposedType
  <1>2. /\ conditionTrue(c, "Ready") <=> ready
        /\ c.conditions["Ready"].generation = o.generation
    BY ComposedMeta
  <1> HIDE DEF c
  <1>3. projectMetricsStatus(c, metrics) \in Object
    BY <1>1, MetricsType
  <1>4. projectMetricsStatus(c, metrics).conditions["Ready"] = c.conditions["Ready"]
    BY <1>1, SetMeta, SMT DEF projectMetricsStatus, ConditionTypes
  <1> QED
    BY <1>2, <1>3, <1>4 DEF conditionTrue, c

\* A tombstone is not Ready.
LEMMA TombstoneMark ==
    ASSUME NEW o \in Object, startNow \in Nat
    PROVE  ~conditionTrue(Tombstone(o), "Ready")
  <1> DEFINE cleared == [o EXCEPT !.forgottenAt = startNow, !.virtualEndpoint = FALSE]
             unready == SetStatusCondition(cleared, "Ready", "False", "Forgotten")
             revoked == SetStatusCondition(unready, "MetricsReady", "False", "Forgotten")
             done == SetStatusCondition(revoked, "Forgotten", "True", "TTLTeardownComplete")
  <1>1. cleared \in Object
    BY DEF Object
  <1> HIDE DEF cleared
  <1>2. unready \in Object /\ unready.conditions["Ready"].status = "False"
    BY <1>1, SetType, SetMeta, SMT DEF ConditionTypes, Reasons
  <1> HIDE DEF unready
  <1>3. revoked \in Object /\ revoked.conditions["Ready"] = unready.conditions["Ready"]
    BY <1>2, SetType, SetMeta, SMT DEF ConditionTypes, Reasons
  <1> HIDE DEF revoked
  <1>4. done.conditions["Ready"] = revoked.conditions["Ready"]
    BY <1>3, SetMeta, SMT DEF ConditionTypes
  <1>5. Tombstone(o) = done
    BY DEF Tombstone, revoked, unready, cleared
  <1> QED
    BY <1>2, <1>3, <1>4, <1>5 DEF conditionTrue

---------------------------------------------------------------------------
(* The actions, by what they do to the server and to the controller.       *)

\* The environment leaves the object, its versions and the reconcile alone.
Outside ==
    \/ Tick \/ WatchNamespace \/ WatchEvidence \/ NamespaceGone \/ CollectNamespace
    \/ \E b \in Bundles : PublishEvidence(b)
    \/ \E c \in Callers : \E ttl \in TTLs : RenewRead(c, ttl)
    \/ UNCHANGED vars

\* The clock, the dependent watches and the collector touch no version.
LEMMA OutsideEffect ==
    ASSUME TypeOK, Outside
    PROVE  /\ Still /\ UNCHANGED <<pc, work, expired>>
           /\ "work" \in current' => "work" \in current
           /\ now' >= now
  BY ConstantsAssumption, SMT
  DEF TypeOK, Outside, Tick, WatchNamespace, WatchEvidence, NamespaceGone, CollectNamespace,
      PublishEvidence, RenewRead, vars, Still, server, service, controller

\* The steps of a reconcile that call Helm, the store or the namespace only.
Local ==
    \/ EnsureNamespace \/ NamespaceRefused \/ EnsureControl \/ ControlRefused \/ BoundaryFault
    \/ ExportWhileLive \/ EnsureVCluster \/ EnsureFails \/ AskReady \/ ReportFault
    \/ ExportBeforeTeardown \/ Uninstall \/ UninstallFails \/ deleteNamespace \/ CallFails

\* Nor do the calls a reconcile makes to the host.
LEMMA LocalEffect ==
    ASSUME TypeOK, Local
    PROVE  /\ Still /\ UNCHANGED <<now, current>>
           /\ \/ pc' = "idle" /\ expired' = FALSE
              \/ /\ expired' = expired /\ pc \in Provisioning /\ pc' \in Provisioning
                 /\ \/ work' = work
                    \/ pc = "reportReady" /\ work' = Composed(work, TRUE)
              \/ /\ expired' = expired /\ work' = work
                 /\ pc \in {"export", "uninstall", "deleteNamespace"}
                 /\ \/ pc' \in {"uninstall", "deleteNamespace"}
                    \/ pc' = "forget" /\ expired
                    \/ pc' = "removeFinalizer" /\ ~expired
  <1>1. CASE \/ EnsureNamespace \/ NamespaceRefused \/ EnsureControl \/ ControlRefused
             \/ BoundaryFault \/ EnsureVCluster \/ EnsureFails \/ AskReady
    BY <1>1 DEF EnsureNamespace, NamespaceRefused, EnsureControl, ControlRefused, BoundaryFault,
       EnsureVCluster, EnsureFails, AskReady, Goto, Still, server, service, Provisioning
  <1>2. CASE ExportWhileLive \/ ReportFault
    BY <1>2 DEF ExportWhileLive, ReportFault, Goto, Return, Still, server, service, Provisioning
  <1>3. CASE ExportBeforeTeardown \/ Uninstall \/ UninstallFails
    BY <1>3 DEF ExportBeforeTeardown, Uninstall, UninstallFails, Goto, Return, Still,
       server, service
  <1>4. CASE deleteNamespace \/ CallFails
    BY <1>4 DEF deleteNamespace, CallFails, Goto, Return, Still, server, service, TypeOK
  <1> QED
    BY <1>1, <1>2, <1>3, <1>4 DEF Local

\* The patches that end a reconcile.
StatusEffect(new) ==
    /\ Exists(obj) /\ Write(new, {}) /\ SameMeta(obj, new)
    /\ conditionTrue(new, "Ready") =>
          \/ new.conditions["Ready"] = obj.conditions["Ready"]
          \/ pc = "reportReady" /\ new.conditions["Ready"].generation = work.generation

\* A status patch finds nothing, or leaves the server's meta data with either
\* the server's conditions or the ones sent.
LEMMA PatchStatusEffect ==
    ASSUME TypeOK, NEW n \in Object, PatchStatus(work, n, {}),
           conditionTrue(n, "Ready") =>
              pc = "reportReady" /\ n.conditions["Ready"].generation = work.generation
    PROVE  UNCHANGED <<obj, feed, current>> \/ \E new \in Object : StatusEffect(new)
  <1>1. obj \in Object /\ work \in Object
    BY DEF TypeOK
  <1>2. CASE ~Exists(obj)
    BY <1>2 DEF PatchStatus, server
  <1>3. CASE Exists(obj)
    <2> DEFINE new == MergePatch(obj, work, n)
    <2>1. new \in Object /\ SameMeta(obj, new) /\ new.conditions \in {obj.conditions, n.conditions}
      BY <1>1, MergePatchType, MergePatchMeta
    <2>2. Write(new, {})
      BY <1>3 DEF PatchStatus
    <2> HIDE DEF new
    <2>3. StatusEffect(new)
      BY <1>3, <2>1, <2>2 DEF StatusEffect, conditionTrue
    <2> QED
      BY <2>1, <2>3
  <1> QED
    BY <1>2, <1>3

\* Reconcile's last patch, fail's and the tombstone end the reconcile.
LEMMA ReportEffect ==
    ASSUME TypeOK, ReportStatus \/ Fail \/ Forget
    PROVE  /\ pc' = "idle" /\ expired' = FALSE
           /\ UNCHANGED <<now, cache, lastUid, ns, nsOwner, controls, release, handoff>>
           /\ \/ UNCHANGED <<obj, feed, current>>
              \/ \E new \in Object : StatusEffect(new)
  <1>1. /\ pc' = "idle" /\ expired' = FALSE
        /\ UNCHANGED <<now, cache, lastUid, ns, nsOwner, controls, release, handoff>>
    BY DEF ReportStatus, Fail, Forget, Return, service, host, virtual
  <1>2. work \in Object /\ obj \in Object
    BY DEF TypeOK
  <1>3. CASE ReportStatus
    <2> DEFINE ready == pc = "reportReady"
    <2>2. PICK metrics \in {FALSE, ready /\ MetricsEnabled} :
             PatchStatus(work, projectMetricsStatus(Composed(work, ready), metrics), {})
      BY <1>3 DEF ReportStatus
    <2>3. ready \in BOOLEAN /\ metrics \in BOOLEAN
      OBVIOUS
    <2> DEFINE n == projectMetricsStatus(Composed(work, ready), metrics)
    <2>4. /\ n \in Object
          /\ conditionTrue(n, "Ready") =>
                ready /\ n.conditions["Ready"].generation = work.generation
      BY <1>2, <2>3, ReportMeta
    <2>5. PatchStatus(work, n, {})
      BY <2>2
    <2> HIDE DEF n
    <2> QED
      BY <1>1, <2>3, <2>4, <2>5, PatchStatusEffect
  <1>4. CASE Fail
    <2> DEFINE failed == SetStatusCondition(work, "Ready", "False", "Failed")
    <2>1. failed \in Object /\ ~conditionTrue(failed, "Ready")
      BY <1>2, SetType, SetMeta, SMT DEF ConditionTypes, Reasons, conditionTrue
    <2>2. \/ PatchStatus(work, failed, {})
          \/ /\ Exists(obj)
             /\ Write([obj EXCEPT !.conditions = failed.conditions], {})
      BY <1>4 DEF Fail
    <2> HIDE DEF failed
    <2>3. CASE PatchStatus(work, failed, {})
      BY <1>1, <2>1, <2>3, PatchStatusEffect
    <2>4. CASE Exists(obj) /\ Write([obj EXCEPT !.conditions = failed.conditions], {})
      <3> DEFINE new == [obj EXCEPT !.conditions = failed.conditions]
      <3>1. new \in Object /\ SameMeta(obj, new) /\ new.conditions = failed.conditions
        BY <1>2, <2>1 DEF Object, SameMeta
      <3>2. Write(new, {}) /\ Exists(obj)
        BY <2>4
      <3> HIDE DEF new
      <3>3. StatusEffect(new)
        BY <2>1, <3>1, <3>2 DEF StatusEffect, conditionTrue
      <3> QED
        BY <1>1, <3>1, <3>3
    <2> QED
      BY <2>2, <2>3, <2>4
  <1>5. CASE Forget
    <2>1. Tombstone(work) \in Object /\ ~conditionTrue(Tombstone(work), "Ready")
      BY <1>2, TombstoneType, TombstoneMark DEF TypeOK
    <2>2. PatchStatus(work, Tombstone(work), {})
      BY <1>5 DEF Forget
    <2> QED
      BY <1>1, <2>1, <2>2, PatchStatusEffect
  <1> QED
    BY <1>3, <1>4, <1>5

\* MarkExpiring: patches the object and refreshes the reconcile's copy from it,
\* goes on with the copy it read, or gives up.
LEMMA MarkExpiringEffect ==
    ASSUME TypeOK, MarkExpiring
    PROVE  /\ UNCHANGED <<now, cache, lastUid, ns, nsOwner, controls, release, handoff>>
           /\ \/ UNCHANGED <<obj, feed, current>> /\ pc' = "idle" /\ expired' = FALSE
              \/ /\ UNCHANGED <<obj, feed, current>> /\ pc' = "export" /\ expired' = expired
                 /\ work' \in Object /\ SameMeta(work, work')
              \/ /\ pc' = "export" /\ expired' = expired
                 /\ \E new \in Object :
                       /\ Exists(obj) /\ Write(new, {"work"}) /\ SameMeta(obj, new) /\ work' = new
                       /\ new.conditions["Ready"] \in
                             {obj.conditions["Ready"], work.conditions["Ready"]}
  <1> DEFINE expiring == SetStatusCondition(work, "Expiring", "True", "TTLExpired")
  <1>1. work \in Object /\ obj \in Object
    BY DEF TypeOK
  <1>2. /\ expiring \in Object /\ SameMeta(work, expiring)
        /\ expiring.conditions["Ready"] = work.conditions["Ready"]
    BY <1>1, SetType, SetMeta, SMT DEF ConditionTypes, Reasons
  <1>3. UNCHANGED <<now, cache, lastUid, ns, nsOwner, controls, release, handoff>>
    BY DEF MarkExpiring, service, host, virtual
  <1>4. \/ /\ Exists(obj)
           /\ Write(MergePatch(obj, work, expiring), {"work"})
           /\ work' = MergePatch(obj, work, expiring)
           /\ Goto("export")
        \/ work' = expiring /\ UNCHANGED server /\ Goto("export")
        \/ UNCHANGED server /\ Return(TRUE)
    BY DEF MarkExpiring
  <1> HIDE DEF expiring
  <1>5. CASE /\ Exists(obj)
             /\ Write(MergePatch(obj, work, expiring), {"work"})
             /\ work' = MergePatch(obj, work, expiring)
             /\ Goto("export")
    <2> DEFINE new == MergePatch(obj, work, expiring)
    <2>1. /\ new \in Object /\ SameMeta(obj, new)
          /\ new.conditions \in {obj.conditions, expiring.conditions}
      BY <1>1, <1>2, MergePatchType, MergePatchMeta
    <2>2. Exists(obj) /\ Write(new, {"work"}) /\ work' = new /\ Goto("export")
      BY <1>5
    <2> HIDE DEF new
    <2>3. new.conditions["Ready"] \in {obj.conditions["Ready"], work.conditions["Ready"]}
      BY <1>2, <2>1
    <2> QED
      BY <1>3, <2>1, <2>2, <2>3 DEF Goto
  <1>6. CASE work' = expiring /\ UNCHANGED server /\ Goto("export")
    BY <1>2, <1>3, <1>6 DEF server, Goto
  <1>7. CASE UNCHANGED server /\ Return(TRUE)
    BY <1>3, <1>7 DEF server, Return
  <1> QED
    BY <1>4, <1>5, <1>6, <1>7

\* The other writes to the object: renewal, deletion, finalizer.
Renewed(new) ==
    /\ Exists(obj) /\ Write(new, {})
    /\ new.uid = obj.uid /\ new.generation = obj.generation + 1
    /\ new.deleting = obj.deleting /\ new.finalizer = obj.finalizer
    /\ new.conditions = obj.conditions

Deleted(new) ==
    /\ Exists(obj) /\ Write(new, {})
    /\ \/ new = NotFound /\ ~obj.finalizer
       \/ new = obj /\ obj.finalizer /\ obj.deleting
       \/ /\ new.uid = obj.uid /\ new.generation = obj.generation + 1
          /\ new.deleting /\ new.finalizer /\ obj.finalizer
          /\ new.expiresAt = obj.expiresAt /\ new.conditions = obj.conditions

Finalized(new) ==
    /\ Write(new, {})
    /\ new.uid = obj.uid /\ new.generation = obj.generation /\ new.expiresAt = obj.expiresAt
    /\ new.deleting = obj.deleting /\ new.finalizer
    /\ new.conditions = obj.conditions

\* Deletion raises the generation, or removes an object without a finalizer.
LEMMA MarkDeletedEffect ==
    ASSUME TypeOK, Exists(obj), Write(MarkDeleted(obj), {})
    PROVE  \E new \in Object : Deleted(new)
  <1>1. obj \in Object /\ obj.generation + 1 \in Nat
    <2>1. obj \in Object /\ obj.generation \in Nat
      BY DEF TypeOK, Object
    <2> QED
      BY <2>1, SMT
  <1>2. CASE ~obj.finalizer
    BY <1>2, NotFoundType DEF MarkDeleted, Deleted
  <1>3. CASE obj.finalizer /\ obj.deleting
    BY <1>1, <1>3 DEF MarkDeleted, Deleted
  <1>4. CASE obj.finalizer /\ ~obj.deleting
    <2> DEFINE new == [obj EXCEPT !.deleting = TRUE, !.generation = obj.generation + 1]
    <2>1. /\ new \in Object
          /\ new.uid = obj.uid /\ new.generation = obj.generation + 1
          /\ new.deleting /\ new.finalizer = obj.finalizer
          /\ new.expiresAt = obj.expiresAt /\ new.conditions = obj.conditions
      BY <1>1 DEF Object
    <2>2. Write(new, {})
      BY <1>4 DEF MarkDeleted
    <2> HIDE DEF new
    <2> QED
      BY <1>4, <2>1, <2>2 DEF Deleted
  <1> QED
    BY <1>2, <1>3, <1>4

\* A renewal that goes through raises generation and expiry.
LEMMA RenewEffect ==
    ASSUME TypeOK, RenewalInv, NEW c \in Callers, RenewWrite(c)
    PROVE  /\ UNCHANGED <<now, cache, lastUid, pc, work, expired, ns, nsOwner, controls,
                          release, handoff>>
           /\ \/ UNCHANGED <<obj, feed, current>>
              \/ \E new \in Object : Renewed(new) /\ new.expiresAt = renewal[c]
  <1>1. /\ obj \in Object /\ obj.generation + 1 \in Nat /\ renewal[c] \in Nat
    <2>1. obj \in Object /\ obj.generation \in Nat
      BY DEF TypeOK, Object
    <2>2. renewal[c] \in Nat
      BY DEF TypeOK
    <2> QED
      BY <2>1, <2>2, SMT
  <1>2. UNCHANGED <<now, cache, lastUid, pc, work, expired, ns, nsOwner, controls, release, handoff>>
    BY DEF RenewWrite, controller, host, virtual
  <1>3. CASE c \notin current
    BY <1>2, <1>3 DEF RenewWrite, server
  <1>4. CASE c \in current /\ Exists(obj)
    <2> DEFINE new == [obj EXCEPT !.expiresAt = renewal[c], !.generation = obj.generation + 1]
    <2>1. /\ new \in Object
          /\ new.uid = obj.uid /\ new.generation = obj.generation + 1
          /\ new.deleting = obj.deleting /\ new.finalizer = obj.finalizer
          /\ new.conditions = obj.conditions /\ new.expiresAt = renewal[c]
      BY <1>1 DEF Object
    <2>2. Write(new, {})
      BY <1>4 DEF RenewWrite
    <2> HIDE DEF new
    <2> QED
      BY <1>2, <1>4, <2>1, <2>2 DEF Renewed
  <1>5. c \in current => Exists(obj)
    BY DEF RenewWrite, RenewalInv
  <1> QED
    BY <1>3, <1>4, <1>5

\* Adding the finalizer changes nothing else.
LEMMA FinalizerEffect ==
    ASSUME TypeOK, AddFinalizer
    PROVE  /\ UNCHANGED <<now, cache, lastUid, ns, nsOwner, controls, release, handoff>>
           /\ pc' = "idle" /\ expired' = FALSE
           /\ \/ UNCHANGED <<obj, feed, current>>
              \/ "work" \in current /\ \E new \in Object : Finalized(new)
  <1>1. /\ UNCHANGED <<now, cache, lastUid, ns, nsOwner, controls, release, handoff>>
        /\ pc' = "idle" /\ expired' = FALSE
    BY DEF AddFinalizer, Return, service, host, virtual
  <1>2. CASE "work" \notin current
    BY <1>1, <1>2 DEF AddFinalizer, server
  <1>3. CASE "work" \in current
    <2> DEFINE new == [obj EXCEPT !.finalizer = TRUE]
    <2>1. /\ new \in Object
          /\ new.uid = obj.uid /\ new.generation = obj.generation
          /\ new.expiresAt = obj.expiresAt /\ new.deleting = obj.deleting /\ new.finalizer
          /\ new.conditions = obj.conditions
      BY DEF TypeOK, Object
    <2>2. Write(new, {})
      BY <1>3 DEF AddFinalizer
    <2> HIDE DEF new
    <2> QED
      BY <1>1, <1>3, <2>1, <2>2 DEF Finalized
  <1> QED
    BY <1>2, <1>3

\* Removing the finalizer lets the object go, or meets a newer version.
LEMMA ReleaseEffect ==
    ASSUME TypeOK, RemoveFinalizer
    PROVE  /\ UNCHANGED <<now, cache, lastUid, ns, nsOwner, controls, release, handoff>>
           /\ pc = "removeFinalizer" /\ pc' = "idle" /\ expired' = FALSE
           /\ \/ UNCHANGED <<obj, feed, current>>
              \/ "work" \in current /\ Write(NotFound, {})
  BY DEF RemoveFinalizer, Return, service, host, virtual, server

\* The service's Delete marks the object or removes it.
LEMMA DeleteEffect ==
    ASSUME TypeOK, Delete
    PROVE  /\ UNCHANGED <<now, cache, lastUid, pc, work, expired, ns, nsOwner, controls,
                          release, handoff>>
           /\ \E new \in Object : Deleted(new)
  <1>1. UNCHANGED <<now, cache, lastUid, pc, work, expired, ns, nsOwner, controls, release, handoff>>
    BY DEF Delete, service, controller, host, virtual
  <1>2. Exists(obj) /\ Write(MarkDeleted(obj), {})
    BY DEF Delete
  <1> QED
    BY <1>1, <1>2, MarkDeletedEffect

\* So does the controller's deletion of a tombstone.
LEMMA ReapEffect ==
    ASSUME TypeOK, ReapTombstone
    PROVE  /\ UNCHANGED <<now, cache, lastUid, ns, nsOwner, controls, release, handoff>>
           /\ pc' = "idle" /\ expired' = FALSE
           /\ \/ UNCHANGED <<obj, feed, current>>
              \/ \E new \in Object : Deleted(new)
  <1>1. /\ UNCHANGED <<now, cache, lastUid, ns, nsOwner, controls, release, handoff>>
        /\ pc' = "idle" /\ expired' = FALSE
    BY DEF ReapTombstone, Return, service, host, virtual
  <1>2. CASE ~Exists(obj)
    BY <1>1, <1>2 DEF ReapTombstone, server
  <1>3. CASE Exists(obj)
    <2>1. Write(MarkDeleted(obj), {})
      BY <1>3 DEF ReapTombstone
    <2> QED
      BY <1>1, <1>3, <2>1, MarkDeletedEffect
  <1> QED
    BY <1>2, <1>3

\* Where a reconcile starts, by what it read.
LEMMA ReconcileEffect ==
    ASSUME TypeOK, ChainInv, Reconcile
    PROVE  /\ Still /\ UNCHANGED <<now, ns, nsOwner, controls, release, handoff>>
           /\ pc = "idle"
           /\ \/ pc' = "idle" /\ expired' = FALSE
              \/ /\ work' = cache /\ Exists(cache)
                 /\ "work" \in current' => cache = obj
                 /\ \/ pc' = "export" /\ cache.deleting /\ expired' = FALSE
                    \/ pc' = "reap" /\ expired' = FALSE
                    \/ /\ pc' = "markExpiring" /\ ~cache.deleting /\ now >= cache.expiresAt
                       /\ expired' = TRUE
                    \/ pc' = "addFinalizer" /\ expired' = FALSE
                    \/ /\ pc' = "boundary" /\ ~cache.deleting /\ cache.finalizer
                       /\ expired' = FALSE
  <1>1. /\ Still /\ UNCHANGED <<now, ns, nsOwner, controls, release, handoff>> /\ pc = "idle"
        /\ pc' = Route(cache) /\ expired' = (Route(cache) = "markExpiring")
        /\ work' = IF Route(cache) = "idle" THEN NotFound ELSE cache
    BY DEF Reconcile, Still, service, host, virtual
  <1>2. "work" \in current' => feed = <<>>
    BY DEF Reconcile
  <1>3. feed = <<>> => cache = obj
    BY DEF ChainInv, Version
  <1>4. \/ Route(cache) = "idle"
        \/ Route(cache) = "export" /\ cache.deleting /\ Exists(cache)
        \/ Route(cache) = "reap" /\ Exists(cache)
        \/ Route(cache) = "markExpiring" /\ ~cache.deleting /\ now >= cache.expiresAt /\ Exists(cache)
        \/ Route(cache) = "addFinalizer" /\ Exists(cache)
        \/ Route(cache) = "boundary" /\ ~cache.deleting /\ cache.finalizer /\ Exists(cache)
    BY DEF Route
  <1> QED
    BY <1>1, <1>2, <1>3, <1>4

\* Every step is one of these.
LEMMA StepKinds ==
    ASSUME [Next]_vars
    PROVE  \/ Outside \/ Local \/ ReportStatus \/ Fail \/ Forget \/ MarkExpiring
           \/ \E ttl \in TTLs : Create(ttl)
           \/ \E c \in Callers : RenewWrite(c)
           \/ Delete \/ ReapTombstone \/ AddFinalizer \/ RemoveFinalizer \/ Reconcile
           \/ WatchObject \/ Restart
  BY DEF Next, Service, Controller, Provision, finalize, Faults, Informers, Cluster,
     Outside, Local

---------------------------------------------------------------------------
(* The versions between cache and server.                                  *)

\* A status patch, a renewal, a deletion and the finalizer advance the object.
LEMMA Advances ==
    ASSUME TypeOK, NEW new \in Object
    PROVE  /\ StatusEffect(new) => Advance(obj, new)
           /\ Exists(obj) /\ SameMeta(obj, new) => Advance(obj, new)
           /\ Renewed(new) => Advance(obj, new)
           /\ Deleted(new) => Advance(obj, new)
           /\ Exists(obj) /\ Finalized(new) => Advance(obj, new)
  <1>1. obj \in Object /\ obj.generation \in Nat
    BY DEF TypeOK, Object
  <1>2. /\ obj.generation <= obj.generation /\ obj.generation <= obj.generation + 1
        /\ obj.generation # obj.generation + 1
    BY <1>1, SMT
  <1>3. SameMeta(obj, new) => Precedes(obj, new)
    BY <1>2 DEF SameMeta, Precedes
  <1>4. Renewed(new) => Precedes(obj, new)
    BY <1>2 DEF Renewed, Precedes
  <1>5. Deleted(new) => new = NotFound \/ Precedes(obj, new)
    BY <1>2 DEF Deleted, Precedes
  <1>6. Finalized(new) => Precedes(obj, new)
    BY <1>2 DEF Finalized, Precedes
  <1> QED
    BY <1>3, <1>4, <1>5, <1>6
    DEF StatusEffect, SameMeta, Renewed, Deleted, Finalized, Advance

\* The order of the versions is kept by every step.
LEMMA ChainStep ==
    ASSUME TypeOK, ChainInv, RenewalInv, WorkInv, [Next]_vars
    PROVE  ChainInv'
  <1>1. CASE Outside
    BY <1>1, OutsideEffect, ChainStill
  <1>2. CASE Local
    BY <1>2, LocalEffect, ChainStill
  <1>3. CASE ReportStatus \/ Fail \/ Forget
    <2>1. cache' = cache /\ lastUid' = lastUid
      BY <1>3, ReportEffect
    <2>2. CASE UNCHANGED <<obj, feed, current>>
      BY <2>1, <2>2, ChainStill DEF Still
    <2>3. CASE \E new \in Object : StatusEffect(new)
      BY <2>1, <2>3, Advances, ChainWrite DEF StatusEffect
    <2> QED
      BY <1>3, <2>2, <2>3, ReportEffect
  <1>4. CASE MarkExpiring
    <2>1. cache' = cache /\ lastUid' = lastUid
      BY <1>4, MarkExpiringEffect
    <2>2. CASE UNCHANGED <<obj, feed, current>>
      BY <2>1, <2>2, ChainStill DEF Still
    <2>3. CASE \E new \in Object : Exists(obj) /\ Write(new, {"work"}) /\ SameMeta(obj, new)
      BY <2>1, <2>3, Advances, ChainWrite
    <2> QED
      BY <1>4, <2>2, <2>3, MarkExpiringEffect
  <1>5. CASE \E ttl \in TTLs : Create(ttl)
    BY <1>5, ChainCreate
  <1>6. CASE \E c \in Callers : RenewWrite(c)
    <2>1. /\ cache' = cache /\ lastUid' = lastUid
          /\ \/ UNCHANGED <<obj, feed, current>>
             \/ \E new \in Object : Renewed(new)
      BY <1>6, RenewEffect
    <2>2. CASE UNCHANGED <<obj, feed, current>>
      BY <2>1, <2>2, ChainStill DEF Still
    <2>3. CASE \E new \in Object : Renewed(new)
      BY <2>1, <2>3, Advances, ChainWrite DEF Renewed
    <2> QED
      BY <2>1, <2>2, <2>3
  <1>7. CASE Delete \/ ReapTombstone
    <2>1. /\ cache' = cache /\ lastUid' = lastUid
          /\ \/ UNCHANGED <<obj, feed, current>>
             \/ \E new \in Object : Deleted(new)
      BY <1>7, DeleteEffect, ReapEffect
    <2>2. CASE UNCHANGED <<obj, feed, current>>
      BY <2>1, <2>2, ChainStill DEF Still
    <2>3. CASE \E new \in Object : Deleted(new)
      BY <2>1, <2>3, Advances, ChainWrite DEF Deleted
    <2> QED
      BY <2>1, <2>2, <2>3
  <1>8. CASE AddFinalizer
    <2>1. cache' = cache /\ lastUid' = lastUid
      BY <1>8, FinalizerEffect
    <2>2. CASE UNCHANGED <<obj, feed, current>>
      BY <2>1, <2>2, ChainStill DEF Still
    <2>3. CASE "work" \in current /\ \E new \in Object : Finalized(new)
      <3>1. Exists(obj)
        BY <1>8, <2>3 DEF AddFinalizer, WorkInv, Exists
      <3> QED
        BY <2>1, <2>3, <3>1, Advances, ChainWrite DEF Finalized
    <2> QED
      BY <1>8, <2>2, <2>3, FinalizerEffect
  <1>9. CASE RemoveFinalizer
    <2>1. cache' = cache /\ lastUid' = lastUid
      BY <1>9, ReleaseEffect
    <2>2. CASE UNCHANGED <<obj, feed, current>>
      BY <2>1, <2>2, ChainStill DEF Still
    <2>3. CASE Write(NotFound, {})
      BY <2>1, <2>3, NotFoundType, ChainWrite DEF Advance
    <2> QED
      BY <1>9, <2>2, <2>3, ReleaseEffect
  <1>10. CASE Reconcile
    BY <1>10, ReconcileEffect, ChainStill
  <1>11. CASE WatchObject
    BY <1>11, ChainWatch
  <1>12. CASE Restart
    BY <1>12, ChainRestart
  <1> QED
    BY <1>1, <1>2, <1>3, <1>4, <1>5, <1>6, <1>7, <1>8, <1>9, <1>10, <1>11, <1>12, StepKinds

---------------------------------------------------------------------------
(* Renewals.                                                               *)

\* A write by anyone else puts every renewal out of date, unless it writes what
\* is there.
LEMMA RenewalWrite ==
    ASSUME RenewalInv, NEW new, NEW holders, holders \subseteq {"work"}, Write(new, holders),
           renewal' = renewal
    PROVE  RenewalInv'
  BY ConstantsAssumption DEF RenewalInv, Write, Exists, conditionTrue

\* Where neither the object nor a renewal changes, nothing is to be shown.
LEMMA RenewalStill ==
    ASSUME RenewalInv, obj' = obj, renewal' = renewal,
           \A c \in Callers : c \in current' => c \in current
    PROVE  RenewalInv'
  BY DEF RenewalInv, Exists, conditionTrue

\* Every step keeps what a renewal in flight relies on.
LEMMA RenewalStep ==
    ASSUME TypeOK, RenewalInv, [Next]_vars
    PROVE  RenewalInv'
  <1>1. CASE \E c \in Callers : \E ttl \in TTLs : RenewRead(c, ttl)
    <2>1. PICK c \in Callers, ttl \in TTLs : RenewRead(c, ttl)
      BY <1>1
    <2>2. /\ obj' = obj /\ Exists(obj) /\ ~conditionTrue(obj, "Forgotten")
          /\ now + ttl > obj.expiresAt
          /\ renewal' = [renewal EXCEPT ![c] = now + ttl] /\ current' = current \cup {c}
      BY <2>1 DEF RenewRead
    <2>3. renewal \in [Callers -> Nat]
      BY DEF TypeOK
    <2> QED
      BY <2>2, <2>3 DEF RenewalInv, Exists, conditionTrue
  <1>2. CASE Outside /\ ~(\E c \in Callers : \E ttl \in TTLs : RenewRead(c, ttl))
    <2>1. UNCHANGED <<obj, renewal, current>>
      BY <1>2 DEF Outside, Tick, WatchNamespace, WatchEvidence, NamespaceGone, CollectNamespace,
         PublishEvidence, vars, server, service
    <2> QED
      BY <2>1, RenewalStill
  <1>3. CASE Local
    <2>1. UNCHANGED <<obj, renewal, current>>
      BY <1>3 DEF Local, EnsureNamespace, NamespaceRefused, EnsureControl, ControlRefused,
         BoundaryFault, ExportWhileLive, AskReady,
         EnsureVCluster, EnsureFails, ReportFault, ExportBeforeTeardown, Uninstall,
         UninstallFails, deleteNamespace, CallFails, server, service
    <2> QED
      BY <2>1, RenewalStill
  <1>4. CASE ReportStatus \/ Fail \/ Forget
    <2>1. renewal' = renewal
      BY <1>4 DEF ReportStatus, Fail, Forget, service
    <2> QED
      BY <1>4, <2>1, ReportEffect, RenewalStill, RenewalWrite DEF StatusEffect
  <1>5. CASE MarkExpiring
    <2>1. renewal' = renewal
      BY <1>5 DEF MarkExpiring, service
    <2>2. CASE UNCHANGED <<obj, feed, current>>
      BY <2>1, <2>2, RenewalStill
    <2>3. CASE \E new \in Object : Write(new, {"work"})
      BY <2>1, <2>3, RenewalWrite
    <2> QED
      BY <1>5, <2>2, <2>3, MarkExpiringEffect
  <1>6. CASE \E ttl \in TTLs : Create(ttl)
    <2>1. PICK ttl \in TTLs : Create(ttl)
      BY <1>6
    <2>2. Write(NewObject(lastUid + 1, now + ttl), {}) /\ renewal' = renewal
      BY <2>1 DEF Create
    <2> QED
      BY <2>2, RenewalWrite, SMT
  <1>7. CASE \E c \in Callers : RenewWrite(c)
    <2>1. PICK c \in Callers : RenewWrite(c)
      BY <1>7
    <2>2. renewal' = [renewal EXCEPT ![c] = 0] /\ renewal \in [Callers -> Nat]
      BY <2>1 DEF RenewWrite, TypeOK
    <2>3. CASE UNCHANGED <<obj, feed, current>>
      BY <2>2, <2>3 DEF RenewalInv, Exists, conditionTrue
    <2>4. CASE \E new \in Object : Renewed(new)
      <3>1. PICK new \in Object : Renewed(new)
        BY <2>4
      <3>2. obj.generation \in Nat
        BY DEF TypeOK, Object
      <3>3. current' = {}
        BY <3>1, <3>2, SMT DEF Renewed, Write
      <3> QED
        BY <3>3 DEF RenewalInv
    <2> QED
      BY <2>1, <2>3, <2>4, RenewEffect
  <1>8. CASE Delete \/ ReapTombstone
    <2>1. renewal' = renewal
      BY <1>8 DEF Delete, ReapTombstone, service
    <2> QED
      BY <1>8, <2>1, DeleteEffect, ReapEffect, RenewalStill, RenewalWrite DEF Deleted
  <1>9. CASE AddFinalizer \/ RemoveFinalizer
    <2>1. renewal' = renewal
      BY <1>9 DEF AddFinalizer, RemoveFinalizer, service
    <2> QED
      BY <1>9, <2>1, FinalizerEffect, ReleaseEffect, RenewalStill, RenewalWrite DEF Finalized
  <1>10. CASE Reconcile
    <2>1. obj' = obj /\ renewal' = renewal /\ current' \subseteq current \cup {"work"}
      BY <1>10 DEF Reconcile, service
    <2> QED
      BY <2>1, RenewalStill, ConstantsAssumption
  <1>11. CASE WatchObject \/ Restart
    <2>1. UNCHANGED <<obj, renewal, current>>
      BY <1>11 DEF WatchObject, Restart, service
    <2> QED
      BY <2>1, RenewalStill
  <1> QED
    BY <1>1, <1>2, <1>3, <1>4, <1>5, <1>6, <1>7, <1>8, <1>9, <1>10, <1>11, StepKinds

---------------------------------------------------------------------------
(* The finalizer.                                                          *)

\* A write that keeps the finalizer of the incarnation, or finds none to keep.
Keeps(new) == ~obj.finalizer \/ (new.uid = obj.uid /\ new.finalizer)

\* A write that keeps the finalizer where it is relied on keeps that reliance.
LEMMA HeldKept ==
    ASSUME NEW o, NEW new, Held(o, obj), Keeps(new)
    PROVE  Held(o, new)
  BY DEF Held, Keeps

\* The kinds of writes that do.
LEMMA Kept ==
    ASSUME NEW new
    PROVE  /\ SameMeta(obj, new) => Keeps(new)
           /\ StatusEffect(new) => Keeps(new)
           /\ Renewed(new) => Keeps(new)
           /\ Deleted(new) => Keeps(new)
           /\ Finalized(new) => Keeps(new)
  BY DEF Keeps, SameMeta, StatusEffect, Renewed, Deleted, Finalized

\* It does so for every version.
LEMMA HeldWrite ==
    ASSUME TypeOK, ChainInv, FinalizerInv, NEW new \in Object, NEW holders,
           Write(new, holders), cache' = cache, Keeps(new)
    PROVE  \A i \in Indices' : Held(Version(i)', obj')
  <1>1. /\ obj' = new
        /\ Version(Len(feed))' = new
        /\ \A i \in Indices' : \/ i \in Indices /\ Version(i)' = Version(i)
                               \/ i \notin Indices /\ i = Len(feed)' /\ Version(i)' = new
    BY WriteVersions
  <1>2. \A i \in Indices : Held(Version(i), new)
    BY HeldKept DEF FinalizerInv
  <1>3. Held(new, new)
    BY DEF Held
  <1> QED
    BY <1>1, <1>2, <1>3

\* A step that leaves the versions alone does, too.
LEMMA HeldStill ==
    ASSUME FinalizerInv, Still
    PROVE  \A i \in Indices' : Held(Version(i)', obj')
  BY DEF FinalizerInv, Still, Version, Indices, Held

\* Only the controller takes the finalizer off, at the end of a deletion.
LEMMA FinalizerStep ==
    ASSUME TypeOK, ChainInv, RenewalInv, FinalizerInv, WorkInv, [Next]_vars
    PROVE  FinalizerInv'
  <1>1. CASE Outside
    <2>1. Still /\ UNCHANGED <<pc, work>>
      BY <1>1, OutsideEffect
    <2>2. \A i \in Indices' : Held(Version(i)', obj')
      BY <2>1, HeldStill
    <2> QED
      BY <2>1, <2>2 DEF FinalizerInv, Still, Held
  <1>2. CASE Local
    <2>1. Still
      BY <1>2, LocalEffect
    <2>2. \A i \in Indices' : Held(Version(i)', obj')
      BY <2>1, HeldStill
    <2>3. CASE pc' = "idle"
      BY <2>2, <2>3 DEF FinalizerInv, Provisioning
    <2>4. CASE pc \in Provisioning /\ pc' \in Provisioning /\ (work' = work \/ work' = Composed(work, TRUE))
      <3>1. SameMeta(work, Composed(work, TRUE))
        BY ComposedMeta DEF TypeOK
      <3>2. SameMeta(work, work')
        BY <2>4, <3>1 DEF SameMeta
      <3>3. pc # "idle"
        BY <2>4 DEF Provisioning
      <3> QED
        BY <2>1, <2>2, <2>4, <3>2, <3>3 DEF FinalizerInv, Still, Held, SameMeta
    <2>5. CASE /\ pc \in {"export", "uninstall", "deleteNamespace"} /\ work' = work
               /\ pc' \in {"uninstall", "deleteNamespace", "forget", "removeFinalizer"}
      BY <2>1, <2>2, <2>5 DEF FinalizerInv, Still, Held, Provisioning
    <2> QED
      BY <1>2, <2>3, <2>4, <2>5, LocalEffect
  <1>3. CASE ReportStatus \/ Fail \/ Forget
    <2>1. cache' = cache /\ lastUid' = lastUid /\ pc' = "idle"
      BY <1>3, ReportEffect
    <2>2. \A i \in Indices' : Held(Version(i)', obj')
      <3>1. CASE UNCHANGED <<obj, feed, current>>
        BY <2>1, <3>1, HeldStill DEF Still
      <3>2. CASE \E new \in Object : StatusEffect(new)
        BY <2>1, <3>2, Kept, HeldWrite DEF StatusEffect
      <3> QED
        BY <1>3, <3>1, <3>2, ReportEffect
    <2> QED
      BY <2>1, <2>2 DEF FinalizerInv, Provisioning
  <1>4. CASE MarkExpiring
    <2>1. /\ cache' = cache /\ lastUid' = lastUid /\ pc' \in {"idle", "export"}
          /\ pc = "markExpiring"
      BY <1>4, MarkExpiringEffect DEF MarkExpiring
    <2>2. CASE UNCHANGED <<obj, feed, current>> /\ (pc' = "idle" \/ SameMeta(work, work'))
      <3>1. \A i \in Indices' : Held(Version(i)', obj')
        BY <2>1, <2>2, HeldStill DEF Still
      <3> QED
        BY <2>1, <2>2, <3>1 DEF FinalizerInv, Provisioning, Held, SameMeta
    <2>3. CASE \E new \in Object : Write(new, {"work"}) /\ SameMeta(obj, new) /\ work' = new
      <3>1. PICK new \in Object : Write(new, {"work"}) /\ SameMeta(obj, new) /\ work' = new
        BY <2>3
      <3>2. \A i \in Indices' : Held(Version(i)', obj')
        BY <2>1, <3>1, Kept, HeldWrite
      <3>3. obj' = new
        BY <3>1 DEF Write
      <3> QED
        BY <2>1, <3>1, <3>2, <3>3 DEF FinalizerInv, Provisioning, Held
    <2> QED
      BY <1>4, <2>2, <2>3, MarkExpiringEffect
  <1>5. CASE \E ttl \in TTLs : Create(ttl)
    <2>1. PICK ttl \in TTLs : Create(ttl)
      BY <1>5
    <2> DEFINE new == NewObject(lastUid + 1, now + ttl)
    <2>2. Write(new, {}) /\ cache' = cache /\ ~Exists(obj) /\ UNCHANGED <<pc, work>>
      BY <2>1 DEF Create, controller
    <2>3. new \in Object
      <3>1. lastUid + 1 \in Nat /\ now + ttl \in Nat
        BY ConstantsAssumption, SMT DEF TypeOK
      <3> QED
        BY <3>1, NewObjectType
    <2> HIDE DEF new
    <2>4. ~obj.finalizer
      <3>1. Len(feed) \in Indices
        BY SMT DEF TypeOK, Indices
      <3> QED
        BY <2>2, <3>1, NotFoundFields DEF ChainInv, Exists
    <2>5. \A i \in Indices' : Held(Version(i)', obj')
      BY <2>2, <2>3, <2>4, HeldWrite DEF Keeps
    <2>6. pc # "idle" => Held(work, obj')
      BY <2>4 DEF FinalizerInv, Held
    <2> QED
      BY <2>2, <2>5, <2>6 DEF FinalizerInv, Held
  <1>6. CASE (\E c \in Callers : RenewWrite(c)) \/ Delete
    <2>1. /\ cache' = cache /\ lastUid' = lastUid /\ UNCHANGED <<pc, work>>
          /\ \/ UNCHANGED <<obj, feed, current>>
             \/ \E new \in Object : Renewed(new) \/ Deleted(new)
      BY <1>6, RenewEffect, DeleteEffect
    <2>2. CASE UNCHANGED <<obj, feed, current>>
      BY <2>1, <2>2, HeldStill DEF FinalizerInv, Still, Held
    <2>3. CASE \E new \in Object : Renewed(new) \/ Deleted(new)
      <3>1. PICK new \in Object : Renewed(new) \/ Deleted(new)
        BY <2>3
      <3>2. Write(new, {}) /\ Keeps(new) /\ obj' = new
        BY <3>1, Kept DEF Renewed, Deleted, Write
      <3>3. \A i \in Indices' : Held(Version(i)', obj')
        BY <2>1, <3>2, HeldWrite
      <3>4. pc # "idle" => Held(work, obj')
        BY <3>2, HeldKept DEF FinalizerInv
      <3> QED
        BY <2>1, <3>3, <3>4 DEF FinalizerInv, Held
    <2> QED
      BY <2>1, <2>2, <2>3
  <1>7. CASE ReapTombstone \/ AddFinalizer
    <2>1. /\ cache' = cache /\ lastUid' = lastUid /\ pc' = "idle"
          /\ \/ UNCHANGED <<obj, feed, current>>
             \/ \E new \in Object : Deleted(new) \/ Finalized(new)
      BY <1>7, ReapEffect, FinalizerEffect
    <2>2. \A i \in Indices' : Held(Version(i)', obj')
      <3>1. CASE UNCHANGED <<obj, feed, current>>
        BY <2>1, <3>1, HeldStill DEF Still
      <3>2. CASE \E new \in Object : Deleted(new) \/ Finalized(new)
        BY <2>1, <3>2, Kept, HeldWrite DEF Deleted, Finalized
      <3> QED
        BY <2>1, <3>1, <3>2
    <2> QED
      BY <2>1, <2>2 DEF FinalizerInv, Provisioning
  <1>8. CASE RemoveFinalizer
    <2>1. /\ cache' = cache /\ lastUid' = lastUid /\ pc' = "idle" /\ pc = "removeFinalizer"
      BY <1>8, ReleaseEffect
    <2>2. \A i \in Indices' : Held(Version(i)', obj')
      <3>1. CASE UNCHANGED <<obj, feed, current>>
        BY <2>1, <3>1, HeldStill DEF Still
      <3>2. CASE "work" \in current /\ Write(NotFound, {})
        <4>1. work.uid = obj.uid /\ ~expired
          BY <2>1, <3>2 DEF WorkInv
        <4>2. \A i \in Indices : Version(i).uid = obj.uid => Version(i).deleting
          BY <2>1, <4>1 DEF WorkInv, Teardown
        <4>3. \A i \in Indices : Held(Version(i), obj)
          BY DEF FinalizerInv
        <4>4. \A i \in Indices : Held(Version(i), NotFound)
          BY <4>2, <4>3 DEF Held
        <4>5. /\ obj' = NotFound
              /\ Version(Len(feed))' = NotFound
              /\ \A i \in Indices' :
                    \/ i \in Indices /\ Version(i)' = Version(i)
                    \/ i \notin Indices /\ i = Len(feed)' /\ Version(i)' = NotFound
          BY <2>1, <3>2, NotFoundType, WriteVersions
        <4> QED
          BY <4>4, <4>5, NotFoundFields DEF Held
      <3> QED
        BY <1>8, <3>1, <3>2, ReleaseEffect
    <2> QED
      BY <2>1, <2>2 DEF FinalizerInv, Provisioning
  <1>9. CASE Reconcile
    <2>1. Still
      BY <1>9, ReconcileEffect
    <2>2. \A i \in Indices' : Held(Version(i)', obj')
      BY <2>1, HeldStill
    <2>3. CASE pc' = "idle"
      BY <2>2, <2>3 DEF FinalizerInv, Provisioning
    <2>4. CASE pc' # "idle"
      <3>1. /\ work' = cache
            /\ pc' \in Provisioning => ~cache.deleting /\ cache.finalizer
        BY <1>9, <2>4, ReconcileEffect DEF Provisioning
      <3>2. Held(cache, obj)
        <4>1. 0 \in Indices /\ Version(0) = cache
          BY FirstVersions
        <4> QED
          BY <4>1 DEF FinalizerInv
      <3> QED
        BY <2>1, <2>2, <3>1, <3>2 DEF FinalizerInv, Still, Held
    <2> QED
      BY <2>3, <2>4
  <1>10. CASE WatchObject
    <2>1. UNCHANGED <<obj, pc, work>>
      BY <1>10 DEF WatchObject
    <2>2. \A i \in Indices' : Held(Version(i)', obj)
      BY <1>10, WatchVersions DEF FinalizerInv
    <2> QED
      BY <2>1, <2>2 DEF FinalizerInv, Held
  <1>11. CASE Restart
    <2>1. /\ pc' = "idle" /\ Indices' = {0} /\ Version(0)' = obj /\ obj' = obj
      BY <1>11, RestartVersions DEF Restart
    <2> QED
      BY <2>1 DEF FinalizerInv, Provisioning, Held
  <1> QED
    BY <1>1, <1>2, <1>3, <1>4, <1>5, <1>6, <1>7, <1>8, <1>9, <1>10, <1>11, StepKinds

---------------------------------------------------------------------------
(* What the reconcile knows.                                               *)

\* Between reconciles there is nothing to know.
LEMMA WorkIdle ==
    ASSUME pc' = "idle", expired' = FALSE
    PROVE  WorkInv'
  BY DEF WorkInv, Provisioning, AsRead, Teardown

\* What the last version says is what the server says.
LEMMA LastVersion ==
    ASSUME TypeOK, ChainInv
    PROVE  /\ Len(feed) \in Indices /\ Version(Len(feed)) = obj
           /\ 0 \in Indices /\ Version(0) = cache
           /\ obj.uid <= lastUid /\ Precedes(cache, obj)
           /\ ~Exists(obj) => obj = NotFound
  <1>1. Len(feed) \in Indices /\ 0 \in Indices /\ Version(0) = cache
    BY SMT DEF TypeOK, Indices, Version
  <1>2. Version(Len(feed)) = obj
    BY DEF ChainInv
  <1> QED
    BY <1>1, <1>2 DEF ChainInv, Exists

\* Someone else's write, while a reconcile runs.
LEMMA WorkWrite ==
    ASSUME TypeOK, ChainInv, WorkInv, NEW new \in Object, Write(new, {}), Advance(obj, new),
           UNCHANGED <<now, cache, lastUid, pc, work, expired>>
    PROVE  WorkInv'
  <1>1. /\ obj' = new
        /\ Version(Len(feed))' = new
        /\ \A i \in Indices' : \/ i \in Indices /\ Version(i)' = Version(i)
                               \/ i \notin Indices /\ i = Len(feed)' /\ Version(i)' = new
    BY WriteVersions
  <1>2. pc # "idle" => work.uid # 0 /\ NotFound.uid = 0
    BY NotFoundFields DEF WorkInv, Exists
  <1>3. \/ Exists(obj) /\ new.uid = obj.uid /\ Precedes(obj, new)
        \/ new = NotFound
    BY DEF Advance
  <1>4. "work" \in current' => "work" \in current /\ new = obj
    BY DEF Write
  <1>5. pc \in AsRead => Precedes(work, new)
    <2>1. work \in Object /\ obj \in Object
      BY DEF TypeOK
    <2>2. pc \in AsRead => pc # "idle"
      BY DEF AsRead, Provisioning
    <2>3. CASE new = NotFound
      BY <1>2, <2>2, <2>3 DEF Precedes
    <2>4. CASE Exists(obj) /\ new.uid = obj.uid /\ Precedes(obj, new)
      BY <2>1, <2>4, PrecedesTransitive DEF WorkInv
    <2> QED
      BY <1>3, <2>3, <2>4
  <1>6. pc \in AsRead /\ Exists(new) /\ work.uid = new.uid =>
           cache.uid = work.uid /\ work.generation <= cache.generation
    BY <1>3, NotFoundFields DEF WorkInv
  <1>7. pc \in Teardown /\ ~expired =>
           \A i \in Indices' : Version(i)'.uid = work.uid => Version(i)'.deleting
    <2>1. pc \in Teardown => pc # "idle"
      BY DEF Teardown
    <2>2. pc \in Teardown /\ ~expired /\ new.uid = work.uid => new.deleting
      <3>1. pc \in Teardown /\ ~expired /\ obj.uid = work.uid => obj.deleting
        BY LastVersion DEF WorkInv
      <3> QED
        BY <1>2, <1>3, <2>1, <3>1 DEF Precedes
    <2> QED
      BY <1>1, <2>2 DEF WorkInv
  <1> QED
    BY <1>1, <1>4, <1>5, <1>6, <1>7 DEF WorkInv, Precedes, Exists

\* A step beside the reconcile leaves true what it knows.
LEMMA WorkStill ==
    ASSUME TypeOK, WorkInv, Still, UNCHANGED <<pc, work, expired>>,
           "work" \in current' => "work" \in current, now' \in Nat, now' >= now
    PROVE  WorkInv'
  <1>1. work \in Object /\ now \in Nat /\ work.expiresAt \in Nat
    BY DEF TypeOK, Object
  <1>2. pc = "markExpiring" => now' >= work.expiresAt
    BY <1>1, SMT DEF WorkInv
  <1> QED
    BY <1>2 DEF WorkInv, Still, Version, Indices, Precedes, Exists

\* Every step keeps what a reconcile knows of the object it read.
LEMMA WorkStep ==
    ASSUME TypeOK, TypeOK', ChainInv, RenewalInv, FinalizerInv, WorkInv, [Next]_vars
    PROVE  WorkInv'
  <1>1. CASE Outside
    <2>1. now' \in Nat
      BY DEF TypeOK
    <2> QED
      BY <1>1, <2>1, OutsideEffect, WorkStill
  <1>2. CASE Local
    <2>1. Still /\ UNCHANGED <<now, current>>
      BY <1>2, LocalEffect
    <2>2. CASE pc' = "idle" /\ expired' = FALSE
      BY <2>2, WorkIdle
    <2>3. CASE /\ expired' = expired /\ pc \in Provisioning /\ pc' \in Provisioning
               /\ (work' = work \/ work' = Composed(work, TRUE))
      <3>1. SameMeta(work, Composed(work, TRUE))
        BY ComposedMeta DEF TypeOK
      <3>2. SameMeta(work, work')
        BY <2>3, <3>1 DEF SameMeta
      <3>3. pc # "idle" /\ pc \in AsRead /\ pc' # "markExpiring" /\ pc' \notin Teardown
        BY <2>3 DEF Provisioning, AsRead, Teardown
      <3> QED
        BY <2>1, <2>3, <3>2, <3>3 DEF WorkInv, Still, SameMeta, Precedes, Exists, Provisioning
    <2>4. CASE /\ expired' = expired /\ work' = work
               /\ pc \in {"export", "uninstall", "deleteNamespace"}
               /\ \/ pc' \in {"uninstall", "deleteNamespace"}
                  \/ pc' = "forget" /\ expired
                  \/ pc' = "removeFinalizer" /\ ~expired
      BY <2>1, <2>4 DEF WorkInv, Still, Version, Indices, Teardown, AsRead, Provisioning, Exists
    <2> QED
      BY <1>2, <2>2, <2>3, <2>4, LocalEffect
  <1>3. CASE \/ ReportStatus \/ Fail \/ Forget \/ ReapTombstone \/ AddFinalizer
             \/ RemoveFinalizer \/ Restart
    <2>1. pc' = "idle" /\ expired' = FALSE
      BY <1>3 DEF ReportStatus, Fail, Forget, ReapTombstone, AddFinalizer, RemoveFinalizer,
         Restart, Return
    <2> QED
      BY <2>1, WorkIdle
  <1>4. CASE MarkExpiring
    <2>1. pc = "markExpiring" /\ expired /\ Exists(work) /\ work.uid <= lastUid
      BY <1>4 DEF MarkExpiring, WorkInv
    <2>2. lastUid' = lastUid
      BY <1>4, MarkExpiringEffect
    <2>3. CASE pc' = "idle" /\ expired' = FALSE
      BY <2>3, WorkIdle
    <2>4. CASE UNCHANGED <<obj, feed, current>> /\ pc' = "export" /\ expired' = expired /\ SameMeta(work, work')
      BY <2>1, <2>2, <2>4 DEF WorkInv, SameMeta, Exists, Teardown, AsRead, Provisioning
    <2>5. CASE /\ pc' = "export" /\ expired' = expired
               /\ \E new \in Object :
                     Exists(obj) /\ Write(new, {"work"}) /\ SameMeta(obj, new) /\ work' = new
      <3>1. PICK new \in Object :
               Exists(obj) /\ Write(new, {"work"}) /\ SameMeta(obj, new) /\ work' = new
        BY <2>5
      <3>2. obj' = new /\ obj.uid <= lastUid
        BY <3>1, LastVersion DEF Write
      <3> QED
        BY <2>1, <2>2, <2>5, <3>1, <3>2 DEF WorkInv, SameMeta, Exists, Teardown, AsRead,
           Provisioning
    <2> QED
      BY <1>4, <2>3, <2>4, <2>5, MarkExpiringEffect
  <1>5. CASE \E ttl \in TTLs : Create(ttl)
    <2>1. PICK ttl \in TTLs : Create(ttl)
      BY <1>5
    <2> DEFINE new == NewObject(lastUid + 1, now + ttl)
    <2>2. /\ Write(new, {}) /\ cache' = cache /\ ~Exists(obj) /\ lastUid' = lastUid + 1
          /\ UNCHANGED <<now, pc, work, expired>>
      BY <2>1 DEF Create, controller
    <2>3. new \in Object /\ new.uid = lastUid + 1 /\ lastUid \in Nat /\ work.uid \in Nat
      <3>1. lastUid + 1 \in Nat /\ now + ttl \in Nat
        BY ConstantsAssumption, SMT DEF TypeOK
      <3> QED
        BY <3>1, NewObjectType DEF NewObject, TypeOK, Object
    <2> HIDE DEF new
    <2>4. /\ obj' = new
          /\ Version(Len(feed))' = new
          /\ \A i \in Indices' : \/ i \in Indices /\ Version(i)' = Version(i)
                                 \/ i \notin Indices /\ i = Len(feed)' /\ Version(i)' = new
      BY <2>2, <2>3, WriteVersions
    <2>5. current' = {}
      BY <2>2, <2>3, SMT DEF Write, Exists
    <2>6. pc # "idle" => work.uid # new.uid /\ work.uid <= lastUid + 1
      BY <2>3, SMT DEF WorkInv
    <2>7. pc \in AsRead \cup Teardown => pc # "idle"
      BY DEF AsRead, Provisioning, Teardown
    <2>8. pc \in Teardown /\ ~expired =>
             \A i \in Indices' : Version(i)'.uid = work.uid => Version(i)'.deleting
      BY <2>4, <2>6, <2>7 DEF WorkInv
    <2> QED
      BY <2>2, <2>4, <2>5, <2>6, <2>7, <2>8 DEF WorkInv, Precedes, Exists
  <1>6. CASE (\E c \in Callers : RenewWrite(c)) \/ Delete
    <2>1. /\ UNCHANGED <<now, cache, lastUid, pc, work, expired>>
          /\ \/ UNCHANGED <<obj, feed, current>>
             \/ \E new \in Object : Renewed(new) \/ Deleted(new)
      BY <1>6, RenewEffect, DeleteEffect
    <2>2. CASE UNCHANGED <<obj, feed, current>>
      <3>1. now' \in Nat /\ now' >= now
        BY <2>1, SMT DEF TypeOK
      <3> QED
        BY <2>1, <2>2, <3>1, WorkStill DEF Still
    <2>3. CASE \E new \in Object : Renewed(new) \/ Deleted(new)
      BY <2>1, <2>3, Advances, WorkWrite DEF Renewed, Deleted
    <2> QED
      BY <2>1, <2>2, <2>3
  <1>7. CASE Reconcile
    <2>1. Still /\ now' = now
      BY <1>7, ReconcileEffect
    <2>2. CASE pc' = "idle" /\ expired' = FALSE
      BY <2>2, WorkIdle
    <2>3. CASE /\ work' = cache /\ Exists(cache)
               /\ "work" \in current' => cache = obj
               /\ \/ pc' = "export" /\ cache.deleting /\ expired' = FALSE
                  \/ pc' = "reap" /\ expired' = FALSE
                  \/ /\ pc' = "markExpiring" /\ ~cache.deleting /\ now >= cache.expiresAt
                     /\ expired' = TRUE
                  \/ pc' = "addFinalizer" /\ expired' = FALSE
                  \/ /\ pc' = "boundary" /\ ~cache.deleting /\ cache.finalizer
                     /\ expired' = FALSE
      <3>1. cache.uid <= lastUid /\ Precedes(cache, obj) /\ cache.generation <= cache.generation
        <4>1. cache.uid <= lastUid /\ Precedes(cache, obj)
          BY LastVersion DEF ChainInv
        <4>2. cache.generation \in Nat
          BY DEF TypeOK, Object
        <4> QED
          BY <4>1, <4>2, SMT
      <3>2. cache.deleting => \A i \in Indices : Version(i).uid = cache.uid => Version(i).deleting
        <4>1. \A i \in Indices : 0 <= i
          BY SMT DEF Indices
        <4>2. \A i \in Indices : Precedes(cache, Version(i))
          BY <4>1, LastVersion DEF ChainInv
        <4> QED
          BY <4>2 DEF Precedes
      <3>3. cache.deleting => \A i \in Indices' : Version(i)'.uid = cache.uid => Version(i)'.deleting
        BY <2>1, <3>2 DEF Still, Version, Indices
      <3> QED
        BY <2>1, <2>3, <3>1, <3>3 DEF WorkInv, Still, AsRead, Provisioning, Teardown, Exists,
           Precedes
    <2> QED
      BY <1>7, <2>2, <2>3, ReconcileEffect
  <1>8. CASE WatchObject
    <2>1. UNCHANGED <<now, obj, lastUid, current, pc, work, expired>>
      BY <1>8 DEF WatchObject, service
    <2>2. /\ Len(feed) \in Nat \ {0}
          /\ Len(feed)' = Len(feed) - 1
          /\ \A i \in Indices' : i + 1 \in Indices /\ Version(i)' = Version(i + 1)
      BY <1>8, WatchVersions
    <2>3. pc \in Teardown /\ ~expired =>
             \A i \in Indices' : Version(i)'.uid = work.uid => Version(i)'.deleting
      BY <2>2 DEF WorkInv
    <2>4. 1 \in Indices /\ cache' = Version(1)
      BY <1>8, FirstVersions DEF WatchObject
    <2>5. /\ Precedes(cache, Version(1))
          /\ Exists(obj) /\ cache.uid = obj.uid => Version(1).uid = obj.uid
      BY <2>4, LastVersion, SMT DEF ChainInv
    <2>6. pc \in AsRead /\ Exists(obj) /\ work.uid = obj.uid =>
             cache'.uid = work.uid /\ work.generation <= cache'.generation
      <3>1. cache \in Object /\ work \in Object /\ Version(1) \in Object
        BY <2>4, VersionTypes DEF TypeOK
      <3>2. work.generation \in Nat /\ cache.generation \in Nat /\ Version(1).generation \in Nat
        BY <3>1 DEF Object
      <3>3. pc \in AsRead /\ Exists(obj) /\ work.uid = obj.uid =>
               cache.uid = work.uid /\ work.generation <= cache.generation
        BY DEF WorkInv
      <3>4. /\ Exists(obj) /\ cache.uid = obj.uid => Version(1).uid = obj.uid
            /\ Version(1).uid = cache.uid => cache.generation <= Version(1).generation
        BY <2>5 DEF Precedes
      <3>5. pc \in AsRead /\ Exists(obj) /\ work.uid = obj.uid =>
               Version(1).uid = work.uid /\ cache.generation <= Version(1).generation
        BY <3>3, <3>4
      <3>6. pc \in AsRead /\ Exists(obj) /\ work.uid = obj.uid =>
               Version(1).uid = work.uid /\ work.generation <= Version(1).generation
        BY <3>2, <3>3, <3>5, SMT
      <3> QED
        BY <2>4, <3>6
    <2> QED
      BY <2>1, <2>3, <2>6 DEF WorkInv, Precedes, Exists
  <1> QED
    BY <1>1, <1>2, <1>3, <1>4, <1>5, <1>6, <1>7, <1>8, StepKinds

=============================================================================

----------------------------- MODULE Oubliette -----------------------------
(***************************************************************************)
(* The life of one Oubliette name: the root object at the API server, the  *)
(* lifecycle service that creates, renews and deletes it                   *)
(* (internal/lifecycle), and the controller that provisions and tears      *)
(* down what it owns (internal/controller), working from informer caches   *)
(* that may lag behind the server.                                         *)
(*                                                                         *)
(* A reconcile is split at every call to the API server, Helm or the       *)
(* evidence store, so that the service, the watches, the clock, a failing  *)
(* call and a controller restart can fall between any two of them.         *)
(***************************************************************************)
EXTENDS Naturals, Sequences

CONSTANTS
    MaxTime,       \* bound on the clock, and on every expiry asked for
    MaxUid,        \* bound on the incarnations of the name
    MaxBehind,     \* bound on the versions the watch is behind
    MaxFaults,     \* bound on failing calls and controller restarts
    Callers,       \* calls of Renew that may be in flight at once
    TTLs,          \* lifetimes a caller asks for, in clock units
    Retention,     \* TombstoneRetention
    NumControls,   \* objects ensureBoundary creates inside the namespace
    MetricsEnabled,\* MetricsProfile.Enabled
    Bundles,       \* evidence runs a collector may publish
    BadBundles,    \* those the exporter rejects (mutable, malformed, foreign)
    Lagging        \* dependent informers that may lag: "namespace", "evidence"

ASSUME ConstantsAssumption ==
    /\ MaxTime \in Nat /\ MaxUid \in Nat /\ MaxBehind \in Nat /\ MaxFaults \in Nat
    /\ TTLs \subseteq Nat \ {0}
    /\ "work" \notin Callers
    /\ Retention \in Nat \ {0} /\ NumControls \in Nat
    /\ MetricsEnabled \in BOOLEAN
    /\ BadBundles \subseteq Bundles
    /\ Lagging \subseteq {"namespace", "evidence"}

VARIABLES
    now,           \* the wall clock
    obj,           \* the root object at the API server
    lastUid,       \* the last UID the API server handed out
    cache,         \* the controller's informer copy of the root object
    feed,          \* the later versions the watch has still to deliver, in order
    current,       \* the copies whose resourceVersion is still the server's
    renewal,       \* the expiry each Renew in flight will write; 0 when none
    queued,        \* the work queue holds the key, or a requeue timer runs
    pc,            \* where the reconcile in progress stands
    work,          \* the reconcile's own copy of the root object
    startNow,      \* the time the reconcile read when it began
    expired,       \* finalize's parameter of that name
    ns, nsOwner,   \* the derived namespace and the UID that controls it
    nsSeen,        \* the informer's view of the namespace
    controls,      \* how many of the boundary objects the namespace holds
    release,       \* the vCluster Helm release is installed
    handoff,       \* the handoff identity has been made in the control plane that answers
    pending,       \* evidence runs pending in the namespace, as <<bundle, uid>>
    pendingSeen,   \* the informer's view of them
    listed,        \* history: runs listed while the namespace was active
    exported,      \* runs in the evidence store
    lost,          \* history: runs that went with a namespace, not exported
    faults         \* failures and restarts so far

service    == <<lastUid, renewal>>
controller == <<queued, pc, work, startNow, expired>>
host       == <<ns, nsOwner, nsSeen, controls>>
virtual    == <<release, handoff>>
evidence   == <<pending, pendingSeen, listed, exported, lost>>
server     == <<obj, current, feed>>
vars == <<now, server, cache, service, controller, host, virtual, evidence, faults>>

---------------------------------------------------------------------------
(* The root object.                                                        *)

ConditionTypes == {"Provisioned", "Ready", "MetricsReady", "Expiring", "Forgotten"}

Condition == [status: {"Unset", "True", "False"},
              reason: {"", "ReleaseInstalled", "VirtualHandoffReady",
                       "VirtualHandoffStarting", "Failed", "TTLExpired",
                       "Forgotten", "MetricsReady", "MetricsNotReady",
                       "TTLTeardownComplete"},
              generation: Nat]

\* uid 0 stands for NotFound; forgottenAt 0 for a nil timestamp.
Object == [uid: Nat, generation: Nat, expiresAt: Nat,
           deleting: BOOLEAN, finalizer: BOOLEAN,
           observedGeneration: Nat, virtualEndpoint: BOOLEAN,
           forgottenAt: Nat, conditions: [ConditionTypes -> Condition]]

NewObject(uid, expiresAt) ==
    [uid |-> uid, generation |-> 1, expiresAt |-> expiresAt,
     deleting |-> FALSE, finalizer |-> FALSE,
     observedGeneration |-> 0, virtualEndpoint |-> FALSE, forgottenAt |-> 0,
     conditions |-> [t \in ConditionTypes |->
                       [status |-> "Unset", reason |-> "", generation |-> 0]]]

NotFound == NewObject(0, 0)

Exists(o) == o.uid # 0

conditionTrue(o, type) == o.conditions[type].status = "True"

SetStatusCondition(o, type, status, reason) ==
    [o EXCEPT !.conditions[type] =
        [status |-> status, reason |-> reason, generation |-> o.generation]]

\* Mutation of project: a Ready condition of any generation counts.
project_AnyGeneration(o) ==
    IF o.deleting THEN "Deleting"
    ELSE IF conditionTrue(o, "Forgotten") THEN "Forgotten"
    ELSE IF conditionTrue(o, "Expiring") THEN "Expiring"
    ELSE IF conditionTrue(o, "Ready") THEN "Ready"
    ELSE "Provisioning"

\* The phase a caller is shown, in the order the switch tests.
project(o) ==
    IF o.deleting THEN "Deleting"
    ELSE IF conditionTrue(o, "Forgotten") THEN "Forgotten"
    ELSE IF conditionTrue(o, "Expiring") THEN "Expiring"
    ELSE IF /\ conditionTrue(o, "Ready")
            /\ o.conditions["Ready"].generation = o.generation
            /\ o.observedGeneration = o.generation THEN "Ready"
    ELSE "Provisioning"

---------------------------------------------------------------------------
(* The API server, as the code in src/ uses it.                            *)

\* A status patch built with MergeFrom(base) carries the fields that differ
\* from base, a changed condition list as a whole, and no resourceVersion.
MergePatch(o, base, new) ==
    [o EXCEPT
       !.observedGeneration = IF new.observedGeneration = base.observedGeneration
                              THEN @ ELSE new.observedGeneration,
       !.virtualEndpoint = IF new.virtualEndpoint = base.virtualEndpoint
                           THEN @ ELSE new.virtualEndpoint,
       !.forgottenAt = IF new.forgottenAt = base.forgottenAt
                       THEN @ ELSE new.forgottenAt,
       !.conditions = IF new.conditions = base.conditions
                      THEN @ ELSE new.conditions]

\* Deleting an object with a finalizer marks it; without one, removes it.
MarkDeleted(o) ==
    IF ~o.finalizer THEN NotFound
    ELSE IF o.deleting THEN o
    ELSE [o EXCEPT !.deleting = TRUE, !.generation = @ + 1]

\* Every write that changes the object makes all other copies out of date and
\* is an event of the watch.
Write(new, holders) ==
    /\ new = obj \/ Len(feed) < MaxBehind
    /\ obj' = new
    /\ current' = IF new = obj THEN current \cup holders ELSE holders
    /\ feed' = IF new = obj THEN feed ELSE Append(feed, new)

---------------------------------------------------------------------------
(* The environment: clock, watches, namespace controller, collector.       *)

Tick ==
    /\ now < MaxTime
    /\ now' = now + 1
    /\ UNCHANGED <<server, cache, service, controller, host, virtual, evidence, faults>>

\* The informer takes the next version of the root object, and enqueues the key.
WatchObject ==
    /\ feed # <<>>
    /\ cache' = Head(feed)
    /\ feed' = Tail(feed)
    /\ queued' = TRUE
    /\ UNCHANGED <<now, obj, current, service, pc, work, startNow, expired, host, virtual,
                   evidence, faults>>

WatchNamespace ==
    /\ "namespace" \in Lagging /\ nsSeen # ns
    /\ nsSeen' = ns
    /\ UNCHANGED <<now, server, cache, service, controller, ns, nsOwner, controls,
                   virtual, evidence, faults>>

WatchEvidence ==
    /\ "evidence" \in Lagging /\ pendingSeen # pending
    /\ pendingSeen' = pending
    /\ UNCHANGED <<now, server, cache, service, controller, host, virtual,
                   pending, listed, exported, lost, faults>>

\* What a cached read of a dependent object returns.
NamespaceRead == IF "namespace" \in Lagging THEN nsSeen ELSE ns
EvidenceRead == IF "evidence" \in Lagging THEN pendingSeen ELSE pending

\* The namespace controller finishes a deletion: what is inside goes with it.
NamespaceGone ==
    /\ ns = "terminating"
    /\ ns' = "absent" /\ nsOwner' = 0 /\ controls' = 0
    /\ release' = FALSE /\ handoff' = FALSE
    /\ pending' = {}
    /\ lost' = lost \cup (pending \ exported)
    /\ UNCHANGED <<now, server, cache, service, controller, nsSeen, pendingSeen,
                   listed, exported, faults>>

\* The garbage collector deletes a namespace whose owner no longer exists.
CollectNamespace ==
    /\ ns = "active" /\ nsOwner # obj.uid
    /\ ns' = "terminating"
    /\ UNCHANGED <<now, server, cache, service, controller, nsOwner, nsSeen,
                   controls, virtual, evidence, faults>>

\* A collector leaves an evidence run in the namespace, with its owner's UID.
PublishEvidence(b) ==
    /\ ns = "active"
    /\ \A run \in pending \cup exported \cup lost : run[1] # b
    /\ pending' = pending \cup {<<b, nsOwner>>}
    /\ UNCHANGED <<now, server, cache, service, controller, host, virtual,
                   pendingSeen, listed, exported, lost, faults>>

---------------------------------------------------------------------------
(* The lifecycle service.  It reads the API server directly.               *)

\* Create; when the name is taken it only projects the existing object.
Create(ttl) ==
    /\ ~Exists(obj) /\ lastUid < MaxUid
    /\ now + ttl <= MaxTime
    /\ lastUid' = lastUid + 1
    /\ Write(NewObject(lastUid + 1, now + ttl), {})
    /\ UNCHANGED <<now, cache, renewal, controller, host, virtual, evidence, faults>>

\* Renew reads the object, refuses a Forgotten one, and goes on to write only
\* when the candidate is later than the expiry it read.
RenewRead(c, ttl) ==
    /\ renewal[c] = 0
    /\ Exists(obj) /\ ~conditionTrue(obj, "Forgotten")
    /\ now + ttl <= MaxTime
    /\ now + ttl > obj.expiresAt
    /\ renewal' = [renewal EXCEPT ![c] = now + ttl]
    /\ current' = current \cup {c}
    /\ UNCHANGED <<now, obj, feed, cache, lastUid, controller, host, virtual, evidence, faults>>

\* Mutation of RenewWrite: a write that does not notice a conflict.
RenewWrite_LastWins(c) ==
    /\ renewal[c] # 0
    /\ renewal' = [renewal EXCEPT ![c] = 0]
    /\ IF Exists(obj)
       THEN Write([obj EXCEPT !.expiresAt = renewal[c], !.generation = @ + 1], {})
       ELSE UNCHANGED server
    /\ UNCHANGED <<now, cache, lastUid, controller, host, virtual, evidence, faults>>

\* Its Update carries the resourceVersion it read, and otherwise conflicts.
RenewWrite(c) ==
    /\ renewal[c] # 0
    /\ renewal' = [renewal EXCEPT ![c] = 0]
    /\ IF c \in current
       THEN Write([obj EXCEPT !.expiresAt = renewal[c], !.generation = @ + 1], {})
       ELSE UNCHANGED server
    /\ UNCHANGED <<now, cache, lastUid, controller, host, virtual, evidence, faults>>

\* Delete checks ownership on a read and then deletes by name, unconditionally.
Delete ==
    /\ Exists(obj) /\ ~obj.deleting
    /\ Write(MarkDeleted(obj), {})
    /\ UNCHANGED <<now, cache, service, controller, host, virtual, evidence, faults>>

---------------------------------------------------------------------------
(* The controller.                                                         *)

\* A reconcile returns: with a requeue, a timer or an error the key comes back.
Return(requeue) ==
    /\ pc' = "idle"
    /\ queued' = (queued \/ requeue)
    /\ work' = NotFound /\ startNow' = 0 /\ expired' = FALSE
Goto(label) ==
    /\ pc' = label
    /\ UNCHANGED <<queued, startNow, expired>>

\* Where Reconcile goes with the object it read, by its early returns.
Route(o) ==
    IF ~Exists(o) THEN "idle"
    ELSE IF o.deleting THEN "export"
    ELSE IF conditionTrue(o, "Forgotten")
         THEN IF o.forgottenAt # 0 /\ now >= o.forgottenAt + Retention
              THEN "reap" ELSE "idle"
    ELSE IF now >= o.expiresAt THEN "markExpiring"
    ELSE IF ~o.finalizer THEN "addFinalizer"
    ELSE "boundary"

\* Mutation of Reconcile: a tombstone in its retention is not looked at again.
Reconcile_ForgetsTombstone ==
    /\ pc = "idle" /\ queued
    /\ pc' = Route(cache)
    /\ queued' = FALSE
    /\ work' = IF Route(cache) = "idle" THEN NotFound ELSE cache
    /\ startNow' = IF Route(cache) = "idle" THEN 0 ELSE now
    /\ expired' = (Route(cache) = "markExpiring")
    /\ current' = IF feed = <<>> /\ Route(cache) # "idle"
                  THEN current \cup {"work"} ELSE current \ {"work"}
    /\ UNCHANGED <<now, obj, feed, cache, service, host, virtual, evidence, faults>>

\* Reconcile takes the key off the queue and reads the cached object.  A
\* tombstone still in its retention requeues; an object not found does not.
Reconcile ==
    /\ pc = "idle" /\ queued
    /\ pc' = Route(cache)
    /\ queued' = (Route(cache) = "idle" /\ Exists(cache))
    /\ work' = IF Route(cache) = "idle" THEN NotFound ELSE cache
    /\ startNow' = IF Route(cache) = "idle" THEN 0 ELSE now
    /\ expired' = (Route(cache) = "markExpiring")
    /\ current' = IF feed = <<>> /\ Route(cache) # "idle"
                  THEN current \cup {"work"} ELSE current \ {"work"}
    /\ UNCHANGED <<now, obj, feed, cache, service, host, virtual, evidence, faults>>

\* The retention of a tombstone is over: delete it by name.
ReapTombstone ==
    /\ pc = "reap"
    /\ IF Exists(obj) THEN Write(MarkDeleted(obj), {}) ELSE UNCHANGED server
    /\ Return(TRUE)
    /\ UNCHANGED <<now, cache, service, host, virtual, evidence, faults>>

\* Update with the finalizer added, or a conflict; either way the key requeues.
AddFinalizer ==
    /\ pc = "addFinalizer"
    /\ IF "work" \in current
       THEN Write([obj EXCEPT !.finalizer = TRUE], {})
       ELSE UNCHANGED server
    /\ Return(TRUE)
    /\ UNCHANGED <<now, cache, service, host, virtual, evidence, faults>>

\* ensureBoundary, the namespace: created, or taken over from whichever
\* incarnation of the name controlled it, since an owner reference is compared by
\* kind and name.  A namespace that is going away can still be updated; and one
\* that has gone is left alone when the cached copy needs no update.
EnsureNamespace ==
    /\ pc = "boundary"
    /\ \/ /\ NamespaceRead = "absent" /\ ns = "absent"
          /\ ns' = "active" /\ nsOwner' = work.uid
       \/ /\ NamespaceRead # "absent"
          /\ nsOwner' = IF ns = "absent" THEN nsOwner ELSE work.uid
          /\ UNCHANGED ns
    /\ Goto("controls")
    /\ UNCHANGED <<now, server, cache, service, work, nsSeen, controls, virtual, evidence,
                   faults>>

\* The cache does not know the namespace the server has, or has an old copy of it.
NamespaceRefused ==
    /\ pc = "boundary"
    /\ \/ NamespaceRead = "absent" /\ ns # "absent"
       \/ NamespaceRead # "absent" /\ "namespace" \in Lagging
    /\ Goto("fail")
    /\ UNCHANGED <<now, server, cache, service, work, host, virtual, evidence, faults>>

\* Mutation of EnsureControl: the objects are created anew on every reconcile.
EnsureControl_Duplicates ==
    /\ pc = "controls"
    /\ \/ /\ ns = "active" /\ controls' = controls + 1
          /\ UNCHANGED <<pc, queued, startNow, expired>>
       \/ controls >= NumControls /\ UNCHANGED controls /\ Goto("exportLive")
    /\ UNCHANGED <<now, server, cache, service, work, ns, nsOwner, nsSeen, virtual,
                   evidence, faults>>

\* The objects in it, one CreateOrUpdate each.  What the caches show is not created
\* again: in a namespace that is no longer active they still show what was there.
\* What went with an earlier namespace they have seen go before it is made again.
EnsureControl ==
    /\ pc = "controls"
    /\ \/ /\ ns = "active" /\ controls < NumControls
          /\ controls' = controls + 1
          /\ UNCHANGED <<pc, queued, startNow, expired>>
       \/ /\ controls = NumControls \/ ns # "active"
          /\ UNCHANGED controls
          /\ Goto("exportLive")
    /\ UNCHANGED <<now, server, cache, service, work, ns, nsOwner, nsSeen, virtual,
                   evidence, faults>>

\* A namespace that is not active takes no new objects, and an update of an old
\* copy conflicts.
ControlRefused ==
    /\ pc = "controls" /\ (ns # "active" \/ "namespace" \in Lagging)
    /\ Goto("fail")
    /\ UNCHANGED <<now, server, cache, service, work, host, virtual, evidence, faults>>

\* One of its calls fails.
BoundaryFault ==
    /\ pc \in {"boundary", "controls"} /\ faults < MaxFaults
    /\ faults' = faults + 1
    /\ Goto("fail")
    /\ UNCHANGED <<now, server, cache, service, work, host, virtual, evidence>>

\* ExportBeforeTeardown lists the pending runs and puts each in the store; the
\* first one rejected, or failing to be stored, ends it with an error.
Rejected == {run \in EvidenceRead : run[1] \in BadBundles \/ run[2] # work.uid}

Listing ==
    listed' = IF ns = "active" THEN listed \cup (EvidenceRead \cap pending) ELSE listed

ExportAll ==
    /\ Rejected = {}
    /\ Listing
    /\ exported' = exported \cup EvidenceRead
    /\ UNCHANGED faults

ExportStopsEarly ==
    /\ \/ Rejected # {} /\ UNCHANGED faults
       \/ faults < MaxFaults /\ faults' = faults + 1
    /\ Listing
    /\ \E done \in SUBSET (EvidenceRead \ Rejected) : exported' = exported \cup done

ExportWhileLive ==
    /\ pc = "exportLive"
    /\ \/ ExportAll /\ Goto("ensure")
       \/ ExportStopsEarly /\ Goto("fail")
    /\ UNCHANGED <<now, server, cache, service, work, host, virtual,
                   pending, pendingSeen, lost>>

\* VCluster.Ensure: install the release when there is none, and otherwise try
\* to put the handoff identity in place, which waits for the virtual API.  The
\* control plane of a release just removed may answer until its pod has gone.
EnsureVCluster ==
    /\ pc = "ensure" /\ (release \/ ns = "active")
    /\ release' = TRUE
    /\ handoff' \in {handoff, release}
    /\ Goto("report")
    /\ UNCHANGED <<now, server, cache, service, work, host, evidence, faults>>

\* A failed call may still have installed the release or the identity.
EnsureFails ==
    /\ pc = "ensure"
    /\ \/ /\ ~release /\ ns # "active"
          /\ UNCHANGED <<virtual, faults>>
       \/ /\ faults < MaxFaults /\ faults' = faults + 1
          /\ release' \in {release, release \/ ns = "active"}
          /\ handoff' \in {handoff, release}
    /\ Goto("fail")
    /\ UNCHANGED <<now, server, cache, service, work, host, evidence>>

\* The status Reconcile composes once it knows whether the handoff is ready,
\* and what projectMetricsStatus adds to it.
Composed(o, ready) ==
    LET seen == [o EXCEPT !.observedGeneration = o.generation,
                          !.virtualEndpoint = TRUE]
        installed == SetStatusCondition(seen, "Provisioned", "True", "ReleaseInstalled")
    IN  IF ready
        THEN SetStatusCondition(installed, "Ready", "True", "VirtualHandoffReady")
        ELSE SetStatusCondition(installed, "Ready", "False", "VirtualHandoffStarting")

projectMetricsStatus(o, metrics) ==
    IF metrics
    THEN SetStatusCondition(o, "MetricsReady", "True", "MetricsReady")
    ELSE SetStatusCondition(o, "MetricsReady", "False", "MetricsNotReady")

\* A patch of the status of whatever object has the name now.
PatchStatus(base, new, holders) ==
    IF Exists(obj) THEN Write(MergePatch(obj, base, new), holders)
                   ELSE UNCHANGED server

\* Mutation of AskReady: an API that answers is ready.
AskReady_AnyAnswer ==
    /\ pc = "report"
    /\ \E ready \in BOOLEAN : Goto(IF ready THEN "reportReady" ELSE "reportStarting")
    /\ UNCHANGED <<now, server, cache, service, work, host, virtual, evidence, faults>>

\* Ready asks the virtual API, which answers yes only for a handoff that was made,
\* and may answer no at any time.
AskReady ==
    /\ pc = "report"
    /\ \E ready \in {FALSE, handoff} :
          Goto(IF ready THEN "reportReady" ELSE "reportStarting")
    /\ UNCHANGED <<now, server, cache, service, work, host, virtual, evidence, faults>>

\* Mutation of ReportStatus: no timer wakes the controller at the expiry.
ReportStatus_NoTimer ==
    /\ pc \in {"reportReady", "reportStarting"}
    /\ LET ready == pc = "reportReady"
       IN  \E metrics \in {FALSE, ready /\ MetricsEnabled} :
              PatchStatus(work, projectMetricsStatus(Composed(work, ready), metrics), {})
    /\ Return(FALSE)
    /\ UNCHANGED <<now, cache, service, host, virtual, evidence, faults>>

\* The rest of Reconcile: metrics readiness, looked up once the handoff is ready,
\* and the status patch.
ReportStatus ==
    /\ pc \in {"reportReady", "reportStarting"}
    /\ LET ready == pc = "reportReady"
       IN  \E metrics \in {FALSE, ready /\ MetricsEnabled} :
              PatchStatus(work, projectMetricsStatus(Composed(work, ready), metrics), {})
    /\ Return(TRUE)
    /\ UNCHANGED <<now, cache, service, host, virtual, evidence, faults>>

\* Ready fails before the status is composed, the metrics lookup after it, with
\* the composed status already in the reconcile's copy; or the patch fails.
ReportFault ==
    /\ faults < MaxFaults /\ faults' = faults + 1
    /\ \/ /\ pc = "report"
          /\ Goto("fail") /\ UNCHANGED work
       \/ /\ pc = "reportReady" /\ MetricsEnabled
          /\ Goto("fail")
          /\ work' = Composed(work, TRUE)
       \/ /\ pc \in {"reportReady", "reportStarting"}
          /\ Return(TRUE)
    /\ UNCHANGED <<now, server, cache, service, host, virtual, evidence>>

\* fail: a best-effort patch of Ready=False; its error is dropped.  Two failures
\* may differ in their message only, so the list may count as changed or not.
Fail ==
    /\ pc = "fail"
    /\ LET failed == SetStatusCondition(work, "Ready", "False", "Failed")
       IN  \/ PatchStatus(work, failed, {})
           \/ /\ Exists(obj) /\ failed = work
              /\ Write([obj EXCEPT !.conditions = failed.conditions], {})
    /\ Return(TRUE)
    /\ UNCHANGED <<now, cache, service, host, virtual, evidence, faults>>

\* finalize marks an expired object Expiring.  The response refreshes the
\* reconcile's copy; a conflict is ignored and leaves the copy as it was read.
MarkExpiring ==
    /\ pc = "markExpiring"
    /\ LET expiring == SetStatusCondition(work, "Expiring", "True", "TTLExpired")
       IN  \/ /\ Exists(obj)
              /\ Write(MergePatch(obj, work, expiring), {"work"})
              /\ work' = MergePatch(obj, work, expiring)
              /\ Goto("export")
              /\ UNCHANGED faults
           \/ /\ faults < MaxFaults /\ faults' = faults + 1
              /\ work' = expiring
              /\ UNCHANGED server
              /\ Goto("export")
           \/ /\ ~Exists(obj)
              /\ UNCHANGED <<server, faults>>
              /\ Return(TRUE)
    /\ UNCHANGED <<now, cache, service, host, virtual, evidence>>

\* Mutation of ExportBeforeTeardown: a failed export does not block the teardown.
ExportBeforeTeardown_BestEffort ==
    /\ pc = "export"
    /\ ExportAll \/ ExportStopsEarly
    /\ Goto("uninstall")
    /\ UNCHANGED <<now, server, cache, service, work, host, virtual, pending, pendingSeen, lost>>

\* finalize exports the evidence first; an error blocks everything after it.
ExportBeforeTeardown ==
    /\ pc = "export"
    /\ \/ ExportAll /\ Goto("uninstall") /\ UNCHANGED work
       \/ ExportStopsEarly /\ Return(TRUE)
    /\ UNCHANGED <<now, server, cache, service, host, virtual, pending, pendingSeen, lost>>

\* Mutation of Uninstall: the release is still going when the call returns.
Uninstall_NoWait ==
    /\ pc = "uninstall"
    /\ Goto("deleteNamespace")
    /\ UNCHANGED <<now, server, cache, service, work, host, virtual, evidence, faults>>

\* VCluster.Delete: a release that is not there is no error; one that is goes
\* without waiting for its pod.
Uninstall ==
    /\ pc = "uninstall"
    /\ release' = FALSE /\ handoff' \in {handoff, FALSE}
    /\ Goto("deleteNamespace")
    /\ UNCHANGED <<now, server, cache, service, work, host, evidence, faults>>

\* Mutations of deleteNamespace: the call to delete counts as deleted; and no
\* requeue waits for the deletion to finish.
deleteNamespace_NoWait ==
    /\ pc = "deleteNamespace"
    /\ ns' = IF NamespaceRead = "active" /\ ns = "active" THEN "terminating" ELSE ns
    /\ Goto(IF expired THEN "forget" ELSE "removeFinalizer")
    /\ UNCHANGED <<now, server, cache, service, work, nsOwner, nsSeen, controls, virtual,
                   evidence, faults>>

deleteNamespace_NoRequeue ==
    /\ pc = "deleteNamespace"
    /\ \/ /\ NamespaceRead = "absent"
          /\ Goto(IF expired THEN "forget" ELSE "removeFinalizer")
          /\ UNCHANGED <<ns, work>>
       \/ /\ NamespaceRead # "absent"
          /\ ns' = IF NamespaceRead = "active" /\ ns = "active" THEN "terminating" ELSE ns
          /\ Return(FALSE)
    /\ UNCHANGED <<now, server, cache, service, nsOwner, nsSeen, controls, virtual,
                   evidence, faults>>

\* deleteNamespace: gone when the cache says so; otherwise deleted unless the
\* cache already shows a deletion, and looked at again on a later reconcile.
deleteNamespace ==
    /\ pc = "deleteNamespace"
    /\ \/ /\ NamespaceRead = "absent"
          /\ Goto(IF expired THEN "forget" ELSE "removeFinalizer")
          /\ UNCHANGED <<ns, work>>
       \/ /\ NamespaceRead # "absent"
          /\ ns' = IF NamespaceRead = "active" /\ ns = "active" THEN "terminating" ELSE ns
          /\ Return(TRUE)
    /\ UNCHANGED <<now, server, cache, service, nsOwner, nsSeen, controls, virtual,
                   evidence, faults>>

\* Mutation of Tombstone: metrics access is not revoked.
Tombstone_KeepsMetrics(o) ==
    LET cleared == [o EXCEPT !.forgottenAt = startNow, !.virtualEndpoint = FALSE]
        unready == SetStatusCondition(cleared, "Ready", "False", "Forgotten")
    IN  SetStatusCondition(unready, "Forgotten", "True", "TTLTeardownComplete")

\* The status of a tombstone.
Tombstone(o) ==
    LET cleared == [o EXCEPT !.forgottenAt = startNow, !.virtualEndpoint = FALSE]
        unready == SetStatusCondition(cleared, "Ready", "False", "Forgotten")
        revoked == SetStatusCondition(unready, "MetricsReady", "False", "Forgotten")
    IN  SetStatusCondition(revoked, "Forgotten", "True", "TTLTeardownComplete")

\* The last step of an expiry: everything is gone, leave a tombstone.
Forget ==
    /\ pc = "forget"
    /\ PatchStatus(work, Tombstone(work), {})
    /\ Return(TRUE)
    /\ UNCHANGED <<now, cache, service, host, virtual, evidence, faults>>

\* The last step of a deletion: an Update without the finalizer lets the object
\* go.  NotFound is ignored; a conflict is an error and comes back.
RemoveFinalizer ==
    /\ pc = "removeFinalizer"
    /\ \/ /\ work.finalizer /\ "work" \in current
          /\ Write(NotFound, {})
          /\ Return(FALSE)
       \/ /\ work.finalizer /\ "work" \notin current
          /\ UNCHANGED server
          /\ Return(Exists(obj))
       \/ /\ ~work.finalizer
          /\ UNCHANGED server
          /\ Return(FALSE)
    /\ UNCHANGED <<now, cache, service, host, virtual, evidence, faults>>

\* Any other call of the teardown fails, or a write does: an error comes back.
CallFails ==
    /\ pc \in {"reap", "addFinalizer", "markExpiring", "deleteNamespace", "forget",
               "removeFinalizer", "fail"}
    /\ faults < MaxFaults /\ faults' = faults + 1
    /\ Return(TRUE)
    /\ UNCHANGED <<now, server, cache, service, host, virtual, evidence>>

\* Helm's uninstall fails, before or after the release has gone.
UninstallFails ==
    /\ pc = "uninstall"
    /\ faults < MaxFaults /\ faults' = faults + 1
    /\ handoff' \in {handoff, FALSE} /\ release' \in {release, FALSE}
    /\ Return(TRUE)
    /\ UNCHANGED <<now, server, cache, service, host, evidence>>

\* The controller stops anywhere in a reconcile; the next one lists afresh and
\* enqueues every object.
Restart ==
    /\ pc # "idle"
    /\ faults < MaxFaults /\ faults' = faults + 1
    /\ pc' = "idle" /\ queued' = TRUE
    /\ work' = NotFound /\ startNow' = 0 /\ expired' = FALSE
    /\ cache' = obj /\ feed' = <<>>
    /\ nsSeen' = IF "namespace" \in Lagging THEN ns ELSE nsSeen
    /\ pendingSeen' = IF "evidence" \in Lagging THEN pending ELSE pendingSeen
    /\ UNCHANGED <<now, obj, current, service, ns, nsOwner, controls, virtual,
                   pending, listed, exported, lost>>

---------------------------------------------------------------------------
Init ==
    /\ now = 0
    /\ obj = NotFound /\ lastUid = 0 /\ cache = NotFound
    /\ feed = <<>> /\ current = {} /\ renewal = [c \in Callers |-> 0]
    /\ queued = FALSE /\ pc = "idle" /\ work = NotFound
    /\ startNow = 0 /\ expired = FALSE
    /\ ns = "absent" /\ nsOwner = 0 /\ nsSeen = "absent" /\ controls = 0
    /\ release = FALSE /\ handoff = FALSE
    /\ pending = {} /\ pendingSeen = {} /\ listed = {} /\ exported = {} /\ lost = {}
    /\ faults = 0

Provision == \/ EnsureNamespace \/ NamespaceRefused \/ EnsureControl \/ ControlRefused
             \/ ExportWhileLive \/ EnsureVCluster \/ EnsureFails
             \/ AskReady \/ ReportStatus \/ Fail

finalize == \/ MarkExpiring \/ ExportBeforeTeardown \/ Uninstall
            \/ deleteNamespace \/ Forget \/ RemoveFinalizer

Controller == Reconcile \/ ReapTombstone \/ AddFinalizer \/ Provision \/ finalize

Faults == BoundaryFault \/ ReportFault \/ CallFails \/ UninstallFails \/ Restart

Informers == WatchObject \/ WatchNamespace \/ WatchEvidence

Cluster == NamespaceGone \/ CollectNamespace \/ \E b \in Bundles : PublishEvidence(b)

Service == \/ \E ttl \in TTLs : Create(ttl) \/ \E c \in Callers : RenewRead(c, ttl)
           \/ \E c \in Callers : RenewWrite(c)
           \/ Delete

Next == Tick \/ Service \/ Controller \/ Faults \/ Informers \/ Cluster

Spec == Init /\ [][Next]_vars

\* The controller's worker, the watches and the namespace controller keep going.
Fairness ==
    /\ WF_vars(Controller)
    /\ WF_vars(WatchObject) /\ WF_vars(WatchNamespace) /\ WF_vars(WatchEvidence)
    /\ WF_vars(NamespaceGone) /\ WF_vars(CollectNamespace)

FairSpec == Spec /\ Fairness

---------------------------------------------------------------------------
(* Properties.                                                             *)

Labels == {"idle", "reap", "addFinalizer", "boundary", "controls", "exportLive", "ensure",
           "report", "reportReady", "reportStarting", "fail", "markExpiring", "export",
           "uninstall", "deleteNamespace", "forget", "removeFinalizer"}

Runs == Bundles \X Nat

\* Type correctness of the server, controller, host and evidence state.
TypeOK ==
    /\ now \in Nat /\ startNow \in Nat /\ lastUid \in Nat
    /\ renewal \in [Callers -> Nat]
    /\ obj \in Object /\ cache \in Object /\ work \in Object
    /\ feed \in Seq(Object)
    /\ current \subseteq {"work"} \cup Callers
    /\ queued \in BOOLEAN /\ expired \in BOOLEAN /\ pc \in Labels
    /\ ns \in {"absent", "active", "terminating"}
    /\ nsSeen \in {"absent", "active", "terminating"}
    /\ nsOwner \in Nat /\ controls \in 0..NumControls
    /\ release \in BOOLEAN /\ handoff \in BOOLEAN
    /\ pending \subseteq Runs /\ pendingSeen \subseteq Runs
    /\ listed \subseteq Runs /\ exported \subseteq Runs /\ lost \subseteq Runs
    /\ faults \in 0..MaxFaults

\* What a caller needs behind a Ready phase: the namespace with its whole
\* boundary, the release, and a handoff identity made in it.
Usable == ns = "active" /\ controls = NumControls /\ release /\ handoff

\* A caller that is shown phase Ready before the expiry has a usable virtual
\* cluster, whatever the caches of the controller missed (project in
\* service.go, the status patches of Reconcile and finalize).
ReadyIsReal ==
    project(obj) = "Ready" /\ now < obj.expiresAt => Usable

\* Nothing is provisioned that no finalizer would clean up: the namespace and
\* the release exist only while their own root object holds the finalizer.
NothingOrphaned ==
    (ns # "absent" \/ release) => obj.finalizer /\ nsOwner = obj.uid

\* A tombstone is terminal: its conditions never claim readiness, of the handoff
\* or of metrics access, in the object or in any copy the controller holds.
TombstoneIsTerminal ==
    \A o \in {obj, cache, work} : conditionTrue(o, "Forgotten") =>
        ~conditionTrue(o, "Ready") /\ ~conditionTrue(o, "MetricsReady")

\* No run that an export pass has listed in the active namespace is lost with
\* it: a failed export blocks the teardown until it succeeds.
ListedEvidenceKept == lost \cap listed \subseteq exported

\* A tombstone stands for an empty name: nothing it owned is left.
ForgottenMeansGone ==
    conditionTrue(obj, "Forgotten") => ns = "absent" /\ ~release

\* An expiry only moves forward, and not once the object is Forgotten: neither
\* the controller's own Update nor a late Renew writes back what it read.
ExpiryMovesForward ==
    [][obj'.uid = obj.uid =>
         /\ obj'.expiresAt >= obj.expiresAt
         /\ conditionTrue(obj, "Forgotten") => obj'.expiresAt = obj.expiresAt]_vars

\* How the phase of an object looks to those who read it.
Shown(o) ==
    IF ~Exists(o) THEN "absent"
    ELSE IF project(o) = "Ready" THEN "ready"
    ELSE IF project(o) = "Provisioning" THEN "pending"
    ELSE "ending"

\* The incarnation of the name, the last one when there is none.
Incarnation == IF Exists(obj) THEN obj.uid ELSE lastUid

Promised == INSTANCE Lease WITH
    uid <- Incarnation, expiresAt <- obj.expiresAt, phase <- Shown(obj), usable <- Usable

\* Service and controller together keep the contract of a lease, though they work
\* in many steps and from old copies: it is granted once per incarnation, renewed
\* forward only and not found ready by the renewal itself, shown ready only when
\* it is usable, and removed only with its virtual cluster gone.
KeepsLease == Promised!Spec

\* A deleted object goes away: the finalizer is removed in the end, whatever
\* conflicts, failing calls and restarts come between (finalize).
DeletionCompletes ==
    \A u \in 1..MaxUid : (obj.uid = u /\ obj.deleting) ~> obj.uid # u

\* An expired lease becomes a tombstone, unless the object is renewed or deleted
\* first: every return of Reconcile leaves a requeue behind.
ExpiryCompletes ==
    \A u \in 1..MaxUid :
        (obj.uid = u /\ now >= obj.expiresAt) ~>
            (obj.uid # u \/ obj.deleting \/ now < obj.expiresAt
               \/ conditionTrue(obj, "Forgotten"))

\* A tombstone past its retention is deleted.
TombstonesReaped ==
    \A u \in 1..MaxUid :
        (obj.uid = u /\ conditionTrue(obj, "Forgotten")
           /\ now >= obj.forgottenAt + Retention) ~>
            (obj.uid # u \/ ~conditionTrue(obj, "Forgotten")
               \/ now < obj.forgottenAt + Retention)

===========================================================================

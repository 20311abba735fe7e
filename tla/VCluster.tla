------------------------------ MODULE VCluster ------------------------------
(***************************************************************************)
(* The vCluster manager (internal/vcluster/helm.go) under the reconcile    *)
(* loop: Ensure, Ready and Delete, split at every call to Helm, to the     *)
(* host's cache and to the virtual API, while the control plane restarts   *)
(* and loses its ephemeral state, the tenant edits the handoff objects,    *)
(* calls fail, a teardown is called off by a renewal, and the operator     *)
(* restarts the controller with other settings.                            *)
(*                                                                         *)
(* Helm (a release record that outlives a failed or interrupted call, and  *)
(* is read back from JSON), Kubernetes (which follows the manifests in its *)
(* own time: no call of Helm waits) and the control plane are external.    *)
(***************************************************************************)
EXTENDS Integers

CONSTANTS
    Options,   \* settings a controller may be started with, its chart included
    MaxFaults  \* bound on failures, restarts and disturbances

ASSUME VClusterAssumption ==
    /\ Options \subseteq [user : Nat, group : Nat, fsGroup : Nat,
                          request : Int, limit : Int, queue : BOOLEAN]
    /\ MaxFaults \in Nat

VARIABLES
    options,      \* HelmManager.Values
    release,      \* the status of the last Helm revision of the name
    stored,       \* the values recorded with it
    manifests,    \* the manifests are in the host
    applied,      \* the settings they were last rendered from
    workload,     \* the control plane's pod: "absent", "starting" or "ready"
    running,      \* the settings it was started with
    outdated,     \* it is not the pod of the manifests, and is to go
    secret,       \* its kubeconfig Secret: "absent", "empty", "stale", "current"
    workloadSeen, secretSeen, \* the informer cache's copies of both
    account, binding,         \* the handoff objects in the virtual cluster
    pc,           \* where the reconcile stands
    config,       \* the kubeconfig it holds
    fresh,        \* the binding it read is still the latest version
    deleting,     \* the finalizer is at work
    answer,       \* what Ready last said: "yes", or "none"
    disturbed,    \* history: the virtual cluster changed since Ready was called
    faults

objects == <<manifests, applied, workload, running, outdated>>
host == <<release, stored, objects, secret>>
seen == <<workloadSeen, secretSeen>>
handoff == <<account, binding>>
locals == <<pc, config, fresh, answer>>
vars == <<options, host, seen, handoff, locals, deleting, disturbed, faults>>

---------------------------------------------------------------------------
(* Settings and the values they make.                                      *)

\* Quantities are integers: 0 is the empty string, a negative one does not
\* parse to a positive quantity.
Validate(o) ==
    /\ \/ o.user = 0 /\ o.group = 0 /\ o.fsGroup = 0
       \/ o.user > 0 /\ o.group > 0 /\ o.fsGroup > 0
    /\ (o.request = 0) <=> (o.limit = 0)
    /\ o.request # 0 => o.request > 0 /\ o.limit > 0 /\ o.limit >= o.request

\* Mutation of values: a zero identity is left out.
values_Omits(o) == [options |-> o, number |-> IF o.user > 0 THEN "int64" ELSE "omitted"]

\* A tree of values, told apart by the settings in it and by the Go type of its
\* numeric leaves: the identity is int64, and null when it is zero.
values(o) == [options |-> o, number |-> IF o.user > 0 THEN "int64" ELSE "nil"]

\* Helm keeps a release as JSON in a Secret: numbers come back as float64.
Stored(v) == [options |-> v.options,
              number |-> IF v.number = "int64" THEN "float64" ELSE v.number]

\* A new revision is recorded before its manifests are applied.
Record == release' = "pending" /\ stored' = Stored(values(options))

\* reflect.DeepEqual of the stored values and the desired ones.
Current == stored = values(options)

---------------------------------------------------------------------------
(* Steps.                                                                  *)

Goto(label) == pc' = label /\ UNCHANGED <<config, fresh, answer>>

\* The call fails or ends, and the reconcile with it; a requeue follows.
Return == Goto("idle")

Fault == faults < MaxFaults /\ faults' = faults + 1

\* The control plane keeps its state in an emptyDir: a new pod starts empty,
\* with a new certificate authority.
Lost ==
    /\ account' = FALSE /\ binding' = "absent"
    /\ fresh' = FALSE
    /\ config' = (IF config = "current" THEN "stale" ELSE config)
    /\ secret' = (IF secret = "current" THEN "stale" ELSE secret)
    /\ secretSeen' = (IF secretSeen = "current" THEN "stale" ELSE secretSeen)

\* Helm applies the manifests and does not wait for what comes of them: a pod of
\* other settings, or of manifests deleted before, goes on until it is replaced.
Apply ==
    /\ manifests' = TRUE /\ applied' = options
    /\ \/ /\ workload = "absent"
          /\ workload' = "starting" /\ running' = options /\ outdated' = FALSE
       \/ /\ workload # "absent"
          /\ outdated' = (outdated \/ running # options)
          /\ UNCHANGED <<workload, running>>

\* Helm deletes the manifests; the pod is left to the garbage collector.
Unapply ==
    /\ manifests' = FALSE /\ outdated' = (workload # "absent")
    /\ UNCHANGED <<applied, workload, running>>

---------------------------------------------------------------------------
(* Ensure: the release.                                                    *)

\* Mutation of EnsureReads: any release is the wanted one.
EnsureReads_Installed ==
    /\ pc = "idle" /\ ~deleting
    /\ pc' = IF release = "none" THEN "install" ELSE "secret"
    /\ answer' = "none"
    /\ UNCHANGED <<options, host, seen, handoff, config, fresh, deleting, disturbed, faults>>

\* Ensure reads the release: equal settings lead to the handoff, whatever the
\* status; others to an upgrade; no release to an install.
EnsureReads ==
    /\ pc = "idle" /\ ~deleting
    /\ pc' = CASE release = "none" -> "install"
               [] Current -> "secret"
               [] OTHER -> "upgrade"
    /\ answer' = "none"
    /\ UNCHANGED <<options, host, seen, handoff, config, fresh, deleting, disturbed, faults>>

InstallRecords ==
    /\ pc = "install"
    /\ Record
    /\ Goto("installing")
    /\ UNCHANGED <<options, objects, secret, seen, handoff, deleting, disturbed, faults>>

InstallApplies ==
    /\ pc = "installing"
    /\ release' = "deployed" /\ Apply
    /\ Goto("readSecret")
    /\ UNCHANGED <<options, stored, secret, seen, handoff, deleting, disturbed, faults>>

\* An upgrade is refused while an operation is pending, and after an uninstall
\* that has not finished, unless an earlier revision still counts as deployed.
UpgradeRecords ==
    /\ pc = "upgrade"
    /\ \/ /\ release \in {"pending", "uninstalling"}
          /\ Return /\ UNCHANGED <<release, stored>>
       \/ /\ release # "pending"
          /\ Record
          /\ Goto("upgrading")
    /\ UNCHANGED <<options, objects, secret, seen, handoff, deleting, disturbed, faults>>

UpgradeApplies ==
    /\ pc = "upgrading"
    /\ release' = "deployed" /\ Apply
    /\ Goto("readSecret")
    /\ UNCHANGED <<options, stored, secret, seen, handoff, deleting, disturbed, faults>>

\* Helm fails in an install or an upgrade, before or after it has applied the
\* manifests, and marks the revision failed.
HelmFails ==
    /\ pc \in {"installing", "upgrading"} /\ Fault
    /\ release' = "failed"
    /\ Apply \/ UNCHANGED objects
    /\ Return
    /\ UNCHANGED <<options, stored, secret, seen, handoff, deleting, disturbed>>

---------------------------------------------------------------------------
(* ensureHandoff.                                                          *)

\* A call to the virtual API needs the Service among the manifests, the control
\* plane up, and its own kubeconfig.
Reachable == manifests /\ workload = "ready" /\ config = "current"

VirtualCalls == {"getAccount", "createAccount", "getBinding", "createBinding",
                 "deleteBinding", "updateBinding", "readAccount", "readBinding"}

\* bootstrapConfig, from the cache: without a kubeconfig Ensure has done its part.
HandoffConfig ==
    /\ pc = "secret"
    /\ config' = secretSeen
    /\ pc' = IF secretSeen \in {"absent", "empty"} THEN "readSecret" ELSE "getAccount"
    /\ UNCHANGED <<options, host, seen, handoff, fresh, answer, deleting, disturbed, faults>>

\* CreateOrUpdate of the ServiceAccount: a read, then a create when it is missing,
\* which fails when someone else has created it in between.
EnsureAccount ==
    /\ Reachable
    /\ \/ /\ pc = "getAccount"
          /\ Goto(IF account THEN "getBinding" ELSE "createAccount")
          /\ UNCHANGED account
       \/ /\ pc = "createAccount"
          /\ account' = TRUE
          /\ IF account THEN Return ELSE Goto("getBinding")
    /\ UNCHANGED <<options, host, seen, binding, deleting, disturbed, faults>>

\* Mutation of GetBinding: any role will do.
GetBinding_AnyRole ==
    /\ pc = "getBinding" /\ Reachable
    /\ fresh' = TRUE
    /\ pc' = CASE binding = "absent" -> "createBinding"
               [] binding = "wrongSubjects" -> "updateBinding"
               [] OTHER -> "readSecret"
    /\ UNCHANGED <<options, host, seen, handoff, config, answer, deleting, disturbed, faults>>

\* ensureHandoffBinding reads the ClusterRoleBinding and picks the repair.
GetBinding ==
    /\ pc = "getBinding" /\ Reachable
    /\ fresh' = TRUE
    /\ pc' = CASE binding = "absent" -> "createBinding"
               [] binding = "wrongRole" -> "deleteBinding"
               [] binding = "wrongSubjects" -> "updateBinding"
               [] binding = "exact" -> "readSecret"
    /\ UNCHANGED <<options, host, seen, handoff, config, answer, deleting, disturbed, faults>>

\* A create fails when there is a binding by now, an update when it is not the
\* version that was read; a delete takes whatever has the name, and leaves the
\* create to the next reconcile.
RepairBinding ==
    /\ Reachable
    /\ \/ /\ pc = "createBinding" /\ binding = "absent"
          /\ binding' = "exact" /\ Goto("readSecret")
       \/ /\ pc = "updateBinding" /\ fresh
          /\ binding' = "exact" /\ Goto("readSecret")
       \/ /\ \/ pc = "createBinding" /\ binding # "absent"
             \/ pc = "updateBinding" /\ ~fresh
          /\ UNCHANGED binding /\ Return
       \/ /\ pc = "deleteBinding"
          /\ binding' = "absent" /\ Goto("readSecret")
    /\ UNCHANGED <<options, host, seen, account, deleting, disturbed, faults>>

Unreachable ==
    /\ pc \in VirtualCalls /\ ~Reachable
    /\ Return
    /\ UNCHANGED <<options, host, seen, handoff, deleting, disturbed, faults>>

---------------------------------------------------------------------------
(* Ready.                                                                  *)

\* bootstrapConfig again.
ReadSecret ==
    /\ pc = "readSecret"
    /\ config' = secretSeen
    /\ pc' = IF secretSeen \in {"absent", "empty"} THEN "idle" ELSE "readWorkload"
    /\ disturbed' = IF pc' = "idle" THEN disturbed ELSE FALSE
    /\ UNCHANGED <<options, host, seen, handoff, fresh, answer, deleting, faults>>

\* controlPlaneReady: the Deployment or StatefulSet of the cache has one ready
\* replica.
ReadWorkload ==
    /\ pc = "readWorkload"
    /\ Goto(IF workloadSeen = "ready" THEN "readAccount" ELSE "idle")
    /\ UNCHANGED <<options, host, seen, handoff, deleting, disturbed, faults>>

\* handoffReady: the account, then the binding.
ReadAccount ==
    /\ pc = "readAccount" /\ Reachable
    /\ Goto(IF account THEN "readBinding" ELSE "idle")
    /\ UNCHANGED <<options, host, seen, handoff, deleting, disturbed, faults>>

\* Mutation of ReadBinding: there is a binding of that name.
ReadBinding_AnyBinding ==
    /\ pc = "readBinding" /\ Reachable
    /\ pc' = "idle"
    /\ answer' = IF binding # "absent" THEN "yes" ELSE "none"
    /\ UNCHANGED <<options, host, seen, handoff, config, fresh, deleting, disturbed, faults>>

ReadBinding ==
    /\ pc = "readBinding" /\ Reachable
    /\ pc' = "idle"
    /\ answer' = IF binding = "exact" THEN "yes" ELSE "none"
    /\ UNCHANGED <<options, host, seen, handoff, config, fresh, deleting, disturbed, faults>>

---------------------------------------------------------------------------
(* Delete.                                                                 *)

\* Mutation of Uninstall: an interrupted uninstall counts as done.
Uninstall_Once ==
    /\ pc = "idle" /\ deleting
    /\ pc' = IF release \in {"none", "uninstalling"} THEN "deleted" ELSE "uninstalling"
    /\ answer' = "none"
    /\ release' = IF release = "none" THEN "none" ELSE "uninstalling"
    /\ UNCHANGED <<options, stored, objects, secret, seen, handoff, config, fresh, deleting,
                   disturbed, faults>>

\* A release that is not found is a success; any other one is marked, whatever
\* its status, and its resources are deleted.
Uninstall ==
    /\ pc = "idle" /\ deleting
    /\ pc' = "uninstalling"
    /\ answer' = "none"
    /\ release' = IF release = "none" THEN "none" ELSE "uninstalling"
    /\ UNCHANGED <<options, stored, objects, secret, seen, handoff, config, fresh, deleting,
                   disturbed, faults>>

\* The manifests go, then the record; what they started may still be there when
\* Delete returns.
UninstallPurges ==
    /\ pc = "uninstalling"
    /\ release' = "none" /\ Unapply
    /\ Goto("deleted")
    /\ UNCHANGED <<options, stored, secret, seen, handoff, deleting, disturbed, faults>>

\* Mutation of UninstallFails: its error is dropped.
UninstallFails_Dropped ==
    /\ pc = "uninstalling" /\ release # "none" /\ Fault
    /\ Unapply \/ UNCHANGED objects
    /\ Goto("deleted")
    /\ UNCHANGED <<options, release, stored, secret, seen, handoff, deleting, disturbed>>

\* Some manifest cannot be deleted: the record stays.
UninstallFails ==
    /\ pc = "uninstalling" /\ release # "none" /\ Fault
    /\ Unapply \/ UNCHANGED objects
    /\ Return
    /\ UNCHANGED <<options, release, stored, secret, seen, handoff, deleting, disturbed>>

---------------------------------------------------------------------------
(* The controller and what surrounds the manager.                          *)

\* Any other call fails; the reconcile returns the error.
CallFails ==
    /\ pc \notin {"idle", "installing", "upgrading", "uninstalling", "deleted"} /\ Fault
    /\ Return
    /\ UNCHANGED <<options, host, seen, handoff, deleting, disturbed>>

\* What the status of the workload may say: with two pods about, the replica that
\* is ready may be the one that is to go.
Counted == CASE ~manifests -> {"absent"}
             [] manifests /\ outdated -> {"starting", workload}
             [] OTHER -> {workload}

\* The controller stops and comes back, perhaps with other settings; main refuses
\* settings that do not validate.
Restart ==
    /\ Fault
    /\ \E o \in Options : Validate(o) /\ options' = o
    /\ pc' = "idle" /\ config' = "absent" /\ fresh' = FALSE /\ answer' = "none"
    /\ workloadSeen' \in Counted /\ secretSeen' = secret
    /\ UNCHANGED <<host, handoff, deleting, disturbed>>

\* The object is deleted or expires.
BeginTeardown ==
    /\ ~deleting /\ deleting' = TRUE
    /\ UNCHANGED <<options, host, seen, handoff, locals, disturbed, faults>>

\* The namespace still has to go: the next reconcile starts over.
TeardownGoesOn ==
    /\ pc = "deleted"
    /\ Return
    /\ UNCHANGED <<options, host, seen, handoff, deleting, disturbed, faults>>

\* A renewal reaches an expiring object: the controller is back to Ensure.
CallOffTeardown ==
    /\ deleting /\ Fault /\ deleting' = FALSE
    /\ UNCHANGED <<options, host, seen, handoff, locals, disturbed>>

\* The control plane comes up and writes its kubeconfig Secret.
PodStarts ==
    /\ workload = "starting"
    /\ \/ secret = "absent" /\ secret' = "empty" /\ UNCHANGED workload
       \/ secret' = "current" /\ workload' = "ready"
    /\ UNCHANGED <<options, release, stored, manifests, applied, running, outdated, seen,
                   handoff, locals, deleting, disturbed, faults>>

\* Kubernetes follows the manifests: the pod goes, with all that was in its
\* cluster, and one of the present manifests, if any, takes its place.
PodReplaced ==
    /\ outdated /\ outdated' = FALSE
    /\ \/ manifests /\ workload' = "starting" /\ running' = applied
       \/ ~manifests /\ workload' = "absent" /\ UNCHANGED running
    /\ Lost
    /\ disturbed' = TRUE
    /\ UNCHANGED <<options, release, stored, manifests, applied, workloadSeen, pc, answer,
                   deleting, faults>>

PodRestarts ==
    /\ workload = "ready" /\ Fault
    /\ workload' = "starting" /\ Lost
    /\ disturbed' = TRUE
    /\ UNCHANGED <<options, release, stored, manifests, applied, running, outdated, workloadSeen,
                   pc, answer, deleting>>

\* The tenant edits the handoff objects, which the virtual cluster lets them.
TenantEdits ==
    /\ workload = "ready" /\ Fault
    /\ \/ account' = ~account /\ UNCHANGED <<binding, fresh>>
       \/ /\ binding' \in {"absent", "wrongRole", "wrongSubjects", "exact"} \ {binding}
          /\ fresh' = FALSE
          /\ UNCHANGED account
    /\ disturbed' = TRUE
    /\ UNCHANGED <<options, host, seen, pc, config, answer, deleting>>

\* The informers deliver what there is.
Watch ==
    /\ \/ secretSeen # secret /\ secretSeen' = secret /\ UNCHANGED workloadSeen
       \/ workloadSeen' \in Counted \ {workloadSeen} /\ UNCHANGED secretSeen
    /\ UNCHANGED <<options, host, handoff, locals, deleting, disturbed, faults>>

---------------------------------------------------------------------------
Init ==
    /\ \E o \in Options : Validate(o) /\ options = o
    /\ release = "none" /\ stored = Stored(values(options))
    /\ manifests = FALSE /\ applied = options
    /\ workload = "absent" /\ running = options /\ outdated = FALSE /\ secret = "absent"
    /\ workloadSeen = "absent" /\ secretSeen = "absent"
    /\ account = FALSE /\ binding = "absent"
    /\ pc = "idle" /\ config = "absent" /\ fresh = FALSE
    /\ deleting = FALSE /\ answer = "none" /\ disturbed = FALSE
    /\ faults = 0

Ensure == \/ EnsureReads \/ InstallRecords \/ InstallApplies
          \/ UpgradeRecords \/ UpgradeApplies
          \/ HandoffConfig \/ EnsureAccount \/ GetBinding \/ RepairBinding

Ready == ReadSecret \/ ReadWorkload \/ ReadAccount \/ ReadBinding

Delete == Uninstall \/ UninstallPurges \/ TeardownGoesOn

Manager == Ensure \/ Ready \/ Delete \/ Unreachable

Faults == \/ HelmFails \/ UninstallFails \/ CallFails \/ Restart
          \/ CallOffTeardown \/ PodRestarts \/ TenantEdits

Next == Manager \/ Faults \/ BeginTeardown \/ PodStarts \/ PodReplaced \/ Watch

Spec == Init /\ [][Next]_vars

\* Every reconcile requeues itself, informers deliver, a started pod comes up and
\* one that is to go goes.
Fairness ==
    /\ WF_vars(Manager)
    /\ WF_vars(Watch)
    /\ WF_vars(PodStarts)
    /\ WF_vars(PodReplaced)

FairSpec == Spec /\ Fairness

---------------------------------------------------------------------------
(* Properties.                                                             *)

Labels == {"idle", "install", "installing", "upgrade", "upgrading", "secret",
           "readSecret", "readWorkload", "uninstalling", "deleted"} \cup VirtualCalls

SecretStates == {"absent", "empty", "stale", "current"}

\* Types; a recorded release holds values as JSON gives them back.
TypeOK ==
    /\ options \in Options /\ Validate(options)
    /\ manifests \in BOOLEAN /\ applied \in Options
    /\ running \in Options /\ outdated \in BOOLEAN
    /\ release \in {"none", "pending", "deployed", "failed", "uninstalling"}
    /\ stored \in [options : Options, number : {"float64", "nil"}]
    /\ workload \in {"absent", "starting", "ready"}
    /\ workloadSeen \in {"absent", "starting", "ready"}
    /\ secret \in SecretStates /\ secretSeen \in SecretStates /\ config \in SecretStates
    /\ account \in BOOLEAN
    /\ binding \in {"absent", "wrongRole", "wrongSubjects", "exact"}
    /\ pc \in Labels /\ fresh \in BOOLEAN /\ deleting \in BOOLEAN
    /\ answer \in {"none", "yes"} /\ disturbed \in BOOLEAN
    /\ faults \in 0..MaxFaults

HandoffInPlace == account /\ binding = "exact"

\* Ready says yes only for a virtual cluster that is up with the exact handoff
\* identity, though it pieces the answer together from two stale caches and two
\* reads; only a change of the virtual cluster itself, since the call began, can
\* make the answer wrong (Ready, handoffReady).
ReadyIsExact == answer = "yes" /\ ~disturbed => HandoffInPlace /\ workload = "ready"

\* A yes of Ready for a deployed release is never about settings the operator has
\* given up: the manifests are rendered from the present ones, and a pod of other
\* settings, which serves on and answers the probes because no call of Helm waits,
\* is on its way out (Ensure's comparison and upgrade).
ReadyAppliesOptions ==
    answer = "yes" /\ ~disturbed /\ release = "deployed"
        => applied = options /\ (running = options \/ outdated)

\* The call of the contract that a label belongs to.
Call == CASE pc = "idle" -> "idle"
          [] pc \in {"readWorkload", "readAccount", "readBinding"} -> "ready"
          [] pc = "uninstalling" -> "delete"
          [] pc = "deleted" -> "deleted"
          [] OTHER -> "ensure"

Contract == INSTANCE ControlPlane WITH
    installed <- release # "none", handoff <- HandoffInPlace, call <- Call

\* The manager, split at its calls, keeps the promise the controller relies on.
KeepsContract == Contract!Spec

\* A deployed release with the operator's settings leads to a ready handoff in a
\* control plane that runs them, again and again, whatever drift, restart, rollout
\* or conflict came before: the reconcile loop repairs every piece, a wrong role in
\* two passes.
HandoffRestored ==
    <>[](~deleting /\ release = "deployed" /\ Current)
        => []<>(answer = "yes" /\ running = options)

\* A teardown that is not called off removes the release for good, and the control
\* plane after it, whatever state an interrupted install, upgrade or uninstall has
\* left it in.
ReleaseRemoved == <>[]deleting => <>[](release = "none" /\ workload = "absent")

\* Every Oubliette that is not torn down becomes ready.
InstalledIsHandedOff == <>deleting \/ []<>(answer = "yes")

===========================================================================

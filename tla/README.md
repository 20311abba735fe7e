# A TLA+ verification of Oubliette

Oubliette hands out disposable virtual Kubernetes control planes with a lease. This directory
models the parts of it whose correctness depends on the order in which things happen, checks the
models with TLC on small instances, and proves the central safety properties with TLAPS for every
value of the constants. `PROJECT.json` lists components, runs, mutants, hazards, findings, theorems and, for each
definition, the source lines it stands for.

## The system

| Part | State | Operations | Hard to get right |
|---|---|---|---|
| Lifecycle service (`internal/lifecycle`) | the root object at the API server | Create, Get, List, Renew, Delete | concurrent renewals, renewal against expiry, names that change owner between two requests, lifetimes that overflow |
| Controller (`internal/controller`) | informer caches, work queue, one reconcile per key | Reconcile, finalize, fail | stale caches, status patches without a version, failure or restart between any two calls |
| vCluster manager (`internal/vcluster`) | Helm release, handoff identity in the virtual API | Ensure, Ready, Delete | interrupted releases, values compared after a round trip through JSON, a virtual cluster that forgets and that its tenant edits |
| Evidence exporter and store (`internal/evidence`, `cmd/evidence-export`) | pending ConfigMaps, a directory of bundles | ExportBeforeTeardown, Put | unsynchronised processes, crashes between file-system calls, late publication, retries that must build the same bundle |
| Access session (`pkg/connector`, `cmd/oub-connect`) | lease, tunnel, token, kubeconfig file | Run with its backend and sink | replacement of the Oubliette between check and use, slow calls, deadlines, cleanup |
| Metrics gateway and issuer (`internal/metricsgateway`, `internal/metricsaccess`) | budgets in memory, credentials | ServeHTTP, acquire, IssueTo | concurrent requests, clock readings out of order, revocation, queries that must stay in scope and budget |
| Target coverage (`internal/observability`) | none that lasts | ValidateCoverage | duplicates that make counts agree |
| MCP authentication, tier profiles, clients | none that lasts | tables and plumbing | see "Not modelled" |

The service and the controller meet only at the API server: the service writes the spec, the
controller reads a cached copy of it, acts on Helm and the derived namespace, and patches the
status. The session and the gateway read that status. The exporter runs inside a reconcile and
shares its directory with runs of the `evidence-export` command.

What makes the whole correct: a caller who is shown Ready has a usable virtual cluster; nothing is
provisioned that no finalizer would clean up; an expiry only moves forward; deletion and expiry
run to their end; evidence is stored once, whole, and before its source is deleted; a session
ends when its lease or its caller's entitlement does; a budget is neither exceeded nor leaked.

## Modules

| Module | Contents |
|---|---|
| `Oubliette` | one name: lifecycle service, API server, informers, controller, namespace, release, evidence |
| `OublietteInvariants` | the strengthenings that make its safety properties inductive |
| `OublietteProofs`, `OublietteReadyProofs` | types, tombstones, the effect of each step, versions, renewals, finalizer; readiness, the release, the contract, evidence, and the theorems |
| `Lease` | what a reader of the root object may rely on, the contract that `Oubliette` implements and `Session` is composed with |
| `LifecycleService` | the service's operations for several callers and owners |
| `VCluster`, `VClusterProofs` | the vCluster manager between Helm, the host's caches and the virtual API |
| `ControlPlane` | the contract the controller relies on, which `VCluster` implements |
| `EvidenceStore`, `EvidenceStoreProofs` | the directory store with several writers |
| `BundleStore` | the atomic store that `EvidenceStore` implements |
| `EvidenceBundle`, `EvidenceDocument` | validation and construction of a bundle; the walk through its documents |
| `Session`, `SessionProofs` | one access session against a changing Oubliette |
| `MetricsGateway`, `MetricsGatewayProofs` | credentials and budgets of the gateway |
| `MetricsQuery`, `MetricsResponse`, `MetricsQueryProofs` | one request through the gateway: PromQL policy, query budget, response filter; the filter's walk through a document |
| `TargetCoverage` | the comparison of expected and active scrape targets |
| `ProcedureProofs` | the proofs about `LifecycleService`, `TargetCoverage` and `EvidenceBundle` |
| `MCOubliette`, `MCEvidenceStore`, `MCVCluster`, `MCEvidenceBundle`, `MCLifecycleService`, `MCProcedures` | constants, inputs and symmetry for TLC |

Definitions named `X_...` under a comment that begins with "Mutation" are plausible bugs in `X`. No
specification uses them; put in the place of `X`, each breaks the property that `PROJECT.json` lists
it with.

### Oubliette

The root object is a record of what the properties tell apart: uid (0 for NotFound), generation,
expiry, deletion mark, finalizer, observed generation, endpoint, tombstone time, and the five
conditions with status, reason and generation.

* *API server.* `Write` replaces the object and appends to `feed`, the versions the controller's
  watch has still to deliver. `current` is the set of copies that still have the server's
  resourceVersion: `Update` succeeds only from one of them. `MergePatch` is a status patch made
  with `MergeFrom`: the changed fields, a changed condition list as a whole, no version check.
* *Informers.* The controller reads `cache`, which `WatchObject` moves forward one version at a
  time. `Lagging` says which dependent informers (namespaces, evidence ConfigMaps) may be behind.
* *Reconcile.* `pc` stands at the next call to the API server, Helm or the store. `Route` is the
  sequence of early returns; `Provision` and `finalize` are the two branches. Between two calls
  anything may happen: the clock, a caller, a watch, the namespace controller, the garbage
  collector, a collector publishing evidence.
* *Failures.* `BoundaryFault`, `EnsureFails`, `ReportFault`, `CallFails`, `UninstallFails` and the
  failing branches of the exports take an error path, after no, part or all of the call's effect;
  `Restart` drops the reconcile and lists afresh. `MaxFaults` bounds them together.
* *Boundary.* `ensureBoundary` makes the namespace (`EnsureNamespace`) and `NumControls` objects in
  it, one call each (`EnsureControl`). `SetControllerReference` compares owners by kind and name, so a
  namespace of an earlier incarnation is taken over, UID and all, even while it is being deleted.
  `CreateOrUpdate` compares with a cached copy: it may find nothing to do in a namespace that is going
  or gone, or have its request refused (`NamespaceRefused`, `ControlRefused`). The caches of the objects
  inside are assumed to have seen those of one namespace go before the next one is made.

The vCluster manager's calls are single steps here, with failures after no, part or all of their
effect. They follow the contract `ControlPlane` (by reading; no run composes the two) for settings
whose stored values compare equal (see `violates_handoff`). `handoff` says that the identity has been
made since the release was installed, and Ready may still answer no at any time: that a pod
restart or the tenant takes the identity away, and that it is put back, is in `VCluster`. Ready's
answer (`AskReady`) and the status patch (`ReportStatus`) are two steps, with time for anything between.

Simplifications. Delete's read and its delete by name are one step, since it deletes whatever has
the name. Renew's read and its clock reading are one step; any change in between makes the later
Update conflict. A requeue with a delay is a key that may be taken at any time, which allows every
delay. Requeue after the tombstone is likewise immediate. An enabled metrics profile is complete. An
object has a valid name
and a known tier, so the two early failures for these are not taken.

`Lease` says what service and controller promise about a name to those who only read its object:
an incarnation is granted once, a renewal moves the expiry forward and takes back Ready, Ready is
reported only of a usable virtual cluster or after the expiry, a ready one is not withdrawn before
its expiry, and the name is removed only when no virtual cluster is left to be used. `KeepsLease` is the
refinement: the phase is the one `project` shows, with Deleting, Expiring and Forgotten as "ending",
and `usable` is `Usable`. A lease that is expired or not shown Ready may be
withdrawn at any moment, and a phase may go back, since a patch from an old copy can clear what a
later one set.

### LifecycleService

One name and several callers, each with an owner. A call is split at its requests to the API
server: Create and, on a taken name, its read; the read and the write of Renew and Delete. `fresh`
says that a copy still has the server's resourceVersion. The controller's writes
appear as `Controller`: finalizer, tombstone, reaping, removal. A
request may fail, and a create may take effect although its answer is lost. A lifetime is a product
in integers of width `2 * HalfRange` that wraps around as int64 does: a large number of seconds can
wrap into the permitted range, and the lease then has the wrapped length; `LeaseWithinLimits` bounds that
length, and does not say that such a request is refused, though the error of `validateTTL` reads as if
it were. A Create that finds its name taken may also fail on another tier. `metav1.Time`'s
truncation to seconds is not modelled: it shortens a lease by less than a second.

### VCluster and ControlPlane

`pc` is the next call of Ensure, Ready or Delete. A Helm operation is two steps, the record of the
revision and the application of its manifests, so that a restart between them leaves a pending
revision and a failure a failed one. No call of Helm waits: Kubernetes follows the manifests in its own
time, so a pod of earlier settings, or of manifests that are deleted, serves on until it is replaced
(`outdated`, `PodReplaced`), and with two pods about the cache may count either (`Counted`). One pod at a
time is modelled as the control plane. A teardown goes on until the namespace is gone, which is left to
`Oubliette`, or is called off by a renewal (`TeardownGoesOn`, `CallOffTeardown`). `stored` is what the record gives back: a value tree is told
apart by its settings and by the Go type of its numbers, and `Stored` is the round trip through
JSON. A pod that is replaced starts empty with a new certificate authority (`Lost`; the chart is
installed without persistence), so every kubeconfig taken before is `stale`. The Secret and the
workload are read from caches that `Watch` brings up to date. The tenant administers the virtual
cluster and may edit the handoff objects (`TenantEdits`). `disturbed` is a history variable: the
virtual cluster has changed by itself since the last Ready began.

`ControlPlane` says what the controller may rely on: a release is recorded before the
handoff is touched, Ready answers yes only for a handoff in place or one that moved under its
reads, and Delete succeeds only with nothing left. `KeepsContract` is the refinement, with
`installed <- release # "none"`, `handoff <- HandoffInPlace` and the call a label belongs to.

### EvidenceStore

Writers put bundles into one directory with no lock. `Put` is split at each file-system call that
another process can notice: the exclusive creation of the run's index, the write into it, its
comparison, the look at an existing manifest, the staging of manifest and files in a temporary
directory, and the rename. `CallFails` returns an error from any of them, `Crash` ends the process
between any two. A crash, and a `RemoveAll` that fails, leave the temporary directory behind
(`abandoned`). A bundle is its digest. `Retrying` are the writers that come back: the
controller, not the command.

`BundleStore` is what the store promises: a run ID goes to the first bundle that claims it, and a
bundle is stored in one step with all its files. `StoreIsAtomic` is the refinement. The claim is what
stands in the run's index, the content what stands under the bundle's name; reservations still
empty, comparisons, temporary directories, errors and crashes map to stuttering.

### EvidenceBundle

`Export` builds a bundle from a pending run, `Retry` builds it again from the same run with the
artifacts in another order and the times in another zone. Documents are small trees with
mappings, sequences, scalars and aliases; `meaningfulNode` and `secretObjectHasValues` walk them as
the code does. `slices.SortFunc` is not stable, so `Sorted` is the set of what it may return, and
the built bundle is one of a set. The recursive walk is in `EvidenceDocument`; `EvidenceBundle`
takes it as the parameter `SecretObjectHasValues`, and the nodes of a document as the parameter
`Reach`, with their recursion equations in an assumption (`BundleAssumption`), which TLC evaluates on
all nodes of the run's documents. It also says that documents are finite and that an alias stands for
a node of its own document, as in YAML. Of the sixteen required artifacts four are modelled: the two with a check of their
own, the one with two groups of fields and one with a single group. A digest is what was digested.

`BundleIsComplete` does not use the code's own test for a Secret: `SpelledSecret` asks of a mapping that
all that is given for its kind says Secret, whichever entry the code looks at. A kind given by an alias is
outside it; that case is `SecretsExcluded`, which does not hold (`violates_secret`).

### Session

`Session.Run` with clock and durations: a check or a token request may take up to `CallTimeout`,
local file operations up to `LocalTime`, and time does not pass a due step. A check *reads* at one
moment (`CheckRead`) and *returns* at a later one (`CheckReturn`). The Oubliette does
what `Lease` allows: `Create`, `Renew` and `Reconcile` are the actions of `Contract == INSTANCE Lease`
on the session's own variables. Any phase may follow any other, an ending object may be renewed,
and the virtual cluster may go once the phase is not Ready or the lease has run out. An operator
may shorten the lease (`Shorten`), which the contract rules out, the caller may lose their identity
(`RevokeCaller`), the tunnel may break, the process may be killed. So `LeaseKept`, which shows that
service and controller keep the contract, carries over to what a session meets.
The forwarder watches the context on its own, so the tunnel closes at the deadline
even while Run is in a file operation. A session is entitled to access (`Entitled`) while its caller
is, the lease on entry stands, and there is a virtual cluster to be used; that Ready lags a renewal
does not count against it.
`lostAt` and `brokenAt` are history variables: since when the session is not entitled to access, and since
when its port-forward is gone. Closing the sink may fail; the process then exits with a failing status
and leaves what it could not remove, as one that is killed does, for a supervisor (`CleanUp`).

### MetricsGateway

Handlers of several subjects run at once. A handler is split where it waits or reads the clock: it
validates the credential and reads the object (`Resolve`), compares the expiry it read (`JudgeExpiry`), reads
the clock for the budget (`ReadClock`), and takes the mutex (`acquire`), so that readings may arrive there
out of order. The status names the generation of the metrics profile; the gateway serves its own only,
while the issuer signs for any, up to the longest lifetime and for a default where none is asked. Both
budgets are taken to be set (a zero budget means unlimited and has nothing to check). A restart empties
the map. One incarnation of one Oubliette is modelled.

The object is read once per request, and nothing in the code bounds how old that reading may be when the
answer is sent. No property is stated about it.

### MetricsQuery

One request from `ServeHTTP`'s checks to its reply: parsing, the rewrite of the query or of every
matcher, the budget of its path, the upstream call and the filter. Expressions are trees with each
kind of node `Policy.Rewrite` looks at; the look-back is checked per node, as the code does, so
nested ranges add up beyond it. Go's difference of two times saturates at the longest Duration
(`Span`, `MaxDuration`): with no look-back limit the points of a longer range are counted short, and
`ForwardedWithinBudget` leaves such ranges out. The properties do not repeat the code's checks: `ForwardedReadsOwn`
evaluates what is sent on a small database of series and asks which it can read,
`ForwardedWithinBudget` counts the instants Prometheus would evaluate, and `ReplyIsFiltered` looks
at every place of the reply. An expression is a function from the positions of its tree to nodes, and
so is a document: `Places` gives what stands at the end of each sequence of keys and positions.
`Places`, the walk through the answer and its count of samples are recursive; they are in
`MetricsResponse`, and parameters of `MetricsQuery` with their recursion equations as an assumption
(`FilterAssumption`), as above. The equation of the count takes one key or the last entry off a
document, since Go visits the keys of a map in any order.

### TargetCoverage

The two loops of `ValidateTargetCoverage`, one target per step, on the active targets read from
Prometheus. `CoverageIsExact` compares the verdict with its definition by a one-to-one match.

## Runs

All pass unless marked. Figures are distinct states.

| Run | Checks | Instance and why it is enough |
|---|---|---|
| `lifecycle` | `TypeOK`, `ReadyIsReal`, `TombstoneIsTerminal`, `ListedEvidenceKept` | a cache one version behind the server, a renewal in flight, two boundary objects, metrics, a good and a rejected run of evidence behind a lagging cache; 1.9 million |
| `lagging` | `ExpiryMovesForward`, `KeepsLease` | lagging namespace informer, two incarnations, so that a namespace can be an earlier one's and be taken over, two renewals at once; 1.4 million |
| `progress` | `ReadyIsReal`, `NothingOrphaned`, `DeletionCompletes`, `ExpiryCompletes`, `TombstonesReaped` | one fault at any call or a restart, one renewal, a namespace with nothing in it, fair controller; 207 thousand |
| `store` | `TypeOK`, `OneBundlePerRun`, `AcknowledgedIsWhole`, `StoreIsAtomic`, `StoredUnlessBlocked` | three writers, one of them the retrying controller, two bundles that claim one run ID, one bundle exported by two, two faults; 44 thousand |
| `session` | `TypeOK`, `OwnIncarnation`, `EndsWithLease`, `PromptRevocation`, `EndsWithTunnel`, `FreshCredential` | two incarnations, a short lease and one long enough for a rotation, every step that `Lease` allows, too short, good and too long tokens, calls as slow as allowed; 2.0 million |
| `vcluster` | `TypeOK`, `ReadyIsExact`, `ReadyAppliesOptions`, `KeepsContract`, `HandoffRestored`, `ReleaseRemoved` | settings without identity, with a queue, with the default identity and invalid ones; three faults, so that a repair can itself be interrupted; 297 thousand |
| `procedures` | `GatewayTypeOK`, `SlotsBalanced`, `LongRunRate`, `ForwardedReadsOwn`, `ForwardedWithinBudget`, `ReplyIsFiltered`, `BundleIsComplete`, `RetryBuildsTheSame`, `CoverageIsExact`, `AnswersAreOwn`, `LeaseWithinLimits`, `OthersUntouched` | five modules that share nothing, one at a time: three requests of one subject (budgets do not interact) over three windows with a restart; expressions of depth four, every start, end and step around the limits, with and without a look-back; five artifacts; three active targets; two owners of one name with three incarnations and a lifetime that wraps around; 880 thousand |

The faults of `progress`, the second incarnation of `lagging` and the evidence of `lifecycle` are not
combined in one run; the theorems cover any combination.

Deadlock is not checked in the runs of `Oubliette` and `MCProcedures`: a deleted name with no
incarnation left to create, a clock at its bound and a call that has returned are proper ends. It is
checked in `store`, `session` and `vcluster`.

`MaxTime`, `MaxUid`, `MaxBehind`, `MaxNow` and `MaxFaults` only cut behaviours short; they are in
guards. `session` keeps the code's proportions where they matter: the session asks for tokens of ten
minutes, which the 12 of `Lifetimes` stands for, 1 and 20 being answers it refuses, and half a
token's life has room for a poll interval and the slowest sequence of calls that leads to the next
delivery (300 s against 15 s and five calls of at most 10 s in the code; 6 against 1 and five calls of
1 in the run). Local steps take no time in the run; the theorems cover every `LocalTime`. `procedures` has eight nanoseconds to a half range and two to a second, so that 9
seconds wrap around to a lifetime that is permitted.

### Fairness

`progress`: the controller's worker takes a queued key and finishes its reconcile, the watch
delivers, and Kubernetes finishes namespace deletions and collects orphans: weak fairness of each.
The clock is not fair: the properties start from a time that has come. Nothing makes a
caller act, and failures are bounded, not fair. `store`: a running process goes on, and the
controller starts again after an error because its work queue retries; nobody restarts the command.
`vcluster`: every return of Reconcile asks for a requeue, so the manager is called again (weak
fairness of `Manager`); informers deliver, a started pod comes up, and one that is to go is replaced. Faults and the tenant's
edits are bounded, not fair.

### Disagreements with what the repository says

These runs end in a counterexample; each is a finding in `PROJECT.json` with the sentence it
contradicts.

| Run | Property | What happens |
|---|---|---|
| `violates_tombstone` | `ForgottenMeansGone` | a renewal overtakes an expiry under way; the tombstone patch still lands, and a reconcile on a version before it provisions under `Forgotten=True` |
| `violates_store` | `EveryBundleStored` | an index left empty by a crash refuses its own bundle for ever |
| `violates_handoff` | `InstalledIsHandedOff` | with a numeric identity, the default, the values read back from the release are float64 and the desired ones int64; `DeepEqual` fails, every reconcile upgrades, and the handoff is never made |
| `violates_secret` | `SecretsExcluded` | a document gives the kind of a Secret by an alias; the walk expects a scalar there, and the values go into the bundle |
| `violates_delete` | `DeletesOwn` | a Delete reads its caller's object while that is being finalized; the name becomes free and is taken by another owner; the delete by name takes theirs |

More consequences are worth knowing and have no run of their own.

* A renewal that lands after the reconcile's cached read does not stop that reconcile from
  uninstalling the release. `Expiring` is never cleared, so an Oubliette renewed at that
  moment, though provisioned anew, is shown as Expiring for the rest of its lease.
* With a lagging namespace informer (`Lagging = {"namespace"}`), `deleteNamespace` can take a
  namespace just created for one already gone, so that `NothingOrphaned` fails until the garbage
  collector has done its work. The release is gone even then: `KeepsLease` holds.
* The finalizer lists pending runs once. One published after that listing, or not yet in
  the cache, goes with the namespace.
* A renewal raises the generation, so that a session whose check falls between the renewal and
  the controller's next status patch finds the Oubliette not ready and closes.
* A namespace is taken over by the next incarnation of its name even while it is being deleted. Nothing
  is installed in it then: `KeepsLease` holds.

The passing runs state what does hold in each place: Ready stays real throughout, listed
evidence is kept, the store makes progress unless a run ID is blocked.

## Proofs

Proved for all values of the constants, from `ConstantsAssumption`, `StoreAssumption`,
`GatewayAssumption`, `SessionAssumption`, `VClusterAssumption`, `ServiceAssumption`,
`CoverageAssumption`, `RequestAssumption`, `FilterAssumption` and `BundleAssumption`, which TLC
evaluates in the runs. Most of them only type the constants. `FilterAssumption` and
`BundleAssumption` also state the recursion equations of the walks, that documents are finite, and
that parts of documents are documents; and `RefreshAssumption`,
which only `Fresh` uses, says that half of a token's accepted lifetime has room for one rotation
with every call at its timeout: 300 s against 15 s and five calls of 10 s in the code.

| Module | Theorems |
|---|---|
| `OublietteProofs` | `TypeCorrect` (`TypeOK`), `TombstonesTerminal` (`TombstoneIsTerminal`) |
| `OublietteReadyProofs` | `Inductive` (`IndInv`), `ReadySound` (`ReadyIsReal`), `ExpiryForward` (`ExpiryMovesForward`), `LeaseKept` (`KeepsLease`, the refinement); assuming that the namespace informer does not lag, `NoOrphans` (`NothingOrphaned`) and `EvidenceKept` (`ListedEvidenceKept`) |
| `ProcedureProofs` | `ServiceInductive` (`ServiceInv`), `OwnAnswers` (`AnswersAreOwn`), `LeaseLimited` (`LeaseWithinLimits`), `OthersKept` (`OthersUntouched`); `CoverageInductive` (`CoverageInv`), `CoverageExact` (`CoverageIsExact`); `BundleInductive` (`BundleInv`), `RetryTheSame` (`RetryBuildsTheSame`), `ProvenanceHeld` (`ProvenanceIsComplete`), `BundleComplete` (`BundleIsComplete`) |
| `MetricsQueryProofs` | `QueryInductive` (`QueryInv`), `ReadsOwn` (`ForwardedReadsOwn`), `WithinBudget` (`ForwardedWithinBudget`), `ReplyFiltered` (`ReplyIsFiltered`) |
| `VClusterProofs` | `Invariant`, `TypeCorrect` (`TypeOK`), `ReadyExact` (`ReadyIsExact`), `AppliesOptions` (`ReadyAppliesOptions`), `Implements` (`KeepsContract`, the refinement) |
| `EvidenceStoreProofs` | `StoreInductive`, `StoreTyped` (`TypeOK`), `StoreRefines` (`StoreIsAtomic`, the refinement), `RunIDsUnique` (`OneBundlePerRun`), `StoredIsWhole` (`AcknowledgedIsWhole`), `StoreKeeps` (`NothingOverwritten`) |
| `SessionProofs` | `SessionInductive`, `Typed` (`TypeOK`), `Own` (`OwnIncarnation`), `Ends` (`EndsWithLease`), `TunnelEnds` (`EndsWithTunnel`), `AlwaysBacked` (`Backed` of `Lease`); `TimeInductive` (`TimeInv`), `Prompt` (`PromptRevocation`), `Fresh` (`FreshCredential`) |
| `MetricsGatewayProofs` | `GatewayTyped` (`GatewayTypeOK`), `SlotsInductive`, `SlotsExact` (`SlotsBalanced`), `RateHolds` (`LongRunRate`) |

The argument for `ReadyIsReal`. A Ready status can be patched from an old copy and onto a later
incarnation, so the property is not inductive. `IndInv` adds:

1. `ChainInv`: `feed` leads from the cache to the server's object in order. Along it, within one
   incarnation, generations grow, a generation has one expiry, and a deletion stays.
2. `FinalizerInv`: whoever saw the finalizer on a live object may rely on the server still having
   it, since only the controller takes it off, and only from a deleted object.
3. `WorkInv`: what a reconcile knows of its copy, per branch; in a teardown by deletion, every
   version of that incarnation from the cache on is deleted.
4. `MarkInv`: a Ready mark's generation is one the cache has reached; so no Ready mark of the
   server's generation exists while the cache, on which a teardown is decided, is older.
5. `ReleaseInv`: a release stands in an active namespace of the incarnation that exists; it goes before
   its namespace and before its object. So a namespace on the way out has none, nor has one at the moment it is
   taken over, and a reconcile that finds its boundary unchanged in it does not reach the status report.
6. `ReadyInv`: a reporting reconcile has its whole boundary and the release; no teardown is under
   way for an object that is ready, not deleted and not expired; such an object is usable.

`ExpiryMovesForward` rests on `RenewalInv`: a renewal whose copy is still current would move the
expiry forward. `KeepsLease` needs `MarkInv` for a renewal (no mark is newer than the object,
so the next generation has none), `ReadyIsReal` after the step for every report and withdrawal, and
`LeaseInv` for a removal: however old the view of the namespace, a release has an object that holds
the finalizer, and has gone before the finalizer goes. `NothingOrphaned` adds `HostInv`. `TombstoneIsTerminal` needs `TerminalInv`: every
version between cache and server, not only the two ends, is free of a claim to readiness under
`Forgotten`, and a patch from a reconcile's copy keeps it so. `ListedEvidenceKept` needs
`EvidenceInv`: the cache shows every listed run that is still pending, and a teardown past its export
has stored those. It also needs `NothingOrphaned`, and with it the assumption on the namespace
informer: the garbage collector would take an orphaned namespace with all that is in it.

The store's invariant says that an index names its run's only bundle, that a writer past the
reservation holds it, and that a published or acknowledged bundle is whole. With it each step of a
writer is a step of `BundleStore` or a stutter: the write into the index is the claim, the rename
the put, and finding one's own bundle whole a put that changes nothing. The gateway's proof
counts the handlers that hold a slot; `LongRunRate` rests on an invariant relating what was served
to the window in which it was counted, whatever the order of the readings, and on arithmetic lemmas
about division. The manager's invariant relates the label to what has been seen, so
that a yes can only come from a kubeconfig of the pod that runs, and that pod, unless it is to go, to the
settings last applied. `ServiceInv` says that what a call
holds is its caller's own and that a fresh copy is the server's object but for its expiry.
`CoverageInv` is the loop invariant: `want` and `seen` stand for the targets passed so far.

A session's invariant says which incarnation and which deadline each step works for, and when a
step is due. `TunnelInv` does the same for the moment the port-forward broke: every call but a delivery ends
with it. The two properties about its speed need clocks as well, in `TimeInv`:

1. `Paced`: no step has run for longer than its timeout, and the next tick is at most an interval
   after the step in progress began.
2. `Losing`: since the entitlement was lost, a check passes only if it was read before, so each
   label bounds how long ago that was (`Delay`). A virtual cluster that is gone makes checks fail by
   `AlwaysBacked`: by the contract, what is shown ready before its expiry can be used.
3. `Rotating`: each label bounds how far a rotation is past its due time, and a delivered token
   lives for the slowest rotation (`Reserve`) after its refresh is due.

A metrics request. `QueryInv` says how far the form is rewritten at each stage. `ReadsOwn`
then rests on one fact about `Rewrite`, node by node: what a selector with the two added matchers
picks of all series is what the selector picks of the scope's own. `WithinBudget` counts:
the instants of a range are the images of `0..k`, and the code's rounding up bounds `k`.
`ReplyFiltered` has three parts, after `AnswerInv`: an answer is the filtered document, and its
count of samples is within the budget.

1. `FilterPlaces`: the places of the filtered document are those of the upstream's that pass no
   sensitive key, with the same there. A place where this fails and which is of least length is
   not empty, and without its first step it is such a place of the child: the recursion equations
   of `Places` and of the walk agree on what the first step does.
2. `CountsAll`: the places that hold a point are at most as many as the samples counted. Of the
   documents where this fails take one with the fewest places. Taking off a key, or the last entry,
   leaves two smaller documents, the rest and the child, and what the key adds to the count covers
   the points it alone makes.
3. `NamesKept`: the loop of `filterResponse` over `"data"` keeps just the texts that are not sensitive
   (`KeptNames`, by the first round where that fails), and these are the document's names.

An evidence bundle. `RetryTheSame` needs that the result of a sort that is not stable is unique: two
orders of one list, both sorted by name, differ first at some position, where distinct names would
make one of them unsorted; `Build` refuses a list with two artifacts of one name. Zone and nil map
are forgotten by `normalizeRun`. `BundleComplete` needs that a walk which finds no Secret has been
everywhere (`WalkIsThorough`): of the nodes with a reachable Secret that it misses, take one that
reaches the fewest nodes; its children reach fewer. An alias stands for a node of its own
document, which the walk meets at its own place. A mapping that spells out to be a Secret is one by the
code's test too: the first of its kinds, which the code looks at, is among those given (`SpelledIsSecret`).

Only model-checked is liveness (`DeletionCompletes`, `ExpiryCompletes`, `TombstonesReaped`,
`StoredUnlessBlocked`, `HandoffRestored`, `ReleaseRemoved`), which is beyond the prover. Every invariant
and action property of a passing run has a theorem. What the recursive definitions in
`MetricsResponse` and `EvidenceDocument` compute is beyond it too: that they satisfy the equations the
proofs use is what TLC evaluates on the run's documents.

## Not modelled

* Loss of unsynced file data at a machine failure.
* PromQL parsing and printing, YAML parsing, HTTP and JSON decoding: libraries, taken by their
  results.
* The delivery of metrics credentials to sinks, MCP and HTTP plumbing, tier tables, flags and
  installation manifests: no behaviour over time.
* Leader election: one controller acts at a time.
* Several names at once: no operation touches two.
* That a quota or a policy in a namespace is restored after someone else has changed it: the boundary
  objects are counted, and only this controller writes them.

## Plan

Compositions: `Oubliette` with `ControlPlane` and its disturbances of the handoff in place of single
steps; the export step on `EvidenceStore`.

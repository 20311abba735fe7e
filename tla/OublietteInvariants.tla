------------------------ MODULE OublietteInvariants ------------------------
(* The strengthenings that make the safety properties of Oubliette         *)
(* inductive.  TLC checks them on small instances, OublietteProofs proves  *)
(* them for all.                                                           *)
EXTENDS Oubliette

---------------------------------------------------------------------------
(* The versions of the root object between the cache and the server.       *)

Version(i) == IF i = 0 THEN cache ELSE feed[i]

Indices == 0..Len(feed)

\* A version of one incarnation before a later one: generations only grow, one
\* generation has one deadline, and a deletion is not taken back.
Precedes(a, b) ==
    a.uid = b.uid =>
        /\ a.generation <= b.generation
        /\ a.generation = b.generation => a.expiresAt = b.expiresAt
        /\ a.deleting => b.deleting

\* The feed leads from the cached version to the server's, in order, and the
\* versions of the incarnation that exists now are the last ones.
ChainInv ==
    /\ Version(Len(feed)) = obj
    /\ \A i \in Indices :
          /\ Version(i).uid <= lastUid
          /\ Version(i).uid = 0 => Version(i) = NotFound
          /\ Precedes(Version(i), obj)
    /\ \A i, j \in Indices : i <= j =>
          /\ Precedes(Version(i), Version(j))
          /\ Exists(obj) /\ Version(i).uid = obj.uid => Version(j).uid = obj.uid

Provisioning == {"boundary", "controls", "exportLive", "ensure", "report", "reportReady",
                 "reportStarting", "fail"}

Reporting == {"report", "reportReady", "reportStarting"}

\* Labels at which the reconcile's copy is still the one it read.
AsRead == Provisioning \cup {"addFinalizer", "markExpiring"}

Teardown == {"markExpiring", "export", "uninstall", "deleteNamespace", "forget",
             "removeFinalizer"}

\* Only the controller takes the finalizer off, and only from an object that is
\* being deleted: who saw it on a live object may rely on it.
Held(o, latest) ==
    o.finalizer /\ ~o.deleting => latest.uid = o.uid /\ latest.finalizer

FinalizerInv ==
    /\ \A i \in Indices : Held(Version(i), obj)
    /\ pc # "idle" => Held(work, obj)
    /\ pc \in Provisioning => work.finalizer /\ ~work.deleting

\* What a reconcile knows of the object it read.
WorkInv ==
    /\ pc # "idle" => Exists(work) /\ work.uid <= lastUid
    /\ expired => pc \in Teardown
    /\ pc \in Provisioning \cup {"addFinalizer"} => ~expired
    /\ pc = "markExpiring" => expired
    /\ pc = "forget" => expired
    /\ pc = "removeFinalizer" => ~expired
    /\ pc # "idle" /\ "work" \in current =>
          /\ work.uid = obj.uid
          /\ work.finalizer = obj.finalizer
          /\ work.deleting = obj.deleting
    /\ pc \in AsRead => Precedes(work, obj)
    /\ pc \in AsRead /\ Exists(obj) /\ work.uid = obj.uid =>
          /\ cache.uid = work.uid
          /\ work.generation <= cache.generation
    /\ pc = "markExpiring" => ~work.deleting /\ now >= work.expiresAt
    /\ pc \in Teardown /\ ~expired =>
          /\ work.deleting
          /\ \A i \in Indices : Version(i).uid = work.uid => Version(i).deleting

\* A Ready mark is not newer than the object that carries it, and an object
\* without the finalizer carries none.
Marked(o) ==
    conditionTrue(o, "Ready") =>
        o.finalizer /\ o.conditions["Ready"].generation <= o.generation

MarkInv ==
    /\ \A i \in Indices : Marked(Version(i))
    /\ pc \in AsRead => Marked(work)
    /\ conditionTrue(obj, "Ready") =>
          /\ cache.uid = obj.uid
          /\ obj.conditions["Ready"].generation <= cache.generation

\* The status says the current generation is ready.
ReadyNow(o) ==
    /\ conditionTrue(o, "Ready")
    /\ o.conditions["Ready"].generation = o.generation

Live == ReadyNow(obj) /\ ~obj.deleting /\ now < obj.expiresAt

\* The reconcile's object has its namespace, with the whole boundary in it.
HasBoundary == ns = "active" /\ nsOwner = work.uid /\ controls = NumControls

\* A reconcile that came past ensureBoundary has its boundary, unless the namespace
\* is on the way out, in which Ensure finds no release and installs none; what it
\* is about to report is so; no teardown is under way for an object that counts as
\* ready, which is usable.
ReadyInv ==
    /\ pc \in {"controls", "exportLive", "ensure"} /\ ns = "active" => nsOwner = work.uid
    /\ pc \in {"exportLive", "ensure"} /\ ns = "active" => controls = NumControls
    /\ pc \in Reporting => HasBoundary /\ release
    /\ pc = "reportReady" => handoff
    /\ pc \in Teardown => ~Live
    /\ Live => Usable /\ nsOwner = obj.uid

\* A release stands in an active namespace of the incarnation that exists, whose
\* finalizer will remove it: it goes before its namespace and before its object.
ReleaseInv ==
    /\ nsOwner <= lastUid
    /\ Exists(obj) => obj.uid = lastUid
    /\ release => ns = "active" /\ nsOwner = obj.uid /\ obj.finalizer
    /\ pc \in {"deleteNamespace", "forget", "removeFinalizer"} => ~release

\* A renewal still at the server's version will move the expiry forward.
RenewalInv ==
    \A c \in Callers : c \in current /\ renewal[c] # 0 =>
        Exists(obj) /\ ~conditionTrue(obj, "Forgotten") /\ renewal[c] > obj.expiresAt

\* The inductive invariant behind ReadyIsReal, NothingOrphaned and
\* ExpiryMovesForward.
IndInv ==
    /\ TypeOK /\ ChainInv /\ RenewalInv /\ FinalizerInv /\ WorkInv /\ MarkInv
    /\ ReleaseInv /\ ReadyInv

\* With an up-to-date view of the namespace, it is gone once finalize says so.
HostInv ==
    /\ pc \in {"forget", "removeFinalizer"} => ns = "absent"
    /\ ns # "absent" => obj.finalizer /\ nsOwner = obj.uid

\* The conditions of a tombstone claim no readiness.
Terminal(o) ==
    conditionTrue(o, "Forgotten") =>
        ~conditionTrue(o, "Ready") /\ ~conditionTrue(o, "MetricsReady")

\* Every version between server and cache, and the reconcile's copy, keeps to
\* it; and who provisions does so from a version that was not Forgotten.
TerminalInv ==
    /\ Terminal(obj) /\ Terminal(cache) /\ Terminal(work)
    /\ \A i \in 1..Len(feed) : Terminal(feed[i])
    /\ pc \in Provisioning => ~conditionTrue(work, "Forgotten")

\* A listed run stays in view until it is stored; once finalize has exported,
\* and while the namespace goes, every listed run is stored.
EvidenceInv ==
    /\ listed \subseteq pending \cup exported \cup lost
    /\ pending \cap lost = {}
    /\ listed \cap pending \subseteq EvidenceRead
    /\ ns = "terminating" \/ pc \in {"uninstall", "deleteNamespace"} =>
          listed \cap pending \subseteq exported
    /\ ListedEvidenceKept

===========================================================================

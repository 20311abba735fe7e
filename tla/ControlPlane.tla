---------------------------- MODULE ControlPlane ----------------------------
(***************************************************************************)
(* What the lifecycle controller relies on when it calls a vCluster        *)
(* manager (the VClusterManager interface of internal/controller): Ensure  *)
(* and Ready on every reconcile, Delete from the finalizer.                *)
(*                                                                         *)
(* The tenant is an administrator of the virtual cluster and its state is  *)
(* not durable, so the handoff identity may be disturbed at any moment.    *)
(***************************************************************************)

VARIABLES
    installed, \* a release of the virtual control plane is recorded
    handoff,   \* the handoff identity is in place in the virtual cluster
    call,      \* the call in progress; "deleted" when Delete has just succeeded
    answer,    \* what Ready last said: "yes", or "none"
    disturbed  \* the virtual cluster has changed by itself since Ready was called

vars == <<installed, handoff, call, answer, disturbed>>

Init ==
    /\ installed = FALSE /\ handoff = FALSE
    /\ call = "idle" /\ answer = "none" /\ disturbed = FALSE

CallEnsure ==
    /\ call = "idle" /\ call' = "ensure"
    /\ answer' = "none"
    /\ UNCHANGED <<installed, handoff, disturbed>>

\* Ensure records the release before it touches the handoff, which a replaced
\* binding also takes away.
Ensure ==
    /\ call = "ensure"
    /\ \/ installed' = TRUE /\ handoff' = handoff
       \/ installed /\ handoff' \in BOOLEAN /\ UNCHANGED installed
    /\ UNCHANGED <<call, answer, disturbed>>

CallReady ==
    /\ call = "ensure" /\ call' = "ready"
    /\ disturbed' = FALSE
    /\ UNCHANGED <<installed, handoff, answer>>

\* Ready says yes for a handoff that is in place, or that moved under its reads.
Ready ==
    /\ call = "ready" /\ call' = "idle"
    /\ answer' \in {"none"} \cup {a \in {"yes"} : handoff \/ disturbed}
    /\ UNCHANGED <<installed, handoff, disturbed>>

CallDelete ==
    /\ call = "idle" /\ call' = "delete"
    /\ answer' = "none"
    /\ UNCHANGED <<installed, handoff, disturbed>>

\* Delete succeeds only once no release is left; the control plane goes later.
Delete ==
    /\ call = "delete" /\ call' = "deleted"
    /\ installed' = FALSE
    /\ UNCHANGED <<handoff, answer, disturbed>>

\* A call fails, the controller stops, or the next reconcile begins.
Abort ==
    /\ call' = "idle"
    /\ answer' \in {answer, "none"}
    /\ UNCHANGED <<installed, handoff, disturbed>>

\* The tenant, a restart or a replacement of the control plane changes the virtual
\* cluster, which outlives its release for a while.
Disturb ==
    /\ handoff' \in BOOLEAN /\ disturbed' = TRUE
    /\ UNCHANGED <<installed, call, answer>>

Next == \/ CallEnsure \/ Ensure \/ CallReady \/ Ready
        \/ CallDelete \/ Delete \/ Abort \/ Disturb

Spec == Init /\ [][Next]_vars

===========================================================================

------------------------------ MODULE Session ------------------------------
(***************************************************************************)
(* An access session of oub-connect (pkg/connector): Session.Run against   *)
(* the Kubernetes backend and the file sink, while the Oubliette it is     *)
(* attached to does whatever Lease, the contract of the lifecycle service  *)
(* and the controller, lets it do, while operators edit it, and while the  *)
(* caller may lose their authorization.                                    *)
(*                                                                         *)
(* Time is discrete and calls take time: a call that has not returned when *)
(* its context times out is an error.  A check reads the object at some    *)
(* moment within the call and returns at another.                          *)
(***************************************************************************)
EXTENDS Integers

CONSTANTS
    MaxTime,      \* bound on the clock
    MaxUid,       \* bound on the incarnations of the name
    Leases,       \* lifetimes asked for
    PollInterval, \* between ticks of the session's ticker
    CallTimeout,  \* of one check or one token request
    LocalTime,    \* what writing or removing the kubeconfig takes at most
    Lifetimes,    \* of the tokens the virtual API server issues
    MinRemaining, MaxRemaining \* what issue accepts of them

ASSUME SessionAssumption ==
    /\ MaxTime \in Nat /\ MaxUid \in Nat \ {0} /\ LocalTime \in Nat
    /\ PollInterval \in Nat \ {0} /\ CallTimeout \in Nat \ {0}
    /\ Leases \subseteq Nat \ {0} /\ Lifetimes \subseteq Nat
    /\ MinRemaining \in Nat /\ MaxRemaining \in Nat

\* Half of a lifetime that issue accepts leaves room for a rotation in which
\* every call is as slow as its timeout allows: a tick, five calls, three local
\* steps.  Tokens are asked for ten minutes, a tick is 15 s and a call 10 s.
ASSUME RefreshAssumption ==
    \A life \in Lifetimes, spent \in 0..CallTimeout :
        life - spent \in MinRemaining..MaxRemaining =>
            life - spent - (life - spent) \div 2
                >= PollInterval + 5 * CallTimeout + 3 * LocalTime

VARIABLES
    now,
    uid, expiresAt, phase, usable, \* the Oubliette, as in Lease
    revoked,        \* the caller's token no longer resolves to the owner
    pc,             \* where Run stands; "none" when no session runs, "left" when
                    \* the last one is gone and left its output behind
    after,          \* what follows the check in progress
    answer,         \* what that check has read: "none", "yes" or "no"
    since,          \* when the step in progress began
    lease,          \* the lease observed on entry
    tunnel,         \* the incarnation the port-forward reaches; 0 when closed
    bearer,         \* expiry of the token that authenticates rotation; 0: bootstrap
    cred,           \* the credential in hand
    refreshAt, nextTick,
    dir, file,      \* the sink's directory and the kubeconfig in it
    lostAt,         \* history: since when the session is not entitled to access
    brokenAt        \* history: since when its port-forward is gone

Contract == INSTANCE Lease

object == <<uid, expiresAt, phase, usable, revoked>>
sink == <<dir, file>>
timers == <<refreshAt, nextTick>>
locals == <<after, answer, since, lease, tunnel, bearer, cred, timers>>
vars == <<now, object, pc, locals, sink, lostAt, brokenAt>>

None == [uid |-> 0, expires |-> 0, half |-> 0]

NoLease == [uid |-> 0, expiresAt |-> 0]

Never == MaxTime + 1

Init ==
    /\ Contract!Init /\ revoked = FALSE
    /\ pc = "none" /\ after = "none" /\ answer = "none" /\ since = 0
    /\ lease = NoLease
    /\ tunnel = 0 /\ bearer = 0 /\ cred = None
    /\ refreshAt = 0 /\ nextTick = 0
    /\ dir = FALSE /\ file = None
    /\ lostAt = Never /\ brokenAt = Never

---------------------------------------------------------------------------
(* The Oubliette: what the contract of Lease allows, and operators.        *)

\* A lifetime is asked for.
Asked == \E ttl \in Leases : now + ttl <= MaxTime /\ expiresAt' = now + ttl

Create == uid < MaxUid /\ Asked /\ Contract!Grant

Renew == Asked /\ Contract!Renew

\* Status patches, the finalizer's last one, and the virtual cluster behind the
\* object.
Reconcile == Contract!Report \/ Contract!Remove \/ Contract!Provide \/ Contract!Withdraw

\* An operator's edit shortens the lease.  It raises the generation as a renewal
\* does, which the Ready condition then lags.
Shorten ==
    /\ phase # "absent"
    /\ Asked /\ expiresAt' < expiresAt
    /\ phase' = IF phase = "ready" THEN "pending" ELSE phase
    /\ UNCHANGED <<now, uid, usable>>

RevokeCaller ==
    /\ ~revoked
    /\ revoked' = TRUE
    /\ UNCHANGED <<now, uid, expiresAt, phase, usable>>

Environment ==
    /\ \/ (Create \/ Renew \/ Reconcile \/ Shorten) /\ UNCHANGED revoked
       \/ RevokeCaller
    /\ UNCHANGED <<pc, locals, sink>>

---------------------------------------------------------------------------
(* Run.                                                                    *)

\* Mutation of Cancelled: the context has no deadline.
Cancelled_NoDeadline == tunnel = 0

\* The session's context: cancelled at the lease's deadline and when the
\* port-forward ends.
Cancelled == now >= lease.expiresAt \/ tunnel = 0

Goto(label) == pc' = label /\ since' = now

\* Every return runs the deferred calls: close the connection, then the sink.
Return ==
    /\ Goto("closing")
    /\ tunnel' = 0
    /\ after' = "none" /\ answer' = "none" /\ cred' = None
    /\ UNCHANGED <<now, object, lease, bearer, timers, sink>>

\* Begin a check; what it leads to follows when it passes.
Check(next) ==
    /\ Goto("check")
    /\ after' = next /\ answer' = "none"

\* NewFileSink makes the directory, which must not exist; Run's first check.
Start ==
    /\ pc \in {"none", "left"} /\ ~dir
    /\ dir' = TRUE
    /\ Check("open")
    /\ bearer' = 0
    /\ UNCHANGED <<now, object, lease, tunnel, cred, timers, file>>

authorize == ~revoked /\ phase = "ready" /\ now < expiresAt

\* Mutation of Matches: the incarnation is not compared.
Matches_AnyUid == expiresAt >= lease.expiresAt

\* check compares with the lease on entry: same incarnation, not shortened.
Matches == uid = lease.uid /\ expiresAt >= lease.expiresAt

\* The backend reads the token and the object.
CheckRead ==
    /\ pc = "check" /\ answer = "none"
    /\ IF after = "open"
         THEN /\ answer' = IF authorize THEN "yes" ELSE "no"
              /\ lease' = [uid |-> uid, expiresAt |-> expiresAt]
         ELSE /\ answer' = IF authorize /\ Matches THEN "yes" ELSE "no"
              /\ UNCHANGED lease
    /\ UNCHANGED <<now, object, pc, after, since, tunnel, bearer, cred, timers, sink>>

\* The check returns.  During the session it also returns the context's error.
CheckReturn ==
    /\ pc = "check" /\ answer # "none"
    /\ IF answer = "no" \/ now >= lease.expiresAt \/ (after # "open" /\ Cancelled)
         THEN Return
         ELSE /\ \/ after = "open" /\ Goto("open")
                 \/ after = "issue" /\ Goto("issue")
                 \/ after = "write" /\ Goto("write")
                 \/ after = "poll" /\ now < refreshAt /\ Goto("loop")
                 \/ after = "poll" /\ now >= refreshAt /\ Goto("check")
              /\ after' = IF pc' = "check" THEN "issue" ELSE "none"
              /\ answer' = "none"
              /\ UNCHANGED <<now, object, lease, tunnel, bearer, cred, timers, sink>>

\* Open checks again for the very same lease, then forwards a port to the
\* control-plane pod it finds, which may by then be a later incarnation's.
Open ==
    /\ pc = "open" /\ answer = "none"
    /\ authorize /\ uid = lease.uid /\ expiresAt = lease.expiresAt
    /\ answer' = "yes"
    /\ UNCHANGED <<now, object, pc, after, since, lease, tunnel, bearer, cred, timers,
                   sink>>

Forward ==
    /\ pc = "open" /\ answer = "yes" /\ now < lease.expiresAt
    /\ tunnel' = uid
    /\ Check("issue")
    /\ UNCHANGED <<now, object, lease, bearer, cred, timers, sink>>

\* The virtual API server is reached through the tunnel, and takes the last
\* token it issued, or the bootstrap identity the first time.
TokenRequestAccepted ==
    /\ tunnel # 0 /\ tunnel = uid
    /\ bearer = 0 \/ now < bearer

\* Mutation of Issue: a token of any lifetime will do.
Issue_AnyLifetime ==
    /\ pc = "issue" /\ TokenRequestAccepted
    /\ \E life \in Lifetimes, minted \in since..now :
          /\ cred' = [uid |-> tunnel, expires |-> minted + life,
                      half |-> (minted + life - now) \div 2]
          /\ bearer' = minted + life
          /\ Check("write")
          /\ UNCHANGED <<now, object, lease, tunnel, timers, sink>>

\* The server mints the token at some moment of the call.  One of an
\* unreasonable lifetime ends the session.
Issue ==
    /\ pc = "issue" /\ TokenRequestAccepted
    /\ \E life \in Lifetimes, minted \in since..now :
          IF minted + life - now \in MinRemaining..MaxRemaining
            THEN /\ cred' = [uid |-> tunnel, expires |-> minted + life,
                             half |-> (minted + life - now) \div 2]
                 /\ bearer' = minted + life
                 /\ Check("write")
                 /\ UNCHANGED <<now, object, lease, tunnel, timers, sink>>
            ELSE Return

\* Mutation of Write: refreshing when the token runs out, instead of half way.
Write_AtExpiry ==
    /\ pc = "write"
    /\ file' = cred
    /\ refreshAt' = cred.expires
    /\ nextTick' = IF file = None THEN now + PollInterval ELSE nextTick
    /\ cred' = None
    /\ Goto("loop")
    /\ UNCHANGED <<now, object, after, answer, lease, tunnel, bearer, dir>>

\* The sink replaces the kubeconfig by a rename.  The ticker is made after the
\* first delivery.
Write ==
    /\ pc = "write"
    /\ file' = cred
    /\ refreshAt' = now + cred.half
    /\ nextTick' = IF file = None THEN now + PollInterval ELSE nextTick
    /\ cred' = None
    /\ Goto("loop")
    /\ UNCHANGED <<now, object, after, answer, lease, tunnel, bearer, dir>>

\* Mutation of PollTick: looking at the Oubliette only when a refresh is due.
PollTick_OnlyRefresh ==
    /\ pc = "loop" /\ now >= nextTick
    /\ nextTick' = nextTick + PollInterval * ((now - nextTick) \div PollInterval + 1)
    /\ IF now >= refreshAt
         THEN Check("issue")
         ELSE UNCHANGED <<pc, since, after, answer>>
    /\ UNCHANGED <<now, object, lease, tunnel, bearer, cred, refreshAt, sink>>

\* A tick: the ticker keeps its beat and holds one tick back for a slow loop.
PollTick ==
    /\ pc = "loop" /\ now >= nextTick
    /\ nextTick' = nextTick + PollInterval * ((now - nextTick) \div PollInterval + 1)
    /\ Check("poll")
    /\ UNCHANGED <<now, object, lease, tunnel, bearer, cred, refreshAt, sink>>

\* Mutation of Interruptible: the token request does not watch the context.
Interruptible_NotIssue == pc = "loop" \/ (pc = "check" /\ after # "open")

\* Where Run watches the context: in the loop and in its calls.
Interruptible == pc \in {"issue", "loop"} \/ (pc = "check" /\ after # "open")

\* The context is done: a call in progress returns its error, the loop ends.
Interrupted == Interruptible /\ Cancelled /\ Return

\* A call fails or times out, the token is refused, the control plane is not
\* found, its bootstrap configuration is rejected, or the sink cannot write.
Fails == pc \in {"check", "open", "issue", "write"} /\ Return

\* The port-forward ends: its peer or the transport closes it, or the context,
\* which it watches on its own, is done while Run is in a call.
TunnelBreaks ==
    /\ tunnel # 0
    /\ tunnel' = 0
    /\ UNCHANGED <<now, object, pc, after, answer, since, lease, bearer, cred, timers,
                   sink>>

\* Nothing of the process is left but what it wrote.
Gone(label) ==
    /\ pc' = label
    /\ since' = 0 /\ after' = "none" /\ answer' = "none"
    /\ lease' = NoLease /\ tunnel' = 0 /\ bearer' = 0 /\ cred' = None
    /\ refreshAt' = 0 /\ nextTick' = 0
    /\ UNCHANGED <<now, object>>

\* The sink removes the kubeconfig and the directory it was in.  Where one of the
\* two calls fails, the process exits with a failing status.
Close ==
    /\ pc = "closing"
    /\ \/ Gone("none") /\ dir' = FALSE /\ file' = None
       \/ Gone("left") /\ file' \in {file, None} /\ UNCHANGED dir

\* The process is killed.
Kill ==
    /\ pc \notin {"none", "left"}
    /\ Gone("left")
    /\ UNCHANGED sink

\* A supervisor removes what is left.
CleanUp ==
    /\ pc = "left"
    /\ pc' = "none"
    /\ dir' = FALSE /\ file' = None
    /\ UNCHANGED <<now, object, locals>>

Run ==
    \/ Start \/ CheckRead \/ CheckReturn \/ Open \/ Forward \/ Issue \/ Write
    \/ PollTick \/ Interrupted \/ Fails \/ TunnelBreaks \/ Close \/ Kill \/ CleanUp

---------------------------------------------------------------------------
(* Time does not pass a timeout, a tick that is waited for or a            *)
(* cancellation before the step that is due has been taken.                *)

Due ==
    CASE pc \in {"check", "issue"} -> since + CallTimeout
      [] pc = "open" -> lease.expiresAt
      [] pc \in {"write", "closing"} -> since + LocalTime
      [] pc = "loop" -> nextTick
      [] OTHER -> MaxTime

Tick ==
    /\ now < MaxTime /\ now < Due
    /\ ~((Interruptible \/ tunnel # 0) /\ Cancelled)
    /\ Contract!Tick
    /\ UNCHANGED <<revoked, pc, locals, sink>>

\* What gives the session access, but for the lag of the Ready condition: an
\* owner, a lease that still runs as observed, and a virtual cluster behind it.
Entitled == ~revoked /\ phase \in {"pending", "ready"} /\ Matches /\ usable

Next ==
    /\ Environment \/ Run \/ Tick
    /\ lostAt' = IF file' = None \/ pc' \in {"none", "left"} \/ Entitled' THEN Never
                 ELSE IF lostAt = Never THEN now' ELSE lostAt
    /\ brokenAt' = IF tunnel' # 0 \/ pc' \in {"none", "left"} THEN Never
                   ELSE IF tunnel # 0 THEN now' ELSE brokenAt

Spec == Init /\ [][Next]_vars

---------------------------------------------------------------------------
(* Properties.                                                             *)

Credential(bound) == [uid : 0..MaxUid, expires : 0..bound, half : 0..(MaxRemaining \div 2)]

\* Types; half a lifetime that issue accepts is at most half of MaxRemaining.
TypeOK ==
    /\ now \in 0..MaxTime /\ since \in 0..now
    /\ uid \in 0..MaxUid /\ expiresAt \in Nat /\ usable \in BOOLEAN /\ revoked \in BOOLEAN
    /\ phase \in {"absent", "pending", "ready", "ending"}
    /\ pc \in {"none", "check", "open", "issue", "write", "loop", "closing", "left"}
    /\ after \in {"none", "open", "issue", "write", "poll"}
    /\ answer \in {"none", "yes", "no"}
    /\ lease \in [uid : 0..MaxUid, expiresAt : Nat]
    /\ tunnel \in 0..MaxUid /\ bearer \in Nat
    /\ refreshAt \in Nat /\ nextTick \in Nat /\ lostAt \in Nat /\ brokenAt \in Nat
    /\ dir \in BOOLEAN
    /\ cred \in Credential(MaxTime + MaxRemaining)
    /\ file \in Credential(MaxTime + MaxRemaining)

\* A session runs; a kubeconfig that is there is its own.
Running == pc \notin {"none", "left"}

\* A kubeconfig is only ever delivered for the incarnation the session was
\* authorized for, though the name may be recreated at any moment, also between
\* Open's check and its choice of the pod (check, issue, check, write), and though
\* an earlier session may have left its own in the directory (NewFileSink).
OwnIncarnation == Running /\ file # None => file.uid = lease.uid

\* Rotation is in time: while the session runs, with calls as slow as their
\* timeouts allow, the kubeconfig's token has not run out.
FreshCredential == Running /\ file # None => now < file.expires

\* Access ends with the lease observed on entry, also when the Oubliette has
\* been renewed: the tunnel at the deadline, the kubeconfig as soon as the file
\* system allows, or the process exits with a failing status (Close).
EndsWithLease ==
    /\ tunnel # 0 => now <= lease.expiresAt
    /\ Running /\ file # None => now <= lease.expiresAt + 2 * LocalTime

\* Deletion, replacement, a shortened lease, a virtual cluster taken away or a
\* caller who lost their identity ends access within two calls and a poll
\* interval, or the time of a further call or delivery where the interval is set
\* shorter than that.
PromptRevocation ==
    lostAt # Never =>
        \E wait \in {PollInterval, CallTimeout, LocalTime} :
            now - lostAt <= wait + 2 * CallTimeout + LocalTime

\* Access ends with the port-forward: whatever Run is doing when it breaks, a check,
\* a token request or waiting for a tick, it goes on to remove the kubeconfig, and
\* at most finishes a delivery it had begun.
EndsWithTunnel ==
    brokenAt # Never /\ file # None => now <= brokenAt + 2 * LocalTime

===========================================================================

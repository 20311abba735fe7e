--------------------------- MODULE SessionProofs ---------------------------
(* What an access session may rely on, for every timeout, poll interval,   *)
(* lease and number of incarnations.                                       *)
EXTENDS Session, TLAPS

Shape ==
    /\ now \in Nat /\ since \in Nat /\ uid \in Nat /\ expiresAt \in Nat
    /\ lease.uid \in Nat /\ lease.expiresAt \in Nat
    /\ tunnel \in Nat
    /\ pc \in {"none", "check", "open", "issue", "write", "loop", "closing", "left"}
    /\ pc = "check" => after \in {"open", "issue", "write", "poll"}
    /\ answer \in {"none", "yes", "no"}

\* Before the port-forward is up, and once a session is over, nothing is held; a
\* running session has its directory, and no file is without one.
Entering == pc = "open" \/ (pc = "check" /\ after = "open")

Holding ==
    /\ Entering \/ ~Running \/ pc = "closing" => tunnel = 0 /\ cred = None
    /\ Entering \/ ~dir => file = None
    /\ Running => dir

\* The tunnel may reach a later incarnation than the lease's, but once a check
\* has passed after the tunnel was up, it reaches the lease's own.
Reach ==
    /\ lease.uid <= uid
    /\ tunnel # 0 => lease.uid <= tunnel /\ tunnel <= uid
    /\ pc = "issue" \/ (pc = "check" /\ after = "issue" /\ answer = "yes") =>
          tunnel \in {0, lease.uid}
    /\ cred # None => cred.uid = lease.uid
    /\ Running /\ file # None => file.uid = lease.uid

\* The session's calls are cut off at the deadline; a write that began before
\* it, and the removal of what was written, take their time.
Bounded ==
    /\ tunnel # 0 => now <= lease.expiresAt
    /\ pc \in {"issue", "loop"} \/ (pc = "check" /\ after # "open") =>
          now <= lease.expiresAt + LocalTime
    /\ pc = "write" => since <= lease.expiresAt /\ now <= since + LocalTime
    /\ pc = "closing" /\ file # None =>
          since <= lease.expiresAt + LocalTime /\ now <= since + LocalTime

SessionInv == Shape /\ Holding /\ Reach /\ Bounded

\* The initial state satisfies the invariant.
LEMMA SessionInit ==
    ASSUME Init
    PROVE  SessionInv
  <1>1. /\ now = 0 /\ uid = 0 /\ expiresAt = 0 /\ phase = "absent"
        /\ lease.uid = 0 /\ lease.expiresAt = 0
    BY DEF Init, Contract!Init, NoLease
  <1>2. Shape
    BY <1>1 DEF Init, Shape
  <1>3. Holding
    BY DEF Init, Holding, Entering, Running
  <1>4. Reach
    BY <1>1, <1>2 DEF Init, Reach, Running, Shape
  <1>5. Bounded
    BY <1>1 DEF Init, Bounded
  <1> QED
    BY <1>2, <1>3, <1>4, <1>5 DEF SessionInv

\* What the contract and operators do to the object: incarnations only go up.
LEMMA ObjectMoves ==
    ASSUME now \in Nat, uid \in Nat, expiresAt \in Nat, Environment
    PROVE  /\ expiresAt' \in Nat /\ uid' \in Nat /\ uid <= uid' /\ now' = now
           /\ UNCHANGED <<pc, after, answer, since, lease, tunnel, bearer, cred, refreshAt,
                          nextTick, dir, file>>
  <1>1. Asked => expiresAt' \in Nat
    BY SessionAssumption DEF Asked
  <1>2. CASE Create \/ Renew \/ Shorten
    BY <1>1, <1>2 DEF Create, Renew, Shorten, Contract!Grant, Contract!Renew, Environment,
       RevokeCaller, locals, timers, sink
  <1>3. CASE Reconcile \/ RevokeCaller
    BY <1>3 DEF Reconcile, RevokeCaller, Contract!Report, Contract!Remove, Contract!Provide,
       Contract!Withdraw, Environment, locals, timers, sink
  <1> QED
    BY <1>2, <1>3 DEF Environment

\* The Oubliette changes.
LEMMA EnvironmentKeeps ==
    ASSUME SessionInv, Environment
    PROVE  SessionInv'
  <1>1. /\ UNCHANGED <<now, pc, after, answer, since, lease, tunnel, cred, dir, file>>
        /\ expiresAt' \in Nat /\ uid' \in Nat /\ uid <= uid'
    BY ObjectMoves DEF SessionInv, Shape
  <1>2. Shape'
    BY <1>1 DEF SessionInv, Shape
  <1>3. Holding' /\ Bounded'
    BY <1>1 DEF SessionInv, Holding, Bounded, Entering, Running
  <1>4. Reach'
    BY <1>1 DEF SessionInv, Shape, Reach, Running
  <1> QED
    BY <1>2, <1>3, <1>4 DEF SessionInv

\* A return closes the tunnel and goes on to remove the kubeconfig, in time.
LEMMA ReturnKeeps ==
    ASSUME SessionInv, Return,
           pc \in {"check", "open", "issue", "loop", "write"}
    PROVE  SessionInv'
  <1>1. /\ pc' = "closing" /\ since' = now /\ tunnel' = 0 /\ cred' = None /\ answer' = "none"
        /\ UNCHANGED <<now, uid, expiresAt, lease, dir, file>>
    BY DEF Return, Goto, object, sink
  <1>2. Shape'
    BY <1>1 DEF SessionInv, Shape
  <1>3. Holding'
    BY <1>1 DEF SessionInv, Holding, Entering, Running
  <1>4. Reach'
    BY <1>1 DEF SessionInv, Shape, Reach, Running
  <1>5. file # None => now <= lease.expiresAt + LocalTime
    BY SessionAssumption DEF SessionInv, Shape, Holding, Bounded, Entering
  <1>6. Bounded'
    BY <1>1, <1>5, SessionAssumption DEF Bounded, SessionInv, Shape
  <1> QED
    BY <1>2, <1>3, <1>4, <1>6 DEF SessionInv

\* Time passes only while nothing is overdue.
LEMMA TickKeeps ==
    ASSUME SessionInv, Tick
    PROVE  SessionInv'
  <1>1. /\ now' = now + 1 /\ now < Due
        /\ UNCHANGED <<pc, after, answer, since, uid, expiresAt, lease, tunnel, cred, dir, file>>
        /\ ~((Interruptible \/ tunnel # 0) /\ Cancelled)
    BY DEF Tick, Contract!Tick, locals, sink
  <1>2. Shape' /\ Holding' /\ Reach'
    BY <1>1 DEF SessionInv, Shape, Holding, Reach, Entering, Running
  <1>3. Interruptible \/ tunnel # 0 => now < lease.expiresAt
    BY <1>1 DEF Cancelled, SessionInv, Shape
  <1>4. pc \in {"write", "closing"} => Due = since + LocalTime
    BY DEF Due
  <1>5. Bounded'
    BY <1>1, <1>3, <1>4, SessionAssumption DEF Bounded, SessionInv, Shape, Interruptible
  <1> QED
    BY <1>2, <1>5 DEF SessionInv

\* The check on entry takes the lease; a later one passes only for it.
LEMMA CheckKeeps ==
    ASSUME SessionInv, CheckRead
    PROVE  SessionInv'
  <1>1. /\ pc = "check"
        /\ UNCHANGED <<now, uid, expiresAt, pc, after, since, tunnel, cred, dir, file>>
    BY DEF CheckRead, object, sink
  <1>2. CASE after = "open"
    <2>1. lease'.uid = uid /\ lease'.expiresAt = expiresAt /\ answer' \in {"yes", "no"}
      BY <1>2 DEF CheckRead
    <2>2. tunnel = 0 /\ cred = None /\ file = None
      BY <1>1, <1>2 DEF SessionInv, Holding, Entering
    <2>3. Shape' /\ Holding'
      BY <1>1, <2>1, <2>2 DEF SessionInv, Shape, Holding, Entering, Running
    <2>4. Reach'
      BY <1>1, <1>2, <2>1, <2>2 DEF SessionInv, Shape, Reach
    <2>5. Bounded'
      BY <1>1, <1>2, <2>2 DEF Bounded
    <2> QED
      BY <2>3, <2>4, <2>5 DEF SessionInv
  <1>3. CASE after # "open"
    <2>1. UNCHANGED lease /\ answer' \in {"yes", "no"} /\ (answer' = "yes" => uid = lease.uid)
      BY <1>3 DEF CheckRead, Matches
    <2>2. Shape' /\ Holding' /\ Bounded'
      BY <1>1, <2>1 DEF SessionInv, Shape, Holding, Bounded, Entering, Running
    <2>3. Reach'
      BY <1>1, <2>1 DEF SessionInv, Shape, Reach, Running
    <2> QED
      BY <2>2, <2>3 DEF SessionInv
  <1> QED
    BY <1>2, <1>3

\* A check that passed in time leads on.
LEMMA CheckReturnKeeps ==
    ASSUME SessionInv, CheckReturn
    PROVE  SessionInv'
  <1>1. CASE Return
    BY <1>1, ReturnKeeps DEF CheckReturn
  <1>2. CASE ~Return
    <2>1. /\ pc = "check" /\ answer # "none" /\ answer # "no"
          /\ ~(now >= lease.expiresAt) /\ since' = now /\ answer' = "none"
          /\ UNCHANGED <<now, uid, expiresAt, lease, tunnel, cred, dir, file>>
      BY <1>2 DEF CheckReturn, Goto, object, sink
    <2>2. \/ after = "open" /\ pc' = "open"
          \/ after = "issue" /\ pc' = "issue"
          \/ after = "write" /\ pc' = "write"
          \/ after = "poll" /\ pc' = "loop"
          \/ after = "poll" /\ pc' = "check" /\ after' = "issue"
      BY <1>2 DEF CheckReturn, Goto
    <2>3. Shape'
      BY <2>1, <2>2 DEF SessionInv, Shape
    <2>4. Holding'
      BY <2>1, <2>2 DEF SessionInv, Holding, Entering, Running
    <2>5. Reach'
      BY <2>1, <2>2 DEF SessionInv, Shape, Reach, Running
    <2>6. Bounded'
      BY <2>1, <2>2, SessionAssumption DEF SessionInv, Shape, Bounded
    <2> QED
      BY <2>3, <2>4, <2>5, <2>6 DEF SessionInv
  <1> QED
    BY <1>1, <1>2

\* Open and the port-forward: whatever pod is found, the deadline is ahead.
LEMMA OpenKeeps ==
    ASSUME SessionInv, Open \/ Forward
    PROVE  SessionInv'
  <1>1. /\ pc = "open" /\ tunnel = 0 /\ cred = None /\ file = None
        /\ UNCHANGED <<now, uid, expiresAt, lease, cred, dir, file>>
    BY DEF Open, Forward, SessionInv, Holding, Entering, object, sink
  <1>2. CASE Open
    <2>1. UNCHANGED <<pc, after, since, tunnel>> /\ answer' = "yes"
      BY <1>2 DEF Open
    <2> QED
      BY <1>1, <2>1 DEF SessionInv, Shape, Holding, Reach, Bounded, Entering, Running
  <1>3. CASE Forward
    <2>1. /\ pc' = "check" /\ after' = "issue" /\ answer' = "none" /\ since' = now
          /\ tunnel' = uid /\ now < lease.expiresAt
      BY <1>3 DEF Forward, Check, Goto
    <2>2. Shape' /\ Holding'
      BY <1>1, <2>1 DEF SessionInv, Shape, Holding, Entering, Running
    <2>3. Reach' /\ Bounded'
      BY <1>1, <2>1, SessionAssumption DEF SessionInv, Shape, Reach, Bounded
    <2> QED
      BY <2>2, <2>3 DEF SessionInv
  <1> QED
    BY <1>2, <1>3

\* A token is issued through the tunnel, for the incarnation it reaches.
LEMMA IssueKeeps ==
    ASSUME SessionInv, Issue
    PROVE  SessionInv'
  <1>1. pc = "issue" /\ tunnel # 0
    BY DEF Issue, TokenRequestAccepted
  <1>2. CASE Return
    BY <1>1, <1>2, ReturnKeeps
  <1>3. CASE ~Return
    <2>1. PICK life \in Lifetimes, minted \in since..now :
             /\ cred' = [uid |-> tunnel, expires |-> minted + life,
                         half |-> (minted + life - now) \div 2]
             /\ Check("write")
             /\ UNCHANGED <<now, object, lease, tunnel, timers, sink>>
      BY <1>3 DEF Issue
    <2>2. /\ pc' = "check" /\ after' = "write" /\ answer' = "none" /\ since' = now
          /\ cred'.uid = tunnel
          /\ UNCHANGED <<now, uid, expiresAt, lease, tunnel, dir, file>>
      BY <2>1 DEF Check, Goto, object, sink
    <2>3. Shape' /\ Holding'
      BY <1>1, <2>2 DEF SessionInv, Shape, Holding, Entering, Running
    <2>4. Reach'
      BY <1>1, <2>2 DEF SessionInv, Shape, Reach, Running
    <2>5. Bounded'
      BY <1>1, <2>2 DEF SessionInv, Shape, Bounded
    <2> QED
      BY <2>3, <2>4, <2>5 DEF SessionInv
  <1> QED
    BY <1>2, <1>3

\* The delivery of a credential, and the tick that looks at the Oubliette.
LEMMA LoopKeeps ==
    ASSUME SessionInv, Write \/ PollTick
    PROVE  SessionInv'
  <1>1. CASE Write
    <2>1. /\ pc = "write" /\ pc' = "loop" /\ file' = cred /\ cred' = None /\ since' = now
          /\ UNCHANGED <<now, uid, expiresAt, after, answer, lease, tunnel, dir>>
      BY <1>1 DEF Write, Goto, object
    <2>2. Shape' /\ Holding'
      BY <2>1 DEF SessionInv, Shape, Holding, Entering, Running
    <2>3. Reach'
      BY <2>1 DEF SessionInv, Shape, Reach, Running
    <2>4. Bounded'
      BY <2>1, SessionAssumption DEF SessionInv, Shape, Bounded
    <2> QED
      BY <2>2, <2>3, <2>4 DEF SessionInv
  <1>2. CASE PollTick
    <2>1. /\ pc = "loop" /\ pc' = "check" /\ after' = "poll" /\ answer' = "none" /\ since' = now
          /\ UNCHANGED <<now, uid, expiresAt, lease, tunnel, cred, dir, file>>
      BY <1>2 DEF PollTick, Check, Goto, object, sink
    <2>2. Shape' /\ Holding'
      BY <2>1 DEF SessionInv, Shape, Holding, Entering, Running
    <2>3. Reach' /\ Bounded'
      BY <2>1 DEF SessionInv, Shape, Reach, Bounded, Running
    <2> QED
      BY <2>2, <2>3 DEF SessionInv
  <1> QED
    BY <1>1, <1>2

\* The beginning and the end of a session, in every way it may end.
LEMMA EndsKeep ==
    ASSUME SessionInv, Start \/ TunnelBreaks \/ Close \/ Kill \/ CleanUp
    PROVE  SessionInv'
  <1>1. CASE Start
    <2>1. /\ ~Running /\ ~dir /\ dir' = TRUE
          /\ pc' = "check" /\ after' = "open" /\ answer' = "none" /\ since' = now
          /\ UNCHANGED <<now, uid, expiresAt, lease, tunnel, cred, file>>
      BY <1>1 DEF Start, Check, Goto, object, Running
    <2>2. tunnel = 0 /\ cred = None /\ file = None
      BY <2>1 DEF SessionInv, Holding, Running
    <2> QED
      BY <2>1, <2>2 DEF SessionInv, Shape, Holding, Reach, Bounded, Entering, Running
  <1>2. CASE TunnelBreaks
    <2>1. /\ tunnel' = 0
          /\ UNCHANGED <<now, uid, expiresAt, pc, after, answer, since, lease, cred, dir, file>>
      BY <1>2 DEF TunnelBreaks, object, sink
    <2> QED
      BY <2>1 DEF SessionInv, Shape, Holding, Reach, Bounded, Entering, Running
  <1>3. CASE Close \/ Kill
    <2>1. /\ pc' \in {"none", "left"} /\ since' = 0 /\ answer' = "none"
          /\ lease' = NoLease /\ tunnel' = 0 /\ cred' = None
          /\ UNCHANGED <<now, uid, expiresAt>>
          /\ file' = None \/ (file' = file /\ dir' = dir)
      BY <1>3 DEF Close, Kill, Gone, object, sink
    <2>2. lease'.uid = 0 /\ lease'.expiresAt = 0
      BY <2>1 DEF NoLease
    <2> QED
      BY <2>1, <2>2 DEF SessionInv, Shape, Holding, Reach, Bounded, Entering, Running
  <1>4. CASE CleanUp
    <2>1. /\ pc = "left" /\ pc' = "none" /\ file' = None /\ dir' = FALSE
          /\ UNCHANGED <<now, uid, expiresAt, after, answer, since, lease, tunnel, cred>>
      BY <1>4 DEF CleanUp, object, locals
    <2> QED
      BY <2>1 DEF SessionInv, Shape, Holding, Reach, Bounded, Entering, Running
  <1> QED
    BY <1>1, <1>2, <1>3, <1>4

\* The invariant holds throughout.
THEOREM SessionInductive == Spec => []SessionInv
  <1>1. Init => SessionInv
    BY SessionInit
  <1>2. SessionInv /\ [Next]_vars => SessionInv'
    <2> SUFFICES ASSUME SessionInv, [Next]_vars
                 PROVE  SessionInv'
      OBVIOUS
    <2>1. CASE Interrupted \/ Fails
      BY <2>1, ReturnKeeps DEF Interrupted, Interruptible, Fails
    <2>2. CASE UNCHANGED vars
      BY <2>2 DEF vars, object, locals, sink, SessionInv, Shape, Holding, Reach, Bounded,
         Entering, Running
    <2>3. \/ Environment \/ Tick \/ CheckRead \/ CheckReturn \/ Open \/ Forward \/ Issue
          \/ Write \/ PollTick \/ Start \/ TunnelBreaks \/ Close \/ Kill \/ CleanUp
          \/ Interrupted \/ Fails \/ UNCHANGED vars
      BY Zenon DEF Next, Run
    <2> QED
      BY <2>1, <2>2, <2>3, EnvironmentKeeps, TickKeeps, CheckKeeps, CheckReturnKeeps,
         OpenKeeps, IssueKeeps, LoopKeeps, EndsKeep
  <1> QED
    BY <1>1, <1>2, PTL DEF Spec

\* What is ready stays backed: the contract says so, and an edit takes the
\* Ready condition back.
LEMMA ObjectBacked ==
    ASSUME now \in Nat, expiresAt \in Nat, Contract!Backed, Environment
    PROVE  Contract!Backed'
  <1>1. CASE Create \/ Renew \/ Shorten
    BY <1>1 DEF Create, Renew, Shorten, Contract!Grant, Contract!Renew, Contract!Backed
  <1>2. CASE Contract!Report \/ Contract!Remove
    BY <1>2 DEF Contract!Report, Contract!Remove, Contract!Backed
  <1>3. CASE Contract!Provide \/ Contract!Withdraw \/ RevokeCaller
    BY <1>3 DEF Contract!Provide, Contract!Withdraw, RevokeCaller, Contract!Backed
  <1> QED
    BY <1>1, <1>2, <1>3 DEF Environment, Reconcile

\* The session itself leaves the Oubliette alone.
LEMMA RunLeaves ==
    ASSUME Run
    PROVE  UNCHANGED <<now, uid, expiresAt, phase, usable, revoked>>
  BY DEF Run, Start, CheckRead, CheckReturn, Open, Forward, Issue, Write, PollTick,
     Interrupted, Fails, Return, TunnelBreaks, Close, Kill, CleanUp, Gone, object

\* Whatever a session finds ready and in its time has a virtual cluster behind
\* it, by the contract alone and in spite of operators' edits.
THEOREM AlwaysBacked == Spec => []Contract!Backed
  <1>1. Init => Contract!Backed
    BY DEF Init, Contract!Init, Contract!Backed
  <1>2. SessionInv /\ Contract!Backed /\ [Next]_vars => Contract!Backed'
    <2> SUFFICES ASSUME SessionInv, Contract!Backed, [Next]_vars
                 PROVE  Contract!Backed'
      OBVIOUS
    <2>1. now \in Nat /\ expiresAt \in Nat
      BY DEF SessionInv, Shape
    <2>2. CASE Environment
      BY <2>1, <2>2, ObjectBacked
    <2>3. CASE Tick
      BY <2>1, <2>3 DEF Tick, Contract!Tick, Contract!Backed
    <2>4. CASE Run \/ UNCHANGED vars
      <3>1. UNCHANGED <<now, expiresAt, phase, usable>>
        BY <2>4, RunLeaves DEF vars, object
      <3> QED
        BY <3>1 DEF Contract!Backed
    <2> QED
      BY <2>2, <2>3, <2>4 DEF Next
  <1> QED
    BY <1>1, <1>2, SessionInductive, PTL DEF Spec

\* A kubeconfig is delivered only for the incarnation the session was let into,
\* however often the name is recreated and whenever.
THEOREM Own == Spec => []OwnIncarnation
  <1>1. SessionInv => OwnIncarnation
    BY DEF SessionInv, Reach, OwnIncarnation
  <1> QED
    BY <1>1, SessionInductive, PTL

\* Access ends with the lease observed on entry, for every timing of the calls.
THEOREM Ends == Spec => []EndsWithLease
  <1>1. SessionInv => EndsWithLease
    <2> SUFFICES ASSUME SessionInv, Running, file # None
                 PROVE  now <= lease.expiresAt + 2 * LocalTime
      BY DEF SessionInv, Bounded, EndsWithLease
    <2>1. \/ pc \in {"issue", "loop", "write", "closing"}
          \/ pc = "check" /\ after # "open"
      BY DEF SessionInv, Shape, Holding, Entering, Running
    <2> QED
      BY <2>1, SessionAssumption DEF SessionInv, Shape, Bounded
  <1> QED
    BY <1>1, SessionInductive, PTL

---------------------------------------------------------------------------
(* Types.                                                                  *)

\* The next tick is after now and no more than an interval away.
LEMMA NextBeat ==
    ASSUME NEW from \in Nat, NEW to \in Nat, from <= to
    PROVE  LET beat == from + PollInterval * ((to - from) \div PollInterval + 1)
           IN  beat \in Nat /\ beat <= to + PollInterval
  <1>1. \A d \in Nat, p \in Nat \ {0} : d \div p \in Nat /\ p * (d \div p) <= d
    OBVIOUS
  <1>2. \A p, q, d, n \in Nat :
            p * q <= d => n + p * (q + 1) \in Nat /\ n + p * (q + 1) <= n + d + p
    OBVIOUS
  <1>3. to - from \in Nat /\ from + (to - from) = to /\ PollInterval \in Nat \ {0}
    BY SessionAssumption
  <1>4. /\ (to - from) \div PollInterval \in Nat
        /\ PollInterval * ((to - from) \div PollInterval) <= to - from
    BY <1>1, <1>3
  <1> QED
    BY <1>2, <1>3, <1>4

\* The empty slot for a credential has the type of one.
LEMMA NoneType == None \in Credential(MaxTime + MaxRemaining)
  <1>1. \A m \in Nat : m \div 2 \in Nat
    OBVIOUS
  <1> QED
    BY <1>1, SessionAssumption DEF None, Credential

\* What the step leaves of the history variables.
LEMMA HistoryTypes ==
    ASSUME TypeOK, Next, now' \in Nat
    PROVE  lostAt' \in Nat /\ brokenAt' \in Nat
  BY SessionAssumption, SMTT(30) DEF TypeOK, Next, Never

\* Only the clock moves time.
LEMMA NowMoves ==
    ASSUME TypeOK, Next
    PROVE  now' = now \/ Tick
  <1>1. now \in Nat /\ uid \in Nat /\ expiresAt \in Nat
    BY DEF TypeOK
  <1> QED
    BY <1>1, ObjectMoves, RunLeaves DEF Next

\* The initial state has the types.
LEMMA TypeInit == Init => TypeOK
  <1> SUFFICES ASSUME Init
               PROVE  TypeOK
    OBVIOUS
  <1>1. cred \in Credential(MaxTime + MaxRemaining) /\ file \in Credential(MaxTime + MaxRemaining)
    BY NoneType DEF Init
  <1>2. lease \in [uid : 0..MaxUid, expiresAt : Nat]
    BY SessionAssumption DEF Init, NoLease
  <1>3. expiresAt \in Nat /\ uid \in 0..MaxUid /\ lostAt \in Nat /\ now \in 0..MaxTime
    BY SessionAssumption DEF Init, Contract!Init, Never
  <1>4. tunnel \in 0..MaxUid /\ since \in 0..now
    BY SessionAssumption DEF Init, Contract!Init
  <1>5. usable \in BOOLEAN /\ phase \in {"absent", "pending", "ready", "ending"}
    BY Zenon DEF Init, Contract!Init
  <1> QED
    BY <1>1, <1>2, <1>3, <1>4, <1>5, Zenon DEF Init, TypeOK

\* The Oubliette changes within its type.
LEMMA EnvironmentTypes ==
    ASSUME TypeOK, Environment, lostAt' \in Nat, brokenAt' \in Nat
    PROVE  TypeOK'
  <1>1. /\ UNCHANGED <<now, pc, after, answer, since, lease, tunnel, bearer, cred, refreshAt,
                       nextTick, dir, file>>
        /\ expiresAt' \in Nat
    <2>1. now \in Nat /\ uid \in Nat /\ expiresAt \in Nat
      BY DEF TypeOK
    <2> QED
      BY <2>1, ObjectMoves
  <1>2. uid' \in 0..MaxUid
    BY SessionAssumption DEF TypeOK, Environment, Create, Renew, Reconcile, Shorten, RevokeCaller,
       Contract!Grant, Contract!Renew, Contract!Report, Contract!Remove, Contract!Provide,
       Contract!Withdraw
  <1>3. usable' \in BOOLEAN /\ revoked' \in BOOLEAN
    BY Zenon DEF TypeOK, Environment, Create, Renew, Reconcile, Shorten, RevokeCaller,
       Contract!Grant, Contract!Renew, Contract!Report, Contract!Remove, Contract!Provide,
       Contract!Withdraw
  <1>4. phase' \in {"absent", "pending", "ready", "ending"}
    BY DEF TypeOK, Environment, Create, Renew, Reconcile, Shorten, RevokeCaller,
       Contract!Grant, Contract!Renew, Contract!Report, Contract!Remove, Contract!Provide,
       Contract!Withdraw
  <1> QED
    BY <1>1, <1>2, <1>3, <1>4 DEF TypeOK

\* A step of Run that starts or ends something.
LEMMA ControlTypes ==
    ASSUME TypeOK, lostAt' \in Nat, brokenAt' \in Nat,
           \/ Return \/ Start \/ TunnelBreaks \/ Close \/ Kill \/ CleanUp \/ Open \/ Forward
    PROVE  TypeOK'
  <1>1. NoLease \in [uid : 0..MaxUid, expiresAt : Nat]
    BY SessionAssumption DEF NoLease
  <1>2. UNCHANGED <<now, uid, expiresAt, phase, usable, revoked>>
    BY DEF Return, Start, TunnelBreaks, Close, Kill, CleanUp, Gone, Open, Forward, object
  <1>3. /\ pc' \in {"none", "check", "open", "closing", "left"}
           \/ UNCHANGED pc
        /\ since' \in {0, now, since}
        /\ after' \in {"none", "open", "issue", after} /\ answer' \in {"none", "yes", answer}
        /\ lease' \in {NoLease, lease} /\ tunnel' \in {0, uid, tunnel}
        /\ bearer' \in {0, bearer} /\ cred' \in {None, cred}
        /\ refreshAt' \in {0, refreshAt} /\ nextTick' \in {0, nextTick}
        /\ dir' \in {TRUE, FALSE, dir} /\ file' \in {None, file}
    BY Zenon DEF Return, Start, TunnelBreaks, Close, Kill, CleanUp, Gone, Open, Forward, Check, Goto,
       locals, timers, sink
  <1>4. /\ since' \in 0..now /\ tunnel' \in 0..MaxUid
        /\ bearer' \in Nat /\ refreshAt' \in Nat /\ nextTick' \in Nat
    BY <1>3, SessionAssumption DEF TypeOK
  <1>5. dir' \in BOOLEAN
    BY <1>3, Zenon DEF TypeOK
  <1>6. /\ lease' \in [uid : 0..MaxUid, expiresAt : Nat]
        /\ cred' \in Credential(MaxTime + MaxRemaining)
        /\ file' \in Credential(MaxTime + MaxRemaining)
    BY <1>1, <1>3, NoneType, Zenon DEF TypeOK
  <1>7. /\ pc' \in {"none", "check", "open", "issue", "write", "loop", "closing", "left"}
        /\ after' \in {"none", "open", "issue", "write", "poll"}
        /\ answer' \in {"none", "yes", "no"}
    BY <1>3 DEF TypeOK
  <1> QED
    BY <1>2, <1>4, <1>5, <1>6, <1>7 DEF TypeOK

\* A check is read, and leads on.
LEMMA CheckTypes ==
    ASSUME TypeOK, lostAt' \in Nat, brokenAt' \in Nat, CheckRead \/ (CheckReturn /\ ~Return)
    PROVE  TypeOK'
  <1>1. CASE CheckRead
    BY <1>1 DEF CheckRead, TypeOK, object, timers, sink
  <1>2. CASE CheckReturn /\ ~Return
    BY <1>2 DEF CheckReturn, Goto, TypeOK, object, timers, sink
  <1> QED
    BY <1>1, <1>2

\* A token that is accepted has a remaining lifetime within the bounds.
LEMMA IssueTypes ==
    ASSUME TypeOK, lostAt' \in Nat, brokenAt' \in Nat, Issue, ~Return
    PROVE  TypeOK'
  <1>1. PICK life \in Lifetimes, minted \in since..now :
           /\ minted + life - now \in MinRemaining..MaxRemaining
           /\ cred' = [uid |-> tunnel, expires |-> minted + life,
                       half |-> (minted + life - now) \div 2]
           /\ bearer' = minted + life
           /\ Check("write")
           /\ UNCHANGED <<now, object, lease, tunnel, timers, sink>>
    BY DEF Issue
  <1>2. life \in Nat /\ minted \in Nat /\ now \in 0..MaxTime
    BY SessionAssumption DEF TypeOK
  <1>3. \A r, m \in Nat : r <= m => r \div 2 \in 0..(m \div 2)
    OBVIOUS
  <1>4. minted + life \in 0..(MaxTime + MaxRemaining)
    BY <1>1, <1>2, SessionAssumption
  <1>5. (minted + life - now) \div 2 \in 0..(MaxRemaining \div 2)
    BY <1>1, <1>2, <1>3, SessionAssumption
  <1>6. cred' \in Credential(MaxTime + MaxRemaining)
    BY <1>1, <1>4, <1>5 DEF Credential, TypeOK
  <1>7. /\ pc' = "check" /\ since' = now /\ after' = "write" /\ answer' = "none"
        /\ bearer' \in Nat
        /\ UNCHANGED <<now, uid, expiresAt, phase, usable, revoked, lease, tunnel, refreshAt, nextTick,
                       dir, file>>
    BY <1>1, <1>2 DEF Check, Goto, object, timers, sink
  <1> QED
    BY <1>6, <1>7 DEF TypeOK

\* A delivery and a tick.
LEMMA LoopTypes ==
    ASSUME TypeOK, lostAt' \in Nat, brokenAt' \in Nat, Write \/ PollTick
    PROVE  TypeOK'
  <1>1. CASE Write
    <2>1. cred.half \in Nat
      BY SessionAssumption DEF TypeOK, Credential
    <2>2. now \in Nat /\ now + cred.half \in Nat /\ now + PollInterval \in Nat
      BY <2>1, SessionAssumption DEF TypeOK
    <2>3. /\ pc' = "loop" /\ since' = now /\ file' = cred /\ cred' = None
          /\ refreshAt' \in Nat /\ nextTick' \in Nat
          /\ UNCHANGED <<now, uid, expiresAt, phase, usable, revoked, after, answer, lease, tunnel,
                         bearer, dir>>
      BY <1>1, <2>2 DEF Write, Goto, object, TypeOK
    <2> QED
      BY <2>3, NoneType DEF TypeOK
  <1>2. CASE PollTick
    <2>1. nextTick' \in Nat
      BY <1>2, NextBeat DEF PollTick, TypeOK
    <2>2. /\ pc' = "check" /\ since' = now /\ after' = "poll" /\ answer' = "none"
          /\ UNCHANGED <<now, uid, expiresAt, phase, usable, revoked, lease, tunnel, bearer, cred,
                         refreshAt, dir, file>>
      BY <1>2 DEF PollTick, Check, Goto, object, sink
    <2> QED
      BY <2>1, <2>2 DEF TypeOK
  <1> QED
    BY <1>1, <1>2

\* Time passes within its bound.
LEMMA TickTypes ==
    ASSUME TypeOK, lostAt' \in Nat, brokenAt' \in Nat, Tick
    PROVE  TypeOK'
  BY SessionAssumption DEF Tick, Contract!Tick, TypeOK, locals, timers, sink

\* Every variable keeps its type; in particular no half lifetime exceeds what
\* issue accepts, and the session never runs for an incarnation that is not.
THEOREM Typed == Spec => []TypeOK
  <1>1. TypeOK /\ [Next]_vars => TypeOK'
    <2> SUFFICES ASSUME TypeOK, [Next]_vars
                 PROVE  TypeOK'
      OBVIOUS
    <2>1. CASE UNCHANGED vars
      BY <2>1 DEF vars, object, locals, timers, sink, TypeOK
    <2>2. CASE Next
      <3>1. now' \in Nat
        BY <2>2, NowMoves DEF TypeOK, Tick, Contract!Tick
      <3>2. lostAt' \in Nat /\ brokenAt' \in Nat
        BY <2>2, <3>1, HistoryTypes
      <3>3. \/ Environment \/ Tick \/ CheckRead \/ CheckReturn \/ Open \/ Forward \/ Issue
            \/ Write \/ PollTick \/ Start \/ TunnelBreaks \/ Close \/ Kill \/ CleanUp
            \/ Return
        BY <2>2, Zenon DEF Next, Run, Interrupted, Fails
      <3> QED
        BY <3>2, <3>3, Zenon, EnvironmentTypes, ControlTypes, CheckTypes, IssueTypes, LoopTypes,
           TickTypes
    <2> QED
      BY <2>1, <2>2
  <1> QED
    BY <1>1, TypeInit, PTL DEF Spec

---------------------------------------------------------------------------
(* The end of the port-forward.                                            *)

\* Once the port-forward is gone, no step of Run outlasts it but a delivery it had
\* begun, and the removal of the kubeconfig.
TunnelInv ==
    /\ brokenAt \in Nat
    /\ brokenAt # Never =>
          /\ tunnel = 0 /\ Running /\ ~Entering
          /\ pc \in {"check", "issue", "loop"} => now <= brokenAt + LocalTime
          /\ pc = "write" => since <= brokenAt /\ now <= since + LocalTime
          /\ pc = "closing" => since <= brokenAt + LocalTime /\ now <= since + LocalTime

\* What a step makes of the moment of the break.
LEMMA BreakMoves ==
    ASSUME SessionInv, TunnelInv, Next, brokenAt' # Never
    PROVE  /\ tunnel' = 0 /\ pc' \notin {"none", "left"}
           /\ \/ tunnel # 0 /\ brokenAt' = now'
              \/ tunnel = 0 /\ brokenAt # Never /\ brokenAt' = brokenAt
  BY DEF Next

\* A return of Run after the break, or with it.
LEMMA ReturnAfterBreak ==
    ASSUME SessionInv, TunnelInv, Next, brokenAt' # Never, Return,
           pc \in {"check", "open", "issue", "loop", "write"}
    PROVE  TunnelInv'
  <1>1. /\ pc' = "closing" /\ since' = now /\ now' = now /\ tunnel' = 0
        /\ now \in Nat /\ since \in Nat /\ brokenAt \in Nat /\ LocalTime \in Nat
    BY SessionAssumption DEF Return, Goto, SessionInv, Shape, TunnelInv
  <1>2. \/ tunnel # 0 /\ brokenAt' = now'
        \/ tunnel = 0 /\ brokenAt # Never /\ brokenAt' = brokenAt
    BY BreakMoves
  <1>3. brokenAt # Never => now <= brokenAt + LocalTime
    BY <1>1 DEF TunnelInv, Entering
  <1>4. brokenAt' \in Nat /\ now <= brokenAt' + LocalTime
    BY <1>1, <1>2, <1>3
  <1>5. now <= now + LocalTime
    BY <1>1
  <1> QED
    BY <1>1, <1>4, <1>5 DEF TunnelInv, Running, Entering

\* Every step of the session and of what surrounds it.
LEMMA TunnelKeeps ==
    ASSUME TypeOK, SessionInv, TunnelInv, Next
    PROVE  TunnelInv'
  <1> SUFFICES ASSUME brokenAt' # Never
               PROVE  TunnelInv'
    BY SessionAssumption DEF TunnelInv, Never
  <1>1. /\ tunnel' = 0 /\ pc' \notin {"none", "left"}
        /\ \/ tunnel # 0 /\ brokenAt' = now'
           \/ tunnel = 0 /\ brokenAt # Never /\ brokenAt' = brokenAt
    BY BreakMoves
  <1>2. now \in Nat /\ since \in Nat /\ brokenAt \in Nat /\ LocalTime \in Nat
    BY SessionAssumption DEF SessionInv, Shape, TunnelInv
  <1>3. tunnel # 0 => Running /\ ~Entering /\ pc # "closing"
    BY DEF SessionInv, Holding
  <1>4. CASE Environment \/ CheckRead \/ Open
    <2>1. UNCHANGED <<now, pc, after, since, tunnel>>
      BY <1>4, ObjectMoves DEF CheckRead, Open, SessionInv, Shape
    <2> QED
      BY <1>1, <1>2, <2>1 DEF TunnelInv, Running, Entering
  <1>5. CASE Tick
    <2>1. /\ now' = now + 1 /\ now < Due
          /\ UNCHANGED <<pc, after, since, tunnel>>
          /\ ~((Interruptible \/ tunnel # 0) /\ Cancelled)
      BY <1>5 DEF Tick, Contract!Tick, locals
    <2>2. tunnel = 0 /\ brokenAt # Never /\ brokenAt' = brokenAt /\ ~Interruptible
      BY <1>1, <2>1 DEF Cancelled
    <2>3. pc \in {"write", "closing"}
      BY <2>2 DEF TunnelInv, Interruptible, Running, Entering, SessionInv, Shape
    <2>4. now' <= since + LocalTime
      BY <1>2, <2>1, <2>3 DEF Due
    <2> QED
      BY <1>1, <1>2, <2>1, <2>2, <2>3, <2>4 DEF TunnelInv, Running, Entering
  <1>6. CASE Interrupted \/ Fails \/ (CheckReturn /\ Return) \/ (Issue /\ Return)
    BY <1>6, ReturnAfterBreak DEF Interrupted, Interruptible, Fails, CheckReturn, Issue
  <1>7. CASE CheckReturn /\ ~Return
    <2>1. pc = "check" /\ UNCHANGED tunnel /\ (after = "open" \/ ~Cancelled)
      BY <1>7 DEF CheckReturn
    <2> QED
      BY <1>1, <2>1 DEF Cancelled, TunnelInv, Entering
  <1>8. CASE Forward
    BY <1>1, <1>8 DEF Forward, SessionInv, Holding, TunnelInv, Entering
  <1>9. CASE Issue /\ ~Return
    BY <1>1, <1>9 DEF Issue, TokenRequestAccepted
  <1>10. CASE Write \/ PollTick
    <2>1. /\ UNCHANGED <<now, tunnel>> /\ since' = now
          /\ \/ pc = "write" /\ pc' = "loop"
             \/ pc = "loop" /\ pc' = "check" /\ after' = "poll"
      BY <1>10 DEF Write, PollTick, Check, Goto
    <2> QED
      BY <1>1, <1>2, <2>1 DEF TunnelInv, Running, Entering
  <1>11. CASE Start
    BY <1>1, <1>11 DEF Start, SessionInv, Holding, TunnelInv, Running
  <1>12. CASE TunnelBreaks
    <2>1. tunnel # 0 /\ UNCHANGED <<now, pc, after, since>>
      BY <1>12 DEF TunnelBreaks
    <2>2. pc = "write" => since <= now /\ now <= since + LocalTime
      BY DEF SessionInv, Bounded, TypeOK
    <2> QED
      BY <1>1, <1>2, <1>3, <2>1, <2>2 DEF TunnelInv, Running, Entering
  <1>13. ~(Close \/ Kill \/ CleanUp)
    BY <1>1 DEF Close, Kill, CleanUp, Gone
  <1>14. \/ Environment \/ Tick \/ CheckRead \/ CheckReturn \/ Open \/ Forward \/ Issue
         \/ Write \/ PollTick \/ Start \/ TunnelBreaks \/ Close \/ Kill \/ CleanUp
         \/ Interrupted \/ Fails
    BY Zenon DEF Next, Run
  <1> QED
    BY <1>4, <1>5, <1>6, <1>7, <1>8, <1>9, <1>10, <1>11, <1>12, <1>13, <1>14

\* Access ends with the port-forward, for every timing of calls and deliveries.
THEOREM TunnelEnds == Spec => []EndsWithTunnel
  <1>1. Init => TunnelInv
    BY SessionAssumption DEF Init, TunnelInv, Never
  <1>2. TypeOK /\ SessionInv /\ TunnelInv /\ [Next]_vars => TunnelInv'
    <2>1. UNCHANGED vars /\ TunnelInv => TunnelInv'
      BY DEF vars, locals, TunnelInv, Running, Entering
    <2> QED
      BY <2>1, TunnelKeeps
  <1>3. SessionInv /\ TunnelInv => EndsWithTunnel
    BY SessionAssumption DEF SessionInv, Shape, TunnelInv, EndsWithTunnel, Running, Entering
  <1> QED
    BY <1>1, <1>2, <1>3, Typed, SessionInductive, PTL DEF Spec

---------------------------------------------------------------------------
(* Timing.                                                                 *)

\* The longest that may pass between two looks at the Oubliette besides the
\* calls themselves.
Wait ==
    CHOOSE d \in {PollInterval, CallTimeout, LocalTime} :
        d >= PollInterval /\ d >= CallTimeout /\ d >= LocalTime

\* A session with a kubeconfig out, not on its way to remove it.
Serving ==
    /\ file # None
    /\ pc \in {"issue", "write", "loop"} \/ (pc = "check" /\ after # "open")

\* No step takes longer than its timeout, and no tick is further off than an
\* interval.
Paced ==
    /\ pc \in {"check", "issue"} => now <= since + CallTimeout
    /\ pc \in {"write", "closing"} => now <= since + LocalTime
    /\ pc = "loop" => now <= since \/ now <= nextTick
    /\ Serving => nextTick <= since + PollInterval

\* How far a session gets that lost its entitlement at the given time: a check
\* passes only when it was read before.
Delay(at) ==
    /\ pc = "check" => since <= at + Wait + CallTimeout
    /\ pc = "check" /\ answer = "yes" => since <= at
    /\ pc \in {"issue", "write"} => since <= at + CallTimeout
    /\ pc = "loop" => since <= at + Wait + CallTimeout
    /\ Serving /\ (pc # "check" \/ answer = "yes") => nextTick <= at + Wait + CallTimeout
    /\ pc = "closing" => since <= at + Wait + 2 * CallTimeout

Losing ==
    lostAt # Never =>
        /\ file # None /\ Running /\ ~Entitled
        /\ lostAt <= now /\ Delay(lostAt)

\* What a rotation takes from the moment it is due, as slow as it may be.
Reserve == PollInterval + 4 * CallTimeout + 2 * LocalTime

\* A token lives for a rotation longer than until its refresh, and a session
\* that has one out is no further into the rotation than its calls allow.
Rotating ==
    /\ pc = "check" /\ after = "write" =>
          cred.expires >= since + cred.half + Reserve + CallTimeout + LocalTime
    /\ pc = "write" => cred.expires >= since + cred.half + Reserve + LocalTime
    /\ pc = "write" \/ (pc = "check" /\ after = "write") => cred.half > 0
    /\ Running /\ file # None => file.expires >= refreshAt + Reserve
    /\ Serving =>
         /\ pc = "loop" => since < refreshAt
         /\ pc = "check" /\ after = "poll" => since < refreshAt + PollInterval
         /\ pc = "check" /\ after = "issue" => since < refreshAt + PollInterval + CallTimeout
         /\ pc = "issue" => since < refreshAt + PollInterval + 2 * CallTimeout
         /\ pc = "check" /\ after = "write" => since < refreshAt + PollInterval + 3 * CallTimeout
         /\ pc = "write" => since < refreshAt + PollInterval + 4 * CallTimeout
    /\ pc = "closing" /\ file # None =>
          since < refreshAt + PollInterval + 4 * CallTimeout + LocalTime

\* The numbers that the timing invariants compare.
Clocks ==
    /\ now \in Nat /\ since \in Nat /\ since <= now /\ nextTick \in Nat /\ refreshAt \in Nat
    /\ cred.expires \in Nat /\ cred.half \in Nat /\ file.expires \in Nat

\* Types make them numbers.
LEMMA ClocksTyped == TypeOK => Clocks
  BY SessionAssumption DEF TypeOK, Clocks, Credential

\* The longest wait is one of the three, and no shorter than any.
LEMMA WaitLongest ==
    /\ Wait \in {PollInterval, CallTimeout, LocalTime}
    /\ Wait \in Nat /\ Wait >= PollInterval /\ Wait >= CallTimeout /\ Wait >= LocalTime
  <1>1. \E d \in {PollInterval, CallTimeout, LocalTime} :
            d >= PollInterval /\ d >= CallTimeout /\ d >= LocalTime
    BY SessionAssumption
  <1>2. /\ Wait \in {PollInterval, CallTimeout, LocalTime}
        /\ Wait >= PollInterval /\ Wait >= CallTimeout /\ Wait >= LocalTime
    BY <1>1, Zenon DEF Wait
  <1> QED
    BY <1>2, SessionAssumption

\* What every step of the session keeps of its timing.  A step that loses the
\* entitlement starts the delay anew; every other one stays within it.
KeepsTime ==
    /\ Paced' /\ Rotating'
    /\ \A at \in Nat : file # None /\ ~Entitled /\ Delay(at) => Delay(at)'

\* The Oubliette's changes, a broken tunnel and a stuttering step.
LEMMA OtherTimes ==
    ASSUME Paced, Rotating,
           UNCHANGED <<now, since, pc, after, answer, file, cred, nextTick, refreshAt>>
    PROVE  KeepsTime
  BY DEF KeepsTime, Paced, Rotating, Delay, Serving, Running

\* Time passes only up to what is due.
LEMMA TickTimes ==
    ASSUME Clocks, Paced, Rotating, Tick
    PROVE  KeepsTime
  <1>1. /\ now' = now + 1 /\ now < Due
        /\ UNCHANGED <<since, pc, after, answer, file, cred, nextTick, refreshAt>>
    BY DEF Tick, Contract!Tick, locals, timers, sink
  <1>2. /\ pc \in {"check", "issue"} => Due = since + CallTimeout
        /\ pc \in {"write", "closing"} => Due = since + LocalTime
        /\ pc = "loop" => Due = nextTick
    BY DEF Due
  <1>3. Paced'
    BY <1>1, <1>2, SessionAssumption DEF Paced, Clocks, Serving
  <1>4. Rotating' /\ \A at \in Nat : Delay(at) => Delay(at)'
    BY <1>1 DEF Rotating, Delay, Serving, Running
  <1> QED
    BY <1>3, <1>4 DEF KeepsTime

\* A session with a kubeconfig out is within the rotation of its token.
LEMMA RotationTime ==
    ASSUME Clocks, Shape, Paced, Rotating, Serving
    PROVE  now < refreshAt + PollInterval + 4 * CallTimeout + LocalTime
  <1>1. CASE pc = "check"
    <2>1. since < refreshAt + PollInterval + 3 * CallTimeout
      <3>1. after \in {"poll", "issue", "write"}
        BY <1>1 DEF Serving, Shape
      <3> QED
        BY <1>1, <3>1, SessionAssumption DEF Clocks, Rotating
    <2> QED
      BY <1>1, <2>1, SessionAssumption DEF Clocks, Paced
  <1>2. CASE pc = "issue"
    BY <1>2, SessionAssumption DEF Clocks, Paced, Rotating
  <1>3. CASE pc = "write"
    BY <1>3, SessionAssumption DEF Clocks, Paced, Rotating
  <1>4. CASE pc = "loop"
    BY <1>4, SessionAssumption DEF Clocks, Paced, Rotating
  <1> QED
    BY <1>1, <1>2, <1>3, <1>4 DEF Serving

\* A session that returns is within the delay and the rotation it was in.
LEMMA ReturnTimes ==
    ASSUME Clocks, Shape, Holding, Paced, Rotating, Return,
           pc \in {"check", "open", "issue", "loop", "write"}
    PROVE  KeepsTime
  <1>1. /\ pc' = "closing" /\ since' = now
        /\ UNCHANGED <<now, file, nextTick, refreshAt>>
    BY DEF Return, Goto, timers, sink
  <1>2. file # None => Serving
    BY DEF Holding, Entering, Serving
  <1>3. Paced'
    BY <1>1, SessionAssumption DEF Paced, Serving, Clocks
  <1>4. Rotating'
    <2>1. file # None => now < refreshAt + PollInterval + 4 * CallTimeout + LocalTime
      BY <1>2, RotationTime
    <2>2. file # None => file.expires >= refreshAt + Reserve
      BY DEF Rotating, Running
    <2> QED
      BY <1>1, <2>1, <2>2 DEF Rotating, Serving, Running
  <1>5. ASSUME NEW at \in Nat, file # None, Delay(at)
        PROVE  Delay(at)'
    <2>1. now <= at + Wait + 2 * CallTimeout
      BY <1>2, <1>5, WaitLongest, SessionAssumption DEF Clocks, Paced, Delay, Serving
    <2> QED
      BY <1>1, <2>1 DEF Delay, Serving
  <1> QED
    BY <1>3, <1>4, <1>5 DEF KeepsTime

\* Of a session that is not entitled, no check reads yes: what is ready has its
\* virtual cluster.
LEMMA ReadTimes ==
    ASSUME Holding, Contract!Backed, Paced, Rotating, CheckRead
    PROVE  KeepsTime
  <1>1. /\ pc = "check"
        /\ UNCHANGED <<now, since, pc, after, file, cred, nextTick, refreshAt>>
    BY DEF CheckRead, timers, sink
  <1>2. Paced' /\ Rotating'
    BY <1>1 DEF Paced, Rotating, Serving, Running
  <1>3. file # None /\ ~Entitled => answer' = "no"
    BY <1>1 DEF CheckRead, Holding, Entering, Entitled, authorize, Contract!Backed
  <1>4. ASSUME NEW at \in Nat, file # None, ~Entitled, Delay(at)
        PROVE  Delay(at)'
    BY <1>1, <1>3, <1>4 DEF Delay
  <1> QED
    BY <1>2, <1>4 DEF KeepsTime

\* A check that passed was read before the entitlement was lost.
LEMMA CheckReturnTimes ==
    ASSUME Clocks, Shape, Holding, Paced, Rotating, CheckReturn
    PROVE  KeepsTime
  <1>1. CASE Return
    BY <1>1, ReturnTimes DEF CheckReturn
  <1>2. CASE ~Return
    <2>1. /\ pc = "check" /\ answer = "yes" /\ since' = now /\ answer' = "none"
          /\ UNCHANGED <<now, file, cred, nextTick, refreshAt>>
      BY <1>2 DEF CheckReturn, Goto, timers, sink, Shape
    <2>2. \/ after = "open" /\ pc' = "open"
          \/ after = "issue" /\ pc' = "issue"
          \/ after = "write" /\ pc' = "write"
          \/ after = "poll" /\ pc' = "loop" /\ now < refreshAt
          \/ after = "poll" /\ pc' = "check" /\ after' = "issue"
      BY <1>2 DEF CheckReturn, Goto
    <2>3. now <= since + CallTimeout
      BY <2>1 DEF Paced
    <2>4. Serving' => Serving
      BY <2>1, <2>2 DEF Serving
    <2>5. Paced'
      BY <2>1, <2>2, <2>4, SessionAssumption DEF Paced, Clocks
    <2>6. Rotating'
      BY <2>1, <2>2, <2>3, <2>4, SessionAssumption DEF Rotating, Clocks, Running, Reserve
    <2>7. ASSUME NEW at \in Nat, Delay(at)
          PROVE  Delay(at)'
      BY <2>1, <2>2, <2>3, <2>4, <2>7, WaitLongest, SessionAssumption DEF Delay, Clocks
    <2> QED
      BY <2>5, <2>6, <2>7 DEF KeepsTime
  <1> QED
    BY <1>1, <1>2

\* On entry nothing is out yet.
LEMMA EntryTimes ==
    ASSUME Clocks, Holding, Paced, Rotating, Start \/ Open \/ Forward
    PROVE  KeepsTime
  <1>1. file = None /\ file' = None /\ now' = now
    BY DEF Start, Open, Forward, Holding, Entering, sink
  <1>2. \/ pc' = "open"
        \/ pc' = "check" /\ after' \in {"open", "issue"} /\ since' = now
    BY DEF Start, Open, Forward, Check, Goto
  <1> QED
    BY <1>1, <1>2, SessionAssumption DEF KeepsTime, Paced, Rotating, Serving, Running, Clocks

\* A token that is accepted has the reserve in the second half of its life.
LEMMA IssueTimes ==
    ASSUME Clocks, Shape, Holding, Paced, Rotating, Issue
    PROVE  KeepsTime
  <1>1. pc = "issue"
    BY DEF Issue
  <1>2. CASE Return
    BY <1>1, <1>2, ReturnTimes
  <1>3. CASE ~Return
    <2>1. PICK life \in Lifetimes, minted \in since..now :
             /\ minted + life - now \in MinRemaining..MaxRemaining
             /\ cred' = [uid |-> tunnel, expires |-> minted + life,
                         half |-> (minted + life - now) \div 2]
             /\ Check("write")
             /\ UNCHANGED <<now, object, lease, tunnel, timers, sink>>
      BY <1>3 DEF Issue
    <2>2. /\ pc' = "check" /\ after' = "write" /\ answer' = "none" /\ since' = now
          /\ cred'.expires = minted + life /\ cred'.half = (minted + life - now) \div 2
          /\ UNCHANGED <<now, file, nextTick, refreshAt>>
      BY <2>1 DEF Check, Goto, timers, sink
    <2>3. now <= since + CallTimeout
      BY <1>1 DEF Paced
    <2>4. life \in Nat /\ minted \in Nat /\ now - minted \in 0..CallTimeout
      BY <2>3, SessionAssumption DEF Clocks
    <2> DEFINE rest == minted + life - now
    <2>5. /\ rest \in Nat /\ rest \in MinRemaining..MaxRemaining
          /\ life - (now - minted) = rest
      BY <2>1, <2>4, SessionAssumption DEF Clocks
    <2>6. rest - rest \div 2 >= PollInterval + 5 * CallTimeout + 3 * LocalTime
      <3> HIDE DEF rest
      <3> QED
        BY <2>4, <2>5, RefreshAssumption
    <2>7. rest \div 2 \in Nat
      <3>1. \A r \in Nat : r \div 2 \in Nat
        OBVIOUS
      <3> HIDE DEF rest
      <3> QED
        BY <2>5, <3>1
    <2>8. cred'.half > 0
      <3>1. \A r, m \in Nat : m > 1 /\ r - r \div 2 >= m => r \div 2 > 0
        OBVIOUS
      <3>2. /\ PollInterval + 5 * CallTimeout + 3 * LocalTime \in Nat
            /\ PollInterval + 5 * CallTimeout + 3 * LocalTime > 1
        BY SessionAssumption
      <3>3. cred'.half = rest \div 2
        BY <2>2
      <3> HIDE DEF rest
      <3> QED
        BY <2>5, <2>6, <3>1, <3>2, <3>3, Zenon
    <2>9. cred'.expires >= now + cred'.half + Reserve + CallTimeout + LocalTime
      BY <2>2, <2>4, <2>6, <2>7, SessionAssumption DEF Reserve, Clocks
    <2>10. Paced'
      BY <1>1, <2>2, SessionAssumption DEF Paced, Clocks, Serving
    <2>11. Rotating'
      BY <1>1, <2>2, <2>3, <2>8, <2>9, SessionAssumption
         DEF Rotating, Clocks, Serving, Running
    <2>12. ASSUME NEW at \in Nat, Delay(at)
           PROVE  Delay(at)'
      BY <1>1, <2>2, <2>3, <2>12, WaitLongest, SessionAssumption DEF Delay, Clocks
    <2> QED
      BY <2>10, <2>11, <2>12 DEF KeepsTime
  <1> QED
    BY <1>2, <1>3

\* A delivery starts the next rotation.
LEMMA WriteTimes ==
    ASSUME Clocks, Paced, Rotating, Write
    PROVE  KeepsTime
  <1>1. /\ pc = "write" /\ pc' = "loop" /\ since' = now /\ now' = now
        /\ file' = cred /\ refreshAt' = now + cred.half
        /\ nextTick' = IF file = None THEN now + PollInterval ELSE nextTick
    BY DEF Write, Goto
  <1>2. now <= since + LocalTime
    BY <1>1 DEF Paced
  <1>3. file # None => Serving
    BY <1>1 DEF Serving
  <1>4. Paced'
    BY <1>1, <1>2, <1>3, SessionAssumption DEF Paced, Clocks
  <1>5. Reserve \in Nat
    BY SessionAssumption DEF Reserve
  <1>6. Rotating'
    BY <1>1, <1>2, <1>5, SessionAssumption DEF Rotating, Clocks
  <1>7. ASSUME NEW at \in Nat, file # None, Delay(at)
        PROVE  Delay(at)'
    BY <1>1, <1>2, <1>3, <1>7, WaitLongest, SessionAssumption DEF Delay, Clocks
  <1> QED
    BY <1>4, <1>6, <1>7 DEF KeepsTime

\* A tick comes at most an interval after the loop was last left.
LEMMA PollTimes ==
    ASSUME Clocks, Paced, Rotating, PollTick
    PROVE  KeepsTime
  <1>1. /\ pc = "loop" /\ pc' = "check" /\ after' = "poll" /\ answer' = "none"
        /\ since' = now /\ now' = now /\ now >= nextTick
        /\ UNCHANGED <<file, cred, refreshAt>>
        /\ nextTick' = nextTick + PollInterval * ((now - nextTick) \div PollInterval + 1)
    BY DEF PollTick, Check, Goto, sink
  <1>2. nextTick' \in Nat /\ nextTick' <= now + PollInterval
    BY <1>1, NextBeat DEF Clocks
  <1>3. file # None => Serving
    BY <1>1 DEF Serving
  <1>4. Paced'
    BY <1>1, <1>2, SessionAssumption DEF Paced, Clocks
  <1>5. file # None => now < refreshAt + PollInterval
    BY <1>1, <1>3, SessionAssumption DEF Paced, Rotating, Clocks
  <1>6. Rotating'
    BY <1>1, <1>5 DEF Rotating, Serving, Running
  <1>7. ASSUME NEW at \in Nat, file # None, Delay(at)
        PROVE  Delay(at)'
    BY <1>1, <1>3, <1>7, WaitLongest, SessionAssumption DEF Delay, Paced, Clocks
  <1> QED
    BY <1>4, <1>6, <1>7 DEF KeepsTime

\* Once the process is gone there is nothing left to time.
LEMMA GoneTimes ==
    ASSUME Close \/ Kill \/ CleanUp
    PROVE  KeepsTime
  <1>1. pc' \in {"none", "left"}
    BY DEF Close, Kill, CleanUp, Gone
  <1> QED
    BY <1>1 DEF KeepsTime, Paced, Rotating, Delay, Serving, Running

\* Every step of the session keeps its timing.
LEMMA StepTimes ==
    ASSUME TypeOK, SessionInv, Contract!Backed, Paced, Rotating, [Next]_vars
    PROVE  KeepsTime
  <1>1. Clocks /\ Shape /\ Holding
    BY ClocksTyped DEF SessionInv
  <1>2. CASE Environment \/ TunnelBreaks \/ UNCHANGED vars
    <2>1. UNCHANGED <<now, since, pc, after, answer, file, cred, nextTick, refreshAt>>
      <3>1. CASE Environment
        BY <3>1, ObjectMoves DEF SessionInv, Shape
      <3>2. CASE TunnelBreaks \/ UNCHANGED vars
        BY <3>2, Zenon DEF TunnelBreaks, vars, locals, timers, sink
      <3> QED
        BY <1>2, <3>1, <3>2
    <2> QED
      BY <2>1, OtherTimes
  <1>3. CASE Interrupted \/ Fails
    BY <1>1, <1>3, ReturnTimes DEF Interrupted, Interruptible, Fails
  <1>4. \/ Environment \/ Tick \/ CheckRead \/ CheckReturn \/ Open \/ Forward \/ Issue
        \/ Write \/ PollTick \/ Start \/ TunnelBreaks \/ Close \/ Kill \/ CleanUp
        \/ Interrupted \/ Fails \/ UNCHANGED vars
    BY Zenon DEF Next, Run
  <1> QED
    BY <1>1, <1>2, <1>3, <1>4, Zenon, TickTimes, ReadTimes, CheckReturnTimes, EntryTimes,
       IssueTimes, WriteTimes, PollTimes, GoneTimes

\* A session that has just lost its entitlement is within the delay.
LEMMA JustLost ==
    ASSUME Clocks, Paced
    PROVE  Delay(now)
  BY WaitLongest, SessionAssumption DEF Clocks, Paced, Delay

TimeInv == TypeOK /\ SessionInv /\ Contract!Backed /\ Paced /\ Rotating /\ Losing

\* The timing invariant holds throughout.
THEOREM TimeInductive == Spec => []TimeInv
  <1>1. Init => Paced /\ Rotating /\ Losing
    BY DEF Init, Paced, Rotating, Losing, Serving, Running, Never
  <1>2. TimeInv /\ TypeOK' /\ [Next]_vars => (Paced /\ Rotating /\ Losing)'
    <2> SUFFICES ASSUME TimeInv, TypeOK', [Next]_vars
                 PROVE  (Paced /\ Rotating /\ Losing)'
      OBVIOUS
    <2>1. KeepsTime
      BY StepTimes DEF TimeInv
    <2>2. Clocks'
      BY ClocksTyped, PTL
    <2>3. Losing'
      <3>1. CASE UNCHANGED vars
        BY <3>1, Zenon DEF vars, object, locals, timers, sink, TimeInv, Losing, Delay, Serving,
           Running, Entitled, Matches, Never
      <3>2. CASE Next /\ lostAt' # Never
        <4>1. /\ file' # None /\ Running' /\ ~Entitled'
              /\ lostAt' = now' \/ (lostAt # Never /\ lostAt' = lostAt)
          BY <3>2 DEF Next, Running
        <4>2. CASE lostAt' = now'
          <5>1. Delay(now)'
            BY <2>1, <2>2, JustLost, PTL DEF KeepsTime
          <5> QED
            BY <2>2, <4>1, <4>2, <5>1 DEF Losing, Clocks, Delay
        <4>3. CASE lostAt # Never /\ lostAt' = lostAt
          <5>1. lostAt \in Nat /\ now \in Nat /\ now <= now'
            BY <3>2, NowMoves DEF TimeInv, TypeOK, Tick, Contract!Tick
          <5>2. Delay(lostAt)'
            BY <2>1, <4>3, <5>1 DEF KeepsTime, TimeInv, Losing, Delay
          <5> QED
            BY <2>2, <4>1, <4>3, <5>1, <5>2 DEF Losing, TimeInv, Clocks
        <4> QED
          BY <4>1, <4>2, <4>3
      <3>3. CASE Next /\ lostAt' = Never
        BY <3>3 DEF Losing, Never
      <3> QED
        BY <3>1, <3>2, <3>3
    <2> QED
      BY <2>1, <2>3 DEF KeepsTime
  <1> QED
    BY <1>1, <1>2, Typed, SessionInductive, AlwaysBacked, PTL DEF Spec, TimeInv

\* However the calls are timed and whatever happens to the Oubliette or the
\* caller, access that is no longer due ends within a wait and two calls.
THEOREM Prompt == Spec => []PromptRevocation
  <1>1. TimeInv => PromptRevocation
    <2> SUFFICES ASSUME TimeInv, lostAt # Never
                 PROVE  now - lostAt <= Wait + 2 * CallTimeout + LocalTime
      BY WaitLongest DEF PromptRevocation
    <2>1. Clocks /\ lostAt \in Nat /\ Paced /\ Delay(lostAt) /\ Shape /\ Holding /\ Running
          /\ file # None
      BY ClocksTyped DEF TimeInv, Losing, SessionInv, TypeOK
    <2>2. pc \in {"check", "issue", "write", "loop", "closing"}
      BY <2>1 DEF Shape, Running, Holding, Entering
    <2>3. pc # "closing" => Serving
      BY <2>1, <2>2 DEF Serving, Holding, Entering
    <2> QED
      BY <2>1, <2>2, <2>3, WaitLongest, SessionAssumption DEF Clocks, Paced, Delay
  <1> QED
    BY <1>1, TimeInductive, PTL

\* While the session runs, the token in the kubeconfig has not run out, with
\* every call as slow as its timeout allows.
THEOREM Fresh == Spec => []FreshCredential
  <1>1. TimeInv => FreshCredential
    <2> SUFFICES ASSUME TimeInv, Running, file # None
                 PROVE  now < file.expires
      BY DEF FreshCredential
    <2>1. Clocks /\ Paced /\ Rotating /\ Shape /\ Holding
      BY ClocksTyped DEF TimeInv, SessionInv
    <2>2. pc = "closing" \/ Serving
      BY <2>1 DEF Serving, Shape, Holding, Entering, Running
    <2>3. file.expires >= refreshAt + Reserve
      BY <2>1 DEF Rotating
    <2>4. CASE pc = "closing"
      BY <2>1, <2>3, <2>4, SessionAssumption DEF Clocks, Paced, Rotating, Reserve
    <2>5. CASE Serving
      <3>1. now < refreshAt + PollInterval + 4 * CallTimeout + LocalTime
        BY <2>1, <2>5, RotationTime DEF SessionInv, TimeInv
      <3> QED
        BY <2>1, <2>3, <3>1, SessionAssumption DEF Clocks, Reserve
    <2> QED
      BY <2>2, <2>4, <2>5
  <1> QED
    BY <1>1, TimeInductive, PTL
=============================================================================

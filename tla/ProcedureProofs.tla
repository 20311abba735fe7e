------------------------- MODULE ProcedureProofs -------------------------
\* Callers of the lifecycle service do not get in each other's way, for any
\* number of callers, owners and incarnations of the name; the check of scrape
\* targets is exact, for every target set and every answer; and a bundle is
\* complete, spells out no Secret and is built again by a retry, for every run.
EXTENDS LifecycleService, TargetCoverage, EvidenceBundle, FiniteSetTheorems, TLAPS

\* Most steps are first-order reasoning; a step that needs arithmetic cites SMT.
USE Zenon

--------------------------------------------------------------------------
\* The lifecycle service

\* What a call knows at its next request.  A copy with the server's version is
\* the object itself but for the later expiry; whoever is about to delete has
\* seen their own object, and what has its uid is still that object.
CallInv(c, call, o, at, made) ==
    /\ call.at \in {"answered", "create", "update", "delete"} => call.copy.owner = Owner[c]
    /\ call.at \in {"create", "update"} => call.copy.expiry <= at + MaxTTL
    /\ call.fresh =>
        /\ call.at = "update" /\ o.uid # 0
        /\ call.copy = [o EXCEPT !.expiry = call.copy.expiry]
        /\ call.copy.expiry > o.expiry
    /\ call.at = "delete" =>
        /\ 0 < call.copy.uid /\ call.copy.uid <= made
        /\ o.uid # 0 => call.copy.uid <= o.uid
        /\ o.uid = call.copy.uid => o.owner = Owner[c]

\* The inductive invariant.
ServiceInv ==
    /\ now \in Nat /\ uids \in Nat /\ object \in Objects
    /\ calls \in [Callers -> Calls]
    /\ object.uid <= uids
    /\ LeaseWithinLimits
    /\ \A c \in Callers : CallInv(c, calls[c], object, now, uids)

\* A lifetime is an integer, however it wraps.
LEMMA LifetimeInt == ASSUME NEW s \in Seconds PROVE Lifetime(s) \in Int
<1>1. s * Second + HalfRange \in Int /\ 2 * HalfRange \in Nat \ {0}
  BY ServiceAssumption, SMT
<1>2. (s * Second + HalfRange) % (2 * HalfRange) \in Int
  BY <1>1, SMT
<1> QED
  BY <1>2, ServiceAssumption, SMT DEF Lifetime, Wrap

\* A lifetime that is accepted leads to an expiry within the limit.
LEMMA CandidateWithin ==
    ASSUME now \in Nat, NEW s \in Seconds, validateTTL(s)
    PROVE  Candidate(s) \in Int /\ Candidate(s) <= now + MaxTTL
  BY LifetimeInt, ServiceAssumption, SMT DEF Candidate, validateTTL

\* The values a call starts from and ends with are well typed.
LEMMA IdleTyped ==
    NoObject \in Objects /\ Idle \in Calls /\ NoObject.uid = 0 /\ NoObject.expiry = 0
<1>1. NoObject \in Objects
  BY SMT DEF NoObject, Objects
<1>2. NoObject.uid = 0 /\ NoObject.expiry = 0
  BY DEF NoObject
<1> QED
  BY <1>1, <1>2 DEF Idle, Calls

\* Whatever the object, an idle caller relies on nothing.
LEMMA IdleInv ==
    ASSUME NEW c \in Callers, NEW o, NEW at, NEW made
    PROVE  CallInv(c, Idle, o, at, made)
  BY DEF CallInv, Idle

\* The service starts in the invariant.
LEMMA ServiceInitially == ServiceInit => ServiceInv
<1> SUFFICES ASSUME ServiceInit PROVE ServiceInv
  OBVIOUS
<1>1. now \in Nat /\ uids \in Nat /\ object \in Objects /\ object.uid <= uids
  BY IdleTyped, SMT DEF ServiceInit
<1>2. calls \in [Callers -> Calls]
  BY IdleTyped DEF ServiceInit
<1>3. LeaseWithinLimits
  BY IdleTyped, ServiceAssumption, SMT DEF ServiceInit, LeaseWithinLimits
<1>4. \A c \in Callers : CallInv(c, calls[c], object, now, uids)
  BY IdleInv DEF ServiceInit
<1> QED
  BY <1>1, <1>2, <1>3, <1>4 DEF ServiceInv

\* A step of one call that leaves the object alone.
LEMMA ContinuePreserves ==
    ASSUME ServiceInv, NEW c \in Callers, NEW call \in Calls,
           calls' = [calls EXCEPT ![c] = call], UNCHANGED <<now, object, uids>>,
           CallInv(c, call, object, now, uids)
    PROVE  ServiceInv'
<1>1. calls' \in [Callers -> Calls]
  BY DEF ServiceInv
<1>2. ASSUME NEW d \in Callers PROVE CallInv(d, calls'[d], object', now', uids')
  BY DEF ServiceInv
<1>3. LeaseWithinLimits'
  BY DEF ServiceInv, LeaseWithinLimits
<1> QED
  BY <1>1, <1>2, <1>3 DEF ServiceInv

\* The call returns without an answer.
LEMMA IdlePreserves ==
    ASSUME ServiceInv, NEW c \in Callers,
           calls' = [calls EXCEPT ![c] = Idle], UNCHANGED <<now, object, uids>>
    PROVE  ServiceInv'
  BY IdleTyped, IdleInv, ContinuePreserves

\* A view of an object of the caller's own.
LEMMA ShownInv ==
    ASSUME NEW c \in Callers, NEW view \in Objects, view.owner = Owner[c],
           NEW o, NEW at, NEW made
    PROVE  Shown(view) \in Calls /\ CallInv(c, Shown(view), o, at, made)
<1>1. /\ Shown(view) \in Calls
      /\ Shown(view).at = "answered" /\ Shown(view).copy = view /\ Shown(view).fresh = FALSE
  BY IdleTyped DEF Shown, Idle, Calls
<1> QED
  BY <1>1 DEF CallInv

\* A call that loses the version of its copy relies on less.
LEMMA StaleInv ==
    ASSUME ServiceInv, NEW c \in Callers, NEW o \in Objects, NEW made \in Nat, uids <= made,
           (o.uid = object.uid /\ o.owner = object.owner) \/ o.uid = 0 \/ o.uid > uids
    PROVE  LET stale == [calls[c] EXCEPT !.fresh = FALSE] IN
           stale \in Calls /\ CallInv(c, stale, o, now, made)
<1> DEFINE stale == [calls[c] EXCEPT !.fresh = FALSE]
<1>1. calls[c] \in Calls /\ CallInv(c, calls[c], object, now, uids)
  BY DEF ServiceInv
<1>2. stale \in Calls /\ stale.at = calls[c].at /\ stale.copy = calls[c].copy /\ stale.fresh = FALSE
  BY <1>1 DEF Calls
<1>3. object.uid \in Nat /\ o.uid \in Nat /\ uids \in Nat /\ calls[c].copy.uid \in Nat
  BY <1>1 DEF ServiceInv, Objects, Calls
<1> HIDE DEF stale
<1>4. CallInv(c, stale, o, now, made)
  BY <1>1, <1>2, <1>3, SMT DEF CallInv
<1> QED
  BY <1>2, <1>4 DEF stale

\* A step that changes the object, on which at most some calls go on.
LEMMA BecomesPreserves ==
    ASSUME ServiceInv, NEW o \in Objects, o # object, NEW updated \in [Callers -> Calls],
           Becomes(o, updated), now' = now, uids' \in Nat, uids <= uids', o.uid <= uids',
           o.expiry <= now + MaxTTL,
           (o.uid = object.uid /\ o.owner = object.owner) \/ o.uid = 0 \/ o.uid > uids,
           \A c \in Callers : \/ updated[c] = calls[c]
                              \/ ~updated[c].fresh /\ CallInv(c, updated[c], o, now, uids')
    PROVE  ServiceInv'
<1>1. object' = o /\ calls' = [c \in Callers |-> [updated[c] EXCEPT !.fresh = FALSE]]
  BY DEF Becomes
<1>2. ASSUME NEW c \in Callers
      PROVE  calls'[c] \in Calls /\ CallInv(c, calls'[c], o, now, uids')
  <2>1. calls'[c] = [updated[c] EXCEPT !.fresh = FALSE]
    BY <1>1
  <2>2. CASE updated[c] = calls[c]
    BY <2>1, <2>2, StaleInv, ZenonT(30)
  <2>3. CASE ~updated[c].fresh /\ CallInv(c, updated[c], o, now, uids')
    <3>1. updated[c] \in Calls
      OBVIOUS
    <3>2. [updated[c] EXCEPT !.fresh = FALSE] = updated[c]
      BY <2>3, <3>1 DEF Calls
    <3> QED
      BY <2>1, <2>3, <3>1, <3>2
  <2> QED
    BY <2>2, <2>3
<1>3. calls' \in [Callers -> Calls]
  BY <1>1, <1>2
<1>4. LeaseWithinLimits'
  BY <1>1 DEF LeaseWithinLimits
<1> QED
  BY <1>1, <1>2, <1>3, <1>4 DEF ServiceInv

\* Create, Get, Renew and Delete begin with a request.
LEMMA BeginPreserves ==
    ASSUME ServiceInv, NEW c \in Callers, Create(c) \/ Get(c) \/ Renew(c) \/ Delete(c)
    PROVE  ServiceInv'
<1>1. CASE Create(c)
  <2>1. PICK s \in Seconds :
            /\ validateTTL(s)
            /\ Begins(c, "create", [NoObject EXCEPT !.owner = Owner[c], !.expiry = Candidate(s)])
    BY <1>1 DEF Create
  <2> DEFINE o == [NoObject EXCEPT !.owner = Owner[c], !.expiry = Candidate(s)]
             call == [Idle EXCEPT !.at = "create", !.copy = o]
  <2>2. Candidate(s) \in Int /\ Candidate(s) <= now + MaxTTL
    BY <2>1, CandidateWithin DEF ServiceInv
  <2>3. o \in Objects /\ o.owner = Owner[c] /\ o.expiry = Candidate(s)
    BY <2>2, IdleTyped DEF Objects, Owners, NoObject
  <2> HIDE DEF o
  <2>4. call \in Calls /\ call.at = "create" /\ call.copy = o /\ call.fresh = FALSE
    BY <2>3 DEF Calls, Idle
  <2>5. calls' = [calls EXCEPT ![c] = call] /\ UNCHANGED <<now, object, uids>>
    BY <2>1 DEF Begins, Continue, o
  <2> HIDE DEF call
  <2>6. CallInv(c, call, object, now, uids)
    BY <2>2, <2>3, <2>4 DEF CallInv
  <2> QED
    BY <2>4, <2>5, <2>6, ContinuePreserves
<1>2. ASSUME NEW at \in {"get", "renew", "read"}, Begins(c, at, NoObject)
      PROVE  ServiceInv'
  <2> DEFINE call == [Idle EXCEPT !.at = at, !.copy = NoObject]
  <2>1. call \in Calls /\ call.at = at /\ call.fresh = FALSE
    BY IdleTyped DEF Calls, Idle
  <2>2. calls' = [calls EXCEPT ![c] = call] /\ UNCHANGED <<now, object, uids>>
    BY <1>2 DEF Begins, Continue
  <2> HIDE DEF call
  <2>3. CallInv(c, call, object, now, uids)
    BY <2>1 DEF CallInv
  <2> QED
    BY <2>1, <2>2, <2>3, ContinuePreserves
<1> QED
  BY <1>1, <1>2 DEF Get, Renew, Delete

\* A call shows an object of the caller's own, and only that.
LEMMA ShowsPreserves ==
    ASSUME ServiceInv, NEW c \in Callers, ownedBy(object, c), Shows(c, object)
    PROVE  ServiceInv'
  BY ShownInv, ContinuePreserves DEF Shows, Continue, ownedBy, ServiceInv

\* A call returns an error.
LEMMA ErrorPreserves ==
    ASSUME ServiceInv, NEW c \in Callers, Error(c)
    PROVE  ServiceInv'
  BY IdlePreserves DEF Error, Continue

\* The object that a Create makes.
LEMMA CreatedPreserves ==
    ASSUME ServiceInv, NEW c \in Callers, calls[c].at = "create", object.uid = 0,
           uids' = uids + 1, now' = now,
           NEW call \in Calls,
           call = Idle \/ call = Shown([calls[c].copy EXCEPT !.uid = uids + 1]),
           Becomes([calls[c].copy EXCEPT !.uid = uids + 1], [calls EXCEPT ![c] = call])
    PROVE  ServiceInv'
<1> DEFINE o == [calls[c].copy EXCEPT !.uid = uids + 1]
           updated == [calls EXCEPT ![c] = call]
<1>1. calls[c] \in Calls /\ CallInv(c, calls[c], object, now, uids) /\ uids \in Nat /\ now \in Nat
  BY DEF ServiceInv
<1>2. calls[c].copy \in Objects /\ calls[c].copy.owner = Owner[c]
      /\ calls[c].copy.expiry <= now + MaxTTL
  BY <1>1 DEF CallInv, Calls
<1>3. o \in Objects /\ o.uid = uids + 1 /\ o.owner = Owner[c] /\ o.expiry <= now + MaxTTL
  <2>1. uids + 1 \in Nat
    BY <1>1, SMT
  <2>2. o \in Objects
    BY <1>2, <2>1 DEF Objects
  <2>3. o.uid = uids + 1 /\ o.owner = calls[c].copy.owner /\ o.expiry = calls[c].copy.expiry
    BY <1>2 DEF Objects
  <2> QED
    BY <1>2, <2>2, <2>3
<1>4. updated \in [Callers -> Calls]
  BY DEF ServiceInv
<1>5. Becomes(o, updated) /\ (call = Idle \/ call = Shown(o))
  OBVIOUS
<1> HIDE DEF o
<1>6. ~call.fresh /\ CallInv(c, call, o, now, uids')
  <2>1. CASE call = Idle
    <3>1. ~Idle.fresh
      BY DEF Idle
    <3> QED
      BY <2>1, <3>1, IdleInv
  <2>2. CASE call = Shown(o)
    <3>1. ~Shown(o).fresh
      BY DEF Shown, Idle
    <3> QED
      BY <2>2, <3>1, <1>3, ShownInv
  <2> QED
    BY <1>5, <2>1, <2>2
<1>7. \A d \in Callers : \/ updated[d] = calls[d]
                         \/ ~updated[d].fresh /\ CallInv(d, updated[d], o, now, uids')
  BY <1>6 DEF ServiceInv
<1> HIDE DEF updated
<1>8. o # object /\ uids' \in Nat /\ uids <= uids' /\ o.uid <= uids' /\ o.uid > uids
  BY <1>1, <1>3, SMT
<1> QED
  BY <1>3, <1>4, <1>5, <1>7, <1>8, BecomesPreserves

\* The requests that only read.
LEMMA ReadsPreserve ==
    ASSUME ServiceInv, NEW c \in Callers, CreateReads(c) \/ GetReads(c) \/ DeleteReads(c)
    PROVE  ServiceInv'
<1>1. CASE CreateReads(c) \/ GetReads(c)
  BY <1>1, ShowsPreserves, ErrorPreserves DEF CreateReads, GetReads
<1>2. CASE DeleteReads(c) /\ object.uid # 0 /\ ownedBy(object, c)
  <2> DEFINE call == [calls[c] EXCEPT !.at = "delete", !.copy = object]
  <2>1. calls[c].at = "read" /\ calls' = [calls EXCEPT ![c] = call]
        /\ UNCHANGED <<now, object, uids>>
    BY <1>2 DEF DeleteReads, Continue
  <2>2. calls[c] \in Calls /\ CallInv(c, calls[c], object, now, uids) /\ object \in Objects
        /\ object.uid <= uids
    BY DEF ServiceInv
  <2>3. ~calls[c].fresh
    BY <2>1, <2>2 DEF CallInv
  <2>4. call \in Calls /\ call.at = "delete" /\ call.copy = object /\ call.fresh = calls[c].fresh
    BY <2>2 DEF Calls
  <2>5. object.uid \in Nat
    BY <2>2 DEF Objects
  <2> HIDE DEF call
  <2>6. CallInv(c, call, object, now, uids)
    BY <1>2, <2>2, <2>3, <2>4, <2>5, SMT DEF CallInv, ownedBy
  <2> QED
    BY <2>1, <2>4, <2>6, ContinuePreserves
<1>3. CASE DeleteReads(c) /\ ~(object.uid # 0 /\ ownedBy(object, c))
  BY <1>3, ErrorPreserves DEF DeleteReads
<1> QED
  BY <1>1, <1>2, <1>3

\* Create writes, with or without the caller hearing of it.
LEMMA CreateWritesPreserves ==
    ASSUME ServiceInv, NEW c \in Callers, CreateWrites(c) \/ AnswerLost(c)
    PROVE  ServiceInv'
<1>1. CASE CreateWrites(c) /\ object.uid # 0
  <2> DEFINE call == [calls[c] EXCEPT !.at = "taken"]
  <2>1. calls[c].at = "create" /\ calls' = [calls EXCEPT ![c] = call]
        /\ UNCHANGED <<now, object, uids>>
    BY <1>1 DEF CreateWrites, Continue
  <2>2. calls[c] \in Calls /\ CallInv(c, calls[c], object, now, uids)
    BY DEF ServiceInv
  <2>3. call \in Calls /\ call.at = "taken" /\ call.fresh = calls[c].fresh
    BY <2>2 DEF Calls
  <2> HIDE DEF call
  <2>4. CallInv(c, call, object, now, uids)
    BY <2>1, <2>2, <2>3 DEF CallInv
  <2> QED
    BY <2>1, <2>3, <2>4, ContinuePreserves
<1>2. CASE CreateWrites(c) /\ object.uid = 0
  <2> DEFINE o == [calls[c].copy EXCEPT !.uid = uids + 1]
  <2>1. /\ calls[c].at = "create" /\ uids' = uids + 1 /\ now' = now
        /\ Becomes(o, [calls EXCEPT ![c] = Shown(o)])
    BY <1>2 DEF CreateWrites, Writes
  <2>2. calls[c] \in Calls /\ CallInv(c, calls[c], object, now, uids) /\ uids + 1 \in Nat
    BY SMT DEF ServiceInv
  <2>3. calls[c].copy \in Objects /\ calls[c].copy.owner = Owner[c]
    BY <2>1, <2>2 DEF CallInv, Calls
  <2>4. o \in Objects /\ o.owner = Owner[c]
    BY <2>2, <2>3 DEF Objects
  <2>5. Shown(o) \in Calls
    BY <2>4, ShownInv
  <2> QED
    BY <1>2, <2>1, <2>5, CreatedPreserves
<1>3. CASE AnswerLost(c)
  BY <1>3, IdleTyped, CreatedPreserves DEF AnswerLost
<1> QED
  BY <1>1, <1>2, <1>3

\* Renew reads the object, and its copy is then the object with a later expiry.
LEMMA RenewReadsPreserves ==
    ASSUME ServiceInv, NEW c \in Callers, RenewReads(c)
    PROVE  ServiceInv'
<1>1. CASE object.uid = 0 \/ ~ownedBy(object, c) \/ object.forgotten
  BY <1>1, ErrorPreserves DEF RenewReads
<1>2. CASE ~(object.uid = 0 \/ ~ownedBy(object, c) \/ object.forgotten)
  <2>1. PICK s \in Seconds :
            /\ validateTTL(s)
            /\ IF Candidate(s) > object.expiry
               THEN Continue(c, [calls[c] EXCEPT !.at = "update", !.fresh = TRUE,
                                    !.copy = [object EXCEPT !.expiry = Candidate(s)]])
               ELSE Shows(c, object)
    BY <1>2 DEF RenewReads
  <2>2. CASE ~(Candidate(s) > object.expiry)
    BY <1>2, <2>1, <2>2, ShowsPreserves
  <2>3. CASE Candidate(s) > object.expiry
    <3> DEFINE o == [object EXCEPT !.expiry = Candidate(s)]
               call == [calls[c] EXCEPT !.at = "update", !.fresh = TRUE, !.copy = o]
    <3>1. calls' = [calls EXCEPT ![c] = call] /\ UNCHANGED <<now, object, uids>>
      BY <2>1, <2>3 DEF Continue
    <3>2. Candidate(s) \in Int /\ Candidate(s) <= now + MaxTTL
      BY <2>1, CandidateWithin DEF ServiceInv
    <3>3. object \in Objects /\ calls[c] \in Calls
      BY DEF ServiceInv
    <3>4. /\ o \in Objects /\ o.expiry = Candidate(s) /\ o.owner = object.owner
          /\ o = [object EXCEPT !.expiry = o.expiry]
      BY <3>2, <3>3 DEF Objects
    <3> HIDE DEF o
    <3>5. call \in Calls /\ call.at = "update" /\ call.copy = o /\ call.fresh = TRUE
      BY <3>3, <3>4 DEF Calls
    <3> HIDE DEF call
    <3>6. CallInv(c, call, object, now, uids)
      BY <1>2, <2>3, <3>2, <3>4, <3>5 DEF CallInv, ownedBy
    <3> QED
      BY <3>1, <3>5, <3>6, ContinuePreserves
  <2> QED
    BY <2>2, <2>3
<1> QED
  BY <1>1, <1>2

\* Renew writes the copy that it read, if nothing was written since.
LEMMA RenewWritesPreserves ==
    ASSUME ServiceInv, NEW c \in Callers, RenewWrites(c)
    PROVE  ServiceInv'
<1>1. CASE ~calls[c].fresh
  BY <1>1, ErrorPreserves DEF RenewWrites
<1>2. CASE calls[c].fresh
  <2> DEFINE o == calls[c].copy
             updated == [calls EXCEPT ![c] = Shown(o)]
  <2>1. calls[c].at = "update" /\ Becomes(o, updated) /\ now' = now /\ uids' = uids
    BY <1>2 DEF RenewWrites, Writes
  <2>2. /\ calls[c] \in Calls /\ CallInv(c, calls[c], object, now, uids) /\ object \in Objects
        /\ object.uid <= uids /\ uids \in Nat
    BY DEF ServiceInv
  <2>3. /\ o \in Objects /\ o.owner = Owner[c] /\ o.expiry <= now + MaxTTL
        /\ o = [object EXCEPT !.expiry = o.expiry] /\ o.expiry > object.expiry
    BY <1>2, <2>1, <2>2 DEF CallInv, Calls
  <2> HIDE DEF o
  <2>4. o.uid = object.uid /\ o.owner = object.owner /\ object.expiry \in Int
    BY <2>2, <2>3 DEF Objects
  <2>5. o # object
    BY <2>3, <2>4, SMT
  <2>6. Shown(o) \in Calls /\ CallInv(c, Shown(o), o, now, uids') /\ ~Shown(o).fresh
    <3>1. ~Shown(o).fresh
      BY DEF Shown, Idle
    <3> QED
      BY <2>3, <3>1, ShownInv
  <2>7. updated \in [Callers -> Calls]
    BY <2>6 DEF ServiceInv
  <2>8. \A d \in Callers : \/ updated[d] = calls[d]
                           \/ ~updated[d].fresh /\ CallInv(d, updated[d], o, now, uids')
    BY <2>6 DEF ServiceInv
  <2> HIDE DEF updated
  <2>9. uids' \in Nat /\ uids <= uids' /\ o.uid <= uids'
    BY <2>1, <2>2, <2>4, SMT
  <2> QED
    BY <2>1, <2>3, <2>4, <2>5, <2>7, <2>8, <2>9, BecomesPreserves
<1> QED
  BY <1>1, <1>2

\* Marking or removing an object keeps its incarnation or leaves none.
LEMMA RemovedTyped ==
    ASSUME ServiceInv,
           NEW o \in {[object EXCEPT !.deleting = TRUE], [object EXCEPT !.finalizer = TRUE],
                      [object EXCEPT !.forgotten = TRUE], NoObject}
    PROVE  /\ o \in Objects /\ o.uid <= uids /\ o.expiry <= now + MaxTTL
           /\ (o.uid = object.uid /\ o.owner = object.owner) \/ o.uid = 0
<1>1. /\ object \in Objects /\ object.uid <= uids /\ object.expiry <= now + MaxTTL
      /\ uids \in Nat /\ now \in Nat
  BY DEF ServiceInv, LeaseWithinLimits
<1>2. CASE o = NoObject
  BY <1>1, <1>2, IdleTyped, ServiceAssumption, SMT
<1>3. CASE o # NoObject
  <2>1. o \in Objects
    BY <1>1, <1>3 DEF Objects
  <2>2. o.uid = object.uid /\ o.owner = object.owner /\ o.expiry = object.expiry
    BY <1>1, <1>3 DEF Objects
  <2> QED
    BY <1>1, <2>1, <2>2
<1> QED
  BY <1>2, <1>3

\* Delete marks or removes whatever has the name.
LEMMA DeleteWritesPreserves ==
    ASSUME ServiceInv, NEW c \in Callers, DeleteWrites(c)
    PROVE  ServiceInv'
<1> DEFINE o == IF object.uid # 0 /\ object.finalizer
                THEN [object EXCEPT !.deleting = TRUE] ELSE NoObject
           updated == [calls EXCEPT ![c] = Idle]
<1>1. Becomes(o, updated) /\ now' = now /\ uids' = uids
  BY DEF DeleteWrites, Writes
<1>2. o = [object EXCEPT !.deleting = TRUE] \/ o = NoObject
  OBVIOUS
<1> HIDE DEF o
<1>3. /\ o \in Objects /\ o.uid <= uids /\ o.expiry <= now + MaxTTL
      /\ (o.uid = object.uid /\ o.owner = object.owner) \/ o.uid = 0
  BY <1>2, RemovedTyped
<1>4. updated \in [Callers -> Calls] /\ uids \in Nat
  BY IdleTyped DEF ServiceInv
<1>5. CASE o = object
  BY <1>1, <1>5, IdlePreserves DEF Becomes
<1>6. CASE o # object
  <2>1. ~Idle.fresh
    BY DEF Idle
  <2>2. \A d \in Callers : \/ updated[d] = calls[d]
                           \/ ~updated[d].fresh /\ CallInv(d, updated[d], o, now, uids')
    BY <2>1, IdleInv DEF ServiceInv
  <2> HIDE DEF updated
  <2>3. uids' \in Nat /\ uids <= uids' /\ o.uid <= uids'
    BY <1>1, <1>3, <1>4, SMT
  <2> QED
    BY <1>1, <1>3, <1>4, <1>6, <2>2, <2>3, BecomesPreserves
<1> QED
  BY <1>5, <1>6

\* The controller changes the object under the calls.
LEMMA ControllerPreserves ==
    ASSUME ServiceInv, Controller
    PROVE  ServiceInv'
<1>1. PICK o \in {[object EXCEPT !.finalizer = TRUE], [object EXCEPT !.forgotten = TRUE],
                  [object EXCEPT !.deleting = TRUE], NoObject} :
          o # object /\ Becomes(o, calls)
  BY DEF Controller
<1>2. now' = now /\ uids' = uids /\ uids \in Nat /\ calls \in [Callers -> Calls]
  BY DEF Controller, ServiceInv
<1>3. /\ o \in Objects /\ o.uid <= uids /\ o.expiry <= now + MaxTTL
      /\ (o.uid = object.uid /\ o.owner = object.owner) \/ o.uid = 0
  BY <1>1, RemovedTyped
<1>4. uids' \in Nat /\ uids <= uids' /\ o.uid <= uids'
  BY <1>2, <1>3, SMT
<1> QED
  BY <1>1, <1>2, <1>3, <1>4, BecomesPreserves

\* Time passes.
LEMMA TickPreserves ==
    ASSUME ServiceInv, Tick
    PROVE  ServiceInv'
<1>1. /\ now' = now + 1 /\ UNCHANGED <<object, uids, calls>>
      /\ now \in Nat /\ object \in Objects /\ object.expiry <= now + MaxTTL
  BY DEF Tick, ServiceInv, LeaseWithinLimits
<1>2. object.expiry \in Int /\ MaxTTL \in Nat
  BY <1>1, ServiceAssumption DEF Objects
<1>3. LeaseWithinLimits'
  BY <1>1, <1>2, SMT DEF LeaseWithinLimits
<1>4. ASSUME NEW c \in Callers PROVE CallInv(c, calls'[c], object', now', uids')
  <2>1. calls[c] \in Calls /\ CallInv(c, calls[c], object, now, uids)
    BY DEF ServiceInv
  <2>2. calls[c].copy.expiry \in Int
    BY <2>1 DEF Calls, Objects
  <2>3. calls[c].copy.expiry <= now + MaxTTL => calls[c].copy.expiry <= now' + MaxTTL
    BY <1>1, <1>2, <2>2, SMT
  <2> QED
    BY <1>1, <2>1, <2>3 DEF CallInv
<1>5. now' \in Nat
  BY <1>1, SMT
<1> QED
  BY <1>1, <1>3, <1>4, <1>5 DEF ServiceInv

\* Every step keeps the invariant.
LEMMA ServicePreserved == ServiceInv /\ [ServiceNext]_serviceVars => ServiceInv'
<1> SUFFICES ASSUME ServiceInv, [ServiceNext]_serviceVars PROVE ServiceInv'
  OBVIOUS
<1>1. CASE UNCHANGED serviceVars
  <2>1. LeaseWithinLimits'
    BY <1>1 DEF serviceVars, ServiceInv, LeaseWithinLimits
  <2> QED
    BY <1>1, <2>1 DEF serviceVars, ServiceInv
<1>2. ASSUME NEW c \in Callers, Operation(c) PROVE ServiceInv'
  <2>1. CASE CallFails(c) \/ Ends(c)
    BY <2>1, IdlePreserves DEF CallFails, Ends, Continue
  <2> QED
    BY <1>2, <2>1, BeginPreserves, ReadsPreserve, CreateWritesPreserves, RenewReadsPreserves,
       RenewWritesPreserves, DeleteWritesPreserves DEF Operation
<1> QED
  BY <1>1, <1>2, ControllerPreserves, TickPreserves DEF ServiceNext

--------------------------------------------------------------------------
\* The inductive invariant holds in every reachable state of the service.
THEOREM ServiceInductive == ServiceSpec => []ServiceInv
  BY ServiceInitially, ServicePreserved, PTL DEF ServiceSpec

\* A caller is shown only objects of their own, for any callers, owners and
\* incarnations of the name (ownedBy in Create, Get, List and Renew).
THEOREM OwnAnswers == ServiceSpec => []AnswersAreOwn
<1>1. ServiceInv => AnswersAreOwn
  BY DEF ServiceInv, CallInv, AnswersAreOwn
<1> QED
  BY <1>1, ServiceInductive, PTL

\* No lease is longer than MaxTTL, for every lifetime asked for and every width
\* of time.Duration (validateTTL).
THEOREM LeaseLimited == ServiceSpec => []LeaseWithinLimits
<1>1. ServiceInv => LeaseWithinLimits
  BY DEF ServiceInv
<1> QED
  BY <1>1, ServiceInductive, PTL

\* The calls that the writer of the object does not touch stay where they are.
LEMMA OthersStay ==
    ASSUME ServiceInv, NEW c \in Callers, NEW o, NEW updated \in [Callers -> Calls],
           Becomes(o, updated), updated[c] = calls[c]
    PROVE  calls'[c].at = calls[c].at
<1>1. calls'[c] = calls[c] \/ calls'[c] = [calls[c] EXCEPT !.fresh = FALSE]
  BY DEF Becomes
<1>2. calls[c] \in Calls
  BY DEF ServiceInv
<1> QED
  BY <1>1, <1>2 DEF Calls

\* What a step does to an object that exists, seen from the caller who takes it.
LEMMA ChangesOwn ==
    ASSUME ServiceInv, ServiceNext, NEW c \in Callers,
           calls[c].at # "delete", calls'[c].at # calls[c].at,
           object.uid # 0, object' # object
    PROVE  /\ object.owner = Owner[c]
           /\ object'.expiry > object.expiry
           /\ object' = [object EXCEPT !.expiry = object'.expiry]
<1>1. /\ calls \in [Callers -> Calls] /\ calls[c] \in Calls /\ object \in Objects
      /\ CallInv(c, calls[c], object, now, uids)
  BY DEF ServiceInv
<1>2. ~Controller
  <2>1. ASSUME Controller PROVE calls'[c].at = calls[c].at
    BY <1>1, <2>1, OthersStay DEF Controller
  <2> QED
    BY <2>1
<1>3. PICK d \in Callers : RenewWrites(d) \/ DeleteWrites(d)
  BY <1>2 DEF ServiceNext, Operation, Create, CreateWrites, CreateReads, Get, GetReads,
     Renew, RenewReads, Delete, DeleteReads, CallFails, AnswerLost, Ends, Begins, Continue, Shows,
     Error, Tick
<1>4. CASE RenewWrites(d)
  <2> DEFINE updated == [calls EXCEPT ![d] = Shown(calls[d].copy)]
  <2>1. calls[d].fresh /\ calls[d].at = "update" /\ Becomes(calls[d].copy, updated)
    BY <1>4 DEF RenewWrites, Writes, Error, Continue
  <2>2. /\ calls[d].copy = [object EXCEPT !.expiry = calls[d].copy.expiry]
        /\ calls[d].copy.expiry > object.expiry /\ calls[d].copy.owner = Owner[d]
        /\ calls[d].copy \in Objects
    BY <2>1 DEF ServiceInv, CallInv, Calls
  <2>3. updated \in [Callers -> Calls]
    BY <1>1, <2>2, ShownInv
  <2>4. d = c
    BY <1>1, <2>1, <2>3, OthersStay
  <2>5. object.owner = calls[d].copy.owner
    BY <1>1, <2>2 DEF Objects
  <2>6. object' = calls[d].copy
    BY <2>1 DEF Becomes
  <2> QED
    BY <2>2, <2>4, <2>5, <2>6
<1>5. CASE DeleteWrites(d)
  <2> DEFINE o == IF object.uid # 0 /\ object.finalizer
                  THEN [object EXCEPT !.deleting = TRUE] ELSE NoObject
             updated == [calls EXCEPT ![d] = Idle]
  <2>1. calls[d].at = "delete" /\ Becomes(o, updated)
    BY <1>5 DEF DeleteWrites, Writes
  <2>2. updated \in [Callers -> Calls]
    BY <1>1, IdleTyped
  <2> HIDE DEF o
  <2>3. d = c
    BY <1>1, <2>1, <2>2, OthersStay
  <2> QED
    BY <2>1, <2>3
<1> QED
  BY <1>3, <1>4, <1>5

\* A call that is not a Delete changes only its caller's own object, and that only
\* by moving its expiry forward, for any number of callers and incarnations.
THEOREM OthersKept == ServiceSpec => OthersUntouched
<1>1. ServiceInv /\ [ServiceNext]_serviceVars =>
      [\A c \in Callers :
        (/\ calls[c].at # "delete" /\ calls'[c].at # calls[c].at
         /\ object.uid # 0 /\ object' # object) =>
            /\ object.owner = Owner[c]
            /\ object'.expiry > object.expiry
            /\ object' = [object EXCEPT !.expiry = object'.expiry]]_serviceVars
  BY ChangesOwn
<1> QED
  BY <1>1, ServiceInductive, PTL DEF ServiceSpec, OthersUntouched

--------------------------------------------------------------------------
\* The check of scrape targets

\* The first n expected targets are complete, no two have one endpoint, and want
\* holds just these by key.
Collected(n) ==
    /\ \A e \in 1..n : Complete(set.expected[e])
    /\ \A e, f \in 1..n : Same(set.expected[e], set.expected[f]) => e = f
    /\ \A k : k \in DOMAIN want <=> \E e \in 1..n : k = targetKey(set.expected[e])
    /\ \A e \in 1..n : want[targetKey(set.expected[e])] = set.expected[e]

\* Of the first n active targets those with the Oubliette's label each serve an
\* expected one, no two have one key, and seen holds just their keys.
Found(n) ==
    /\ \A i \in Own : i <= n => \E e \in Wanted : Serves(active[i], set.expected[e])
    /\ \A i, j \in Own :
        (i <= n /\ j <= n /\ targetKey(active[i]) = targetKey(active[j])) => i = j
    /\ \A k : k \in seen <=> \E i \in Own : i <= n /\ k = targetKey(active[i])

Identified == set.oubliette # "" /\ set.generation # "" /\ set.expected # <<>>

\* The inductive invariant: what each loop knows of the positions behind it.
CoverageInv ==
    /\ set.expected \in Seq(Target) /\ active \in Seq(Discovered) /\ next \in Nat \ {0}
    /\ IsFiniteSet(DOMAIN want)
    /\ phase = "idle" => set = NoSet
    /\ phase \in {"idle", "read"} => next = 1 /\ DOMAIN want = {} /\ seen = {}
    /\ phase = "expect" =>
        Identified /\ next <= Len(set.expected) + 1 /\ Collected(next - 1) /\ seen = {}
    /\ phase = "discover" =>
        /\ Identified /\ Collected(Len(set.expected))
        /\ next <= Len(active) + 1 /\ Found(next - 1)
    /\ CoverageIsExact

\* Two complete targets have one key just when they name one endpoint, and a
\* complete one never has the key of an incomplete one (targetKey).
LEMMA KeyIsEndpoint ==
    ASSUME NEW t, NEW u, Complete(t)
    PROVE  targetKey(t) = targetKey(u) <=> Same(t, u)
  BY DEF targetKey, Complete, Same

\* Nothing has been read and nothing is known.
LEMMA CoverageInitially == CoverageInit => CoverageInv
<1> SUFFICES ASSUME CoverageInit PROVE CoverageInv
  OBVIOUS
<1>1. DOMAIN want = {}
  BY DEF CoverageInit
<1>2. IsFiniteSet(DOMAIN want)
  BY <1>1, FS_EmptySet
<1>3. <<>> \in Seq(Target) /\ <<>> \in Seq(Discovered)
  BY SMT
<1>4. NoSet.expected \in Seq(Target)
  BY <1>3 DEF NoSet
<1>5. phase = "idle" /\ set = NoSet /\ active = <<>> /\ next = 1 /\ seen = {}
  BY DEF CoverageInit
<1>6. CoverageIsExact
  BY <1>5 DEF CoverageIsExact
<1> QED
  BY <1>1, <1>2, <1>3, <1>4, <1>5, <1>6, SMT DEF CoverageInv

\* A step that returns leaves what the verdict is about as it was, so that the
\* invariant holds after it if the verdict is right.
LEMMA Returns ==
    ASSUME CoverageInv, NEW result, Return(result), result = "covered" <=> Covered
    PROVE  CoverageInv'
<1>1. Covered' <=> Covered
  <2>1. set' = set /\ active' = active
    BY DEF Return
  <2>2. Own' = Own /\ Wanted' = Wanted
    BY <2>1 DEF Own, Wanted
  <2>3. ASSUME NEW match PROVE Pairs(match)' <=> Pairs(match)
    BY <2>1, <2>2 DEF Pairs, Serves
  <2> QED
    BY <2>1, <2>2, <2>3 DEF Covered
<1>2. CoverageIsExact'
  BY <1>1 DEF Return, CoverageIsExact
<1>3. phase' = "done" /\ UNCHANGED <<set, active, next, want, seen>>
  BY DEF Return
<1> QED
  BY <1>2, <1>3 DEF CoverageInv

\* A set that does not name its Oubliette, generation and targets is refused.
LEMMA IdentityPreserves == CoverageInv /\ Begin => CoverageInv'
<1> SUFFICES ASSUME CoverageInv, Begin PROVE CoverageInv'
  OBVIOUS
<1>1. CASE ~Identified
  <2>1. Return("error") /\ ~Covered
    BY <1>1 DEF Begin, Identified, Covered
  <2> QED
    BY <2>1, Returns
<1>2. CASE Identified
  <2>1. /\ phase = "read" /\ phase' = "expect"
        /\ UNCHANGED <<set, active, next, want, seen, verdict>>
    BY <1>2 DEF Begin, Identified
  <2>2. next = 1 /\ DOMAIN want = {} /\ seen = {}
    BY <2>1 DEF CoverageInv
  <2>3. Collected(0)
    BY <2>2, SMT DEF Collected
  <2>4. set.expected \in Seq(Target)
    BY DEF CoverageInv
  <2>5. Identified' /\ Collected(next - 1)' /\ (next <= Len(set.expected) + 1)'
    <3>1. Len(set.expected) \in Nat
      BY <2>4, SMT
    <3>2. Identified' /\ (next <= Len(set.expected) + 1)'
      <4>1. Identified'
        BY <1>2, <2>1 DEF Identified
      <4>2. next' = 1 /\ Len(set'.expected) \in Nat
        BY <2>1, <2>2, <3>1
      <4> QED
        BY <4>1, <4>2, SMT
    <3>3. 1..(next' - 1) = {} /\ DOMAIN want' = {}
      BY <2>1, <2>2, SMT
    <3> QED
      BY <3>2, <3>3 DEF Collected
  <2>6. CoverageIsExact'
    BY <2>1 DEF CoverageIsExact
  <2> QED
    BY <2>1, <2>2, <2>5, <2>6 DEF CoverageInv
<1> QED
  BY <1>1, <1>2

\* The loop over the expected targets stops at the first one that is incomplete
\* or names an endpoint again.
LEMMA ExpectPreserves == CoverageInv /\ Expect => CoverageInv'
<1> SUFFICES ASSUME CoverageInv, Expect PROVE CoverageInv'
  OBVIOUS
<1> DEFINE t == set.expected[next]
           key == targetKey(t)
<1>1. /\ phase = "expect" /\ next \in Nat \ {0} /\ next <= Len(set.expected)
      /\ set.expected \in Seq(Target) /\ Len(set.expected) \in Nat
      /\ Identified /\ Collected(next - 1) /\ seen = {} /\ IsFiniteSet(DOMAIN want)
  BY SMT DEF Expect, CoverageInv
<1>2. next \in Wanted /\ 1..(next - 1) \subseteq Wanted
  BY <1>1, SMT DEF Wanted
<1>3. CASE ~(Complete(t) /\ key \notin DOMAIN want)
  <2>1. Return("error")
    BY <1>3 DEF Expect
  <2>2. ASSUME Complete(t), key \in DOMAIN want PROVE ~Covered
    <3>1. PICK e \in 1..(next - 1) : key = targetKey(set.expected[e])
      BY <1>1, <2>2 DEF Collected
    <3>2. Same(t, set.expected[e])
      BY <2>2, <3>1, KeyIsEndpoint
    <3>3. e # next /\ e \in Wanted
      BY <1>1, <1>2, SMT
    <3> QED
      BY <1>2, <3>2, <3>3 DEF Covered
  <2>3. ~Covered
    BY <1>2, <1>3, <2>2 DEF Covered
  <2> QED
    BY <2>1, <2>3, Returns
<1>4. CASE Complete(t) /\ key \notin DOMAIN want
  <2>1. /\ want' = [k \in DOMAIN want \cup {key} |-> IF k = key THEN t ELSE want[k]]
        /\ next' = next + 1
        /\ UNCHANGED <<phase, set, active, seen, verdict>>
    BY <1>4 DEF Expect
  <2>2. IsFiniteSet(DOMAIN want')
    BY <1>1, <2>1, FS_AddElement
  <2>3. 1..next = 1..(next - 1) \cup {next}
    BY <1>1, SMT
  <2>4. \A e \in 1..next : Complete(set.expected[e])
    BY <1>1, <1>4, <2>3 DEF Collected
  <2>5. \A e \in 1..(next - 1) : targetKey(set.expected[e]) \in DOMAIN want
    BY <1>1 DEF Collected
  <2>6. \A e \in 1..(next - 1) : ~Same(set.expected[e], t) /\ ~Same(t, set.expected[e])
    BY <1>4, <2>3, <2>4, <2>5, KeyIsEndpoint
  <2>7. \A e, f \in 1..next : Same(set.expected[e], set.expected[f]) => e = f
    BY <1>1, <2>3, <2>6 DEF Collected
  <2>8. \A k : k \in DOMAIN want' <=> \E e \in 1..next : k = targetKey(set.expected[e])
    BY <1>1, <2>1, <2>3 DEF Collected
  <2>9. \A e \in 1..next : want'[targetKey(set.expected[e])] = set.expected[e]
    <3> SUFFICES ASSUME NEW e \in 1..next
                 PROVE  want'[targetKey(set.expected[e])] = set.expected[e]
      OBVIOUS
    <3>1. CASE e = next
      BY <2>1, <3>1
    <3>2. CASE e # next
      <4>1. e \in 1..(next - 1)
        BY <1>1, <3>2, SMT
      <4>2. targetKey(set.expected[e]) # key
        BY <1>4, <2>5, <4>1
      <4> QED
        BY <1>1, <2>1, <2>5, <4>1, <4>2 DEF Collected
    <3> QED
      BY <3>1, <3>2
  <2>10. next' - 1 = next /\ next' \in Nat \ {0} /\ next' <= Len(set.expected) + 1
    BY <1>1, <2>1, SMT
  <2>11. Collected(next - 1)'
    BY <2>1, <2>4, <2>7, <2>8, <2>9, <2>10 DEF Collected
  <2>12. CoverageIsExact'
    BY <1>1, <2>1 DEF CoverageIsExact
  <2> QED
    BY <1>1, <2>1, <2>2, <2>10, <2>11, <2>12 DEF CoverageInv, Identified
<1> QED
  BY <1>3, <1>4

\* The loop over the active targets begins with nothing found.
LEMMA ExpectedPreserves == CoverageInv /\ Expected => CoverageInv'
<1> SUFFICES ASSUME CoverageInv, Expected PROVE CoverageInv'
  OBVIOUS
<1>1. /\ phase = "expect" /\ next \in Nat \ {0} /\ next > Len(set.expected)
      /\ set.expected \in Seq(Target) /\ Len(set.expected) \in Nat
      /\ active \in Seq(Discovered) /\ Len(active) \in Nat
      /\ Identified /\ next <= Len(set.expected) + 1 /\ Collected(next - 1) /\ seen = {}
  BY SMT DEF Expected, CoverageInv
<1>2. phase' = "discover" /\ next' = 1 /\ UNCHANGED <<set, active, want, seen, verdict>>
  BY DEF Expected
<1>3. next - 1 = Len(set.expected)
  BY <1>1, SMT
<1>4. Collected(Len(set.expected))'
  BY <1>1, <1>2, <1>3 DEF Collected
<1>5. \A i \in Own' : ~(i <= next' - 1)
  BY <1>2, SMT DEF Own
<1>6. Found(next - 1)'
  BY <1>1, <1>2, <1>5 DEF Found
<1>7. CoverageIsExact'
  BY <1>2 DEF CoverageIsExact
<1>8. (next \in Nat \ {0})' /\ (next <= Len(active) + 1)'
  BY <1>1, <1>2, SMT
<1> QED
  BY <1>1, <1>2, <1>4, <1>6, <1>7, <1>8 DEF CoverageInv, Identified

\* What the loop over the active targets relies on.
LEMMA Discovering ==
    ASSUME CoverageInv, phase = "discover"
    PROVE  /\ next \in Nat \ {0} /\ next <= Len(active) + 1
           /\ Len(active) \in Nat /\ Len(set.expected) \in Nat
           /\ Identified /\ Collected(Len(set.expected)) /\ Found(next - 1)
           /\ IsFiniteSet(DOMAIN want)
  BY SMT DEF CoverageInv

\* A position moves on past a target; what follows if Found does too.
LEMMA MovesOn ==
    ASSUME CoverageInv, phase = "discover", next <= Len(active), next' = next + 1,
           UNCHANGED <<phase, set, active, want, verdict>>, Found(next - 1)'
    PROVE  CoverageInv'
<1>1. /\ next \in Nat \ {0} /\ Len(active) \in Nat
      /\ Identified /\ Collected(Len(set.expected)) /\ IsFiniteSet(DOMAIN want)
  BY Discovering
<1>2. Collected(Len(set.expected))' /\ Identified'
  BY <1>1 DEF Collected, Identified
<1>3. CoverageIsExact'
  BY DEF CoverageIsExact
<1>4. (next \in Nat \ {0})' /\ (next <= Len(active) + 1)'
  BY <1>1, SMT
<1> QED
  BY <1>1, <1>2, <1>3, <1>4 DEF CoverageInv

\* A target of another Oubliette changes nothing.
LEMMA SkipPreserves == CoverageInv /\ Skip => CoverageInv'
<1> SUFFICES ASSUME CoverageInv, Skip PROVE CoverageInv'
  OBVIOUS
<1>1. /\ phase = "discover" /\ next <= Len(active) /\ active[next].oubliette # set.oubliette
      /\ next' = next + 1 /\ UNCHANGED <<phase, set, active, want, seen, verdict>>
  BY DEF Skip
<1>2. next \in Nat \ {0} /\ Found(next - 1)
  BY <1>1, Discovering
<1>3. \A i \in Own : i <= next => i <= next - 1
  BY <1>1, <1>2, SMT DEF Own
<1>4. Own' = Own /\ Wanted' = Wanted /\ next' - 1 = next
  BY <1>1, <1>2, SMT DEF Own, Wanted
<1>5. \A i \in Own : i <= next <=> i <= next - 1
  BY <1>2, <1>3, SMT DEF Own
<1>6. Found(next)
  BY <1>2, <1>5 DEF Found
<1>7. Found(next - 1)'
  BY <1>1, <1>4, <1>6, SMT DEF Found, Serves
<1> QED
  BY <1>1, <1>7, MovesOn

\* If the targets can be paired, every active target of the Oubliette has the key
\* of the expected one that it is paired with.
LEMMA PairedKeys ==
    ASSUME NEW match \in [Own -> Wanted], Pairs(match), NEW i \in Own
    PROVE  /\ Serves(active[i], set.expected[match[i]])
           /\ targetKey(active[i]) = targetKey(set.expected[match[i]])
  BY DEF Pairs, Serves, targetKey

\* The loop over the active targets stops at the first one of the Oubliette that
\* is not expected, not as expected, or found again.
LEMMA DiscoverPreserves == CoverageInv /\ Discover => CoverageInv'
<1> SUFFICES ASSUME CoverageInv, Discover PROVE CoverageInv'
  OBVIOUS
<1> DEFINE t == active[next]
           key == targetKey(t)
           Good == /\ t.generation = set.generation
                   /\ key \in DOMAIN want /\ key \notin seen /\ t.up
                   /\ t.role = want[key].role /\ t.node = want[key].node
<1>1. /\ phase = "discover" /\ next <= Len(active) /\ t.oubliette = set.oubliette
  BY DEF Discover
<1>2. /\ next \in Nat \ {0} /\ Len(active) \in Nat /\ Len(set.expected) \in Nat
      /\ Collected(Len(set.expected)) /\ Found(next - 1)
  BY <1>1, Discovering
<1>3. next \in Own
  BY <1>1, <1>2, SMT DEF Own
<1>4. CASE ~Good
  <2>1. Return("error")
    BY <1>4 DEF Discover
  <2>2. ASSUME Covered PROVE FALSE
    <3>1. PICK match \in [Own -> Wanted] : Pairs(match)
      BY <2>2 DEF Covered
    <3> DEFINE e == match[next]
    <3>2. e \in Wanted /\ Serves(t, set.expected[e]) /\ key = targetKey(set.expected[e])
      BY <1>3, <3>1, PairedKeys
    <3>3. key \in DOMAIN want /\ want[key] = set.expected[e]
      BY <1>2, <3>2 DEF Collected, Wanted
    <3>4. key \in seen
      BY <1>4, <3>2, <3>3 DEF Serves
    <3>5. PICK j \in Own : j <= next - 1 /\ key = targetKey(active[j])
      BY <1>2, <3>4 DEF Found
    <3>6. match[j] \in Wanted /\ targetKey(active[j]) = targetKey(set.expected[match[j]])
      BY <3>1, <3>5, PairedKeys
    <3>7. Complete(set.expected[e])
      BY <2>2, <3>2 DEF Covered
    <3>8. Same(set.expected[e], set.expected[match[j]])
      BY <3>2, <3>5, <3>6, <3>7, KeyIsEndpoint
    <3>9. e = match[j]
      BY <2>2, <3>2, <3>6, <3>8 DEF Covered
    <3>10. j = next
      BY <1>3, <3>1, <3>5, <3>9 DEF Pairs
    <3> QED
      BY <1>2, <3>5, <3>10, SMT
  <2> QED
    BY <2>1, <2>2, Returns
<1>5. CASE Good
  <2>1. /\ seen' = seen \cup {key} /\ next' = next + 1
        /\ UNCHANGED <<phase, set, active, want, verdict>>
    BY <1>5 DEF Discover
  <2>2. PICK e \in 1..Len(set.expected) : key = targetKey(set.expected[e])
    BY <1>2, <1>5 DEF Collected
  <2>3. Complete(set.expected[e]) /\ want[key] = set.expected[e]
    BY <1>2, <2>2 DEF Collected
  <2>4. Same(set.expected[e], t)
    BY <2>2, <2>3, KeyIsEndpoint
  <2>5. e \in Wanted /\ Serves(t, set.expected[e])
    BY <1>5, <2>3, <2>4 DEF Same, Serves, Wanted
  <2>6. Own' = Own /\ Wanted' = Wanted /\ next' - 1 = next
    BY <1>2, <2>1, SMT DEF Own, Wanted
  <2>7. \A i \in Own : i <= next <=> (i <= next - 1 \/ i = next)
    BY <1>2, SMT DEF Own
  <2>8. \A i \in Own : i <= next => \E f \in Wanted : Serves(active[i], set.expected[f])
    BY <1>2, <2>5, <2>7 DEF Found
  <2>9. \A i \in Own : i <= next - 1 => targetKey(active[i]) # key
    BY <1>2, <1>5 DEF Found
  <2>10. \A i, j \in Own :
            (i <= next /\ j <= next /\ targetKey(active[i]) = targetKey(active[j])) => i = j
    BY <1>2, <2>7, <2>9 DEF Found
  <2>11. \A k : k \in seen' <=> \E i \in Own : i <= next /\ k = targetKey(active[i])
    BY <1>2, <1>3, <2>1, <2>7 DEF Found
  <2>12. Found(next - 1)'
    BY <2>1, <2>6, <2>8, <2>10, <2>11, SMT DEF Found, Serves
  <2> QED
    BY <1>1, <2>1, <2>12, MovesOn
<1> QED
  BY <1>4, <1>5

\* At the end, as many keys were found as are wanted just when each was: all that
\* were found are wanted.
LEMMA FinishPreserves == CoverageInv /\ Finish => CoverageInv'
<1> SUFFICES ASSUME CoverageInv, Finish PROVE CoverageInv'
  OBVIOUS
<1> DEFINE all == Cardinality(seen) = Cardinality(DOMAIN want)
<1>1. phase = "discover" /\ next > Len(active)
      /\ Return(IF all THEN "covered" ELSE "error")
  BY DEF Finish
<1>2. /\ next \in Nat \ {0} /\ next <= Len(active) + 1
      /\ Len(active) \in Nat /\ Len(set.expected) \in Nat
      /\ Identified /\ Collected(Len(set.expected)) /\ Found(next - 1)
      /\ IsFiniteSet(DOMAIN want)
  BY <1>1, Discovering
<1>3. \A i \in Own : i <= next - 1
  BY <1>1, <1>2, SMT DEF Own
<1>4. \A i \in Own : \E e \in Wanted : Serves(active[i], set.expected[e])
  BY <1>2, <1>3 DEF Found
<1>5. \A i \in Own, e \in Wanted :
        Serves(active[i], set.expected[e]) => targetKey(active[i]) = targetKey(set.expected[e])
  BY DEF Serves, targetKey
<1>6. \A k : k \in DOMAIN want <=> \E e \in Wanted : k = targetKey(set.expected[e])
  BY <1>2 DEF Collected, Wanted
<1>7. \A k : k \in seen <=> \E i \in Own : k = targetKey(active[i])
  BY <1>2, <1>3 DEF Found
<1>8. seen \subseteq DOMAIN want
  BY <1>4, <1>5, <1>6, <1>7, ZenonT(30)
<1>9. all <=> seen = DOMAIN want
  BY <1>2, <1>8, FS_Subset
<1>10. /\ \A e \in Wanted : Complete(set.expected[e])
       /\ \A e, f \in Wanted : Same(set.expected[e], set.expected[f]) => e = f
  BY <1>2 DEF Collected, Wanted
<1>11. ASSUME Covered PROVE all
  <2>1. PICK match \in [Own -> Wanted] : Pairs(match)
    BY <1>11 DEF Covered
  <2>2. \A e \in Wanted : targetKey(set.expected[e]) \in seen
    <3> SUFFICES ASSUME NEW e \in Wanted PROVE targetKey(set.expected[e]) \in seen
      OBVIOUS
    <3>1. PICK i \in Own : match[i] = e
      BY <2>1 DEF Pairs
    <3>2. targetKey(active[i]) = targetKey(set.expected[e])
      BY <2>1, <3>1, PairedKeys
    <3> QED
      BY <1>7, <3>2
  <2> QED
    BY <1>6, <1>8, <1>9, <2>2
<1>12. ASSUME all PROVE Covered
  <2> DEFINE match == [i \in Own |-> CHOOSE e \in Wanted : Serves(active[i], set.expected[e])]
  <2>1. \A i \in Own : match[i] \in Wanted /\ Serves(active[i], set.expected[match[i]])
    BY <1>4
  <2>2. match \in [Own -> Wanted]
    BY <2>1
  <2> HIDE DEF match
  <2>3. \A i \in Own : targetKey(active[i]) = targetKey(set.expected[match[i]])
    BY <1>5, <2>1
  <2>4. \A i, j \in Own : match[i] = match[j] => i = j
    <3> SUFFICES ASSUME NEW i \in Own, NEW j \in Own, match[i] = match[j] PROVE i = j
      OBVIOUS
    <3>1. targetKey(active[i]) = targetKey(active[j])
      BY <2>3
    <3> QED
      BY <1>2, <1>3, <3>1 DEF Found
  <2>5. \A e \in Wanted : \E i \in Own : match[i] = e
    <3> SUFFICES ASSUME NEW e \in Wanted PROVE \E i \in Own : match[i] = e
      OBVIOUS
    <3>1. targetKey(set.expected[e]) \in seen
      BY <1>6, <1>9, <1>12
    <3>2. PICK i \in Own : targetKey(set.expected[e]) = targetKey(active[i])
      BY <1>7, <3>1
    <3>3. Same(set.expected[e], set.expected[match[i]])
      BY <1>10, <2>3, <3>2, KeyIsEndpoint
    <3>4. e = match[i]
      BY <1>10, <2>1, <3>3
    <3> QED
      BY <3>4
  <2>6. Pairs(match)
    BY <2>1, <2>4, <2>5 DEF Pairs
  <2> QED
    BY <1>2, <1>10, <2>2, <2>6 DEF Covered, Identified
<1>13. (IF all THEN "covered" ELSE "error") = "covered" <=> Covered
  BY <1>11, <1>12
<1> QED
  BY <1>1, <1>13, Returns

\* Every step keeps the invariant.
LEMMA CoveragePreserved == CoverageInv /\ [CoverageNext]_coverageVars => CoverageInv'
<1> SUFFICES ASSUME CoverageInv, [CoverageNext]_coverageVars PROVE CoverageInv'
  OBVIOUS
<1>1. CASE ReadFails
  <2>1. set = NoSet
    BY <1>1 DEF ReadFails, CoverageInv
  <2>2. ~Covered
    BY <2>1 DEF Covered, NoSet
  <2> QED
    BY <1>1, <2>2, Returns DEF ReadFails
<1>2. CASE Read
  <2>1. /\ phase = "idle" /\ phase' = "read" /\ set' \in TargetSets /\ active' \in Answers
        /\ UNCHANGED <<next, want, seen, verdict>>
    BY <1>2 DEF Read
  <2>2. set'.expected \in Seq(Target) /\ active' \in Seq(Discovered)
    BY <2>1, CoverageAssumption DEF TargetSet
  <2>3. CoverageIsExact'
    BY <2>1 DEF CoverageIsExact
  <2> QED
    BY <2>1, <2>2, <2>3 DEF CoverageInv
<1>3. CASE UNCHANGED coverageVars
  <2>1. /\ phase' = phase /\ set' = set /\ active' = active /\ next' = next
        /\ want' = want /\ seen' = seen /\ verdict' = verdict
    BY <1>3 DEF coverageVars
  <2>2. Own' = Own /\ Wanted' = Wanted
    BY <2>1 DEF Own, Wanted
  <2>3. ASSUME NEW match PROVE Pairs(match)' <=> Pairs(match)
    BY <2>1, <2>2 DEF Pairs, Serves
  <2>4. Covered' <=> Covered
    BY <2>1, <2>2, <2>3 DEF Covered
  <2>5. CoverageIsExact'
    BY <2>1, <2>4 DEF CoverageIsExact, CoverageInv
  <2>6. phase = "discover" => Found(next - 1)'
    BY <2>1, <2>2, SMTT(30) DEF CoverageInv, Found, Serves
  <2> QED
    BY <2>1, <2>5, <2>6 DEF CoverageInv, Collected, Identified
<1> QED
  BY <1>1, <1>2, <1>3, IdentityPreserves, ExpectPreserves, ExpectedPreserves, SkipPreserves,
     DiscoverPreserves, FinishPreserves DEF CoverageNext

\* The invariant holds throughout.
THEOREM CoverageInductive == CoverageSpec => []CoverageInv
  BY CoverageInitially, CoveragePreserved, PTL DEF CoverageSpec

\* ValidateCoverage succeeds just when the active targets of the Oubliette stand
\* one to one against the expected ones, for all target sets and all answers.
THEOREM CoverageExact == CoverageSpec => []CoverageIsExact
<1>1. CoverageInv => CoverageIsExact
  BY DEF CoverageInv
<1> QED
  BY <1>1, CoverageInductive, PTL

--------------------------------------------------------------------------
\* Evidence bundles

\* A set of naturals that is not empty has a least element.
LEMMA LeastNatural ==
    ASSUME NEW T, T \subseteq Nat, T # {}
    PROVE  \E m \in T : \A k \in T : m <= k
<1>1. PICK m \in T : \A k \in T : ~(<<k, m>> \in OpToRel(<, Nat))
  BY NatLessThanWellFounded, WFMin
<1>2. ASSUME NEW k \in T PROVE m <= k
  <2>1. k \in Nat /\ m \in Nat
    OBVIOUS
  <2>2. k < m => <<k, m>> \in OpToRel(<, Nat)
    BY <2>1 DEF OpToRel
  <2>3. ~(k < m)
    BY <1>1, <2>2
  <2> QED
    BY <2>1, <2>3, SMT
<1> QED
  BY <1>2

\* A bijection of a set with itself.
LEMMA Rearranges ==
    ASSUME NEW D, NEW p \in Bijection(D, D)
    PROVE  /\ p \in [D -> D]
           /\ \A i, j \in D : p[i] = p[j] => i = j
           /\ \A j \in D : \E i \in D : p[i] = j
  BY DEF Bijection, Injection, Surjection, IsInjective

\* One after the other, two rearrangements are one.
LEMMA Composed ==
    ASSUME NEW D, NEW p \in Bijection(D, D), NEW q \in Bijection(D, D)
    PROVE  [i \in D |-> q[p[i]]] \in Bijection(D, D)
<1> DEFINE f == [i \in D |-> q[p[i]]]
<1>1. f \in [D -> D]
  BY Rearranges, SMT
<1>2. ASSUME NEW i \in D, NEW j \in D, f[i] = f[j] PROVE i = j
  BY <1>2, Rearranges, SMT
<1>3. ASSUME NEW j \in D PROVE \E i \in D : f[i] = j
  <2>1. PICK k \in D : q[k] = j
    BY Rearranges, SMT
  <2>2. PICK i \in D : p[i] = k
    BY Rearranges, SMT
  <2> QED
    BY <2>1, <2>2
<1> HIDE DEF f
<1>4. DOMAIN f = D
  BY <1>1
<1>5. f \in Bijection(D, D)
  BY <1>1, <1>2, <1>3, <1>4 DEF Bijection, Injection, Surjection, IsInjective
<1> QED
  BY <1>5 DEF f

\* The first place where two sorted rearrangements differ, both would have the
\* smaller element there.
LEMMA FirstDifference ==
    ASSUME NEW n \in Nat, NEW r \in [1..n -> Nat],
           \A i, j \in 1..n : r[i] = r[j] => i = j,
           NEW p \in Bijection(1..n, 1..n), NEW q \in Bijection(1..n, 1..n),
           \A i, j \in 1..n : i < j => r[q[i]] <= r[q[j]],
           NEW m \in 1..n, p[m] # q[m], \A k \in 1..n : k < m => p[k] = q[k]
    PROVE  r[q[m]] < r[p[m]]
<1>1. /\ p \in [1..n -> 1..n] /\ q \in [1..n -> 1..n]
      /\ \A i, j \in 1..n : p[i] = p[j] => i = j
      /\ \A j \in 1..n : \E i \in 1..n : q[i] = j
  <2>1. /\ p \in [1..n -> 1..n]
        /\ \A i, j \in 1..n : p[i] = p[j] => i = j
    BY DEF Bijection, Injection, IsInjective
  <2>2. /\ q \in [1..n -> 1..n]
        /\ \A j \in 1..n : \E i \in 1..n : q[i] = j
    BY DEF Bijection, Surjection
  <2> QED
    BY <2>1, <2>2
<1>2. PICK j \in 1..n : q[j] = p[m]
  BY <1>1
<1>3. ~(j < m)
  <2>1. SUFFICES ASSUME j < m PROVE FALSE
    OBVIOUS
  <2>2. p[j] = p[m]
    BY <1>2, <2>1
  <2>3. j = m
    BY <1>1, <2>2
  <2> QED
    BY <2>1, <2>3, SMT
<1>4. j # m
  BY <1>2
<1>5. m < j
  BY <1>3, <1>4, SMT
<1>6. r[q[m]] <= r[p[m]]
  BY <1>2, <1>5
<1>7. r[q[m]] # r[p[m]]
  BY <1>1
<1>8. r[q[m]] \in Nat /\ r[p[m]] \in Nat
  BY <1>1
<1> QED
  BY <1>6, <1>7, <1>8, SMT

\* Distinct names can be sorted in one way only.
LEMMA SortedOnce ==
    ASSUME NEW n \in Nat, NEW r \in [1..n -> Nat],
           \A i, j \in 1..n : r[i] = r[j] => i = j,
           NEW p \in Bijection(1..n, 1..n), NEW q \in Bijection(1..n, 1..n),
           \A i, j \in 1..n : i < j => r[p[i]] <= r[p[j]],
           \A i, j \in 1..n : i < j => r[q[i]] <= r[q[j]]
    PROVE  p = q
<1>1. p \in [1..n -> 1..n] /\ q \in [1..n -> 1..n]
  BY Zenon DEF Bijection, Injection
<1> DEFINE Differ == {i \in 1..n : p[i] # q[i]}
<1>2. CASE Differ = {}
  <2>1. \A i \in 1..n : p[i] = q[i]
    BY <1>2
  <2> QED
    BY <1>1, <2>1, SMT
<1>3. CASE Differ # {}
  <2>1. Differ \subseteq Nat
    BY SMT
  <2>2. PICK m \in Differ : \A k \in Differ : m <= k
    BY <1>3, <2>1, LeastNatural
  <2>3. m \in 1..n /\ p[m] # q[m]
    OBVIOUS
  <2>4. ASSUME NEW k \in 1..n, k < m PROVE p[k] = q[k]
    <3>1. ~(m <= k)
      BY <2>3, <2>4, SMT
    <3> QED
      BY <2>2, <3>1
  <2>5. r[q[m]] < r[p[m]]
    BY <2>3, <2>4, FirstDifference
  <2>6. r[p[m]] < r[q[m]]
    BY <2>3, <2>4, FirstDifference
  <2>7. r[q[m]] \in Nat /\ r[p[m]] \in Nat
    BY <1>1, <2>3
  <2> QED
    BY <2>5, <2>6, <2>7, SMTT(30)
<1> QED
  BY <1>2, <1>3

\* A list of artifacts.
Listed(list) ==
    /\ Len(list) \in Nat /\ DOMAIN list = 1..Len(list)
    /\ \A i \in DOMAIN list : list[i].name \in DOMAIN Rank

\* What sorting returns is a rearrangement of the list, in order.
LEMMA SortedRearranges ==
    ASSUME NEW list, NEW s \in Sorted(list)
    PROVE  \E p \in Bijection(DOMAIN list, DOMAIN list) :
              /\ s = [i \in DOMAIN list |-> list[p[i]]]
              /\ \A i, j \in DOMAIN list :
                    i < j => Rank[list[p[i]].name] <= Rank[list[p[j]].name]
  BY DEF Sorted

\* Whatever the order in which artifacts with distinct names arrive, sorting
\* returns the same list.
LEMMA SortedTheSame ==
    ASSUME NEW list, Listed(list), NEW order \in Bijection(DOMAIN list, DOMAIN list),
           \A i, j \in DOMAIN list : i # j => list[i].name # list[j].name,
           NEW s \in Sorted(list), NEW t \in Sorted([i \in DOMAIN list |-> list[order[i]]])
    PROVE  t = s
<1> DEFINE n == Len(list)
           m == [i \in 1..n |-> list[order[i]]]
           r == [i \in 1..n |-> Rank[list[i].name]]
<1>1. n \in Nat /\ DOMAIN list = 1..n /\ order \in Bijection(1..n, 1..n)
  BY DEF Listed
<1>2. r \in [1..n -> Nat] /\ \A i, j \in 1..n : r[i] = r[j] => i = j
  <2>1. ASSUME NEW i \in 1..n
        PROVE  list[i].name \in DOMAIN Rank /\ Rank[list[i].name] \in Nat
    BY <1>1, BundleAssumption DEF Listed
  <2>2. ASSUME NEW i \in 1..n, NEW j \in 1..n, Rank[list[i].name] = Rank[list[j].name]
        PROVE  i = j
    <3>1. list[i].name = list[j].name
      BY <2>1, <2>2, BundleAssumption
    <3> QED
      BY <1>1, <3>1
  <2> QED
    BY <2>1, <2>2
<1>3. PICK p \in Bijection(1..n, 1..n) :
        /\ s = [i \in 1..n |-> list[p[i]]]
        /\ \A i, j \in 1..n : i < j => Rank[list[p[i]].name] <= Rank[list[p[j]].name]
  <2>1. \E p \in Bijection(DOMAIN list, DOMAIN list) :
              /\ s = [i \in DOMAIN list |-> list[p[i]]]
              /\ \A i, j \in DOMAIN list :
                    i < j => Rank[list[p[i]].name] <= Rank[list[p[j]].name]
    BY SortedRearranges
  <2> HIDE DEF n
  <2> QED
    BY <1>1, <2>1
<1>4. PICK o \in Bijection(1..n, 1..n) :
        /\ t = [i \in 1..n |-> m[o[i]]]
        /\ \A i, j \in 1..n : i < j => Rank[m[o[i]].name] <= Rank[m[o[j]].name]
  <2>1. t \in Sorted(m) /\ DOMAIN m = 1..n
    BY <1>1
  <2> HIDE DEF m, n
  <2>2. \E o \in Bijection(DOMAIN m, DOMAIN m) :
              /\ t = [i \in DOMAIN m |-> m[o[i]]]
              /\ \A i, j \in DOMAIN m :
                    i < j => Rank[m[o[i]].name] <= Rank[m[o[j]].name]
    BY <2>1, SortedRearranges
  <2> QED
    BY <2>1, <2>2
<1> DEFINE q == [i \in 1..n |-> order[o[i]]]
<1> HIDE DEF n
<1>5. q \in Bijection(1..n, 1..n)
  BY <1>1, Composed
<1>6. /\ p \in [1..n -> 1..n] /\ o \in [1..n -> 1..n] /\ q \in [1..n -> 1..n]
  BY <1>5 DEF Bijection, Injection
<1>7. \A i \in 1..n : m[o[i]] = list[q[i]]
  BY <1>6
<1>8. /\ \A i, j \in 1..n : i < j => r[p[i]] <= r[p[j]]
      /\ \A i, j \in 1..n : i < j => r[q[i]] <= r[q[j]]
  <2>1. ASSUME NEW i \in 1..n
        PROVE  r[p[i]] = Rank[list[p[i]].name] /\ r[q[i]] = Rank[m[o[i]].name]
    BY <1>6, <1>7
  <2> HIDE DEF r, m, q
  <2> QED
    BY <1>3, <1>4, <2>1
<1>9. p = q
  <2> HIDE DEF r, q
  <2> QED
    BY <1>1, <1>2, <1>5, <1>8, SortedOnce
<1> HIDE DEF m, q
<1> QED
  BY <1>3, <1>4, <1>7, <1>9

\* The zone of the times decides nothing, and does not get into the bundle.
LEMMA ZoneForgotten ==
    ASSUME NEW r \in Runs, NEW zone
    PROVE  /\ validateRun([r EXCEPT !.zone = zone]) <=> validateRun(r)
           /\ normalizeRun([r EXCEPT !.zone = zone]) = normalizeRun(r)
<1> DEFINE z == [r EXCEPT !.zone = zone]
<1>1. /\ "identified" \in DOMAIN r /\ "times" \in DOMAIN r /\ "zone" \in DOMAIN r
      /\ "outcome" \in DOMAIN r /\ "reason" \in DOMAIN r /\ "generations" \in DOMAIN r
  BY BundleAssumption
<1>2. /\ z.identified = r.identified /\ z.times = r.times /\ z.outcome = r.outcome
      /\ z.reason = r.reason /\ z.generations = r.generations
  BY <1>1, SMT
<1>3. ASSUME NEW u, NEW g
      PROVE  [z EXCEPT !.zone = u, !.generations = g] = [r EXCEPT !.zone = u, !.generations = g]
  BY <1>1
<1> HIDE DEF z
<1>4. validateRun(z) <=> validateRun(r)
  BY <1>2 DEF validateRun
<1>5. normalizeRun(z) = normalizeRun(r)
  <2>1. normalizeRun(z) = [z EXCEPT !.zone = "UTC",
                             !.generations = IF z.generations = "nil" THEN "empty" ELSE z.generations]
    BY DEF normalizeRun
  <2>2. normalizeRun(r) = [r EXCEPT !.zone = "UTC",
                             !.generations = IF r.generations = "nil" THEN "empty" ELSE r.generations]
    BY DEF normalizeRun
  <2> DEFINE g == IF r.generations = "nil" THEN "empty" ELSE r.generations
  <2>3. /\ normalizeRun(z) = [z EXCEPT !.zone = "UTC", !.generations = g]
        /\ normalizeRun(r) = [r EXCEPT !.zone = "UTC", !.generations = g]
    BY <1>2, <2>1, <2>2
  <2> HIDE DEF g
  <2> QED
    BY <1>3, <2>3
<1> QED
  BY <1>4, <1>5 DEF z

\* Building again from the same run returns what was built before.
LEMMA BuiltAgain ==
    ASSUME NEW r \in Runs, NEW list \in InputLists, NEW zone,
           NEW order \in Bijection(DOMAIN list, DOMAIN list),
           NEW x \in BuildRunBundle(r, list),
           NEW y \in BuildRunBundle([r EXCEPT !.zone = zone],
                                    [i \in DOMAIN list |-> list[order[i]]])
    PROVE  y = x
<1> DEFINE m == [i \in DOMAIN list |-> list[order[i]]]
           z == [r EXCEPT !.zone = zone]
           Provided(l) == /\ requiredRunArtifacts \subseteq {l[i].name : i \in DOMAIN l}
                          /\ \A i \in DOMAIN l : l[i].name \in requiredRunArtifacts =>
                                                    validateRequiredArtifact(l[i])
           Sound(l) == \A i \in DOMAIN l : validateArtifact(l[i])
           Distinct(l) == \A i, j \in DOMAIN l : i # j => l[i].name # l[j].name
<1>1. Listed(list)
  BY BundleAssumption DEF Listed
<1>2. /\ DOMAIN m = DOMAIN list /\ order \in [DOMAIN list -> DOMAIN list]
      /\ \A i, j \in DOMAIN list : order[i] = order[j] => i = j
      /\ \A j \in DOMAIN list : \E i \in DOMAIN list : order[i] = j
  BY Rearranges, SMT
<1>3. /\ \A i \in DOMAIN m : \E j \in DOMAIN list : m[i] = list[j]
      /\ \A j \in DOMAIN list : \E i \in DOMAIN m : list[j] = m[i]
  BY <1>2
<1>4. Distinct(m) <=> Distinct(list)
  <2>1. ASSUME Distinct(list), NEW i \in DOMAIN m, NEW j \in DOMAIN m, i # j
        PROVE  m[i].name # m[j].name
    <3>1. /\ order[i] \in DOMAIN list /\ order[j] \in DOMAIN list /\ order[i] # order[j]
          /\ m[i] = list[order[i]] /\ m[j] = list[order[j]]
      BY <1>2, <2>1
    <3> QED
      BY <2>1, <3>1
  <2>2. ASSUME Distinct(m), NEW i \in DOMAIN list, NEW j \in DOMAIN list, i # j
        PROVE  list[i].name # list[j].name
    <3>1. PICK a \in DOMAIN list : order[a] = i
      BY <1>2
    <3>2. PICK b \in DOMAIN list : order[b] = j
      BY <1>2
    <3>3. a # b /\ m[a] = list[i] /\ m[b] = list[j]
      BY <2>2, <3>1, <3>2
    <3>4. a \in DOMAIN m /\ b \in DOMAIN m
      BY <1>2
    <3> HIDE DEF m
    <3> QED
      BY <2>2, <3>3, <3>4
  <2> QED
    BY <2>1, <2>2
<1> HIDE DEF m
<1>5. Provided(m) <=> Provided(list)
  <2>1. {m[i].name : i \in DOMAIN m} = {list[i].name : i \in DOMAIN list}
    BY <1>3, SMT
  <2>2. (\A i \in DOMAIN m : m[i].name \in requiredRunArtifacts => validateRequiredArtifact(m[i]))
            <=> \A i \in DOMAIN list : list[i].name \in requiredRunArtifacts =>
                                            validateRequiredArtifact(list[i])
    BY <1>3
  <2> QED
    BY <2>1, <2>2
<1>6. Sound(m) <=> Sound(list)
  BY <1>3
<1>7. /\ validateRun(z) <=> validateRun(r)
      /\ normalizeRun(z) = normalizeRun(r)
  BY ZoneForgotten
<1>8. /\ x \in BuildRunBundle(r, list) /\ y \in BuildRunBundle(z, m)
  BY DEF m
<1> HIDE DEF z, Provided, Sound, Distinct
<1>9. ASSUME NEW l, NEW u
      PROVE  BuildRunBundle(u, l) =
                IF Provided(l) /\ validateRun(u) /\ Sound(l) /\ Distinct(l)
                THEN {[k |-> "bundle", run |-> normalizeRun(u), artifacts |-> ordered] :
                        ordered \in Sorted(l)}
                ELSE {Refused}
  BY DEF BuildRunBundle, Build, Provided, Sound, Distinct
<1>10. CASE Provided(list) /\ validateRun(r) /\ Sound(list) /\ Distinct(list)
  <2>1. PICK s \in Sorted(list) :
            x = [k |-> "bundle", run |-> normalizeRun(r), artifacts |-> s]
    BY <1>8, <1>9, <1>10
  <2>2. PICK t \in Sorted(m) :
            y = [k |-> "bundle", run |-> normalizeRun(z), artifacts |-> t]
    BY <1>4, <1>5, <1>6, <1>7, <1>8, <1>9, <1>10
  <2>3. t = s
    BY <1>1, <1>10, SortedTheSame DEF Distinct, m
  <2> QED
    BY <1>7, <2>1, <2>2, <2>3
<1>11. CASE ~(Provided(list) /\ validateRun(r) /\ Sound(list) /\ Distinct(list))
  BY <1>4, <1>5, <1>6, <1>7, <1>8, <1>9, <1>11
<1> QED
  BY <1>10, <1>11

\* What has been built is what BuildRunBundle makes of the pending run.
BundleInv ==
    \/ run = Nil /\ inputs = <<>> /\ bundle = Nil /\ again = Nil
    \/ /\ run \in Runs /\ inputs \in InputLists
       /\ bundle \in BuildRunBundle(run, inputs)
       /\ again \in {Nil, bundle} /\ (inputs = <<>> => again = Nil)

\* The invariant holds throughout.
THEOREM BundleInductive == BundleSpec => []BundleInv
<1>1. BundleInit => BundleInv
  BY DEF BundleInit, BundleInv
<1>2. ASSUME BundleInv, Export PROVE BundleInv'
  <2>1. /\ run' \in Runs /\ inputs' \in InputLists
        /\ bundle' \in BuildRunBundle(run', inputs')
        /\ again' = Nil
    BY <1>2 DEF Export, BundleInv
  <2> QED
    BY <2>1 DEF BundleInv
<1>3. ASSUME BundleInv, Retry PROVE BundleInv'
  <2>1. PICK zone \in {r.zone : r \in Runs}, order \in Bijection(DOMAIN inputs, DOMAIN inputs) :
            again' \in BuildRunBundle([run EXCEPT !.zone = zone],
                                      [i \in DOMAIN inputs |-> inputs[order[i]]])
    BY <1>3 DEF Retry
  <2>2. /\ run \in Runs /\ inputs \in InputLists /\ inputs # <<>>
        /\ bundle \in BuildRunBundle(run, inputs)
        /\ UNCHANGED <<run, inputs, bundle>>
    BY <1>3 DEF Retry, BundleInv
  <2>3. again' = bundle
    BY <2>1, <2>2, BuiltAgain
  <2>4. bundle' \in BuildRunBundle(run', inputs')
    BY <2>2
  <2> QED
    BY <2>2, <2>3, <2>4 DEF BundleInv
<1>4. ASSUME BundleInv, UNCHANGED bundleVars PROVE BundleInv'
  BY <1>4 DEF bundleVars, BundleInv
<1> QED
  BY <1>1, <1>2, <1>3, <1>4, PTL DEF BundleSpec, BundleNext

\* Building is repeatable, for any artifacts in any order.
THEOREM RetryTheSame == BundleSpec => []RetryBuildsTheSame
<1>1. BundleInv => RetryBuildsTheSame
  BY DEF BundleInv, RetryBuildsTheSame
<1> QED
  BY <1>1, BundleInductive, PTL

\* A bundle holds the artifacts of the pending run, which are valid, in some order.
LEMMA BundleHolds ==
    ASSUME BundleInv, bundle.k = "bundle"
    PROVE  /\ inputs \in InputLists
           /\ requiredRunArtifacts \subseteq {inputs[i].name : i \in DOMAIN inputs}
           /\ \A i \in DOMAIN inputs :
                /\ validateArtifact(inputs[i])
                /\ inputs[i].name \in requiredRunArtifacts => validateRequiredArtifact(inputs[i])
           /\ \A i, j \in DOMAIN inputs : i # j => inputs[i].name # inputs[j].name
           /\ \E p \in Bijection(DOMAIN inputs, DOMAIN inputs) :
                bundle.artifacts = [i \in DOMAIN inputs |-> inputs[p[i]]]
<1>1. bundle # Nil /\ bundle # Refused
  BY SMT DEF Nil, Refused
<1>2. inputs \in InputLists /\ bundle \in BuildRunBundle(run, inputs)
  BY <1>1 DEF BundleInv
<1>3. /\ requiredRunArtifacts \subseteq {inputs[i].name : i \in DOMAIN inputs}
      /\ \A i \in DOMAIN inputs :
            inputs[i].name \in requiredRunArtifacts => validateRequiredArtifact(inputs[i])
      /\ bundle \in Build(run, inputs)
  BY <1>1, <1>2 DEF BuildRunBundle
<1>4. /\ \A i \in DOMAIN inputs : validateArtifact(inputs[i])
      /\ \A i, j \in DOMAIN inputs : i # j => inputs[i].name # inputs[j].name
      /\ \E s \in Sorted(inputs) :
            bundle = [k |-> "bundle", run |-> normalizeRun(run), artifacts |-> s]
  BY <1>1, <1>3 DEF Build
<1>5. PICK s \in Sorted(inputs) :
            bundle = [k |-> "bundle", run |-> normalizeRun(run), artifacts |-> s]
  BY <1>4
<1>6. bundle.artifacts = s
  BY <1>5
<1>7. \E p \in Bijection(DOMAIN inputs, DOMAIN inputs) :
        s = [i \in DOMAIN inputs |-> inputs[p[i]]]
  BY DEF Sorted
<1> QED
  BY <1>2, <1>3, <1>4, <1>6, <1>7

\* The documents of an artifact that decodes are nodes.
LEMMA DocumentsAreNodes ==
    ASSUME NEW list \in InputLists, NEW i \in DOMAIN list, Decodes(list[i].data)
    PROVE  Documents(list[i]) \subseteq Nodes
<1>1. \A d \in DOMAIN list[i].data.docs : list[i].data.docs[d] \in Nodes
  BY BundleAssumption DEF Decodes
<1> QED
  BY <1>1 DEF Documents

\* A meaningful value of a field is that of one of its entries.
LEMMA MappingProvides ==
    ASSUME NEW node \in Nodes, NEW key, meaningfulNode(mappingValue(node, key))
    PROVE  \E e \in DOMAIN node.content : /\ e % 2 = 1 /\ node.content[e].v = key
                                           /\ meaningfulNode(node.content[e + 1])
<1> DEFINE entries == {i \in DOMAIN node.content : i % 2 = 1 /\ node.content[i].v = key}
           first == CHOOSE i \in entries : \A j \in entries : i <= j
<1>1. ~meaningfulNode(Nil)
  <2>1. Nil.k = "none"
    BY DEF Nil
  <2> QED
    BY <2>1 DEF meaningfulNode
<1>2. mappingValue(node, key) # Nil
  BY <1>1
<1>3. entries # {} /\ mappingValue(node, key) = node.content[first + 1]
  BY <1>2 DEF mappingValue
<1>4. entries \subseteq Nat
  BY BundleAssumption
<1> HIDE DEF entries
<1>5. \E i \in entries : \A j \in entries : i <= j
  BY <1>3, <1>4, LeastNatural
<1>6. first \in entries
  BY <1>5
<1> HIDE DEF first
<1> QED
  BY <1>3, <1>6 DEF entries

\* Every bundle that is built holds what is required of it, for all runs and
\* all artifacts.
THEOREM ProvenanceHeld == BundleSpec => []ProvenanceIsComplete
<1>1. ASSUME BundleInv, bundle.k = "bundle" PROVE ProvenanceIsComplete
  <2> DEFINE Named(name) == {i \in DOMAIN bundle.artifacts : bundle.artifacts[i].name = name}
             Provides(document, field) ==
                \E e \in DOMAIN document.content :
                    /\ e % 2 = 1 /\ document.content[e].v = field
                    /\ meaningfulNode(document.content[e + 1])
  <2>1. /\ inputs \in InputLists
        /\ requiredRunArtifacts \subseteq {inputs[i].name : i \in DOMAIN inputs}
        /\ \A i \in DOMAIN inputs :
                inputs[i].name \in requiredRunArtifacts => validateRequiredArtifact(inputs[i])
        /\ \A i, j \in DOMAIN inputs : i # j => inputs[i].name # inputs[j].name
    BY <1>1, BundleHolds
  <2>2. PICK p \in Bijection(DOMAIN inputs, DOMAIN inputs) :
            bundle.artifacts = [i \in DOMAIN inputs |-> inputs[p[i]]]
    BY <1>1, BundleHolds
  <2>3. /\ p \in [DOMAIN inputs -> DOMAIN inputs]
        /\ \A i, j \in DOMAIN inputs : p[i] = p[j] => i = j
        /\ \A j \in DOMAIN inputs : \E i \in DOMAIN inputs : p[i] = j
    BY <2>2, Rearranges
  <2>4. /\ DOMAIN bundle.artifacts = DOMAIN inputs
        /\ \A i \in DOMAIN inputs : bundle.artifacts[i] = inputs[p[i]]
    BY <2>2
  <2>5. ASSUME NEW name \in requiredRunArtifacts
        PROVE  Cardinality(Named(name)) = 1
    <3>1. PICK j \in DOMAIN inputs : inputs[j].name = name
      BY <2>1
    <3>2. PICK i \in DOMAIN inputs : p[i] = j
      BY <2>3
    <3>3. i \in Named(name)
      BY <2>4, <3>1, <3>2
    <3>4. ASSUME NEW l \in Named(name) PROVE l = i
      <4>1. l \in DOMAIN inputs /\ inputs[p[l]].name = name
        BY <2>4
      <4>2. p[l] \in DOMAIN inputs
        BY <2>3, <4>1
      <4>3. p[l] = j
        BY <2>1, <3>1, <4>1, <4>2
      <4> QED
        BY <2>3, <3>2, <4>1, <4>3
    <3> HIDE DEF Named
    <3>5. Named(name) = {i}
      BY <3>3, <3>4
    <3> QED
      BY <3>5, FS_Singleton
  <2>6. ASSUME NEW name \in DOMAIN requiredArtifactFields, NEW i \in Named(name)
        PROVE  \E document \in Documents(bundle.artifacts[i]) :
                  \A group \in requiredArtifactFields[name] :
                      \E field \in group : Provides(document, field)
    <3>1. name \in requiredRunArtifacts /\ name # "stdout" /\ name # "manifests"
      BY SMT DEF requiredArtifactFields, requiredRunArtifacts
    <3> DEFINE a == inputs[p[i]]
    <3>2. i \in DOMAIN inputs /\ bundle.artifacts[i] = a /\ a.name = name
      BY <2>4
    <3>3. p[i] \in DOMAIN inputs
      BY <2>3, <3>2
    <3>4. validateRequiredArtifact(a)
      BY <2>1, <3>1, <3>2, <3>3
    <3>5. Documents(a) \subseteq Nodes
      <4>1. Decodes(a.data)
        BY <3>1, <3>2, <3>4 DEF validateRequiredArtifact
      <4> QED
        BY <2>1, <3>3, <4>1, DocumentsAreNodes
    <3> HIDE DEF a
    <3>6. PICK d \in DOMAIN a.data.docs :
            \A group \in requiredArtifactFields[name] :
                \E field \in group : meaningfulNode(mappingValue(a.data.docs[d], field))
      BY <3>1, <3>2, <3>4 DEF validateRequiredArtifact
    <3> DEFINE document == a.data.docs[d]
    <3>7. document \in Documents(a) /\ document \in Nodes
      BY <3>5, <3>6 DEF Documents
    <3>8. ASSUME NEW field, meaningfulNode(mappingValue(document, field))
          PROVE  Provides(document, field)
      <4> HIDE DEF document
      <4> QED
        BY <3>7, <3>8, MappingProvides
    <3> HIDE DEF Provides
    <3> QED
      BY <3>2, <3>6, <3>7, <3>8
  <2> QED
    BY <2>5, <2>6 DEF ProvenanceIsComplete
<1>2. BundleInv => ProvenanceIsComplete
  BY <1>1 DEF ProvenanceIsComplete
<1> QED
  BY <1>2, BundleInductive, PTL

\* The walk that finds nothing has been everywhere (secretObjectHasValues): a
\* smallest document in which it had missed a node would have a smaller one below it.
LEMMA WalkIsThorough ==
    ASSUME NEW document \in Nodes, ~SecretObjectHasValues(document)
    PROVE  \A node \in Reach(document) : node \in Nodes /\ ~SecretObjectHasValues(node)
<1> DEFINE Clean(d) == \A node \in Reach(d) : node \in Nodes /\ ~SecretObjectHasValues(node)
           Missed == {d \in Nodes : ~SecretObjectHasValues(d) /\ ~Clean(d)}
           T == {Cardinality(Reach(d)) : d \in Missed}
<1>1. SUFFICES ASSUME Missed # {} PROVE FALSE
  OBVIOUS
<1>2. T \subseteq Nat /\ T # {}
  <2>1. \A d \in Nodes : Cardinality(Reach(d)) \in Nat
    BY BundleAssumption, FS_CardinalityType
  <2> HIDE DEF Clean
  <2> QED
    BY <1>1, <2>1
<1>3. PICK m \in T : \A k \in T : m <= k
  <2> HIDE DEF T
  <2> QED
    BY <1>2, LeastNatural
<1>4. PICK d \in Missed : m = Cardinality(Reach(d))
  BY <1>3
<1>5. /\ d \in Nodes /\ ~SecretObjectHasValues(d) /\ ~Clean(d)
      /\ IsFiniteSet(Reach(d))
      /\ Reach(d) = {d} \cup UNION {Reach(d.content[i]) : i \in DOMAIN d.content}
  BY <1>4, BundleAssumption
<1>6. ASSUME NEW i \in DOMAIN d.content PROVE Clean(d.content[i])
  <2> DEFINE c == d.content[i]
  <2>1. c \in Nodes /\ ~SecretObjectHasValues(c) /\ d \notin Reach(c)
    BY <1>5, BundleAssumption
  <2>2. Reach(c) \subseteq Reach(d) /\ d \in Reach(d)
    BY <1>5
  <2> HIDE DEF c
  <2>3. /\ Cardinality(Reach(c)) <= Cardinality(Reach(d))
        /\ Cardinality(Reach(c)) # Cardinality(Reach(d))
    BY <1>5, <2>1, <2>2, FS_Subset
  <2>4. Cardinality(Reach(c)) \in Nat /\ Cardinality(Reach(d)) \in Nat
    BY <1>5, <2>1, BundleAssumption, FS_CardinalityType
  <2>5. ~(m <= Cardinality(Reach(c)))
    BY <1>4, <2>3, <2>4, SMT
  <2>6. c \notin Missed
    BY <1>3, <2>5
  <2> QED
    BY <2>1, <2>6 DEF c
<1>7. Clean(d)
  BY <1>5, <1>6
<1> QED
  BY <1>5, <1>7

\* What is given for a key, if anything is, has a first.
LEMMA FirstIsGiven ==
    ASSUME NEW node \in Nodes, node.k = "mapping", NEW key, Given(node, key) # {}
    PROVE  mappingValue(node, key) \in Given(node, key)
<1> DEFINE entries == {i \in DOMAIN node.content : i % 2 = 1 /\ node.content[i].v = key}
           first == CHOOSE i \in entries : \A j \in entries : i <= j
<1>1. entries \subseteq Nat /\ entries # {}
  <2>1. PICK value : value \in Given(node, key)
    OBVIOUS
  <2>2. \E e \in entries : TRUE
    BY <2>1 DEF Given
  <2>3. entries \subseteq Nat
    BY BundleAssumption
  <2> QED
    BY <2>2, <2>3
<1>2. \E i \in entries : \A j \in entries : i <= j
  <2> HIDE DEF entries
  <2> QED
    BY <1>1, LeastNatural
<1>3. first \in entries
  <2> HIDE DEF entries
  <2> QED
    BY <1>2
<1>4. mappingValue(node, key) = node.content[first + 1]
  BY <1>1 DEF mappingValue
<1> QED
  BY <1>3, <1>4 DEF Given

\* The walk recognises a Secret that is spelled out.
LEMMA SpelledIsSecret ==
    ASSUME NEW node \in Nodes, SpelledSecret(node)
    PROVE  isSecret(node)
<1>1. node.k = "mapping" /\ mappingValue(node, "kind") \in Given(node, "kind")
  BY FirstIsGiven DEF SpelledSecret
<1>2. PICK field \in {"data", "stringData"} :
        /\ Given(node, field) # {}
        /\ \A value \in Given(node, field) : meaningfulNode(value)
  BY DEF SpelledSecret
<1>3. mappingValue(node, field) \in Given(node, field)
  BY <1>1, <1>2, FirstIsGiven
<1> QED
  BY <1>1, <1>2, <1>3 DEF SpelledSecret, isSecret

\* Bundles are complete and hold no Secret that is spelled out with values, at any
\* depth of any document and behind any alias (validateArtifact).
THEOREM BundleComplete == BundleSpec => []BundleIsComplete
<1>1. ASSUME BundleInv, bundle.k = "bundle", NEW i \in DOMAIN bundle.artifacts,
             bundle.artifacts[i].media = "structured",
             NEW document \in Documents(bundle.artifacts[i]), NEW node \in Reach(document),
             NEW below \in Reach(IF node.k = "alias" THEN node.alias ELSE node)
      PROVE  ~SpelledSecret(below)
  <2>1. PICK p \in Bijection(DOMAIN inputs, DOMAIN inputs) :
            bundle.artifacts = [j \in DOMAIN inputs |-> inputs[p[j]]]
    BY <1>1, BundleHolds
  <2>2. p \in [DOMAIN inputs -> DOMAIN inputs]
    BY <2>1, Rearranges
  <2>3. i \in DOMAIN inputs /\ bundle.artifacts[i] = inputs[p[i]]
    BY <1>1, <2>1
  <2>4. p[i] \in DOMAIN inputs
    BY <2>2, <2>3
  <2>5. validateArtifact(inputs[p[i]]) /\ inputs \in InputLists
    BY <1>1, <2>4, BundleHolds
  <2>6. /\ Decodes(inputs[p[i]].data)
        /\ \A d \in Documents(inputs[p[i]]) : ~SecretObjectHasValues(d)
    BY <1>1, <2>3, <2>5 DEF validateArtifact, isStructuredMediaType, Documents
  <2>7. document \in Nodes /\ ~SecretObjectHasValues(document)
    BY <1>1, <2>3, <2>4, <2>5, <2>6, DocumentsAreNodes
  <2>8. node.k = "alias" => node.alias \in Reach(document)
    <3>1. PICK d \in DOMAIN inputs[p[i]].data.docs : document = inputs[p[i]].data.docs[d]
      BY <1>1, <2>3 DEF Documents
    <3> QED
      BY <1>1, <2>4, <2>5, <2>6, <3>1, BundleAssumption DEF Decodes
  <2> DEFINE top == IF node.k = "alias" THEN node.alias ELSE node
  <2>9. top \in Reach(document) /\ below \in Reach(top)
    BY <1>1, <2>8
  <2> HIDE DEF top
  <2>10. top \in Nodes /\ ~SecretObjectHasValues(top)
    BY <2>7, <2>9, WalkIsThorough
  <2>11. below \in Nodes /\ ~SecretObjectHasValues(below)
    BY <2>9, <2>10, WalkIsThorough
  <2> QED
    BY <2>11, BundleAssumption, SpelledIsSecret
<1>2. BundleInv /\ ProvenanceIsComplete => BundleIsComplete
  BY <1>1 DEF BundleIsComplete
<1> QED
  BY <1>2, BundleInductive, ProvenanceHeld, PTL
==========================================================================

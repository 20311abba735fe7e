------------------------- MODULE LifecycleService -------------------------
\* internal/lifecycle/service.go for several callers who use one name, with
\* their calls under way at once.  The service keeps no state: every operation
\* reads and writes the root object at the API server, which the controller
\* (module Oubliette) marks, forgets and removes meanwhile.
EXTENDS Integers

CONSTANTS
    Callers,    \* the callers; each has at most one call under way
    Owner,      \* the identity that each caller has authenticated as
    Seconds,    \* the lifetimes that they ask for
    HalfRange,  \* the range of a time.Duration: -HalfRange .. HalfRange - 1
    Second, MinTTL, MaxTTL,  \* in units of time.Duration
    MaxNow,     \* bound on the clock
    MaxUid,     \* bound on the incarnations of the name
    MaxFaults   \* bound on the calls to the API server that fail

ASSUME ServiceAssumption ==
    /\ MaxNow \in Nat /\ MaxUid \in Nat /\ MaxFaults \in Nat
    /\ HalfRange \in Nat \ {0} /\ Second \in Nat \ {0}
    /\ MinTTL \in Nat /\ MaxTTL \in Nat
    /\ Seconds \subseteq Int

VARIABLES
    now,     \* the clock
    object,  \* the root object of the name; uid 0 when there is none
    uids,    \* the incarnations so far
    calls,   \* the call of each caller
    failed   \* the calls to the API server that have failed

serviceVars == <<now, object, uids, calls, failed>>

Owners == {Owner[c] : c \in Callers}

NoObject ==
    [uid |-> 0, owner |-> "", expiry |-> 0,
     finalizer |-> FALSE, deleting |-> FALSE, forgotten |-> FALSE]

Objects ==
    [uid : Nat, owner : Owners \cup {""}, expiry : Int,
     finalizer : BOOLEAN, deleting : BOOLEAN, forgotten : BOOLEAN]

\* at: the call's next request to the API server, or "idle", or "answered" with
\* a view; copy: the object as read, to be written or shown; fresh: the copy has
\* the resourceVersion of the server.
Idle == [at |-> "idle", copy |-> NoObject, fresh |-> FALSE]

Calls ==
    [at : {"idle", "answered", "create", "taken", "get", "renew", "update", "read", "delete"},
     copy : Objects, fresh : BOOLEAN]

--------------------------------------------------------------------------
\* A product of int64 values wraps around.
Wrap(n) == ((n + HalfRange) % (2 * HalfRange)) - HalfRange

Lifetime(seconds) == Wrap(seconds * Second)

validateTTL(seconds) == MinTTL <= Lifetime(seconds) /\ Lifetime(seconds) <= MaxTTL

\* Mutation: the lifetime is added without the conversion that was validated.
Candidate_Raw(seconds) == now + seconds * Second

Candidate(seconds) == now + Lifetime(seconds)

\* Mutation: every object is the caller's.
ownedBy_Any(o, c) == o.uid # 0

ownedBy(o, c) == o.owner = Owner[c]

--------------------------------------------------------------------------
\* The API server.  A write makes every other copy stale.

\* The call of c goes on as call; the object does not change.
Continue(c, call) ==
    /\ calls' = [calls EXCEPT ![c] = call]
    /\ UNCHANGED <<now, object, uids, failed>>

\* The object becomes o, and copies of what it was are stale.
Becomes(o, updated) ==
    /\ object' = o
    /\ calls' = IF o = object THEN updated
                ELSE [c \in Callers |-> [updated[c] EXCEPT !.fresh = FALSE]]

Writes(c, o, call) ==
    Becomes(o, [calls EXCEPT ![c] = call]) /\ UNCHANGED <<now, failed>>

Shown(view) == [Idle EXCEPT !.at = "answered", !.copy = view]

Shows(c, view) == Continue(c, Shown(view))

Error(c) == Continue(c, Idle)

\* A call begins at its first request to the API server, at.
Begins(c, at, copy) ==
    /\ calls[c].at = "idle"
    /\ Continue(c, [Idle EXCEPT !.at = at, !.copy = copy])

\* The caller has taken the answer.
Ends(c) == calls[c].at = "answered" /\ Continue(c, Idle)

--------------------------------------------------------------------------
\* The operations

Create(c) ==
    \E seconds \in Seconds :
        /\ validateTTL(seconds)
        /\ Begins(c, "create", [NoObject EXCEPT !.owner = Owner[c], !.expiry = Candidate(seconds)])

CreateWrites(c) ==
    /\ calls[c].at = "create"
    /\ IF object.uid # 0
       THEN Continue(c, [calls[c] EXCEPT !.at = "taken"])
       ELSE /\ uids < MaxUid
            /\ uids' = uids + 1
            /\ LET o == [calls[c].copy EXCEPT !.uid = uids + 1] IN Writes(c, o, Shown(o))

\* The name is taken: by the caller's own object, or by another's.  One of the
\* caller's own with another tier, which the service does not make, is an error too.
CreateReads(c) ==
    /\ calls[c].at = "taken"
    /\ \/ object.uid # 0 /\ ownedBy(object, c) /\ Shows(c, object)
       \/ Error(c)

Get(c) == Begins(c, "get", NoObject)

\* Get returns one object, List those of a list, if they are the caller's own.
GetReads(c) ==
    /\ calls[c].at = "get"
    /\ IF object.uid # 0 /\ ownedBy(object, c) THEN Shows(c, object) ELSE Error(c)

Renew(c) == (\E seconds \in Seconds : validateTTL(seconds)) /\ Begins(c, "renew", NoObject)

RenewReads(c) ==
    /\ calls[c].at = "renew"
    /\ IF object.uid = 0 \/ ~ownedBy(object, c) \/ object.forgotten THEN Error(c)
       ELSE \E seconds \in Seconds :
            /\ validateTTL(seconds)
            /\ IF Candidate(seconds) > object.expiry
               THEN Continue(c, [calls[c] EXCEPT !.at = "update", !.fresh = TRUE,
                                    !.copy = [object EXCEPT !.expiry = Candidate(seconds)]])
               ELSE Shows(c, object)

\* Mutation: the update takes effect whatever the version.
RenewWrites_Forced(c) ==
    /\ calls[c].at = "update"
    /\ IF object.uid # 0
       THEN Writes(c, calls[c].copy, Shown(calls[c].copy)) /\ UNCHANGED uids
       ELSE Error(c)

RenewWrites(c) ==
    /\ calls[c].at = "update"
    /\ IF calls[c].fresh
       THEN Writes(c, calls[c].copy, Shown(calls[c].copy)) /\ UNCHANGED uids
       ELSE Error(c)

Delete(c) == Begins(c, "read", NoObject)

DeleteReads(c) ==
    /\ calls[c].at = "read"
    /\ IF object.uid # 0 /\ ownedBy(object, c)
       THEN Continue(c, [calls[c] EXCEPT !.at = "delete", !.copy = object])
       ELSE Error(c)

\* Whatever has the name is marked, or removed if no finalizer holds it.
DeleteWrites(c) ==
    /\ calls[c].at = "delete"
    /\ UNCHANGED uids
    /\ Writes(c, IF object.uid # 0 /\ object.finalizer
                 THEN [object EXCEPT !.deleting = TRUE] ELSE NoObject,
              Idle)

\* A request to the API server fails and the call returns its error.  A create may
\* have taken effect all the same; an update or a delete that has is RenewWrites or
\* DeleteWrites, with an answer nobody reads.
CallFails(c) ==
    /\ calls[c].at \notin {"idle", "answered"} /\ failed < MaxFaults
    /\ failed' = failed + 1
    /\ calls' = [calls EXCEPT ![c] = Idle]
    /\ UNCHANGED <<now, object, uids>>

AnswerLost(c) ==
    /\ calls[c].at = "create" /\ object.uid = 0 /\ uids < MaxUid /\ failed < MaxFaults
    /\ failed' = failed + 1
    /\ uids' = uids + 1
    /\ Becomes([calls[c].copy EXCEPT !.uid = uids + 1], [calls EXCEPT ![c] = Idle])
    /\ UNCHANGED now

--------------------------------------------------------------------------
\* The controller and the clock

\* The controller adds its finalizer, leaves a tombstone when the lease has run out,
\* deletes the tombstone, or takes its finalizer from a deleted object.
Controller ==
    /\ object.uid # 0
    /\ \E o \in {[object EXCEPT !.finalizer = TRUE],
                 IF object.expiry <= now
                 THEN [object EXCEPT !.forgotten = TRUE] ELSE object,
                 IF object.forgotten /\ object.finalizer
                 THEN [object EXCEPT !.deleting = TRUE] ELSE object,
                 IF object.deleting \/ (object.forgotten /\ ~object.finalizer)
                 THEN NoObject ELSE object} :
        o # object /\ Becomes(o, calls)
    /\ UNCHANGED <<now, uids, failed>>

Tick == now < MaxNow /\ now' = now + 1 /\ UNCHANGED <<object, uids, calls, failed>>

ServiceInit ==
    /\ now = 0 /\ uids = 0 /\ failed = 0
    /\ object = NoObject
    /\ calls = [c \in Callers |-> Idle]

Operation(c) ==
    \/ Create(c) \/ CreateWrites(c) \/ CreateReads(c)
    \/ Get(c) \/ GetReads(c)
    \/ Renew(c) \/ RenewReads(c) \/ RenewWrites(c)
    \/ Delete(c) \/ DeleteReads(c) \/ DeleteWrites(c)
    \/ CallFails(c) \/ AnswerLost(c) \/ Ends(c)

ServiceNext == Controller \/ Tick \/ \E c \in Callers : Operation(c)

ServiceSpec == ServiceInit /\ [][ServiceNext]_serviceVars

--------------------------------------------------------------------------
\* A view that a call returns is of an object of the caller's own: also when the
\* name is freed and taken by another owner between two requests of one call (the
\* checks of ownedBy in Create, Get, List and Renew).
AnswersAreOwn ==
    \A c \in Callers : calls[c].at = "answered" => calls[c].copy.owner = Owner[c]

\* No call but a Delete changes an object of another owner, whatever happened to
\* the name since the call read it, and the caller's own it changes only by moving
\* the expiry forward (Create, Get, List, Renew).
OthersUntouched ==
    [][\A c \in Callers :
        (/\ calls[c].at # "delete" /\ calls'[c].at # calls[c].at
         /\ object.uid # 0 /\ object' # object) =>
            /\ object.owner = Owner[c]
            /\ object'.expiry > object.expiry
            /\ object' = [object EXCEPT !.expiry = object'.expiry]]_serviceVars

\* The stated intent for Delete as well: it changes no object but its caller's.
DeletesOwn ==
    [][\A c \in Callers :
        (calls[c].at = "delete" /\ calls'[c].at # "delete" /\ object' # object) =>
            object.owner = Owner[c]]_serviceVars

\* No lease reaches further than MaxTTL from now, whatever lifetime a caller asks
\* for: one so large that its conversion wraps around is judged and used alike
\* (validateTTL, Create, Renew).
LeaseWithinLimits == object.expiry <= now + MaxTTL

===========================================================================

-------------------------- MODULE MetricsGateway ---------------------------
(***************************************************************************)
(* The metrics gateway and its credential issuer, for one Oubliette        *)
(* (internal/metricsgateway, internal/metricsaccess): concurrent requests  *)
(* of several subjects, each charged to its subject's budget.  A handler   *)
(* is split where it can wait or reads the clock: between reading the      *)
(* Oubliette, judging its expiry, reading the clock for the budget, taking *)
(* the mutex, reading the request and hearing from Prometheus.             *)
(***************************************************************************)
EXTENDS Naturals, FiniteSets

CONSTANTS
    Subjects,             \* each with a budget of its own for this Oubliette
    Handlers,             \* handlers that may run at once
    MaxTime,              \* bound on the clock
    ExpiresAt,            \* spec.expiresAt
    Window,               \* the minute of the rate budget
    MaxRequestsPerMinute, MaxConcurrency,
    TTLs,                 \* credential lifetimes asked for; 0 for none
    DefaultTTL, LongestTTL

ASSUME GatewayAssumption ==
    /\ MaxTime \in Nat \ {0} /\ ExpiresAt \in Nat
    /\ Window \in Nat \ {0}
    /\ MaxRequestsPerMinute \in Nat \ {0} /\ MaxConcurrency \in Nat \ {0}
    /\ TTLs \subseteq Nat /\ DefaultTTL \in Nat /\ LongestTTL \in Nat
    /\ IsFiniteSet(Handlers)

VARIABLES
    clock,
    metrics,      \* the status offers "none", or those of a profile generation:
                  \* the gateway's "own" or an "other"
    ended,        \* deletion has begun or Forgotten is set
    tokens,       \* credentials issued: the subject and when it runs out
    pc,           \* where each handler stands
    subject,      \* whose request it handles
    readAt,       \* the time acquire read before it took the mutex
    usage,        \* the budget of each subject, or Unused
    boot,         \* when this gateway process started
    served        \* history: requests it admitted, by subject

gatewayVars == <<clock, metrics, ended, tokens, pc, subject, readAt, usage, boot, served>>

\* No entry in the map; the clock starts at 1.
Unused == [inFlight |-> 0, window |-> 0, requests |-> 0]

GatewayInit ==
    /\ clock = 1 /\ metrics = "none" /\ ended = FALSE
    /\ tokens = {}
    /\ pc = [r \in Handlers |-> "idle"]
    /\ subject \in [Handlers -> Subjects]
    /\ readAt = [r \in Handlers |-> 0]
    /\ usage = [s \in Subjects |-> Unused]
    /\ boot = 1
    /\ served = [s \in Subjects |-> 0]

---------------------------------------------------------------------------
(* The Oubliette and the clock.                                            *)

\* The controller sets or clears MetricsReady with the endpoint, the trust domain
\* and the generation of the profile; not any more when the Oubliette has ended.
ReportMetrics ==
    /\ ~ended
    /\ metrics' \in {"none", "own", "other"} \ {metrics}
    /\ UNCHANGED <<clock, ended, tokens, pc, subject, readAt, usage, boot, served>>

Terminate ==
    /\ ~ended
    /\ ended' = TRUE
    /\ UNCHANGED <<clock, metrics, tokens, pc, subject, readAt, usage, boot, served>>

Elapse ==
    /\ clock < MaxTime
    /\ clock' = clock + 1
    /\ tokens' = {token \in tokens : clock' < token[2]} \* the others are of no use
    /\ UNCHANGED <<metrics, ended, pc, subject, readAt, usage, boot, served>>

---------------------------------------------------------------------------

\* Mutation of Signs: any lifetime asked for is signed.
Signs_AnyTTL(ttl) == TRUE

\* TokenCodec.Issue refuses a lifetime above the longest.
Signs(ttl) == ttl <= LongestTTL

\* IssueTo, behind the issuer's endpoint: for an Oubliette that is live and has
\* metrics, of whatever generation.
IssueTo ==
    /\ ~ended /\ metrics # "none" /\ clock < ExpiresAt
    /\ \E s \in Subjects, asked \in TTLs :
          LET ttl == IF asked = 0 THEN DefaultTTL ELSE asked
          IN  Signs(ttl) /\ tokens' = tokens \cup {<<s, clock + ttl>>}
    /\ UNCHANGED <<clock, metrics, ended, pc, subject, readAt, usage, boot, served>>

\* TokenCodec.Validate, of a credential that Issue has signed: it has not run out.
Validate(token) == clock < token[2]

\* Validate the credential and read the Oubliette, which must not have ended and
\* must have metrics of this gateway's generation.  A refusal changes nothing.
Resolve(r) ==
    /\ pc[r] = "idle"
    /\ \E token \in tokens :
          /\ Validate(token)
          /\ subject' = [subject EXCEPT ![r] = token[1]]
    /\ ~ended /\ metrics = "own"
    /\ pc' = [pc EXCEPT ![r] = "judge"]
    /\ UNCHANGED <<clock, metrics, ended, tokens, readAt, usage, boot, served>>

\* The expiry that was read is compared with the clock.
JudgeExpiry(r) ==
    /\ pc[r] = "judge"
    /\ pc' = [pc EXCEPT ![r] = IF clock < ExpiresAt THEN "clock" ELSE "idle"]
    /\ UNCHANGED <<clock, metrics, ended, tokens, subject, readAt, usage, boot, served>>

\* acquire reads the clock again before it asks for the mutex.
ReadClock(r) ==
    /\ pc[r] = "clock"
    /\ pc' = [pc EXCEPT ![r] = "acquire"]
    /\ readAt' = [readAt EXCEPT ![r] = clock]
    /\ UNCHANGED <<clock, metrics, ended, tokens, subject, usage, boot, served>>

\* Mutation of Renewed: any other clock reading begins a new window.
Renewed_AnyOtherTime(u, t) ==
    IF u.window = 0 \/ t # u.window
      THEN [u EXCEPT !.window = t, !.requests = 0]
      ELSE u

\* The budget as acquire finds it under the mutex: made on first use, renewed
\* when the minute is over.  The clock reading may be older than the window.
Renewed(u, t) ==
    IF u.window = 0 \/ t >= u.window + Window
      THEN [u EXCEPT !.window = t, !.requests = 0]
      ELSE u

Done(r) == pc' = [pc EXCEPT ![r] = "idle"] /\ readAt' = [readAt EXCEPT ![r] = 0]

acquire(r) ==
    LET s == subject[r]
        u == Renewed(usage[s], readAt[r])
    IN  /\ pc[r] = "acquire"
        /\ IF u.requests < MaxRequestsPerMinute /\ u.inFlight < MaxConcurrency
             THEN /\ usage' = [usage EXCEPT ![s] = [u EXCEPT !.requests = @ + 1,
                                                             !.inFlight = @ + 1]]
                  /\ pc' = [pc EXCEPT ![r] = "serve"] /\ UNCHANGED readAt
                  /\ served' = [served EXCEPT ![s] = @ + 1]
             ELSE /\ usage' = [usage EXCEPT ![s] = u]
                  /\ Done(r)
                  /\ UNCHANGED served
        /\ UNCHANGED <<clock, metrics, ended, tokens, subject, boot>>

\* The handler returns, by whatever path, and its deferred release runs.
Finished(r) ==
    /\ usage' = [usage EXCEPT ![subject[r]].inFlight = @ - 1]
    /\ Done(r)
    /\ UNCHANGED <<clock, metrics, ended, tokens, subject, boot, served>>

\* Mutation of Reject: an early return that skips the release.
Reject_KeepsSlot(r) ==
    /\ pc[r] = "serve"
    /\ Done(r)
    /\ UNCHANGED <<clock, metrics, ended, tokens, subject, usage, boot, served>>

\* Method, form, selectors or budget are not acceptable.
Reject(r) ==
    /\ pc[r] = "serve"
    /\ Finished(r)

Forward(r) ==
    /\ pc[r] = "serve"
    /\ pc' = [pc EXCEPT ![r] = "upstream"]
    /\ UNCHANGED <<clock, metrics, ended, tokens, subject, readAt, usage, boot, served>>

\* Prometheus answers, fails, or exceeds the time, size or sample budget.
Respond(r) ==
    /\ pc[r] = "upstream"
    /\ Finished(r)

\* A new process: budgets live in memory and requests in flight are lost.
Restart ==
    /\ boot < clock
    /\ pc' = [r \in Handlers |-> "idle"]
    /\ usage' = [s \in Subjects |-> Unused]
    /\ served' = [s \in Subjects |-> 0]
    /\ boot' = clock
    /\ readAt' = [r \in Handlers |-> 0]
    /\ UNCHANGED <<clock, metrics, ended, tokens, subject>>

Handle(r) ==
    \/ Resolve(r) \/ JudgeExpiry(r) \/ ReadClock(r)
    \/ acquire(r) \/ Reject(r) \/ Forward(r) \/ Respond(r)

GatewayNext ==
    \/ ReportMetrics \/ Terminate \/ Elapse \/ IssueTo \/ Restart
    \/ \E r \in Handlers : Handle(r)

GatewaySpec == GatewayInit /\ [][GatewayNext]_gatewayVars

---------------------------------------------------------------------------
(* Properties.                                                             *)

Holding(s) == {r \in Handlers : pc[r] \in {"serve", "upstream"} /\ subject[r] = s}

\* The concurrency budget is exact: a subject's inFlight is the number of its
\* requests between acquire and release, and never above MaxConcurrency.  A path
\* that forgot to release would use the budget up for good.
SlotsBalanced ==
    \A s \in Subjects :
        /\ usage[s].inFlight = Cardinality(Holding(s))
        /\ usage[s].inFlight <= MaxConcurrency

\* The rate budget holds in the long run, though requests reach the mutex with
\* clock readings out of order: a process admits at most MaxRequestsPerMinute
\* per subject for every minute it has been up, the current one included.
LongRunRate ==
    \A s \in Subjects :
        served[s] <= MaxRequestsPerMinute * ((clock - boot) \div Window + 1)

\* Types; a credential is never valid beyond the longest lifetime from now.
GatewayTypeOK ==
    /\ clock \in 1..MaxTime /\ boot \in 1..clock /\ ended \in BOOLEAN
    /\ metrics \in {"none", "own", "other"}
    /\ tokens \subseteq Subjects \X (0..(clock + LongestTTL))
    /\ pc \in [Handlers -> {"idle", "judge", "clock", "acquire", "serve", "upstream"}]
    /\ subject \in [Handlers -> Subjects]
    /\ readAt \in [Handlers -> 0..clock]
    /\ usage \in [Subjects -> [inFlight : Nat, window : 0..clock,
                               requests : 0..MaxRequestsPerMinute]]
    /\ served \in [Subjects -> Nat]

===========================================================================

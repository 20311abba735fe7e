------------------------ MODULE MetricsGatewayProofs -----------------------
(* The budgets are kept, for any number of subjects, handlers and restarts. *)
EXTENDS MetricsGateway, FiniteSetTheorems, TLAPS

\* SlotsBalanced with the types its steps rely on.
Shape ==
    /\ clock \in Nat
    /\ tokens \subseteq Subjects \X Nat
    /\ pc \in [Handlers -> {"idle", "judge", "clock", "acquire", "serve", "upstream"}]
    /\ subject \in [Handlers -> Subjects]
    /\ readAt \in [Handlers -> Nat]
    /\ usage \in [Subjects -> [inFlight : Nat, window : Nat, requests : Nat]]

SlotsInv == Shape /\ SlotsBalanced

\* The handlers that hold a slot are finitely many.
LEMMA HoldingFinite == \A s \in Subjects : IsFiniteSet(Holding(s))
BY GatewayAssumption, FS_Subset DEF Holding

\* Taking a slot adds one handler to its subject's, and to nobody else's.
LEMMA TakesSlot ==
    ASSUME Shape, NEW r \in Handlers, pc[r] = "acquire",
           pc' = [pc EXCEPT ![r] = "serve"], UNCHANGED subject
    PROVE  \A s \in Subjects : Cardinality(Holding(s)') =
               IF s = subject[r] THEN Cardinality(Holding(s)) + 1 ELSE Cardinality(Holding(s))
<1> TAKE s \in Subjects
<1>1. CASE s = subject[r]
  <2>1. Holding(s)' = Holding(s) \cup {r} /\ r \notin Holding(s)
    BY <1>1 DEF Holding, Shape
  <2> QED
    BY <1>1, <2>1, HoldingFinite, FS_AddElement, Zenon
<1>2. CASE s # subject[r]
  <2>1. Holding(s)' = Holding(s)
    BY <1>2 DEF Holding, Shape
  <2> QED
    BY <1>2, <2>1
<1> QED
  BY <1>1, <1>2

\* Giving it back removes that handler, which was one of them.
LEMMA GivesSlot ==
    ASSUME Shape, NEW r \in Handlers, pc[r] \in {"serve", "upstream"},
           pc' = [pc EXCEPT ![r] = "idle"], UNCHANGED subject
    PROVE  \A s \in Subjects :
               /\ Cardinality(Holding(s)) \in Nat
               /\ s = subject[r] => Cardinality(Holding(s)) # 0
               /\ Cardinality(Holding(s)') =
                      IF s = subject[r] THEN Cardinality(Holding(s)) - 1
                                        ELSE Cardinality(Holding(s))
<1> TAKE s \in Subjects
<1>0. Cardinality(Holding(s)) \in Nat
  BY HoldingFinite, FS_CardinalityType
<1>1. CASE s = subject[r]
  <2>1. Holding(s)' = Holding(s) \ {r} /\ r \in Holding(s)
    BY <1>1 DEF Holding, Shape
  <2>2. Cardinality(Holding(s)) # 0
    BY <2>1, HoldingFinite, FS_EmptySet
  <2>3. IsFiniteSet(Holding(s))
    BY HoldingFinite
  <2>4. Cardinality(Holding(s) \ {r}) = Cardinality(Holding(s)) - 1
    BY <2>1, <2>3, FS_RemoveElement, Zenon
  <2> QED
    BY <1>0, <1>1, <2>1, <2>2, <2>4
<1>2. CASE s # subject[r]
  <2>1. Holding(s)' = Holding(s)
    BY <1>2 DEF Holding, Shape
  <2> QED
    BY <1>0, <1>2, <2>1
<1> QED
  BY <1>1, <1>2

\* A step that moves no handler into or out of a slot leaves the counts alone.
LEMMA SameSlots ==
    ASSUME \A s \in Subjects : Holding(s)' = Holding(s),
           \A s \in Subjects : usage'[s].inFlight = usage[s].inFlight, SlotsBalanced
    PROVE  SlotsBalanced'
BY DEF SlotsBalanced

\* A gateway that has just started holds nothing.
LEMMA NoSlots ==
    ASSUME \A r \in Handlers : pc[r] = "idle", \A s \in Subjects : usage[s] = Unused
    PROVE  SlotsBalanced
<1>1. \A s \in Subjects : Holding(s) = {}
  BY DEF Holding
<1> QED
  BY <1>1, FS_EmptySet, GatewayAssumption DEF SlotsBalanced, Unused

\* A handler that returns keeps the balance.
LEMMA FinishedStep ==
    ASSUME SlotsInv, NEW r \in Handlers, pc[r] \in {"serve", "upstream"}, Finished(r)
    PROVE  SlotsInv'
<1> DEFINE t == subject[r]
<1>1. \A s \in Subjects :
         /\ Cardinality(Holding(s)) \in Nat
         /\ s = t => Cardinality(Holding(s)) # 0
         /\ Cardinality(Holding(s)') = IF s = t THEN Cardinality(Holding(s)) - 1
                                               ELSE Cardinality(Holding(s))
  BY GivesSlot, Zenon DEF SlotsInv, Finished, Done
<1>2. t \in Subjects /\ usage[t].inFlight \in Nat /\ usage[t].inFlight # 0
  BY <1>1 DEF SlotsInv, Shape, SlotsBalanced
<1>3. usage' = [usage EXCEPT ![t].inFlight = @ - 1]
  BY DEF Finished
<1>4. Shape'
  <2>1. usage[t].inFlight - 1 \in Nat
    BY <1>2
  <2>2. usage' \in [Subjects -> [inFlight : Nat, window : Nat, requests : Nat]]
    BY <1>2, <1>3, <2>1 DEF SlotsInv, Shape
  <2> QED
    BY <2>2 DEF SlotsInv, Shape, Finished, Done
<1>5. SlotsBalanced'
  BY <1>1, <1>2, <1>3, GatewayAssumption DEF SlotsInv, SlotsBalanced, Shape
<1> QED
  BY <1>4, <1>5 DEF SlotsInv

\* acquire keeps the balance, whether it admits the request or not.
LEMMA AcquireStep ==
    ASSUME SlotsInv, NEW r \in Handlers, acquire(r)
    PROVE  SlotsInv'
<1> DEFINE t == subject[r]
           u == Renewed(usage[t], readAt[r])
<1>1. t \in Subjects /\ pc[r] = "acquire" /\ readAt[r] \in Nat
  BY GatewayAssumption DEF SlotsInv, Shape, acquire
<1>2. /\ u \in [inFlight : Nat, window : Nat, requests : Nat]
      /\ u.inFlight = usage[t].inFlight
  BY <1>1, GatewayAssumption, Zenon DEF SlotsInv, Shape, Renewed
<1>3. CASE u.requests < MaxRequestsPerMinute /\ u.inFlight < MaxConcurrency
  <2>1. /\ usage' = [usage EXCEPT ![t] = [u EXCEPT !.requests = @ + 1, !.inFlight = @ + 1]]
        /\ pc' = [pc EXCEPT ![r] = "serve"] /\ UNCHANGED <<subject, readAt>>
        /\ served' = [served EXCEPT ![t] = @ + 1]
        /\ UNCHANGED <<clock, metrics, ended, tokens, boot>>
    BY <1>3 DEF acquire
  <2>2. \A s \in Subjects : Cardinality(Holding(s)') =
            IF s = t THEN Cardinality(Holding(s)) + 1 ELSE Cardinality(Holding(s))
    BY <1>1, <2>1, TakesSlot, Zenon DEF SlotsInv
  <2>3. /\ u.requests + 1 \in Nat /\ u.inFlight + 1 \in Nat
        /\ u.inFlight + 1 <= MaxConcurrency
    BY <1>2, <1>3, GatewayAssumption
  <2> HIDE DEF u
  <2>4. usage'[t].inFlight = u.inFlight + 1
        /\ \A s \in Subjects : s # t => usage'[s] = usage[s]
    BY <1>1, <1>2, <2>1 DEF SlotsInv, Shape
  <2>5. Shape'
    BY <1>1, <1>2, <2>1, <2>3, GatewayAssumption, Zenon DEF SlotsInv, Shape
  <2>6. SlotsBalanced'
    BY <1>1, <1>2, <2>2, <2>3, <2>4 DEF SlotsInv, SlotsBalanced
  <2> QED
    BY <2>5, <2>6 DEF SlotsInv
<1>4. CASE ~(u.requests < MaxRequestsPerMinute /\ u.inFlight < MaxConcurrency)
  <2>1. /\ usage' = [usage EXCEPT ![t] = u] /\ Done(r)
        /\ UNCHANGED <<clock, metrics, ended, tokens, boot, subject, served>>
    BY <1>4 DEF acquire
  <2> HIDE DEF u
  <2>2. Shape'
    BY <1>1, <1>2, <2>1, GatewayAssumption DEF SlotsInv, Shape, Done
  <2>3. \A s \in Subjects : Holding(s)' = Holding(s)
    BY <1>1, <2>1 DEF Holding, Done, SlotsInv, Shape
  <2>4. \A s \in Subjects : usage'[s].inFlight = usage[s].inFlight
    BY <1>1, <1>2, <2>1 DEF SlotsInv, Shape
  <2> QED
    BY <2>2, <2>3, <2>4, SameSlots DEF SlotsInv
<1> QED
  BY <1>3, <1>4

\* The other steps hold on to the slots they find.
LEMMA OtherStep ==
    ASSUME SlotsInv, ReportMetrics \/ Terminate \/ Elapse \/ IssueTo
                     \/ \E r \in Handlers : Resolve(r) \/ JudgeExpiry(r) \/ ReadClock(r) \/ Forward(r)
    PROVE  SlotsInv'
<1>1. Shape'
  <2> USE GatewayAssumption DEF SlotsInv, Shape
  <2>1. CASE ReportMetrics \/ Terminate
    BY <2>1 DEF ReportMetrics, Terminate
  <2>2. CASE Elapse
    BY <2>2 DEF Elapse
  <2>3. CASE IssueTo
    <3>1. PICK s \in Subjects, ttl \in Nat : tokens' = tokens \cup {<<s, clock + ttl>>}
      BY <2>3 DEF IssueTo
    <3> QED
      BY <2>3, <3>1 DEF IssueTo
  <2>4. ASSUME NEW r \in Handlers, Resolve(r) PROVE Shape'
    <3>1. pc' = [pc EXCEPT ![r] = "judge"] /\ UNCHANGED <<clock, tokens, readAt, usage>>
      BY <2>4 DEF Resolve
    <3>2. PICK token \in tokens : subject' = [subject EXCEPT ![r] = token[1]]
      BY <2>4, Zenon DEF Resolve
    <3>3. token[1] \in Subjects
      BY <3>2
    <3> QED
      BY <3>1, <3>2, <3>3
  <2>5. ASSUME NEW r \in Handlers, JudgeExpiry(r) \/ ReadClock(r) \/ Forward(r)
        PROVE  Shape'
    BY <2>5 DEF JudgeExpiry, ReadClock, Forward
  <2> QED
    BY <2>1, <2>2, <2>3, <2>4, <2>5
<1>2. \A s \in Subjects : Holding(s)' = Holding(s)
  BY DEF SlotsInv, Shape, Holding, ReportMetrics, Terminate, Elapse, IssueTo, Resolve, JudgeExpiry, ReadClock, Forward
<1>3. usage' = usage
  BY DEF ReportMetrics, Terminate, Elapse, IssueTo, Resolve, JudgeExpiry, ReadClock, Forward
<1> QED
  BY <1>1, <1>2, <1>3, SameSlots DEF SlotsInv

\* Types and balance hold in every reachable state of the gateway.
THEOREM SlotsInductive == GatewaySpec => []SlotsInv
<1>1. GatewayInit => SlotsInv
  <2> SUFFICES ASSUME GatewayInit PROVE SlotsInv
    OBVIOUS
  <2>1. Shape
    BY GatewayAssumption DEF GatewayInit, Shape, Unused
  <2>2. SlotsBalanced
    BY NoSlots DEF GatewayInit
  <2> QED
    BY <2>1, <2>2 DEF SlotsInv
<1>2. SlotsInv /\ [GatewayNext]_gatewayVars => SlotsInv'
  <2> SUFFICES ASSUME SlotsInv, [GatewayNext]_gatewayVars PROVE SlotsInv'
    OBVIOUS
  <2>1. ASSUME NEW r \in Handlers, Handle(r) PROVE SlotsInv'
    <3>1. CASE Reject(r) \/ Respond(r)
      BY <3>1, FinishedStep DEF Reject, Respond
    <3> QED
      BY <2>1, <3>1, AcquireStep, OtherStep DEF Handle
  <2>2. CASE Restart
    <3>1. Shape'
      BY <2>2, GatewayAssumption DEF Restart, SlotsInv, Shape, Unused
    <3>2. (\A r \in Handlers : pc'[r] = "idle") /\ \A s \in Subjects : usage'[s] = Unused
      BY <2>2 DEF Restart
    <3>3. \A s \in Subjects : Holding(s)' = {}
      BY <3>2 DEF Holding
    <3>4. SlotsBalanced'
      BY <3>2, <3>3, FS_EmptySet, GatewayAssumption DEF SlotsBalanced, Unused
    <3> QED
      BY <3>1, <3>4 DEF SlotsInv
  <2>3. CASE UNCHANGED gatewayVars
    <3>1. Shape'
      BY <2>3 DEF gatewayVars, SlotsInv, Shape
    <3>2. \A s \in Subjects : Holding(s)' = Holding(s)
      BY <2>3 DEF gatewayVars, Holding
    <3> QED
      BY <2>3, <3>1, <3>2, SameSlots DEF gatewayVars, SlotsInv
  <2> QED
    BY <2>1, <2>2, <2>3, OtherStep DEF GatewayNext
<1> QED
  BY <1>1, <1>2, PTL DEF GatewaySpec

\* inFlight counts the requests between acquire and release and stays within
\* MaxConcurrency, in every reachable state.
THEOREM SlotsExact == GatewaySpec => []SlotsBalanced
<1>1. SlotsInv => SlotsBalanced
  BY DEF SlotsInv
<1> QED
  BY <1>1, SlotsInductive, PTL

---------------------------------------------------------------------------
\* Multiplication by a budget is monotone.
LEMMA MulMono ==
    ASSUME NEW m \in Nat, NEW a \in Int, NEW b \in Int, a <= b
    PROVE  m * a <= m * b
<1>1. PICK d \in Nat : b = a + d
  <2>1. b - a \in Nat /\ b = a + (b - a)
    OBVIOUS
  <2> QED
    BY <2>1
<1>2. m * b = m * a + m * d
  BY <1>1
<1>3. m * d \in Nat /\ m * a \in Int
  BY <1>1
<1> QED
  BY <1>2, <1>3

\* What the quotient of the windows begun is.
LEMMA DivBounds ==
    ASSUME NEW a \in Nat, NEW w \in Nat \ {0}
    PROVE  a \div w \in Nat /\ w * (a \div w) <= a /\ a < w * (a \div w) + w
  OBVIOUS

\* Each full window adds one.
LEMMA DivStep ==
    ASSUME NEW a \in Nat, NEW b \in Nat, NEW w \in Nat \ {0}, a + w <= b
    PROVE  a \div w + 1 <= b \div w
<1> DEFINE p == a \div w
           q == b \div w
<1>1. p \in Nat /\ q \in Nat /\ w * p <= a /\ b < w * q + w
  BY DivBounds
<1> HIDE DEF p, q
<1>2. CASE q <= p
  <2>1. w * q <= w * p /\ w * p \in Int /\ w * q \in Int
    BY <1>1, <1>2, MulMono
  <2> QED
    BY <1>1, <2>1
<1>3. CASE p + 1 <= q
  BY <1>3 DEF p, q
<1> QED
  BY <1>1, <1>2, <1>3

\* Time only adds windows.
LEMMA DivMono ==
    ASSUME NEW a \in Nat, NEW b \in Nat, NEW w \in Nat \ {0}, a <= b
    PROVE  a \div w <= b \div w
<1> DEFINE p == a \div w
           q == b \div w
<1>1. p \in Nat /\ q \in Nat /\ w * p <= a /\ b < w * q + w
  BY DivBounds
<1> HIDE DEF p, q
<1>2. CASE q + 1 <= p
  <2>1. w * (q + 1) <= w * p /\ w * p \in Int /\ w * q \in Int
    BY <1>1, <1>2, MulMono
  <2>2. w * (q + 1) = w * q + w
    BY <1>1
  <2> QED
    BY <1>1, <2>1, <2>2
<1>3. CASE p <= q
  BY <1>3 DEF p, q
<1> QED
  BY <1>1, <1>2, <1>3

\* The budget u of a subject of whose requests n were admitted since b: no more
\* than a full budget for each window before u's own, and u's requests in that.
Rated(u, n, b, t) ==
    IF u.window = 0 THEN n = 0
    ELSE /\ b <= u.window /\ u.window <= t
         /\ u.requests <= MaxRequestsPerMinute
         /\ n <= MaxRequestsPerMinute * ((u.window - b) \div Window) + u.requests

\* The strengthening of LongRunRate; a reading on its way to the mutex may be old,
\* but not older than the process.
RateInv ==
    /\ boot \in Nat \ {0} /\ boot <= clock
    /\ served \in [Subjects -> Nat]
    /\ \A r \in Handlers : pc[r] = "acquire" => boot <= readAt[r] /\ readAt[r] <= clock
    /\ \A s \in Subjects : Rated(usage[s], served[s], boot, clock)

\* A budget stays rated when acquire renews it.
LEMMA RenewedRated ==
    ASSUME NEW u \in [inFlight : Nat, window : Nat, requests : Nat], NEW n \in Nat,
           NEW b \in Nat \ {0}, NEW t \in Nat, NEW c \in Nat, b <= t, t <= c,
           Rated(u, n, b, c)
    PROVE  LET v == Renewed(u, t) IN v.window # 0 /\ Rated(v, n, b, c)
<1> DEFINE v == Renewed(u, t)
           m == MaxRequestsPerMinute
<1>0. m \in Nat /\ Window \in Nat \ {0}
  BY GatewayAssumption
<1>1. CASE u.window = 0 \/ t >= u.window + Window
  <2>1. v.window = t /\ v.requests = 0
    BY <1>1 DEF Renewed
  <2>2. t - b \in Nat
    OBVIOUS
  <2>3. (t - b) \div Window \in Nat
    BY <1>0, <2>2, DivBounds
  <2> DEFINE k == (t - b) \div Window
  <2> HIDE DEF k
  <2>4. m * k \in Nat
    BY <1>0, <2>3 DEF k
  <2>5. n <= m * k
    <3>1. CASE u.window = 0
      BY <2>4, <3>1 DEF Rated
    <3>2. CASE u.window # 0 /\ t >= u.window + Window
      <4>1. u.window - b \in Nat /\ (u.window - b) + Window <= t - b
        BY <1>0, <3>2 DEF Rated
      <4> DEFINE j == (u.window - b) \div Window
      <4>2. j \in Nat /\ j + 1 <= k
        BY <1>0, <2>2, <4>1, DivBounds, DivStep DEF k
      <4>3. n <= m * j + u.requests /\ u.requests <= m
        BY <3>2 DEF Rated
      <4> HIDE DEF j
      <4>4. m * (j + 1) <= m * k
        BY <1>0, <2>3, <4>2, MulMono DEF k
      <4>5. m * (j + 1) = m * j + m /\ m * j \in Nat
        BY <1>0, <4>2
      <4> QED
        BY <1>0, <2>4, <4>3, <4>4, <4>5
    <3> QED
      BY <1>1, <3>1, <3>2
  <2>6. v.requests <= m /\ n <= m * k + v.requests
    BY <1>0, <2>1, <2>4, <2>5
  <2> HIDE DEF v
  <2> QED
    BY <2>1, <2>6 DEF Rated, v, k
<1>2. CASE ~(u.window = 0 \/ t >= u.window + Window)
  BY <1>2 DEF Renewed
<1> QED
  BY <1>1, <1>2

\* acquire keeps the rate, whether it admits the request or not.
LEMMA RateAcquire ==
    ASSUME SlotsInv, RateInv, NEW r \in Handlers, acquire(r)
    PROVE  RateInv'
<1> DEFINE t == subject[r]
           u == Renewed(usage[t], readAt[r])
<1>1. /\ t \in Subjects /\ pc[r] = "acquire" /\ readAt[r] \in Nat /\ clock \in Nat
      /\ usage[t] \in [inFlight : Nat, window : Nat, requests : Nat]
  BY DEF SlotsInv, Shape, acquire
<1>2. /\ boot \in Nat \ {0} /\ served[t] \in Nat /\ boot <= readAt[r] /\ readAt[r] <= clock
      /\ Rated(usage[t], served[t], boot, clock)
  BY <1>1 DEF RateInv
<1>3. u.window # 0 /\ Rated(u, served[t], boot, clock)
  BY <1>1, <1>2, RenewedRated
<1>4. u \in [inFlight : Nat, window : Nat, requests : Nat]
  BY <1>1, Zenon DEF Renewed
<1>5. UNCHANGED <<clock, boot>>
  BY DEF acquire
<1>6. CASE u.requests < MaxRequestsPerMinute /\ u.inFlight < MaxConcurrency
  <2> DEFINE v == [u EXCEPT !.requests = @ + 1, !.inFlight = @ + 1]
  <2>1. /\ usage' = [usage EXCEPT ![t] = v] /\ pc' = [pc EXCEPT ![r] = "serve"]
        /\ readAt' = readAt /\ served' = [served EXCEPT ![t] = @ + 1]
    BY <1>6 DEF acquire
  <2> HIDE DEF u
  <2>2. v.window = u.window /\ v.requests = u.requests + 1
    BY <1>4
  <2> HIDE DEF v
  <2>3. Rated(v, served[t] + 1, boot, clock)
    <3> DEFINE j == MaxRequestsPerMinute * ((u.window - boot) \div Window)
    <3>1. /\ boot <= u.window /\ u.window <= clock
          /\ u.requests <= MaxRequestsPerMinute /\ served[t] <= j + u.requests
      BY <1>3 DEF Rated
    <3>2. u.window \in Nat /\ u.requests \in Nat
      BY <1>4
    <3>3. u.window - boot \in Nat
      BY <1>2, <3>1, <3>2
    <3>4. (u.window - boot) \div Window \in Nat
      BY <3>3, GatewayAssumption, DivBounds
    <3>5. j \in Nat
      BY <3>4, GatewayAssumption
    <3> HIDE DEF j
    <3>6. served[t] + 1 <= j + v.requests /\ v.requests <= MaxRequestsPerMinute
      BY <1>2, <1>6, <2>2, <3>1, <3>2, <3>5, GatewayAssumption
    <3> QED
      BY <1>3, <2>2, <3>1, <3>6 DEF Rated, j
  <2>4. served' \in [Subjects -> Nat]
    BY <1>1, <1>2, <2>1 DEF RateInv
  <2>5. ASSUME NEW s \in Subjects PROVE Rated(usage'[s], served'[s], boot, clock)
    <3>1. CASE s = t
      <4>1. usage'[s] = v /\ served'[s] = served[t] + 1
        BY <1>1, <2>1, <3>1 DEF SlotsInv, Shape, RateInv
      <4> QED
        BY <2>3, <4>1
    <3>2. CASE s # t
      <4>1. usage'[s] = usage[s] /\ served'[s] = served[s]
        BY <2>1, <3>2 DEF SlotsInv, Shape, RateInv
      <4> QED
        BY <4>1 DEF RateInv
    <3> QED
      BY <3>1, <3>2
  <2>6. \A q \in Handlers : pc'[q] = "acquire" => boot <= readAt'[q] /\ readAt'[q] <= clock
    BY <2>1 DEF RateInv, SlotsInv, Shape
  <2> QED
    BY <1>5, <2>4, <2>5, <2>6 DEF RateInv
<1>7. CASE ~(u.requests < MaxRequestsPerMinute /\ u.inFlight < MaxConcurrency)
  <2>1. usage' = [usage EXCEPT ![t] = u] /\ Done(r) /\ served' = served
    BY <1>7 DEF acquire
  <2> HIDE DEF u
  <2>2. ASSUME NEW s \in Subjects PROVE Rated(usage'[s], served'[s], boot, clock)
    <3>1. usage'[s] = IF s = t THEN u ELSE usage[s]
      BY <2>1 DEF SlotsInv, Shape
    <3> QED
      BY <1>3, <2>1, <3>1 DEF RateInv
  <2>3. \A q \in Handlers : pc'[q] = "acquire" => boot <= readAt'[q] /\ readAt'[q] <= clock
    BY <2>1 DEF RateInv, SlotsInv, Shape, Done
  <2> QED
    BY <1>5, <2>1, <2>2, <2>3 DEF RateInv
<1> QED
  BY <1>6, <1>7

\* A handler that returns gives back a slot, not a request.
LEMMA RateFinished ==
    ASSUME SlotsInv, RateInv, NEW r \in Handlers, Finished(r)
    PROVE  RateInv'
<1>1. /\ usage' = [usage EXCEPT ![subject[r]].inFlight = @ - 1] /\ Done(r)
      /\ UNCHANGED <<clock, boot, served>>
  BY DEF Finished
<1>2. ASSUME NEW s \in Subjects PROVE Rated(usage'[s], served'[s], boot', clock')
  <2>1. usage'[s].window = usage[s].window /\ usage'[s].requests = usage[s].requests
    BY <1>1 DEF SlotsInv, Shape
  <2> QED
    BY <1>1, <2>1 DEF RateInv, Rated
<1>3. \A q \in Handlers : pc'[q] = "acquire" => boot <= readAt'[q] /\ readAt'[q] <= clock
  BY <1>1 DEF RateInv, SlotsInv, Shape, Done
<1> QED
  BY <1>1, <1>2, <1>3 DEF RateInv

\* The other steps admit nothing.
LEMMA RateOther ==
    ASSUME SlotsInv, RateInv, ReportMetrics \/ Terminate \/ Elapse \/ IssueTo \/ Restart
                              \/ \E r \in Handlers : Resolve(r) \/ JudgeExpiry(r) \/ ReadClock(r) \/ Forward(r)
    PROVE  RateInv'
<1> USE DEF SlotsInv, Shape
<1>1. CASE ReportMetrics \/ Terminate \/ IssueTo
  BY <1>1 DEF ReportMetrics, Terminate, IssueTo, RateInv
<1>2. CASE Elapse
  <2>1. clock' = clock + 1 /\ UNCHANGED <<pc, readAt, usage, boot, served>> /\ clock \in Nat
    BY <1>2 DEF Elapse
  <2>2. ASSUME NEW s \in Subjects PROVE Rated(usage'[s], served'[s], boot', clock')
    <3>1. usage[s].window \in Nat /\ Rated(usage[s], served[s], boot, clock)
      BY DEF RateInv
    <3> QED
      BY <2>1, <3>1 DEF Rated
  <2> QED
    BY <2>1, <2>2 DEF RateInv
<1>3. CASE Restart
  <2>1. /\ boot' = clock /\ clock' = clock /\ served' = [s \in Subjects |-> 0]
        /\ usage' = [s \in Subjects |-> Unused] /\ pc' = [r \in Handlers |-> "idle"]
    BY <1>3 DEF Restart
  <2>2. ASSUME NEW s \in Subjects PROVE Rated(usage'[s], served'[s], boot', clock')
    BY <2>1 DEF Rated, Unused
  <2> QED
    BY <2>1, <2>2 DEF RateInv
<1>4. ASSUME NEW r \in Handlers, Resolve(r) \/ JudgeExpiry(r) \/ ReadClock(r) \/ Forward(r)
      PROVE  RateInv'
  BY <1>4 DEF Resolve, JudgeExpiry, ReadClock, Forward, RateInv
<1> QED
  BY <1>1, <1>2, <1>3, <1>4

\* A rated budget is within the long-run rate.
LEMMA RateImplied == SlotsInv /\ RateInv => LongRunRate
<1> SUFFICES ASSUME SlotsInv, RateInv, NEW s \in Subjects
             PROVE  served[s] <= MaxRequestsPerMinute * ((clock - boot) \div Window + 1)
  BY DEF LongRunRate
<1> DEFINE m == MaxRequestsPerMinute
           k == (clock - boot) \div Window
<1>1. /\ m \in Nat /\ Window \in Nat \ {0} /\ clock \in Nat /\ boot \in Nat /\ boot <= clock
      /\ served[s] \in Nat /\ usage[s].window \in Nat /\ usage[s].requests \in Nat
      /\ Rated(usage[s], served[s], boot, clock)
  BY GatewayAssumption DEF SlotsInv, Shape, RateInv
<1>2. clock - boot \in Nat /\ k \in Nat
  <2>1. clock - boot \in Nat
    BY <1>1
  <2> QED
    BY <1>1, <2>1, DivBounds
<1>3. m * (k + 1) = m * k + m /\ m * k \in Nat
  <2> HIDE DEF k, m
  <2> QED
    BY <1>1, <1>2
<1>4. CASE usage[s].window = 0
  <2>1. served[s] = 0
    BY <1>1, <1>4 DEF Rated
  <2> HIDE DEF k, m
  <2>2. served[s] <= m * (k + 1)
    BY <1>1, <1>3, <2>1
  <2> QED
    BY <2>2 DEF k, m
<1>5. CASE usage[s].window # 0
  <2> DEFINE j == (usage[s].window - boot) \div Window
  <2>1. usage[s].window - boot \in Nat /\ usage[s].window - boot <= clock - boot
    BY <1>1, <1>5 DEF Rated
  <2>2. j \in Nat /\ j <= k
    BY <1>1, <1>2, <2>1, DivBounds, DivMono, Zenon
  <2>3. served[s] <= m * j + usage[s].requests /\ usage[s].requests <= m
    BY <1>1, <1>5 DEF Rated
  <2> HIDE DEF j, k, m
  <2>4. m * j <= m * k /\ m * j \in Nat
    BY <1>1, <1>2, <2>2, MulMono
  <2>5. served[s] <= m * (k + 1)
    BY <1>1, <1>3, <2>3, <2>4
  <2> QED
    BY <2>5 DEF k, m
<1> QED
  BY <1>4, <1>5

\* A process admits at most one budget for every minute begun since it started,
\* for every budget and window and whatever the order in which clock readings
\* reach the mutex (acquire).
THEOREM RateHolds == GatewaySpec => []LongRunRate
<1>1. GatewayInit => RateInv
  <2> SUFFICES ASSUME GatewayInit PROVE RateInv
    OBVIOUS
  <2>1. \A s \in Subjects : Rated(usage[s], served[s], boot, clock)
    BY DEF GatewayInit, Rated, Unused
  <2> QED
    BY <2>1 DEF GatewayInit, RateInv
<1>2. SlotsInv /\ RateInv /\ [GatewayNext]_gatewayVars => RateInv'
  <2> SUFFICES ASSUME SlotsInv, RateInv, [GatewayNext]_gatewayVars PROVE RateInv'
    OBVIOUS
  <2>1. CASE UNCHANGED gatewayVars
    BY <2>1 DEF gatewayVars, RateInv
  <2>2. ASSUME NEW r \in Handlers, Handle(r) PROVE RateInv'
    <3>1. CASE Reject(r) \/ Respond(r)
      BY <3>1, RateFinished DEF Reject, Respond
    <3> QED
      BY <2>2, <3>1, RateAcquire, RateOther DEF Handle
  <2> QED
    BY <2>1, <2>2, RateOther DEF GatewayNext
<1> QED
  BY <1>1, <1>2, SlotsInductive, RateImplied, PTL DEF GatewaySpec


---------------------------------------------------------------------------
Budgets(t) == [inFlight : Nat, window : 0..t, requests : 0..MaxRequestsPerMinute]

\* What the types of the clock's readings come to once the clock is fixed.
LEMMA TypeNumbers ==
    ASSUME GatewayTypeOK
    PROVE  clock \in Nat \ {0} /\ clock <= MaxTime /\ boot \in Nat
           /\ clock + LongestTTL \in Nat
BY GatewayAssumption DEF GatewayTypeOK

\* Time passes: every range that ends with the clock grows.
LEMMA TypesTick ==
    ASSUME GatewayTypeOK, Elapse
    PROVE  GatewayTypeOK'
<1>1. /\ clock' = clock + 1 /\ clock < MaxTime /\ tokens' \subseteq tokens
      /\ UNCHANGED <<metrics, ended, pc, subject, readAt, usage, boot, served>>
  BY DEF Elapse
<1>2. /\ 0..clock \subseteq 0..clock' /\ 1..clock \subseteq 1..clock'
      /\ 0..(clock + LongestTTL) \subseteq 0..(clock' + LongestTTL) /\ clock' \in 1..MaxTime
  BY <1>1, TypeNumbers, GatewayAssumption
<1>3. tokens' \subseteq Subjects \X (0..(clock' + LongestTTL))
  BY <1>1, <1>2 DEF GatewayTypeOK
<1>4. readAt' \in [Handlers -> 0..clock'] /\ usage' \in [Subjects -> Budgets(clock')]
  BY <1>1, <1>2 DEF GatewayTypeOK, Budgets
<1> QED
  BY <1>1, <1>2, <1>3, <1>4 DEF GatewayTypeOK, Budgets

\* The Oubliette changes, and a credential is issued within the longest lifetime.
LEMMA TypesOubliette ==
    ASSUME GatewayTypeOK, ReportMetrics \/ Terminate \/ IssueTo
    PROVE  GatewayTypeOK'
<1>1. UNCHANGED <<clock, pc, subject, readAt, usage, boot, served>>
  BY DEF ReportMetrics, Terminate, IssueTo
<1>2. metrics' \in {"none", "own", "other"}
  BY DEF GatewayTypeOK, ReportMetrics, Terminate, IssueTo
<1>3. ended' \in BOOLEAN
  BY Zenon DEF GatewayTypeOK, ReportMetrics, Terminate, IssueTo
<1>4. tokens' \subseteq Subjects \X (0..(clock + LongestTTL))
  <2>1. CASE IssueTo
    <3>1. PICK s \in Subjects, ttl \in Nat :
             ttl <= LongestTTL /\ tokens' = tokens \cup {<<s, clock + ttl>>}
      BY <2>1, GatewayAssumption DEF IssueTo, Signs
    <3>2. clock + ttl \in 0..(clock + LongestTTL)
      BY <3>1, TypeNumbers, GatewayAssumption
    <3> QED
      BY <3>1, <3>2 DEF GatewayTypeOK
  <2>2. CASE ReportMetrics \/ Terminate
    BY <2>2 DEF GatewayTypeOK, ReportMetrics, Terminate
  <2> QED
    BY <2>1, <2>2
<1> QED
  BY <1>1, <1>2, <1>3, <1>4 DEF GatewayTypeOK

\* A handler's steps.  A release finds a slot to give back.
LEMMA TypesHandle ==
    ASSUME SlotsInv, GatewayTypeOK, NEW r \in Handlers, Handle(r)
    PROVE  GatewayTypeOK'
<1>1. UNCHANGED <<clock, metrics, ended, tokens, boot>>
  BY Zenon DEF Handle, Resolve, JudgeExpiry, ReadClock, acquire, Reject, Forward, Respond, Finished
<1>2. pc' \in [Handlers -> {"idle", "judge", "clock", "acquire", "serve", "upstream"}]
  BY DEF Handle, Resolve, JudgeExpiry, ReadClock, acquire, Reject, Forward, Respond, Finished, Done, GatewayTypeOK
<1>3. readAt' \in [Handlers -> 0..clock]
  <2>1. 0 \in 0..clock /\ clock \in 0..clock
    BY TypeNumbers
  <2>2. readAt' = readAt \/ \E t \in 0..clock : readAt' = [readAt EXCEPT ![r] = t]
    BY <2>1, Zenon DEF Handle, Resolve, JudgeExpiry, ReadClock, acquire, Reject, Forward, Respond, Finished, Done
  <2> QED
    BY <2>2, Zenon DEF GatewayTypeOK
<1>4. subject' \in [Handlers -> Subjects]
  <2>1. CASE Resolve(r)
    <3>1. PICK token \in tokens : subject' = [subject EXCEPT ![r] = token[1]]
      BY <2>1, Zenon DEF Resolve
    <3>2. token[1] \in Subjects
      BY <3>1 DEF GatewayTypeOK
    <3> QED
      BY <3>1, <3>2 DEF GatewayTypeOK
  <2>2. CASE UNCHANGED subject
    BY <2>2 DEF GatewayTypeOK
  <2> QED
    BY <2>1, <2>2, Zenon DEF Handle, JudgeExpiry, ReadClock, acquire, Reject, Forward, Respond, Finished
<1>5. served' \in [Subjects -> Nat] /\ usage' \in [Subjects -> Budgets(clock)]
  <2>1. CASE acquire(r)
    <3> DEFINE t == subject[r]
               u == Renewed(usage[t], readAt[r])
    <3>1. t \in Subjects /\ readAt[r] \in 0..clock /\ usage[t] \in Budgets(clock)
      BY Zenon DEF GatewayTypeOK, Budgets
    <3>2. 0 \in 0..MaxRequestsPerMinute
      BY GatewayAssumption
    <3>3. u \in Budgets(clock)
      BY <3>1, <3>2, Zenon DEF Renewed, Budgets
    <3>4. CASE u.requests < MaxRequestsPerMinute /\ u.inFlight < MaxConcurrency
      <4>1. /\ usage' = [usage EXCEPT ![t] = [u EXCEPT !.requests = @ + 1, !.inFlight = @ + 1]]
            /\ served' = [served EXCEPT ![t] = @ + 1]
        BY <2>1, <3>4 DEF acquire
      <4> HIDE DEF u
      <4>2. u.requests + 1 \in 0..MaxRequestsPerMinute /\ u.inFlight + 1 \in Nat
        BY <3>3, <3>4, GatewayAssumption DEF Budgets
      <4>3. [u EXCEPT !.requests = @ + 1, !.inFlight = @ + 1] \in Budgets(clock)
        BY <3>3, <4>2 DEF Budgets
      <4>4. served[t] + 1 \in Nat
        BY <3>1 DEF GatewayTypeOK
      <4> QED
        BY <3>1, <4>1, <4>3, <4>4, Zenon DEF GatewayTypeOK, Budgets
    <3>5. CASE ~(u.requests < MaxRequestsPerMinute /\ u.inFlight < MaxConcurrency)
      <4>1. usage' = [usage EXCEPT ![t] = u] /\ UNCHANGED served
        BY <2>1, <3>5 DEF acquire
      <4> HIDE DEF u
      <4> QED
        BY <3>1, <3>3, <4>1, Zenon DEF GatewayTypeOK, Budgets
    <3> QED
      BY <3>4, <3>5
  <2>2. CASE Reject(r) \/ Respond(r)
    <3> DEFINE t == subject[r]
    <3>1. /\ usage' = [usage EXCEPT ![t].inFlight = @ - 1] /\ UNCHANGED served
          /\ pc[r] \in {"serve", "upstream"}
      BY <2>2, Zenon DEF Reject, Respond, Finished
    <3>2. SlotsInv'
      BY <2>2, <3>1, FinishedStep DEF Reject, Respond
    <3>3. t \in Subjects /\ usage[t] \in Budgets(clock)
      BY Zenon DEF GatewayTypeOK, Budgets
    <3>4. usage'[t].inFlight = usage[t].inFlight - 1
      BY <3>1, <3>3 DEF GatewayTypeOK, Budgets
    <3>5. usage[t].inFlight - 1 \in Nat
      BY <3>2, <3>3, <3>4 DEF SlotsInv, Shape
    <3> QED
      BY <3>1, <3>3, <3>5 DEF GatewayTypeOK, Budgets
  <2>3. CASE UNCHANGED <<usage, served>>
    BY <2>3 DEF GatewayTypeOK, Budgets
  <2> QED
    BY <2>1, <2>2, <2>3, Zenon DEF Handle, Resolve, JudgeExpiry, ReadClock, Forward
<1> QED
  BY <1>1, <1>2, <1>3, <1>4, <1>5 DEF GatewayTypeOK, Budgets

\* The empty budget has the type of one.
LEMMA UnusedBudget == \A t \in Nat : Unused \in Budgets(t)
BY GatewayAssumption DEF Unused, Budgets

\* Every variable keeps its type: no budget entry or clock reading is ahead of
\* the clock, no budget is above its limit, and no credential that is about
\* outlives the longest lifetime.
THEOREM GatewayTyped == GatewaySpec => []GatewayTypeOK
<1>1. GatewayInit => GatewayTypeOK
  <2> SUFFICES ASSUME GatewayInit PROVE GatewayTypeOK
    OBVIOUS
  <2>1. /\ clock \in 1..MaxTime /\ boot \in 1..clock
        /\ 0 \in 0..clock
    BY GatewayAssumption DEF GatewayInit
  <2>2. usage \in [Subjects -> Budgets(clock)]
    BY <2>1, UnusedBudget DEF GatewayInit
  <2> QED
    BY <2>1, <2>2 DEF GatewayInit, GatewayTypeOK, Budgets
<1>2. SlotsInv /\ GatewayTypeOK /\ [GatewayNext]_gatewayVars => GatewayTypeOK'
  <2> SUFFICES ASSUME SlotsInv, GatewayTypeOK, [GatewayNext]_gatewayVars PROVE GatewayTypeOK'
    OBVIOUS
  <2>1. CASE UNCHANGED gatewayVars
    BY <2>1 DEF gatewayVars, GatewayTypeOK
  <2>2. CASE Restart
    <3>1. usage' \in [Subjects -> Budgets(clock)]
      BY <2>2, UnusedBudget, TypeNumbers DEF Restart
    <3>2. boot' \in 1..clock /\ 0 \in 0..clock
      BY <2>2, TypeNumbers DEF Restart
    <3> QED
      BY <2>2, <3>1, <3>2 DEF Restart, GatewayTypeOK, Budgets
  <2> QED
    BY <2>1, <2>2, TypesTick, TypesOubliette, TypesHandle, Zenon DEF GatewayNext
<1> QED
  BY <1>1, <1>2, SlotsInductive, PTL DEF GatewaySpec

===========================================================================

------------------------- MODULE MetricsQueryProofs -------------------------
\* What the metrics gateway sends to the upstream stays with the request's own
\* series and budget, and what it returns is the upstream's document without
\* what lies under a sensitive key, for every request, policy and document.
EXTENDS MetricsQuery, FiniteSetTheorems, SequenceTheorems, TLAPS

\* Most steps are first-order reasoning; a step that needs arithmetic cites SMT.
USE Zenon

--------------------------------------------------------------------------
\* A metrics request

\* Every selector of an expression has the fields that Rewrite looks at.
Selecting(e) ==
    \A p \in DOMAIN e : e[p].t = "selector" => {"t", "name", "matchers"} \subseteq DOMAIN e[p]

\* How far the expressions of the form have been rewritten, and what
\* validateBudget has seen to.
QueryInv ==
    /\ stage # "idle" => request \in Requests
    /\ stage \in {"received", "parsed"} =>
        sent = [query |-> request.query, match |-> request.match]
    /\ stage \in {"rewritten", "budgeted", "sent", "answered"} =>
        /\ request.path \in Instant =>
            1 \in DOMAIN request.query /\ sent.query = <<Rewrite(request.query[1])>>
        /\ request.path \in Metadata =>
            sent.match = [i \in DOMAIN request.match |-> Rewrite(request.match[i])]
    /\ stage \in {"budgeted", "sent", "answered"} /\ request.path = "query_range" => RangeAllowed

\* A rewritten selector picks what the client's selector picks of the request's
\* own series.
LEMMA PicksOwn ==
    ASSUME NEW n, NEW m, m.name = n.name,
           m.matchers = n.matchers \cup {Equals(OublietteLabel, Scope.oubliette),
                                         Equals(TrustDomainLabel, Scope.trustDomain)}
    PROVE  {s \in Series : Picks(m, s)} = {s \in OwnSeries : Picks(n, s)}
<1>1. ASSUME NEW s \in Series
      PROVE  Picks(m, s) <=> /\ Picks(n, s)
                             /\ s.labels[OublietteLabel] = Scope.oubliette
                             /\ s.labels[TrustDomainLabel] = Scope.trustDomain
  <2> DEFINE Fits(matcher) == (s.labels[matcher.label] = matcher.value) <=> matcher.equal
  <2>1. ASSUME NEW label, NEW value
        PROVE  Fits(Equals(label, value)) <=> s.labels[label] = value
    BY SMT DEF Equals
  <2>2. Picks(m, s) <=> s.name = n.name /\ \A x \in m.matchers : Fits(x)
    BY DEF Picks
  <2>3. Picks(n, s) <=> s.name = n.name /\ \A x \in n.matchers : Fits(x)
    BY DEF Picks
  <2> HIDE DEF Fits
  <2>4. (\A x \in m.matchers : Fits(x)) <=>
            /\ \A x \in n.matchers : Fits(x)
            /\ Fits(Equals(OublietteLabel, Scope.oubliette))
            /\ Fits(Equals(TrustDomainLabel, Scope.trustDomain))
    OBVIOUS
  <2> QED
    BY <2>1, <2>2, <2>3, <2>4
<1> QED
  BY <1>1 DEF OwnSeries

\* Of all series, the rewritten expression reads what the client's expression
\* reads of the request's own, wherever its selectors are.
LEMMA RewriteReadsOwn ==
    ASSUME NEW e, Selecting(e)
    PROVE  Reading(Rewrite(e), Series) = Reading(e, OwnSeries)
<1> DEFINE f == Rewrite(e)
<1>1. DOMAIN f = DOMAIN e
  BY DEF Rewrite
<1>2. ASSUME NEW p \in DOMAIN e, e[p].t = "selector"
      PROVE  /\ f[p].t = "selector"
             /\ [f[p] EXCEPT !.matchers = {s \in Series : Picks(f[p], s)}]
                  = [e[p] EXCEPT !.matchers = {s \in OwnSeries : Picks(e[p], s)}]
  <2> DEFINE n == e[p]
             own == {Equals(OublietteLabel, Scope.oubliette),
                     Equals(TrustDomainLabel, Scope.trustDomain)}
  <2>1. f[p] = [n EXCEPT !.matchers = @ \cup own]
    BY <1>2 DEF Rewrite
  <2>2. "t" \in DOMAIN n /\ "name" \in DOMAIN n /\ "matchers" \in DOMAIN n
    BY <1>2 DEF Selecting
  <2> HIDE DEF own, n, f
  <2>3. f[p].t = n.t /\ f[p].name = n.name /\ f[p].matchers = n.matchers \cup own
    BY <2>1, <2>2, SMT
  <2>4. {s \in Series : Picks(f[p], s)} = {s \in OwnSeries : Picks(n, s)}
    BY <2>3, PicksOwn DEF own
  <2>5. ASSUME NEW A, NEW B
        PROVE  [[n EXCEPT !.matchers = A] EXCEPT !.matchers = B] = [n EXCEPT !.matchers = B]
    OBVIOUS
  <2>6. f[p] = [n EXCEPT !.matchers = n.matchers \cup own]
    BY <2>1
  <2> QED
    BY <1>2, <2>3, <2>4, <2>5, <2>6 DEF n
<1>3. ASSUME NEW p \in DOMAIN e, e[p].t # "selector"
      PROVE  f[p] = e[p]
  BY <1>3 DEF Rewrite
<1> HIDE DEF f
<1>4. Reading(f, Series) = Reading(e, OwnSeries)
  BY <1>1, <1>2, <1>3, SMT DEF Reading
<1> QED
  BY <1>4 DEF f

\* Every step of ServeHTTP keeps the invariant.
LEMMA QueryStep ==
    ASSUME QueryInv, [QueryNext]_queryVars
    PROVE  QueryInv'
<1>1. CASE Receive
  BY <1>1 DEF Receive, QueryInv
<1>2. CASE ParseRequest
  BY <1>2, ZenonT(30) DEF ParseRequest, Refuse, Reply, QueryInv
<1>3. CASE RewriteQuery
  <2>1. request \in Requests /\ stage = "parsed" /\ request' = request
    BY <1>3 DEF RewriteQuery, Refuse, Reply, QueryInv
  <2>2. CASE Refuse(400)
    BY <2>1, <2>2 DEF Refuse, Reply, QueryInv
  <2>3. CASE ~Refuse(400)
    <3>1. /\ 1 \in DOMAIN request.query /\ stage' = "rewritten"
          /\ sent' = [sent EXCEPT !.query = <<Rewrite(request.query[1])>>]
          /\ request.path \in Instant
      BY <1>3, <2>3 DEF RewriteQuery
    <3>2. sent = [query |-> request.query, match |-> request.match]
      BY <2>1 DEF QueryInv
    <3>3. sent'.query = <<Rewrite(request.query[1])>>
      BY <3>1, <3>2, SMT
    <3>4. request.path \notin Metadata
      BY <3>1 DEF Instant, Metadata
    <3> QED
      BY <2>1, <3>1, <3>3, <3>4 DEF QueryInv, Rewrite, Scope, Instant, Metadata
  <2> QED
    BY <2>2, <2>3
<1>4. CASE RewriteMatches
  <2>1. request \in Requests /\ stage = "parsed" /\ request' = request
    BY <1>4 DEF RewriteMatches, Refuse, Reply, QueryInv
  <2>2. CASE Refuse(400)
    BY <2>1, <2>2 DEF Refuse, Reply, QueryInv
  <2>3. CASE ~Refuse(400)
    <3>1. /\ stage' = "rewritten" /\ request.path \in Metadata
          /\ sent' = [sent EXCEPT !.match =
                        [i \in DOMAIN request.match |-> Rewrite(request.match[i])]]
      BY <1>4, <2>3 DEF RewriteMatches
    <3>2. sent = [query |-> request.query, match |-> request.match]
      BY <2>1 DEF QueryInv
    <3>3. sent'.match = [i \in DOMAIN request.match |-> Rewrite(request.match[i])]
      BY <3>1, <3>2, SMT
    <3>4. request.path \notin Instant
      BY <3>1 DEF Instant, Metadata
    <3> QED
      BY <2>1, <3>1, <3>3, <3>4 DEF QueryInv, Rewrite, Scope, Instant, Metadata
  <2> QED
    BY <2>2, <2>3
<1>5. CASE RefusePath \/ UpstreamFails
  BY <1>5, ZenonT(30) DEF RefusePath, UpstreamFails, Refuse, Reply, QueryInv
<1>6. CASE validateBudget
  <2>1. CASE Refuse(422)
    BY <1>6, <2>1 DEF validateBudget, Refuse, Reply, QueryInv
  <2>2. CASE ~Refuse(422)
    <3>1. /\ stage = "rewritten" /\ stage' = "budgeted"
          /\ UNCHANGED <<request, sent, body, reply>>
          /\ request.path = "query_range" => RangeAllowed
      BY <1>6, <2>2 DEF validateBudget
    <3> QED
      BY <3>1 DEF QueryInv, RangeAllowed, Span, WithinLookback, Policy, Rewrite, Scope
  <2> QED
    BY <2>1, <2>2
<1>7. CASE Send \/ UpstreamAnswers \/ Answer
  <2>1. /\ stage \in {"budgeted", "sent", "answered"} /\ UNCHANGED <<request, sent>>
        /\ stage' \in {"sent", "answered", "done"}
    BY <1>7, ZenonT(30) DEF Send, UpstreamAnswers, Answer, Refuse, Reply
  <2> QED
    BY <2>1 DEF QueryInv, RangeAllowed, Span, WithinLookback, Policy, Rewrite, Scope
<1>8. CASE UNCHANGED queryVars
  BY <1>8, ZenonT(30) DEF queryVars, QueryInv, RangeAllowed, Span, WithinLookback, Policy, Rewrite, Scope
<1> QED
  BY <1>1, <1>2, <1>3, <1>4, <1>5, <1>6, <1>7, <1>8 DEF QueryNext

\* The invariant of a request holds at every stage of it.
THEOREM QueryInductive == QuerySpec => []QueryInv
<1>1. QueryInit => QueryInv
  BY DEF QueryInit, QueryInv
<1> QED
  BY <1>1, QueryStep, PTL DEF QuerySpec

\* What goes to the upstream reads the request's own series, for every request,
\* every expression and everything that the upstream holds (Rewrite).
THEOREM ReadsOwn == QuerySpec => []ForwardedReadsOwn
<1>1. ASSUME QueryInv PROVE ForwardedReadsOwn
  <2> SUFFICES ASSUME stage \in {"sent", "answered"}
               PROVE  /\ request.path \in Instant =>
                            \A i \in DOMAIN sent.query :
                                Reading(sent.query[i], Series) = Reading(request.query[1], OwnSeries)
                      /\ request.path \in Metadata =>
                            /\ DOMAIN sent.match = DOMAIN request.match
                            /\ \A i \in DOMAIN sent.match :
                                Reading(sent.match[i], Series) = Reading(request.match[i], OwnSeries)
    BY DEF ForwardedReadsOwn
  <2>1. request \in Requests
    BY <1>1 DEF QueryInv
  <2>2. /\ \A i \in DOMAIN request.query : Selecting(request.query[i])
        /\ \A i \in DOMAIN request.match : Selecting(request.match[i])
    BY <2>1, RequestAssumption DEF Selecting
  <2>3. ASSUME request.path \in Instant, NEW i \in DOMAIN sent.query
        PROVE  Reading(sent.query[i], Series) = Reading(request.query[1], OwnSeries)
    <3>1. 1 \in DOMAIN request.query /\ sent.query = <<Rewrite(request.query[1])>>
      BY <1>1, <2>3 DEF QueryInv
    <3>2. sent.query[i] = Rewrite(request.query[1])
      BY <2>3, <3>1, SMT
    <3> QED
      BY <2>2, <3>1, <3>2, RewriteReadsOwn
  <2>4. ASSUME request.path \in Metadata
        PROVE  /\ DOMAIN sent.match = DOMAIN request.match
               /\ \A i \in DOMAIN sent.match :
                    Reading(sent.match[i], Series) = Reading(request.match[i], OwnSeries)
    <3>1. sent.match = [i \in DOMAIN request.match |-> Rewrite(request.match[i])]
      BY <1>1, <2>4 DEF QueryInv
    <3> QED
      BY <2>2, <3>1, RewriteReadsOwn
  <2> QED
    BY <2>3, <2>4
<1> QED
  BY <1>1, QueryInductive, PTL

\* Multiplication keeps the order.
LEMMA TimesKeeps ==
    ASSUME NEW m \in Nat \ {0}, NEW a \in Int, NEW b \in Int, m * a <= m * b
    PROVE  a <= b
<1>1. SUFFICES ASSUME b + 1 <= a PROVE FALSE
  BY SMT
<1>2. PICK d \in Nat : a = b + 1 + d
  <2>1. a - b - 1 \in Nat /\ a = b + 1 + (a - b - 1)
    BY <1>1, SMT
  <2> QED
    BY <2>1
<1>3. m * a = m * b + m + m * d
  BY <1>2, SMT
<1>4. m * d \in Nat /\ m * b \in Int
  BY SMT
<1> QED
  BY <1>3, <1>4, SMT

\* The points of a range: the ceiling counts those after the first.
LEMMA InstantsCounted ==
    ASSUME NEW start \in Int, NEW end \in Int, NEW step \in Nat \ {0}, start <= end
    PROVE  LET points == {t \in start..end : (t - start) % step = 0}
           IN  /\ IsFiniteSet(points)
               /\ Cardinality(points) <= Ceiling(end - start, step) + 1
<1> DEFINE points == {t \in start..end : (t - start) % step = 0}
           span == end - start
           c == Ceiling(span, step)
           index == [t \in points |-> (t - start) \div step]
<1>1. /\ \A a \in Nat : /\ a \div step \in Nat /\ step * (a \div step) <= a
                        /\ a < step * (a \div step) + step
      /\ \A a \in Nat : a % step = 0 => a = step * (a \div step)
  BY SMT
<1>2. span \in Nat /\ span + step - 1 \in Nat
  BY SMT
<1>3. c \in Nat /\ span <= step * c /\ step * c \in Nat
  BY <1>1, <1>2, SMT DEF Ceiling
<1>4. ASSUME NEW t \in points
      PROVE  /\ t \in Int /\ (t - start) \div step \in 0..c
             /\ t = start + step * ((t - start) \div step)
  <2>1. t \in Int /\ t - start \in Nat /\ t - start <= span /\ (t - start) % step = 0
    BY SMT
  <2> DEFINE q == (t - start) \div step
  <2>2. q \in Nat /\ t - start = step * q
    BY <1>1, <2>1
  <2> HIDE DEF q, c
  <2>3. step * q <= step * c
    BY <1>2, <1>3, <2>1, <2>2, SMT
  <2>4. q <= c
    BY <1>3, <2>2, <2>3, TimesKeeps, SMT
  <2>5. q \in 0..c /\ t = start + step * q
    BY <1>3, <2>1, <2>2, <2>4, SMT
  <2> QED
    BY <2>1, <2>5 DEF q
<1> HIDE DEF c
<1>5. index \in [points -> 0..c]
  BY <1>4
<1>6. ASSUME NEW t \in points, NEW u \in points, index[t] = index[u]
      PROVE  t = u
  BY <1>4, <1>6
<1>7. index \in Injection(points, 0..c)
  BY <1>5, <1>6 DEF Injection, IsInjective
<1>8. IsFiniteSet(0..c) /\ Cardinality(0..c) = c + 1
  BY <1>3, FS_Interval, SMT
<1> HIDE DEF points, index
<1>9. IsFiniteSet(points) /\ Cardinality(points) <= Cardinality(0..c)
  BY <1>7, <1>8, FS_Injection
<1> QED
  BY <1>8, <1>9 DEF c, points, span

\* What validateBudget lets through is within the budget, for all times, steps
\* and policies: a look-back limit keeps a range short enough to be measured.
THEOREM WithinBudget == QuerySpec => []ForwardedWithinBudget
<1>1. ASSUME QueryInv PROVE ForwardedWithinBudget
  <2> SUFFICES ASSUME stage \in {"sent", "answered"}, request.path = "query_range"
               PROVE  /\ request.start <= request.end
                      /\ /\ Policy.maxSamples > 0
                         /\ \/ Policy.maxLookback > 0
                            \/ request.end - request.start <= MaxDuration
                         => Cardinality(Instants) <= Policy.maxSamples
                      /\ Policy.maxLookback > 0 =>
                            \A t \in Instants : t >= Now - Policy.maxLookback
    BY DEF ForwardedWithinBudget
  <2>1. RangeAllowed /\ request \in Requests
    BY <1>1 DEF QueryInv
  <2>2. /\ request.start \in Int /\ request.end \in Int /\ request.step \in Int
        /\ Policy.maxLookback \in Int /\ Policy.maxSamples \in Int /\ Now \in Int
        /\ MaxDuration \in Nat /\ Policy.maxLookback < MaxDuration
    BY <2>1, RequestAssumption DEF Policy, Scope
  <2>3. request.start <= request.end /\ request.step \in Nat \ {0}
    BY <2>1, <2>2, SMT DEF RangeAllowed
  <2>4. ASSUME Policy.maxSamples > 0,
               Policy.maxLookback > 0 \/ request.end - request.start <= MaxDuration
        PROVE  Cardinality(Instants) <= Policy.maxSamples
    <3>1. /\ IsFiniteSet(Instants)
          /\ Cardinality(Instants) <= Ceiling(request.end - request.start, request.step) + 1
      BY <2>2, <2>3, InstantsCounted DEF Instants
    <3>2. Cardinality(Instants) \in Nat
      BY <3>1, FS_CardinalityType
    <3>0. Span = request.end - request.start
      <4>1. WithinLookback(Span)
        BY <2>1 DEF RangeAllowed
      <4> QED
        BY <2>2, <2>4, <4>1, SMT DEF WithinLookback, Span
    <3>3. Ceiling(request.end - request.start, request.step) + 1 <= Policy.maxSamples
      BY <2>1, <2>4, <3>0 DEF RangeAllowed
    <3>4. Ceiling(request.end - request.start, request.step) \in Int
      BY <2>2, <2>3, SMT DEF Ceiling
    <3> QED
      BY <2>2, <3>1, <3>2, <3>3, <3>4, SMTT(30)
  <2>5. ASSUME Policy.maxLookback > 0, NEW t \in Instants
        PROVE  t >= Now - Policy.maxLookback
    <3>1. t \in request.start..request.end
      BY <2>5 DEF Instants
    <3>2. Now - request.start <= Policy.maxLookback
      BY <2>1, <2>5 DEF RangeAllowed, WithinLookback
    <3> QED
      BY <2>2, <3>1, <3>2, SMT
  <2> QED
    BY <2>3, <2>4, <2>5
<1> QED
  BY <1>1, QueryInductive, PTL

--------------------------------------------------------------------------
\* A metrics answer

\* A set of naturals that is not empty has a least element.
LEMMA LeastNatural ==
    ASSUME NEW T, T \subseteq Nat, T # {}
    PROVE  \E m \in T : \A k \in T : m <= k
<1>1. PICK m \in T : \A k \in T : ~(<<k, m>> \in OpToRel(<, Nat))
  BY NatLessThanWellFounded, WFMin
<1>2. ASSUME NEW k \in T PROVE m <= k
  <2>1. k \in Nat /\ m \in Nat
    OBVIOUS
  <2>2. k < m => <<k, m>> \in OpToRel(<, Nat)
    BY <2>1 DEF OpToRel
  <2>3. ~(k < m)
    BY <1>1, <2>2
  <2> QED
    BY <2>1, <2>3, SMT
<1> QED
  BY <1>2

\* A step and a place make a place.
LEMMA StepAndPlace ==
    ASSUME NEW step \in Steps, NEW q \in Seq(Steps)
    PROVE  /\ <<step>> \o q \in Seq(Steps) /\ <<step>> \o q # <<>>
           /\ Head(<<step>> \o q) = step /\ Tail(<<step>> \o q) = q
           /\ Len(<<step>> \o q) = Len(q) + 1
           /\ (<<step>> \o q)[1] = step
           /\ \A i \in 1..Len(q) : (<<step>> \o q)[i + 1] = q[i]
<1> DEFINE S == Steps
<1> HIDE DEF S
<1>1. step \in S /\ q \in Seq(S)
  BY DEF S
<1> QED
  BY <1>1, SMT

\* Every place but the first is made so.
LEMMA PlaceIsStepAndPlace ==
    ASSUME NEW p \in Seq(Steps), p # <<>>
    PROVE  /\ Head(p) \in Steps /\ Tail(p) \in Seq(Steps)
           /\ p = <<Head(p)>> \o Tail(p)
<1> DEFINE S == Steps
<1> HIDE DEF S
<1>1. p \in Seq(S)
  BY DEF S
<1>2. Head(p) \in S /\ Tail(p) \in Seq(S) /\ p = <<Head(p)>> \o Tail(p)
  BY <1>1, SMT
<1> QED
  BY <1>2 DEF S

\* A place one step from the top.
LEMMA OneStep ==
    ASSUME NEW p \in Seq(Steps), Len(p) = 1
    PROVE  p # <<>> /\ p = <<Head(p)>> /\ p[1] = Head(p)
<1>1. 1 # 0
  BY SMT
<1>2. p # <<>>
  BY <1>1, EmptySeq
<1>3. Head(p) \in Steps /\ Tail(p) \in Seq(Steps) /\ p = <<Head(p)>> \o Tail(p)
  BY <1>2, PlaceIsStepAndPlace
<1> DEFINE step == Head(p)
           q == Tail(p)
<1>4. step \in Steps /\ q \in Seq(Steps) /\ p = <<step>> \o q
  BY <1>3
<1> HIDE DEF step, q
<1>5. Len(p) = Len(q) + 1 /\ p[1] = step
  BY <1>4, StepAndPlace
<1>6. Len(q) \in Nat /\ (q # <<>> => Len(q) # 0)
  BY <1>4, LenProperties, EmptySeq
<1>7. Len(q) = 0
  BY <1>5, <1>6, SMT
<1>8. p = <<step>> \o <<>>
  BY <1>4, <1>6, <1>7
<1>9. <<step>> \o <<>> = <<step>>
  <2> DEFINE S == Steps
  <2> HIDE DEF S
  <2>1. step \in S
    BY <1>4 DEF S
  <2> QED
    BY <2>1, SMT
<1>10. p = <<step>>
  BY <1>8, <1>9
<1> QED
  BY <1>2, <1>5, <1>10 DEF step

\* What a document is made of, by its kind.
LEMMA ChildrenOf ==
    ASSUME NEW v
    PROVE  /\ v.t = "map" =>
                /\ DOMAIN Children(v) = {<<k, 0>> : k \in DOMAIN v.fields}
                /\ \A k \in DOMAIN v.fields : Children(v)[<<k, 0>>] = v.fields[k]
           /\ v.t = "list" =>
                /\ DOMAIN Children(v) = {<<"item", i>> : i \in DOMAIN v.items}
                /\ \A i \in DOMAIN v.items : Children(v)[<<"item", i>>] = v.items[i]
           /\ v.t \notin {"map", "list"} => DOMAIN Children(v) = {}
<1>1. CASE v.t = "map"
  <2>1. Children(v) = [step \in {<<k, 0>> : k \in DOMAIN v.fields} |-> v.fields[step[1]]]
    BY <1>1 DEF Children
  <2> QED
    BY <1>1, <2>1
<1>2. CASE v.t = "list"
  <2>1. Children(v) = [step \in {<<"item", i>> : i \in DOMAIN v.items} |-> v.items[step[2]]]
    BY <1>2 DEF Children
  <2> QED
    BY <1>2, <2>1
<1>3. CASE v.t \notin {"map", "list"}
  <2>1. Children(v) = <<>>
    BY <1>3 DEF Children
  <2>2. DOMAIN <<>> = {}
    BY SMT
  <2> QED
    BY <1>3, <2>1, <2>2
<1> QED
  BY <1>1, <1>2, <1>3

\* The places of a document are its top and, behind each step, those of the
\* documents that it is made of.
LEMMA PlacesOne ==
    ASSUME NEW v \in Values
    PROVE  /\ <<>> \in DOMAIN Places(v) /\ Places(v)[<<>>] = Kind(v)
           /\ \A p \in DOMAIN Places(v) : p # <<>> =>
                /\ Head(p) \in DOMAIN Children(v)
                /\ Tail(p) \in DOMAIN Places(Children(v)[Head(p)])
                /\ p = <<Head(p)>> \o Tail(p)
           /\ \A step \in DOMAIN Children(v) :
                /\ step \in Steps /\ Children(v)[step] \in Values
                /\ \A q \in DOMAIN Places(Children(v)[step]) :
                    /\ q \in Seq(Steps) /\ <<step>> \o q \in DOMAIN Places(v)
                    /\ Places(v)[<<step>> \o q] = Places(Children(v)[step])[q]
<1> DEFINE below == [step \in DOMAIN Children(v) |-> Places(Children(v)[step])]
           Behind(step) == {<<step>> \o q : q \in DOMAIN below[step]}
           places == {<<>>} \cup UNION {Behind(step) : step \in DOMAIN below}
<1>1. Places(v) = [p \in places |-> IF p = <<>> THEN Kind(v) ELSE below[Head(p)][Tail(p)]]
  BY FilterAssumption DEF Tree
<1>2. DOMAIN Places(v) = places
  BY <1>1
<1>3. ASSUME NEW step \in DOMAIN Children(v)
      PROVE  step \in Steps /\ Children(v)[step] \in Values
  <2>1. Children(v)[step] \in Values
    BY FilterAssumption
  <2>2. CASE v.t = "map"
    <3>1. DOMAIN Children(v) = {<<k, 0>> : k \in DOMAIN v.fields}
      BY <2>2, ChildrenOf
    <3>2. PICK k \in DOMAIN v.fields : step = <<k, 0>>
      BY <3>1
    <3>3. 0 \in Nat
      BY SMT
    <3> QED
      BY <2>1, <2>2, <3>2, <3>3 DEF Steps
  <2>3. CASE v.t = "list"
    <3>1. DOMAIN Children(v) = {<<"item", i>> : i \in DOMAIN v.items}
      BY <2>3, ChildrenOf
    <3>2. PICK i \in DOMAIN v.items : step = <<"item", i>>
      BY <3>1
    <3>3. Len(v.items) \in Nat /\ DOMAIN v.items = 1..Len(v.items)
      BY <2>3, FilterAssumption
    <3>4. i \in 1..Len(v.items)
      BY <3>3
    <3>5. i \in Nat
      BY <3>3, <3>4, SMT
    <3> QED
      BY <2>1, <3>2, <3>5 DEF Steps
  <2> QED
    BY <2>2, <2>3, ChildrenOf
<1>4. ASSUME NEW step \in DOMAIN Children(v), NEW q \in DOMAIN Places(Children(v)[step])
      PROVE  q \in Seq(Steps)
  BY <1>3, FilterAssumption
<1>5. \A step \in DOMAIN Children(v) : below[step] = Places(Children(v)[step])
  OBVIOUS
<1>6. DOMAIN below = DOMAIN Children(v)
  OBVIOUS
<1>7. <<>> \in places
  OBVIOUS
<1> HIDE DEF below
<1>8. ASSUME NEW p \in places, p # <<>>
      PROVE  /\ Head(p) \in DOMAIN Children(v)
             /\ Tail(p) \in DOMAIN Places(Children(v)[Head(p)])
             /\ p = <<Head(p)>> \o Tail(p)
  <2>1. PICK step \in DOMAIN Children(v) : p \in Behind(step)
    BY <1>6, <1>8
  <2>2. PICK q \in DOMAIN Places(Children(v)[step]) : p = <<step>> \o q
    BY <1>5, <2>1
  <2>3. Head(p) = step /\ Tail(p) = q
    BY <1>3, <1>4, <2>2, StepAndPlace
  <2> QED
    BY <2>2, <2>3
<1>9. ASSUME NEW step \in DOMAIN Children(v), NEW q \in DOMAIN Places(Children(v)[step])
      PROVE  <<step>> \o q \in places
  <2>1. q \in DOMAIN below[step]
    BY <1>5
  <2>2. <<step>> \o q \in Behind(step)
    BY <2>1
  <2> HIDE DEF Behind
  <2> QED
    BY <1>6, <2>2
<1> HIDE DEF places
<1>10. ASSUME NEW step \in DOMAIN Children(v), NEW q \in DOMAIN Places(Children(v)[step])
       PROVE  Places(v)[<<step>> \o q] = Places(Children(v)[step])[q]
  <2>1. /\ <<step>> \o q # <<>>
        /\ Head(<<step>> \o q) = step /\ Tail(<<step>> \o q) = q
    BY <1>3, <1>4, StepAndPlace
  <2> DEFINE p == <<step>> \o q
  <2>2. p \in places /\ p # <<>> /\ Head(p) = step /\ Tail(p) = q
    BY <1>9, <2>1
  <2> HIDE DEF p
  <2>3. Places(v)[p] = below[step][q]
    BY <1>1, <2>2
  <2> QED
    BY <1>5, <2>3 DEF p
<1> QED
  BY <1>1, <1>2, <1>3, <1>4, <1>7, <1>8, <1>9, <1>10

\* What filterValue makes of one document: the same without what a hidden key
\* leads to, and filtered where the other steps lead.
LEMMA FilterOne ==
    ASSUME NEW hidden \in {r.scope.policy.sensitive : r \in Requests}, NEW v \in Values
    PROVE  /\ FilterValue(v, hidden) \in Values
           /\ Kind(FilterValue(v, hidden)) = Kind(v)
           /\ DOMAIN Children(FilterValue(v, hidden)) =
                {step \in DOMAIN Children(v) : step[2] = 0 => step[1] \notin hidden}
           /\ \A step \in DOMAIN Children(FilterValue(v, hidden)) :
                Children(FilterValue(v, hidden))[step] = FilterValue(Children(v)[step], hidden)
<1> DEFINE w == FilterValue(v, hidden)
<1>1. w \in Values
  BY FilterAssumption
<1>2. CASE v.t = "map"
  <2> DEFINE f == [key \in DOMAIN v.fields \ hidden |-> FilterValue(v.fields[key], hidden)]
  <2>1. w = [t |-> "map", fields |-> f]
    BY <1>2, FilterAssumption DEF Map
  <2>2. /\ DOMAIN f = DOMAIN v.fields \ hidden
        /\ \A k \in DOMAIN v.fields \ hidden : f[k] = FilterValue(v.fields[k], hidden)
    OBVIOUS
  <2> HIDE DEF f
  <2>3. w.t = "map" /\ w.fields = f
    BY <2>1, SMT
  <2> HIDE DEF w
  <2>4. /\ DOMAIN Children(w) = {<<k, 0>> : k \in DOMAIN v.fields \ hidden}
        /\ \A k \in DOMAIN v.fields \ hidden : Children(w)[<<k, 0>>] = f[k]
    BY <2>2, <2>3, ChildrenOf
  <2>5. /\ DOMAIN Children(v) = {<<k, 0>> : k \in DOMAIN v.fields}
        /\ \A k \in DOMAIN v.fields : Children(v)[<<k, 0>>] = v.fields[k]
    BY <1>2, ChildrenOf
  <2>6. DOMAIN Children(w) =
            {step \in DOMAIN Children(v) : step[2] = 0 => step[1] \notin hidden}
    <3>1. \A k : <<k, 0>>[1] = k /\ <<k, 0>>[2] = 0
      BY SMT
    <3>2. ASSUME NEW step \in DOMAIN Children(w)
          PROVE  step \in DOMAIN Children(v) /\ (step[2] = 0 => step[1] \notin hidden)
      <4>1. PICK k \in DOMAIN v.fields \ hidden : step = <<k, 0>>
        BY <2>4
      <4> QED
        BY <2>5, <3>1, <4>1
    <3>3. ASSUME NEW step \in DOMAIN Children(v), step[2] = 0 => step[1] \notin hidden
          PROVE  step \in DOMAIN Children(w)
      <4>1. PICK k \in DOMAIN v.fields : step = <<k, 0>>
        BY <2>5
      <4>2. k \notin hidden
        BY <3>1, <3>3, <4>1
      <4> QED
        BY <2>4, <4>1, <4>2
    <3> QED
      BY <3>2, <3>3
  <2>7. ASSUME NEW step \in DOMAIN Children(w)
        PROVE  Children(w)[step] = FilterValue(Children(v)[step], hidden)
    <3>1. PICK k \in DOMAIN v.fields \ hidden : step = <<k, 0>>
      BY <2>4
    <3> QED
      BY <2>2, <2>4, <2>5, <3>1
  <2>8. Kind(w) = Kind(v)
    BY <1>2, <2>3 DEF Kind
  <2> QED
    BY <1>1, <2>6, <2>7, <2>8 DEF w
<1>3. CASE v.t = "list"
  <2> DEFINE f == [i \in DOMAIN v.items |-> FilterValue(v.items[i], hidden)]
  <2>1. w = [t |-> "list", items |-> f]
    BY <1>3, FilterAssumption DEF List
  <2>2. /\ DOMAIN f = DOMAIN v.items
        /\ \A i \in DOMAIN v.items : f[i] = FilterValue(v.items[i], hidden)
    OBVIOUS
  <2> HIDE DEF f
  <2>3. w.t = "list" /\ w.items = f
    BY <2>1, SMT
  <2> HIDE DEF w
  <2>4. /\ DOMAIN Children(w) = {<<"item", i>> : i \in DOMAIN v.items}
        /\ \A i \in DOMAIN v.items : Children(w)[<<"item", i>>] = f[i]
    BY <2>2, <2>3, ChildrenOf
  <2>5. /\ DOMAIN Children(v) = {<<"item", i>> : i \in DOMAIN v.items}
        /\ \A i \in DOMAIN v.items : Children(v)[<<"item", i>>] = v.items[i]
    BY <1>3, ChildrenOf
  <2>6. \A i \in DOMAIN v.items : i # 0
    <3>1. Len(v.items) \in Nat /\ DOMAIN v.items = 1..Len(v.items)
      BY <1>3, FilterAssumption
    <3> QED
      BY <3>1, SMT
  <2>7. DOMAIN Children(w) =
            {step \in DOMAIN Children(v) : step[2] = 0 => step[1] \notin hidden}
    <3>1. \A i : <<"item", i>>[2] = i
      BY SMT
    <3>2. ASSUME NEW step \in DOMAIN Children(v) PROVE step[2] # 0
      <4>1. PICK i \in DOMAIN v.items : step = <<"item", i>>
        BY <2>5
      <4> QED
        BY <2>6, <3>1, <4>1
    <3> QED
      BY <2>4, <2>5, <3>2
  <2>8. ASSUME NEW step \in DOMAIN Children(w)
        PROVE  Children(w)[step] = FilterValue(Children(v)[step], hidden)
    BY <2>2, <2>4, <2>5
  <2>9. Kind(w) = Kind(v)
    BY <1>3, <2>3 DEF Kind
  <2> QED
    BY <1>1, <2>7, <2>8, <2>9 DEF w
<1>4. CASE v.t \notin {"map", "list"}
  <2>1. w = v
    BY <1>4, FilterAssumption
  <2>2. DOMAIN Children(v) = {}
    BY <1>4, ChildrenOf
  <2> QED
    BY <1>1, <2>1, <2>2
<1> QED
  BY <1>2, <1>3, <1>4

\* The way to a place is open if its first step and the rest of it are.
LEMMA OpenOne ==
    ASSUME NEW hidden, NEW step \in Steps, NEW q \in Seq(Steps)
    PROVE  /\ Open(<<>>, hidden)
           /\ Open(<<step>> \o q, hidden) <=>
                (step[2] = 0 => step[1] \notin hidden) /\ Open(q, hidden)
<1> DEFINE p == <<step>> \o q
           Passes(s) == s[2] = 0 => s[1] \notin hidden
<1>1. DOMAIN <<>> = {}
  BY SMT
<1>2. /\ p \in Seq(Steps) /\ Len(p) = Len(q) + 1
      /\ p[1] = step /\ \A i \in 1..Len(q) : p[i + 1] = q[i]
  BY StepAndPlace
<1>3. Len(q) \in Nat /\ DOMAIN q = 1..Len(q) /\ DOMAIN p = 1..(Len(q) + 1)
  BY <1>2, LenProperties
<1> HIDE DEF p, Passes
<1>4. ASSUME \A i \in DOMAIN p : Passes(p[i])
      PROVE  Passes(step) /\ \A i \in DOMAIN q : Passes(q[i])
  <2>1. 1 \in DOMAIN p /\ \A i \in 1..Len(q) : i + 1 \in DOMAIN p
    BY <1>3, SMT
  <2> QED
    BY <1>2, <1>3, <1>4, <2>1
<1>5. ASSUME Passes(step), \A i \in DOMAIN q : Passes(q[i]), NEW i \in DOMAIN p
      PROVE  Passes(p[i])
  <2>1. CASE i = 1
    BY <1>2, <1>5, <2>1
  <2>2. CASE i # 1
    <3>1. i - 1 \in 1..Len(q) /\ (i - 1) + 1 = i
      BY <1>3, <2>2, SMT
    <3>2. p[i] = q[i - 1]
      BY <1>2, <3>1
    <3> QED
      BY <1>3, <1>5, <3>1, <3>2
  <2> QED
    BY <2>1, <2>2
<1>6. /\ Open(p, hidden) <=> \A i \in DOMAIN p : Passes(p[i])
      /\ Open(q, hidden) <=> \A i \in DOMAIN q : Passes(q[i])
  BY DEF Open, Passes
<1>7. Open(p, hidden) <=> Passes(step) /\ Open(q, hidden)
  BY <1>4, <1>5, <1>6
<1>8. Open(<<>>, hidden)
  BY <1>1 DEF Open
<1> QED
  BY <1>7, <1>8 DEF p, Passes

\* The filtered document agrees with the document at one place.
Agrees(v, p, hidden) ==
    /\ p \in DOMAIN Places(FilterValue(v, hidden)) <=>
        p \in DOMAIN Places(v) /\ Open(p, hidden)
    /\ p \in DOMAIN Places(FilterValue(v, hidden)) =>
        Places(FilterValue(v, hidden))[p] = Places(v)[p]

\* It agrees at the top, and at any other place if it does where the first step
\* leads.
LEMMA AgreesOne ==
    ASSUME NEW hidden \in {r.scope.policy.sensitive : r \in Requests}, NEW v \in Values,
           NEW p \in Seq(Steps),
           p # <<>> => \A u \in Values : Agrees(u, Tail(p), hidden)
    PROVE  Agrees(v, p, hidden)
<1> DEFINE w == FilterValue(v, hidden)
<1>1. /\ w \in Values /\ Kind(w) = Kind(v)
      /\ DOMAIN Children(w) =
            {step \in DOMAIN Children(v) : step[2] = 0 => step[1] \notin hidden}
      /\ \A step \in DOMAIN Children(w) : Children(w)[step] = FilterValue(Children(v)[step], hidden)
  BY FilterOne
<1>2. CASE p = <<>>
  <2>1. 0 \in Nat
    BY SMT
  <2>2. Open(p, hidden)
    <3>1. <<"item", 0>> \in Steps /\ <<>> \in Seq(Steps)
      BY <1>2, <2>1 DEF Steps
    <3> QED
      BY <1>2, <3>1, OpenOne
  <2> HIDE DEF w
  <2>3. /\ p \in DOMAIN Places(w) /\ Places(w)[p] = Kind(w)
        /\ p \in DOMAIN Places(v) /\ Places(v)[p] = Kind(v)
    BY <1>1, <1>2, PlacesOne
  <2> QED
    BY <1>1, <2>2, <2>3 DEF Agrees, w
<1>3. CASE p # <<>>
  <2> DEFINE step == Head(p)
             q == Tail(p)
  <2>1. step \in Steps /\ q \in Seq(Steps) /\ p = <<step>> \o q
    BY <1>3, PlaceIsStepAndPlace
  <2>2. ASSUME NEW u \in Values
        PROVE  /\ p \in DOMAIN Places(u) <=>
                    step \in DOMAIN Children(u) /\ q \in DOMAIN Places(Children(u)[step])
               /\ p \in DOMAIN Places(u) => Places(u)[p] = Places(Children(u)[step])[q]
    <3>1. ASSUME p \in DOMAIN Places(u)
          PROVE  step \in DOMAIN Children(u) /\ q \in DOMAIN Places(Children(u)[step])
      BY <1>3, <3>1, PlacesOne
    <3>2. ASSUME step \in DOMAIN Children(u), q \in DOMAIN Places(Children(u)[step])
          PROVE  <<step>> \o q \in DOMAIN Places(u)
                 /\ Places(u)[<<step>> \o q] = Places(Children(u)[step])[q]
      <4> HIDE DEF step, q
      <4> QED
        BY <3>2, PlacesOne
    <3> QED
      BY <2>1, <3>1, <3>2
  <2>3. Open(p, hidden) <=> (step[2] = 0 => step[1] \notin hidden) /\ Open(q, hidden)
    BY <2>1, OpenOne
  <2>4. step \in DOMAIN Children(v) => Agrees(Children(v)[step], q, hidden)
    BY <1>3, PlacesOne
  <2> HIDE DEF w, step, q
  <2>5. step \in DOMAIN Children(w) <=>
            step \in DOMAIN Children(v) /\ (step[2] = 0 => step[1] \notin hidden)
    BY <1>1
  <2>6. step \in DOMAIN Children(w) =>
            Children(w)[step] = FilterValue(Children(v)[step], hidden)
    BY <1>1
  <2>7. step \in DOMAIN Children(w) =>
            /\ q \in DOMAIN Places(Children(w)[step]) <=>
                q \in DOMAIN Places(Children(v)[step]) /\ Open(q, hidden)
            /\ q \in DOMAIN Places(Children(w)[step]) =>
                Places(Children(w)[step])[q] = Places(Children(v)[step])[q]
    BY <2>4, <2>5, <2>6 DEF Agrees
  <2>8. p \in DOMAIN Places(w) <=> p \in DOMAIN Places(v) /\ Open(p, hidden)
    BY <1>1, <2>2, <2>3, <2>5, <2>7
  <2>9. p \in DOMAIN Places(w) => Places(w)[p] = Places(v)[p]
    BY <1>1, <2>2, <2>5, <2>7, <2>8
  <2> QED
    BY <2>8, <2>9 DEF Agrees, w
<1> QED
  BY <1>2, <1>3

\* The filtered document is what an open way leads to: a shortest place at which
\* it were not would have a shorter one behind its first step.
LEMMA FilterPlaces ==
    ASSUME NEW hidden \in {r.scope.policy.sensitive : r \in Requests}, NEW v \in Values
    PROVE  Places(FilterValue(v, hidden)) =
            Restrict(Places(v), {p \in DOMAIN Places(v) : Open(p, hidden)})
<1> DEFINE Wrong == {p \in Seq(Steps) : \E u \in Values : ~Agrees(u, p, hidden)}
           T == {Len(p) : p \in Wrong}
<1>1. Wrong = {}
  <2> SUFFICES ASSUME Wrong # {} PROVE FALSE
    OBVIOUS
  <2>1. T \subseteq Nat /\ T # {}
    <3>1. \A p \in Seq(Steps) : Len(p) \in Nat
      BY LenProperties
    <3> QED
      BY <3>1
  <2>2. PICK m \in T : \A k \in T : m <= k
    <3> HIDE DEF T
    <3> QED
      BY <2>1, LeastNatural
  <2>3. PICK p \in Wrong : m = Len(p)
    OBVIOUS
  <2>4. ASSUME p # <<>>, NEW u \in Values PROVE Agrees(u, Tail(p), hidden)
    <3>1. Tail(p) \in Seq(Steps) /\ p = <<Head(p)>> \o Tail(p) /\ Head(p) \in Steps
      BY <2>4, PlaceIsStepAndPlace
    <3>2. Len(p) = Len(Tail(p)) + 1
      BY <3>1, StepAndPlace
    <3>3. Len(Tail(p)) \in Nat
      BY <3>1, LenProperties
    <3>4. ~(m <= Len(Tail(p)))
      BY <2>3, <3>2, <3>3, SMT
    <3> QED
      BY <2>2, <3>1, <3>4
  <2> QED
    BY <2>3, <2>4, AgreesOne
<1> DEFINE w == FilterValue(v, hidden)
           open == {p \in DOMAIN Places(v) : Open(p, hidden)}
<1>2. w \in Values
  BY FilterOne
<1>3. \A p \in Seq(Steps) : Agrees(v, p, hidden)
  BY <1>1
<1>4. DOMAIN Places(w) \subseteq Seq(Steps) /\ DOMAIN Places(v) \subseteq Seq(Steps)
  BY <1>2, FilterAssumption
<1>5. DOMAIN Places(w) = open
  BY <1>3, <1>4 DEF Agrees
<1>6. \A p \in open : Places(w)[p] = Places(v)[p]
  BY <1>3, <1>4, <1>5 DEF Agrees
<1>7. Places(w) = [p \in DOMAIN Places(w) |-> Places(w)[p]]
  <2> HIDE DEF w
  <2> DEFINE below == [step \in DOMAIN Children(w) |-> Places(Children(w)[step])]
  <2>1. Places(w) = Tree(Kind(w), below)
    BY <1>2, FilterAssumption
  <2> HIDE DEF below
  <2> QED
    BY <2>1 DEF Tree
<1> HIDE DEF w, open
<1>8. Places(w) = [p \in open |-> Places(v)[p]]
  BY <1>5, <1>6, <1>7
<1> QED
  BY <1>8 DEF w, open, Restrict

\* The image of a finite set is no larger.
LEMMA ImageSize ==
    ASSUME NEW S, IsFiniteSet(S), NEW f
    PROVE  /\ IsFiniteSet({f[x] : x \in S})
           /\ Cardinality({f[x] : x \in S}) <= Cardinality(S)
<1> DEFINE T == {f[x] : x \in S}
           g == [x \in S |-> f[x]]
<1>1. g \in Surjection(S, T)
  BY DEF Surjection
<1> HIDE DEF T, g
<1>2. IsFiniteSet(T) /\ Cardinality(T) <= Cardinality(S)
  BY <1>1, FS_Surjection
<1> QED
  BY <1>2 DEF T

\* What is covered by two finite sets is no larger than both.
LEMMA CoverSize ==
    ASSUME NEW S, IsFiniteSet(S), NEW T, IsFiniteSet(T), NEW U, U \subseteq S \cup T
    PROVE  /\ IsFiniteSet(U) /\ Cardinality(U) \in Nat
           /\ Cardinality(U) <= Cardinality(S) + Cardinality(T)
<1>1. /\ IsFiniteSet(S \cup T)
      /\ Cardinality(S \cup T) = Cardinality(S) + Cardinality(T) - Cardinality(S \cap T)
  BY FS_Union
<1>2. IsFiniteSet(U) /\ Cardinality(U) <= Cardinality(S \cup T)
  BY <1>1, FS_Subset
<1>3. IsFiniteSet(S \cap T)
  BY FS_Intersection
<1>4. /\ Cardinality(S) \in Nat /\ Cardinality(T) \in Nat /\ Cardinality(S \cap T) \in Nat
      /\ Cardinality(U) \in Nat
  BY <1>2, <1>3, FS_CardinalityType
<1> QED
  BY <1>1, <1>2, <1>4, SMT

\* What lies behind a step has fewer places.
LEMMA BehindIsSmaller ==
    ASSUME NEW v \in Values, NEW step \in DOMAIN Children(v)
    PROVE  Cardinality(DOMAIN Places(Children(v)[step])) < Cardinality(DOMAIN Places(v))
<1> DEFINE child == Children(v)[step]
           D == DOMAIN Places(v) \ {<<>>}
           f == [p \in D |-> Tail(p)]
           T == {f[p] : p \in D}
<1>1. /\ IsFiniteSet(DOMAIN Places(v)) /\ <<>> \in DOMAIN Places(v)
      /\ step \in Steps /\ child \in Values
  BY FilterAssumption, PlacesOne
<1>2. IsFiniteSet(D) /\ Cardinality(D) = Cardinality(DOMAIN Places(v)) - 1
  BY <1>1, FS_RemoveElement
<1>3. IsFiniteSet(T) /\ Cardinality(T) <= Cardinality(D)
  <2> HIDE DEF D, f
  <2> QED
    BY <1>2, ImageSize
<1>4. DOMAIN Places(child) \subseteq T
  <2> SUFFICES ASSUME NEW q \in DOMAIN Places(child) PROVE q \in T
    OBVIOUS
  <2>1. /\ q \in Seq(Steps) /\ <<step>> \o q \in DOMAIN Places(v)
    BY PlacesOne
  <2>2. <<step>> \o q # <<>> /\ Tail(<<step>> \o q) = q
    BY <1>1, <2>1, StepAndPlace
  <2> DEFINE p == <<step>> \o q
  <2>3. p \in D /\ Tail(p) = q
    BY <2>1, <2>2
  <2> HIDE DEF p, D
  <2>4. f[p] = q
    BY <2>3
  <2> QED
    BY <2>3, <2>4
<1> HIDE DEF D, T, child
<1>5. IsFiniteSet(DOMAIN Places(child)) /\ Cardinality(DOMAIN Places(child)) <= Cardinality(T)
  BY <1>3, <1>4, FS_Subset
<1>6. /\ Cardinality(D) \in Nat /\ Cardinality(T) \in Nat
      /\ Cardinality(DOMAIN Places(v)) \in Nat /\ Cardinality(DOMAIN Places(child)) \in Nat
  BY <1>1, <1>2, <1>3, <1>5, FS_CardinalityType
<1>7. Cardinality(DOMAIN Places(child)) < Cardinality(DOMAIN Places(v))
  BY <1>2, <1>3, <1>5, <1>6, SMT
<1> QED
  BY <1>7 DEF child

\* The document r is v without what one step leads to.
Lacks(r, v, step) ==
    /\ r \in Values /\ step \in DOMAIN Children(v)
    /\ DOMAIN Children(r) = DOMAIN Children(v) \ {step}
    /\ \A s \in DOMAIN Children(r) : Children(r)[s] = Children(v)[s]

\* It has fewer places, and lacks only those behind the step.
LEMMA RestIsSmaller ==
    ASSUME NEW v \in Values, NEW r, NEW step, Lacks(r, v, step)
    PROVE  /\ Cardinality(DOMAIN Places(r)) < Cardinality(DOMAIN Places(v))
           /\ \A p \in DOMAIN Places(v) :
                \/ p \in DOMAIN Places(r)
                \/ \E q \in DOMAIN Places(Children(v)[step]) : p = <<step>> \o q
<1>1. /\ r \in Values /\ step \in DOMAIN Children(v)
      /\ DOMAIN Children(r) = DOMAIN Children(v) \ {step}
      /\ \A s \in DOMAIN Children(r) : Children(r)[s] = Children(v)[s]
  BY DEF Lacks
<1>2. ASSUME NEW p \in DOMAIN Places(r) PROVE p \in DOMAIN Places(v)
  <2>1. CASE p = <<>>
    BY <2>1, PlacesOne
  <2>2. CASE p # <<>>
    <3>1. /\ Head(p) \in DOMAIN Children(r)
          /\ Tail(p) \in DOMAIN Places(Children(r)[Head(p)])
          /\ p = <<Head(p)>> \o Tail(p)
      BY <1>1, <1>2, <2>2, PlacesOne
    <3>2. /\ Head(p) \in DOMAIN Children(v)
          /\ Tail(p) \in DOMAIN Places(Children(v)[Head(p)])
      BY <1>1, <3>1
    <3>3. <<Head(p)>> \o Tail(p) \in DOMAIN Places(v)
      BY <3>2, PlacesOne
    <3> QED
      BY <3>1, <3>3
  <2> QED
    BY <2>1, <2>2
<1>3. ASSUME NEW p \in DOMAIN Places(v), p \notin DOMAIN Places(r)
      PROVE  \E q \in DOMAIN Places(Children(v)[step]) : p = <<step>> \o q
  <2>1. p # <<>>
    BY <1>1, <1>3, PlacesOne
  <2>2. /\ Head(p) \in DOMAIN Children(v)
        /\ Tail(p) \in DOMAIN Places(Children(v)[Head(p)])
        /\ p = <<Head(p)>> \o Tail(p)
    BY <2>1, PlacesOne
  <2>3. ASSUME Head(p) # step PROVE FALSE
    <3>1. /\ Head(p) \in DOMAIN Children(r)
          /\ Tail(p) \in DOMAIN Places(Children(r)[Head(p)])
      BY <1>1, <2>2, <2>3
    <3>2. <<Head(p)>> \o Tail(p) \in DOMAIN Places(r)
      BY <1>1, <3>1, PlacesOne
    <3> QED
      BY <1>3, <2>2, <3>2
  <2> QED
    BY <2>2, <2>3
<1>4. \E p \in DOMAIN Places(v) : p \notin DOMAIN Places(r)
  <2>1. step \in Steps /\ Children(v)[step] \in Values /\ <<>> \in DOMAIN Places(Children(v)[step])
    BY <1>1, PlacesOne
  <2>2. <<step>> \o <<>> \in DOMAIN Places(v) /\ <<>> \in Seq(Steps)
    BY <1>1, <2>1, PlacesOne
  <2>3. <<step>> \o <<>> # <<>> /\ Head(<<step>> \o <<>>) = step
    BY <2>1, <2>2, StepAndPlace
  <2> DEFINE p == <<step>> \o <<>>
  <2>4. p \in DOMAIN Places(v) /\ p # <<>> /\ Head(p) = step
    BY <2>2, <2>3
  <2> HIDE DEF p
  <2>5. p \notin DOMAIN Places(r)
    BY <1>1, <2>4, PlacesOne
  <2> QED
    BY <2>4, <2>5
<1>5. IsFiniteSet(DOMAIN Places(v)) /\ DOMAIN Places(r) \subseteq DOMAIN Places(v)
  BY <1>2, FilterAssumption
<1>6. /\ IsFiniteSet(DOMAIN Places(r))
      /\ Cardinality(DOMAIN Places(r)) <= Cardinality(DOMAIN Places(v))
      /\ Cardinality(DOMAIN Places(r)) # Cardinality(DOMAIN Places(v))
  BY <1>4, <1>5, FS_Subset
<1>7. Cardinality(DOMAIN Places(r)) \in Nat /\ Cardinality(DOMAIN Places(v)) \in Nat
  BY <1>5, <1>6, FS_CardinalityType
<1>8. Cardinality(DOMAIN Places(r)) < Cardinality(DOMAIN Places(v))
  BY <1>6, <1>7, SMT
<1> QED
  BY <1>3, <1>8

\* A point behind a step is one of what lies there, or the step adds it.
LEMMA PointOne ==
    ASSUME NEW step \in Steps, NEW q \in Seq(Steps), HoldsPoint(<<step>> \o q)
    PROVE  \/ HoldsPoint(q)
           \/ q = <<>> /\ step = <<"value", 0>>
           \/ Len(q) = 1 /\ step = <<"values", 0>> /\ q[1][2] > 0
<1> DEFINE p == <<step>> \o q
           n == Len(q)
           Value(s) == s = <<"value", 0>>
           Ranged(s) == s = <<"values", 0>>
           Positive(s) == s[2] > 0
<1>1. /\ p \in Seq(Steps) /\ Len(p) = n + 1
      /\ p[1] = step /\ \A i \in 1..n : p[i + 1] = q[i]
  BY StepAndPlace
<1>2. n \in Nat /\ (q # <<>> => n # 0)
  BY LenProperties, EmptySeq
<1>3. \/ Value(p[Len(p)])
      \/ Len(p) > 1 /\ Positive(p[Len(p)]) /\ Ranged(p[Len(p) - 1])
  BY DEF HoldsPoint
<1>4. q # <<>> /\ (Value(q[n]) \/ (n > 1 /\ Positive(q[n]) /\ Ranged(q[n - 1]))) => HoldsPoint(q)
  BY DEF HoldsPoint
<1> HIDE DEF p, n, Value, Ranged, Positive
<1>5. CASE q = <<>>
  <2>1. n = 0
    BY <1>5, EmptySeq DEF n
  <2>2. Len(p) = 1 /\ ~(Len(p) > 1)
    BY <1>1, <2>1, SMT
  <2> QED
    BY <1>1, <1>3, <1>5, <2>2 DEF Value
<1>6. CASE q # <<>>
  <2>1. n \in 1..n /\ Len(p) = n + 1 /\ Len(p) - 1 = n
    BY <1>1, <1>2, <1>6, SMT
  <2>2. p[Len(p)] = q[n]
    BY <1>1, <2>1
  <2>3. CASE Value(q[n])
    BY <1>4, <1>6, <2>3
  <2>4. CASE Positive(q[n]) /\ Ranged(p[n])
    <3>1. CASE n = 1
      BY <1>1, <2>4, <3>1 DEF n, Positive, Ranged
    <3>2. CASE n # 1
      <4>1. n > 1 /\ n - 1 \in 1..n /\ (n - 1) + 1 = n
        BY <1>2, <1>6, <3>2, SMT
      <4>2. p[n] = q[n - 1]
        BY <1>1, <4>1
      <4> QED
        BY <1>4, <1>6, <2>4, <4>1, <4>2
    <3> QED
      BY <3>1, <3>2
  <2> QED
    BY <1>3, <2>1, <2>2, <2>3, <2>4
<1> QED
  BY <1>5, <1>6

\* The places of a document that hold a point and to which the way is open.
Points(v, hidden) == {p \in DOMAIN Places(v) : Open(p, hidden) /\ HoldsPoint(p)}

\* The places at which a step adds a point to a document.
Added(step, child) ==
    {<<step>> \o q : q \in {r \in DOMAIN Places(child) :
        \/ r = <<>> /\ step = <<"value", 0>>
        \/ Len(r) = 1 /\ step = <<"values", 0>> /\ r[1][2] > 0}}

\* A key adds no more points than it counts for.
LEMMA KeyAdds ==
    ASSUME NEW child \in Values, NEW key
    PROVE  /\ IsFiniteSet(Added(<<key, 0>>, child))
           /\ Adds(key, child) \in Nat
           /\ Cardinality(Added(<<key, 0>>, child)) <= Adds(key, child)
<1> DEFINE step == <<key, 0>>
           A == Added(step, child)
<1>1. \A k : step = <<k, 0>> <=> key = k
  BY SMT
<1>2. CASE key = "value"
  <2>1. step = <<"value", 0>> /\ step # <<"values", 0>>
    BY <1>1, <1>2
  <2> HIDE DEF step
  <2>2. A \subseteq {<<step>> \o <<>>}
    BY <2>1 DEF Added
  <2>3. Adds(key, child) = 1
    BY <1>2 DEF Adds
  <2> HIDE DEF A
  <2>4. /\ IsFiniteSet({<<step>> \o <<>>}) /\ Cardinality({<<step>> \o <<>>}) = 1
    BY FS_Singleton
  <2>5. IsFiniteSet(A) /\ Cardinality(A) <= 1
    BY <2>2, <2>4, FS_Subset
  <2>6. 1 \in Nat
    BY SMT
  <2> QED
    BY <2>3, <2>5, <2>6 DEF A, step
<1>3. CASE key = "values" /\ child.t = "list"
  <2>1. step # <<"value", 0>>
    BY <1>1, <1>3
  <2> HIDE DEF step
  <2> DEFINE n == Len(child.items)
             f == [i \in 1..n |-> <<step>> \o << <<"item", i>> >>]
             T == {f[i] : i \in 1..n}
  <2>2. n \in Nat /\ DOMAIN child.items = 1..n
    BY <1>3, FilterAssumption
  <2>3. Adds(key, child) = n
    BY <1>3 DEF Adds
  <2>4. ASSUME NEW r \in DOMAIN Places(child), Len(r) = 1
        PROVE  \E i \in 1..n : r = << <<"item", i>> >>
    <3>1. r \in Seq(Steps)
      BY FilterAssumption
    <3>2. r # <<>> /\ r = <<Head(r)>>
      BY <2>4, <3>1, OneStep
    <3>3. Head(r) \in DOMAIN Children(child)
      BY <3>2, PlacesOne
    <3>4. DOMAIN Children(child) = {<<"item", i>> : i \in 1..n}
      BY <1>3, <2>2, ChildrenOf
    <3> QED
      BY <3>2, <3>3, <3>4
  <2>5. A \subseteq T
    <3> SUFFICES ASSUME NEW a \in A PROVE a \in T
      OBVIOUS
    <3>1. PICK r \in DOMAIN Places(child) : a = <<step>> \o r /\ Len(r) = 1
      BY <2>1 DEF Added
    <3>2. PICK i \in 1..n : r = << <<"item", i>> >>
      BY <2>4, <3>1
    <3>3. f[i] = <<step>> \o << <<"item", i>> >>
      OBVIOUS
    <3> HIDE DEF f
    <3> QED
      BY <3>1, <3>2, <3>3
  <2>6. IsFiniteSet(1..n) /\ Cardinality(1..n) = n
    <3>1. n \in Int /\ 1 \in Int
      BY <2>2, SMT
    <3>2. IsFiniteSet(1..n) /\ Cardinality(1..n) = IF 1 > n THEN 0 ELSE n - 1 + 1
      BY <3>1, FS_Interval
    <3> HIDE DEF n
    <3> QED
      BY <2>2, <3>2, SMT
  <2> HIDE DEF A, f, n
  <2>7. IsFiniteSet(T) /\ Cardinality(T) <= n
    BY <2>6, ImageSize
  <2> HIDE DEF T
  <2>8. IsFiniteSet(A) /\ Cardinality(A) <= Cardinality(T)
    BY <2>5, <2>7, FS_Subset
  <2>9. Cardinality(A) \in Nat /\ Cardinality(T) \in Nat
    BY <2>7, <2>8, FS_CardinalityType
  <2>10. Cardinality(A) <= n
    BY <2>2, <2>7, <2>8, <2>9, SMT
  <2> QED
    BY <2>2, <2>3, <2>8, <2>10 DEF A, step
<1>4. CASE key # "value" /\ ~(key = "values" /\ child.t = "list")
  <2>1. Adds(key, child) = 0
    BY <1>4 DEF Adds
  <2>2. step # <<"value", 0>> /\ (step = <<"values", 0>> => child.t # "list")
    BY <1>1, <1>4
  <2> HIDE DEF step
  <2>3. ASSUME NEW r \in DOMAIN Places(child), Len(r) = 1, child.t # "list" PROVE ~(r[1][2] > 0)
    <3>1. r \in Seq(Steps)
      BY FilterAssumption
    <3>2. r # <<>> /\ r[1] = Head(r)
      BY <2>3, <3>1, OneStep
    <3>3. Head(r) \in DOMAIN Children(child)
      BY <3>2, PlacesOne
    <3>4. child.t = "map"
      BY <2>3, <3>3, ChildrenOf
    <3>5. DOMAIN Children(child) = {<<k, 0>> : k \in DOMAIN child.fields}
      BY <3>4, ChildrenOf
    <3>6. PICK k : Head(r) = <<k, 0>>
      BY <3>3, <3>5
    <3>7. Head(r)[2] = 0
      BY <3>6, SMT
    <3>8. ~(0 > 0)
      BY SMT
    <3> QED
      BY <3>2, <3>7, <3>8
  <2>4. A = {}
    BY <2>2, <2>3 DEF Added
  <2> HIDE DEF A
  <2>5. IsFiniteSet({}) /\ Cardinality({}) = 0
    BY FS_EmptySet
  <2>6. 0 \in Nat /\ 0 <= 0
    BY SMT
  <2> QED
    BY <2>1, <2>4, <2>5, <2>6 DEF A, step
<1> QED
  BY <1>2, <1>3, <1>4

\* The points of a document are those of the rest and, if the step is open, those
\* of what lies behind it and those that it adds.
LEMMA PointsOne ==
    ASSUME NEW v \in Values, NEW r, NEW step, Lacks(r, v, step), NEW hidden
    PROVE  \A p \in Points(v, hidden) :
            \/ p \in Points(r, hidden)
            \/ /\ step[2] = 0 => step[1] \notin hidden
               /\ \/ \E q \in Points(Children(v)[step], hidden) : p = <<step>> \o q
                  \/ p \in Added(step, Children(v)[step])
<1> SUFFICES ASSUME NEW p \in Points(v, hidden), p \notin Points(r, hidden)
             PROVE  /\ step[2] = 0 => step[1] \notin hidden
                    /\ \/ \E q \in Points(Children(v)[step], hidden) : p = <<step>> \o q
                       \/ p \in Added(step, Children(v)[step])
  OBVIOUS
<1> DEFINE child == Children(v)[step]
<1>1. p \in DOMAIN Places(v) /\ Open(p, hidden) /\ HoldsPoint(p)
  BY DEF Points
<1>2. p \notin DOMAIN Places(r)
  BY <1>1 DEF Points
<1>3. PICK q \in DOMAIN Places(child) : p = <<step>> \o q
  <2>1. \A x \in DOMAIN Places(v) :
            \/ x \in DOMAIN Places(r)
            \/ \E q \in DOMAIN Places(child) : x = <<step>> \o q
    BY RestIsSmaller
  <2> QED
    BY <1>1, <1>2, <2>1
<1>4. step \in Steps /\ child \in Values /\ q \in Seq(Steps)
  BY PlacesOne DEF Lacks
<1> HIDE DEF child
<1>5. (step[2] = 0 => step[1] \notin hidden) /\ Open(q, hidden)
  BY <1>1, <1>3, <1>4, OpenOne
<1>6. \/ HoldsPoint(q)
      \/ q = <<>> /\ step = <<"value", 0>>
      \/ Len(q) = 1 /\ step = <<"values", 0>> /\ q[1][2] > 0
  BY <1>1, <1>3, <1>4, PointOne
<1>7. HoldsPoint(q) => q \in Points(child, hidden)
  BY <1>5 DEF Points
<1>8. ~HoldsPoint(q) => p \in Added(step, child)
  BY <1>3, <1>6 DEF Added
<1> QED
  BY <1>3, <1>5, <1>7, <1>8 DEF child

\* A document without one of its keys, or without the last entry of a list.
LEMMA LacksOne ==
    ASSUME NEW hidden \in {r.scope.policy.sensitive : r \in Requests}, NEW v \in Values
    PROVE  /\ v.t = "map" => \A key \in DOMAIN v.fields : Lacks(Without(v, key), v, <<key, 0>>)
           /\ v.t = "list" /\ Len(v.items) > 0 => Lacks(Front(v), v, <<"item", Len(v.items)>>)
<1>1. ASSUME v.t = "map", NEW key \in DOMAIN v.fields
      PROVE  Lacks(Without(v, key), v, <<key, 0>>)
  <2> DEFINE f == [k \in DOMAIN v.fields \ {key} |-> v.fields[k]]
             r == Without(v, key)
             step == <<key, 0>>
  <2>1. r = [t |-> "map", fields |-> f]
    BY DEF Without, Map, Restrict
  <2>2. /\ DOMAIN f = DOMAIN v.fields \ {key}
        /\ \A k \in DOMAIN v.fields \ {key} : f[k] = v.fields[k]
    OBVIOUS
  <2> HIDE DEF f
  <2>3. r.t = "map" /\ r.fields = f
    BY <2>1, SMT
  <2>4. r \in Values
    BY <1>1, FilterAssumption
  <2> HIDE DEF r
  <2>5. /\ DOMAIN Children(r) = {<<k, 0>> : k \in DOMAIN v.fields \ {key}}
        /\ \A k \in DOMAIN v.fields \ {key} : Children(r)[<<k, 0>>] = v.fields[k]
    BY <2>2, <2>3, ChildrenOf
  <2>6. /\ DOMAIN Children(v) = {<<k, 0>> : k \in DOMAIN v.fields}
        /\ \A k \in DOMAIN v.fields : Children(v)[<<k, 0>>] = v.fields[k]
    BY <1>1, ChildrenOf
  <2>7. \A k : step = <<k, 0>> <=> key = k
    BY SMT
  <2>8. step \in DOMAIN Children(v)
    BY <1>1, <2>6
  <2> HIDE DEF step
  <2>9. DOMAIN Children(r) = DOMAIN Children(v) \ {step}
    <3>1. ASSUME NEW s \in DOMAIN Children(r) PROVE s \in DOMAIN Children(v) \ {step}
      <4>1. PICK k \in DOMAIN v.fields \ {key} : s = <<k, 0>>
        BY <2>5
      <4> QED
        BY <2>6, <2>7, <4>1
    <3>2. ASSUME NEW s \in DOMAIN Children(v) \ {step} PROVE s \in DOMAIN Children(r)
      <4>1. PICK k \in DOMAIN v.fields : s = <<k, 0>>
        BY <2>6
      <4> QED
        BY <2>5, <2>7, <4>1
    <3> QED
      BY <3>1, <3>2
  <2>10. ASSUME NEW s \in DOMAIN Children(r) PROVE Children(r)[s] = Children(v)[s]
    <3>1. PICK k \in DOMAIN v.fields \ {key} : s = <<k, 0>>
      BY <2>5
    <3> QED
      BY <2>5, <2>6, <3>1
  <2> QED
    BY <2>4, <2>8, <2>9, <2>10 DEF Lacks, r, step
<1>2. ASSUME v.t = "list", Len(v.items) > 0
      PROVE  Lacks(Front(v), v, <<"item", Len(v.items)>>)
  <2> DEFINE n == Len(v.items)
             f == [i \in 1..(n - 1) |-> v.items[i]]
             r == Front(v)
             step == <<"item", n>>
  <2>1. r = [t |-> "list", items |-> f]
    BY DEF Front, List, Restrict
  <2>2. DOMAIN f = 1..(n - 1) /\ \A i \in 1..(n - 1) : f[i] = v.items[i]
    OBVIOUS
  <2> HIDE DEF f
  <2>3. r.t = "list" /\ r.items = f
    BY <2>1, SMT
  <2>4. r \in Values /\ n \in Nat /\ DOMAIN v.items = 1..n
    BY <1>2, FilterAssumption
  <2> HIDE DEF r
  <2>5. /\ DOMAIN Children(r) = {<<"item", i>> : i \in 1..(n - 1)}
        /\ \A i \in 1..(n - 1) : Children(r)[<<"item", i>>] = v.items[i]
    BY <2>2, <2>3, ChildrenOf
  <2>6. /\ DOMAIN Children(v) = {<<"item", i>> : i \in 1..n}
        /\ \A i \in 1..n : Children(v)[<<"item", i>>] = v.items[i]
    BY <1>2, <2>4, ChildrenOf
  <2>7. \A i : step = <<"item", i>> <=> n = i
    BY SMT
  <2>8. n > 0
    BY <1>2
  <2> HIDE DEF n
  <2>9. n \in 1..n /\ \A i : i \in 1..(n - 1) <=> i \in 1..n /\ i # n
    BY <2>4, <2>8, SMT
  <2>10. step \in DOMAIN Children(v)
    BY <2>6, <2>9
  <2> HIDE DEF step
  <2>11. DOMAIN Children(r) = DOMAIN Children(v) \ {step}
    <3>1. ASSUME NEW s \in DOMAIN Children(r) PROVE s \in DOMAIN Children(v) \ {step}
      <4>1. PICK i \in 1..(n - 1) : s = <<"item", i>>
        BY <2>5
      <4> QED
        BY <2>6, <2>7, <2>9, <4>1
    <3>2. ASSUME NEW s \in DOMAIN Children(v) \ {step} PROVE s \in DOMAIN Children(r)
      <4>1. PICK i \in 1..n : s = <<"item", i>>
        BY <2>6
      <4> QED
        BY <2>5, <2>7, <2>9, <4>1
    <3> QED
      BY <3>1, <3>2
  <2>12. ASSUME NEW s \in DOMAIN Children(r) PROVE Children(r)[s] = Children(v)[s]
    <3>1. PICK i \in 1..(n - 1) : s = <<"item", i>>
      BY <2>5
    <3> QED
      BY <2>5, <2>6, <2>9, <3>1
  <2> QED
    BY <2>4, <2>10, <2>11, <2>12 DEF Lacks, r, step, n
<1> QED
  BY <1>1, <1>2

\* One step adds at most what it counts for to what the rest and what lies behind
\* it have been counted to hold.
LEMMA PointsAdd ==
    ASSUME NEW v \in Values, NEW r, NEW step, Lacks(r, v, step), NEW hidden,
           IsFiniteSet(Added(step, Children(v)[step]))
    PROVE  /\ (step[2] = 0 => step[1] \notin hidden) =>
                Cardinality(Points(v, hidden)) <=
                    Cardinality(Points(r, hidden))
                    + (Cardinality(Added(step, Children(v)[step]))
                       + Cardinality(Points(Children(v)[step], hidden)))
           /\ ~(step[2] = 0 => step[1] \notin hidden) =>
                Cardinality(Points(v, hidden)) <= Cardinality(Points(r, hidden))
<1> DEFINE child == Children(v)[step]
           f == [q \in Points(child, hidden) |-> <<step>> \o q]
           B == {f[q] : q \in Points(child, hidden)}
           A == Added(step, child)
<1>1. r \in Values /\ child \in Values
  BY PlacesOne DEF Lacks
<1>2. ASSUME NEW u \in Values
      PROVE  IsFiniteSet(Points(u, hidden)) /\ Cardinality(Points(u, hidden)) \in Nat
  <2>1. IsFiniteSet(DOMAIN Places(u)) /\ Points(u, hidden) \subseteq DOMAIN Places(u)
    BY FilterAssumption DEF Points
  <2>2. IsFiniteSet(Points(u, hidden))
    BY <2>1, FS_Subset
  <2> QED
    BY <2>2, FS_CardinalityType
<1>3. \A p \in Points(v, hidden) :
        \/ p \in Points(r, hidden)
        \/ /\ step[2] = 0 => step[1] \notin hidden
           /\ p \in A \cup B
  <2>1. ASSUME NEW q \in Points(child, hidden) PROVE <<step>> \o q \in B
    <3>1. f[q] = <<step>> \o q
      OBVIOUS
    <3> HIDE DEF f
    <3> QED
      BY <3>1
  <2> HIDE DEF B
  <2>2. \A p \in Points(v, hidden) :
            \/ p \in Points(r, hidden)
            \/ /\ step[2] = 0 => step[1] \notin hidden
               /\ \/ \E q \in Points(child, hidden) : p = <<step>> \o q
                  \/ p \in A
    BY PointsOne
  <2> HIDE DEF A
  <2> QED
    BY <2>1, <2>2
<1> HIDE DEF child, f
<1>4. /\ IsFiniteSet(B) /\ Cardinality(B) \in Nat
      /\ Cardinality(B) <= Cardinality(Points(child, hidden))
  <2>1. IsFiniteSet(B) /\ Cardinality(B) <= Cardinality(Points(child, hidden))
    BY <1>1, <1>2, ImageSize
  <2> QED
    BY <2>1, FS_CardinalityType
<1>5. IsFiniteSet(A) /\ Cardinality(A) \in Nat
  BY FS_CardinalityType DEF child
<1> HIDE DEF A, B
<1>6. /\ IsFiniteSet(A \cup B) /\ Cardinality(A \cup B) \in Nat
      /\ Cardinality(A \cup B) <= Cardinality(A) + Cardinality(B)
  BY <1>4, <1>5, CoverSize
<1>7. ASSUME step[2] = 0 => step[1] \notin hidden
      PROVE  Cardinality(Points(v, hidden)) <=
                Cardinality(Points(r, hidden)) + (Cardinality(A) + Cardinality(Points(child, hidden)))
  <2>1. Cardinality(Points(v, hidden)) <= Cardinality(Points(r, hidden)) + Cardinality(A \cup B)
    <3>1. Points(v, hidden) \subseteq Points(r, hidden) \cup (A \cup B)
      BY <1>3
    <3> QED
      BY <1>1, <1>2, <1>6, <3>1, CoverSize
  <2> QED
    BY <1>1, <1>2, <1>4, <1>5, <1>6, <2>1, SMT
<1>8. ASSUME ~(step[2] = 0 => step[1] \notin hidden)
      PROVE  Cardinality(Points(v, hidden)) <= Cardinality(Points(r, hidden))
  <2>1. Points(v, hidden) \subseteq Points(r, hidden)
    BY <1>3, <1>8
  <2> QED
    BY <1>1, <1>2, <2>1, FS_Subset
<1> QED
  BY <1>7, <1>8 DEF A, child

\* The walk counts every point that it keeps (filterValue): a smallest document of
\* which it did not would have a part of which it did not.
LEMMA CountsAll ==
    ASSUME NEW hidden \in {r.scope.policy.sensitive : r \in Requests}, NEW v \in Values
    PROVE  Cardinality(Points(v, hidden)) <= SampleCount(v, hidden)
<1> DEFINE Size(u) == Cardinality(DOMAIN Places(u))
           Held(u) == Cardinality(Points(u, hidden))
           Bounded(u) == Held(u) <= SampleCount(u, hidden)
           Wrong == {u \in Values : ~Bounded(u)}
           T == {Size(u) : u \in Wrong}
<1>1. SUFFICES ASSUME Wrong # {} PROVE FALSE
  OBVIOUS
<1>2. ASSUME NEW u \in Values
      PROVE  Size(u) \in Nat /\ Held(u) \in Nat /\ SampleCount(u, hidden) \in Nat
  <2>1. /\ IsFiniteSet(DOMAIN Places(u)) /\ Points(u, hidden) \subseteq DOMAIN Places(u)
        /\ SampleCount(u, hidden) \in Nat
    BY FilterAssumption DEF Points
  <2>2. IsFiniteSet(Points(u, hidden))
    BY <2>1, FS_Subset
  <2> QED
    BY <2>1, <2>2, FS_CardinalityType
<1> HIDE DEF Size, Bounded
<1>3. T \subseteq Nat /\ T # {}
  BY <1>1, <1>2
<1>4. PICK m \in T : \A k \in T : m <= k
  <2> HIDE DEF T
  <2> QED
    BY <1>3, LeastNatural
<1>5. PICK u \in Wrong : m = Size(u)
  BY <1>4
<1>6. u \in Values /\ ~Bounded(u)
  BY <1>5
<1>7. ASSUME NEW w \in Values, Size(w) < Size(u) PROVE Bounded(w)
  <2>1. ~(m <= Size(w))
    BY <1>2, <1>5, <1>6, <1>7, SMT
  <2> QED
    BY <1>4, <2>1
<1>8. ASSUME NEW r, NEW step, Lacks(r, u, step)
      PROVE  /\ r \in Values /\ Children(u)[step] \in Values
             /\ Bounded(r) /\ Bounded(Children(u)[step])
  <2>1. r \in Values /\ step \in DOMAIN Children(u) /\ Children(u)[step] \in Values
    BY <1>6, <1>8, PlacesOne DEF Lacks
  <2>2. Size(r) < Size(u) /\ Size(Children(u)[step]) < Size(u)
    BY <1>6, <1>8, <2>1, RestIsSmaller, BehindIsSmaller DEF Size
  <2> QED
    BY <1>7, <2>1, <2>2
<1>9. CASE u.t = "map" /\ \E key : key \in DOMAIN u.fields
  <2>1. PICK key : key \in DOMAIN u.fields
    BY <1>9
  <2> DEFINE r == Without(u, key)
             step == <<key, 0>>
             child == Children(u)[step]
             A == Added(step, child)
  <2>2. Lacks(r, u, step)
    BY <1>6, <1>9, <2>1, LacksOne
  <2>3. child = u.fields[key] /\ step[1] = key /\ step[2] = 0
    <3>1. Children(u)[<<key, 0>>] = u.fields[key]
      BY <1>9, <2>1, ChildrenOf
    <3>2. <<key, 0>>[1] = key /\ <<key, 0>>[2] = 0
      BY SMT
    <3> QED
      BY <3>1, <3>2
  <2>4. /\ r \in Values /\ child \in Values /\ Bounded(r) /\ Bounded(child)
    BY <1>8, <2>2
  <2>5. SampleCount(u, hidden) = SampleCount(r, hidden)
            + (IF key \in hidden THEN 0 ELSE Adds(key, child) + SampleCount(child, hidden))
    <3>1. SampleCount(u, hidden) = SampleCount(Without(u, key), hidden)
            + (IF key \in hidden THEN 0
               ELSE Adds(key, u.fields[key]) + SampleCount(u.fields[key], hidden))
      BY <1>6, <1>9, <2>1, FilterAssumption
    <3> HIDE DEF child
    <3> QED
      BY <2>3, <3>1
  <2>6. IsFiniteSet(A) /\ Adds(key, child) \in Nat /\ Cardinality(A) <= Adds(key, child)
    BY <2>4, KeyAdds
  <2>7. Cardinality(A) \in Nat
    BY <2>6, FS_CardinalityType
  <2>8. /\ key \notin hidden => Held(u) <= Held(r) + (Cardinality(A) + Held(child))
        /\ key \in hidden => Held(u) <= Held(r)
    <3>1. /\ (step[2] = 0 => step[1] \notin hidden) =>
                Held(u) <= Held(r) + (Cardinality(A) + Held(child))
          /\ ~(step[2] = 0 => step[1] \notin hidden) => Held(u) <= Held(r)
      <4> HIDE DEF step, r
      <4> QED
        BY <1>6, <2>2, <2>6, PointsAdd
    <3> QED
      BY <2>3, <3>1
  <2>9. /\ Held(u) \in Nat /\ Held(r) \in Nat /\ Held(child) \in Nat
        /\ SampleCount(r, hidden) \in Nat /\ SampleCount(child, hidden) \in Nat
        /\ SampleCount(u, hidden) \in Nat
    BY <1>2, <1>6, <2>4
  <2>10. Held(r) <= SampleCount(r, hidden) /\ Held(child) <= SampleCount(child, hidden)
    BY <2>4 DEF Bounded
  <2> HIDE DEF r, step, child, A, Held
  <2>11. Held(u) <= SampleCount(u, hidden)
    BY <2>5, <2>6, <2>7, <2>8, <2>9, <2>10, SMT
  <2> QED
    BY <1>6, <2>11 DEF Bounded
<1>10. CASE u.t = "list" /\ Len(u.items) > 0
  <2> DEFINE n == Len(u.items)
             r == Front(u)
             step == <<"item", n>>
             child == Children(u)[step]
             A == Added(step, child)
  <2>1. Lacks(r, u, step)
    BY <1>6, <1>10, LacksOne
  <2>2. n \in Nat /\ DOMAIN u.items = 1..n /\ n # 0 /\ n \in 1..n
    <3>1. n \in Nat /\ DOMAIN u.items = 1..n /\ n > 0
      BY <1>6, <1>10, FilterAssumption
    <3> HIDE DEF n
    <3> QED
      BY <3>1, SMT
  <2>3. child = u.items[n] /\ step[2] = n
    <3>1. Children(u)[<<"item", n>>] = u.items[n]
      BY <1>10, <2>2, ChildrenOf
    <3>2. <<"item", n>>[2] = n
      BY SMT
    <3> QED
      BY <3>1, <3>2
  <2>4. r \in Values /\ child \in Values /\ Bounded(r) /\ Bounded(child)
    BY <1>8, <2>1
  <2>5. SampleCount(u, hidden) = SampleCount(r, hidden) + SampleCount(child, hidden)
    <3>1. SampleCount(u, hidden) =
            SampleCount(Front(u), hidden) + SampleCount(u.items[Len(u.items)], hidden)
      BY <1>6, <1>10, FilterAssumption
    <3> HIDE DEF child
    <3> QED
      BY <2>3, <3>1
  <2>6. A = {}
    <3>1. \A k : step # <<k, 0>>
      <4> HIDE DEF n
      <4> QED
        BY <2>2, SMT
    <3> HIDE DEF step
    <3> QED
      BY <3>1 DEF Added
  <2>7. IsFiniteSet(A) /\ Cardinality(A) = 0
    BY <2>6, FS_EmptySet
  <2>8. Held(u) <= Held(r) + (Cardinality(A) + Held(child))
    <3>1. step[2] = 0 => step[1] \notin hidden
      BY <2>2, <2>3
    <3> HIDE DEF step, r
    <3> QED
      BY <1>6, <2>1, <2>7, <3>1, PointsAdd
  <2>9. /\ Held(u) \in Nat /\ Held(r) \in Nat /\ Held(child) \in Nat
        /\ SampleCount(r, hidden) \in Nat /\ SampleCount(child, hidden) \in Nat
        /\ SampleCount(u, hidden) \in Nat
    BY <1>2, <1>6, <2>4
  <2>10. Held(r) <= SampleCount(r, hidden) /\ Held(child) <= SampleCount(child, hidden)
    BY <2>4 DEF Bounded
  <2> HIDE DEF r, step, child, A, Held, n
  <2>11. Held(u) <= SampleCount(u, hidden)
    BY <2>5, <2>7, <2>8, <2>9, <2>10, SMT
  <2> QED
    BY <1>6, <2>11 DEF Bounded
<1>11. CASE DOMAIN Children(u) = {}
  <2>1. \A p \in DOMAIN Places(u) : p = <<>>
    BY <1>6, <1>11, PlacesOne
  <2>2. Points(u, hidden) = {}
    BY <2>1 DEF Points, HoldsPoint
  <2>3. Held(u) = 0
    BY <2>2, FS_EmptySet
  <2>4. SampleCount(u, hidden) \in Nat
    BY <1>2, <1>6
  <2> HIDE DEF Held
  <2>5. Held(u) <= SampleCount(u, hidden)
    BY <2>3, <2>4, SMT
  <2> QED
    BY <1>6, <2>5 DEF Bounded
<1>12. \/ u.t = "map" /\ \E key : key \in DOMAIN u.fields
       \/ u.t = "list" /\ Len(u.items) > 0
       \/ DOMAIN Children(u) = {}
  <2>1. CASE u.t = "map"
    BY <2>1, ChildrenOf
  <2>2. CASE u.t = "list"
    <3>1. Len(u.items) \in Nat /\ DOMAIN u.items = 1..Len(u.items)
      BY <1>6, <2>2, FilterAssumption
    <3>2. Len(u.items) > 0 \/ 1..Len(u.items) = {}
      BY <3>1, SMT
    <3>3. DOMAIN Children(u) = {<<"item", i>> : i \in DOMAIN u.items}
      BY <2>2, ChildrenOf
    <3> QED
      BY <2>2, <3>1, <3>2, <3>3
  <2>3. CASE u.t \notin {"map", "list"}
    BY <2>3, ChildrenOf
  <2> QED
    BY <2>1, <2>2, <2>3
<1> QED
  BY <1>9, <1>10, <1>11, <1>12

\* One round of the loop, after which n entries have been looked at.
Round(f, n, items, hidden) ==
    IF n = 0 THEN <<>>
    ELSE IF items[n].t = "text" /\ items[n].s \notin hidden
    THEN Append(f[n - 1], items[n])
    ELSE f[n - 1]

\* The function f is what the loop computes in N rounds.
Loops(f, N, items, hidden) == f = [n \in 0..N |-> Round(f, n, items, hidden)]

\* There is such a function.
LEMMA LoopRuns ==
    ASSUME NEW N \in Nat, NEW items, NEW hidden
    PROVE  \E f : Loops(f, N, items, hidden)
<1> DEFINE Halts(m) == \E f : Loops(f, m, items, hidden)
           T == {m \in Nat : ~Halts(m)}
<1>1. SUFFICES ASSUME T # {} PROVE FALSE
  OBVIOUS
<1>2. PICK m \in T : \A k \in T : m <= k
  <2>1. T \subseteq Nat
    OBVIOUS
  <2> HIDE DEF T
  <2> QED
    BY <1>1, <2>1, LeastNatural
<1>3. CASE m = 0
  <2> DEFINE f == [n \in 0..0 |-> <<>>]
  <2>1. \A n \in 0..0 : n = 0
    BY SMT
  <2>2. Loops(f, 0, items, hidden)
    BY <2>1 DEF Round, Loops
  <2> QED
    BY <1>2, <1>3, <2>2
<1>4. CASE m # 0
  <2>1. m \in Nat /\ m - 1 \in Nat /\ ~(m <= m - 1)
    BY <1>2, <1>4, SMT
  <2>2. Halts(m - 1)
    BY <1>2, <2>1
  <2>3. PICK f : Loops(f, m - 1, items, hidden)
    BY <2>2
  <2> DEFINE g == [n \in 0..m |-> IF n = m THEN Round(f, m, items, hidden) ELSE f[n]]
  <2>4. \A n \in 0..m : n # 0 => n - 1 \in 0..m /\ n - 1 # m /\ n - 1 \in 0..(m - 1)
    BY <2>1, SMT
  <2>5. \A n \in 0..m : n # m => n \in 0..(m - 1)
    BY <2>1, SMT
  <2>6. \A n \in 0..m : n # 0 => g[n - 1] = f[n - 1]
    BY <2>4
  <2>7. \A n \in 0..m : Round(g, n, items, hidden) = Round(f, n, items, hidden)
    <3> HIDE DEF g
    <3> QED
      BY <2>6 DEF Round
  <2>8. \A n \in 0..m : g[n] = Round(f, n, items, hidden)
    <3> SUFFICES ASSUME NEW n \in 0..m PROVE g[n] = Round(f, n, items, hidden)
      OBVIOUS
    <3>1. CASE n = m
      BY <3>1
    <3>2. CASE n # m
      <4>1. g[n] = f[n]
        BY <3>2
      <4>2. f[n] = Round(f, n, items, hidden)
        BY <2>3, <2>5, <3>2 DEF Loops
      <4> QED
        BY <4>1, <4>2
    <3> QED
      BY <3>1, <3>2
  <2>9. g = [n \in 0..m |-> g[n]]
    OBVIOUS
  <2> HIDE DEF g
  <2>10. g = [n \in 0..m |-> Round(g, n, items, hidden)]
    BY <2>7, <2>8, <2>9
  <2>11. Halts(m)
    BY <2>10 DEF Loops
  <2> QED
    BY <1>2, <2>11
<1> QED
  BY <1>3, <1>4

\* The loop keeps just the names that are not hidden.
LEMMA KeptNames ==
    ASSUME NEW items, Len(items) \in Nat, NEW hidden
    PROVE  {Kept(items, hidden)[i] : i \in DOMAIN Kept(items, hidden)} =
            {items[i] : i \in {j \in 1..Len(items) : items[j].t = "text" /\ items[j].s \notin hidden}}
<1> DEFINE N == Len(items)
           kept == CHOOSE f : Loops(f, N, items, hidden)
<1>1. Kept(items, hidden) = kept[N]
  BY DEF Kept, Loops, Round
<1>2. Loops(kept, N, items, hidden)
  BY LoopRuns
<1> DEFINE X == {items[i] : i \in 1..N}
           Name(i) == items[i].t = "text" /\ items[i].s \notin hidden
           Upto(n) == {items[i] : i \in {j \in 1..n : Name(j)}}
           Elements(s) == {s[i] : i \in DOMAIN s}
           Right(n) == kept[n] \in Seq(X) /\ Elements(kept[n]) = Upto(n)
           T == {n \in 0..N : ~Right(n)}
<1>3. ASSUME NEW n \in 0..N PROVE kept[n] = Round(kept, n, items, hidden)
  <2> HIDE DEF kept
  <2> QED
    BY <1>2 DEF Loops
<1> HIDE DEF kept, Name
<1>4. Right(0)
  <2>1. 0 \in 0..N /\ 1..0 = {}
    BY SMT
  <2>2. kept[0] = <<>>
    BY <1>3, <2>1 DEF Round
  <2>3. <<>> \in Seq(X) /\ DOMAIN <<>> = {}
    <3> HIDE DEF X
    <3> QED
      BY SMT
  <2>4. Elements(<<>>) = {} /\ Upto(0) = {}
    BY <2>1, <2>3
  <2> QED
    BY <2>2, <2>3, <2>4
<1>5. ASSUME NEW n \in 0..N, n # 0, Right(n - 1) PROVE Right(n)
  <2>1. n - 1 \in 0..N /\ n \in 1..N /\ \A i : i \in 1..n <=> i \in 1..(n - 1) \/ i = n
    BY <1>5, SMT
  <2>2. items[n] \in X
    BY <2>1
  <2> HIDE DEF X
  <2>3. CASE Name(n)
    <3>1. kept[n] = Append(kept[n - 1], items[n])
      BY <1>3, <1>5, <2>3 DEF Round, Name
    <3> DEFINE s == kept[n - 1]
               e == items[n]
               t == Append(s, e)
    <3>2. s \in Seq(X) /\ e \in X
      BY <1>5, <2>2
    <3> HIDE DEF s, e
    <3>3. /\ t \in Seq(X) /\ Len(t) = Len(s) + 1
          /\ \A i \in 1..Len(s) : t[i] = s[i]
          /\ t[Len(s) + 1] = e
      BY <3>2, SMT
    <3>4. Len(s) \in Nat /\ DOMAIN s = 1..Len(s) /\ DOMAIN t = 1..(Len(s) + 1)
      BY <3>2, <3>3, LenProperties
    <3> HIDE DEF t
    <3>5. \A i : i \in 1..(Len(s) + 1) <=> i \in 1..Len(s) \/ i = Len(s) + 1
      BY <3>4, SMT
    <3>6. Elements(t) = Elements(s) \cup {e}
      <4>1. ASSUME NEW x \in Elements(t) PROVE x \in Elements(s) \cup {e}
        <5>1. PICK i \in DOMAIN t : x = t[i]
          BY <4>1
        <5>2. i \in 1..Len(s) \/ i = Len(s) + 1
          BY <3>4, <3>5, <5>1
        <5> QED
          BY <3>3, <3>4, <5>1, <5>2
      <4>2. ASSUME NEW x \in Elements(s) PROVE x \in Elements(t)
        <5>1. PICK i \in 1..Len(s) : x = s[i]
          BY <3>4, <4>2
        <5> QED
          BY <3>3, <3>4, <3>5, <5>1
      <4>3. e \in Elements(t)
        <5>1. Len(s) + 1 \in DOMAIN t
          BY <3>4, <3>5
        <5> QED
          BY <3>3, <5>1
      <4> HIDE DEF Elements
      <4> QED
        BY <4>1, <4>2, <4>3
    <3>7. Upto(n) = Upto(n - 1) \cup {items[n]}
      BY <2>1, <2>3
    <3>8. Elements(s) = Upto(n - 1)
      BY <1>5 DEF s
    <3>9. Elements(t) = Upto(n)
      <4> HIDE DEF Elements, Upto
      <4> QED
        BY <3>6, <3>7, <3>8 DEF e
    <3>10. kept[n] = t
      BY <3>1 DEF s, e, t
    <3> HIDE DEF Elements, Upto
    <3> QED
      BY <3>3, <3>9, <3>10
  <2>4. CASE ~Name(n)
    <3>1. kept[n] = kept[n - 1]
      BY <1>3, <1>5, <2>4 DEF Round, Name
    <3>2. Upto(n) = Upto(n - 1)
      BY <2>1, <2>4
    <3> HIDE DEF Elements, Upto
    <3> QED
      BY <1>5, <3>1, <3>2
  <2> QED
    BY <2>3, <2>4
<1> HIDE DEF Right
<1>6. T = {}
  <2>1. SUFFICES ASSUME T # {} PROVE FALSE
    OBVIOUS
  <2>2. T \subseteq Nat
    BY SMT
  <2>3. PICK m \in T : \A k \in T : m <= k
    <3> HIDE DEF T
    <3> QED
      BY <2>1, <2>2, LeastNatural
  <2>4. m \in 0..N /\ m # 0
    BY <1>4, <2>3
  <2>5. m - 1 \in 0..N /\ ~(m <= m - 1)
    BY <2>4, SMT
  <2>6. Right(m - 1)
    BY <2>3, <2>5
  <2> QED
    BY <1>5, <2>3, <2>4, <2>6
<1>7. Right(N)
  <2>1. N \in 0..N
    BY SMT
  <2> QED
    BY <1>6, <2>1
<1> QED
  BY <1>1, <1>7 DEF Right, Name

\* The kind of a text is the text.
LEMMA KindText ==
    ASSUME NEW v
    PROVE  Kind(v).t = v.t /\ (v.t \notin {"map", "list"} => Kind(v) = v)
<1>1. CASE v.t \in {"map", "list"}
  <2>1. Kind(v) = [t |-> v.t]
    BY <1>1 DEF Kind
  <2>2. [t |-> v.t].t = v.t
    BY SMT
  <2> QED
    BY <1>1, <2>1, <2>2
<1>2. CASE v.t \notin {"map", "list"}
  BY <1>2 DEF Kind
<1> QED
  BY <1>1, <1>2

\* A document that has a list under "data".
Lists(v) == v.t = "map" /\ "data" \in DOMAIN v.fields /\ v.fields["data"].t = "list"

\* Its names are the texts in that list; another document has none.
LEMMA NamesOf ==
    ASSUME NEW v \in Values
    PROVE  /\ Lists(v) =>
                Names(Places(v)) = {v.fields["data"].items[i].s :
                    i \in {j \in DOMAIN v.fields["data"].items : v.fields["data"].items[j].t = "text"}}
           /\ ~Lists(v) => Names(Places(v)) = {}
<1> DEFINE data == <<"data", 0>>
           child == v.fields["data"]
           Named(q) == /\ Len(q) = 2 /\ q[1] = data /\ q[2][2] > 0
                       /\ Places(v)[q].t = "text"
<1>1. Names(Places(v)) = {Places(v)[q].s : q \in {p \in DOMAIN Places(v) : Named(p)}}
  BY DEF Names
<1>2. ASSUME NEW q \in DOMAIN Places(v), Named(q)
      PROVE  /\ Lists(v)
             /\ \E i \in DOMAIN child.items : child.items[i].t = "text" /\ Places(v)[q] = child.items[i]
  <2> DEFINE step == Head(q)
             r == Tail(q)
  <2>1. q \in Seq(Steps) /\ Len(q) = 2 /\ q[1] = data /\ q[2][2] > 0 /\ Places(v)[q].t = "text"
    BY <1>2, FilterAssumption
  <2>2. q # <<>>
    <3>1. 2 # 0
      BY SMT
    <3> QED
      BY <2>1, <3>1, EmptySeq
  <2>3. /\ step \in DOMAIN Children(v) /\ r \in DOMAIN Places(Children(v)[step])
        /\ q = <<step>> \o r /\ step \in Steps /\ r \in Seq(Steps)
    BY <1>2, <2>1, <2>2, PlacesOne, PlaceIsStepAndPlace
  <2> HIDE DEF step, r
  <2>4. /\ Len(q) = Len(r) + 1 /\ q[1] = step /\ \A i \in 1..Len(r) : q[i + 1] = r[i]
    BY <2>3, StepAndPlace
  <2>5. Len(r) \in Nat
    BY <2>3, LenProperties
  <2>6. Len(r) = 1 /\ 1 \in 1..Len(r) /\ 1 + 1 = 2
    <3>1. Len(r) + 1 = 2
      <4>1. Len(q) = 2
        BY <2>1
      <4>2. Len(q) = Len(r) + 1
        BY <2>4
      <4> QED
        BY <4>1, <4>2
    <3>2. \A n \in Nat : n + 1 = 2 => n = 1 /\ 1 \in 1..n
      BY SMT
    <3>3. 1 + 1 = 2
      BY SMT
    <3> QED
      BY <2>5, <3>1, <3>2, <3>3
  <2>7. r[1] = q[2] /\ step = data
    BY <2>1, <2>4, <2>6
  <2>8. v.t = "map" /\ "data" \in DOMAIN v.fields /\ Children(v)[step] = child
    <3>1. v.t # "list"
      <4>1. \A i : data # <<"item", i>>
        BY SMT
      <4>2. v.t = "list" => DOMAIN Children(v) = {<<"item", i>> : i \in DOMAIN v.items}
        BY ChildrenOf
      <4> HIDE DEF data
      <4> QED
        BY <2>3, <2>7, <4>1, <4>2
    <3>2. v.t = "map"
      BY <2>3, <3>1, ChildrenOf
    <3>3. /\ DOMAIN Children(v) = {<<k, 0>> : k \in DOMAIN v.fields}
          /\ \A k \in DOMAIN v.fields : Children(v)[<<k, 0>>] = v.fields[k]
      BY <3>2, ChildrenOf
    <3>4. \A k : data = <<k, 0>> => k = "data"
      BY SMT
    <3>5. "data" \in DOMAIN v.fields
      <4> HIDE DEF data
      <4>1. PICK k \in DOMAIN v.fields : data = <<k, 0>>
        BY <2>3, <2>7, <3>3
      <4> QED
        BY <3>4, <4>1
    <3> QED
      BY <2>7, <3>2, <3>3, <3>5
  <2>9. child \in Values
    BY <2>3, <2>8, PlacesOne
  <2>10. /\ r # <<>> /\ r[1] = Head(r) /\ r = <<Head(r)>>
    BY <2>3, <2>6, OneStep
  <2> DEFINE entry == Head(r)
  <2> HIDE DEF child
  <2>11. /\ entry \in DOMAIN Children(child) /\ Tail(r) \in DOMAIN Places(Children(child)[entry])
         /\ r = <<entry>> \o Tail(r) /\ entry[2] > 0
    BY <2>1, <2>3, <2>7, <2>8, <2>9, <2>10, PlacesOne
  <2>12. Tail(r) = <<>>
    <3>1. entry \in Steps /\ Tail(r) \in Seq(Steps)
      BY <2>3, <2>10, PlaceIsStepAndPlace
    <3> DEFINE e == Tail(r)
    <3>2. e \in Seq(Steps) /\ r = <<entry>> \o e
      BY <2>11, <3>1
    <3> HIDE DEF e, entry
    <3>3. Len(r) = Len(e) + 1 /\ Len(e) \in Nat
      BY <3>1, <3>2, StepAndPlace, LenProperties
    <3>4. Len(e) = 0
      <4>1. 1 = Len(e) + 1
        BY <2>6, <3>3
      <4> QED
        BY <3>3, <4>1, SMT
    <3>5. e = <<>>
      BY <3>2, <3>4, EmptySeq
    <3> QED
      BY <3>5 DEF e
  <2> HIDE DEF entry
  <2>13. child.t = "list" /\ \E i \in DOMAIN child.items : entry = <<"item", i>>
    <3>1. ~(0 > 0)
      BY SMT
    <3>2. \A k : <<k, 0>>[2] = 0
      BY SMT
    <3>3. child.t # "map"
      <4>1. ASSUME child.t = "map" PROVE FALSE
        <5>1. DOMAIN Children(child) = {<<k, 0>> : k \in DOMAIN child.fields}
          BY <4>1, ChildrenOf
        <5>2. PICK k \in DOMAIN child.fields : entry = <<k, 0>>
          BY <2>11, <5>1
        <5> QED
          BY <2>11, <3>1, <3>2, <5>2
      <4> QED
        BY <4>1
    <3>4. child.t = "list"
      BY <2>11, <3>3, ChildrenOf
    <3>5. DOMAIN Children(child) = {<<"item", i>> : i \in DOMAIN child.items}
      BY <3>4, ChildrenOf
    <3> QED
      BY <2>11, <3>4, <3>5
  <2>14. PICK i \in DOMAIN child.items : entry = <<"item", i>>
    BY <2>13
  <2>15. Children(child)[entry] = child.items[i]
    BY <2>13, <2>14, ChildrenOf
  <2>16. Places(v)[q] = Places(child)[r]
    <3>1. Places(v)[<<step>> \o r] = Places(Children(v)[step])[r]
      BY <2>3, PlacesOne
    <3> QED
      BY <2>3, <2>8, <3>1
  <2>17. Places(child)[r] = Kind(child.items[i])
    <3>1. child.items[i] \in Values
      BY <2>9, <2>11, <2>15, PlacesOne
    <3>2. <<>> \in DOMAIN Places(child.items[i]) /\ Places(child.items[i])[<<>>] = Kind(child.items[i])
      BY <3>1, PlacesOne
    <3>3. Places(child)[<<entry>> \o <<>>] = Places(Children(child)[entry])[<<>>]
      BY <2>9, <2>11, <2>12, PlacesOne
    <3>4. r = <<entry>> \o <<>>
      BY <2>11, <2>12
    <3> QED
      BY <2>15, <3>2, <3>3, <3>4
  <2>18. child.items[i].t = "text" /\ Kind(child.items[i]) = child.items[i]
    <3>1. Kind(child.items[i]).t = "text"
      BY <2>1, <2>16, <2>17
    <3> QED
      BY <3>1, KindText
  <2> QED
    BY <2>8, <2>13, <2>16, <2>17, <2>18 DEF Lists, child
<1>3. ASSUME Lists(v), NEW i \in DOMAIN child.items, child.items[i].t = "text"
      PROVE  \E q \in DOMAIN Places(v) : Named(q) /\ Places(v)[q] = child.items[i]
  <2> DEFINE last == <<"item", i>>
             r == <<last>> \o <<>>
             q == <<data>> \o r
  <2>1. data \in DOMAIN Children(v) /\ Children(v)[data] = child
    <3>1. v.t = "map" /\ "data" \in DOMAIN v.fields
      BY <1>3 DEF Lists
    <3>2. /\ DOMAIN Children(v) = {<<k, 0>> : k \in DOMAIN v.fields}
          /\ \A k \in DOMAIN v.fields : Children(v)[<<k, 0>>] = v.fields[k]
      BY <3>1, ChildrenOf
    <3> QED
      BY <3>1, <3>2
  <2>2. data \in Steps /\ child \in Values
    BY <2>1, PlacesOne
  <2>3. child.t = "list"
    BY <1>3 DEF Lists
  <2> HIDE DEF child
  <2>4. last \in DOMAIN Children(child) /\ Children(child)[last] = child.items[i]
    <3>1. /\ DOMAIN Children(child) = {<<"item", j>> : j \in DOMAIN child.items}
          /\ \A j \in DOMAIN child.items : Children(child)[<<"item", j>>] = child.items[j]
      BY <2>3, ChildrenOf
    <3>2. i \in DOMAIN child.items
      BY <1>3 DEF child
    <3> QED
      BY <3>1, <3>2
  <2>5. last \in Steps /\ child.items[i] \in Values
    BY <2>2, <2>4, PlacesOne
  <2>6. last[2] > 0
    <3>1. Len(child.items) \in Nat /\ DOMAIN child.items = 1..Len(child.items)
      BY <2>2, <2>3, FilterAssumption
    <3>2. i \in 1..Len(child.items)
      BY <1>3, <3>1
    <3>3. i > 0
      BY <3>1, <3>2, SMT
    <3>4. <<"item", i>>[2] = i
      BY SMT
    <3> QED
      BY <3>3, <3>4
  <2> HIDE DEF data, last
  <2>7. <<>> \in DOMAIN Places(child.items[i]) /\ Places(child.items[i])[<<>>] = Kind(child.items[i])
    BY <2>5, PlacesOne
  <2>8. /\ r \in DOMAIN Places(child) /\ Places(child)[r] = Kind(child.items[i])
        /\ <<>> \in Seq(Steps)
    BY <2>2, <2>4, <2>7, PlacesOne
  <2>9. /\ r \in Seq(Steps) /\ Len(r) = Len(<<>>) + 1 /\ r[1] = last
    BY <2>5, <2>8, StepAndPlace
  <2>10. Len(<<>>) = 0
    BY EmptySeq
  <2> HIDE DEF r
  <2>11. Len(r) = 1 /\ 1 \in 1..Len(r) /\ 1 + 1 = 2
    BY <2>9, <2>10, SMT
  <2>12. q \in DOMAIN Places(v) /\ Places(v)[q] = Kind(child.items[i])
    BY <2>1, <2>8, PlacesOne
  <2>13. /\ Len(q) = Len(r) + 1 /\ q[1] = data /\ \A j \in 1..Len(r) : q[j + 1] = r[j]
    BY <2>2, <2>9, StepAndPlace
  <2> HIDE DEF q
  <2>14. Len(q) = 2 /\ q[1] = data /\ q[2] = last
    BY <2>9, <2>11, <2>13
  <2>15. Kind(child.items[i]) = child.items[i]
    BY <1>3, KindText
  <2> QED
    BY <1>3, <2>6, <2>12, <2>14, <2>15
<1> HIDE DEF Named
<1>4. CASE ~Lists(v)
  BY <1>1, <1>2, <1>4
<1>5. CASE Lists(v)
  <2> DEFINE IsText(i) == child.items[i].t = "text"
             texts == {j \in DOMAIN child.items : IsText(j)}
  <2>1. ASSUME NEW s \in Names(Places(v)) PROVE s \in {child.items[i].s : i \in texts}
    <3>1. PICK q \in DOMAIN Places(v) : Named(q) /\ s = Places(v)[q].s
      BY <1>1, <2>1
    <3>2. PICK i \in DOMAIN child.items : child.items[i].t = "text" /\ Places(v)[q] = child.items[i]
      BY <1>2, <3>1
    <3> QED
      BY <3>1, <3>2
  <2>2. ASSUME NEW i \in texts PROVE child.items[i].s \in Names(Places(v))
    <3>1. PICK q \in DOMAIN Places(v) : Named(q) /\ Places(v)[q] = child.items[i]
      BY <1>3, <1>5, <2>2
    <3>2. child.items[i].s = Places(v)[q].s
      BY <3>1
    <3> HIDE DEF child
    <3> QED
      BY <1>1, <3>1, <3>2
  <2>3. Names(Places(v)) = {child.items[i].s : i \in texts}
    <3> HIDE DEF child, texts
    <3> QED
      BY <2>1, <2>2
  <2> QED
    BY <1>5, <2>3
<1> QED
  BY <1>4, <1>5

\* The names of the label response: the texts of the document that are not hidden.
LEMMA NamesKept ==
    ASSUME NEW v \in Values, NEW hidden, LabelNames(v, hidden) \in Values
    PROVE  Names(Places(LabelNames(v, hidden))) = Names(Places(v)) \ hidden
<1>1. CASE ~Lists(v)
  <2>1. LabelNames(v, hidden) = v
    BY <1>1 DEF LabelNames, Lists
  <2> QED
    BY <1>1, <2>1, NamesOf
<1>2. CASE Lists(v)
  <2> DEFINE child == v.fields["data"]
             items == child.items
             kept == Kept(items, hidden)
             shown == [v.fields EXCEPT !["data"] = List(kept)]
             u == LabelNames(v, hidden)
             Texts(s) == {s[i] : i \in {j \in DOMAIN s : s[j].t = "text"}}
  <2>1. u = Map(shown)
    BY <1>2 DEF LabelNames, Lists
  <2>2. Map(shown).t = "map" /\ Map(shown).fields = shown
    <3> HIDE DEF shown
    <3> QED
      BY SMT DEF Map
  <2>3. List(kept).t = "list" /\ List(kept).items = kept
    <3> HIDE DEF kept
    <3> QED
      BY SMT DEF List
  <2>4. "data" \in DOMAIN shown /\ shown["data"] = List(kept)
    <3> HIDE DEF kept
    <3> QED
      BY <1>2 DEF Lists
  <2> HIDE DEF shown, u, kept
  <2>5. Lists(u) /\ u.fields["data"].items = kept
    BY <2>1, <2>2, <2>3, <2>4 DEF Lists
  <2>6. child \in Values /\ child.t = "list"
    <3>1. v.t = "map" /\ "data" \in DOMAIN v.fields /\ child.t = "list"
      BY <1>2 DEF Lists
    <3>2. /\ DOMAIN Children(v) = {<<k, 0>> : k \in DOMAIN v.fields}
          /\ \A k \in DOMAIN v.fields : Children(v)[<<k, 0>>] = v.fields[k]
      BY <3>1, ChildrenOf
    <3>3. <<"data", 0>> \in DOMAIN Children(v) /\ Children(v)[<<"data", 0>>] = child
      BY <3>1, <3>2
    <3> QED
      BY <3>1, <3>3, PlacesOne
  <2>7. Len(items) \in Nat /\ DOMAIN items = 1..Len(items)
    <3> HIDE DEF child
    <3> QED
      BY <2>6, FilterAssumption
  <2>8. {kept[i] : i \in DOMAIN kept} =
            {items[i] : i \in {j \in 1..Len(items) : items[j].t = "text" /\ items[j].s \notin hidden}}
    <3> HIDE DEF items
    <3> QED
      BY <2>7, KeptNames DEF kept
  <2>9. Names(Places(u)) = {kept[i].s : i \in {j \in DOMAIN kept : kept[j].t = "text"}}
    <3>1. u \in Values
      BY DEF u
    <3> QED
      BY <2>5, <3>1, NamesOf
  <2>10. Names(Places(v)) = {items[i].s : i \in {j \in DOMAIN items : items[j].t = "text"}}
    BY <1>2, NamesOf
  <2> HIDE DEF items
  <2>11. ASSUME NEW s \in Names(Places(u)) PROVE s \in Names(Places(v)) /\ s \notin hidden
    <3>1. PICK i \in DOMAIN kept : kept[i].t = "text" /\ s = kept[i].s
      BY <2>9, <2>11
    <3>2. kept[i] \in {items[j] : j \in {k \in 1..Len(items) : items[k].t = "text" /\ items[k].s \notin hidden}}
      BY <2>8, <3>1
    <3>3. PICK j \in 1..Len(items) : items[j].t = "text" /\ items[j].s \notin hidden /\ kept[i] = items[j]
      BY <3>2
    <3> QED
      BY <2>7, <2>10, <3>1, <3>3
  <2>12. ASSUME NEW s \in Names(Places(v)), s \notin hidden PROVE s \in Names(Places(u))
    <3>1. PICK j \in DOMAIN items : items[j].t = "text" /\ s = items[j].s
      BY <2>10, <2>12
    <3>2. items[j] \in {kept[i] : i \in DOMAIN kept}
      BY <2>7, <2>8, <2>12, <3>1
    <3>3. PICK i \in DOMAIN kept : items[j] = kept[i]
      BY <3>2
    <3> QED
      BY <2>9, <3>1, <3>3
  <2> QED
    BY <2>11, <2>12 DEF u
<1> QED
  BY <1>1, <1>2

\* What an answer was made of.
AnswerInv ==
    /\ stage = "answered" => body \in Bodies
    /\ stage = "done" /\ reply.status = 200 =>
        /\ request \in Requests /\ body \in Values
        /\ reply.document = filterResponse(body, Policy.sensitive, request.path)
        /\ Policy.maxSamples > 0 => SampleCount(body, Policy.sensitive) <= Policy.maxSamples

\* Every answer is the filtered document of the upstream, and within the budget.
LEMMA AnswerInductive == QuerySpec => []AnswerInv
<1>1. QueryInit => AnswerInv
  BY DEF QueryInit, AnswerInv
<1>2. ASSUME QueryInv, AnswerInv, [QueryNext]_queryVars
      PROVE  AnswerInv'
  <2>1. CASE Receive \/ ParseRequest \/ RewriteQuery \/ RewriteMatches \/ RefusePath
    <3> DEFINE Unanswered == \/ stage' \notin {"answered", "done"}
                             \/ stage' = "done" /\ reply' = [status |-> 400, document |-> None]
                             \/ stage' = "done" /\ reply' = [status |-> 405, document |-> None]
    <3>1. CASE Receive
      BY <3>1 DEF Receive, AnswerInv
    <3>2. ParseRequest => Unanswered
      BY DEF ParseRequest, Refuse, Reply
    <3>3. RewriteQuery => Unanswered
      BY DEF RewriteQuery, Refuse, Reply
    <3>4. RewriteMatches => Unanswered
      BY DEF RewriteMatches, Refuse, Reply
    <3>5. RefusePath => Unanswered
      BY DEF RefusePath, Refuse, Reply
    <3>6. CASE Unanswered
      <4>1. stage' # "answered" /\ (stage' = "done" => reply'.status # 200)
        BY <3>6, SMT
      <4> QED
        BY <4>1 DEF AnswerInv
    <3> HIDE DEF Unanswered
    <3> QED
      BY <2>1, <3>1, <3>2, <3>3, <3>4, <3>5, <3>6
  <2>2. CASE validateBudget \/ Send \/ UpstreamFails
    <3>1. stage' \notin {"answered", "done"} \/ reply'.status # 200
      BY <2>2, SMT DEF validateBudget, Send, UpstreamFails, Refuse, Reply
    <3>2. stage' # "answered"
      BY <2>2 DEF validateBudget, Send, UpstreamFails, Refuse, Reply
    <3> QED
      BY <3>1, <3>2 DEF AnswerInv
  <2>3. CASE UpstreamAnswers
    BY <2>3 DEF UpstreamAnswers, AnswerInv
  <2>4. CASE Answer
    <3>1. stage = "answered" /\ stage' = "done" /\ UNCHANGED <<request, body>>
      BY <2>4, ZenonT(30) DEF Answer, Refuse, Reply
    <3>2. reply'.status = 200 =>
            /\ body.t # "undecodable"
            /\ reply'.document = filterResponse(body, Policy.sensitive, request.path)
            /\ ~(Policy.maxSamples > 0 /\ SampleCount(body, Policy.sensitive) > Policy.maxSamples)
      BY <2>4, SMT DEF Answer, Refuse, Reply
    <3>3. body.t # "undecodable" => body \in Values
      BY <1>2, <3>1, FilterAssumption DEF AnswerInv
    <3>4. request \in Requests
      BY <1>2, <3>1 DEF QueryInv
    <3>5. ASSUME body \in Values
          PROVE  ~(SampleCount(body, Policy.sensitive) > Policy.maxSamples) =>
                    SampleCount(body, Policy.sensitive) <= Policy.maxSamples
      <4>1. Policy.maxSamples \in Int
        BY <3>4, RequestAssumption DEF Policy, Scope
      <4>2. SampleCount(body, Policy.sensitive) \in Nat
        BY <3>4, <3>5, FilterAssumption DEF Policy, Scope
      <4> QED
        BY <4>1, <4>2, SMT
    <3> QED
      BY <3>1, <3>2, <3>3, <3>4, <3>5 DEF AnswerInv, filterResponse, Policy, Scope
  <2>5. CASE UNCHANGED queryVars
    BY <1>2, <2>5 DEF queryVars, AnswerInv, filterResponse, Policy, Scope
  <2> QED
    BY <1>2, <2>1, <2>2, <2>3, <2>4, <2>5 DEF QueryNext
<1> QED
  BY <1>1, <1>2, QueryInductive, PTL DEF QuerySpec

\* The client's document is the upstream's without what lies under a sensitive
\* key, and holds no more points than the budget, for all documents and policies.
THEOREM ReplyFiltered == QuerySpec => []ReplyIsFiltered
<1>1. ASSUME AnswerInv PROVE ReplyIsFiltered
  <2> DEFINE hidden == Policy.sensitive
             places == {p \in DOMAIN Places(body) : Open(p, hidden)}
             points == {p \in places : HoldsPoint(p)}
             open == Restrict(Places(body), places)
  <2> SUFFICES ASSUME stage = "done", reply.status = 200
               PROVE  /\ Policy.maxSamples > 0 => Cardinality(points) <= Policy.maxSamples
                      /\ request.path # "labels" => Places(reply.document) = open
                      /\ request.path = "labels" =>
                            Names(Places(reply.document)) = Names(open) \ hidden
    BY DEF ReplyIsFiltered
  <2>1. /\ request \in Requests /\ body \in Values
        /\ reply.document = filterResponse(body, hidden, request.path)
        /\ Policy.maxSamples > 0 => SampleCount(body, hidden) <= Policy.maxSamples
    BY <1>1 DEF AnswerInv
  <2>2. hidden \in {r.scope.policy.sensitive : r \in Requests}
    BY <2>1, SMT DEF Policy, Scope
  <2>3. Policy.maxSamples \in Int
    BY <2>1, RequestAssumption DEF Policy, Scope
  <2>4. points = Points(body, hidden)
    BY DEF Points
  <2> HIDE DEF hidden
  <2>5. Cardinality(points) <= SampleCount(body, hidden)
    BY <2>1, <2>2, <2>4, CountsAll
  <2>6. Cardinality(points) \in Nat /\ SampleCount(body, hidden) \in Nat
    <3>1. IsFiniteSet(DOMAIN Places(body)) /\ SampleCount(body, hidden) \in Nat
      BY <2>1, <2>2, FilterAssumption
    <3>2. IsFiniteSet(points)
      BY <3>1, FS_Subset
    <3> QED
      BY <3>1, <3>2, FS_CardinalityType
  <2>7. Policy.maxSamples > 0 => Cardinality(points) <= Policy.maxSamples
    <3> HIDE DEF points
    <3>1. ASSUME SampleCount(body, hidden) <= Policy.maxSamples
          PROVE  Cardinality(points) <= Policy.maxSamples
      BY <2>3, <2>5, <2>6, <3>1, SMT
    <3> QED
      BY <2>1, <3>1
  <2>8. Places(FilterValue(body, hidden)) = open
    BY <2>1, <2>2, FilterPlaces
  <2>9. ASSUME request.path = "labels"
        PROVE  Names(Places(reply.document)) = Names(open) \ hidden
    <3>1. reply.document = LabelNames(FilterValue(body, hidden), hidden)
      BY <2>1, <2>9 DEF filterResponse
    <3>2. FilterValue(body, hidden) \in Values
      BY <2>1, <2>2, FilterAssumption
    <3>3. LabelNames(FilterValue(body, hidden), hidden) \in Values
      BY <2>2, <3>2, FilterAssumption
    <3> QED
      BY <2>8, <3>1, <3>2, <3>3, NamesKept
  <2>10. ASSUME request.path # "labels" PROVE Places(reply.document) = open
    BY <2>1, <2>8, <2>10 DEF filterResponse
  <2> QED
    BY <2>7, <2>9, <2>10
<1> QED
  BY <1>1, AnswerInductive, PTL

==========================================================================

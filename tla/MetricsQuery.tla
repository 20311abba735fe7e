--------------------------- MODULE MetricsQuery ---------------------------
\* One request through the metrics gateway after it has been admitted
\* (MetricsGateway models the admission): the PromQL rewriting of
\* internal/metricsgateway/policy.go and the rest of ServeHTTP in gateway.go.
\*
\* A PromQL expression is the tree that the parser returns, as a function from
\* its places to the nodes there, each of a kind t; parser.Inspect visits every
\* place.  A JSON document is a tree of maps, lists and texts; the walk through it
\* is a parameter, which MetricsResponse defines.
EXTENDS Integers, FiniteSets, Sequences, Functions

CONSTANTS
    Now,       \* the gateway's clock during the request
    Minute,    \* the minute that a metadata query may reach into the future
    MaxDuration, \* the longest time.Duration
    Requests,  \* what clients may ask, with the scopes that they resolve to
    Bodies,    \* what the upstream may answer, decodable or not
    Values,    \* what the bodies are made of
    Series,    \* the series that the upstream holds, of all Oubliettes
    FilterValue(_, _), \* a document without the hidden keys
    SampleCount(_, _), \* the points in it
    Places(_)          \* what stands at each place of a document

\* What the forms hold: times, in units of the policy's durations, and parsed
\* expressions, in which a selector has a metric name and label matchers.
ASSUME RequestAssumption ==
    /\ Now \in Int /\ Minute \in Int /\ MaxDuration \in Nat
    /\ \A r \in Requests :
        /\ r.start \in Int /\ r.end \in Int /\ r.step \in Int
        /\ r.scope.policy.maxLookback \in Int /\ r.scope.policy.maxSamples \in Int
        /\ r.scope.policy.maxLookback < MaxDuration
        /\ \A e \in {r.query[i] : i \in DOMAIN r.query} \cup {r.match[i] : i \in DOMAIN r.match} :
            \A p \in DOMAIN e :
                e[p].t = "selector" => {"t", "name", "matchers"} \subseteq DOMAIN e[p]

\* A tree, as a function from its places, from a node and the trees below it.
Tree(node, below) ==
    [p \in {<<>>} \cup UNION {{<<step>> \o q : q \in DOMAIN below[step]} : step \in DOMAIN below} |->
        IF p = <<>> THEN node ELSE below[Head(p)][Tail(p)]]

Text(s) == [t |-> "text", s |-> s]
List(items) == [t |-> "list", items |-> items]
Map(fields) == [t |-> "map", fields |-> fields]

\* The loop that keeps the names in a list that are not hidden.
Kept(items, hidden) ==
    LET kept[n \in 0..Len(items)] ==
            IF n = 0 THEN <<>>
            ELSE IF items[n].t = "text" /\ items[n].s \notin hidden
            THEN Append(kept[n - 1], items[n])
            ELSE kept[n - 1]
    IN  kept[Len(items)]

\* The names that /labels lists are filtered as values.
LabelNames(v, hidden) ==
    IF v.t = "map" /\ "data" \in DOMAIN v.fields /\ v.fields["data"].t = "list"
    THEN Map([v.fields EXCEPT !["data"] = List(Kept(@.items, hidden))])
    ELSE v

\* What stands at the top of a document; of a map and a list only that it is one.
Kind(v) == IF v.t \in {"map", "list"} THEN [t |-> v.t] ELSE v

\* The documents that a document is made of, by key or by position.
Children(v) ==
    CASE v.t = "map" -> [step \in {<<k, 0>> : k \in DOMAIN v.fields} |-> v.fields[step[1]]]
      [] v.t = "list" -> [step \in {<<"item", i>> : i \in DOMAIN v.items} |-> v.items[step[2]]]
      [] OTHER -> <<>>

\* A place in a document is the steps that lead there.
Steps == ({"item"} \cup UNION {DOMAIN v.fields : v \in {w \in Values : w.t = "map"}}) \X Nat

\* A document with one key less, and a list with one entry less.
Without(v, key) == Map(Restrict(v.fields, DOMAIN v.fields \ {key}))
Front(v) == List(Restrict(v.items, 1..(Len(v.items) - 1)))

\* What a key adds to the count of samples.
Adds(key, child) ==
    CASE key = "value" -> 1
      [] key = "values" /\ child.t = "list" -> Len(child.items)
      [] OTHER -> 0

\* The upstream answers with finite documents.  The walk drops the hidden keys
\* of a map and goes on to what it keeps; every entry it meets adds its samples.
ASSUME FilterAssumption ==
    /\ \A v \in Bodies : v.t # "undecodable" => v \in Values
    /\ \A v \in Values :
        /\ \A step \in DOMAIN Children(v) : Children(v)[step] \in Values
        /\ v.t = "list" => Len(v.items) \in Nat /\ DOMAIN v.items = 1..Len(v.items)
        /\ Places(v) = Tree(Kind(v), [step \in DOMAIN Children(v) |-> Places(Children(v)[step])])
        /\ IsFiniteSet(DOMAIN Places(v)) /\ DOMAIN Places(v) \subseteq Seq(Steps)
    /\ \A hidden \in {r.scope.policy.sensitive : r \in Requests}, v \in Values :
        /\ FilterValue(v, hidden) \in Values /\ LabelNames(v, hidden) \in Values
        /\ SampleCount(v, hidden) \in Nat
        /\ v.t = "map" =>
            /\ FilterValue(v, hidden) =
                Map([key \in DOMAIN v.fields \ hidden |-> FilterValue(v.fields[key], hidden)])
            /\ \A key \in DOMAIN v.fields :
                /\ Without(v, key) \in Values
                /\ SampleCount(v, hidden) = SampleCount(Without(v, key), hidden)
                    + (IF key \in hidden THEN 0
                       ELSE Adds(key, v.fields[key]) + SampleCount(v.fields[key], hidden))
        /\ v.t = "list" =>
            /\ FilterValue(v, hidden) =
                List([i \in DOMAIN v.items |-> FilterValue(v.items[i], hidden)])
            /\ Len(v.items) > 0 =>
                /\ Front(v) \in Values
                /\ SampleCount(v, hidden) = SampleCount(Front(v), hidden)
                    + SampleCount(v.items[Len(v.items)], hidden)
        /\ v.t \notin {"map", "list"} => FilterValue(v, hidden) = v

VARIABLES
    stage,    \* how far ServeHTTP has come
    request,  \* what the client asked, and in which scope
    sent,     \* the expressions of the form, as far as they have been rewritten
    body,     \* what the upstream answered
    reply     \* what the client gets

queryVars == <<stage, request, sent, body, reply>>

None == [t |-> "none"]

\* The scope that the request's credential resolved to, with its policy:
\* [allowed, sensitive, maxLookback, minStep, maxSamples].
Scope == request.scope
Policy == Scope.policy

--------------------------------------------------------------------------
\* PromQL

OublietteLabel == "oubliette_id"
TrustDomainLabel == "oubliette_trust_domain"

Sensitive(label) == label \in Policy.sensitive

durationMagnitude(d) == IF d < 0 THEN -d ELSE d

\* A limit of zero is no limit.
WithinLookback(d) == Policy.maxLookback > 0 => d <= Policy.maxLookback

\* What the callback of parser.Inspect accepts of each kind of node.
Admits(n) ==
    /\ n.t # "unparsable"
    /\ n.t = "selector" =>
        /\ n.name # "" /\ n.name \in Policy.allowed
        /\ \A m \in n.matchers :
            m.label \notin {OublietteLabel, TrustDomainLabel} /\ ~Sensitive(m.label)
        /\ ~n.at
        /\ WithinLookback(durationMagnitude(n.offset))
    /\ n.t = "matrix" => WithinLookback(n.range)
    /\ n.t = "subquery" =>
        /\ ~n.at
        /\ WithinLookback(n.range + durationMagnitude(n.offset))
        /\ (Policy.minStep > 0 /\ n.step > 0) => n.step >= Policy.minStep
    /\ n.t = "call" => n.name \notin {"label_replace", "label_join"}
    /\ n.t \in {"aggregate", "binary"} => \A l \in n.labels : ~Sensitive(l)
    /\ n.t = "string" => ~Sensitive(n.name)

Equals(label, value) == [label |-> label, equal |-> TRUE, value |-> value]

\* The walk refuses an expression for any of its nodes, and a scope that is not
\* complete refuses all.
Accepts(e) ==
    /\ Scope.oubliette # "" /\ Scope.trustDomain # ""
    /\ \A p \in DOMAIN e : Admits(e[p])

\* What the walk makes of an expression that it accepts.
Rewrite(e) ==
    [p \in DOMAIN e |->
        IF e[p].t = "selector"
        THEN [e[p] EXCEPT !.matchers = @ \cup {Equals(OublietteLabel, Scope.oubliette),
                                               Equals(TrustDomainLabel, Scope.trustDomain)}]
        ELSE e[p]]

--------------------------------------------------------------------------
\* The upstream's answer

\* Mutation: only keys are filtered, not the names that /labels lists.
filterResponse_KeysOnly(v, hidden, path) == FilterValue(v, hidden)

filterResponse(v, hidden, path) ==
    IF path = "labels" THEN LabelNames(FilterValue(v, hidden), hidden)
    ELSE FilterValue(v, hidden)

--------------------------------------------------------------------------
\* ServeHTTP

Instant == {"query", "query_range"}
Metadata == {"series", "labels", "values"}

\* The status that the upstream itself answers stands as 200.
Reply(status, document) ==
    /\ stage' = "done"
    /\ reply' = [status |-> status, document |-> document]

Refuse(status) == Reply(status, None) /\ UNCHANGED <<request, sent, body>>

Receive ==
    /\ stage = "idle"
    /\ request' \in Requests
    /\ sent' = [query |-> request'.query, match |-> request'.match]
    /\ stage' = "received"
    /\ UNCHANGED <<body, reply>>

ParseRequest ==
    /\ stage = "received"
    /\ IF ~request.method THEN Refuse(405)
       ELSE IF ~request.form THEN Refuse(400)
       ELSE stage' = "parsed" /\ UNCHANGED <<request, sent, body, reply>>

\* Mutation: the rewritten query is added to the form beside the original.
RewriteQuery_Adds ==
    /\ stage = "parsed" /\ request.path \in Instant
    /\ IF 1 \notin DOMAIN request.query \/ ~Accepts(request.query[1])
       THEN Refuse(400)
       ELSE /\ stage' = "rewritten"
            /\ sent' = [sent EXCEPT !.query = <<request.query[1], Rewrite(request.query[1])>>]
            /\ UNCHANGED <<request, body, reply>>

\* The form's first query counts, and the rewritten one replaces all of them.
RewriteQuery ==
    /\ stage = "parsed" /\ request.path \in Instant
    /\ IF 1 \notin DOMAIN request.query \/ ~Accepts(request.query[1])
       THEN Refuse(400)
       ELSE /\ stage' = "rewritten"
            /\ sent' = [sent EXCEPT !.query = <<Rewrite(request.query[1])>>]
            /\ UNCHANGED <<request, body, reply>>

RewriteMatches ==
    /\ stage = "parsed" /\ request.path \in Metadata
    /\ IF \/ request.path = "values" /\ (request.label = "" \/ Sensitive(request.label))
          \/ request.match = <<>>
          \/ \E i \in DOMAIN request.match : ~Accepts(request.match[i])
       THEN Refuse(400)
       ELSE /\ stage' = "rewritten"
            /\ sent' = [sent EXCEPT !.match =
                            [i \in DOMAIN request.match |-> Rewrite(request.match[i])]]
            /\ UNCHANGED <<request, body, reply>>

RefusePath ==
    /\ stage = "parsed" /\ request.path \notin Instant \cup Metadata
    /\ Refuse(400)

\* A time or a step that does not parse.
Bad == -100

Ceiling(a, b) == (a + b - 1) \div b

\* end.Sub(start), which is never more than the longest Duration.
Span == IF request.end - request.start > MaxDuration THEN MaxDuration
        ELSE request.end - request.start

\* Mutation: the points of a range are counted without its first instant.
RangeAllowed_OffByOne ==
    /\ request.start # Bad /\ request.end # Bad /\ request.end >= request.start
    /\ request.step # Bad /\ request.step > 0
    /\ WithinLookback(Span) /\ WithinLookback(Now - request.start)
    /\ Policy.minStep > 0 => request.step >= Policy.minStep
    /\ Policy.maxSamples > 0 =>
        Ceiling(Span, request.step) <= Policy.maxSamples

RangeAllowed ==
    /\ request.start # Bad /\ request.end # Bad /\ request.end >= request.start
    /\ request.step # Bad /\ request.step > 0
    /\ WithinLookback(Span) /\ WithinLookback(Now - request.start)
    /\ Policy.minStep > 0 => request.step >= Policy.minStep
    /\ Policy.maxSamples > 0 =>
        Ceiling(Span, request.step) + 1 <= Policy.maxSamples

\* No time means now.
InstantAllowed == request.at # None => (request.at.time # Bad /\ WithinLookback(Now - request.at.time))

MetadataAllowed ==
    /\ request.start # Bad /\ request.end # Bad /\ request.end >= request.start
    /\ WithinLookback(Span) /\ WithinLookback(Now - request.start)
    /\ Policy.maxLookback > 0 => request.end <= Now + Minute

validateBudget ==
    /\ stage = "rewritten"
    /\ IF /\ request.path = "query_range" => RangeAllowed
          /\ request.path = "query" => InstantAllowed
          /\ request.path \in Metadata => MetadataAllowed
       THEN stage' = "budgeted" /\ UNCHANGED <<request, sent, body, reply>>
       ELSE Refuse(422)

\* The upstream is called, if its address can be used.
Send ==
    /\ stage = "budgeted"
    /\ IF Scope.upstream
       THEN stage' = "sent" /\ UNCHANGED <<request, sent, body, reply>>
       ELSE Refuse(503)

\* The call fails, times out, or answers more than is read.
UpstreamFails == stage = "sent" /\ Refuse(502)

UpstreamAnswers ==
    /\ stage = "sent"
    /\ body' \in Bodies
    /\ stage' = "answered"
    /\ UNCHANGED <<request, sent, reply>>

Answer ==
    /\ stage = "answered"
    /\ IF body.t = "undecodable" THEN Refuse(502)
       ELSE IF Policy.maxSamples > 0 /\ SampleCount(body, Policy.sensitive) > Policy.maxSamples
       THEN Refuse(422)
       ELSE /\ Reply(200, filterResponse(body, Policy.sensitive, request.path))
            /\ UNCHANGED <<request, sent, body>>

QueryInit ==
    /\ stage = "idle"
    /\ request = None /\ sent = None /\ body = None /\ reply = None

QueryNext ==
    \/ Receive \/ ParseRequest
    \/ RewriteQuery \/ RewriteMatches \/ RefusePath
    \/ validateBudget \/ Send
    \/ UpstreamFails \/ UpstreamAnswers \/ Answer

QuerySpec == QueryInit /\ [][QueryNext]_queryVars

--------------------------------------------------------------------------
\* What the upstream makes of an expression: a selector reads the series that
\* match, every other node is some function of what its arguments read.
Picks(n, s) ==
    /\ s.name = n.name
    /\ \A m \in n.matchers : (s.labels[m.label] = m.value) <=> m.equal

Reading(e, db) ==
    [p \in DOMAIN e |->
        IF e[p].t = "selector"
        THEN [e[p] EXCEPT !.matchers = {s \in db : Picks(e[p], s)}]
        ELSE e[p]]

\* The series of the request's own Oubliette and trust domain.
OwnSeries == {s \in Series : /\ s.labels[OublietteLabel] = Scope.oubliette
                             /\ s.labels[TrustDomainLabel] = Scope.trustDomain}

\* Whatever the request, and however deep its selectors lie, what is sent to the
\* upstream reads from all series just what the client's expression would read
\* if the upstream held only the series of this Oubliette (Rewrite,
\* rewriteRequest).  Whichever of several "query" values the upstream takes, it is
\* the rewritten one.  The form's other parameters go to the upstream as they are.
ForwardedReadsOwn ==
    stage \in {"sent", "answered"} =>
        /\ request.path \in Instant =>
            \A i \in DOMAIN sent.query :
                Reading(sent.query[i], Series) = Reading(request.query[1], OwnSeries)
        /\ request.path \in Metadata =>
            /\ DOMAIN sent.match = DOMAIN request.match
            /\ \A i \in DOMAIN sent.match :
                Reading(sent.match[i], Series) = Reading(request.match[i], OwnSeries)

\* The instants at which the upstream evaluates a range query.
Instants == {t \in request.start..request.end : (t - request.start) % request.step = 0}

\* A range query that is sent evaluates at no more instants than the budget has
\* samples, and at none before the look-back, for every start, end and step that
\* validateBudget lets through, an empty range and a step that does not divide
\* the range included.  Without a look-back limit the points of a range longer than
\* the longest Duration are counted short, and nothing is claimed of it.
ForwardedWithinBudget ==
    (stage \in {"sent", "answered"} /\ request.path = "query_range") =>
        /\ request.start <= request.end
        /\ /\ Policy.maxSamples > 0
           /\ Policy.maxLookback > 0 \/ request.end - request.start <= MaxDuration
           => Cardinality(Instants) <= Policy.maxSamples
        /\ Policy.maxLookback > 0 => \A t \in Instants : t >= Now - Policy.maxLookback

\* No key on the way to a place is hidden.
Open(place, hidden) ==
    \A i \in DOMAIN place : place[i][2] = 0 => place[i][1] \notin hidden

\* A place that holds a point: a "value", or an entry of a "values" list.
HoldsPoint(place) ==
    /\ place # <<>>
    /\ \/ place[Len(place)] = <<"value", 0>>
       \/ /\ Len(place) > 1 /\ place[Len(place)][2] > 0
          /\ place[Len(place) - 1] = <<"values", 0>>

\* The names in the list that a document has under "data".
Names(places) ==
    {places[p].s : p \in {q \in DOMAIN places :
        Len(q) = 2 /\ q[1] = <<"data", 0>> /\ q[2][2] > 0 /\ places[q].t = "text"}}

\* A client that gets an answer gets every value of the upstream's document but
\* those that lie under a sensitive key, at whatever depth, and never more points
\* than the budget (filterResponse, filterValue).  Of the names that /labels
\* lists it gets just those that are not sensitive.
ReplyIsFiltered ==
    (stage = "done" /\ reply.status = 200) =>
        LET document == Places(reply.document)
            places == {p \in DOMAIN Places(body) : Open(p, Policy.sensitive)}
            open == Restrict(Places(body), places)
        IN  /\ Policy.maxSamples > 0 =>
                Cardinality({p \in places : HoldsPoint(p)}) <= Policy.maxSamples
            /\ request.path # "labels" => document = open
            /\ request.path = "labels" => Names(document) = Names(open) \ Policy.sensitive

===========================================================================

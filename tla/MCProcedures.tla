--------------------------- MODULE MCProcedures ---------------------------
\* Small instances for TLC: a metrics request, an evidence bundle, a check of
\* scrape targets, the calls of the lifecycle service, and the metrics gateway's
\* handlers.  They share nothing, so a behaviour runs one of them and the others
\* stay idle.
EXTENDS MetricsResponse, MCEvidenceBundle, TargetCoverage, MCLifecycleService, MetricsGateway, TLC

Init == QueryInit /\ BundleInit /\ CoverageInit /\ ServiceInit /\ GatewayInit

QueryIdle == stage = "idle"
BundleIdle == inputs = <<>>
CoverageIdle == phase = "idle"
ServiceIdle == ServiceInit
GatewayIdle == GatewayInit

Next ==
    \/ /\ BundleIdle /\ CoverageIdle /\ ServiceIdle /\ GatewayIdle
       /\ QueryNext
       /\ UNCHANGED <<bundleVars, coverageVars, serviceVars, gatewayVars>>
    \/ /\ QueryIdle /\ CoverageIdle /\ ServiceIdle /\ GatewayIdle
       /\ BundleNext
       /\ UNCHANGED <<queryVars, coverageVars, serviceVars, gatewayVars>>
    \/ /\ QueryIdle /\ BundleIdle /\ ServiceIdle /\ GatewayIdle
       /\ CoverageNext
       /\ UNCHANGED <<queryVars, bundleVars, serviceVars, gatewayVars>>
    \/ /\ QueryIdle /\ BundleIdle /\ CoverageIdle /\ GatewayIdle
       /\ ServiceNext
       /\ UNCHANGED <<queryVars, bundleVars, coverageVars, gatewayVars>>
    \/ /\ QueryIdle /\ BundleIdle /\ CoverageIdle /\ ServiceIdle
       /\ GatewayNext
       /\ UNCHANGED <<queryVars, bundleVars, coverageVars, serviceVars>>

Spec == Init /\ [][Next]_<<queryVars, bundleVars, coverageVars, serviceVars, gatewayVars>>

\* The gateway's handlers are interchangeable.
Perms == Permutations(Handlers)

--------------------------------------------------------------------------
\* Metrics requests

MCPolicy ==
    [allowed |-> {"x"}, sensitive |-> {"node"},
     maxLookback |-> 6, minStep |-> 2, maxSamples |-> 3]

MCScope == [oubliette |-> "a", trustDomain |-> "b", upstream |-> TRUE, policy |-> MCPolicy]

\* Scopes without limits, without a trust domain and without an upstream.
OddScopes ==
    {[MCScope EXCEPT !.policy = [MCPolicy EXCEPT !.maxLookback = 0, !.minStep = 0, !.maxSamples = 0]],
     [MCScope EXCEPT !.policy.maxLookback = 0],
     [MCScope EXCEPT !.trustDomain = ""], [MCScope EXCEPT !.upstream = FALSE]}

Selector(name, matchers, offset, at) ==
    Tree([t |-> "selector", name |-> name, matchers |-> matchers,
          offset |-> offset, at |-> at], <<>>)

Differs(label, value) == [Equals(label, value) EXCEPT !.equal = FALSE]

\* Every way to label a series with an Oubliette, a trust domain and a pod.
MCSeries == [name : {"x", "y"}, labels : [{OublietteLabel, TrustDomainLabel, "pod"} -> {"a", "b"}]]

Selectors ==
    {Selector(n, ms, o, at) :
        n \in {"x", "y", ""},
        ms \in {{}, {Equals("pod", "a")}, {Differs("pod", "a")},
                {Equals(OublietteLabel, "b")}, {Equals("node", "a")}},
        o \in {-7, -6, 0, 6, 7}, at \in BOOLEAN}

\* One selector of each verdict to build larger expressions from.
Leaves ==
    {Selector("x", {}, 0, FALSE), Selector("x", {Differs("pod", "a")}, 6, FALSE),
     Selector("y", {}, 0, FALSE)}

Matrix(e, range) == Tree([t |-> "matrix", range |-> range], <<e>>)
Subquery(e, range, offset, step, at) ==
    Tree([t |-> "subquery", range |-> range, offset |-> offset, step |-> step, at |-> at], <<e>>)
Call(name, args) == Tree([t |-> "call", name |-> name], args)
Over(t, labels, args) == Tree([t |-> t, labels |-> labels], args)
StringLiteral(s) == Tree([t |-> "string", name |-> s], <<>>)

Rates == {Call("rate", <<Matrix(e, r)>>) : e \in Leaves, r \in {6, 7}}

Subqueries ==
    {Call("max_over_time", <<Subquery(e, r, o, s, at)>>) :
        e \in Leaves \cup Rates, r \in {3, 6}, o \in {-3, 0, 4}, s \in {0, 1, 2}, at \in BOOLEAN}

Joins ==
    {Over("binary", ls, <<l, r>>) :
        ls \in {{}, {"pod"}, {"node"}}, l \in Leaves \cup Rates, r \in Leaves \cup Rates}

Aggregates ==
    {Over("aggregate", ls, <<e, StringLiteral(s)>>) :
        ls \in {{"pod"}, {"node"}}, e \in Leaves \cup Rates, s \in {"pod", "node"}}

Deep ==
    {Over("aggregate", {"pod"}, <<Over("binary", {}, <<l, Call(f, <<r>>)>>)>>) :
        l \in Rates, r \in Rates, f \in {"abs", "label_replace"}}

Expressions ==
    Selectors \cup Rates \cup Subqueries \cup Joins \cup Aggregates \cup Deep
        \cup {Tree([t |-> "unparsable"], <<>>)}

Few == {Selector("x", {}, 0, FALSE), Call("rate", <<Matrix(Selector("x", {}, 0, FALSE), 6)>>),
        Selector("y", {}, 0, FALSE)}

Simple == Selector("x", {}, 0, FALSE)

At(time) == [t |-> "at", time |-> time]

Request(path) ==
    [scope |-> MCScope, method |-> TRUE, form |-> TRUE, path |-> path, label |-> "pod",
     query |-> <<Simple>>, match |-> <<Simple>>,
     start |-> 8, end |-> 10, step |-> 2, at |-> [t |-> "none"]]

Ranges ==
    {[Request(p) EXCEPT !.start = s, !.end = e, !.step = d] :
        p \in {"query_range", "series"}, s \in {Bad} \cup 3..12, e \in {Bad} \cup 3..13,
        d \in {Bad, 0, 1, 2, 3, 5}}

MCRequests ==
    {[Request(p) EXCEPT !.query = <<e>>] : p \in Instant, e \in Expressions}
    \cup {[Request("query") EXCEPT !.query = <<e, f>>] : e \in Few, f \in Few}
    \cup {[Request(p) EXCEPT !.match = <<e, f>>] : p \in Metadata, e \in Few, f \in Few}
    \cup {[Request("query") EXCEPT !.at = At(t)] : t \in {Bad, 3, 4, 12}}
    \cup {[Request("values") EXCEPT !.label = l] : l \in {"", "node"}}
    \cup {[Request(p) EXCEPT !.query = <<>>, !.match = <<>>] :
            p \in Instant \cup Metadata \cup {"targets"}}
    \cup {[Request("query") EXCEPT !.method = FALSE], [Request("query") EXCEPT !.form = FALSE]}
    \cup Ranges
    \cup {[Request(p) EXCEPT !.scope = s, !.query = <<e>>, !.start = 1, !.step = d] :
            p \in Instant \cup Metadata, s \in OddScopes, e \in Few \cup Rates, d \in {1, 2, 4}}

Result(series) == Map([data |-> Map([result |-> List(series)])])

Labelled == {Map([pod |-> Text("a")]), Map([pod |-> Text("a"), node |-> Text("n")]),
             Map([pod |-> Map([node |-> List(<<Text("n")>>)])])}

Point == List(<<Text("1"), Text("2")>>)

Vectors == {Map([metric |-> m, value |-> Point]) : m \in Labelled}
Matrices == {Map([metric |-> m, values |-> List([i \in 1..n |-> Point])]) :
                m \in Labelled, n \in 0..3}

MCBodies ==
    {[t |-> "undecodable"], Map([node |-> Text("n")]),
     Map([data |-> List(<<Text("pod"), Text("node"), Text("job")>>)])}
    \cup {Result(<<v>>) : v \in Vectors \cup Matrices}
    \cup {Result(<<v, w>>) : v \in Vectors, w \in Matrices}

RECURSIVE Parts(_)
Parts(v) == {v} \cup UNION {Parts(Children(v)[step]) : step \in DOMAIN Children(v)}

\* A document with some of its entries.
Fewer(v) ==
    CASE v.t = "map" -> {Map(Restrict(v.fields, keys)) : keys \in SUBSET DOMAIN v.fields}
      [] v.t = "list" -> {List(SubSeq(v.items, 1, n)) : n \in 0..Len(v.items)}
      [] OTHER -> {v}

\* The bodies, what they are made of, and what the gateway makes of that.
AllValues ==
    LET parts == UNION {Fewer(p) : p \in UNION {Parts(v) : v \in {b \in MCBodies : b.t # "undecodable"}}}
        filtered == parts \cup {Filtered(v, MCPolicy.sensitive) : v \in parts}
        listed == {LabelNames(v, MCPolicy.sensitive) : v \in filtered}
    IN  filtered \cup UNION {Fewer(p) : p \in UNION {Parts(v) : v \in listed}}

AllPlaces == [v \in AllValues |-> PlacesOf(v)]

\* TLC evaluates a definition once, but a constant's value wherever it is used.
MCValues == AllValues
MCPlaces(v) == AllPlaces[v]

--------------------------------------------------------------------------
\* Scrape targets

Endpoint(role, pod, endpoint) ==
    [role |-> role, pod |-> pod, endpoint |-> endpoint, node |-> "n"]

MCTargetSets ==
    LET targets == {Endpoint("serving", "p", "e"), Endpoint("routing", "p", "e"),
                    Endpoint("serving", "q", "e"), Endpoint("serving", "p", "")}
    IN  {[oubliette |-> "a", generation |-> "g", expected |-> ts] :
            ts \in {<<>>} \cup {<<t>> : t \in targets} \cup {<<t, u>> : t \in targets, u \in targets}}
        \cup {[oubliette |-> "", generation |-> "g", expected |-> <<t>>] : t \in targets}

Active(role, pod, endpoint) ==
    [role |-> role, pod |-> pod, endpoint |-> endpoint, node |-> "n",
     oubliette |-> "a", generation |-> "g", up |-> TRUE]

MCAnswers ==
    LET targets == {Active("serving", "p", "e"), Active("serving", "q", "e"),
                    Active("routing", "p", "e"), Active("serving", "p", ""),
                    [Active("serving", "p", "e") EXCEPT !.up = FALSE],
                    [Active("serving", "q", "e") EXCEPT !.generation = "old"],
                    [Active("serving", "q", "e") EXCEPT !.node = "m"],
                    [Active("serving", "p", "e") EXCEPT !.oubliette = "b"]}
    IN  {<<>>} \cup {<<t>> : t \in targets} \cup {<<t, u>> : t \in targets, u \in targets}
            \cup {<<t, u, v>> : t \in targets, u \in targets, v \in targets}

===========================================================================

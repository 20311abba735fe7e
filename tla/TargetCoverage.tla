-------------------------- MODULE TargetCoverage --------------------------
\* internal/observability: whether Prometheus scrapes exactly the endpoints that
\* an Oubliette is expected to serve (targets.go), as told by the active-target
\* API (prometheus.go).  The loops of the code run one element at a time; the
\* filter over the active targets and the loop over what it leaves are one pass.
EXTENDS Naturals, Sequences, FiniteSets

CONSTANTS
    TargetSets,  \* expected targets: [oubliette, generation, expected]
    Answers      \* the active targets that the API may return

Target == [role : STRING, pod : STRING, endpoint : STRING, node : STRING]

Discovered ==
    [role : STRING, pod : STRING, endpoint : STRING, node : STRING,
     oubliette : STRING, generation : STRING, up : BOOLEAN]

TargetSet == [oubliette : STRING, generation : STRING, expected : Seq(Target)]

ASSUME CoverageAssumption == TargetSets \subseteq TargetSet /\ Answers \subseteq Seq(Discovered)

VARIABLES
    phase,    \* "idle", "read", "expect", "discover" or "done"
    set,      \* the target set that is validated
    active,   \* the active targets of the API's answer
    next,     \* the position that a loop has come to
    want,     \* the expected targets by key
    seen,     \* the keys of the targets that were found
    verdict   \* "" until the validation returns, then "covered" or "error"

coverageVars == <<phase, set, active, next, want, seen, verdict>>

\* A pod UID has no "/", so that a key names one pair; "<incomplete>" names none.
targetKey(t) ==
    IF t.pod = "" \/ t.endpoint = "" THEN [pod |-> "", endpoint |-> ""]
    ELSE [pod |-> t.pod, endpoint |-> t.endpoint]

Complete(t) == t.role # "" /\ t.pod # "" /\ t.endpoint # "" /\ t.node # ""

NoSet == [oubliette |-> "", generation |-> "", expected |-> <<>>]

CoverageInit ==
    /\ phase = "idle" /\ verdict = ""
    /\ set = NoSet /\ active = <<>> /\ next = 1
    /\ want = [k \in {} |-> NoSet] /\ seen = {}

Return(result) ==
    /\ phase' = "done" /\ verdict' = result
    /\ UNCHANGED <<set, active, next, want, seen>>

\* The API cannot be reached, refuses, or answers too much or no JSON.
ReadFails == phase = "idle" /\ Return("error")

Read ==
    /\ phase = "idle"
    /\ set' \in TargetSets /\ active' \in Answers
    /\ phase' = "read"
    /\ UNCHANGED <<next, want, seen, verdict>>

Begin ==
    /\ phase = "read"
    /\ IF set.oubliette = "" \/ set.generation = "" \/ set.expected = <<>>
       THEN Return("error")
       ELSE phase' = "expect" /\ UNCHANGED <<set, active, next, want, seen, verdict>>

Expect ==
    /\ phase = "expect" /\ next <= Len(set.expected)
    /\ LET t == set.expected[next]
           key == targetKey(t)
       IN  IF Complete(t) /\ key \notin DOMAIN want
           THEN /\ want' = [k \in DOMAIN want \cup {key} |-> IF k = key THEN t ELSE want[k]]
                /\ next' = next + 1
                /\ UNCHANGED <<phase, set, active, seen, verdict>>
           ELSE Return("error")

Expected ==
    /\ phase = "expect" /\ next > Len(set.expected)
    /\ phase' = "discover" /\ next' = 1
    /\ UNCHANGED <<set, active, want, seen, verdict>>

\* A target without the Oubliette's label is left out.
Skip ==
    /\ phase = "discover" /\ next <= Len(active)
    /\ active[next].oubliette # set.oubliette
    /\ next' = next + 1
    /\ UNCHANGED <<phase, set, active, want, seen, verdict>>

\* Mutation: a target that was seen before is not an error.
Discover_Again ==
    /\ phase = "discover" /\ next <= Len(active)
    /\ active[next].oubliette = set.oubliette
    /\ LET t == active[next]
           key == targetKey(t)
       IN  IF /\ t.generation = set.generation
              /\ key \in DOMAIN want /\ t.up
              /\ t.role = want[key].role /\ t.node = want[key].node
           THEN /\ seen' = seen \cup {key} /\ next' = next + 1
                /\ UNCHANGED <<phase, set, active, want, verdict>>
           ELSE Return("error")

Discover ==
    /\ phase = "discover" /\ next <= Len(active)
    /\ active[next].oubliette = set.oubliette
    /\ LET t == active[next]
           key == targetKey(t)
       IN  IF /\ t.generation = set.generation
              /\ key \in DOMAIN want /\ key \notin seen /\ t.up
              /\ t.role = want[key].role /\ t.node = want[key].node
           THEN /\ seen' = seen \cup {key} /\ next' = next + 1
                /\ UNCHANGED <<phase, set, active, want, verdict>>
           ELSE Return("error")

Finish ==
    /\ phase = "discover" /\ next > Len(active)
    /\ Return(IF Cardinality(seen) = Cardinality(DOMAIN want) THEN "covered" ELSE "error")

CoverageNext ==
    \/ ReadFails \/ Read \/ Begin
    \/ Expect \/ Expected \/ Skip \/ Discover \/ Finish

CoverageSpec == CoverageInit /\ [][CoverageNext]_coverageVars

--------------------------------------------------------------------------
\* The active targets that carry the Oubliette's label, and the expected ones.
Own == {i \in 1..Len(active) : active[i].oubliette = set.oubliette}
Wanted == 1..Len(set.expected)

\* t is the expected target e of the set, healthy and with its attribution.
Serves(t, e) ==
    /\ t.up /\ t.generation = set.generation
    /\ t.role = e.role /\ t.pod = e.pod /\ t.endpoint = e.endpoint /\ t.node = e.node

Same(e, f) == e.pod = f.pod /\ e.endpoint = f.endpoint

\* match pairs the active targets with the expected ones.
Pairs(match) ==
    /\ \A i, j \in Own : match[i] = match[j] => i = j
    /\ \A e \in Wanted : \E i \in Own : match[i] = e
    /\ \A i \in Own : Serves(active[i], set.expected[match[i]])

Covered ==
    /\ set.oubliette # "" /\ set.generation # "" /\ set.expected # <<>>
    /\ \A e \in Wanted : Complete(set.expected[e])
    /\ \A e, f \in Wanted : Same(set.expected[e], set.expected[f]) => e = f
    /\ \E match \in [Own -> Wanted] : Pairs(match)

\* The validation succeeds just when the active targets that carry the
\* Oubliette's label stand one to one against the expected ones: each expected
\* endpoint is scraped by exactly one target, healthy and attributed as expected,
\* and there is no target beside them ("exactly one healthy scrape target for
\* every expected serving or routing endpoint").
CoverageIsExact == phase = "done" => (verdict = "covered" <=> Covered)

===========================================================================

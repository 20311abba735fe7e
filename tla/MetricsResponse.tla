-------------------------- MODULE MetricsResponse -------------------------
\* The walk of the metrics gateway through the upstream's answer: filterValue of
\* internal/metricsgateway/gateway.go, for the request that MetricsQuery follows.
EXTENDS MetricsQuery, FiniteSetsExt

\* What filterValue leaves of a document.
RECURSIVE Filtered(_, _)
Filtered(v, hidden) ==
    CASE v.t = "map" ->
            Map([key \in {k \in DOMAIN v.fields : k \notin hidden} |->
                    Filtered(v.fields[key], hidden)])
      [] v.t = "list" -> List([i \in DOMAIN v.items |-> Filtered(v.items[i], hidden)])
      [] OTHER -> v

\* What filterValue counts, of what it keeps.
RECURSIVE Samples(_, _)
Samples(v, hidden) ==
    CASE v.t = "map" ->
            MapThenSumSet(LAMBDA k : Adds(k, v.fields[k]) + Samples(v.fields[k], hidden),
                          {k \in DOMAIN v.fields : k \notin hidden})
      [] v.t = "list" -> MapThenSumSet(LAMBDA i : Samples(v.items[i], hidden), DOMAIN v.items)
      [] OTHER -> 0

\* What stands at each place of a document.
RECURSIVE PlacesOf(_)
PlacesOf(v) == Tree(Kind(v), [step \in DOMAIN Children(v) |-> PlacesOf(Children(v)[step])])

===========================================================================

-------------------------- MODULE EvidenceBundle --------------------------
\* internal/evidence/bundle.go: an evidence bundle is built from a run and its
\* artifacts, and built again when the exporter retries.  The store that the
\* bundles go to is EvidenceStore, which knows a bundle by its digest only.
\*
\* A document is the tree of yaml.Node values that decoding returns; the content
\* of a mapping alternates keys and values.  A time is an instant in a zone.  The
\* walk through a document is a parameter, which EvidenceDocument defines.
EXTENDS Naturals, Sequences, FiniteSets, Functions

CONSTANTS
    Runs, InputLists,         \* what the exporter may be given
    Rank,                     \* the order of the names (strings.Compare)
    Nodes,                    \* the nodes of all documents
    SecretObjectHasValues(_), \* there is a Secret with values at or below a node
    Reach(_)                  \* the nodes at and below a node

VARIABLES
    run, inputs,  \* the pending export
    bundle,       \* what BuildRunBundle made of it
    again         \* what it made of it when the export was retried

bundleVars == <<run, inputs, bundle, again>>

Nil == [k |-> "none"]
Refused == [k |-> "refused"]

--------------------------------------------------------------------------
\* Documents

Scalar(v) == [k |-> "scalar", v |-> v, content |-> <<>>]
Mapping(content) == [k |-> "mapping", v |-> "", content |-> content]
Sequence(content) == [k |-> "sequence", v |-> "", content |-> content]
Alias(node) == [k |-> "alias", v |-> "", content |-> <<>>, alias |-> node]

\* The value of the first of a mapping's entries that has the key.
mappingValue(node, key) ==
    LET entries == {i \in DOMAIN node.content : i % 2 = 1 /\ node.content[i].v = key}
    IN  IF node.k # "mapping" \/ entries = {} THEN Nil
        ELSE node.content[(CHOOSE i \in entries : \A j \in entries : i <= j) + 1]

\* An alias stands for the node that has the anchor, never for another alias.
meaningfulNode(node) ==
    LET n == IF node.k = "alias" THEN node.alias ELSE node
    IN  CASE n.k \in {"mapping", "sequence"} -> n.content # <<>>
          [] n.k = "scalar" -> n.v \notin {"", "null"}
          [] OTHER -> FALSE

SecretKinds == {"Secret", "secret"}

\* The first of the mapping's kinds, if it is not an alias, says Secret.
isSecret(node) ==
    LET kind == mappingValue(node, "kind")
    IN  /\ kind.k = "scalar" /\ kind.v \in SecretKinds
        /\ \E field \in {"data", "stringData"} : meaningfulNode(mappingValue(node, field))

\* The inputs are runs and lists of artifacts with comparable names.  Documents are
\* finite, and an alias stands for a node of its own document.  The walk looks at
\* a node and goes on to its content.
ASSUME BundleAssumption ==
    /\ \A r \in Runs :
        {"identified", "times", "zone", "outcome", "reason", "generations"} \subseteq DOMAIN r
    /\ \A a \in DOMAIN Rank :
        Rank[a] \in Nat /\ \A b \in DOMAIN Rank : Rank[a] = Rank[b] => a = b
    /\ \A list \in InputLists :
        /\ Len(list) \in Nat /\ DOMAIN list = 1..Len(list)
        /\ \A i \in DOMAIN list :
            /\ list[i].name \in DOMAIN Rank
            /\ list[i].data.docs # <<Nil>> =>
                \A d \in DOMAIN list[i].data.docs :
                    LET document == list[i].data.docs[d]
                    IN  /\ document \in Nodes
                        /\ \A node \in Reach(document) :
                            node.k = "alias" => node.alias \in Reach(document)
    /\ \A node \in Nodes :
        /\ \A i \in DOMAIN node.content : i \in Nat /\ node.content[i] \in Nodes
        /\ SecretObjectHasValues(node) <=>
            \/ isSecret(node)
            \/ \E i \in DOMAIN node.content : SecretObjectHasValues(node.content[i])
        /\ IsFiniteSet(Reach(node))
        /\ Reach(node) =
            {node} \cup UNION {Reach(node.content[i]) : i \in DOMAIN node.content}
        /\ \A i \in DOMAIN node.content : node \notin Reach(node.content[i])

--------------------------------------------------------------------------
\* Artifacts: [name, media, data], where data is
\* [docs (or <<Nil>> when it does not decode), blank, secret, nul].

\* Of the sixteen names, the two that are judged in a way of their own, the one
\* with two groups of fields and one of those with a single group.
requiredRunArtifacts == {"stdout", "manifests", "spec", "transport"}

requiredArtifactFields ==
    [spec |-> {{"spec", "source"}},
     transport |-> {{"configuration", "config"}, {"runtime", "evidence"}}]

\* "lost" stands for the names that are empty, absolute, not what path.Clean makes of
\* them or begin with "../"; ".." alone is a name like any other.
cleanName(name) == name # "lost"

isStructuredMediaType(media) == media = "structured"

Decodes(data) == data.docs # <<Nil>>

validateArtifact(input) ==
    /\ cleanName(input.name) /\ input.media # ""
    /\ ~input.data.secret
    /\ isStructuredMediaType(input.media) =>
        /\ Decodes(input.data)
        /\ \A i \in DOMAIN input.data.docs : ~SecretObjectHasValues(input.data.docs[i])
    /\ ~(input.data.nul /\ input.media = "text")

\* Mutation: one present group of fields is enough.
validateRequiredArtifact_AnyGroup(input) ==
    IF input.name = "stdout" THEN ~input.data.blank
    ELSE /\ isStructuredMediaType(input.media) /\ Decodes(input.data)
         /\ \E i \in DOMAIN input.data.docs :
            LET document == input.data.docs[i]
                Has(field) == meaningfulNode(mappingValue(document, field))
            IN  IF input.name = "manifests" THEN Has("kind") /\ Has("metadata")
                ELSE \E group \in requiredArtifactFields[input.name] :
                        \E field \in group : Has(field)

validateRequiredArtifact(input) ==
    IF input.name = "stdout" THEN ~input.data.blank
    ELSE /\ isStructuredMediaType(input.media) /\ Decodes(input.data)
         /\ \E i \in DOMAIN input.data.docs :
            LET document == input.data.docs[i]
                Has(field) == meaningfulNode(mappingValue(document, field))
            IN  IF input.name = "manifests" THEN Has("kind") /\ Has("metadata")
                ELSE \A group \in requiredArtifactFields[input.name] :
                        \E field \in group : Has(field)

--------------------------------------------------------------------------
\* The run: [identified, times (four instants, 0 for none), zone, outcome,
\* reason, generations].

validateRun(r) ==
    /\ r.identified
    /\ \A i \in 1..4 : r.times[i] # 0
    /\ \A i \in 1..3 : r.times[i] <= r.times[i + 1]
    /\ \/ r.outcome = "valid" /\ r.reason = ""
       \/ r.outcome = "invalid" /\ r.reason \notin {"", "blank"}

\* Mutation: the times keep the zone in which they were given.
normalizeRun_Zoned(r) ==
    [r EXCEPT !.generations = IF @ = "nil" THEN "empty" ELSE @]

normalizeRun(r) ==
    [r EXCEPT !.zone = "UTC", !.generations = IF @ = "nil" THEN "empty" ELSE @]

\* What sorting a list by name may return: slices.SortFunc is not stable.
Sorted(list) ==
    {[i \in DOMAIN list |-> list[p[i]]] :
        p \in {q \in Bijection(DOMAIN list, DOMAIN list) :
                \A i, j \in DOMAIN list :
                    i < j => Rank[list[q[i]].name] <= Rank[list[q[j]].name]}}

\* What may be built, or Refused.  A digest is what was digested: SHA-256 is taken
\* to have no collisions.
Build(r, list) ==
    IF /\ validateRun(r)
       /\ \A i \in DOMAIN list : validateArtifact(list[i])
       /\ \A i, j \in DOMAIN list : i # j => list[i].name # list[j].name
    THEN {[k |-> "bundle", run |-> normalizeRun(r), artifacts |-> ordered] :
            ordered \in Sorted(list)}
    ELSE {Refused}

BuildRunBundle(r, list) ==
    IF /\ requiredRunArtifacts \subseteq {list[i].name : i \in DOMAIN list}
       /\ \A i \in DOMAIN list :
            list[i].name \in requiredRunArtifacts => validateRequiredArtifact(list[i])
    THEN Build(r, list)
    ELSE {Refused}

--------------------------------------------------------------------------
\* The exporter builds the bundle of a pending run ...
Export ==
    /\ inputs = <<>>
    /\ run' \in Runs /\ inputs' \in InputLists
    /\ bundle' \in BuildRunBundle(run', inputs')
    /\ UNCHANGED again

\* ... and builds it again from the same run, which the source now gives in
\* whichever zone and with the artifacts in whichever order.
Retry ==
    /\ inputs # <<>>
    /\ \E zone \in {r.zone : r \in Runs}, order \in Bijection(DOMAIN inputs, DOMAIN inputs) :
        again' \in BuildRunBundle([run EXCEPT !.zone = zone],
                                  [i \in DOMAIN inputs |-> inputs[order[i]]])
    /\ UNCHANGED <<run, inputs, bundle>>

BundleInit == run = Nil /\ inputs = <<>> /\ bundle = Nil /\ again = Nil

BundleNext == Export \/ Retry

BundleSpec == BundleInit /\ [][BundleNext]_bundleVars

--------------------------------------------------------------------------
Documents(a) == {a.data.docs[d] : d \in DOMAIN a.data.docs}

\* A bundle that is built holds each of the required artifacts exactly once, each
\* with its provenance: a meaningful value for every group of fields, in one
\* document.
ProvenanceIsComplete ==
    bundle.k = "bundle" =>
        LET Named(name) == {i \in DOMAIN bundle.artifacts : bundle.artifacts[i].name = name}
            Provides(document, field) ==
                \E e \in DOMAIN document.content :
                    /\ e % 2 = 1 /\ document.content[e].v = field
                    /\ meaningfulNode(document.content[e + 1])
        IN  /\ \A name \in requiredRunArtifacts : Cardinality(Named(name)) = 1
            /\ \A name \in DOMAIN requiredArtifactFields : \A i \in Named(name) :
                \E document \in Documents(bundle.artifacts[i]) :
                    \A group \in requiredArtifactFields[name] :
                        \E field \in group : Provides(document, field)

\* All that a mapping gives for a key.
Given(node, key) ==
    {node.content[e + 1] : e \in {d \in DOMAIN node.content :
                                    d % 2 = 1 /\ node.content[d].v = key}}

\* A mapping that spells out that it is a Secret, and has values for it.
SpelledSecret(node) ==
    /\ node.k = "mapping"
    /\ Given(node, "kind") # {}
    /\ \A kind \in Given(node, "kind") : kind.k = "scalar" /\ kind.v \in SecretKinds
    /\ \E field \in {"data", "stringData"} :
        /\ Given(node, field) # {}
        /\ \A value \in Given(node, field) : meaningfulNode(value)

\* A bundle that is built is complete, and no mapping of any of its structured
\* documents, however deep or behind which alias, spells out that it is a Secret
\* and has values (validateArtifact).  Of a kind that is given by an alias
\* nothing is said here.
BundleIsComplete ==
    /\ ProvenanceIsComplete
    /\ bundle.k = "bundle" =>
        \A i \in DOMAIN bundle.artifacts : bundle.artifacts[i].media = "structured" =>
            \A document \in Documents(bundle.artifacts[i]) : \A node \in Reach(document) :
                \A below \in Reach(IF node.k = "alias" THEN node.alias ELSE node) :
                    ~SpelledSecret(below)

\* The stated intent: evidence holds no Secret with values, in whichever way a
\* structured document gives the kind, by an alias too (secretObjectHasValues).
SecretsExcluded ==
    bundle.k = "bundle" =>
        \A i \in DOMAIN bundle.artifacts : bundle.artifacts[i].media = "structured" =>
            \A document \in Documents(bundle.artifacts[i]) : \A node \in Reach(document) :
                ~ /\ node.k = "mapping"
                  /\ \E kind \in Given(node, "kind") :
                        (IF kind.k = "alias" THEN kind.alias ELSE kind).v \in SecretKinds
                  /\ \E field \in {"data", "stringData"} :
                        \E value \in Given(node, field) : meaningfulNode(value)

\* An export that is retried builds the very same bundle, digest included, in
\* whatever order the artifacts arrive and in whatever zone the times are given;
\* and what was refused is refused again.  The store's refusal to hold two digests
\* for one run (EvidenceStore) rests on it.
RetryBuildsTheSame == again # Nil => again = bundle

===========================================================================

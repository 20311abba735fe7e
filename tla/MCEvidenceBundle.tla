------------------------- MODULE MCEvidenceBundle -------------------------
\* Runs and lists of artifacts for TLC.
EXTENDS EvidenceDocument

Run == [identified |-> TRUE, times |-> <<1, 2, 2, 3>>, zone |-> "UTC",
        outcome |-> "valid", reason |-> "", generations |-> "g1"]

MCRuns ==
    {Run, [Run EXCEPT !.zone = "CET", !.generations = "nil"],
     [Run EXCEPT !.outcome = "invalid", !.reason = "blank"],
     [Run EXCEPT !.outcome = "invalid", !.reason = "throttled"],
     [Run EXCEPT !.times = <<1, 3, 2, 3>>]}

Entry(key, value) == <<Scalar(key), value>>
One(key) == Mapping(Entry(key, Scalar("v")))
Two(key, other) == Mapping(Entry(key, Scalar("v")) \o Entry(other, Scalar("v")))

Data(docs) == [docs |-> docs, blank |-> FALSE, secret |-> FALSE, nul |-> FALSE]
Structured(name, docs) == [name |-> name, media |-> "structured", data |-> Data(docs)]
Plain(name) == [name |-> name, media |-> "text", data |-> Data(<<>>)]

SecretObject(kind, value) == Mapping(Entry("kind", Scalar(kind)) \o Entry("data", value))

\* An object and a list that holds a Secret, with values and without.
Nested(secret) ==
    <<Two("kind", "metadata"), Mapping(Entry("items", Sequence(<<One("spec"), secret>>)))>>

Anchored == Mapping(Entry("key", Scalar("v")))

PlainObjects == Structured("manifests", <<One("kind"), One("metadata")>>)
Connection == Structured("transport", <<Two("config", "evidence")>>)

Stdouts == {Plain("stdout"), [Plain("stdout") EXCEPT !.data.blank = TRUE]}

\* A Secret whose kind is an alias of what one of its labels says.
AliasedSecret ==
    LET said == Scalar("Secret")
    IN  Mapping(Entry("metadata", Mapping(Entry("label", said)))
                \o Entry("kind", Alias(said)) \o Entry("data", One("key")))

Manifests ==
    {PlainObjects,
     Structured("manifests", Nested(SecretObject("Secret", Scalar("null")))),
     Structured("manifests", Nested(SecretObject("secret", One("key")))),
     Structured("manifests", <<AliasedSecret>>),
     Structured("manifests", Nested(Mapping(Entry("template", SecretObject("Secret", Anchored)))))}

Specs ==
    {Structured("spec", <<One("source")>>), [Structured("spec", <<One("spec")>>) EXCEPT !.media = "text"],
     Structured("spec", <<Mapping(Entry("other", Anchored) \o Entry("spec", Alias(Anchored)))>>),
     Structured("spec", <<Mapping(Entry("spec", Scalar("null")) \o Entry("spec", Scalar("v")))>>),
     Structured("spec", <<Nil>>)}

Transports ==
    {Connection,
     Structured("transport", <<Two("config", "configuration")>>),
     Structured("transport", <<One("config"), One("evidence")>>)}

\* The artifacts that a list may have beside the required ones, or in place of one.
Others ==
    {Plain("extra"), Plain("lost"), Structured("spec", <<One("source")>>),
     [Plain("extra") EXCEPT !.data.nul = TRUE], [Plain("extra") EXCEPT !.data.secret = TRUE]}

MCInputLists ==
    {<<o, m, s, t>> : o \in Stdouts, m \in Manifests, s \in Specs, t \in Transports}
    \cup {<<e, PlainObjects, s, Connection>> : e \in Others, s \in Specs}
    \cup {<<Plain("stdout"), PlainObjects, s, Connection, e>> : s \in Specs, e \in Others}
    \cup {<<Plain("stdout"), m, Structured("spec", <<One("source")>>), Connection, e>> :
            m \in Manifests, e \in Others}

MCRank == [lost |-> 0, stdout |-> 1, extra |-> 2, manifests |-> 3, spec |-> 4, transport |-> 5]

AllNodes ==
    UNION {UNION {ReachOf(document) : document \in Documents(a)} :
            a \in {b \in {list[i] : list \in MCInputLists, i \in 1..4} : Decodes(b.data)}}

MCNodes == AllNodes

===========================================================================

------------------------- MODULE EvidenceDocument -------------------------
\* The walk of internal/evidence/bundle.go through a document that an evidence
\* bundle would hold.
EXTENDS EvidenceBundle

RECURSIVE secretObjectHasValues(_)
secretObjectHasValues(node) ==
    \/ isSecret(node)
    \/ \E i \in DOMAIN node.content : secretObjectHasValues(node.content[i])

RECURSIVE ReachOf(_)
ReachOf(node) == {node} \cup UNION {ReachOf(node.content[i]) : i \in DOMAIN node.content}

===========================================================================

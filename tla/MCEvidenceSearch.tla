--------------------------- MODULE MCEvidenceSearch ---------------------------
(* Two candidates with a document each: the first in two chunks under one    *)
(* parent, the second in a single chunk.  Extractions of at most two facts   *)
(* about a known or an unknown scope, quoting any chunk or misquoting one,   *)
(* and of three facts about the known scope that quote c1 or p1.             *)
EXTENDS EvidenceSearch

CONSTANTS c1, c2, c3, p1, d1, d2, k1, k2

MCdocument == [c \in Chunks |-> IF c = c3 THEN d2 ELSE d1]
MCcandidate == [d \in Documents |-> IF d = d1 THEN k1 ELSE k2]
MCparent == [c \in Chunks |-> IF c \in {c1, c2} THEN p1 ELSE None]

Quote(c) == [chunk |-> c, quoted |-> TRUE]
Facts(scopes, refs) == [scope : scopes, answer : {"yes", "no"}, refs : {{r} : r \in refs}]

AnyFacts == Facts(Scopes, {Quote(c1), Quote(c3), [chunk |-> c1, quoted |-> FALSE]})
KnownFacts == Facts(Known, {Quote(c1), Quote(p1)})

FactLists ==
    {<<>>} \cup {<<f>> : f \in AnyFacts} \cup {<<f, g>> : f \in AnyFacts, g \in AnyFacts}
    \cup {<<f, g, h>> : f \in KnownFacts, g \in KnownFacts, h \in KnownFacts}

MCExtractions ==
    {[facts |-> f, fully |-> v[1], lacks |-> v[2]] :
        f \in FactLists, v \in {<<TRUE, FALSE>>, <<TRUE, TRUE>>, <<FALSE, FALSE>>}}
===============================================================================

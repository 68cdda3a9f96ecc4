SPECIFICATION Spec
CONSTANTS
    c1 = c1
    c2 = c2
    c3 = c3
    p1 = p1
    d1 = d1
    d2 = d2
    k1 = k1
    k2 = k2
    None = None
    Requirements = {r1, r2}
    Candidates = {k1, k2}
    Documents = {d1, d2}
    Chunks = {c1, c2, c3, p1}
    Indexed = {c1, c2, c3}
    Oversized = {}
    document <- MCdocument
    candidate <- MCcandidate
    parent <- MCparent
    Scopes = {s, u}
    Known = {s}
    Extractions <- MCExtractions
    max_attempts = 2
CHECK_DEADLOCK FALSE
INVARIANTS
    SourcesAreTrusted
    FactsKeepSources
    StatusFollowsFacts

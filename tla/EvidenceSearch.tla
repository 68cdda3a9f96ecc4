---------------------------- MODULE EvidenceSearch ----------------------------
(***************************************************************************)
(* One request for evidence: the index is searched for every semantic      *)
(* requirement (search_talent, or the evidence provider of a branch with   *)
(* its single requirement), the hits are read back from PostgreSQL         *)
(* (evidence_citations), and a pack is built per candidate and requirement *)
(* from the facts a model extracts (evidence_pack).                        *)
(*                                                                         *)
(* The index is external and may be stale: a search finds any of the       *)
(* chunks that were ever indexed under the caller's scopes, those of       *)
(* documents deleted or closed since included.  The three texts a fact is  *)
(* about (event, period, claim) are one scope; a quotation is right or not.*)
(***************************************************************************)
EXTENDS Integers, Sequences, FiniteSets

CONSTANTS
    Requirements,       \* semantic requirements of the plan
    Candidates,         \* candidates the search is restricted to
    Documents,
    Chunks,             \* chunks the index and PostgreSQL know of
    Indexed,            \* the children: what run_index_job upserts
    document,           \* of a chunk
    candidate,          \* of a document
    parent,             \* of a chunk, or None
    Oversized,          \* chunks of more than 8000 characters
    Scopes, Known,      \* what facts are about; those with no "unknown" in them
    Extractions,        \* what the model may return
    max_attempts,
    None

ASSUME TreeAssumption ==
    /\ Indexed \subseteq Chunks
    /\ document \in [Chunks -> Documents]
    /\ DOMAIN candidate = Documents
    /\ parent \in [Chunks -> Chunks \cup {None}] /\ None \notin Chunks
    /\ \A c \in Chunks : parent[c] # None =>
           document[parent[c]] = document[c] /\ parent[c] \notin Indexed
ASSUME AttemptsAssumption == max_attempts \in Nat \ {0}
ASSUME ScopesAssumption == Known \subseteq Scopes

\* ExtractedFact and EvidenceExtraction: what the schema lets the model return.
References ==
    UNION {UNION {raw.facts[i].refs : i \in 1..Len(raw.facts)} : raw \in Extractions}
Fact == [scope : Scopes, answer : {"yes", "no"}, refs : SUBSET References]

ASSUME ExtractionsAssumption ==
    Extractions \subseteq [facts : Seq(Fact), fully : BOOLEAN, lacks : BOOLEAN]

VARIABLES
    pc,             \* search, load, parent, pack, ask; done or failed
    with_pack,      \* include_evidence_pack
    todo,           \* requirements, then hits, then pairs not handled yet
    at,             \* the hit or the pair in hand
    attempt,        \* of model_extractor
    reachable,      \* documents resolve_citation does not refuse now
    hits,           \* chunks found for a requirement
    sources,        \* sources of load_pack_sources: chunk -> requirement_ids
    item,           \* the item of the packs built last
    shown,          \* chunks of the response
    been, gone      \* read by properties only: documents that were reachable,
                    \* and that were not, at some moment of the request

request == <<with_pack, hits, sources>>
vars == <<pc, todo, at, attempt, reachable, item, shown, been, gone, request>>

\* Requirements and pairs are taken in the order of a list, whichever it is.
First(S) == CHOOSE x \in S : TRUE

NoSources == [c \in {} |-> {}]

Init ==
    /\ pc = "search"
    /\ with_pack \in BOOLEAN
    /\ todo = Requirements
    /\ at = None
    /\ attempt = 0
    /\ reachable \in SUBSET Documents
    /\ hits = [r \in Requirements |-> {}]
    /\ sources = NoSources
    /\ item = None
    /\ shown = {}
    /\ been = reachable
    /\ gone = Documents \ reachable

-------------------------------------------------------------------------------
(* The documents change while the request runs: deletion, and a status or  *)
(* a permission scope changed in the database by hand.  After the last     *)
(* read nothing of the request depends on them.                            *)

Reading == pc \in {"search", "load", "parent"}

Closes(d) ==
    /\ Reading /\ d \in reachable
    /\ reachable' = reachable \ {d}
    /\ gone' = gone \cup {d}
    /\ UNCHANGED <<pc, todo, at, attempt, item, shown, been, request>>

Reopens(d) ==
    /\ Reading /\ d \notin reachable
    /\ reachable' = reachable \cup {d}
    /\ been' = been \cup {d}
    /\ UNCHANGED <<pc, todo, at, attempt, item, shown, gone, request>>

-------------------------------------------------------------------------------
(* The search.                                                             *)

\* build_filter_expression: the candidates of the plan, the caller's scopes.
Findable == {c \in Indexed : candidate[document[c]] \in Candidates}

\* A requirement: dense and sparse search, fusion, rerank, in auto_optimize
\* the same for rewritten queries.  It may find anything the filter lets pass.
Search(found) ==
    LET r == First(todo)
    IN  /\ pc = "search" /\ todo # {}
        /\ hits' = [hits EXCEPT ![r] = found]
        /\ todo' = todo \ {r}
        /\ UNCHANGED <<pc, at, attempt, reachable, item, shown, been, gone, with_pack, sources>>

\* requirement_ids_by_chunk and merge_query_results.
Hits == UNION {hits[r] : r \in Requirements}
Asking(c) == {r \in Requirements : c \in hits[r]}

\* Without a pack the response is what the index returned.
Merge ==
    /\ pc = "search" /\ todo = {}
    /\ IF with_pack
       THEN pc' = "load" /\ todo' = Hits /\ UNCHANGED shown
       ELSE pc' = "done" /\ shown' = Hits /\ UNCHANGED todo
    /\ UNCHANGED <<at, attempt, reachable, item, been, gone, request>>

\* Milvus or PostgreSQL fails: no response but an error.
Fails ==
    /\ Reading
    /\ pc' = "failed"
    /\ UNCHANGED <<todo, at, attempt, reachable, item, shown, been, gone, request>>

-------------------------------------------------------------------------------
(* load_pack_sources.                                                      *)

Resolves(c) == document[c] \in reachable

Added(S, c, ids) ==
    [s \in DOMAIN S \cup {c} |->
        (IF s \in DOMAIN S THEN S[s] ELSE {}) \cup (IF s = c THEN ids ELSE {})]

\* Mutant: the metadata of the index is believed.
LoadFromIndex(h) ==
    /\ pc = "load" /\ h \in todo
    /\ todo' = todo \ {h}
    /\ sources' = Added(sources, h, Asking(h))
    /\ IF parent[h] # None
       THEN pc' = "parent" /\ at' = h
       ELSE UNCHANGED <<pc, at>>
    /\ UNCHANGED <<attempt, reachable, item, shown, been, gone, with_pack, hits>>

\* A hit that PostgreSQL does not give the caller now is left out.
Load(h) ==
    /\ pc = "load" /\ h \in todo
    /\ todo' = todo \ {h}
    /\ IF Resolves(h)
       THEN /\ sources' = Added(sources, h, Asking(h))
            /\ IF parent[h] # None
               THEN pc' = "parent" /\ at' = h
               ELSE UNCHANGED <<pc, at>>
       ELSE UNCHANGED <<pc, at, sources>>
    /\ UNCHANGED <<attempt, reachable, item, shown, been, gone, with_pack, hits>>

\* Its parent is context for the requirements of the hit.
LoadParent ==
    LET p == parent[at]
    IN  /\ pc = "parent"
        /\ sources' = IF Resolves(p) /\ p \notin Oversized
                      THEN Added(sources, p, Asking(at)) ELSE sources
        /\ pc' = "load"
        /\ at' = None
        /\ UNCHANGED <<todo, attempt, reachable, item, shown, been, gone, with_pack, hits>>

\* The response shows the hits that were loaded, never the parents.
Loaded ==
    /\ pc = "load" /\ todo = {}
    /\ shown' = Hits \cap DOMAIN sources
    /\ todo' = Candidates \X Requirements
    /\ pc' = "pack"
    /\ UNCHANGED <<at, attempt, reachable, item, been, gone, request>>

-------------------------------------------------------------------------------
(* build_evidence_packs: the facts of an extraction.                       *)

Key(fact) == <<fact.scope, fact.answer>>

\* Every reference of every fact names a row and quotes it; one that does not
\* fails the extraction as a whole.
Provable(facts, rows) ==
    \A i \in 1..Len(facts) : \A ref \in facts[i].refs : ref.chunk \in rows /\ ref.quoted

\* Mutant: a repetition adds nothing.
MergedToFirst(facts) ==
    LET merged[n \in 0..Len(facts)] ==
            IF n = 0 THEN <<>>
            ELSE IF \E i \in 1..Len(merged[n - 1]) : Key(merged[n - 1][i]) = Key(facts[n])
                 THEN merged[n - 1]
                 ELSE Append(merged[n - 1], facts[n])
    IN  merged[Len(facts)]

\* The loop of _merge_duplicate_facts: a repetition adds its sources to the first.
MergedWith(before, fact) ==
    LET same == {i \in 1..Len(before) : Key(before[i]) = Key(fact)}
    IN  IF same = {}
        THEN Append(before, fact)
        ELSE [i \in 1..Len(before) |->
                 IF i \in same
                 THEN [before[i] EXCEPT !.refs = @ \cup fact.refs]
                 ELSE before[i]]

Merged(facts) ==
    LET merged[n \in 0..Len(facts)] ==
            IF n = 0 THEN <<>> ELSE MergedWith(merged[n - 1], facts[n])
    IN  merged[Len(facts)]

\* _find_conflicts, as pairs of positions.
Conflicts(facts) ==
    {pair \in (1..Len(facts)) \X (1..Len(facts)) :
        /\ pair[1] < pair[2]
        /\ facts[pair[1]].scope = facts[pair[2]].scope
        /\ facts[pair[1]].scope \in Known
        /\ facts[pair[1]].answer # facts[pair[2]].answer}

\* Mutant: the model's word that all is supported comes first.
StatusTrusting(facts, conflicts, raw) ==
    IF (\E i \in 1..Len(facts) : facts[i].answer = "yes") /\ raw.fully /\ ~raw.lacks
    THEN "sufficient"
    ELSE IF conflicts # {} THEN "conflicting"
         ELSE IF facts # <<>> THEN "partial" ELSE "missing"

\* _evidence_status.
Status(facts, conflicts, raw) ==
    IF conflicts # {} THEN "conflicting"
    ELSE IF (\E i \in 1..Len(facts) : facts[i].answer = "yes") /\ raw.fully /\ ~raw.lacks
         THEN "sufficient"
         ELSE IF facts # <<>> THEN "partial" ELSE "missing"

\* The rows of a pair; a source is a row of its own candidate only.
Rows(pair) ==
    {s \in DOMAIN sources : candidate[document[s]] = pair[1] /\ pair[2] \in sources[s]}

\* raw is read by properties only.
Missing(pair) ==
    [pair |-> pair, rows |-> {}, status |-> "missing", reason |-> "no_accessible_hits",
     extraction |-> "not_run", facts |-> <<>>, conflicts |-> {}, raw |-> None]

Failed(pair) ==
    [Missing(pair) EXCEPT !.rows = Rows(pair), !.status = "partial",
        !.reason = "extraction_failed", !.extraction = "failed"]

Extracted(pair, raw) ==
    LET facts == Merged(raw.facts)
        conflicts == Conflicts(facts)
    IN  IF Provable(raw.facts, Rows(pair))
        THEN [Missing(pair) EXCEPT !.rows = Rows(pair),
                 !.status = Status(facts, conflicts, raw),
                 !.reason = IF facts # <<>> THEN "evidence_review" ELSE "no_relevant_evidence",
                 !.extraction = "succeeded", !.facts = facts, !.conflicts = conflicts,
                 !.raw = raw]
        ELSE Failed(pair)

-------------------------------------------------------------------------------
(* The loop over candidates and requirements.                              *)

Take ==
    LET pair == First(todo)
    IN  /\ pc = "pack" /\ todo # {}
        /\ todo' = todo \ {pair}
        /\ IF Rows(pair) = {}
           THEN item' = Missing(pair) /\ UNCHANGED <<pc, at, attempt>>
           ELSE item' = None /\ pc' = "ask" /\ at' = pair /\ attempt' = 1
        /\ UNCHANGED <<reachable, shown, been, gone, request>>

Put(result) ==
    /\ item' = result
    /\ pc' = "pack" /\ at' = None /\ attempt' = 0
    /\ UNCHANGED <<todo, reachable, shown, been, gone, request>>

Answers(raw) == pc = "ask" /\ Put(Extracted(at, raw))

\* Connection, timeout, rate limit: again, after the backoff.
Retries ==
    /\ pc = "ask" /\ attempt < max_attempts
    /\ attempt' = attempt + 1
    /\ UNCHANGED <<pc, todo, at, reachable, item, shown, been, gone, request>>

\* The last attempt fails so, or an attempt fails otherwise, or its answer
\* does not fit the schema: this item has no facts, the others go on.
GivesUp == pc = "ask" /\ Put(Failed(at))

Respond ==
    /\ pc = "pack" /\ todo = {}
    /\ pc' = "done"
    /\ item' = None
    /\ UNCHANGED <<todo, at, attempt, reachable, shown, been, gone, request>>

Next ==
    \/ \E d \in Documents : Closes(d) \/ Reopens(d)
    \/ \E found \in SUBSET Findable : Search(found)
    \/ Merge \/ Fails
    \/ \E h \in Indexed : Load(h)
    \/ LoadParent \/ Loaded
    \/ Take
    \/ \E raw \in Extractions : Answers(raw)
    \/ Retries \/ GivesUp \/ Respond

Spec == Init /\ [][Next]_vars

-------------------------------------------------------------------------------
(***************************************************************************)
(* What goes into a pack, or is shown beside one, PostgreSQL gave the      *)
(* caller while the request ran, whatever the index still holds; it is     *)
(* used for the requirements it, or a child of it, was found for and no    *)
(* other; and a hit of a document that stayed open is not lost.            *)
(***************************************************************************)
FoundFor(s) == Asking(s) \cup UNION {Asking(h) : h \in {c \in Hits : parent[c] = s}}

SourcesAreTrusted ==
    /\ \A s \in DOMAIN sources :
           /\ document[s] \in been
           /\ sources[s] # {} /\ sources[s] \subseteq FoundFor(s)
    /\ pc \in {"pack", "ask", "done"} /\ with_pack =>
           /\ shown \subseteq DOMAIN sources
           /\ \A h \in Hits : document[h] \notin gone =>
                  /\ h \in shown
                  /\ sources[h] = Asking(h)
                  /\ parent[h] \in Chunks \ Oversized =>
                         parent[h] \in DOMAIN sources /\ Asking(h) \subseteq sources[parent[h]]

(***************************************************************************)
(* The facts of an item are those of the extraction, each of them once,    *)
(* with all the sources any repetition of it gave, and all of these are    *)
(* quotations of rows of this candidate and requirement; an item whose     *)
(* extraction failed has none.                                             *)
(***************************************************************************)
Keys(facts) == {Key(facts[i]) : i \in 1..Len(facts)}
GivenFor(facts, key) ==
    UNION {facts[i].refs : i \in {n \in 1..Len(facts) : Key(facts[n]) = key}}

FactsKeepSources ==
    item # None =>
        /\ \A i, j \in 1..Len(item.facts) : Key(item.facts[i]) = Key(item.facts[j]) => i = j
        /\ \A i \in 1..Len(item.facts) : \A ref \in item.facts[i].refs :
               /\ ref.quoted /\ ref.chunk \in item.rows
               /\ candidate[document[ref.chunk]] = item.pair[1]
        /\ item.extraction = "succeeded" =>
               /\ Keys(item.facts) = Keys(item.raw.facts)
               /\ \A key \in Keys(item.facts) :
                      GivenFor(item.facts, key) = GivenFor(item.raw.facts, key)
        /\ item.extraction # "succeeded" => item.facts = <<>>

(***************************************************************************)
(* The status is what the extraction bears out: conflicting exactly when   *)
(* the model answered yes and no about one known scope, however often it   *)
(* repeated either and whatever it says of full support; sufficient only   *)
(* for an undisputed yes the model calls complete.                         *)
(***************************************************************************)
Disputed(raw) ==
    \E i, j \in 1..Len(raw.facts) :
        /\ raw.facts[i].answer = "yes" /\ raw.facts[j].answer = "no"
        /\ raw.facts[i].scope = raw.facts[j].scope /\ raw.facts[i].scope \in Known

StatusFollowsFacts ==
    item # None =>
        /\ item.status = "conflicting" <=> (item.extraction = "succeeded" /\ Disputed(item.raw))
        /\ item.status = "sufficient" =>
               /\ item.raw.fully /\ ~item.raw.lacks
               /\ \E i \in 1..Len(item.facts) : item.facts[i].answer = "yes"
        /\ item.status = "missing" <=> item.facts = <<>> /\ item.extraction # "failed"
        /\ \A pair \in item.conflicts :
               {item.facts[pair[1]].answer, item.facts[pair[2]].answer} = {"yes", "no"}
===============================================================================

------------------------------- MODULE Chunking -------------------------------
(***************************************************************************)
(* How a parsed document becomes chunks: chunk_elements (chunking) cuts    *)
(* the elements into pieces, create_chunking_run (chunk_service) stores    *)
(* them as a chain of children under a tree of headings.                   *)
(*                                                                         *)
(* An element is an index of the document; of its text only the length and *)
(* the heading it may spell are kept.  The text splitter is external: it   *)
(* cuts a long text into parts of at most chunk_size.                      *)
(***************************************************************************)
EXTENDS Integers, Sequences

CONSTANTS
    Elements,       \* what an element may be, see Element
    MaxElements,    \* bound: elements of a document
    chunk_size,
    MaxParts        \* bound: parts a long text is split into

\* level: the number of # the text starts with, 0 when the whole text does not
\* match the heading pattern.  title: the names in a title, between slashes.
ASSUME ElementsAssumption ==
    \A e \in Elements :
        /\ e.heading \in BOOLEAN /\ e.level \in 0..6 /\ e.length \in Nat \ {0}
        /\ DOMAIN e = {"heading", "level", "title", "length"}
ASSUME SizeAssumption == chunk_size \in Nat \ {0} /\ MaxParts \in Nat \ {0, 1}
ASSUME BoundAssumption == MaxElements \in Nat

Separator == 2      \* the blank line between joined texts

VARIABLES
    elements,   \* elements_from_artifacts: the elements of the version
    strategy,   \* infer_chunk_strategy
    pc,         \* where chunk_elements or create_chunking_run is
    at,         \* element of the loop of _markdown_chunks
    path,       \* heading_path
    section,    \* elements of the section, not packed yet
    pending,    \* of _pack_elements: elements, their joined and counted length
    pieces,     \* the result of chunk_elements
    parents,    \* parent_by_path
    children    \* the child chunks, in order

input == <<elements, strategy>>
cut == <<at, path, section, pending, pieces>>
stored == <<parents, children>>
chunkingVars == <<input, pc, cut, stored>>

Indices == 1..Len(elements)

Nothing == [ids |-> <<>>, length |-> 0, counted |-> 0]

\* The strategy looks at the kind of the elements, the loop at the text too.
infer_chunk_strategy(d) ==
    IF \E i \in 1..Len(d) : d[i].heading THEN "markdown" ELSE "recursive"

Opens(i) == strategy = "markdown" /\ (elements[i].heading \/ elements[i].level > 0)

\* A recursive document is one section without a path.
ChunkingInit ==
    /\ \E n \in 0..MaxElements : elements \in [1..n -> Elements]
    /\ strategy = infer_chunk_strategy(elements)
    /\ pc = IF strategy = "markdown" THEN "collect" ELSE "pack"
    /\ at = IF strategy = "markdown" THEN 1 ELSE Len(elements) + 1
    /\ section = IF strategy = "markdown" THEN <<>> ELSE [i \in 1..Len(elements) |-> i]
    /\ path = <<>>
    /\ pending = Nothing
    /\ pieces = <<>>
    /\ parents = [p \in {} |-> <<>>]
    /\ children = <<>>

-------------------------------------------------------------------------------
(* _markdown_chunks: collect a section, flush it, take the heading.        *)

Collect ==
    /\ pc = "collect"
    /\ at \in Indices /\ ~Opens(at)
    /\ section' = Append(section, at)
    /\ at' = at + 1
    /\ UNCHANGED <<input, pc, path, pending, pieces, stored>>

Flush ==
    /\ pc = "collect"
    /\ at \in Indices => Opens(at)
    /\ pc' = "pack"
    /\ UNCHANGED <<input, cut, stored>>

\* Mutant: the slice keeps one heading too many, the sibling before.
PathBesideSibling(p, e) ==
    IF e.level = 0 THEN <<e.title>>
    ELSE Append(IF e.level < Len(p) THEN SubSeq(p, 1, e.level) ELSE p, e.title)

\* A heading without # in its text is of level 1.  The slice keeps what there
\* is, so a level that is skipped makes no room.
PathUnder(p, e) ==
    IF e.level = 0 THEN <<e.title>>
    ELSE Append(IF e.level <= Len(p) THEN SubSeq(p, 1, e.level - 1) ELSE p, e.title)

TakeHeading ==
    /\ pc = "head"
    /\ at \in Indices
    /\ path' = PathUnder(path, elements[at])
    /\ at' = at + 1
    /\ pc' = "collect"
    /\ UNCHANGED <<input, section, pending, pieces, stored>>

AllCut ==
    /\ pc = "head"
    /\ at \notin Indices
    /\ pc' = "tree"
    /\ UNCHANGED <<input, cut, stored>>

-------------------------------------------------------------------------------
(* _pack_elements over the section.                                        *)

Piece(p) == [ids |-> p.ids, path |-> path, length |-> p.length]

Part(i) == [ids |-> <<i>>, path |-> path, length |-> chunk_size]

\* The separator is counted before the flush: a text that starts a new piece
\* after one is counted two characters longer than it is.
Gap == IF pending.ids = <<>> THEN 0 ELSE Separator

\* Mutant: the separator before the text is forgotten.
OverflowsTight(i) == pending.ids # <<>> /\ pending.counted + elements[i].length > chunk_size

Overflows(i) == pending.ids # <<>> /\ pending.counted + Gap + elements[i].length > chunk_size

Flushed(i) == IF Overflows(i) THEN Append(pieces, Piece(pending)) ELSE pieces
Rest(i) == IF Overflows(i) THEN Nothing ELSE pending

With(p, i) ==
    [ids |-> Append(p.ids, i),
     length |-> elements[i].length + IF p.ids = <<>> THEN 0 ELSE p.length + Separator,
     counted |-> p.counted + Gap + elements[i].length]

\* Mutant: a long text is split before what is pending is flushed.
PackLongFirst ==
    /\ pc = "pack" /\ section # <<>>
    /\ LET i == Head(section)
       IN  \/ /\ elements[i].length > chunk_size
              /\ \E n \in 2..MaxParts : pieces' = pieces \o [k \in 1..n |-> Part(i)]
              /\ UNCHANGED pending
           \/ /\ elements[i].length <= chunk_size
              /\ pieces' = Flushed(i)
              /\ pending' = With(Rest(i), i)
    /\ section' = Tail(section)
    /\ UNCHANGED <<input, pc, at, path, stored>>

Pack ==
    /\ pc = "pack" /\ section # <<>>
    /\ LET i == Head(section)
       IN  \/ /\ elements[i].length > chunk_size
              /\ \E n \in 2..MaxParts : pieces' = Flushed(i) \o [k \in 1..n |-> Part(i)]
              /\ pending' = Rest(i)
           \/ /\ elements[i].length <= chunk_size
              /\ pieces' = Flushed(i)
              /\ pending' = With(Rest(i), i)
    /\ section' = Tail(section)
    /\ UNCHANGED <<input, pc, at, path, stored>>

PackLast ==
    /\ pc = "pack" /\ section = <<>>
    /\ pieces' = IF pending.ids = <<>> THEN pieces ELSE Append(pieces, Piece(pending))
    /\ pending' = Nothing
    /\ pc' = "head"
    /\ UNCHANGED <<input, at, path, section, stored>>

-------------------------------------------------------------------------------
(* create_chunking_run: one child per piece, a parent per heading path.    *)

IdsOf(piece) == {piece.ids[k] : k \in 1..Len(piece.ids)}

Paths(p) == {SubSeq(p, 1, n) : n \in 1..Len(p)}

\* The stable key of a parent joins its titles with slashes.
Key(p) ==
    LET names[n \in 0..Len(p)] == IF n = 0 THEN <<>> ELSE names[n - 1] \o p[n]
    IN  names[Len(p)]

\* Mutant: only the heading a piece stands under directly gets its content.
PlaceUnderLast ==
    LET k == Len(children) + 1
    IN  /\ pc = "tree" /\ k <= Len(pieces)
        /\ LET piece == pieces[k]
               own == Paths(piece.path)
               Old(p) == IF p \in DOMAIN parents THEN parents[p]
                         ELSE [position |-> k, content |-> <<>>, ids |-> {}]
           IN  /\ parents' = [p \in DOMAIN parents \cup own |->
                      IF p = piece.path
                      THEN [Old(p) EXCEPT !.content = Append(@, k), !.ids = @ \cup IdsOf(piece)]
                      ELSE Old(p)]
               /\ children' = Append(children,
                      [parent |-> piece.path, previous |-> k - 1])
        /\ UNCHANGED <<input, pc, cut>>

\* Titles with slashes: another path has the key already, and the insert fails.
Taken(own) ==
    \E p \in own \ DOMAIN parents, q \in DOMAIN parents \cup own :
        p # q /\ Key(p) = Key(q)

Place ==
    LET k == Len(children) + 1
    IN  /\ pc = "tree" /\ k <= Len(pieces)
        /\ LET piece == pieces[k]
               own == Paths(piece.path)
               Old(p) == IF p \in DOMAIN parents THEN parents[p]
                         ELSE [position |-> k, content |-> <<>>, ids |-> {}]
           IN  /\ ~Taken(own)
               /\ parents' = [p \in DOMAIN parents \cup own |->
                      IF p \in own
                      THEN [Old(p) EXCEPT !.content = Append(@, k), !.ids = @ \cup IdsOf(piece)]
                      ELSE Old(p)]
               /\ children' = Append(children,
                      [parent |-> piece.path, previous |-> k - 1])
        /\ UNCHANGED <<input, pc, cut>>

\* UNIQUE (chunking_run_id, stable_key): the transaction is gone, the run too.
Clash ==
    LET k == Len(children) + 1
    IN  /\ pc = "tree" /\ k <= Len(pieces)
        /\ Taken(Paths(pieces[k].path))
        /\ pc' = "failed"
        /\ parents' = [p \in {} |-> <<>>]
        /\ children' = <<>>
        /\ UNCHANGED <<input, cut>>

Store ==
    /\ pc = "tree"
    /\ Len(children) = Len(pieces)
    /\ pc' = "done"
    /\ UNCHANGED <<input, cut, stored>>

ChunkingNext ==
    \/ Collect \/ Flush \/ TakeHeading \/ AllCut
    \/ Pack \/ PackLast
    \/ Place \/ Clash \/ Store

ChunkingSpec == ChunkingInit /\ [][ChunkingNext]_chunkingVars

-------------------------------------------------------------------------------
(***************************************************************************)
(* No piece is longer than chunk_size, the blank lines between its texts   *)
(* included: what the loop counts is never less than what it joins.        *)
(***************************************************************************)
PiecesFit == \A k \in 1..Len(pieces) : pieces[k].length <= chunk_size

(***************************************************************************)
(* Nothing is lost, doubled or moved: the pieces hold the elements in      *)
(* their order, an element is in two pieces only when these are parts of   *)
(* its own long text, and in the end every element is in a piece, headings *)
(* apart.                                                                  *)
(***************************************************************************)
TextsInOrder ==
    /\ \A k, l \in 1..Len(pieces) : k < l =>
           \A i \in IdsOf(pieces[k]), j \in IdsOf(pieces[l]) :
               i < j \/ (i = j /\ elements[i].length > chunk_size)
    /\ \A k \in 1..Len(pieces) : \A m, n \in 1..Len(pieces[k].ids) :
           m < n => pieces[k].ids[m] < pieces[k].ids[n]
    /\ pc \in {"tree", "done"} =>
           \A i \in Indices : Opens(i) \/ \E k \in 1..Len(pieces) : i \in IdsOf(pieces[k])

(***************************************************************************)
(* No piece crosses a heading, the last title of its path is that of the   *)
(* heading before it, and where no level is skipped the path is the        *)
(* headings it stands under, one of each level.                            *)
(***************************************************************************)
Headings(i) == {h \in 1..(i - 1) : Opens(h)}
Level(h) == IF elements[h].level = 0 THEN 1 ELSE elements[h].level
Latest(S) == CHOOSE h \in S : \A g \in S : g <= h

NoneSkipped(i) ==
    \A h \in Headings(i) : \/ Level(h) = 1
                           \/ /\ Headings(h) # {}
                              /\ Level(h) <= Level(Latest(Headings(h))) + 1

Enclosing(i) ==
    [l \in 1..Level(Latest(Headings(i))) |->
        elements[Latest({h \in Headings(i) : Level(h) = l})].title]

SectionsKept ==
    \A k \in 1..Len(pieces) : \A i \in IdsOf(pieces[k]) :
        LET p == pieces[k].path
        IN  /\ \A j \in IdsOf(pieces[k]) : Headings(i) = Headings(j)
            /\ IF Headings(i) = {}
               THEN p = <<>>
               ELSE /\ p[Len(p)] = elements[Latest(Headings(i))].title
                    /\ NoneSkipped(i) => p = Enclosing(i)

(***************************************************************************)
(* The tree that is stored: a parent for every heading path and no other,  *)
(* holding the elements and the content of all pieces below it, in order   *)
(* and once; every child hangs under its whole path and follows the child  *)
(* of the piece before.  A run fails only over two paths of one spelling.  *)
(***************************************************************************)
Under(p) == {k \in 1..Len(pieces) : p \in Paths(pieces[k].path)}

TreeHoldsPieces ==
    /\ pc = "done" =>
           /\ DOMAIN parents = UNION {Paths(pieces[k].path) : k \in 1..Len(pieces)}
           /\ \A p \in DOMAIN parents :
                  /\ parents[p].ids = UNION {IdsOf(pieces[k]) : k \in Under(p)}
                  /\ {parents[p].content[n] : n \in 1..Len(parents[p].content)} = Under(p)
                  /\ \A m, n \in 1..Len(parents[p].content) :
                         m < n => parents[p].content[m] < parents[p].content[n]
           /\ Len(children) = Len(pieces)
           /\ \A k \in 1..Len(children) :
                  /\ children[k].parent = pieces[k].path
                  /\ children[k].parent # <<>> => children[k].parent \in DOMAIN parents
                  /\ children[k].previous = k - 1
    /\ pc = "failed" =>
           \E k, l \in 1..Len(pieces) :
               \E p \in Paths(pieces[k].path), q \in Paths(pieces[l].path) :
                   p # q /\ Key(p) = Key(q)
===============================================================================

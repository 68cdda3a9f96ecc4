------------------------- MODULE EvidenceSearch_proofs -------------------------
(***************************************************************************)
(* Proofs about EvidenceSearch for every index, every tree of chunks and   *)
(* every extraction the schema admits: what an item of a pack says, and    *)
(* where the sources of a pack come from.                                  *)
(***************************************************************************)
EXTENDS EvidenceSearch, SequenceTheorems, WellFoundedInduction, TLAPS

-------------------------------------------------------------------------------
(* _merge_duplicate_facts.                                                 *)

\* Induction over the naturals, as a statement about sets.
LEMMA SetInduction ==
    ASSUME NEW S, 0 \in S, \A n \in Nat : n \in S => n + 1 \in S
    PROVE  Nat \subseteq S
<1> DEFINE T == Nat \ S
<1>1. SUFFICES ASSUME T # {} PROVE FALSE
  OBVIOUS
<1>2. \E x \in T : \A y \in T : ~(<<y, x>> \in OpToRel(<, Nat))
  <2>1. T \subseteq Nat
    OBVIOUS
  <2> HIDE DEF T
  <2> QED BY <1>1, <2>1, WFMin, NatLessThanWellFounded
<1>3. PICK x \in T : \A y \in T : ~(y < x)
  BY <1>2 DEF OpToRel
<1>4. x # 0 /\ x - 1 \in Nat /\ x - 1 < x /\ x - 1 + 1 = x
  BY <1>3
<1>5. x - 1 \in S
  BY <1>3, <1>4
<1> QED BY <1>4, <1>5

\* The loop after its first m facts.
Loop(f, facts, m) ==
    f = [n \in 0..m |-> IF n = 0 THEN <<>> ELSE MergedWith(f[n - 1], facts[n])]

\* There always is such a loop.
LEMMA LoopExists == ASSUME NEW facts, NEW m \in Nat PROVE \E f : Loop(f, facts, m)
<1> DEFINE S == {n \in Nat : \E f : Loop(f, facts, n)}
<1>1. 0 \in S
  <2> DEFINE f == [n \in 0..0 |-> <<>>]
  <2>1. f = [n \in 0..0 |-> IF n = 0 THEN <<>> ELSE MergedWith(f[n - 1], facts[n])]
    OBVIOUS
  <2> QED BY <2>1, Zenon DEF Loop
<1>2. ASSUME NEW n \in Nat, n \in S PROVE n + 1 \in S
  <2>1. PICK f : Loop(f, facts, n)
    BY <1>2
  <2> DEFINE g == [i \in 0..(n + 1) |-> IF i = n + 1 THEN MergedWith(f[n], facts[n + 1]) ELSE f[i]]
  <2>2. \A i \in 0..n : f[i] = IF i = 0 THEN <<>> ELSE MergedWith(f[i - 1], facts[i])
    BY <2>1 DEF Loop
  <2>3. \A i \in 0..(n + 1) : g[i] = IF i = 0 THEN <<>> ELSE MergedWith(g[i - 1], facts[i])
    <3> SUFFICES ASSUME NEW i \in 0..(n + 1)
                 PROVE  g[i] = IF i = 0 THEN <<>> ELSE MergedWith(g[i - 1], facts[i])
      OBVIOUS
    <3>1. CASE i = n + 1
      <4>1. i # 0 /\ i - 1 = n /\ n \in 0..(n + 1) /\ n # n + 1
        BY <3>1
      <4> QED BY <3>1, <4>1
    <3>2. CASE i # n + 1
      <4>1. i \in 0..n /\ g[i] = f[i]
        BY <3>2
      <4>2. i # 0 => i - 1 \in 0..n /\ i - 1 # n + 1 /\ i - 1 \in 0..(n + 1)
        BY <4>1
      <4>3. i # 0 => g[i - 1] = f[i - 1]
        BY <4>2
      <4> QED BY <2>2, <4>1, <4>3
    <3> QED BY <3>1, <3>2
  <2>4. g = [i \in 0..(n + 1) |-> g[i]]
    OBVIOUS
  <2> HIDE DEF g
  <2>5. Loop(g, facts, n + 1)
    BY <2>3, <2>4 DEF Loop
  <2> QED BY <2>5
<1> QED
  <2> HIDE DEF S
  <2>1. Nat \subseteq S
    BY <1>1, <1>2, SetInduction
  <2> QED BY <2>1 DEF S

\* Merged is what the loop leaves in the end.
LEMMA MergedIsLoop ==
    ASSUME NEW facts, Len(facts) \in Nat
    PROVE  \E f : Loop(f, facts, Len(facts)) /\ Merged(facts) = f[Len(facts)]
<1> DEFINE m == Len(facts)
           P(f) == f = [n \in 0..m |-> IF n = 0 THEN <<>> ELSE MergedWith(f[n - 1], facts[n])]
           g == CHOOSE f : P(f)
<1>1. \E f : P(f)
  <2>1. \E f : Loop(f, facts, Len(facts))
    BY LoopExists
  <2> QED BY <2>1, Zenon DEF Loop
<1>2. P(g)
  BY <1>1, Zenon
<1>3. Merged(facts) = g[m]
  BY Zenon DEF Merged
<1> QED BY <1>2, <1>3, Zenon DEF Loop

\* list is what the loop makes of the first n facts: every key once, with what
\* any of them gave for it.
MergeOf(list, facts, n) ==
    /\ list \in Seq(Fact)
    /\ \A i, j \in 1..Len(list) : Key(list[i]) = Key(list[j]) => i = j
    /\ \A i \in 1..Len(list) : \E k \in 1..n : Key(facts[k]) = Key(list[i])
    /\ \A k \in 1..n : \E i \in 1..Len(list) : Key(list[i]) = Key(facts[k])
    /\ \A i \in 1..Len(list) : \A ref :
           ref \in list[i].refs
               <=> \E k \in 1..n : Key(facts[k]) = Key(list[i]) /\ ref \in facts[k].refs

\* One more fact.
LEMMA MergeStep ==
    ASSUME NEW facts \in Seq(Fact), NEW n \in Nat, n + 1 \in 1..Len(facts),
           NEW before, MergeOf(before, facts, n)
    PROVE  MergeOf(MergedWith(before, facts[n + 1]), facts, n + 1)
<1> DEFINE fact == facts[n + 1]
           m == Len(before)
           after == MergedWith(before, fact)
           same == {i \in 1..m : Key(before[i]) = Key(fact)}
<1>1. /\ fact \in Fact /\ m \in Nat /\ before \in Seq(Fact) /\ \A i \in 1..m : before[i] \in Fact
      /\ before = [i \in 1..m |-> before[i]]
  BY DEF MergeOf
<1>2. \A k : k \in 1..(n + 1) <=> k \in 1..n \/ k = n + 1
  OBVIOUS
<1>3. /\ \A i, j \in 1..m : Key(before[i]) = Key(before[j]) => i = j
      /\ \A i \in 1..m : \E k \in 1..n : Key(facts[k]) = Key(before[i])
      /\ \A k \in 1..n : \E i \in 1..m : Key(before[i]) = Key(facts[k])
      /\ \A i \in 1..m : \A ref :
             ref \in before[i].refs
                 <=> \E k \in 1..n : Key(facts[k]) = Key(before[i]) /\ ref \in facts[k].refs
  BY DEF MergeOf
<1>4. CASE same = {}
  <2>1. after = Append(before, fact)
    BY <1>4 DEF MergedWith
  <2>2. /\ after \in Seq(Fact) /\ Len(after) = m + 1 /\ after[m + 1] = fact
        /\ \A i \in 1..m : after[i] = before[i]
    BY <1>1, <2>1
  <2>3. \A i : i \in 1..(m + 1) <=> i \in 1..m \/ i = m + 1
    BY <1>1
  <2>4. \A i \in 1..m : Key(before[i]) # Key(fact)
    BY <1>4
  <2>5. \A k \in 1..n : Key(facts[k]) # Key(fact)
    BY <1>3, <2>4
  <2> HIDE DEF after, m, same, fact
  <2>6. \A i, j \in 1..(m + 1) : Key(after[i]) = Key(after[j]) => i = j
    BY <1>3, <2>2, <2>3, <2>4
  <2>7. ASSUME NEW i \in 1..(m + 1)
        PROVE  \E k \in 1..(n + 1) : Key(facts[k]) = Key(after[i])
    <3>1. CASE i = m + 1
      <4>1. facts[n + 1] = after[i] /\ n + 1 \in 1..(n + 1)
        BY <1>2, <2>2, <3>1 DEF fact
      <4> QED BY <4>1
    <3>2. CASE i \in 1..m
      <4>1. PICK k \in 1..n : Key(facts[k]) = Key(before[i])
        BY <1>3, <3>2
      <4>2. k \in 1..(n + 1) /\ after[i] = before[i]
        BY <1>2, <2>2, <3>2
      <4> QED BY <4>1, <4>2
    <3> QED BY <2>3, <3>1, <3>2
  <2>8. ASSUME NEW k \in 1..(n + 1)
        PROVE  \E i \in 1..(m + 1) : Key(after[i]) = Key(facts[k])
    <3>1. CASE k = n + 1
      <4>1. facts[k] = after[m + 1] /\ m + 1 \in 1..(m + 1)
        BY <2>2, <2>3, <3>1 DEF fact
      <4> QED BY <4>1
    <3>2. CASE k \in 1..n
      <4>1. PICK i \in 1..m : Key(before[i]) = Key(facts[k])
        BY <1>3, <3>2
      <4>2. i \in 1..(m + 1) /\ after[i] = before[i]
        BY <2>2, <2>3
      <4> QED BY <4>1, <4>2
    <3> QED BY <1>2, <3>1, <3>2
  <2>9. ASSUME NEW i \in 1..(m + 1), NEW ref
        PROVE  ref \in after[i].refs
                 <=> \E k \in 1..(n + 1) : Key(facts[k]) = Key(after[i]) /\ ref \in facts[k].refs
    <3>0. \A k : k \in 1..(n + 1) <=> k \in 1..n \/ k = n + 1
      BY <1>2
    <3>1. CASE i = m + 1
      BY <2>2, <2>5, <3>0, <3>1 DEF fact
    <3>2. CASE i \in 1..m
      <4>1. after[i] = before[i] /\ Key(facts[n + 1]) # Key(before[i])
        BY <2>2, <2>4, <3>2 DEF fact
      <4>2. ref \in before[i].refs
              <=> \E k \in 1..n : Key(facts[k]) = Key(before[i]) /\ ref \in facts[k].refs
        BY <1>3, <3>2
      <4> QED BY <3>0, <4>1, <4>2
    <3> QED BY <2>3, <3>1, <3>2
  <2> QED BY <2>2, <2>6, <2>7, <2>8, <2>9 DEF MergeOf, after, fact
<1>5. CASE same # {}
  <2>1. after = [i \in 1..m |-> IF i \in same
                               THEN [before[i] EXCEPT !.refs = @ \cup fact.refs]
                               ELSE before[i]]
    BY <1>5 DEF MergedWith
  <2>2. \A i \in 1..m : i \in same <=> Key(before[i]) = Key(fact)
    OBVIOUS
  <2> HIDE DEF after, same
  <2>3. ASSUME NEW i \in 1..m
        PROVE  /\ after[i] \in Fact /\ Key(after[i]) = Key(before[i])
               /\ after[i].refs = IF i \in same THEN before[i].refs \cup fact.refs
                                  ELSE before[i].refs
    BY <1>1, <2>1 DEF Fact, Key
  <2>4. after \in Seq(Fact) /\ Len(after) = m
    <3>1. after \in [1..m -> Fact]
      BY <2>1, <2>3
    <3> QED BY <1>1, <3>1
  <2>5. PICK i0 \in 1..m : Key(before[i0]) = Key(fact)
    BY <1>5, <2>2 DEF same
  <2> HIDE DEF m, fact
  <2>6. \A i, j \in 1..m : Key(after[i]) = Key(after[j]) => i = j
    BY <1>3, <2>3
  <2>7. ASSUME NEW i \in 1..m
        PROVE  \E k \in 1..(n + 1) : Key(facts[k]) = Key(after[i])
    <3>1. PICK k \in 1..n : Key(facts[k]) = Key(before[i])
      BY <1>3
    <3>2. k \in 1..(n + 1)
      BY <1>2
    <3> QED BY <2>3, <3>1, <3>2
  <2>8. ASSUME NEW k \in 1..(n + 1)
        PROVE  \E i \in 1..m : Key(after[i]) = Key(facts[k])
    <3>1. CASE k = n + 1
      BY <2>3, <2>5, <3>1 DEF fact
    <3>2. CASE k \in 1..n
      <4>1. PICK i \in 1..m : Key(before[i]) = Key(facts[k])
        BY <1>3, <3>2
      <4> QED BY <2>3, <4>1
    <3> QED BY <1>2, <3>1, <3>2
  <2>9. ASSUME NEW i \in 1..m, NEW ref
        PROVE  ref \in after[i].refs
                 <=> \E k \in 1..(n + 1) : Key(facts[k]) = Key(after[i]) /\ ref \in facts[k].refs
    <3>1. ref \in before[i].refs
            <=> \E k \in 1..n : Key(facts[k]) = Key(before[i]) /\ ref \in facts[k].refs
      BY <1>3
    <3>2. ref \in after[i].refs
            <=> ref \in before[i].refs \/ (Key(fact) = Key(before[i]) /\ ref \in fact.refs)
      BY <2>2, <2>3
    <3> QED BY <1>2, <2>3, <3>1, <3>2 DEF fact
  <2> QED BY <2>4, <2>6, <2>7, <2>8, <2>9 DEF MergeOf, after, fact, m
<1> QED BY <1>4, <1>5

\* Merged has every fact once, with the sources of all its repetitions.
LEMMA MergedKeeps ==
    ASSUME NEW facts \in Seq(Fact)
    PROVE  MergeOf(Merged(facts), facts, Len(facts))
<1> DEFINE m == Len(facts)
<1>1. m \in Nat
  OBVIOUS
<1>2. PICK f : Loop(f, facts, m) /\ Merged(facts) = f[m]
  BY <1>1, MergedIsLoop
<1>3. \A n \in 0..m : f[n] = IF n = 0 THEN <<>> ELSE MergedWith(f[n - 1], facts[n])
  BY <1>2 DEF Loop
<1> DEFINE S == {n \in Nat : n <= m => MergeOf(f[n], facts, n)}
<1>4. 0 \in S
  <2>1. f[0] = <<>> /\ 1..0 = {} /\ <<>> \in Seq(Fact) /\ Len(<<>>) = 0
    BY <1>1, <1>3
  <2> HIDE DEF m
  <2>2. MergeOf(f[0], facts, 0)
    BY <2>1 DEF MergeOf
  <2> QED BY <2>2
<1>5. ASSUME NEW n \in Nat, n \in S PROVE n + 1 \in S
  <2>1. SUFFICES ASSUME n + 1 <= m PROVE MergeOf(f[n + 1], facts, n + 1)
    OBVIOUS
  <2>2. n <= m /\ n + 1 \in 1..m /\ n + 1 \in 0..m /\ n + 1 # 0 /\ n + 1 - 1 = n
    BY <1>1, <2>1
  <2>3. MergeOf(f[n], facts, n) /\ f[n + 1] = MergedWith(f[n], facts[n + 1])
    BY <1>3, <1>5, <2>2
  <2> QED BY <2>2, <2>3, MergeStep
<1>6. Nat \subseteq S
  <2> HIDE DEF S
  <2> QED BY <1>4, <1>5, SetInduction
<1>7. MergeOf(f[m], facts, m)
  BY <1>1, <1>6
<1> QED BY <1>2, <1>7

-------------------------------------------------------------------------------
(* What an item says.                                                      *)

\* FactsKeepSources of an item x.
Keeps(x) ==
    /\ \A i, j \in 1..Len(x.facts) : Key(x.facts[i]) = Key(x.facts[j]) => i = j
    /\ \A i \in 1..Len(x.facts) : \A ref \in x.facts[i].refs :
           /\ ref.quoted /\ ref.chunk \in x.rows
           /\ candidate[document[ref.chunk]] = x.pair[1]
    /\ x.extraction = "succeeded" =>
           /\ Keys(x.facts) = Keys(x.raw.facts)
           /\ \A key \in Keys(x.facts) : GivenFor(x.facts, key) = GivenFor(x.raw.facts, key)
    /\ x.extraction # "succeeded" => x.facts = <<>>

\* StatusFollowsFacts of an item x.
Follows(x) ==
    /\ x.status = "conflicting" <=> (x.extraction = "succeeded" /\ Disputed(x.raw))
    /\ x.status = "sufficient" =>
           /\ x.raw.fully /\ ~x.raw.lacks
           /\ \E i \in 1..Len(x.facts) : x.facts[i].answer = "yes"
    /\ x.status = "missing" <=> x.facts = <<>> /\ x.extraction # "failed"
    /\ \A pair \in x.conflicts :
           {x.facts[pair[1]].answer, x.facts[pair[2]].answer} = {"yes", "no"}

\* A pair without rows, and one whose extraction failed, have no facts.
LEMMA NoFacts ==
    ASSUME NEW pair
    PROVE  /\ Keeps(Missing(pair)) /\ Follows(Missing(pair))
           /\ Keeps(Failed(pair)) /\ Follows(Failed(pair))
<1>1. ASSUME NEW x, x.facts = <<>>, x.extraction \in {"not_run", "failed"}, x.conflicts = {},
             x.status = IF x.extraction = "failed" THEN "partial" ELSE "missing"
      PROVE  Keeps(x) /\ Follows(x)
  <2>1. Len(x.facts) = 0 /\ 1..0 = {}
    BY <1>1
  <2>2. Keeps(x)
    BY <1>1, <2>1 DEF Keeps
  <2>3. Follows(x)
    BY <1>1, <2>1 DEF Follows
  <2> QED BY <2>2, <2>3
<1>2. Keeps(Missing(pair)) /\ Follows(Missing(pair))
  <2> DEFINE x == Missing(pair)
  <2>1. x.facts = <<>> /\ x.extraction = "not_run" /\ x.conflicts = {} /\ x.status = "missing"
    BY DEF Missing
  <2> HIDE DEF x
  <2>2. Keeps(x) /\ Follows(x)
    BY <1>1, <2>1
  <2> QED BY <2>2 DEF x
<1>3. Keeps(Failed(pair)) /\ Follows(Failed(pair))
  <2> DEFINE x == Failed(pair)
  <2>1. x.facts = <<>> /\ x.extraction = "failed" /\ x.conflicts = {} /\ x.status = "partial"
    BY DEF Missing, Failed
  <2> HIDE DEF x
  <2>2. Keeps(x) /\ Follows(x)
    BY <1>1, <2>1
  <2> QED BY <2>2 DEF x
<1> QED BY <1>2, <1>3

\* A key of the merged facts is one of the extraction, and the other way round.
LEMMA SameKeys ==
    ASSUME NEW facts \in Seq(Fact), NEW list, MergeOf(list, facts, Len(facts))
    PROVE  /\ Keys(list) = Keys(facts)
           /\ \A key \in Keys(list) : GivenFor(list, key) = GivenFor(facts, key)
<1> DEFINE n == Len(facts)
           m == Len(list)
<1>1. /\ \A i, j \in 1..m : Key(list[i]) = Key(list[j]) => i = j
      /\ \A i \in 1..m : \E k \in 1..n : Key(facts[k]) = Key(list[i])
      /\ \A k \in 1..n : \E i \in 1..m : Key(list[i]) = Key(facts[k])
      /\ \A i \in 1..m : \A ref :
             ref \in list[i].refs
                 <=> \E k \in 1..n : Key(facts[k]) = Key(list[i]) /\ ref \in facts[k].refs
  BY DEF MergeOf
<1>2. Keys(list) = {Key(list[i]) : i \in 1..m} /\ Keys(facts) = {Key(facts[k]) : k \in 1..n}
  BY DEF Keys
<1>3. ASSUME NEW key, NEW ref
      PROVE  /\ ref \in GivenFor(list, key)
                    <=> \E i \in 1..m : Key(list[i]) = key /\ ref \in list[i].refs
             /\ ref \in GivenFor(facts, key)
                    <=> \E k \in 1..n : Key(facts[k]) = key /\ ref \in facts[k].refs
  BY DEF GivenFor
<1> HIDE DEF n, m
<1>4. Keys(list) = Keys(facts)
  <2>1. ASSUME NEW key \in Keys(list) PROVE key \in Keys(facts)
    BY <1>1, <1>2, <2>1
  <2>2. ASSUME NEW key \in Keys(facts) PROVE key \in Keys(list)
    BY <1>1, <1>2, <2>2
  <2> QED BY <2>1, <2>2
<1>5. ASSUME NEW key \in Keys(list) PROVE GivenFor(list, key) = GivenFor(facts, key)
  <2>1. PICK i \in 1..m : Key(list[i]) = key
    BY <1>2, <1>5
  <2>2. ASSUME NEW ref
        PROVE  ref \in GivenFor(list, key) <=> ref \in GivenFor(facts, key)
    <3>1. ref \in GivenFor(list, key) <=> ref \in list[i].refs
      BY <1>1, <1>3, <2>1
    <3>2. ref \in list[i].refs <=> ref \in GivenFor(facts, key)
      BY <1>1, <1>3, <2>1
    <3> QED BY <3>1, <3>2
  <2>3. \A x \in GivenFor(list, key) : x \in GivenFor(facts, key)
    BY <2>2
  <2>4. \A x \in GivenFor(facts, key) : x \in GivenFor(list, key)
    BY <2>2
  <2>5. GivenFor(list, key) \subseteq GivenFor(facts, key)
        /\ GivenFor(facts, key) \subseteq GivenFor(list, key)
    BY <2>3, <2>4
  <2> QED BY <2>5
<1> QED BY <1>4, <1>5

\* _find_conflicts finds a conflict exactly when the extraction has a yes and a
\* no about one known scope.
LEMMA ConflictsAreDisputes ==
    ASSUME NEW raw, raw.facts \in Seq(Fact), NEW list, MergeOf(list, raw.facts, Len(raw.facts))
    PROVE  /\ Conflicts(list) # {} <=> Disputed(raw)
           /\ \A pair \in Conflicts(list) :
                  {list[pair[1]].answer, list[pair[2]].answer} = {"yes", "no"}
<1> DEFINE facts == raw.facts
           n == Len(facts)
           m == Len(list)
<1>1. /\ n \in Nat /\ m \in Nat /\ list \in Seq(Fact)
      /\ \A k \in 1..n : facts[k] \in Fact
      /\ \A i \in 1..m : list[i] \in Fact
      /\ \A i \in 1..m : \E k \in 1..n : Key(facts[k]) = Key(list[i])
      /\ \A k \in 1..n : \E i \in 1..m : Key(list[i]) = Key(facts[k])
  <2>1. /\ list \in Seq(Fact)
        /\ \A i \in 1..m : \E k \in 1..n : Key(facts[k]) = Key(list[i])
        /\ \A k \in 1..n : \E i \in 1..m : Key(list[i]) = Key(facts[k])
    BY DEF MergeOf
  <2>2. facts \in Seq(Fact)
    OBVIOUS
  <2> HIDE DEF facts
  <2>3. n \in Nat /\ \A k \in 1..n : facts[k] \in Fact
    BY <2>2
  <2>4. m \in Nat /\ \A i \in 1..m : list[i] \in Fact
    BY <2>1
  <2> HIDE DEF n, m
  <2> QED BY <2>1, <2>3, <2>4
<1>2. Disputed(raw) <=> \E i, j \in 1..n : /\ facts[i].answer = "yes" /\ facts[j].answer = "no"
                                         /\ facts[i].scope = facts[j].scope
                                         /\ facts[i].scope \in Known
  BY DEF Disputed
<1>3. ASSUME NEW f, NEW g PROVE Key(f) = Key(g) <=> f.scope = g.scope /\ f.answer = g.answer
  BY DEF Key
<1>4. ASSUME NEW f \in Fact PROVE f.answer \in {"yes", "no"}
  BY DEF Fact
<1>5. ASSUME NEW i \in 1..m, NEW j \in 1..m
      PROVE  <<i, j>> \in Conflicts(list) <=> /\ i < j /\ list[i].scope = list[j].scope
                                            /\ list[i].scope \in Known
                                            /\ list[i].answer # list[j].answer
  BY DEF Conflicts
<1>6. \A pair \in Conflicts(list) : /\ pair = <<pair[1], pair[2]>>
                                   /\ pair[1] \in 1..m /\ pair[2] \in 1..m
  BY DEF Conflicts
<1> HIDE DEF facts, n, m
<1>7. ASSUME NEW pair \in Conflicts(list)
      PROVE  Disputed(raw) /\ {list[pair[1]].answer, list[pair[2]].answer} = {"yes", "no"}
  <2>1. PICK i \in 1..m, j \in 1..m : i = pair[1] /\ j = pair[2] /\ <<i, j>> \in Conflicts(list)
    BY <1>6
  <2>2. /\ list[i].scope = list[j].scope /\ list[i].scope \in Known
        /\ list[i].answer # list[j].answer
    BY <1>5, <2>1
  <2>3. list[i].answer \in {"yes", "no"} /\ list[j].answer \in {"yes", "no"}
    BY <1>1, <1>4
  <2>4. PICK a \in 1..n, b \in 1..n : Key(facts[a]) = Key(list[i]) /\ Key(facts[b]) = Key(list[j])
    BY <1>1
  <2>5. /\ facts[a].scope = list[i].scope /\ facts[a].answer = list[i].answer
        /\ facts[b].scope = list[j].scope /\ facts[b].answer = list[j].answer
    BY <1>3, <2>4
  <2>6. Disputed(raw)
    <3>1. CASE list[i].answer = "yes"
      BY <1>2, <2>2, <2>3, <2>5, <3>1
    <3>2. CASE list[i].answer = "no"
      BY <1>2, <2>2, <2>3, <2>5, <3>2
    <3> QED BY <2>3, <3>1, <3>2
  <2> QED BY <2>1, <2>2, <2>3, <2>6
<1>8. ASSUME Disputed(raw) PROVE Conflicts(list) # {}
  <2>1. PICK a \in 1..n, b \in 1..n : /\ facts[a].answer = "yes" /\ facts[b].answer = "no"
                                     /\ facts[a].scope = facts[b].scope
                                     /\ facts[a].scope \in Known
    BY <1>2, <1>8
  <2>2. PICK i \in 1..m, j \in 1..m : Key(list[i]) = Key(facts[a]) /\ Key(list[j]) = Key(facts[b])
    BY <1>1
  <2>3. /\ list[i].scope = facts[a].scope /\ list[i].answer = "yes"
        /\ list[j].scope = facts[b].scope /\ list[j].answer = "no"
    BY <1>3, <2>1, <2>2
  <2>4. i < j \/ j < i
    <3>1. i # j
      BY <2>3
    <3>2. i \in Nat /\ j \in Nat
      BY <1>1
    <3> QED BY <3>1, <3>2
  <2>5. <<i, j>> \in Conflicts(list) \/ <<j, i>> \in Conflicts(list)
    BY <1>5, <2>1, <2>3, <2>4
  <2> QED BY <2>5
<1> QED BY <1>7, <1>8

\* An extraction.
LEMMA ExtractedItem ==
    ASSUME NEW pair, NEW raw \in Extractions
    PROVE  Keeps(Extracted(pair, raw)) /\ Follows(Extracted(pair, raw))
<1> DEFINE facts == Merged(raw.facts)
           conflicts == Conflicts(facts)
           x == Extracted(pair, raw)
<1>1. raw.facts \in Seq(Fact) /\ raw.fully \in BOOLEAN /\ raw.lacks \in BOOLEAN
  BY ExtractionsAssumption
<1>2. MergeOf(facts, raw.facts, Len(raw.facts))
  BY <1>1, MergedKeeps
<1>3. CASE ~Provable(raw.facts, Rows(pair))
  <2>1. x = Failed(pair)
    BY <1>3 DEF Extracted
  <2> QED BY <2>1, NoFacts
<1>4. CASE Provable(raw.facts, Rows(pair))
  <2>1. /\ x.pair = pair /\ x.rows = Rows(pair) /\ x.status = Status(facts, conflicts, raw)
        /\ x.extraction = "succeeded" /\ x.facts = facts /\ x.conflicts = conflicts /\ x.raw = raw
    BY <1>4 DEF Extracted, Missing
  <2> HIDE DEF facts, x, conflicts
  <2>2. ASSUME NEW i \in 1..Len(facts), NEW ref \in facts[i].refs
        PROVE  ref.quoted /\ ref.chunk \in Rows(pair)
    <3>1. PICK k \in 1..Len(raw.facts) : ref \in raw.facts[k].refs
      BY <1>2, <2>2 DEF MergeOf
    <3> QED BY <1>4, <3>1 DEF Provable
  <2>3. \A c \in Rows(pair) : candidate[document[c]] = pair[1]
    BY DEF Rows
  <2>4. Keeps(x)
    <3>1. \A i, j \in 1..Len(facts) : Key(facts[i]) = Key(facts[j]) => i = j
      BY <1>2 DEF MergeOf
    <3>2. /\ Keys(facts) = Keys(raw.facts)
          /\ \A key \in Keys(facts) : GivenFor(facts, key) = GivenFor(raw.facts, key)
      BY <1>1, <1>2, SameKeys
    <3> QED BY <2>1, <2>2, <2>3, <3>1, <3>2 DEF Keeps
  <2>5. /\ conflicts # {} <=> Disputed(raw)
        /\ \A p \in conflicts : {facts[p[1]].answer, facts[p[2]].answer} = {"yes", "no"}
    BY <1>1, <1>2, ConflictsAreDisputes DEF conflicts
  <2>6. facts = <<>> => conflicts = {} /\ ~\E i \in 1..Len(facts) : facts[i].answer = "yes"
    BY DEF conflicts, Conflicts
  <2>7. /\ Status(facts, conflicts, raw) = "conflicting" <=> conflicts # {}
        /\ Status(facts, conflicts, raw) = "sufficient" =>
               /\ \E i \in 1..Len(facts) : facts[i].answer = "yes"
               /\ raw.fully /\ ~raw.lacks
        /\ Status(facts, conflicts, raw) = "missing" <=> facts = <<>>
    BY <1>1, <2>6 DEF Status
  <2>8. Follows(x)
    BY <2>1, <2>5, <2>7 DEF Follows
  <2> QED BY <2>4, <2>8 DEF x
<1> QED BY <1>3, <1>4

\* Every step leaves an item that keeps its sources and says what follows.
LEMMA ItemSteps ==
    ASSUME item # None => Keeps(item) /\ Follows(item), [Next]_vars
    PROVE  item' # None => Keeps(item') /\ Follows(item')
<1>1. CASE UNCHANGED item
  BY <1>1
<1>2. CASE Take
  BY <1>2, NoFacts DEF Take
<1>3. ASSUME NEW raw \in Extractions, Answers(raw) PROVE Keeps(item') /\ Follows(item')
  BY <1>3, ExtractedItem DEF Answers, Put
<1>4. CASE GivesUp
  BY <1>4, NoFacts DEF GivesUp, Put
<1>5. CASE Respond
  BY <1>5 DEF Respond
<1>6. ASSUME \/ \E d \in Documents : Closes(d) \/ Reopens(d)
             \/ \E found : Search(found)
             \/ Merge \/ Fails \/ \E h \in Indexed : Load(h)
             \/ LoadParent \/ Loaded \/ Retries \/ UNCHANGED vars
      PROVE  UNCHANGED item
  BY <1>6 DEF Closes, Reopens, Search, Merge, Fails, Load, LoadParent, Loaded, Retries, vars
<1> QED BY <1>1, <1>2, <1>3, <1>4, <1>5, <1>6 DEF Next

(***************************************************************************)
(* Whatever the model repeats and misquotes: an item has every fact of its *)
(* extraction once, with the sources of all its repetitions, all of them   *)
(* quotations of rows of this candidate and requirement.                   *)
(***************************************************************************)
THEOREM FactsAreKept == Spec => []FactsKeepSources
<1> DEFINE I == item # None => Keeps(item) /\ Follows(item)
<1>1. Init => I
  BY DEF Init
<1>2. I /\ [Next]_vars => I'
  BY ItemSteps
<1>3. I => FactsKeepSources
  BY DEF Keeps, FactsKeepSources
<1> HIDE DEF I
<1> QED BY <1>1, <1>2, <1>3, PTL DEF Spec

(***************************************************************************)
(* The status of an item follows from its facts: conflicting exactly when  *)
(* they hold a yes and a no about one known scope, whatever the model says *)
(* of its own support.                                                     *)
(***************************************************************************)
THEOREM StatusIsBorneOut == Spec => []StatusFollowsFacts
<1> DEFINE I == item # None => Keeps(item) /\ Follows(item)
<1>1. Init => I
  BY DEF Init
<1>2. I /\ [Next]_vars => I'
  BY ItemSteps
<1>3. I => StatusFollowsFacts
  BY DEF Follows, StatusFollowsFacts
<1> HIDE DEF I
<1> QED BY <1>1, <1>2, <1>3, PTL DEF Spec

-------------------------------------------------------------------------------
(* Where the sources of a pack come from.                                  *)

\* What the search found, and which documents were there when.
Found ==
    /\ hits = [r \in Requirements |-> hits[r]]
    /\ \A r \in Requirements : hits[r] \subseteq Indexed
    /\ reachable \subseteq been /\ Documents \subseteq reachable \cup gone

Phases ==
    /\ pc = "search" => todo \subseteq Requirements /\ DOMAIN sources = {}
    /\ pc \in {"load", "parent"} => todo \subseteq Hits
    /\ pc = "parent" => at \in DOMAIN sources \cap Hits /\ parent[at] # None

\* Only parents, which are never hits, are context for more than one hit.
Trusted ==
    \A s \in DOMAIN sources :
        /\ s \in Chunks /\ document[s] \in been
        /\ sources[s] # {} /\ sources[s] \subseteq FoundFor(s)
        /\ s \in Indexed => sources[s] = Asking(s)

ParentOf(h) ==
    parent[h] \in Chunks \ Oversized =>
        parent[h] \in DOMAIN sources /\ Asking(h) \subseteq sources[parent[h]]

\* A hit that was handled is a source unless its document was closed, and its
\* parent is one too, once that was handled.
LoadedSoFar ==
    pc \in {"load", "parent"} => \A h \in Hits \ todo : document[h] \notin gone =>
        h \in DOMAIN sources /\ (ParentOf(h) \/ (pc = "parent" /\ at = h))

LoadedAll ==
    pc \in {"pack", "ask", "done"} /\ with_pack =>
        /\ shown \subseteq DOMAIN sources
        /\ \A h \in Hits : document[h] \notin gone => h \in shown /\ ParentOf(h)

SInv == Found /\ Phases /\ Trusted /\ LoadedSoFar /\ LoadedAll

\* What the invariant says of a request that has answered.
LEMMA SInvTrusts == SInv => SourcesAreTrusted
<1> SUFFICES ASSUME SInv PROVE SourcesAreTrusted
  OBVIOUS
<1>1. Hits \subseteq Indexed
  BY DEF SInv, Found, Hits
<1>2. \A s \in DOMAIN sources : /\ document[s] \in been
                               /\ sources[s] # {} /\ sources[s] \subseteq FoundFor(s)
  BY DEF SInv, Trusted
<1>3. ASSUME pc \in {"pack", "ask", "done"}, with_pack
      PROVE  /\ shown \subseteq DOMAIN sources
             /\ \A h \in Hits : document[h] \notin gone =>
                    h \in shown /\ sources[h] = Asking(h) /\ ParentOf(h)
  BY <1>1, <1>3 DEF SInv, LoadedAll, Trusted
<1> QED BY <1>2, <1>3 DEF SourcesAreTrusted, ParentOf

\* A source that is added.
LEMMA AddedSource ==
    ASSUME NEW S, NEW c, NEW ids
    PROVE  /\ DOMAIN Added(S, c, ids) = DOMAIN S \cup {c}
           /\ \A s \in DOMAIN S : s # c => Added(S, c, ids)[s] = S[s]
           /\ \A s \in DOMAIN S : S[s] \subseteq Added(S, c, ids)[s]
           /\ Added(S, c, ids)[c] = (IF c \in DOMAIN S THEN S[c] ELSE {}) \cup ids
BY DEF Added

\* A parent that is a source stays one, for what it was a source for.
LEMMA ParentStays ==
    ASSUME NEW k, ParentOf(k), UNCHANGED hits, DOMAIN sources \subseteq DOMAIN sources',
           \A s \in DOMAIN sources : sources[s] \subseteq sources'[s]
    PROVE  ParentOf(k)'
<1>1. Asking(k)' = Asking(k)
  BY DEF Asking
<1>2. ASSUME parent[k] \in Chunks \ Oversized
      PROVE  parent[k] \in DOMAIN sources' /\ Asking(k) \subseteq sources'[parent[k]]
  <2>1. parent[k] \in DOMAIN sources /\ Asking(k) \subseteq sources[parent[k]]
    BY <1>2 DEF ParentOf
  <2> QED BY <2>1
<1> QED BY <1>1, <1>2 DEF ParentOf

\* A hit is asked for, and it is found for what it is asked for.
LEMMA HitsAreAsked ==
    ASSUME Found, NEW h \in Hits
    PROVE  /\ h \in Indexed /\ h \in Chunks /\ document[h] \in Documents
           /\ Asking(h) # {} /\ Asking(h) \subseteq FoundFor(h)
           /\ parent[h] # None =>
                  /\ parent[h] \in Chunks \ Indexed /\ document[parent[h]] = document[h]
                  /\ Asking(h) \subseteq FoundFor(parent[h])
<1>1. PICK r \in Requirements : h \in hits[r]
  BY DEF Hits
<1>2. h \in Indexed /\ Asking(h) # {}
  BY <1>1 DEF Found, Asking
<1>3. h \in Chunks /\ document[h] \in Documents
      /\ (parent[h] # None => parent[h] \in Chunks \ Indexed /\ document[parent[h]] = document[h])
  BY <1>2, TreeAssumption
<1>4. Asking(h) \subseteq FoundFor(h)
  BY DEF FoundFor
<1>5. ASSUME NEW p, parent[h] = p PROVE Asking(h) \subseteq FoundFor(p)
  <2>1. h \in {c \in Hits : parent[c] = p}
    BY <1>5
  <2> QED BY <2>1 DEF FoundFor
<1> QED BY <1>2, <1>3, <1>4, <1>5

\* A hit is read back.
LEMMA LoadKeeps == ASSUME SInv, NEW h \in Indexed, Load(h) PROVE SInv'
<1>1. /\ Found /\ Trusted /\ pc = "load" /\ h \in todo /\ h \in Hits /\ todo' = todo \ {h}
      /\ UNCHANGED <<hits, reachable, been, gone, with_pack, shown>> /\ todo \subseteq Hits
  BY DEF SInv, Phases, Load
<1>2. /\ \A c : Asking(c)' = Asking(c) /\ FoundFor(c)' = FoundFor(c)
      /\ Hits' = Hits
  BY <1>1 DEF Asking, FoundFor, Hits
<1>3. \A k \in Hits \ todo : document[k] \notin gone => k \in DOMAIN sources /\ ParentOf(k)
  BY <1>1 DEF SInv, LoadedSoFar
<1>4. /\ h \in Chunks /\ document[h] \in Documents /\ Asking(h) # {}
      /\ Asking(h) \subseteq FoundFor(h)
  BY <1>1, HitsAreAsked
<1>5. Found'
  BY <1>1 DEF Found
<1>6. CASE ~Resolves(h)
  <2>1. UNCHANGED <<pc, at, sources>>
    BY <1>6 DEF Load
  <2>2. document[h] \in gone
    BY <1>1, <1>4, <1>6 DEF Found, Resolves
  <2>3. Trusted'
    BY <1>1, <1>2, <2>1 DEF Trusted
  <2>4. Phases'
    BY <1>1, <1>2, <2>1 DEF Phases
  <2>5. LoadedSoFar'
    <3>1. ASSUME NEW k \in Hits \ todo', document[k] \notin gone
          PROVE  k \in DOMAIN sources' /\ ParentOf(k)'
      <4>1. k \in Hits \ todo
        BY <1>1, <2>2, <3>1
      <4>2. k \in DOMAIN sources /\ ParentOf(k)
        BY <1>3, <3>1, <4>1
      <4>3. ParentOf(k)'
        BY <1>1, <2>1, <4>2, ParentStays
      <4> QED BY <2>1, <4>2, <4>3
    <3> QED BY <1>1, <1>2, <3>1 DEF LoadedSoFar
  <2>6. LoadedAll'
    BY <1>1, <2>1 DEF LoadedAll
  <2> QED BY <1>5, <2>3, <2>4, <2>5, <2>6 DEF SInv
<1>7. CASE Resolves(h)
  <2>1. /\ sources' = Added(sources, h, Asking(h))
        /\ IF parent[h] # None THEN pc' = "parent" /\ at' = h ELSE UNCHANGED <<pc, at>>
    BY <1>7 DEF Load
  <2>2. /\ DOMAIN sources' = DOMAIN sources \cup {h}
        /\ \A s \in DOMAIN sources : s # h => sources'[s] = sources[s]
        /\ \A s \in DOMAIN sources : sources[s] \subseteq sources'[s]
        /\ sources'[h] = (IF h \in DOMAIN sources THEN sources[h] ELSE {}) \cup Asking(h)
    <3>1. ASSUME NEW S, S = Added(sources, h, Asking(h))
          PROVE  /\ DOMAIN S = DOMAIN sources \cup {h}
                 /\ \A s \in DOMAIN sources : s # h => S[s] = sources[s]
                 /\ \A s \in DOMAIN sources : sources[s] \subseteq S[s]
                 /\ S[h] = (IF h \in DOMAIN sources THEN sources[h] ELSE {}) \cup Asking(h)
      BY <3>1 DEF Added
    <3> QED BY <2>1, <3>1
  <2>3. sources'[h] = Asking(h)
    BY <1>1, <2>2 DEF Trusted
  <2>4. document[h] \in been
    BY <1>1, <1>7 DEF Resolves, Found
  <2>5. Trusted'
    BY <1>1, <1>2, <1>4, <2>2, <2>3, <2>4 DEF Trusted
  <2>6. Phases'
    BY <1>1, <1>2, <2>1, <2>2 DEF Phases
  <2>7. LoadedSoFar'
    <3>1. ASSUME NEW k \in Hits \ todo', document[k] \notin gone
          PROVE  k \in DOMAIN sources' /\ (ParentOf(k)' \/ (pc' = "parent" /\ at' = k))
      <4>1. CASE k = h
        <5>1. None \notin Chunks
          BY TreeAssumption
        <5>2. parent[h] = None => ParentOf(h)'
          BY <5>1 DEF ParentOf
        <5> QED BY <2>1, <2>2, <4>1, <5>2
      <4>2. CASE k # h
        <5>1. k \in DOMAIN sources /\ ParentOf(k)
          BY <1>1, <1>3, <3>1, <4>2
        <5>2. ParentOf(k)'
          BY <1>1, <2>2, <5>1, ParentStays
        <5> QED BY <2>2, <5>1, <5>2
      <4> QED BY <4>1, <4>2
    <3> QED BY <1>1, <1>2, <3>1 DEF LoadedSoFar
  <2>8. LoadedAll'
    BY <1>1, <2>1 DEF LoadedAll
  <2> QED BY <1>5, <2>5, <2>6, <2>7, <2>8 DEF SInv
<1> QED BY <1>6, <1>7

\* Its parent is added.
LEMMA LoadParentKeeps == ASSUME SInv, LoadParent PROVE SInv'
<1> DEFINE p == parent[at]
<1>1. /\ Found /\ Trusted /\ pc = "parent" /\ pc' = "load" /\ at \in Hits /\ p # None
      /\ at \in DOMAIN sources /\ todo \subseteq Hits
      /\ UNCHANGED <<todo, hits, reachable, been, gone, with_pack, shown>>
  BY DEF SInv, Phases, LoadParent
<1>2. /\ \A c : Asking(c)' = Asking(c) /\ FoundFor(c)' = FoundFor(c)
      /\ Hits' = Hits
  BY <1>1 DEF Asking, FoundFor, Hits
<1>3. \A k \in Hits \ todo : document[k] \notin gone =>
          k \in DOMAIN sources /\ (ParentOf(k) \/ at = k)
  BY <1>1 DEF SInv, LoadedSoFar
<1>4. /\ p \in Chunks \ Indexed /\ document[p] = document[at] /\ document[at] \in Documents
      /\ Asking(at) # {} /\ Asking(at) \subseteq FoundFor(p)
  BY <1>1, HitsAreAsked
<1>5. Found' /\ Phases' /\ LoadedAll'
  BY <1>1, <1>2 DEF Found, Phases, LoadedAll
<1>6. CASE ~(Resolves(p) /\ p \notin Oversized)
  <2>1. UNCHANGED sources
    BY <1>6 DEF LoadParent
  <2>2. document[at] \notin gone => ParentOf(at)
    BY <1>1, <1>4, <1>6 DEF ParentOf, Found, Resolves
  <2>3. Trusted'
    BY <1>1, <1>2, <2>1 DEF Trusted
  <2>4. LoadedSoFar'
    <3>1. ASSUME NEW k \in Hits \ todo, document[k] \notin gone
          PROVE  k \in DOMAIN sources' /\ ParentOf(k)'
      <4>1. k \in DOMAIN sources /\ ParentOf(k)
        BY <1>3, <2>2, <3>1
      <4>2. ParentOf(k)'
        BY <1>1, <2>1, <4>1, ParentStays
      <4> QED BY <2>1, <4>1, <4>2
    <3> QED BY <1>1, <1>2, <3>1 DEF LoadedSoFar
  <2> QED BY <1>5, <2>3, <2>4 DEF SInv
<1>7. CASE Resolves(p) /\ p \notin Oversized
  <2>1. sources' = Added(sources, p, Asking(at))
    BY <1>7 DEF LoadParent
  <2>2. /\ DOMAIN sources' = DOMAIN sources \cup {p}
        /\ \A s \in DOMAIN sources : s # p => sources'[s] = sources[s]
        /\ \A s \in DOMAIN sources : sources[s] \subseteq sources'[s]
        /\ sources'[p] = (IF p \in DOMAIN sources THEN sources[p] ELSE {}) \cup Asking(at)
    <3>1. ASSUME NEW S, S = Added(sources, p, Asking(at))
          PROVE  /\ DOMAIN S = DOMAIN sources \cup {p}
                 /\ \A s \in DOMAIN sources : s # p => S[s] = sources[s]
                 /\ \A s \in DOMAIN sources : sources[s] \subseteq S[s]
                 /\ S[p] = (IF p \in DOMAIN sources THEN sources[p] ELSE {}) \cup Asking(at)
      BY <3>1 DEF Added
    <3> QED BY <2>1, <3>1
  <2>3. document[p] \in been
    BY <1>1, <1>7 DEF Resolves, Found
  <2> HIDE DEF p
  <2>4. Trusted'
    <3>1. ASSUME NEW s \in DOMAIN sources'
          PROVE  /\ s \in Chunks /\ document[s] \in been
                 /\ sources'[s] # {} /\ sources'[s] \subseteq FoundFor(s)
                 /\ s \in Indexed => sources'[s] = Asking(s)
      <4>1. CASE s = p
        BY <1>1, <1>4, <2>2, <2>3, <4>1 DEF Trusted
      <4>2. CASE s # p
        BY <1>1, <2>2, <4>2 DEF Trusted
      <4> QED BY <4>1, <4>2
    <3> QED BY <1>1, <1>2, <3>1 DEF Trusted
  <2>5. LoadedSoFar'
    <3>1. ASSUME NEW k \in Hits \ todo, document[k] \notin gone
          PROVE  k \in DOMAIN sources' /\ ParentOf(k)'
      <4>1. CASE k = at
        <5>1. Asking(at) \subseteq sources'[p]
          BY <2>2
        <5> QED BY <1>1, <1>2, <2>2, <4>1, <5>1 DEF ParentOf, p
      <4>2. CASE k # at
        <5>1. k \in DOMAIN sources /\ ParentOf(k)
          BY <1>3, <3>1, <4>2
        <5>2. ParentOf(k)'
          BY <1>1, <2>2, <5>1, ParentStays
        <5> QED BY <2>2, <5>1, <5>2
      <4> QED BY <4>1, <4>2
    <3> QED BY <1>1, <1>2, <3>1 DEF LoadedSoFar
  <2> QED BY <1>5, <2>4, <2>5 DEF SInv
<1> QED BY <1>6, <1>7

\* Every step keeps the invariant.
LEMMA SInvNext == ASSUME SInv, [Next]_vars PROVE SInv'
<1> USE DEF SInv
<1>1. ASSUME NEW d \in Documents, Closes(d) \/ Reopens(d) PROVE SInv'
  <2>1. /\ UNCHANGED <<pc, todo, at, hits, sources, shown, with_pack>>
        /\ been \subseteq been' /\ gone \subseteq gone'
        /\ reachable' \subseteq been' /\ Documents \subseteq reachable' \cup gone'
    <3>1. CASE Closes(d)
      BY <3>1 DEF Closes, request, Found
    <3>2. CASE Reopens(d)
      BY <3>2 DEF Reopens, request, Found
    <3> QED BY <1>1, <3>1, <3>2
  <2>2. /\ \A c : Asking(c)' = Asking(c) /\ FoundFor(c)' = FoundFor(c)
        /\ Hits' = Hits
    BY <2>1 DEF Asking, FoundFor, Hits
  <2>3. Found' /\ Phases'
    BY <2>1, <2>2 DEF Found, Phases
  <2>4. Trusted'
    BY <2>1, <2>2 DEF Trusted
  <2>5. LoadedSoFar' /\ LoadedAll'
    BY <2>1, <2>2 DEF LoadedSoFar, LoadedAll, ParentOf
  <2> QED BY <2>3, <2>4, <2>5
<1>2. ASSUME NEW found \in SUBSET Findable, Search(found) PROVE SInv'
  <2>1. /\ pc = "search" /\ UNCHANGED <<pc, sources, reachable, been, gone>>
        /\ hits' = [hits EXCEPT ![First(todo)] = found] /\ todo' = todo \ {First(todo)}
    BY <1>2 DEF Search
  <2>2. Found'
    BY <2>1 DEF Found, Findable
  <2> QED BY <2>1, <2>2 DEF Phases, Trusted, LoadedSoFar, LoadedAll
<1>3. CASE Merge
  <2>1. /\ pc = "search" /\ UNCHANGED <<hits, sources, reachable, been, gone, with_pack, at>>
        /\ \/ pc' = "load" /\ todo' = Hits
           \/ pc' = "done" /\ ~with_pack
    BY <1>3 DEF Merge, request
  <2>2. Hits' = Hits
    BY <2>1 DEF Hits
  <2>3. Found' /\ Trusted'
    BY <2>1 DEF Found, Trusted, Phases
  <2> QED BY <2>1, <2>2, <2>3 DEF Phases, LoadedSoFar, LoadedAll
<1>4. CASE Fails
  <2>1. pc' = "failed" /\ UNCHANGED <<hits, sources, reachable, been, gone>>
    BY <1>4 DEF Fails, request
  <2>2. \A c : FoundFor(c)' = FoundFor(c) /\ Asking(c)' = Asking(c)
    BY <2>1 DEF FoundFor, Asking, Hits
  <2>3. Found' /\ Trusted'
    BY <2>1, <2>2 DEF Found, Trusted
  <2> QED BY <2>1, <2>3 DEF Phases, LoadedSoFar, LoadedAll
<1>5. ASSUME NEW h \in Indexed, Load(h) PROVE SInv'
  BY <1>5, LoadKeeps
<1>6. CASE LoadParent
  BY <1>6, LoadParentKeeps
<1>7. CASE Loaded
  <2>1. /\ pc = "load" /\ pc' = "pack" /\ todo = {} /\ shown' = Hits \cap DOMAIN sources
        /\ UNCHANGED <<hits, sources, reachable, been, gone, with_pack>>
    BY <1>7 DEF Loaded, request
  <2>2. /\ \A c : FoundFor(c)' = FoundFor(c) /\ Asking(c)' = Asking(c)
        /\ Hits' = Hits
    BY <2>1 DEF FoundFor, Asking, Hits
  <2>3. Found' /\ Trusted'
    BY <2>1, <2>2 DEF Found, Trusted
  <2>4. LoadedAll'
    BY <2>1, <2>2 DEF LoadedSoFar, LoadedAll, ParentOf
  <2> QED BY <2>1, <2>3, <2>4 DEF Phases, LoadedSoFar
<1>8. CASE Take \/ (\E raw \in Extractions : Answers(raw)) \/ Retries \/ GivesUp \/ Respond
  <2>1. /\ pc \in {"pack", "ask"} /\ pc' \in {"pack", "ask", "done"}
        /\ UNCHANGED <<hits, sources, reachable, been, gone, with_pack, shown>>
    BY <1>8 DEF Take, Answers, Put, Retries, GivesUp, Respond, request
  <2>2. /\ \A c : FoundFor(c)' = FoundFor(c) /\ Asking(c)' = Asking(c)
        /\ Hits' = Hits
    BY <2>1 DEF FoundFor, Asking, Hits
  <2>3. Found' /\ Trusted'
    BY <2>1, <2>2 DEF Found, Trusted
  <2>4. LoadedAll'
    BY <2>1, <2>2 DEF LoadedAll, ParentOf
  <2> QED BY <2>1, <2>3, <2>4 DEF Phases, LoadedSoFar
<1>9. CASE UNCHANGED vars
  <2>1. UNCHANGED <<pc, todo, at, hits, sources, shown, with_pack, reachable, been, gone>>
    BY <1>9 DEF vars, request
  <2>2. /\ \A c : FoundFor(c)' = FoundFor(c) /\ Asking(c)' = Asking(c)
        /\ Hits' = Hits
    BY <2>1 DEF FoundFor, Asking, Hits
  <2> QED BY <2>1, <2>2 DEF Found, Phases, Trusted, LoadedSoFar, LoadedAll, ParentOf
<1> QED BY <1>1, <1>2, <1>3, <1>4, <1>5, <1>6, <1>7, <1>8, <1>9 DEF Next

(***************************************************************************)
(* Whatever the index still holds: a source of a pack is a chunk that      *)
(* PostgreSQL gave the caller during the request, for requirements it or a *)
(* child of it was found for; and a hit of a document that stayed open is  *)
(* shown and has its parent beside it.                                     *)
(***************************************************************************)
THEOREM PacksAreTrusted == Spec => []SourcesAreTrusted
<1>1. Init => SInv
  <2> SUFFICES ASSUME Init PROVE SInv
    OBVIOUS
  <2>1. /\ pc = "search" /\ todo = Requirements /\ hits = [r \in Requirements |-> {}]
        /\ sources = NoSources /\ been = reachable /\ gone = Documents \ reachable
    BY DEF Init
  <2>2. DOMAIN sources = {}
    BY <2>1 DEF NoSources
  <2> QED BY <2>1, <2>2 DEF SInv, Found, Phases, Trusted, LoadedSoFar, LoadedAll
<1>2. SInv /\ [Next]_vars => SInv'
  BY SInvNext
<1> QED BY <1>1, <1>2, SInvTrusts, PTL DEF Spec
===============================================================================

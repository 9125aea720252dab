--------------------------- MODULE HierarchyProofs ---------------------------
(***************************************************************************)
(* Proofs about Hierarchy, for any ontologies, corpora and bounds.         *)
(*                                                                         *)
(* What the validation refuses is what the pairs need: two categories      *)
(* share no key and every key has a way back, so the category a candidate  *)
(* is noted with is the one the ontology gives it.  The labels and parents *)
(* of an item are read from the order its own options were put in, so they *)
(* stay right whatever the shuffle and wherever the catch-all options go.  *)
(***************************************************************************)
EXTENDS Hierarchy, SequenceTheorems, FiniteSetTheorems, WellFoundedInduction, TLAPS

\* Nothing is read from an ontology that was not validated.
Mapped ==
  /\ phase \notin {"start", "refused"} => Validates(mapping)
  /\ phase = "broken" => ~(Range(mapping.allCoarse) \subseteq Range(mapping.coarse))

\* A pair for each sample, in the order of the samples.
PairedInOrder ==
  /\ phase \in {"start", "refused", "rows"} => pairs = [train |-> <<>>, eval |-> <<>>]
  /\ pairs.train \in Seq(Range(pairs.train)) /\ pairs.eval \in Seq(Range(pairs.eval))
  /\ Len(pairs.train) <= Len(train) /\ Len(pairs.eval) <= Len(eval)
  /\ PairsAreRight

\* A pair names the category of its target.
ParentsNoted ==
  \A side \in {"train", "eval"} : \A i \in DOMAIN pairs[side] :
    /\ pairs[side][i].target \in Range(mapping.fine)
    /\ pairs[side][i].parent = mapping.parent[pairs[side][i].target]

\* In an item that is judged the options of the coarse question are in the
\* order of the ontology, and the label is the slot of the target's category.
JudgedItem(item) ==
  /\ item.target \in Range(mapping.fine)
  /\ item.coarse = mapping.coarse
  /\ item.coarseLabel \in Int /\ item.coarseLabel + 1 \in DOMAIN mapping.coarse
  /\ mapping.coarse[item.coarseLabel + 1] = mapping.parent[item.target]

Labelled ==
  /\ batch \in Seq(Range(batch))
  /\ phase \in {"evaluating", "judging"} => \A i \in DOMAIN batch : JudgedItem(batch[i])
  /\ phase = "judging" => batch # <<>>
  /\ phase \notin {"training", "evaluating", "judging", "unfit"} => batch = <<>>

\* The counters, and the last verdict.
Counted ==
  /\ tally \in [coarse : Nat, fine : Nat, e2e : Nat, beams : Nat, total : Nat]
  /\ phase \in {"start", "refused"} => verdict = NoVerdict
  /\ RightWithinBeam

IInv == TypeOK /\ Mapped /\ PairedInOrder /\ ParentsNoted /\ Labelled /\ Counted

-----------------------------------------------------------------------------
\* Each validated key has one category, the one of the reverse index.
LEMMA OneCategory ==
  ASSUME NEW o, Ontology(o), Validates(o), NEW f \in Range(o.fine)
  PROVE  /\ f \in DOMAIN o.parent
         /\ o.parent[f] \in Range(o.coarse) /\ o.parent[f] \in DOMAIN o.children
         /\ f \in Range(o.children[o.parent[f]])
         /\ \A c \in DOMAIN o.children : f \in Range(o.children[c]) => o.parent[f] = c
<1>1. f \in DOMAIN o.parent
  BY DEF Validates
<1>2. o.parent[f] \in Range(o.coarse) /\ f \in ChildrenOf(o, o.parent[f])
  BY <1>1 DEF Validates, ParentsAgree
<1>3. o.parent[f] \in DOMAIN o.children /\ f \in Range(o.children[o.parent[f]])
  BY <1>2 DEF ChildrenOf
<1>4. ASSUME NEW c \in DOMAIN o.children, f \in Range(o.children[c])
      PROVE  o.parent[f] = c
  <2>1. PICK i \in DOMAIN o.children[c] : o.children[c][i] = f
    BY <1>4 DEF Range
  <2>2. PICK j \in DOMAIN o.children[o.parent[f]] : o.children[o.parent[f]][j] = f
    BY <1>3 DEF Range
  <2> QED
    BY <2>1, <2>2, <1>3 DEF Validates, NoOverlap
<1> QED
  BY <1>1, <1>2, <1>3, <1>4

LEMMA ValidatedIsPartition ==
  ASSUME NEW o, Ontology(o), Validates(o)
  PROVE  /\ \A f \in Range(o.fine), c \in Range(o.coarse) :
              f \in ChildrenOf(o, c) <=> f \in DOMAIN o.parent /\ o.parent[f] = c
         /\ \A c \in Range(o.coarse) : ChildrenOf(o, c) # {}
         /\ \A c \in Range(o.coarse) : ChildrenOf(o, c) \subseteq Range(o.fine)
<1>1. ASSUME NEW f \in Range(o.fine), NEW c \in Range(o.coarse)
      PROVE  f \in ChildrenOf(o, c) <=> f \in DOMAIN o.parent /\ o.parent[f] = c
  BY <1>1, OneCategory DEF ChildrenOf
<1>2. ASSUME NEW c \in Range(o.coarse)
      PROVE  ChildrenOf(o, c) # {} /\ ChildrenOf(o, c) \subseteq Range(o.fine)
  <2>1. /\ c \in DOMAIN o.children /\ o.children[c] # <<>>
        /\ Range(o.children[c]) \subseteq Range(o.fine)
    BY DEF Validates, ListsAreDefined
  <2>2. o.children[c] \in Seq(Key)
    BY <2>1 DEF Ontology
  <2>3. 1 \in DOMAIN o.children[c]
    BY <2>1, <2>2, EmptySeq, LenProperties
  <2> QED
    BY <2>1, <2>3 DEF ChildrenOf, Range
<1> QED
  BY <1>1, <1>2

\* The candidates are the cluster's own keys, then some of the neighbour's.
LEMMA CandidatesFacts ==
  ASSUME NEW own \in Seq(Key), NEW others \in Seq(Key)
  PROVE  /\ Candidates(own, others) \in Seq(Key)
         /\ \A i \in DOMAIN Candidates(own, others) :
              IF i \in DOMAIN own THEN Candidates(own, others)[i] = own[i]
              ELSE /\ i - Len(own) \in DOMAIN others
                   /\ Candidates(own, others)[i] = others[i - Len(own)]
         /\ DOMAIN own \subseteq DOMAIN Candidates(own, others)
         /\ Len(Candidates(own, others)) <= MaxFine \/ Candidates(own, others) = own
<1>1. MaxFine \in Nat
  BY HierarchyConstants
<1>2. /\ Len(own) \in Nat /\ DOMAIN own = 1..Len(own)
      /\ Len(others) \in Nat /\ DOMAIN others = 1..Len(others)
  BY LenProperties
<1>3. CASE MaxFine < Len(own)
  <2>1. Candidates(own, others) = own
    BY <1>3, ConcatEmptySeq DEF Candidates
  <2> QED
    BY <2>1
<1>4. CASE ~(MaxFine < Len(own))
  <2> DEFINE room == IF MaxFine - Len(own) < Len(others) THEN MaxFine - Len(own) ELSE Len(others)
             more == SubSeq(others, 1, room)
  <2>1. room \in 0..Len(others) /\ room + Len(own) <= MaxFine
    BY <1>1, <1>2, <1>4
  <2>2. /\ more \in Seq(Key) /\ Len(more) = room
        /\ \A i \in 1..room : more[i] = others[i]
    BY <2>1, <1>2, SubSeqProperties
  <2>3. Candidates(own, others) = own \o more
    BY <1>4 DEF Candidates
  <2>4. /\ own \o more \in Seq(Key)
        /\ Len(own \o more) = Len(own) + Len(more)
        /\ \A i \in 1..(Len(own) + Len(more)) :
             (own \o more)[i] = IF i <= Len(own) THEN own[i] ELSE more[i - Len(own)]
    BY <2>2, ConcatProperties
  <2>5. DOMAIN (own \o more) = 1..(Len(own) + room)
    BY <2>2, <2>4, LenProperties
  <2> DEFINE both == Candidates(own, others)
  <2>6. both \in Seq(Key) /\ DOMAIN both = 1..(Len(own) + room) /\ Len(both) = Len(own) + room
    BY <2>2, <2>3, <2>4, <2>5
  <2>7. \A i \in 1..(Len(own) + room) :
          both[i] = IF i <= Len(own) THEN own[i] ELSE others[i - Len(own)]
    BY <1>2, <2>1, <2>2, <2>3, <2>4
  <2> HIDE DEF room, more, both
  <2>8. DOMAIN own \subseteq DOMAIN both
    BY <1>2, <2>1, <2>6
  <2>9. Len(both) <= MaxFine
    BY <1>1, <1>2, <2>1, <2>6
  <2>10. ASSUME NEW i \in DOMAIN both
         PROVE  IF i \in DOMAIN own THEN both[i] = own[i]
                ELSE i - Len(own) \in DOMAIN others /\ both[i] = others[i - Len(own)]
    BY <1>2, <2>1, <2>6, <2>7
  <2> QED
    BY <2>6, <2>8, <2>9, <2>10 DEF both
<1> QED
  BY <1>3, <1>4

LEMMA AtMostTwo ==
  ASSUME NEW c, NEW n, NEW S, S \subseteq {c, n}
  PROVE  Cardinality(S) <= 2
<1>1. IsFiniteSet({c, n}) /\ Cardinality({c, n}) <= 2
  <2>1. IsFiniteSet({c}) /\ Cardinality({c}) = 1
    BY FS_Singleton
  <2>2. {c, n} = {c} \cup {n}
    OBVIOUS
  <2> QED
    BY <2>1, <2>2, FS_AddElement
<1>2. Cardinality(S) <= Cardinality({c, n})
  BY <1>1, FS_Subset
<1>3. Cardinality(S) \in Nat /\ Cardinality({c, n}) \in Nat
  BY <1>1, FS_Subset, FS_CardinalityType
<1> QED
  BY <1>1, <1>2, <1>3

\* The keys of a category are listed once.
LEMMA ListedOnce ==
  ASSUME NEW o, Ontology(o), Validates(o), NEW c \in DOMAIN o.children
  PROVE  o.children[c] \in Seq(Key) /\ IsInjective(o.children[c])
BY DEF Ontology, Validates, NoOverlap, IsInjective

LEMMA OraclePairIsRight ==
  ASSUME Ontology(mapping), Validates(mapping), NEW s, s.target \in Range(mapping.fine),
         NEW c, c = mapping.parent[s.target]
  PROVE  PairIsRight(MakePair(s, mapping.children[c], [k \in ChildrenOf(mapping, c) |-> c]), s)
<1> DEFINE p == MakePair(s, mapping.children[c], [k \in ChildrenOf(mapping, c) |-> c])
<1>1. /\ c \in DOMAIN mapping.children /\ s.target \in Range(mapping.children[c])
      /\ c \in Range(mapping.coarse)
  BY OneCategory
<1>2. /\ p.target = s.target /\ p.fine = mapping.children[c]
      /\ p.parents = [k \in ChildrenOf(mapping, c) |-> c]
  BY DEF MakePair
<1>3. ChildrenOf(mapping, c) = Range(mapping.children[c])
  BY <1>1 DEF ChildrenOf
<1>4. IsInjective(p.fine)
  BY <1>1, <1>2, ListedOnce
<1>5. ASSUME NEW k \in Range(p.fine) PROVE p.parents[k] = c /\ mapping.parent[k] = c
  <2>1. k \in Range(mapping.fine)
    BY <1>1, <1>2, <1>5 DEF Validates, ListsAreDefined
  <2> QED
    BY <1>1, <1>2, <1>3, <1>5, <2>1, OneCategory
<1>6. Cardinality({p.parents[k] : k \in Range(p.fine)}) <= 2
  BY <1>5, AtMostTwo
<1> HIDE DEF p
<1>7. PairIsRight(p, s)
  BY <1>1, <1>2, <1>3, <1>4, <1>5, <1>6 DEF PairIsRight
<1> QED
  BY <1>7 DEF p

LEMMA SoftBeamPairIsRight ==
  ASSUME Ontology(mapping), Validates(mapping), NEW s, s.target \in Range(mapping.fine),
         NEW c, c = mapping.parent[s.target],
         NEW n \in DOMAIN mapping.children, n # c,
         NEW fine, fine = Candidates(mapping.children[c], mapping.children[n]),
         Range(fine) \subseteq Range(mapping.fine)
  PROVE  PairIsRight(MakePair(s, fine, [k \in Range(fine) |->
                       IF k \in Range(mapping.children[c]) THEN c ELSE n]), s)
<1> DEFINE own == mapping.children[c]
           others == mapping.children[n]
           p == MakePair(s, fine, [k \in Range(fine) |-> IF k \in Range(own) THEN c ELSE n])
<1>1. c \in DOMAIN mapping.children /\ s.target \in Range(own)
  BY OneCategory
<1>2. own \in Seq(Key) /\ IsInjective(own) /\ others \in Seq(Key) /\ IsInjective(others)
  BY <1>1, ListedOnce
<1>3. /\ fine \in Seq(Key) /\ DOMAIN own \subseteq DOMAIN fine
      /\ \A i \in DOMAIN fine : IF i \in DOMAIN own THEN fine[i] = own[i]
                                ELSE i - Len(own) \in DOMAIN others /\ fine[i] = others[i - Len(own)]
      /\ Len(fine) <= MaxFine \/ fine = own
  BY <1>2, CandidatesFacts
<1>4. ChildrenOf(mapping, c) = Range(own)
  BY <1>1 DEF ChildrenOf
<1>5. /\ p.target = s.target /\ p.fine = fine
      /\ p.parents = [k \in Range(fine) |-> IF k \in Range(own) THEN c ELSE n]
  BY DEF MakePair
<1>6. \A i \in DOMAIN own, j \in DOMAIN others : own[i] # others[j]
  BY <1>1 DEF Validates, NoOverlap
<1> HIDE DEF own, others, p
<1>7. DOMAIN own \subseteq Int /\ DOMAIN fine \subseteq Int /\ Len(own) \in Int
  <2>1. own \in Seq(Key) /\ fine \in Seq(Key)
    BY <1>2, <1>3
  <2>2. DOMAIN own = 1..Len(own) /\ DOMAIN fine = 1..Len(fine) /\ Len(own) \in Nat
    BY <2>1, LenProperties
  <2> QED
    BY <2>2
<1>8. IsInjective(fine)
  <2> SUFFICES ASSUME NEW a \in DOMAIN fine, NEW b \in DOMAIN fine, fine[a] = fine[b] PROVE a = b
    BY DEF IsInjective
  <2>1. CASE a \in DOMAIN own /\ b \in DOMAIN own
    BY <1>2, <1>3, <2>1 DEF IsInjective
  <2>2. CASE a \in DOMAIN own /\ b \notin DOMAIN own
    BY <1>3, <1>6, <2>2
  <2>3. CASE a \notin DOMAIN own /\ b \in DOMAIN own
    BY <1>3, <1>6, <2>3
  <2>4. CASE a \notin DOMAIN own /\ b \notin DOMAIN own
    <3>1. a - Len(own) = b - Len(own)
      BY <1>2, <1>3, <2>4 DEF IsInjective
    <3> QED
      BY <1>7, <3>1
  <2> QED
    BY <2>1, <2>2, <2>3, <2>4
<1>9. Range(own) \subseteq Range(fine)
  BY <1>3 DEF Range
<1>10. ASSUME NEW k \in Range(fine)
       PROVE  p.parents[k] = mapping.parent[k] /\ p.parents[k] \in {c, n}
  <2>1. k \in Range(mapping.fine)
    BY <1>10
  <2>2. CASE k \in Range(own)
    BY <1>1, <1>5, <1>10, <2>1, <2>2, OneCategory DEF own
  <2>3. CASE k \notin Range(own)
    <3>1. k \in Range(others)
      BY <1>3, <1>10, <2>3 DEF Range
    <3> QED
      BY <1>5, <1>10, <2>1, <2>3, <3>1, OneCategory DEF others
  <2> QED
    BY <2>2, <2>3
<1>11. Cardinality({p.parents[k] : k \in Range(fine)}) <= 2
  <2> DEFINE S == {p.parents[k] : k \in Range(fine)}
  <2>1. S \subseteq {c, n}
    BY <1>10
  <2> HIDE DEF S
  <2>2. Cardinality(S) <= 2
    BY <2>1, AtMostTwo
  <2> QED
    BY <2>2 DEF S
<1>12. PairIsRight(p, s)
  BY <1>1, <1>3, <1>4, <1>5, <1>8, <1>9, <1>10, <1>11 DEF PairIsRight
<1> QED
  BY <1>12 DEF p, own

-----------------------------------------------------------------------------
\* Appending what is right leaves the list right.
LEMMA AppendFacts ==
  ASSUME NEW q, q \in Seq(Range(q)), NEW e
  PROVE  /\ Append(q, e) \in Seq(Range(Append(q, e)))
         /\ Len(Append(q, e)) = Len(q) + 1 /\ Len(q) \in Nat
         /\ DOMAIN Append(q, e) = 1..(Len(q) + 1) /\ DOMAIN q = 1..Len(q)
         /\ \A i \in DOMAIN q : Append(q, e)[i] = q[i]
         /\ Append(q, e)[Len(q) + 1] = e
<1> DEFINE S == Range(q) \cup {e}
           r == Append(q, e)
<1>1. q \in Seq(S)
  BY SeqMonotonic
<1>2. /\ r \in Seq(S) /\ Len(r) = Len(q) + 1
      /\ \A i \in 1..Len(q) : r[i] = q[i] /\ r[Len(q) + 1] = e
      /\ r # <<>> /\ r[Len(q) + 1] = e
  BY <1>1, AppendProperties
<1>3. DOMAIN r = 1..Len(r) /\ Len(q) \in Nat /\ DOMAIN q = 1..Len(q)
  BY <1>1, <1>2, LenProperties
<1>4. r \in Seq(Range(r))
  <2>1. r = [i \in 1..Len(r) |-> r[i]] /\ r \in [1..Len(r) -> Range(r)] /\ Len(r) \in Nat
    BY <1>2, <1>3, LenProperties DEF Range
  <2> HIDE DEF r
  <2> QED
    BY <2>1, SeqDef
<1> QED
  BY <1>2, <1>3, <1>4

LEMMA NothingCounted ==
  /\ NoTally \in [coarse : Nat, fine : Nat, e2e : Nat, beams : Nat, total : Nat]
  /\ NoTally.e2e = 0 /\ NoTally.fine = 0 /\ NoTally.total = 0 /\ NoTally.coarse = 0
  /\ NoTally.beams = 0
  /\ ~NoVerdict.right
<1>1. ~NoVerdict.right
  BY Zenon DEF NoVerdict
<1> QED
  BY <1>1 DEF NoTally

LEMMA InitIInv == Init => IInv
<1> SUFFICES ASSUME Init PROVE IInv
  OBVIOUS
<1>1. PICK s \in Setups : mapping = s.ontology /\ rows = s.rows
  BY DEF Init
<1>2. Ontology(mapping) /\ rows \in Seq(Row)
  BY <1>1, HierarchyConstants
<1>3. Epochs \in Nat /\ BatchSize \in Nat
  BY HierarchyConstants
<1>4. TypeOK
  <2>1. <<>> \in Seq([text : Text, target : Range(mapping.fine)]) /\ Len(<<>>) = 0
    BY EmptySeq
  <2> QED
    BY <1>2, <1>3, <2>1 DEF Init, TypeOK
<1>5. Mapped
  BY DEF Init, Mapped
<1>6. PairedInOrder
  <2>1. <<>> \in Seq(Range(<<>>)) /\ Len(<<>>) = 0 /\ DOMAIN <<>> = {}
    BY EmptySeq
  <2> QED
    BY <2>1 DEF Init, PairedInOrder, PairsAreRight
<1>7. ParentsNoted
  <2>1. \A side \in {"train", "eval"} : DOMAIN pairs[side] = {}
    BY EmptySeq DEF Init
  <2> QED
    BY <2>1 DEF ParentsNoted
<1>8. Labelled
  BY EmptySeq DEF Init, Labelled
<1>9. Counted
  BY NothingCounted DEF Init, Counted, RightWithinBeam
<1> QED
  BY <1>4, <1>5, <1>6, <1>7, <1>8, <1>9 DEF IInv

LEMMA LoadMappingStep == IInv /\ LoadMapping => IInv'
<1> SUFFICES ASSUME IInv, LoadMapping PROVE IInv'
  OBVIOUS
<1> USE DEF LoadMapping, Reading
<1>1. /\ Ontology(mapping') /\ mapping'.fine = mapping.fine /\ mapping'.parent = mapping.parent
      /\ mapping'.children = mapping.children
  <2>1. Ontology(mapping)
    BY DEF IInv, TypeOK
  <2> QED
    BY <2>1 DEF FromDict, Ontology
<1>2. phase' \in {"rows", "refused"} /\ (phase' = "rows" => Validates(mapping'))
  OBVIOUS
<1>3. /\ pairs = [train |-> <<>>, eval |-> <<>>] /\ pairs' = pairs
      /\ batch = <<>> /\ batch' = batch
      /\ verdict = NoVerdict /\ verdict' = verdict
  BY DEF IInv, PairedInOrder, Labelled, Counted
<1>4. TypeOK'
  BY <1>1, <1>2 DEF IInv, TypeOK
<1>5. Mapped'
  BY <1>2 DEF Mapped
<1>6. PairedInOrder' /\ ParentsNoted'
  <2>1. \A side \in {"train", "eval"} : DOMAIN pairs'[side] = {}
    BY <1>3, EmptySeq
  <2>2. ParentsNoted' /\ PairsAreRight'
    BY <2>1 DEF ParentsNoted, PairsAreRight
  <2> QED
    BY <1>3, <2>2 DEF IInv, PairedInOrder
<1>7. Labelled'
  BY <1>2, <1>3 DEF IInv, Labelled
<1>8. Counted'
  BY <1>3 DEF IInv, Counted, RightWithinBeam, NoVerdict
<1> QED
  BY <1>4, <1>5, <1>6, <1>7, <1>8 DEF IInv

\* What says nothing about the pairs keeps what is known of them.
LEMMA PairsKept ==
  ASSUME PairedInOrder, ParentsNoted,
         mapping' = mapping, train' = train, eval' = eval, pairs' = pairs,
         phase' \in {"start", "refused", "rows"} => phase \in {"start", "refused", "rows"}
  PROVE  PairedInOrder' /\ ParentsNoted'
<1>1. \A q, s : PairIsRight(q, s) => PairIsRight(q, s)'
  BY DEF PairIsRight, ChildrenOf
<1>2. PairsAreRight'
  BY <1>1 DEF PairedInOrder, PairsAreRight
<1>3. PairedInOrder'
  BY <1>2 DEF PairedInOrder
<1>4. ParentsNoted'
  BY DEF ParentsNoted
<1> QED
  BY <1>3, <1>4

LEMMA AdaptRowStep == IInv /\ AdaptRow => IInv'
<1> SUFFICES ASSUME IInv, AdaptRow PROVE IInv'
  OBVIOUS
<1> USE DEF AdaptRow, Reading
<1>1. Head(rows) \in Row /\ rows' \in Seq(Row)
  BY HeadTailProperties DEF IInv, TypeOK
<1>2. loaded' \in Seq([text : Text, target : Range(mapping.fine)])
  <2> DEFINE S == [text : Text, target : Range(mapping.fine)]
  <2>1. loaded \in Seq(S)
    BY DEF IInv, TypeOK
  <2>2. ASSUME NEW i \in DOMAIN mapping.fine
        PROVE  Sample(Head(rows).text, mapping.fine[i]) \in S
    BY <1>1 DEF Sample, Row, Range
  <2> HIDE DEF S
  <2>3. \A e \in S : Append(loaded, e) \in Seq(S)
    BY <2>1, AppendProperties
  <2>4. loaded' \in Seq(S)
    BY <2>1, <2>2, <2>3
  <2> QED
    BY <2>4 DEF S
<1>3. TypeOK'
  BY <1>1, <1>2 DEF IInv, TypeOK
<1>4. PairedInOrder' /\ ParentsNoted'
  BY PairsKept DEF IInv
<1>5. Mapped' /\ Labelled' /\ Counted'
  BY DEF IInv, Mapped, Labelled, JudgedItem, Counted, RightWithinBeam, ChildrenOf
<1> QED
  BY <1>3, <1>4, <1>5 DEF IInv

LEMMA SampleType ==
  ASSUME NEW G, NEW text \in Text, NEW target \in G
  PROVE  Sample(text, target) \in [text : Text, target : G]
BY DEF Sample

LEMMA SelfTrainingType ==
  ASSUME Ontology(mapping)
  PROVE  SelfTraining \in Seq([text : Text, target : Range(mapping.fine)])
<1> DEFINE n == Len(mapping.fine)
           G == Range(mapping.fine)
           S == [text : Text, target : G]
           f == [i \in 1..n |-> Sample("description", mapping.fine[i])]
<1>1. DOMAIN mapping.fine = 1..n /\ n \in Nat
  BY LenProperties DEF Ontology
<1>2. ASSUME NEW i \in 1..n PROVE mapping.fine[i] \in G
  BY <1>1 DEF Range
<1>3. SelfTraining = f
  BY <1>1 DEF SelfTraining
<1> HIDE DEF G
<1>4. ASSUME NEW i \in 1..n PROVE Sample("description", mapping.fine[i]) \in S
  BY <1>2, SampleType, HierarchyConstants
<1> HIDE DEF S
<1>5. f \in [1..n -> S]
  BY <1>4
<1> HIDE DEF n, f
<1>6. f \in Seq(S)
  BY <1>1, <1>5, SeqDef DEF n
<1> QED
  BY <1>3, <1>6 DEF S, G

LEMMA ShareIsPart ==
  ASSUME NEW n \in Nat
  PROVE  (n * SplitNum) \div SplitDen \in 0..n
<1>1. SplitNum \in Nat /\ SplitDen \in Nat \ {0} /\ SplitNum <= SplitDen
  BY HierarchyConstants
<1> DEFINE a == n * SplitNum
           q == a \div SplitDen
<1>2. a \in Nat /\ a <= n * SplitDen
  BY <1>1
<1> HIDE DEF a
<1>3. q \in Int /\ SplitDen * q <= a /\ q >= 0
  BY <1>1, <1>2
<1> HIDE DEF q
<1>4. SplitDen * q <= SplitDen * n
  BY <1>1, <1>2, <1>3
<1>5. q <= n
  BY <1>1, <1>3, <1>4
<1> QED
  BY <1>3, <1>5 DEF a, q

LEMMA SplitStep == IInv /\ Split => IInv'
<1> SUFFICES ASSUME IInv, Split PROVE IInv'
  OBVIOUS
<1>0. /\ phase = "rows" /\ phase' = "pairs"
      /\ UNCHANGED <<mapping, rows, loaded, pairs, epoch, next, batch, tally, verdict>>
  BY DEF Split, Reading
<1> DEFINE S == [text : Text, target : Range(mapping.fine)]
           cut == (Len(loaded) * SplitNum) \div SplitDen
<1>1. loaded \in Seq(S) /\ Len(loaded) \in Nat /\ mapping.fine \in Seq(Key)
  BY LenProperties DEF IInv, TypeOK, Ontology
<1>2. cut \in 0..Len(loaded)
  BY <1>1, ShareIsPart
<1>3. SelfTraining \in Seq(S)
  BY SelfTrainingType DEF IInv, TypeOK
<1>4. train' \in Seq(S) /\ eval' \in Seq(S)
  <2> DEFINE rest == SubSeq(loaded, cut + 1, Len(loaded))
  <2>1. SubSeq(loaded, 1, cut) \in Seq(S) /\ rest \in Seq(S)
    <3> HIDE DEF cut, S
    <3> QED
      BY <1>1, <1>2, SubSeqProperties
  <2>2. <<>> \in Seq(S) /\ rest \o SelfTraining \in Seq(S) /\ rest \o <<>> \in Seq(S)
    <3> HIDE DEF rest, S
    <3> QED
      BY <1>3, <2>1, EmptySeq, ConcatProperties
  <2>3. /\ train' = IF cut = 0 THEN SelfTraining ELSE SubSeq(loaded, 1, cut)
        /\ eval' = rest \o (IF cut = 0 THEN SelfTraining ELSE <<>>)
    BY DEF Split
  <2> HIDE DEF cut, S, rest
  <2> QED
    BY <1>3, <2>1, <2>2, <2>3
<1>5. TypeOK'
  BY <1>0, <1>4 DEF IInv, TypeOK
<1>6. PairedInOrder' /\ ParentsNoted'
  <2>1. pairs = [train |-> <<>>, eval |-> <<>>] /\ pairs' = pairs
    BY <1>0 DEF IInv, PairedInOrder
  <2>2. \A side \in {"train", "eval"} : DOMAIN pairs'[side] = {}
    BY <2>1, EmptySeq
  <2>3. ParentsNoted' /\ PairsAreRight'
    BY <2>2 DEF ParentsNoted, PairsAreRight
  <2>4. Len(<<>>) = 0 /\ Len(train') \in Nat /\ Len(eval') \in Nat /\ phase' = "pairs"
    BY <1>0, <1>4, EmptySeq, LenProperties
  <2>5. pairs'.train = <<>> /\ pairs'.eval = <<>>
    BY <2>1
  <2>6. PairedInOrder'
    BY <2>3, <2>4, <2>5, EmptySeq DEF PairedInOrder
  <2> QED
    BY <2>3, <2>6
<1>7. Mapped' /\ Labelled' /\ Counted'
  BY <1>0 DEF IInv, Mapped, Labelled, JudgedItem, Counted, RightWithinBeam, ChildrenOf
<1> QED
  BY <1>5, <1>6, <1>7 DEF IInv

\* The sample that waits for its pair has its answer in the ontology.
Turn == Waiting[Len(pairs[Side]) + 1]

LEMMA TurnFacts ==
  ASSUME IInv, PairsLeft
  PROVE  /\ Side \in {"train", "eval"} /\ Len(pairs[Side]) + 1 \in 1..Len(Waiting)
         /\ Turn.target \in Range(mapping.fine)
<1>1. Side \in {"train", "eval"} /\ Waiting = (IF Side = "train" THEN train ELSE eval)
  BY DEF Side, Waiting
<1>2. Len(pairs[Side]) \in Nat
  BY <1>1, LenProperties DEF IInv, PairedInOrder
<1>3. Waiting \in Seq([text : Text, target : Range(mapping.fine)]) /\ Len(Waiting) \in Nat
  BY <1>1, LenProperties DEF IInv, TypeOK
<1>4. Len(pairs[Side]) + 1 \in 1..Len(Waiting)
  BY <1>2, <1>3 DEF PairsLeft
<1>5. Turn \in [text : Text, target : Range(mapping.fine)]
  BY <1>3, <1>4, ElementOfSeq DEF Turn
<1> QED
  BY <1>1, <1>4, <1>5

LEMMA AddPairStep ==
  ASSUME IInv, phase = "pairs", PairsLeft, NEW side, side = Side, NEW p,
         p.target = Turn.target, p.parent = mapping.parent[Turn.target], PairIsRight(p, Turn),
         pairs' = [pairs EXCEPT ![side] = Append(@, p)], phase' = phase,
         UNCHANGED <<mapping, rows, loaded, train, eval, epoch, next, batch, tally, verdict>>
  PROVE  IInv'
<1> DEFINE given == IF side = "train" THEN train ELSE eval
           old == pairs[side]
           new == Append(old, p)
<1>1. /\ side \in {"train", "eval"} /\ Turn = given[Len(old) + 1]
      /\ Len(old) + 1 \in 1..Len(given) /\ Turn.target \in Range(mapping.fine)
  BY TurnFacts DEF Turn, Waiting
<1>2. DOMAIN pairs = {"train", "eval"} /\ DOMAIN pairs' = {"train", "eval"}
  BY DEF IInv, TypeOK
<1>3. pairs'[side] = new /\ \A t \in {"train", "eval"} : t # side => pairs'[t] = pairs[t]
  BY <1>1, <1>2
<1>4. old \in Seq(Range(old))
  BY <1>1 DEF IInv, PairedInOrder
<1>5. /\ new \in Seq(Range(new)) /\ Len(new) = Len(old) + 1 /\ Len(old) \in Nat
      /\ DOMAIN new = 1..(Len(old) + 1) /\ DOMAIN old = 1..Len(old)
      /\ \A i \in DOMAIN old : new[i] = old[i]
      /\ new[Len(old) + 1] = p
  <2> HIDE DEF old
  <2> QED
    BY <1>4, AppendFacts
<1>6. \A q, t : PairIsRight(q, t) => PairIsRight(q, t)'
  BY DEF PairIsRight, ChildrenOf
<1>7. \A i \in DOMAIN old : PairIsRight(old[i], given[i])
  BY <1>1 DEF IInv, PairedInOrder, PairsAreRight
<1>8. \A i \in DOMAIN old : /\ old[i].target \in Range(mapping.fine)
                            /\ old[i].parent = mapping.parent[old[i].target]
  BY <1>1 DEF IInv, ParentsNoted
<1>9. Len(given) \in Nat
  BY LenProperties DEF IInv, TypeOK
<1> HIDE DEF old, new, given
<1>10. \A i \in DOMAIN new : PairIsRight(new[i], given[i])
  BY <1>1, <1>5, <1>7
<1>11. \A i \in DOMAIN new : /\ new[i].target \in Range(mapping.fine)
                             /\ new[i].parent = mapping.parent[new[i].target]
  BY <1>1, <1>5, <1>8
<1>12. Len(new) <= Len(given)
  BY <1>1, <1>5, <1>9
<1>13. TypeOK' /\ Mapped'
  BY <1>2 DEF IInv, TypeOK, Mapped
<1>14. Labelled' /\ Counted'
  BY DEF IInv, Labelled, JudgedItem, Counted, RightWithinBeam, ChildrenOf
<1>15. ParentsNoted'
  <2> SUFFICES ASSUME NEW t \in {"train", "eval"}, NEW i \in DOMAIN pairs'[t]
               PROVE  /\ pairs'[t][i].target \in Range(mapping.fine)
                      /\ pairs'[t][i].parent = mapping.parent[pairs'[t][i].target]
    BY DEF ParentsNoted
  <2>1. CASE t = side
    BY <1>3, <1>11, <2>1
  <2>2. CASE t # side
    <3>1. pairs'[t] = pairs[t]
      BY <1>3, <2>2
    <3>2. ParentsNoted
      BY DEF IInv
    <3> QED
      BY <3>1, <3>2 DEF ParentsNoted
  <2> QED
    BY <2>1, <2>2
<1>16. PairsAreRight /\ PairedInOrder
  BY DEF IInv, PairedInOrder
<1>17. phase' \notin {"start", "refused", "rows"}
  OBVIOUS
<1>18. CASE side = "train"
  <2>1. pairs'.train = new /\ pairs'.eval = pairs.eval /\ given = train
    BY <1>3, <1>18 DEF given
  <2>2. PairsAreRight'
    BY <1>6, <1>10, <1>16, <2>1 DEF PairsAreRight
  <2>3. /\ pairs'.train \in Seq(Range(pairs'.train)) /\ pairs'.eval \in Seq(Range(pairs'.eval))
        /\ Len(pairs'.train) <= Len(train') /\ Len(pairs'.eval) <= Len(eval')
    BY <1>5, <1>12, <1>16, <2>1 DEF PairedInOrder
  <2>4. PairedInOrder'
    BY <1>17, <2>2, <2>3, Zenon DEF PairedInOrder
  <2> QED
    BY <1>13, <1>14, <1>15, <2>4 DEF IInv
<1>19. CASE side = "eval"
  <2>1. pairs'.eval = new /\ pairs'.train = pairs.train /\ given = eval
    BY <1>3, <1>19 DEF given
  <2>2. PairsAreRight'
    BY <1>6, <1>10, <1>16, <2>1 DEF PairsAreRight
  <2>3. /\ pairs'.train \in Seq(Range(pairs'.train)) /\ pairs'.eval \in Seq(Range(pairs'.eval))
        /\ Len(pairs'.train) <= Len(train') /\ Len(pairs'.eval) <= Len(eval')
    BY <1>5, <1>12, <1>16, <2>1 DEF PairedInOrder
  <2>4. PairedInOrder'
    BY <1>17, <2>2, <2>3, Zenon DEF PairedInOrder
  <2> QED
    BY <1>13, <1>14, <1>15, <2>4 DEF IInv
<1> QED
  BY <1>1, <1>13, <1>14, <1>15, <1>18, <1>19 DEF IInv

LEMMA OraclePairStep == IInv /\ OraclePair => IInv'
<1> SUFFICES ASSUME IInv, OraclePair PROVE IInv'
  OBVIOUS
<1> DEFINE c == mapping.parent[Turn.target]
           p == MakePair(Turn, mapping.children[c], [k \in ChildrenOf(mapping, c) |-> c])
<1>1. /\ phase = "pairs" /\ PairsLeft /\ phase' = phase
      /\ pairs' = [pairs EXCEPT ![Side] = Append(@, p)]
      /\ UNCHANGED <<mapping, rows, loaded, train, eval, epoch, next, batch, tally, verdict>>
  BY DEF OraclePair, Turn, Reading
<1>2. Validates(mapping) /\ Ontology(mapping)
  BY <1>1 DEF IInv, Mapped, TypeOK
<1>3. Turn.target \in Range(mapping.fine)
  BY <1>1, TurnFacts
<1>4. PairIsRight(p, Turn)
  BY <1>2, <1>3, OraclePairIsRight
<1>5. p.target = Turn.target /\ p.parent = mapping.parent[Turn.target]
  BY DEF MakePair
<1> HIDE DEF p
<1> QED
  BY <1>1, <1>4, <1>5, AddPairStep

\* A neighbour that is a category has a list of defined keys.
LEMMA BrokenByStrangers ==
  ASSUME Ontology(mapping), Validates(mapping),
         NEW c \in Range(mapping.coarse), NEW n \in Range(mapping.coarse)
  PROVE  /\ n \in DOMAIN mapping.children
         /\ Range(Candidates(mapping.children[c], mapping.children[n])) \subseteq Range(mapping.fine)
<1> DEFINE own == mapping.children[c]
           others == mapping.children[n]
           fine == Candidates(own, others)
<1>1. /\ n \in DOMAIN mapping.children /\ Range(others) \subseteq Range(mapping.fine)
      /\ c \in DOMAIN mapping.children /\ Range(own) \subseteq Range(mapping.fine)
  BY DEF Validates, ListsAreDefined
<1>2. own \in Seq(Key) /\ others \in Seq(Key)
  BY <1>1 DEF Ontology
<1> HIDE DEF own, others
<1>3. \A i \in DOMAIN fine : fine[i] \in Range(own) \/ fine[i] \in Range(others)
  BY <1>2, CandidatesFacts DEF Range
<1> HIDE DEF fine
<1>4. Range(fine) \subseteq Range(mapping.fine)
  BY <1>1, <1>3 DEF Range
<1> QED
  BY <1>1, <1>4 DEF fine, own, others

LEMMA SoftBeamPairStep == IInv /\ SoftBeamPair => IInv'
<1> SUFFICES ASSUME IInv, SoftBeamPair PROVE IInv'
  OBVIOUS
<1> DEFINE c == mapping.parent[Turn.target]
           own == mapping.children[c]
<1>1. /\ phase = "pairs" /\ PairsLeft
      /\ UNCHANGED <<mapping, rows, loaded, train, eval, epoch, next, batch, tally, verdict>>
  BY DEF SoftBeamPair, Reading
<1>2. Validates(mapping) /\ Ontology(mapping)
  BY <1>1 DEF IInv, Mapped, TypeOK
<1>3. Turn.target \in Range(mapping.fine)
  BY <1>1, TurnFacts
<1>4. c \in Range(mapping.coarse)
  BY <1>2, <1>3, OneCategory
<1>5. PICK n \in Neighbours(c) :
        LET fine == IF n \in DOMAIN mapping.children
                      THEN Candidates(own, mapping.children[n]) ELSE own
        IN  IF n \in DOMAIN mapping.children /\ Range(fine) \subseteq Range(mapping.fine)
              THEN /\ pairs' = [pairs EXCEPT ![Side] = Append(@,
                        MakePair(Turn, fine, [k \in Range(fine) |->
                          IF k \in Range(own) THEN c ELSE n]))]
                   /\ UNCHANGED phase
              ELSE phase' = "broken" /\ UNCHANGED pairs
  BY DEF SoftBeamPair, Turn
<1>6. n # c /\ n \in Range(mapping.allCoarse)
  BY DEF Neighbours
<1> DEFINE fine == Candidates(own, mapping.children[n])
<1>7. CASE n \in DOMAIN mapping.children /\ Range(fine) \subseteq Range(mapping.fine)
  <2> DEFINE p == MakePair(Turn, fine, [k \in Range(fine) |-> IF k \in Range(own) THEN c ELSE n])
  <2>1. pairs' = [pairs EXCEPT ![Side] = Append(@, p)] /\ phase' = phase
    BY <1>5, <1>7
  <2>2. PairIsRight(p, Turn)
    BY <1>2, <1>3, <1>6, <1>7, SoftBeamPairIsRight
  <2>3. p.target = Turn.target /\ p.parent = mapping.parent[Turn.target]
    BY DEF MakePair
  <2> HIDE DEF p
  <2> QED
    BY <1>1, <2>1, <2>2, <2>3, AddPairStep
<1>8. CASE ~(n \in DOMAIN mapping.children /\ Range(fine) \subseteq Range(mapping.fine))
  <2>1. phase' = "broken" /\ pairs' = pairs
    BY <1>5, <1>8
  <2>2. n \notin Range(mapping.coarse)
    BY <1>2, <1>4, <1>8, BrokenByStrangers
  <2>3. PairedInOrder' /\ ParentsNoted'
    BY <1>1, <2>1, PairsKept DEF IInv
  <2>4. TypeOK' /\ Mapped'
    BY <1>1, <1>6, <2>1, <2>2 DEF IInv, TypeOK, Mapped
  <2>5. Labelled' /\ Counted'
    BY <1>1, <2>1 DEF IInv, Labelled, JudgedItem, Counted, RightWithinBeam, ChildrenOf
  <2> QED
    BY <2>3, <2>4, <2>5 DEF IInv
<1> QED
  BY <1>7, <1>8

LEMMA EndPairsStep == IInv /\ EndPairs => IInv'
<1> SUFFICES ASSUME IInv, EndPairs PROVE IInv'
  OBVIOUS
<1> USE DEF EndPairs
<1>1. Epochs \in Nat
  BY HierarchyConstants
<1>2. PairedInOrder' /\ ParentsNoted'
  BY PairsKept DEF IInv
<1>3. TypeOK' /\ Mapped'
  BY <1>1 DEF IInv, TypeOK, Mapped
<1>4. Labelled'
  BY EmptySeq DEF IInv, Labelled
<1>5. Counted'
  BY DEF IInv, Counted, RightWithinBeam, ChildrenOf
<1> QED
  BY <1>2, <1>3, <1>4, <1>5 DEF IInv

\* The label of the coarse question when its options are not shuffled.
LEMMA UnshuffledLabel ==
  ASSUME Ontology(mapping), Validates(mapping), NEW pair, NEW fine,
         pair.target \in Range(mapping.fine), pair.parent = mapping.parent[pair.target]
  PROVE  JudgedItem(Item(pair, mapping.coarse, fine))
<1> DEFINE slot == CHOOSE i \in DOMAIN mapping.coarse : mapping.coarse[i] = pair.parent
           item == Item(pair, mapping.coarse, fine)
<1>1. pair.parent \in Range(mapping.coarse)
  BY OneCategory
<1>2. slot \in DOMAIN mapping.coarse /\ mapping.coarse[slot] = pair.parent
  BY <1>1 DEF Range
<1>3. DOMAIN mapping.coarse \subseteq Int
  BY LenProperties DEF Ontology
<1>4. item.target = pair.target /\ item.coarse = mapping.coarse /\ item.coarseLabel = slot - 1
  BY DEF Item, Slot
<1> HIDE DEF slot, item
<1>5. item.coarseLabel \in Int /\ item.coarseLabel + 1 = slot
  BY <1>2, <1>3, <1>4
<1>6. JudgedItem(item)
  BY <1>2, <1>4, <1>5 DEF JudgedItem
<1> QED
  BY <1>6 DEF item

LEMMA ReadStep == IInv /\ Read => IInv'
<1> SUFFICES ASSUME IInv, Read PROVE IInv'
  OBVIOUS
<1>1. /\ phase \in {"training", "evaluating"} /\ next <= Len(Given) /\ Len(batch) < BatchSize
      /\ UNCHANGED <<mapping, rows, loaded, train, eval, pairs, epoch, tally, verdict>>
  BY DEF Read
<1>2. PICK coarse \in Orders(mapping.coarse, IsTraining), fine \in Orders(Given[next].fine, IsTraining) :
        \/ batch' = Append(batch, Item(Given[next], coarse, fine)) /\ next' = next + 1 /\ phase' = phase
        \/ phase' = "unfit" /\ batch' = batch /\ next' = next
  BY DEF Read
<1>3. BatchSize \in Nat /\ next \in Nat \ {0}
  BY HierarchyConstants DEF IInv, TypeOK
<1>4. PairedInOrder' /\ ParentsNoted'
  BY <1>1, <1>2, PairsKept DEF IInv
<1>5. Mapped' /\ Counted'
  BY <1>1, <1>2 DEF IInv, Mapped, Counted, RightWithinBeam, ChildrenOf
<1>6. CASE phase' = "unfit" /\ batch' = batch /\ next' = next
  <2>1. TypeOK' /\ Labelled'
    BY <1>1, <1>6 DEF IInv, TypeOK, Labelled
  <2> QED
    BY <1>4, <1>5, <2>1 DEF IInv
<1>7. CASE batch' = Append(batch, Item(Given[next], coarse, fine)) /\ next' = next + 1 /\ phase' = phase
  <2> DEFINE item == Item(Given[next], coarse, fine)
  <2>1. batch \in Seq(Range(batch))
    BY DEF IInv, Labelled
  <2>2. /\ batch' \in Seq(Range(batch')) /\ Len(batch') = Len(batch) + 1 /\ Len(batch) \in Nat
        /\ DOMAIN batch' = 1..(Len(batch) + 1) /\ DOMAIN batch = 1..Len(batch)
        /\ \A i \in DOMAIN batch : batch'[i] = batch[i]
        /\ batch'[Len(batch) + 1] = item
    BY <1>7, <2>1, AppendFacts
  <2>3. TypeOK'
    BY <1>1, <1>3, <1>7, <2>2 DEF IInv, TypeOK
  <2>4. ASSUME phase = "evaluating" PROVE JudgedItem(item)
    <3>1. Given = pairs.eval /\ coarse = mapping.coarse
      BY <2>4, <1>2 DEF Given, IsTraining, Orders
    <3>2. next \in DOMAIN pairs.eval
      BY <1>1, <1>3, <3>1, LenProperties DEF IInv, PairedInOrder
    <3>3. /\ Given[next].target \in Range(mapping.fine)
          /\ Given[next].parent = mapping.parent[Given[next].target]
      BY <3>1, <3>2 DEF IInv, ParentsNoted
    <3>4. Ontology(mapping) /\ Validates(mapping)
      BY <1>1 DEF IInv, TypeOK, Mapped
    <3> QED
      BY <3>1, <3>3, <3>4, UnshuffledLabel
  <2> HIDE DEF item
  <2>5. phase' \in {"evaluating", "judging"} => \A i \in DOMAIN batch' : JudgedItem(batch'[i])
    <3> SUFFICES ASSUME phase' \in {"evaluating", "judging"}, NEW i \in DOMAIN batch'
                 PROVE  JudgedItem(batch'[i])
      OBVIOUS
    <3>1. phase = "evaluating"
      BY <1>1, <1>7
    <3> QED
      BY <2>2, <2>4, <3>1 DEF IInv, Labelled
  <2>6. Labelled'
    BY <1>1, <1>7, <2>2, <2>5 DEF Labelled, JudgedItem
  <2> QED
    BY <1>4, <1>5, <2>3, <2>6 DEF IInv
<1> QED
  BY <1>2, <1>6, <1>7

LEMMA HandOverStep == IInv /\ HandOver => IInv'
<1> SUFFICES ASSUME IInv, HandOver PROVE IInv'
  OBVIOUS
<1> USE DEF HandOver
<1>1. /\ batch # <<>>
      /\ \/ phase = "training" /\ phase' = phase /\ batch' = <<>>
         \/ phase = "evaluating" /\ phase' = "judging" /\ batch' = batch
  BY DEF Full, IsTraining
<1>2. BatchSize \in Nat
  BY HierarchyConstants
<1>3. TypeOK' /\ Mapped'
  BY <1>1, <1>2, EmptySeq DEF IInv, TypeOK, Mapped
<1>4. PairedInOrder' /\ ParentsNoted'
  BY <1>1, PairsKept DEF IInv
<1>5. Labelled'
  BY <1>1, EmptySeq DEF IInv, Labelled, JudgedItem
<1>6. Counted'
  BY <1>1 DEF IInv, Counted, RightWithinBeam, ChildrenOf
<1> QED
  BY <1>3, <1>4, <1>5, <1>6 DEF IInv

LEMMA TailFacts ==
  ASSUME NEW q, q \in Seq(Range(q)), q # <<>>
  PROVE  /\ Head(q) = q[1] /\ 1 \in DOMAIN q
         /\ Tail(q) \in Seq(Range(Tail(q))) /\ Len(Tail(q)) = Len(q) - 1
         /\ \A i \in DOMAIN Tail(q) : i + 1 \in DOMAIN q /\ Tail(q)[i] = q[i + 1]
         /\ Tail(q) = <<>> <=> Len(q) = 1
<1> DEFINE r == Tail(q)
<1>1. DOMAIN q = 1..Len(q) /\ Len(q) \in Nat /\ Len(q) # 0
  BY LenProperties, EmptySeq
<1>2. /\ Head(q) = q[1] /\ r \in Seq(Range(q)) /\ Len(r) = Len(q) - 1
      /\ \A i \in 1..Len(r) : r[i] = q[i + 1]
  BY HeadTailProperties, <1>1
<1>3. DOMAIN r = 1..Len(r) /\ r \in [1..Len(r) -> Range(q)]
  BY <1>2, LenProperties
<1> HIDE DEF r
<1>4. r \in Seq(Range(r))
  <2>1. r \in [1..Len(r) -> Range(r)] /\ Len(r) \in Nat
    BY <1>1, <1>2, <1>3 DEF Range
  <2> QED
    BY <2>1, SeqDef
<1>5. r = <<>> <=> Len(r) = 0
  BY <1>2, EmptySeq
<1> QED
  BY <1>1, <1>2, <1>3, <1>4, <1>5 DEF r

LEMMA JudgeStep == IInv /\ Judge => IInv'
<1> SUFFICES ASSUME IInv, Judge PROVE IInv'
  OBVIOUS
<1> DEFINE item == Head(batch)
           slots == 0..(Len(item.coarse) - 1)
<1>1. /\ phase = "judging" /\ batch' = Tail(batch)
      /\ phase' = (IF Len(batch) = 1 THEN "evaluating" ELSE "judging")
      /\ UNCHANGED <<mapping, rows, loaded, train, eval, pairs, epoch, next>>
  BY DEF Judge
<1>2. PICK first \in slots, soft \in BOOLEAN, guess \in 0..(Len(item.fine) - 1) :
      \E second \in IF Len(item.coarse) > 1 THEN slots \ {first} ELSE {-1} :
        LET j == Judged(item, first, second, soft, guess) IN
        /\ tally' = [coarse |-> tally.coarse + Count(j.coarse), fine |-> tally.fine + Count(j.fine),
                     e2e |-> tally.e2e + Count(j.right), beams |-> tally.beams + Count(soft),
                     total |-> tally.total + 1]
        /\ verdict' = [target |-> item.target, right |-> j.right,
             beam |-> {item.coarse[s + 1] : s \in IF soft /\ second # -1
                                                    THEN {first, second} ELSE {first}}]
  BY DEF Judge
<1>3. PICK second \in IF Len(item.coarse) > 1 THEN slots \ {first} ELSE {-1} :
        LET j == Judged(item, first, second, soft, guess) IN
        /\ tally' = [coarse |-> tally.coarse + Count(j.coarse), fine |-> tally.fine + Count(j.fine),
                     e2e |-> tally.e2e + Count(j.right), beams |-> tally.beams + Count(soft),
                     total |-> tally.total + 1]
        /\ verdict' = [target |-> item.target, right |-> j.right,
             beam |-> {item.coarse[s + 1] : s \in IF soft /\ second # -1
                                                    THEN {first, second} ELSE {first}}]
  BY <1>2
<1> DEFINE j == Judged(item, first, second, soft, guess)
<1>4. batch \in Seq(Range(batch)) /\ batch # <<>>
  BY <1>1 DEF IInv, Labelled
<1>5. /\ item = batch[1] /\ 1 \in DOMAIN batch
      /\ batch' \in Seq(Range(batch')) /\ Len(batch') = Len(batch) - 1
      /\ \A i \in DOMAIN batch' : i + 1 \in DOMAIN batch /\ batch'[i] = batch[i + 1]
      /\ batch' = <<>> <=> Len(batch) = 1
  BY <1>1, <1>4, TailFacts
<1>6. JudgedItem(item)
  BY <1>1, <1>5 DEF IInv, Labelled
<1>7. Ontology(mapping) /\ Validates(mapping)
  BY <1>1 DEF IInv, TypeOK, Mapped
<1>8. PairedInOrder' /\ ParentsNoted'
  BY <1>1, PairsKept DEF IInv
<1>9. TypeOK' /\ Mapped'
  <2>1. Len(batch) \in Nat /\ BatchSize \in Nat
    BY <1>4, LenProperties, HierarchyConstants
  <2> QED
    BY <1>1, <1>5, <2>1 DEF IInv, TypeOK, Mapped
<1>10. Labelled'
  BY <1>1, <1>5 DEF IInv, Labelled, JudgedItem
<1>11. /\ j.coarse <=> first = item.coarseLabel
       /\ j.fine <=> guess = item.fineLabel
       /\ j.right <=> /\ first = item.coarseLabel \/ (soft /\ second = item.coarseLabel)
                      /\ guess = item.fineLabel
  BY Zenon DEF Judged
<1>12. /\ tally'.coarse = tally.coarse + Count(j.coarse) /\ tally'.fine = tally.fine + Count(j.fine)
       /\ tally'.e2e = tally.e2e + Count(j.right) /\ tally'.beams = tally.beams + Count(soft)
       /\ tally'.total = tally.total + 1
       /\ tally' = [coarse |-> tally.coarse + Count(j.coarse), fine |-> tally.fine + Count(j.fine),
                    e2e |-> tally.e2e + Count(j.right), beams |-> tally.beams + Count(soft),
                    total |-> tally.total + 1]
       /\ verdict'.target = item.target /\ verdict'.right = j.right
       /\ verdict'.beam = {item.coarse[s + 1] : s \in IF soft /\ second # -1
                                                        THEN {first, second} ELSE {first}}
  BY <1>3
<1> HIDE DEF j
<1>13. \A b : Count(b) \in {0, 1} /\ (b => Count(b) = 1) /\ (Count(b) = 1 => b)
  BY DEF Count
<1>14. /\ tally \in [coarse : Nat, fine : Nat, e2e : Nat, beams : Nat, total : Nat]
       /\ tally.e2e <= tally.fine /\ tally.fine <= tally.total
       /\ tally.e2e <= tally.coarse + tally.beams
  BY DEF IInv, Counted, RightWithinBeam
<1>15. /\ Count(j.right) <= Count(j.fine) /\ Count(j.fine) <= 1
       /\ Count(j.right) <= Count(j.coarse) + Count(soft)
  <2>1. CASE ~j.right
    BY <1>13, <2>1
  <2>2. CASE j.right
    <3>1. j.fine /\ (j.coarse \/ soft)
      BY <1>11, <2>2, Zenon
    <3>2. Count(j.fine) = 1 /\ (Count(j.coarse) = 1 \/ Count(soft) = 1)
      BY <1>13, <3>1, Zenon
    <3> QED
      BY <1>13, <3>2
  <2> QED
    BY <2>1, <2>2
<1>16. /\ tally' \in [coarse : Nat, fine : Nat, e2e : Nat, beams : Nat, total : Nat]
       /\ tally'.e2e <= tally'.fine /\ tally'.fine <= tally'.total
       /\ tally'.e2e <= tally'.coarse + tally'.beams
  <2>1. {Count(j.coarse), Count(j.fine), Count(j.right), Count(soft)} \subseteq {0, 1}
    BY <1>13
  <2> DEFINE a == Count(j.coarse)
             b == Count(j.fine)
             d == Count(j.right)
             e == Count(soft)
  <2>2. /\ tally'.coarse = tally.coarse + a /\ tally'.fine = tally.fine + b
        /\ tally'.e2e = tally.e2e + d /\ tally'.beams = tally.beams + e
        /\ tally'.total = tally.total + 1
        /\ tally' = [coarse |-> tally.coarse + a, fine |-> tally.fine + b,
                     e2e |-> tally.e2e + d, beams |-> tally.beams + e, total |-> tally.total + 1]
    BY <1>12
  <2>3. a \in 0..1 /\ b \in 0..1 /\ d \in 0..1 /\ e \in 0..1 /\ d <= b /\ d <= a + e
    BY <1>15, <2>1
  <2>4. /\ tally.coarse \in Nat /\ tally.fine \in Nat /\ tally.e2e \in Nat
        /\ tally.beams \in Nat /\ tally.total \in Nat
    BY <1>14
  <2> HIDE DEF a, b, d, e
  <2>5. tally' \in [coarse : Nat, fine : Nat, e2e : Nat, beams : Nat, total : Nat]
    <3>1. /\ tally.coarse + a \in Nat /\ tally.fine + b \in Nat /\ tally.e2e + d \in Nat
          /\ tally.beams + e \in Nat /\ tally.total + 1 \in Nat
      BY <2>3, <2>4
    <3>2. tally' = [coarse |-> tally.coarse + a, fine |-> tally.fine + b,
                    e2e |-> tally.e2e + d, beams |-> tally.beams + e, total |-> tally.total + 1]
      BY <2>2
    <3> QED
      BY <3>1, <3>2, Zenon
  <2>6. /\ tally'.e2e <= tally'.fine /\ tally'.fine <= tally'.total
        /\ tally'.e2e <= tally'.coarse + tally'.beams
    BY <1>14, <2>2, <2>3, <2>4
  <2> QED
    BY <2>5, <2>6
<1>17. verdict'.right => \E c \in verdict'.beam : verdict'.target \in ChildrenOf(mapping, c)
  <2> SUFFICES ASSUME verdict'.right PROVE \E c \in verdict'.beam : verdict'.target \in ChildrenOf(mapping, c)
    OBVIOUS
  <2> DEFINE c == item.coarse[item.coarseLabel + 1]
  <2>1. j.right
    BY <1>12, Zenon
  <2>2. first = item.coarseLabel \/ (soft /\ second = item.coarseLabel)
    BY <1>11, <2>1, Zenon
  <2>3. item.coarseLabel # -1
    BY <1>6, <1>7, LenProperties DEF JudgedItem, Ontology
  <2>4. item.coarseLabel \in IF soft /\ second # -1 THEN {first, second} ELSE {first}
    <3>1. CASE soft /\ second # -1
      BY <2>2, <3>1, Zenon
    <3>2. CASE ~(soft /\ second # -1)
      BY <2>2, <2>3, <3>2, Zenon
    <3> QED
      BY <3>1, <3>2
  <2>5. c \in verdict'.beam
    BY <1>12, <2>4
  <2>6. c = mapping.parent[item.target] /\ item.target \in Range(mapping.fine)
    BY <1>6 DEF JudgedItem
  <2>7. item.target \in ChildrenOf(mapping, mapping.parent[item.target])
    BY <1>7, <2>6, OneCategory DEF ChildrenOf
  <2> HIDE DEF c
  <2> QED
    BY <1>12, <2>5, <2>6, <2>7
<1>18. Counted'
  <2>1. phase' \notin {"start", "refused"} /\ mapping' = mapping
    BY <1>1
  <2>2. RightWithinBeam'
    BY <1>16, <1>17, <2>1 DEF RightWithinBeam, ChildrenOf
  <2> QED
    BY <1>16, <2>1, <2>2 DEF Counted
<1> QED
  BY <1>8, <1>9, <1>10, <1>18 DEF IInv

LEMMA EndPassStep == IInv /\ EndPass => IInv'
<1> SUFFICES ASSUME IInv, EndPass PROVE IInv'
  OBVIOUS
<1>1. /\ phase \in {"training", "evaluating"} /\ phase' \in {"training", "evaluating", "ended"}
      /\ next' = 1 /\ tally' = NoTally /\ verdict' = NoVerdict /\ batch = <<>>
      /\ epoch' \in {epoch, IF epoch = Epochs THEN epoch ELSE epoch + 1}
      /\ UNCHANGED <<mapping, rows, loaded, train, eval, pairs, batch>>
  BY DEF EndPass, IsTraining
<1>2. Epochs \in Nat
  BY HierarchyConstants
<1>3. TypeOK' /\ Mapped'
  BY <1>1, <1>2 DEF IInv, TypeOK, Mapped
<1>4. PairedInOrder' /\ ParentsNoted'
  BY <1>1, PairsKept DEF IInv
<1>5. Labelled'
  BY <1>1, EmptySeq DEF IInv, Labelled
<1>6. Counted'
  BY <1>1, NothingCounted DEF Counted, RightWithinBeam
<1> QED
  BY <1>3, <1>4, <1>5, <1>6 DEF IInv

LEMMA StutterStep == IInv /\ UNCHANGED vars => IInv'
<1> SUFFICES ASSUME IInv, UNCHANGED vars PROVE IInv'
  OBVIOUS
<1> USE DEF vars
<1>1. TypeOK' /\ Mapped'
  BY DEF IInv, TypeOK, Mapped
<1>2. PairedInOrder' /\ ParentsNoted'
  BY PairsKept DEF IInv
<1>3. Labelled' /\ Counted'
  BY DEF IInv, Labelled, JudgedItem, Counted, RightWithinBeam, ChildrenOf
<1> QED
  BY <1>1, <1>2, <1>3 DEF IInv

LEMMA StepIInv == IInv /\ [Next]_vars => IInv'
BY LoadMappingStep, AdaptRowStep, SplitStep, OraclePairStep, SoftBeamPairStep, EndPairsStep,
   ReadStep, HandOverStep, JudgeStep, EndPassStep, StutterStep DEF Next, Done

LEMMA Invariant == Spec => []IInv
BY InitIInv, StepIInv, PTL DEF Spec

-----------------------------------------------------------------------------
\* The variables have their types: every sample that is kept has an answer of
\* the ontology, the epochs and the batches stay within their bounds.
THEOREM HierarchyTypeOK == Spec => []TypeOK
<1>1. IInv => TypeOK
  BY DEF IInv
<1> QED
  BY <1>1, Invariant, PTL

\* An ontology that validate lets through is a partition of the fine keys, and
\* only keys of all_coarse_keys that are no categories break the pairing.
THEOREM ValidatedPartition == Spec => []OntologyIsAPartition
<1>1. IInv => OntologyIsAPartition
  <2> SUFFICES ASSUME IInv, phase \notin {"start", "refused"} PROVE OntologyIsAPartition
    BY DEF OntologyIsAPartition
  <2>1. Ontology(mapping) /\ Validates(mapping)
    BY DEF IInv, TypeOK, Mapped
  <2>2. phase = "broken" => ~(Range(mapping.allCoarse) \subseteq Range(mapping.coarse))
    BY DEF IInv, Mapped
  <2> QED
    BY <2>1, <2>2, ValidatedIsPartition DEF OntologyIsAPartition
<1> QED
  BY <1>1, Invariant, PTL

\* Every pair offers its answer's cluster and at most one other, each candidate
\* under the category of the ontology.
THEOREM EveryPairIsRight == Spec => []PairsAreRight
<1>1. IInv => PairsAreRight
  BY DEF IInv, PairedInOrder
<1> QED
  BY <1>1, Invariant, PTL

\* What the evaluation counts as right end to end lies in the beam.
THEOREM HitsAreWithinBeam == Spec => []RightWithinBeam
<1>1. IInv => RightWithinBeam
  BY DEF IInv, Counted
<1> QED
  BY <1>1, Invariant, PTL

-----------------------------------------------------------------------------
(* Lists of options and the orders they are shown in.                      *)

NatLess == {ss \in Nat \X Nat : ss[1] < ss[2]}

LEMMA LeastNumber ==
  ASSUME NEW T \in SUBSET Nat, T # {}
  PROVE  \E x \in T : \A y \in T : x <= y
<1>1. IsWellFoundedOn(NatLess, Nat)
  BY NatLessThanWellFounded DEF OpToRel, NatLess
<1>2. PICK x \in T : \A y \in T : ~ (<<y, x>> \in NatLess)
  BY <1>1, WFMin
<1>3. ASSUME NEW y \in T, ~ (x <= y)
      PROVE  FALSE
  <2>1. <<y, x>> \in Nat \X Nat /\ <<y, x>>[1] = y /\ <<y, x>>[2] = x
    OBVIOUS
  <2>2. y < x
    BY <1>3
  <2>3. <<y, x>> \in NatLess
    BY <2>1, <2>2 DEF NatLess
  <2> QED
    BY <1>2, <2>3
<1> QED
  BY <1>3

\* Among the first n values of a function with natural values one is largest.
LEMMA LargestValue ==
  ASSUME NEW n \in Nat \ {0}, NEW f, \A i \in 1..n : f[i] \in Nat
  PROVE  \E m \in 1..n : \A i \in 1..n : f[i] <= f[m]
<1> DEFINE Has(k) == \E m \in 1..k : \A i \in 1..k : f[i] <= f[m]
           T == {k \in 1..n : ~ Has(k)}
<1> SUFFICES ASSUME T # {} PROVE FALSE
  OBVIOUS
<1>1. PICK k \in T : \A l \in T : k <= l
  <2>1. T \in SUBSET Nat
    OBVIOUS
  <2> HIDE DEF T
  <2> QED
    BY <2>1, LeastNumber
<1>2. k \in 1..n /\ ~ Has(k)
  OBVIOUS
<1>3. k # 1
  <2>1. f[1] \in Nat
    OBVIOUS
  <2>2. Has(1)
    BY <2>1
  <2> QED
    BY <1>2, <2>2
<1>4. k - 1 \in 1..n /\ k - 1 \notin T
  <2>1. \A l \in T : k <= l
    BY <1>1
  <2>2. k - 1 \in 1..n /\ ~(k <= k - 1)
    BY <1>2, <1>3
  <2> HIDE DEF T
  <2> QED
    BY <2>1, <2>2
<1>5. PICK m \in 1..(k - 1) : \A i \in 1..(k - 1) : f[i] <= f[m]
  BY <1>4
<1>6. f[m] \in Nat /\ f[k] \in Nat /\ m \in 1..k /\ k \in 1..k
  BY <1>2, <1>5
<1>7. CASE f[k] <= f[m]
  <2>1. \A i \in 1..k : f[i] <= f[m]
    <3> SUFFICES ASSUME NEW i \in 1..k PROVE f[i] <= f[m]
      OBVIOUS
    <3>1. i = k \/ i \in 1..(k - 1)
      BY <1>2
    <3> QED
      BY <1>5, <1>7, <3>1
  <2> QED
    BY <1>2, <1>6, <2>1
<1>8. CASE f[m] <= f[k]
  <2>1. \A i \in 1..k : f[i] <= f[k]
    <3> SUFFICES ASSUME NEW i \in 1..k PROVE f[i] <= f[k]
      OBVIOUS
    <3>1. f[i] \in Nat
      BY <1>2
    <3>2. CASE i = k
      BY <1>6, <3>2
    <3>3. CASE i # k
      <4>1. f[i] <= f[m]
        BY <1>2, <1>5, <3>3
      <4> QED
        BY <1>6, <1>8, <3>1, <4>1
    <3> QED
      BY <3>2, <3>3
  <2> QED
    BY <1>2, <1>6, <2>1
<1> QED
  BY <1>6, <1>7, <1>8

\* The places of a set of places, counted from the first.
LEMMA Ranks ==
  ASSUME NEW n \in Nat, NEW at \in SUBSET (1..n)
  PROVE  /\ IsFiniteSet(at) /\ Cardinality(at) \in Nat
         /\ \A i \in at : Cardinality(at \cap (1..i)) \in 1..Cardinality(at)
         /\ \A k \in 1..Cardinality(at) : \E i \in at : Cardinality(at \cap (1..i)) = k
         /\ \A i, j \in at : Cardinality(at \cap (1..i)) = Cardinality(at \cap (1..j)) => i = j
<1> DEFINE c == Cardinality(at)
           rank == [i \in at |-> Cardinality(at \cap (1..i))]
<1>1. IsFiniteSet(1..n) /\ IsFiniteSet(at) /\ c \in Nat
  <2>1. IsFiniteSet(1..n)
    BY FS_Interval
  <2>2. IsFiniteSet(at)
    BY <2>1, FS_Subset
  <2> QED
    BY <2>1, <2>2, FS_CardinalityType
<1>2. \A i \in at : /\ IsFiniteSet(at \cap (1..i)) /\ Cardinality(at \cap (1..i)) \in Nat
                    /\ Cardinality(at \cap (1..i)) <= c
  BY <1>1, FS_Subset, FS_CardinalityType
<1>3. \A i \in at : Cardinality(at \cap (1..i)) \in 1..c
  <2> SUFFICES ASSUME NEW i \in at PROVE Cardinality(at \cap (1..i)) \in 1..c
    OBVIOUS
  <2>1. i \in at \cap (1..i)
    OBVIOUS
  <2>2. Cardinality(at \cap (1..i)) # 0
    BY <1>2, <2>1, FS_EmptySet
  <2> QED
    BY <1>1, <1>2, <2>2
<1>4. ASSUME NEW i \in at, NEW j \in at, i < j
      PROVE  Cardinality(at \cap (1..i)) # Cardinality(at \cap (1..j))
  <2>1. at \cap (1..i) \subseteq at \cap (1..j)
    BY <1>4
  <2>2. j \in at \cap (1..j) /\ j \notin at \cap (1..i)
    BY <1>4
  <2> QED
    BY <1>2, <2>1, <2>2, FS_Subset
<1>5. \A i, j \in at : Cardinality(at \cap (1..i)) = Cardinality(at \cap (1..j)) => i = j
  BY <1>4
<1>6. rank \in Injection(at, 1..c)
  <2>1. rank \in [at -> 1..c]
    BY <1>3
  <2>2. \A i, j \in at : rank[i] = rank[j] => i = j
    BY <1>5
  <2> HIDE DEF rank
  <2> QED
    BY <2>1, <2>2 DEF Injection, IsInjective
<1>7. IsFiniteSet(1..c) /\ Cardinality(1..c) = c
  BY <1>1, FS_Interval
<1>8. rank \in Surjection(at, 1..c)
  BY <1>6, <1>7, FS_Injection
<1>9. \A k \in 1..c : \E i \in at : rank[i] = k
  BY <1>8 DEF Surjection
<1> QED
  BY <1>1, <1>3, <1>5, <1>9

\* The keys that are kept are the keys in S, each once for every place it has.
LEMMA OnlyFacts ==
  ASSUME NEW K, NEW keys \in Seq(K), NEW S
  PROVE  LET at == {i \in DOMAIN keys : keys[i] \in S}
             r == Only(keys, S)
         IN  /\ IsFiniteSet(at) /\ Len(r) = Cardinality(at) /\ Len(r) \in Nat
             /\ r \in Seq(Range(keys) \cap S)
             /\ Range(r) = Range(keys) \cap S
<1> DEFINE at == {i \in DOMAIN keys : keys[i] \in S}
           place(k) == CHOOSE i \in at : Cardinality(at \cap (1..i)) = k
           T == Range(keys) \cap S
           r == Only(keys, S)
           c == Cardinality(at)
<1>1. DOMAIN keys = 1..Len(keys) /\ Len(keys) \in Nat /\ at \in SUBSET (1..Len(keys))
  BY LenProperties
<1>2. /\ IsFiniteSet(at) /\ c \in Nat
      /\ \A i \in at : Cardinality(at \cap (1..i)) \in 1..c
      /\ \A k \in 1..c : \E i \in at : Cardinality(at \cap (1..i)) = k
      /\ \A i, j \in at : Cardinality(at \cap (1..i)) = Cardinality(at \cap (1..j)) => i = j
  BY <1>1, Ranks
<1>3. r = [k \in 1..c |-> keys[place(k)]]
  BY DEF Only
<1>4. \A i \in at : keys[i] \in T
  BY DEF Range
<1>5. \A x \in T : \E i \in at : keys[i] = x
  BY DEF Range
<1> HIDE DEF at, T, r
<1>6. \A k \in 1..c : place(k) \in at /\ Cardinality(at \cap (1..place(k))) = k
  BY <1>2
<1>7. \A i \in at : place(Cardinality(at \cap (1..i))) = i
  BY <1>2, <1>6
<1> HIDE DEF place
<1>8. r \in [1..c -> T]
  BY <1>3, <1>4, <1>6
<1>9. r \in Seq(T) /\ Len(r) = c
  BY <1>2, <1>8, SeqDef, LenProperties
<1>10. T \subseteq Range(r)
  <2> SUFFICES ASSUME NEW x \in T PROVE x \in Range(r)
    OBVIOUS
  <2>1. PICK i \in at : keys[i] = x
    BY <1>5
  <2> DEFINE k == Cardinality(at \cap (1..i))
  <2>2. k \in 1..c /\ place(k) = i
    BY <1>2, <1>7
  <2> HIDE DEF k
  <2>3. k \in DOMAIN r /\ r[k] = x
    BY <1>3, <2>1, <2>2
  <2> QED
    BY <2>3 DEF Range
<1>11. Range(r) \subseteq T
  BY <1>8 DEF Range
<1> QED
  BY <1>2, <1>9, <1>10, <1>11 DEF at, T, r

\* r has the options of keys, in an order of its own.
Shuffled(r, keys, K) == r \in Seq(K) /\ Len(r) = Len(keys) /\ Range(r) = Range(keys)

LEMMA ReverseFacts ==
  ASSUME NEW K, NEW keys \in Seq(K)
  PROVE  Shuffled(Reverse(keys), keys, K)
<1> DEFINE n == Len(keys)
           r == Reverse(keys)
<1>1. n \in Nat /\ DOMAIN keys = 1..n /\ \A i \in 1..n : keys[i] \in K
  BY LenProperties
<1>2. r = [i \in 1..n |-> keys[(n - i) + 1]]
  BY DEF Reverse
<1>3. \A i \in 1..n : (n - i) + 1 \in 1..n /\ (n - ((n - i) + 1)) + 1 = i
  BY <1>1
<1> HIDE DEF r, n
<1>4. r \in [1..n -> K]
  BY <1>1, <1>2, <1>3
<1>5. r \in Seq(K) /\ Len(r) = n /\ DOMAIN r = 1..n
  BY <1>1, <1>4, SeqDef, LenProperties
<1>6. Range(r) \subseteq Range(keys)
  BY <1>1, <1>2, <1>3 DEF Range
<1>7. Range(keys) \subseteq Range(r)
  <2> SUFFICES ASSUME NEW i \in 1..n PROVE keys[i] \in Range(r)
    BY <1>1 DEF Range
  <2>1. r[(n - i) + 1] = keys[i]
    BY <1>2, <1>3
  <2> QED
    BY <1>3, <1>5, <2>1 DEF Range
<1> QED
  BY <1>5, <1>6, <1>7 DEF Shuffled, r, n

LEMMA ShufflesFacts ==
  ASSUME NEW K, NEW keys \in Seq(K), NEW q \in Shuffles(keys)
  PROVE  Shuffled(q, keys, K)
<1> DEFINE n == Len(keys)
<1>1. n \in Nat /\ DOMAIN keys = 1..n /\ \A i \in 1..n : keys[i] \in K
  BY LenProperties
<1>2. PICK p \in Shuffle : IsOrder(p, DOMAIN keys) /\ q = [i \in DOMAIN keys |-> keys[p[i]]]
  BY DEF Shuffles
<1>3. \A i \in 1..n : p[i] \in 1..n
  BY <1>1, <1>2 DEF IsOrder, Range
<1>4. \A j \in 1..n : \E i \in 1..n : p[i] = j
  BY <1>1, <1>2 DEF IsOrder, Range
<1> HIDE DEF n
<1>5. q \in [1..n -> K]
  BY <1>1, <1>2, <1>3
<1>6. q \in Seq(K) /\ Len(q) = n /\ DOMAIN q = 1..n
  BY <1>1, <1>5, SeqDef, LenProperties
<1>7. Range(q) \subseteq Range(keys)
  BY <1>1, <1>2, <1>3 DEF Range
<1>8. Range(keys) \subseteq Range(q)
  <2> SUFFICES ASSUME NEW j \in 1..n PROVE keys[j] \in Range(q)
    BY <1>1 DEF Range
  <2>1. PICK i \in 1..n : p[i] = j
    BY <1>4
  <2>2. q[i] = keys[j]
    BY <1>1, <1>2, <2>1
  <2> QED
    BY <1>6, <2>2 DEF Range
<1> QED
  BY <1>6, <1>7, <1>8 DEF Shuffled, n


\* A list cut in two and joined again around another one.
Around(s, b, m) == SubSeq(s, 1, m) \o b \o SubSeq(s, m + 1, Len(s))

IsAround(r, s, b, m) ==
  /\ Len(r) = Len(s) + Len(b)
  /\ Range(r) = Range(s) \cup Range(b)
  /\ \A i \in 1..m : r[i] = s[i]
  /\ \A i \in 1..Len(b) : r[m + i] = b[i]
  /\ \A i \in 1..(Len(s) - m) : r[m + Len(b) + i] = s[m + i]

LEMMA AroundFacts ==
  ASSUME NEW K, NEW s \in Seq(K), NEW b \in Seq(K), NEW m \in 0..Len(s)
  PROVE  Around(s, b, m) \in Seq(K) /\ IsAround(Around(s, b, m), s, b, m)
<1> DEFINE n == Len(s)
           c == Len(b)
           x == SubSeq(s, 1, m)
           y == SubSeq(s, m + 1, n)
           r == x \o b \o y
<1>1. n \in Nat /\ c \in Nat /\ m \in 0..n /\ DOMAIN s = 1..n /\ \A i \in 1..n : s[i] \in K
  BY LenProperties
<1>2. x \in Seq(K) /\ Len(x) = m /\ \A i \in 1..m : x[i] = s[i]
  <2>1. 1 \in Int /\ m \in Int /\ \A i \in 1..m : s[i] \in K
    BY <1>1
  <2>2. /\ x \in Seq(K) /\ Len(x) = IF 1 <= m THEN m - 1 + 1 ELSE 0
        /\ \A i \in 1..(m - 1 + 1) : x[i] = s[1 + i - 1]
    BY <2>1, SubSeqProperties
  <2> HIDE DEF x, n
  <2> QED
    BY <1>1, <2>2
<1>3. y \in Seq(K) /\ Len(y) = n - m /\ \A i \in 1..(n - m) : y[i] = s[m + i]
  <2>1. m + 1 \in Int /\ n \in Int /\ \A i \in (m + 1)..n : s[i] \in K
    BY <1>1
  <2>2. /\ y \in Seq(K) /\ Len(y) = IF m + 1 <= n THEN n - (m + 1) + 1 ELSE 0
        /\ \A i \in 1..(n - (m + 1) + 1) : y[i] = s[(m + 1) + i - 1]
    BY <2>1, SubSeqProperties
  <2> HIDE DEF y, n
  <2> QED
    BY <1>1, <2>2
<1>4. x \o y = s
  <2>1. 1 \in 1..n + 1 /\ m \in 1 - 1..n /\ n \in m..n
    BY <1>1
  <2>2. x \o y = SubSeq(s, 1, n)
    BY <2>1, ConcatAdjacentSubSeq
  <2> QED
    BY <2>2, SubSeqFull
<1> HIDE DEF x, y
<1>5. /\ x \o b \in Seq(K) /\ Len(x \o b) = m + c
      /\ \A i \in 1..(m + c) : (x \o b)[i] = IF i <= m THEN x[i] ELSE b[i - m]
  BY <1>2, ConcatProperties
<1>6. /\ r \in Seq(K) /\ Len(r) = (m + c) + (n - m)
      /\ \A i \in 1..((m + c) + (n - m)) :
           r[i] = IF i <= m + c THEN (x \o b)[i] ELSE y[i - (m + c)]
  <2> DEFINE p == x \o b
  <2>1. p \in Seq(K) /\ Len(p) = m + c /\ r = p \o y
    BY <1>5
  <2> HIDE DEF p, r
  <2>2. /\ p \o y \in Seq(K) /\ Len(p \o y) = Len(p) + Len(y)
        /\ \A i \in 1..(Len(p) + Len(y)) :
             (p \o y)[i] = IF i <= Len(p) THEN p[i] ELSE y[i - Len(p)]
    BY <1>3, <2>1, ConcatProperties
  <2>3. /\ r \in Seq(K) /\ Len(r) = (m + c) + (n - m)
        /\ \A i \in 1..((m + c) + (n - m)) : r[i] = IF i <= m + c THEN p[i] ELSE y[i - (m + c)]
    BY <1>3, <2>1, <2>2
  <2> QED
    BY <2>3 DEF p
<1>7. Range(r) = Range(s) \cup Range(b)
  <2>1. Range(x \o b) = Range(x) \cup Range(b) /\ Range(r) = Range(x \o b) \cup Range(y)
    BY <1>2, <1>3, <1>5, RangeConcatenation
  <2>2. Range(s) = Range(x) \cup Range(y)
    BY <1>2, <1>3, <1>4, RangeConcatenation
  <2> QED
    BY <2>1, <2>2
<1> HIDE DEF n, c, r
<1>8. /\ Len(r) = n + c
      /\ \A i \in 1..m : r[i] = s[i]
  BY <1>1, <1>2, <1>5, <1>6
<1>9. \A i \in 1..c : r[m + i] = b[i]
  <2> SUFFICES ASSUME NEW i \in 1..c PROVE r[m + i] = b[i]
    OBVIOUS
  <2>1. m + i \in 1..(m + c) /\ m + i \in 1..((m + c) + (n - m)) /\ ~(m + i <= m) /\ m + i <= m + c
        /\ (m + i) - m = i
    BY <1>1
  <2> QED
    BY <1>5, <1>6, <2>1
<1>10. \A i \in 1..(n - m) : r[m + c + i] = s[m + i]
  <2> SUFFICES ASSUME NEW i \in 1..(n - m) PROVE r[m + c + i] = s[m + i]
    OBVIOUS
  <2>1. /\ m + c + i \in 1..((m + c) + (n - m)) /\ ~(m + c + i <= m + c)
        /\ (m + c + i) - (m + c) = i
    BY <1>1
  <2> QED
    BY <1>3, <1>6, <2>1
<1> QED
  BY <1>6, <1>7, <1>8, <1>9, <1>10 DEF Around, IsAround, r, n, c, x, y

\* Where the catch-all options end up.
LEMMA ArrangedFacts ==
  ASSUME NEW K, NEW keys \in Seq(K)
  PROVE  Shuffled(Arranged(keys), keys, K) /\ CatchAllInside(Arranged(keys))
<1> DEFINE neg == mapping.negative
           pos == Range(keys) \ neg
           ca == Only(keys, neg)
           ot == Only(keys, pos)
           n == Len(keys)
           m == Len(ot) \div 2
           atNeg == {i \in DOMAIN keys : keys[i] \in neg}
           atPos == {i \in DOMAIN keys : keys[i] \in pos}
           r == Arranged(keys)
<1>1. DOMAIN keys = 1..n /\ n \in Nat
  BY LenProperties
<1>2. /\ IsFiniteSet(atNeg) /\ Len(ca) = Cardinality(atNeg) /\ Len(ca) \in Nat
      /\ ca \in Seq(Range(keys) \cap neg) /\ Range(ca) = Range(keys) \cap neg
  BY OnlyFacts
<1>3. /\ IsFiniteSet(atPos) /\ Len(ot) = Cardinality(atPos) /\ Len(ot) \in Nat
      /\ ot \in Seq(Range(keys) \cap pos) /\ Range(ot) = pos
  <2>1. Range(keys) \cap pos = pos
    OBVIOUS
  <2>2. /\ IsFiniteSet(atPos) /\ Len(ot) = Cardinality(atPos) /\ Len(ot) \in Nat
        /\ ot \in Seq(Range(keys) \cap pos) /\ Range(ot) = Range(keys) \cap pos
    BY OnlyFacts
  <2> QED
    BY <2>1, <2>2
<1>4. Len(ca) + Len(ot) = n
  <2>1. atNeg \cup atPos = 1..n /\ atNeg \cap atPos = {}
    BY <1>1 DEF Range
  <2>2. Cardinality(1..n) = n
    BY <1>1, FS_Interval
  <2>3. Cardinality({}) = 0
    BY FS_EmptySet
  <2>4. Cardinality(atNeg \cup atPos) =
          Cardinality(atNeg) + Cardinality(atPos) - Cardinality(atNeg \cap atPos)
    BY <1>2, <1>3, FS_Union
  <2> HIDE DEF atNeg, atPos, ca, ot, n
  <2>5. Cardinality(atNeg \cup atPos) = n /\ Cardinality(atNeg \cap atPos) = 0
    BY <2>1, <2>2, <2>3
  <2> QED
    BY <1>1, <1>2, <1>3, <2>4, <2>5
<1>5. CASE ca = <<>> \/ n < 3
  <2>1. r = keys
    BY <1>5 DEF Arranged
  <2>2. Shuffled(r, keys, K)
    BY <2>1 DEF Shuffled
  <2>3. ASSUME Cardinality({i \in DOMAIN keys : keys[i] \notin neg}) >= 2
        PROVE  keys[1] \notin neg /\ keys[n] \notin neg
    <3> DEFINE out == {i \in DOMAIN keys : keys[i] \notin neg}
    <3>1. out \subseteq 1..n /\ IsFiniteSet(1..n) /\ Cardinality(1..n) = n
      BY <1>1, FS_Interval
    <3>2. IsFiniteSet(out) /\ Cardinality(out) <= n /\ (Cardinality(out) = n => out = 1..n)
      BY <3>1, FS_Subset
    <3>3. n >= 2
      <4> HIDE DEF out, n
      <4>1. Cardinality(out) \in Nat
        BY <3>2, FS_CardinalityType
      <4> QED
        BY <1>1, <2>3, <3>2, <4>1 DEF out
    <3>4. CASE ca = <<>>
      <4>1. Range(keys) \cap neg = {}
        BY <1>2, <3>4 DEF Range
      <4>2. 1 \in DOMAIN keys /\ n \in DOMAIN keys
        BY <1>1, <3>3
      <4> QED
        BY <4>1, <4>2 DEF Range
    <3>5. CASE n < 3
      <4>1. Cardinality(out) \in Nat
        BY <3>2, FS_CardinalityType
      <4>2. Cardinality(out) = n
        <5> HIDE DEF out, n
        <5> QED
          BY <1>1, <2>3, <3>2, <3>3, <3>5, <4>1 DEF out
      <4>3. 1 \in out /\ n \in out
        BY <1>1, <3>2, <3>3, <4>2
      <4> QED
        BY <4>3
    <3> QED
      BY <1>5, <3>4, <3>5
  <2>4. CatchAllInside(r)
    BY <2>1, <2>3 DEF CatchAllInside
  <2> QED
    BY <2>2, <2>4
<1>6. CASE ~(ca = <<>> \/ n < 3)
  <2> DEFINE l == Len(ot)
             c == Len(ca)
             b == Reverse(ca)
             q == SubSeq(ot, 1, m) \o b \o SubSeq(ot, m + 1, l)
  <2>1. r = q
    BY <1>6 DEF Arranged
  <2>2. ot \in Seq(K) /\ ca \in Seq(K) /\ l \in Nat /\ c \in Nat
    <3>1. Range(keys) \subseteq K
      BY RangeOfSeq
    <3> QED
      BY <1>2, <1>3, <3>1, SeqMonotonic
  <2>3. b \in Seq(K) /\ Len(b) = c /\ Range(b) = Range(ca)
    BY <2>2, ReverseFacts DEF Shuffled
  <2> HIDE DEF l
  <2>4. m \in 0..l /\ (l >= 2 => m >= 1 /\ m < l) /\ (l < 2 => m = 0)
    BY <2>2 DEF l
  <2>5. /\ q \in Seq(K) /\ Len(q) = l + c /\ Range(q) = Range(ot) \cup Range(b)
        /\ \A i \in 1..m : q[i] = ot[i]
        /\ \A i \in 1..c : q[m + i] = b[i]
        /\ \A i \in 1..(l - m) : q[m + c + i] = ot[m + i]
    <3> HIDE DEF b, m, ot, c
    <3>1. m \in 0..Len(ot)
      BY <2>4 DEF l
    <3>2. q = Around(ot, b, m) /\ Len(b) = c /\ Len(ot) = l
      BY <2>3 DEF l, Around
    <3>3. ot \in Seq(K) /\ b \in Seq(K)
      BY <2>2, <2>3
    <3>4. Around(ot, b, m) \in Seq(K) /\ IsAround(Around(ot, b, m), ot, b, m)
      BY <3>1, <3>3, AroundFacts
    <3> QED
      BY <3>2, <3>4 DEF IsAround
  <2>6. Shuffled(q, keys, K)
    <3>1. Len(q) = n
      <4>1. Len(q) = l + c /\ c + l = n /\ l \in Nat /\ c \in Nat
        BY <1>4, <2>2, <2>5 DEF l
      <4> HIDE DEF q, n, c
      <4> QED
        BY <4>1
    <3>2. Range(q) = Range(keys)
      BY <1>2, <1>3, <2>3, <2>5
    <3> QED
      BY <2>5, <3>1, <3>2 DEF Shuffled
  <2>7. DOMAIN q = 1..(l + c) /\ DOMAIN b = 1..c /\ DOMAIN ot = 1..l
    BY <2>2, <2>3, <2>5, LenProperties DEF l
  <2>8. \A i \in 1..c : b[i] \in neg
    BY <1>2, <2>3, <2>7 DEF Range
  <2>9. \A i \in 1..l : ot[i] \notin neg
    BY <1>3, <2>7 DEF Range
  <2> HIDE DEF q, b, c, m, ot, ca, neg
  <2>10. ASSUME Cardinality({i \in DOMAIN q : q[i] \notin neg}) >= 2
         PROVE  q[1] \notin neg /\ q[Len(q)] \notin neg
    <3> DEFINE out == {i \in DOMAIN q : q[i] \notin neg}
    <3>1. CASE l >= 2
      <4>1. 1 \in 1..m /\ 1 \in 1..l /\ l - m \in 1..(l - m) /\ m + (l - m) = l /\ l \in 1..l
            /\ m + c + (l - m) = l + c
        BY <2>2, <2>4, <3>1 DEF c
      <4>2. q[1] = ot[1] /\ q[l + c] = ot[l]
        BY <2>5, <4>1
      <4> QED
        BY <2>5, <2>9, <4>1, <4>2
    <3>2. CASE l < 2
      <4>1. m = 0 /\ c \in Nat /\ l \in Nat
        BY <2>2, <2>4, <3>2 DEF c
      <4>2. \A i \in 1..(l + c) : i # c + 1 => i \in 1..c /\ m + i = i
        BY <3>2, <4>1
      <4>3. \A i \in 1..c : q[i] \in neg
        BY <2>5, <2>8, <4>1, <4>2
      <4>4. out \subseteq {c + 1}
        BY <2>7, <4>2, <4>3
      <4>5. IsFiniteSet({c + 1}) /\ Cardinality({c + 1}) = 1
        BY FS_Singleton
      <4>6. Cardinality(out) \in Nat /\ Cardinality(out) <= 1
        <5> HIDE DEF out
        <5>1. IsFiniteSet(out) /\ Cardinality(out) <= Cardinality({c + 1})
          BY <4>4, <4>5, FS_Subset
        <5> QED
          BY <4>5, <5>1, FS_CardinalityType
      <4>7. Cardinality(out) >= 2
        BY <2>10
      <4> HIDE DEF out
      <4> QED
        BY <4>6, <4>7
    <3> QED
      BY <2>2, <3>1, <3>2 DEF l
  <2>11. CatchAllInside(q)
    BY <2>10 DEF CatchAllInside, neg
  <2> QED
    BY <2>1, <2>6, <2>11
<1> QED
  BY <1>5, <1>6

LEMMA OrdersFacts ==
  ASSUME NEW K, NEW keys \in Seq(K), NEW isTrain, NEW r \in Orders(keys, isTrain)
  PROVE  Shuffled(r, keys, K) /\ (isTrain => CatchAllInside(r))
<1>1. CASE isTrain
  <2>1. PICK q \in Shuffles(keys) : r = Arranged(q)
    BY <1>1 DEF Orders
  <2>2. Shuffled(q, keys, K)
    BY ShufflesFacts
  <2>3. Shuffled(r, q, K) /\ CatchAllInside(r)
    BY <2>1, <2>2, ArrangedFacts DEF Shuffled
  <2> QED
    BY <2>2, <2>3 DEF Shuffled
<1>2. CASE ~isTrain
  BY <1>2 DEF Orders, Shuffled
<1> QED
  BY <1>1, <1>2

-----------------------------------------------------------------------------
(* The items of a batch.                                                   *)

\* The options of a pair are keys of the ontology.
PairsListed ==
  \A side \in {"train", "eval"} : \A i \in DOMAIN pairs[side] :
    pairs[side][i].fine \in Seq(Range(mapping.fine))

\* Labels and parents of an item belong to its own order of the options.
ItemFits(item) ==
  /\ item.target \in Range(mapping.fine)
  /\ Shuffled(item.coarse, mapping.coarse, Key) /\ item.fine \in Seq(Range(mapping.fine))
  /\ item.coarseLabel + 1 \in DOMAIN item.coarse
  /\ item.coarse[item.coarseLabel + 1] = mapping.parent[item.target]
  /\ item.fineLabel + 1 \in DOMAIN item.fine
  /\ item.fine[item.fineLabel + 1] = item.target
  /\ DOMAIN item.parents = DOMAIN item.fine
  /\ \A k \in DOMAIN item.fine : item.parents[k] = CoarseIndex(mapping.parent[item.fine[k]])

CatchAllCentred(item) == CatchAllInside(item.coarse) /\ CatchAllInside(item.fine)

ItemsFit ==
  \A i \in DOMAIN batch :
    ItemFits(batch[i]) /\ (phase = "training" => CatchAllCentred(batch[i]))

Fitting == PairsListed /\ ItemsFit

\* What says nothing about the ontology keeps what is known of the items.
LEMMA BatchKept ==
  ASSUME mapping' = mapping,
         \A i \in DOMAIN batch' :
           ItemFits(batch'[i]) /\ (phase' = "training" => CatchAllCentred(batch'[i]))
  PROVE  ItemsFit'
<1>1. ASSUME NEW i \in DOMAIN batch'
      PROVE  ItemFits(batch'[i]) => ItemFits(batch[i])'
  BY DEF ItemFits, CoarseIndex, Shuffled
<1>2. ASSUME NEW i \in DOMAIN batch'
      PROVE  CatchAllCentred(batch'[i]) => CatchAllCentred(batch[i])'
  BY DEF CatchAllCentred, CatchAllInside
<1> QED
  BY <1>1, <1>2 DEF ItemsFit

LEMMA SlotFacts ==
  ASSUME NEW K, NEW keys \in Seq(K), NEW key \in Range(keys)
  PROVE  Slot(keys, key) + 1 \in DOMAIN keys /\ keys[Slot(keys, key) + 1] = key
<1> DEFINE s == CHOOSE i \in DOMAIN keys : keys[i] = key
<1>1. s \in DOMAIN keys /\ keys[s] = key
  BY DEF Range
<1>2. DOMAIN keys = 1..Len(keys) /\ Len(keys) \in Nat
  BY LenProperties
<1>3. Slot(keys, key) = s - 1
  BY DEF Slot
<1> HIDE DEF s
<1>4. s \in Int /\ Slot(keys, key) + 1 = s
  BY <1>1, <1>2, <1>3
<1> QED
  BY <1>1, <1>4

LEMMA NewItemFits ==
  ASSUME Ontology(mapping), Validates(mapping), NEW pair, NEW coarse, NEW fine,
         pair.target \in Range(mapping.fine), pair.parent = mapping.parent[pair.target],
         pair.fine \in Seq(Range(mapping.fine)),
         \A k \in Range(pair.fine) : pair.parents[k] = mapping.parent[k],
         Shuffled(coarse, mapping.coarse, Key), Shuffled(fine, pair.fine, Range(mapping.fine)),
         pair.parent \in Range(coarse), pair.target \in Range(fine)
  PROVE  ItemFits(Item(pair, coarse, fine))
<1> DEFINE item == Item(pair, coarse, fine)
<1>1. /\ item.target = pair.target /\ item.coarse = coarse /\ item.fine = fine
      /\ item.coarseLabel = Slot(coarse, pair.parent) /\ item.fineLabel = Slot(fine, pair.target)
      /\ item.parents = [i \in DOMAIN fine |-> CoarseIndex(pair.parents[fine[i]])]
  BY DEF Item
<1>2. coarse \in Seq(Key) /\ fine \in Seq(Range(mapping.fine)) /\ Range(fine) = Range(pair.fine)
  BY DEF Shuffled
<1>3. /\ Slot(coarse, pair.parent) + 1 \in DOMAIN coarse
      /\ coarse[Slot(coarse, pair.parent) + 1] = pair.parent
      /\ Slot(fine, pair.target) + 1 \in DOMAIN fine
      /\ fine[Slot(fine, pair.target) + 1] = pair.target
  BY <1>2, SlotFacts
<1> HIDE DEF item
<1>4. \A k \in DOMAIN fine : item.parents[k] = CoarseIndex(mapping.parent[fine[k]])
  <2> SUFFICES ASSUME NEW k \in DOMAIN fine
               PROVE  item.parents[k] = CoarseIndex(mapping.parent[fine[k]])
    OBVIOUS
  <2>1. fine[k] \in Range(pair.fine)
    BY <1>2 DEF Range
  <2>2. pair.parents[fine[k]] = mapping.parent[fine[k]]
    BY <2>1
  <2> QED
    BY <1>1, <2>2
<1>5. DOMAIN item.parents = DOMAIN fine
  BY <1>1
<1>6. ItemFits(item)
  BY <1>1, <1>2, <1>3, <1>4, <1>5 DEF ItemFits
<1> QED
  BY <1>6 DEF item

LEMMA ReadFits == IInv /\ Fitting /\ Read => Fitting'
<1> SUFFICES ASSUME IInv, Fitting, Read PROVE Fitting'
  OBVIOUS
<1>1. /\ phase \in {"training", "evaluating"} /\ next <= Len(Given) /\ Len(batch) < BatchSize
      /\ UNCHANGED <<mapping, rows, loaded, train, eval, pairs, epoch, tally, verdict>>
  BY DEF Read
<1> DEFINE pair == Given[next]
<1>2. PICK coarse \in Orders(mapping.coarse, IsTraining), fine \in Orders(pair.fine, IsTraining) :
        \/ /\ batch' = Append(batch, Item(pair, coarse, fine)) /\ phase' = phase
           /\ pair.parent \in Range(coarse) /\ pair.target \in Range(fine)
        \/ phase' = "unfit" /\ batch' = batch
  BY DEF Read
<1>3. PairsListed'
  BY <1>1 DEF Fitting, PairsListed
<1>4. CASE phase' = "unfit" /\ batch' = batch
  <2>1. ItemsFit'
    BY <1>1, <1>4, BatchKept DEF Fitting, ItemsFit
  <2> QED
    BY <1>3, <2>1 DEF Fitting
<1>5. CASE /\ batch' = Append(batch, Item(pair, coarse, fine)) /\ phase' = phase
           /\ pair.parent \in Range(coarse) /\ pair.target \in Range(fine)
  <2> DEFINE item == Item(pair, coarse, fine)
  <2>1. Ontology(mapping) /\ Validates(mapping) /\ batch \in Seq(Range(batch))
    BY <1>1 DEF IInv, TypeOK, Mapped, Labelled
  <2>2. PICK side \in {"train", "eval"} : Given = pairs[side]
    BY DEF Given
  <2>3. next \in DOMAIN pairs[side]
    <3>1. next \in Nat \ {0}
      BY DEF IInv, TypeOK
    <3>2. pairs[side] \in Seq(Range(pairs[side]))
      BY <2>2 DEF IInv, PairedInOrder
    <3> QED
      BY <1>1, <2>2, <3>1, <3>2, LenProperties
  <2>4. /\ pair.target \in Range(mapping.fine) /\ pair.parent = mapping.parent[pair.target]
        /\ pair.fine \in Seq(Range(mapping.fine))
    BY <2>2, <2>3 DEF IInv, ParentsNoted, Fitting, PairsListed
  <2>5. \A k \in Range(pair.fine) : pair.parents[k] = mapping.parent[k]
    <3>1. PairIsRight(pair, train[next]) \/ PairIsRight(pair, eval[next])
      BY <2>2, <2>3 DEF IInv, PairedInOrder, PairsAreRight
    <3> QED
      BY <3>1 DEF PairIsRight
  <2>6. mapping.coarse \in Seq(Key)
    BY <2>1 DEF Ontology
  <2> HIDE DEF pair
  <2>7. /\ Shuffled(coarse, mapping.coarse, Key) /\ Shuffled(fine, pair.fine, Range(mapping.fine))
        /\ IsTraining => CatchAllInside(coarse) /\ CatchAllInside(fine)
    BY <2>4, <2>6, OrdersFacts
  <2>8. ItemFits(item)
    BY <1>5, <2>1, <2>4, <2>5, <2>7, NewItemFits
  <2>9. phase = "training" => CatchAllCentred(item)
    BY <2>7 DEF IsTraining, CatchAllCentred, Item
  <2>0. batch' = Append(batch, item)
    BY <1>5
  <2> HIDE DEF item
  <2>10. /\ DOMAIN batch' = 1..(Len(batch) + 1) /\ DOMAIN batch = 1..Len(batch) /\ Len(batch) \in Nat
         /\ \A i \in DOMAIN batch : batch'[i] = batch[i]
         /\ batch'[Len(batch) + 1] = item
    BY <2>0, <2>1, AppendFacts
  <2>11. ItemsFit'
    <3> SUFFICES ASSUME NEW i \in DOMAIN batch'
                 PROVE  ItemFits(batch'[i]) /\ (phase = "training" => CatchAllCentred(batch'[i]))
      BY <1>1, <1>5, BatchKept
    <3>1. i \in DOMAIN batch \/ i = Len(batch) + 1
      BY <2>10
    <3> QED
      BY <2>8, <2>9, <2>10, <3>1 DEF Fitting, ItemsFit
  <2> QED
    BY <1>3, <2>11 DEF Fitting
<1> QED
  BY <1>2, <1>4, <1>5 DEF pair


\* A list of keys all of which are in S.
LEMMA SeqWithin ==
  ASSUME NEW K, NEW q \in Seq(K), NEW S, Range(q) \subseteq S
  PROVE  q \in Seq(S)
<1>1. q \in Seq(Range(q))
  <2>1. q \in [1..Len(q) -> Range(q)] /\ Len(q) \in Nat
    BY LenProperties DEF Range
  <2> QED
    BY <2>1, SeqDef
<1> QED
  BY <1>1, SeqMonotonic

LEMMA ListedPair ==
  ASSUME IInv, PairsListed, PairsLeft, mapping' = mapping, NEW side, side = Side,
         NEW p, p.fine \in Seq(Range(mapping.fine)),
         pairs' = [pairs EXCEPT ![side] = Append(@, p)]
  PROVE  PairsListed'
<1> DEFINE old == pairs[side]
           new == Append(old, p)
<1>1. side \in {"train", "eval"} /\ DOMAIN pairs = {"train", "eval"}
  BY TurnFacts DEF IInv, TypeOK
<1>2. pairs'[side] = new /\ \A t \in {"train", "eval"} : t # side => pairs'[t] = pairs[t]
  BY <1>1
<1>3. old \in Seq(Range(old))
  BY <1>1 DEF IInv, PairedInOrder
<1>4. \A i \in DOMAIN old : old[i].fine \in Seq(Range(mapping.fine))
  BY <1>1 DEF PairsListed
<1>5. /\ DOMAIN new = 1..(Len(old) + 1) /\ DOMAIN old = 1..Len(old) /\ Len(old) \in Nat
      /\ \A i \in DOMAIN old : new[i] = old[i]
      /\ new[Len(old) + 1] = p
  <2> HIDE DEF old
  <2> QED
    BY <1>3, AppendFacts
<1> HIDE DEF old, new
<1>6. \A i \in DOMAIN new : new[i].fine \in Seq(Range(mapping.fine))
  BY <1>4, <1>5
<1>7. ASSUME NEW t \in {"train", "eval"}, NEW i \in DOMAIN pairs'[t]
      PROVE  pairs'[t][i].fine \in Seq(Range(mapping.fine))
  BY <1>2, <1>6 DEF PairsListed
<1> QED
  BY <1>7 DEF PairsListed

LEMMA NoItems == batch = <<>> => ItemsFit
BY EmptySeq DEF ItemsFit

LEMMA InitFitting == Init => Fitting
<1> SUFFICES ASSUME Init PROVE Fitting
  OBVIOUS
<1>1. \A side \in {"train", "eval"} : DOMAIN pairs[side] = {}
  BY EmptySeq DEF Init
<1>2. PairsListed
  BY <1>1 DEF PairsListed
<1> QED
  BY <1>2, NoItems DEF Init, Fitting

LEMMA EarlyFits == IInv' /\ phase' \in {"start", "refused", "rows"} => Fitting'
<1> SUFFICES ASSUME IInv', phase' \in {"start", "refused", "rows"} PROVE Fitting'
  OBVIOUS
<1>1. pairs' = [train |-> <<>>, eval |-> <<>>] /\ batch' = <<>>
  BY DEF IInv, PairedInOrder, Labelled
<1>2. \A side \in {"train", "eval"} : DOMAIN pairs'[side] = {}
  BY <1>1, EmptySeq
<1>3. DOMAIN batch' = {}
  BY <1>1, EmptySeq
<1> QED
  BY <1>2, <1>3 DEF Fitting, PairsListed, ItemsFit

\* Nothing is read before the pairs are made.
LEMMA UnreadFits ==
  ASSUME IInv, IInv', PairsListed', phase' \in {"pairs", "broken", "ended"}
  PROVE  Fitting'
<1>1. DOMAIN batch' = {}
  BY EmptySeq DEF IInv, Labelled
<1> QED
  BY <1>1 DEF Fitting, ItemsFit

LEMMA SplitFits == IInv /\ IInv' /\ Split => Fitting'
<1> SUFFICES ASSUME IInv, IInv', Split PROVE Fitting'
  OBVIOUS
<1>1. phase = "rows" /\ phase' = "pairs" /\ pairs' = pairs
  BY DEF Split
<1>2. \A side \in {"train", "eval"} : DOMAIN pairs'[side] = {}
  BY <1>1, EmptySeq DEF IInv, PairedInOrder
<1>3. PairsListed'
  BY <1>2 DEF PairsListed
<1> QED
  BY <1>1, <1>3, UnreadFits

LEMMA OraclePairFits == IInv /\ IInv' /\ Fitting /\ OraclePair => Fitting'
<1> SUFFICES ASSUME IInv, IInv', Fitting, OraclePair PROVE Fitting'
  OBVIOUS
<1> DEFINE c == mapping.parent[Turn.target]
           p == MakePair(Turn, mapping.children[c], [k \in ChildrenOf(mapping, c) |-> c])
<1>1. /\ phase = "pairs" /\ PairsLeft /\ phase' = phase /\ mapping' = mapping
      /\ pairs' = [pairs EXCEPT ![Side] = Append(@, p)]
  BY DEF OraclePair, Turn, Reading
<1>2. Validates(mapping) /\ Ontology(mapping)
  BY <1>1 DEF IInv, Mapped, TypeOK
<1>3. c \in Range(mapping.coarse) /\ c \in DOMAIN mapping.children
  BY <1>1, <1>2, TurnFacts, OneCategory
<1>4. mapping.children[c] \in Seq(Key) /\ Range(mapping.children[c]) \subseteq Range(mapping.fine)
  BY <1>2, <1>3, ListedOnce DEF Validates, ListsAreDefined
<1>5. mapping.children[c] \in Seq(Range(mapping.fine))
  BY <1>4, SeqWithin
<1>6. p.fine \in Seq(Range(mapping.fine))
  BY <1>5 DEF MakePair
<1> HIDE DEF p
<1>7. PairsListed'
  BY <1>1, <1>6, ListedPair DEF Fitting
<1> QED
  BY <1>1, <1>7, UnreadFits

LEMMA SoftBeamPairFits == IInv /\ IInv' /\ Fitting /\ SoftBeamPair => Fitting'
<1> SUFFICES ASSUME IInv, IInv', Fitting, SoftBeamPair PROVE Fitting'
  OBVIOUS
<1> DEFINE c == mapping.parent[Turn.target]
           own == mapping.children[c]
<1>1. phase = "pairs" /\ PairsLeft /\ mapping' = mapping
  BY DEF SoftBeamPair
<1>2. Validates(mapping) /\ Ontology(mapping)
  BY <1>1 DEF IInv, Mapped, TypeOK
<1>3. c \in DOMAIN mapping.children
  BY <1>1, <1>2, TurnFacts, OneCategory
<1>4. PICK n \in Neighbours(c) :
        LET fine == IF n \in DOMAIN mapping.children
                      THEN Candidates(own, mapping.children[n]) ELSE own
        IN  IF n \in DOMAIN mapping.children /\ Range(fine) \subseteq Range(mapping.fine)
              THEN /\ pairs' = [pairs EXCEPT ![Side] = Append(@,
                        MakePair(Turn, fine, [k \in Range(fine) |->
                          IF k \in Range(own) THEN c ELSE n]))]
                   /\ UNCHANGED phase
              ELSE phase' = "broken" /\ UNCHANGED pairs
  BY DEF SoftBeamPair, Turn
<1> DEFINE fine == Candidates(own, mapping.children[n])
<1>5. CASE n \in DOMAIN mapping.children /\ Range(fine) \subseteq Range(mapping.fine)
  <2> DEFINE p == MakePair(Turn, fine, [k \in Range(fine) |-> IF k \in Range(own) THEN c ELSE n])
  <2>1. pairs' = [pairs EXCEPT ![Side] = Append(@, p)] /\ phase' = phase
    BY <1>4, <1>5
  <2>2. own \in Seq(Key) /\ mapping.children[n] \in Seq(Key)
    BY <1>2, <1>3, <1>5, ListedOnce
  <2>3. p.fine = fine
    BY DEF MakePair
  <2>4. fine \in Seq(Key)
    <3> HIDE DEF own
    <3> QED
      BY <2>2, CandidatesFacts
  <2> HIDE DEF p, fine
  <2>5. p.fine \in Seq(Range(mapping.fine))
    BY <1>5, <2>3, <2>4, SeqWithin
  <2>6. PairsListed'
    BY <1>1, <2>1, <2>5, ListedPair DEF Fitting
  <2> QED
    BY <1>1, <2>1, <2>6, UnreadFits
<1>6. CASE ~(n \in DOMAIN mapping.children /\ Range(fine) \subseteq Range(mapping.fine))
  <2>1. phase' = "broken" /\ pairs' = pairs
    BY <1>4, <1>6
  <2>2. PairsListed'
    BY <1>1, <2>1 DEF Fitting, PairsListed
  <2> QED
    BY <2>1, <2>2, UnreadFits
<1> QED
  BY <1>5, <1>6

\* The steps that drop items, and those that leave them alone.
LEMMA ItemsKept ==
  ASSUME Fitting, mapping' = mapping, pairs' = pairs,
         \/ batch' = <<>>
         \/ batch' = batch /\ (phase' = "training" => phase = "training")
  PROVE  Fitting'
<1>1. PairsListed'
  BY DEF Fitting, PairsListed
<1>2. CASE batch' = <<>>
  <2>1. DOMAIN batch' = {}
    BY <1>2, EmptySeq
  <2> QED
    BY <1>1, <2>1 DEF Fitting, ItemsFit
<1>3. CASE batch' = batch /\ (phase' = "training" => phase = "training")
  <2>1. ItemsFit'
    BY <1>3, BatchKept DEF Fitting, ItemsFit
  <2> QED
    BY <1>1, <2>1 DEF Fitting
<1> QED
  BY <1>2, <1>3

LEMMA JudgeFits == IInv /\ Fitting /\ Judge => Fitting'
<1> SUFFICES ASSUME IInv, Fitting, Judge PROVE Fitting'
  OBVIOUS
<1>1. /\ phase = "judging" /\ phase' # "training" /\ batch' = Tail(batch)
      /\ mapping' = mapping /\ pairs' = pairs
  BY DEF Judge
<1>2. \A i \in DOMAIN batch' : i + 1 \in DOMAIN batch /\ batch'[i] = batch[i + 1]
  BY <1>1, TailFacts DEF IInv, Labelled
<1>3. ItemsFit'
  BY <1>1, <1>2, BatchKept DEF Fitting, ItemsFit
<1>4. PairsListed'
  BY <1>1 DEF Fitting, PairsListed
<1> QED
  BY <1>3, <1>4 DEF Fitting

LEMMA StepFitting == IInv /\ Fitting /\ [Next]_vars => Fitting'
<1> SUFFICES ASSUME IInv, IInv', Fitting, [Next]_vars PROVE Fitting'
  BY StepIInv
<1>1. CASE LoadMapping
  BY <1>1, EarlyFits DEF LoadMapping
<1>2. CASE AdaptRow
  BY <1>2, EarlyFits DEF AdaptRow
<1>3. CASE Split
  BY <1>3, SplitFits
<1>4. CASE OraclePair
  BY <1>4, OraclePairFits
<1>5. CASE SoftBeamPair
  BY <1>5, SoftBeamPairFits
<1>6. CASE EndPairs
  <2>1. batch = <<>> /\ batch' = batch /\ mapping' = mapping /\ pairs' = pairs
    BY <1>6 DEF EndPairs, IInv, Labelled
  <2> QED
    BY <2>1, ItemsKept
<1>7. CASE Read
  BY <1>7, ReadFits
<1>8. CASE HandOver
  <2>1. /\ mapping' = mapping /\ pairs' = pairs
        /\ batch' = <<>> \/ (batch' = batch /\ phase' = "judging")
    BY <1>8 DEF HandOver
  <2> QED
    BY <2>1, ItemsKept
<1>9. CASE Judge
  BY <1>9, JudgeFits
<1>10. CASE EndPass
  <2>1. batch = <<>> /\ batch' = batch /\ mapping' = mapping /\ pairs' = pairs
    BY <1>10 DEF EndPass
  <2> QED
    BY <2>1, ItemsKept
<1>11. CASE Done \/ UNCHANGED vars
  <2>1. batch' = batch /\ phase' = phase /\ mapping' = mapping /\ pairs' = pairs
    BY <1>11 DEF Done, vars
  <2> QED
    BY <2>1, ItemsKept
<1> QED
  BY <1>1, <1>2, <1>3, <1>4, <1>5, <1>6, <1>7, <1>8, <1>9, <1>10, <1>11 DEF Next


-----------------------------------------------------------------------------
(* A row of a batch.                                                       *)

LEMMA WidthFacts ==
  ASSUME NEW b, NEW n \in Nat \ {0}, DOMAIN b = 1..n, NEW side,
         \A i \in 1..n : Len(b[i][side]) \in Nat
  PROVE  Width(b, side) \in Nat /\ \A i \in 1..n : Len(b[i][side]) <= Width(b, side)
<1> DEFINE f == [i \in 1..n |-> Len(b[i][side])]
           widths == {Len(b[i][side]) : i \in DOMAIN b}
<1>1. \A i \in 1..n : f[i] \in Nat
  OBVIOUS
<1>2. PICK m \in 1..n : \A i \in 1..n : f[i] <= f[m]
  <2> HIDE DEF f
  <2> QED
    BY <1>1, LargestValue
<1>3. f[m] \in widths /\ \A v \in widths : v <= f[m]
  BY <1>2
<1>4. Width(b, side) = CHOOSE w \in widths : \A v \in widths : v <= w
  BY DEF Width
<1>5. \A i \in 1..n : Len(b[i][side]) \in widths
  OBVIOUS
<1>6. \A w \in widths : w \in Nat
  OBVIOUS
<1> HIDE DEF widths, f
<1>7. Width(b, side) \in widths /\ \A v \in widths : v <= Width(b, side)
  BY <1>3, <1>4
<1> QED
  BY <1>5, <1>6, <1>7

LEMMA CountTo ==
  ASSUME NEW n \in Nat
  PROVE  IsFiniteSet(1..n) /\ Cardinality(1..n) = n
BY FS_Interval

LEMMA MaskFacts ==
  ASSUME NEW w \in Nat, NEW l \in Nat, l <= w
  PROVE  NumOptions([s \in 1..w |-> s <= l]) = l
<1> DEFINE mask == [s \in 1..w |-> s <= l]
<1>1. DOMAIN mask = 1..w /\ \A s \in 1..w : mask[s] <=> s <= l
  BY Zenon
<1> HIDE DEF mask
<1>2. \A s : s \in 1..w /\ s <= l <=> s \in 1..l
  OBVIOUS
<1>3. {s \in DOMAIN mask : mask[s]} = 1..l
  BY <1>1, <1>2, Zenon
<1>4. NumOptions(mask) = l
  BY <1>3, CountTo DEF NumOptions
<1> QED
  BY <1>4 DEF mask

\* Two lists of the same keys, each key once, are of one length.
LEMMA SameLength ==
  ASSUME NEW K, NEW q \in Seq(K), NEW r \in Seq(K), IsInjective(q), IsInjective(r),
         Range(q) = Range(r)
  PROVE  Len(q) = Len(r)
<1>1. ASSUME NEW p \in Seq(K), IsInjective(p)
      PROVE  IsFiniteSet(Range(p)) /\ Cardinality(Range(p)) = Len(p)
  <2>1. DOMAIN p = 1..Len(p) /\ Len(p) \in Nat
    BY LenProperties
  <2>2. IsFiniteSet(1..Len(p)) /\ Cardinality(1..Len(p)) = Len(p)
    BY <2>1, CountTo
  <2>3. p \in Bijection(1..Len(p), Range(p))
    <3>1. p \in [1..Len(p) -> Range(p)]
      BY <2>1, LenProperties DEF Range
    <3>2. \A x \in Range(p) : \E i \in 1..Len(p) : p[i] = x
      BY <2>1 DEF Range
    <3> QED
      BY <1>1, <2>1, <3>1, <3>2 DEF Bijection, Injection, Surjection, IsInjective
  <2> QED
    BY <2>2, <2>3, FS_Bijection DEF ExistsBijection
<1> QED
  BY <1>1

LEMMA CoarseIndexFacts ==
  ASSUME Ontology(mapping), IsInjective(mapping.allCoarse), NEW key \in Range(mapping.allCoarse)
  PROVE  CoarseIndex(key) \in 0..(Len(mapping.allCoarse) - 1)
<1> DEFINE Latest(i) == /\ mapping.allCoarse[i] = key
                        /\ \A j \in DOMAIN mapping.allCoarse : mapping.allCoarse[j] = key => j <= i
           i == CHOOSE k \in DOMAIN mapping.allCoarse : Latest(k)
<1>1. DOMAIN mapping.allCoarse = 1..Len(mapping.allCoarse) /\ Len(mapping.allCoarse) \in Nat
  BY LenProperties DEF Ontology
<1>2. PICK k \in DOMAIN mapping.allCoarse : mapping.allCoarse[k] = key
  BY DEF Range
<1>3. Latest(k)
  BY <1>1, <1>2 DEF IsInjective
<1>4. CoarseIndex(key) = i - 1
  BY DEF CoarseIndex
<1> HIDE DEF Latest
<1>5. i \in DOMAIN mapping.allCoarse
  BY <1>3
<1> HIDE DEF i
<1> QED
  BY <1>1, <1>4, <1>5

\* With the categories in all_coarse_keys every option is added up for a slot.
LEMMA AllSummed ==
  ASSUME Ontology(mapping), Validates(mapping), IsInjective(mapping.allCoarse),
         Range(mapping.allCoarse) = Range(mapping.coarse),
         NEW item, ItemFits(item), NEW row,
         NumOptions(row.coarseMask) = Len(item.coarse), NumOptions(row.fineMask) = Len(item.fine),
         \A k \in DOMAIN item.fine : row.parents[k] = item.parents[k]
  PROVE  UNION {Summed(row, s) : s \in 0..(NumOptions(row.coarseMask) - 1)} = DOMAIN item.fine
<1>1. DOMAIN item.fine = 1..Len(item.fine)
  BY LenProperties DEF ItemFits
<1>2. Len(item.coarse) = Len(mapping.allCoarse)
  BY SameLength DEF ItemFits, Shuffled, Ontology
<1>3. ASSUME NEW k \in DOMAIN item.fine
      PROVE  row.parents[k] \in 0..(Len(mapping.allCoarse) - 1)
  <2>1. item.fine[k] \in Range(mapping.fine)
    BY <1>1, ElementOfSeq DEF ItemFits
  <2>2. mapping.parent[item.fine[k]] \in Range(mapping.allCoarse)
    BY <2>1, OneCategory
  <2>3. row.parents[k] = CoarseIndex(mapping.parent[item.fine[k]])
    BY DEF ItemFits
  <2> QED
    BY <2>2, <2>3, CoarseIndexFacts
<1> DEFINE top == Len(mapping.allCoarse) - 1
<1>4. NumOptions(row.coarseMask) - 1 = top
  BY <1>2
<1>5. \A s : Summed(row, s) = {k \in DOMAIN item.fine : row.parents[k] = s}
  BY <1>1 DEF Summed
<1> HIDE DEF top
<1>6. \A k \in DOMAIN item.fine : row.parents[k] \in 0..top
  BY <1>3 DEF top
<1>7. UNION {Summed(row, s) : s \in 0..top} = DOMAIN item.fine
  BY <1>5, <1>6
<1> QED
  BY <1>4, <1>7

LEMMA RowFacts ==
  ASSUME NEW n \in Nat \ {0}, DOMAIN batch = 1..n, NEW K,
         \A i \in 1..n : batch[i].coarse \in Seq(K) /\ batch[i].fine \in Seq(K),
         \A i \in 1..n : DOMAIN batch[i].parents = DOMAIN batch[i].fine,
         NEW i \in 1..n
  PROVE  LET row == Collate(batch)[i]
         IN  /\ row.coarseLabel = batch[i].coarseLabel /\ row.fineLabel = batch[i].fineLabel
             /\ NumOptions(row.coarseMask) = Len(batch[i].coarse)
             /\ NumOptions(row.fineMask) = Len(batch[i].fine)
             /\ \A k \in DOMAIN batch[i].fine : row.parents[k] = batch[i].parents[k]
<1> DEFINE row == Collate(batch)[i]
           wc == Width(batch, "coarse")
           wf == Width(batch, "fine")
           lc == Len(batch[i].coarse)
           lf == Len(batch[i].fine)
<1>1. \A k \in 1..n : Len(batch[k].coarse) \in Nat /\ Len(batch[k].fine) \in Nat
  BY LenProperties
<1>2. wc \in Nat /\ lc \in Nat /\ lc <= wc
  <2>1. \A k \in 1..n : Len(batch[k]["coarse"]) \in Nat
    BY <1>1
  <2>2. wc \in Nat /\ \A k \in 1..n : Len(batch[k]["coarse"]) <= wc
    BY <2>1, WidthFacts
  <2> QED
    BY <1>1, <2>2
<1>3. wf \in Nat /\ lf \in Nat /\ lf <= wf
  <2>1. \A k \in 1..n : Len(batch[k]["fine"]) \in Nat
    BY <1>1
  <2>2. wf \in Nat /\ \A k \in 1..n : Len(batch[k]["fine"]) <= wf
    BY <2>1, WidthFacts
  <2> QED
    BY <1>1, <2>2
<1>4. /\ row.coarseLabel = batch[i].coarseLabel /\ row.fineLabel = batch[i].fineLabel
      /\ row.coarseMask = [s \in 1..wc |-> s <= lc]
      /\ row.fineMask = [s \in 1..wf |-> s <= lf]
      /\ row.parents = [s \in 1..wf |-> IF s \in DOMAIN batch[i].parents
                                          THEN batch[i].parents[s] ELSE -1]
  BY DEF Collate
<1>5. DOMAIN batch[i].fine = 1..lf
  BY LenProperties
<1> HIDE DEF wc, wf, lc, lf, row
<1>6. NumOptions(row.coarseMask) = lc /\ NumOptions(row.fineMask) = lf
  BY <1>2, <1>3, <1>4, MaskFacts
<1>7. \A k \in DOMAIN batch[i].fine : row.parents[k] = batch[i].parents[k]
  BY <1>3, <1>4, <1>5
<1> QED
  BY <1>4, <1>6, <1>7 DEF row, lc, lf

LEMMA FittingItems == IInv /\ Fitting => ItemsAreRight
<1> SUFFICES ASSUME IInv, Fitting, NEW i \in DOMAIN batch
             PROVE  LET item == batch[i]
                        row == Collate(batch)[i]
                    IN  /\ item.fine[row.fineLabel + 1] = item.target
                        /\ item.coarse[row.coarseLabel + 1] = mapping.parent[item.target]
                        /\ phase = "training" =>
                             CatchAllInside(item.coarse) /\ CatchAllInside(item.fine)
                        /\ IsInjective(mapping.allCoarse)
                           /\ Range(mapping.allCoarse) = Range(mapping.coarse) =>
                             UNION {Summed(row, s) : s \in 0..(NumOptions(row.coarseMask) - 1)}
                               = DOMAIN item.fine
  BY DEF ItemsAreRight
<1> DEFINE item == batch[i]
           row == Collate(batch)[i]
           n == Len(batch)
<1>1. n \in Nat \ {0} /\ DOMAIN batch = 1..n
  BY LenProperties DEF IInv, Labelled
<1>2. Ontology(mapping) /\ Validates(mapping)
  <2>1. batch # <<>>
    BY EmptySeq
  <2> QED
    BY <2>1 DEF IInv, TypeOK, Mapped, Labelled
<1>3. \A k \in 1..n : ItemFits(batch[k]) /\ (phase = "training" => CatchAllCentred(batch[k]))
  BY <1>1 DEF Fitting, ItemsFit
<1>4. Range(mapping.fine) \subseteq Key
  BY <1>2, RangeOfSeq DEF Ontology
<1>5. \A k \in 1..n : batch[k].coarse \in Seq(Key) /\ batch[k].fine \in Seq(Key)
  BY <1>3, <1>4, SeqMonotonic DEF ItemFits, Shuffled
<1>6. \A k \in 1..n : DOMAIN batch[k].parents = DOMAIN batch[k].fine
  BY <1>3 DEF ItemFits
<1>7. /\ row.coarseLabel = item.coarseLabel /\ row.fineLabel = item.fineLabel
      /\ NumOptions(row.coarseMask) = Len(item.coarse)
      /\ NumOptions(row.fineMask) = Len(item.fine)
      /\ \A k \in DOMAIN item.fine : row.parents[k] = item.parents[k]
  BY <1>1, <1>5, <1>6, RowFacts
<1>8. ItemFits(item) /\ (phase = "training" => CatchAllCentred(item))
  BY <1>1, <1>3
<1> HIDE DEF item, row
<1>9. /\ item.fine[row.fineLabel + 1] = item.target
      /\ item.coarse[row.coarseLabel + 1] = mapping.parent[item.target]
  BY <1>7, <1>8 DEF ItemFits
<1>10. phase = "training" => CatchAllInside(item.coarse) /\ CatchAllInside(item.fine)
  BY <1>8 DEF CatchAllCentred
<1>11. IsInjective(mapping.allCoarse) /\ Range(mapping.allCoarse) = Range(mapping.coarse) =>
         UNION {Summed(row, s) : s \in 0..(NumOptions(row.coarseMask) - 1)} = DOMAIN item.fine
  BY <1>2, <1>7, <1>8, AllSummed
<1> QED
  BY <1>9, <1>10, <1>11 DEF item, row

\* In every order of the options both labels point at the two answers, no
\* catch-all option stands at the edge of a training prompt, and the loss adds
\* up every fine option for a slot of the coarse question and no padding.
THEOREM ItemsStayRight == Spec => []ItemsAreRight
<1>1. Init => IInv /\ Fitting
  BY InitIInv, InitFitting
<1>2. (IInv /\ Fitting) /\ [Next]_vars => (IInv /\ Fitting)'
  BY StepIInv, StepFitting
<1> QED
  BY <1>1, <1>2, FittingItems, PTL DEF Spec
=============================================================================

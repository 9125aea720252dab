------------------------------ MODULE Hierarchy ------------------------------
(***************************************************************************)
(* The data of the two-level trainer (train/data/hierarchical.py and       *)
(* hierarchical_dataset.py): an ontology of coarse and fine categories is  *)
(* read and validated, the samples of a corpus are matched with its keys,  *)
(* each becomes a pair of a coarse and a fine question, the pairs are      *)
(* shuffled and padded into batches, the consistency loss reads the        *)
(* training batches and the evaluation plays the two passes of the router. *)
(*                                                                         *)
(* Every random draw and every answer of the model is a choice.  Wording   *)
(* and token ids are left out; the training samples keep their order.      *)
(***************************************************************************)
EXTENDS Integers, Sequences, FiniteSets, Functions, SequencesExt

CONSTANTS
  Key,          \* keys of categories, of either level
  Text,         \* states of samples; those made of the descriptions are "description"
  Setups,       \* [ontology, rows]: what a JSON file or a preset holds, and what
                \* stream_samples gives, <<>> without a dataset
  Lower,        \* key -> the key in lower case
  Unfit,        \* <<text, n>> that cannot be tokenized with n options
  SplitNum, SplitDen,   \* split_ratio
  MaxFine,      \* max_fine_candidates
  BatchSize, Epochs,
  Shuffle       \* the orders of places the seeded generator draws

Row == [text : Text, target : STRING, lower : STRING]

\* blank: coarse keys that are white space or have no description.  children
\* is coarse_to_fine, parent fine_to_coarse, allCoarse all_coarse_keys.
Ontology(o) ==
  /\ DOMAIN o = {"coarse", "blank", "fine", "children", "parent", "allCoarse", "negative"}
  /\ {o.coarse, o.fine, o.allCoarse} \subseteq Seq(Key)
  /\ IsInjective(o.coarse) /\ IsInjective(o.fine)
  /\ o.children \in [DOMAIN o.children -> Seq(Key)]

ASSUME HierarchyConstants ==
  /\ "description" \in Text
  /\ \A s \in Setups : Ontology(s.ontology) /\ s.rows \in Seq(Row)
  /\ {SplitNum, MaxFine, Epochs} \subseteq Nat /\ {SplitDen, BatchSize} \subseteq Nat \ {0}
  /\ SplitNum <= SplitDen

VARIABLES
  phase,
  mapping,
  rows,          \* what is left of the dataset
  loaded,        \* loaded_samples
  train, eval,   \* train_samples and eval_samples
  pairs,         \* "train" and "eval" -> the pairs that are made
  epoch, next, batch,
  tally,         \* counters of evaluate
  verdict        \* of the last item judged

vars == <<phase, mapping, rows, loaded, train, eval, pairs, epoch, next, batch, tally, verdict>>

-----------------------------------------------------------------------------
\* HierarchicalMapping.

\* The ones in English.
DefaultNegativeKeys == {"other", "none", "unknown", "other_or_unsupported"}

\* The presets: a list of coarse keys with their fine keys.
Preset(categories) ==
  LET coarse == [i \in DOMAIN categories |-> categories[i].key]
      fine == FlattenSeq([i \in DOMAIN categories |-> categories[i].fine])
  IN  [coarse |-> coarse, blank |-> {}, fine |-> fine,
       children |-> [k \in Range(coarse) |->
         categories[CHOOSE i \in DOMAIN coarse : coarse[i] = k].fine],
       parent |-> [f \in Range(fine) |->
         categories[CHOOSE i \in DOMAIN coarse :
           /\ f \in Range(categories[i].fine)
           /\ \A j \in DOMAIN coarse : f \in Range(categories[j].fine) => j <= i].key],
       allCoarse |-> coarse, negative |-> DefaultNegativeKeys]

\* No fine key is in two lists or twice in one.
NoOverlap(o) ==
  \A c, d \in DOMAIN o.children :
    \A i \in DOMAIN o.children[c], j \in DOMAIN o.children[d] :
      o.children[c][i] = o.children[d][j] => c = d /\ i = j

ListsAreDefined(o) ==
  \A c \in Range(o.coarse) :
    /\ c \notin o.blank
    /\ c \in DOMAIN o.children /\ o.children[c] # <<>>
    /\ Range(o.children[c]) \subseteq Range(o.fine)

\* coarse_to_fine.get(coarse_key, [])
ChildrenOf(o, c) == IF c \in DOMAIN o.children THEN Range(o.children[c]) ELSE {}

ParentsAgree(o) ==
  \A f \in DOMAIN o.parent :
    /\ f \in Range(o.fine) /\ o.parent[f] \in Range(o.coarse)
    /\ f \in ChildrenOf(o, o.parent[f])

\* Mutation of Validates: a list may name a fine key that has no criteria.
ValidatesBackwards(o) ==
  /\ o.coarse # <<>> /\ o.fine # <<>>
  /\ NoOverlap(o)
  /\ \A c \in Range(o.coarse) : c \notin o.blank /\ ChildrenOf(o, c) # {}
  /\ ParentsAgree(o)
  /\ Range(o.fine) \subseteq DOMAIN o.parent

\* validate() returns.
Validates(o) ==
  /\ o.coarse # <<>> /\ o.fine # <<>>
  /\ NoOverlap(o)
  /\ ListsAreDefined(o)
  /\ ParentsAgree(o)
  /\ Range(o.fine) \subseteq DOMAIN o.parent

\* from_dict: without all_coarse_keys the order of the categories is taken.
FromDict(o) == [o EXCEPT !.allCoarse = IF @ = <<>> THEN o.coarse ELSE @]

-----------------------------------------------------------------------------
\* run_hierarchical_sft.

Sample(text, target) == [text |-> text, target |-> target]
NoTally == [coarse |-> 0, fine |-> 0, e2e |-> 0, beams |-> 0, total |-> 0]
NoVerdict == [target |-> "", beam |-> {}, right |-> FALSE]

Init ==
  /\ phase = "start"
  /\ \E s \in Setups : mapping = s.ontology /\ rows = s.rows
  /\ loaded = <<>> /\ train = <<>> /\ eval = <<>>
  /\ pairs = [train |-> <<>>, eval |-> <<>>]
  /\ epoch = 0 /\ next = 1 /\ batch = <<>>
  /\ tally = NoTally /\ verdict = NoVerdict

Reading == <<epoch, next, batch, tally, verdict>>

LoadMapping ==
  /\ phase = "start"
  /\ mapping' = FromDict(mapping)
  /\ phase' = IF Validates(mapping') THEN "rows" ELSE "refused"
  /\ UNCHANGED <<rows, loaded, train, eval, pairs, Reading>>

\* The fine keys a target stands for.
Matches(row) ==
  {i \in DOMAIN mapping.fine : mapping.fine[i] = row.target \/ Lower[mapping.fine[i]] = row.lower}
FirstMatch(i, row) == i \in Matches(row) /\ \A j \in Matches(row) : i <= j

\* A sample of the dataset is kept if the ontology has its target.
AdaptRow ==
  /\ phase = "rows" /\ rows # <<>>
  /\ rows' = Tail(rows)
  /\ \/ Matches(Head(rows)) = {} /\ UNCHANGED loaded
     \/ \E i \in DOMAIN mapping.fine :
          /\ FirstMatch(i, Head(rows))
          /\ loaded' = Append(loaded, Sample(Head(rows).text, mapping.fine[i]))
  /\ UNCHANGED <<phase, mapping, train, eval, pairs, Reading>>

SelfTraining == [i \in DOMAIN mapping.fine |-> Sample("description", mapping.fine[i])]

\* The split by position.  Without a training sample the descriptions of the
\* ontology are appended to both lists.
Split ==
  /\ phase = "rows" /\ rows = <<>>
  /\ LET cut == (Len(loaded) * SplitNum) \div SplitDen
         none == cut = 0
     IN  /\ train' = IF none THEN SelfTraining ELSE SubSeq(loaded, 1, cut)
         /\ eval' = SubSeq(loaded, cut + 1, Len(loaded)) \o (IF none THEN SelfTraining ELSE <<>>)
  /\ phase' = "pairs"
  /\ UNCHANGED <<mapping, rows, loaded, pairs, Reading>>

-----------------------------------------------------------------------------
\* HierarchicalDatasetGenerator.

\* Mutation of Candidates: the bound holds for the keys of the target's own
\* cluster too.
CandidatesCut(own, others) ==
  SubSeq(own \o others, 1, IF Len(own \o others) < MaxFine THEN Len(own \o others) ELSE MaxFine)

\* All keys of the target's cluster, and of another one up to the bound.
Candidates(own, others) ==
  own \o (IF MaxFine < Len(own) THEN <<>>
          ELSE SubSeq(others, 1, IF MaxFine - Len(own) < Len(others) THEN MaxFine - Len(own)
                                 ELSE Len(others)))

MakePair(sample, fine, parents) ==
  [text |-> sample.text, target |-> sample.target, parent |-> mapping.parent[sample.target],
   fine |-> fine, parents |-> parents]

Neighbours(c) == Range(mapping.allCoarse) \ {c}

Side == IF Len(pairs.train) < Len(train) THEN "train" ELSE "eval"
Waiting == IF Side = "train" THEN train ELSE eval
PairsLeft == Len(pairs[Side]) < Len(Waiting)

\* The fine question of the target's cluster alone.
OraclePair ==
  /\ phase = "pairs" /\ PairsLeft
  /\ LET s == Waiting[Len(pairs[Side]) + 1]
         c == mapping.parent[s.target]
     IN  pairs' = [pairs EXCEPT ![Side] = Append(@,
           MakePair(s, mapping.children[c], [k \in ChildrenOf(mapping, c) |-> c]))]
  /\ UNCHANGED <<phase, mapping, rows, loaded, train, eval, Reading>>

\* The soft beam: the keys of a neighbour as well.  A key of all_coarse_keys
\* that has no list, or a list with undefined keys, raises KeyError.
SoftBeamPair ==
  /\ phase = "pairs" /\ PairsLeft
  /\ LET s == Waiting[Len(pairs[Side]) + 1]
         c == mapping.parent[s.target]
     IN  \E n \in Neighbours(c) :
           LET own == mapping.children[c]
               fine == IF n \in DOMAIN mapping.children
                         THEN Candidates(own, mapping.children[n]) ELSE own
           IN  IF n \in DOMAIN mapping.children /\ Range(fine) \subseteq Range(mapping.fine)
                 THEN /\ pairs' = [pairs EXCEPT ![Side] = Append(@,
                           MakePair(s, fine, [k \in Range(fine) |->
                             IF k \in Range(own) THEN c ELSE n]))]
                      /\ UNCHANGED phase
                 ELSE phase' = "broken" /\ UNCHANGED pairs
  /\ UNCHANGED <<mapping, rows, loaded, train, eval, Reading>>

EndPairs ==
  /\ phase = "pairs" /\ ~PairsLeft
  /\ phase' = IF Epochs = 0 THEN "ended" ELSE "training"
  /\ epoch' = IF Epochs = 0 THEN 0 ELSE 1
  /\ UNCHANGED <<mapping, rows, loaded, train, eval, pairs, next, batch, tally, verdict>>

-----------------------------------------------------------------------------
\* HierarchicalJevDataset and its collate function.

IsOrder(p, places) == DOMAIN p = places /\ Range(p) = places
Shuffles(keys) ==
  {[i \in DOMAIN keys |-> keys[p[i]]] : p \in {p \in Shuffle : IsOrder(p, DOMAIN keys)}}

\* The keys that are in S, in their order.
Only(keys, S) ==
  LET at == {i \in DOMAIN keys : keys[i] \in S}
  IN  [n \in 1..Cardinality(at) |-> keys[CHOOSE i \in at : Cardinality(at \cap (1..i)) = n]]

\* Mutation of Arranged: three options are left as they fell.
ArrangedLate(keys) ==
  LET catchAll == Only(keys, mapping.negative)
      others == Only(keys, Range(keys) \ mapping.negative)
      middle == Len(others) \div 2
  IN  IF catchAll = <<>> \/ Len(keys) <= 3 THEN keys
      ELSE SubSeq(others, 1, middle) \o Reverse(catchAll) \o SubSeq(others, middle + 1, Len(others))

\* Catch-all options are put in the middle, each before the last.
Arranged(keys) ==
  LET catchAll == Only(keys, mapping.negative)
      others == Only(keys, Range(keys) \ mapping.negative)
      middle == Len(others) \div 2
  IN  IF catchAll = <<>> \/ Len(keys) < 3 THEN keys
      ELSE SubSeq(others, 1, middle) \o Reverse(catchAll) \o SubSeq(others, middle + 1, Len(others))

Orders(keys, isTrain) ==
  IF isTrain THEN {Arranged(q) : q \in Shuffles(keys)} ELSE {keys}

Slot(keys, key) == (CHOOSE i \in DOMAIN keys : keys[i] = key) - 1

\* coarse_key_to_idx; a later index replaces an earlier one.
CoarseIndex(key) ==
  IF key \in Range(mapping.allCoarse)
    THEN (CHOOSE i \in DOMAIN mapping.allCoarse :
            /\ mapping.allCoarse[i] = key
            /\ \A j \in DOMAIN mapping.allCoarse : mapping.allCoarse[j] = key => j <= i) - 1
    ELSE -1

\* __getitem__: the labels are slots of the orders, the parents are numbers of
\* all_coarse_keys.
Item(pair, coarse, fine) ==
  [target |-> pair.target,
   coarse |-> coarse, coarseLabel |-> Slot(coarse, pair.parent),
   fine |-> fine, fineLabel |-> Slot(fine, pair.target),
   parents |-> [i \in DOMAIN fine |-> CoarseIndex(pair.parents[fine[i]])]]

IsTraining == phase = "training"
Given == IF IsTraining THEN pairs.train ELSE pairs.eval
Fits(pair) ==
  <<pair.text, Len(mapping.coarse)>> \notin Unfit /\ <<pair.text, Len(pair.fine)>> \notin Unfit

\* A target that is no option, and a prompt that is too long, raise ValueError.
Read ==
  /\ phase \in {"training", "evaluating"} /\ next <= Len(Given) /\ Len(batch) < BatchSize
  /\ LET pair == Given[next] IN
     \E coarse \in Orders(mapping.coarse, IsTraining), fine \in Orders(pair.fine, IsTraining) :
       IF pair.parent \in Range(coarse) /\ pair.target \in Range(fine) /\ Fits(pair)
         THEN /\ batch' = Append(batch, Item(pair, coarse, fine))
              /\ next' = next + 1
              /\ UNCHANGED phase
         ELSE phase' = "unfit" /\ UNCHANGED <<batch, next>>
  /\ UNCHANGED <<mapping, rows, loaded, train, eval, pairs, epoch, tally, verdict>>

\* hierarchical_collate_fn: every item is padded to the widest, parents with -1.
Width(b, side) == LET widths == {Len(b[i][side]) : i \in DOMAIN b} IN
                  CHOOSE w \in widths : \A v \in widths : v <= w
Collate(b) ==
  [i \in DOMAIN b |->
     [coarseMask |-> [s \in 1..Width(b, "coarse") |-> s <= Len(b[i].coarse)],
      fineMask |-> [s \in 1..Width(b, "fine") |-> s <= Len(b[i].fine)],
      coarseLabel |-> b[i].coarseLabel, fineLabel |-> b[i].fineLabel,
      parents |-> [s \in 1..Width(b, "fine") |->
                     IF s \in DOMAIN b[i].parents THEN b[i].parents[s] ELSE -1]]]

Full == batch # <<>> /\ (Len(batch) = BatchSize \/ next > Len(Given))

-----------------------------------------------------------------------------
\* HierarchicalConsistencyLoss.forward on a row of a batch.

NumOptions(mask) == Cardinality({s \in DOMAIN mask : mask[s]})

\* The fine options whose probability is added up for a coarse slot.
Summed(row, slot) == {k \in 1..NumOptions(row.fineMask) : row.parents[k] = slot}

\* The fine options that are pressed below the logit of their coarse slot.
Suppressed(row) ==
  {k \in 1..NumOptions(row.fineMask) :
     /\ row.parents[k] # row.coarseLabel
     /\ row.parents[k] \in 0..(NumOptions(row.coarseMask) - 1)}

\* A training batch goes to the model and the loss, another one is judged.
HandOver ==
  /\ phase \in {"training", "evaluating"} /\ Full
  /\ IF IsTraining THEN batch' = <<>> /\ UNCHANGED phase
                   ELSE phase' = "judging" /\ UNCHANGED batch
  /\ UNCHANGED <<mapping, rows, loaded, train, eval, pairs, epoch, next, tally, verdict>>

Count(test) == IF test THEN 1 ELSE 0

\* Mutation of Judged: the second category counts without a soft beam.
JudgedEasily(item, first, second, soft, guess) ==
  [coarse |-> first = item.coarseLabel, fine |-> guess = item.fineLabel,
   right |-> item.coarseLabel \in {first, second} /\ guess = item.fineLabel]

\* The two passes of the router: the category in front, with the soft beam the
\* second one as well, then the fine answer to the question of the pair.
Judged(item, first, second, soft, guess) ==
  [coarse |-> first = item.coarseLabel, fine |-> guess = item.fineLabel,
   right |-> /\ first = item.coarseLabel \/ (soft /\ second = item.coarseLabel)
             /\ guess = item.fineLabel]

\* evaluate() on the next item of the batch.  second: -1 without another slot.
Judge ==
  /\ phase = "judging"
  /\ LET item == Head(batch)
         slots == 0..(Len(item.coarse) - 1)
     IN  \E first \in slots, soft \in BOOLEAN, guess \in 0..(Len(item.fine) - 1) :
         \E second \in IF Len(item.coarse) > 1 THEN slots \ {first} ELSE {-1} :
           LET j == Judged(item, first, second, soft, guess) IN
           /\ tally' = [coarse |-> tally.coarse + Count(j.coarse), fine |-> tally.fine + Count(j.fine),
                        e2e |-> tally.e2e + Count(j.right), beams |-> tally.beams + Count(soft),
                        total |-> tally.total + 1]
           /\ verdict' = [target |-> item.target, right |-> j.right,
                beam |-> {item.coarse[s + 1] : s \in IF soft /\ second # -1
                                                       THEN {first, second} ELSE {first}}]
  /\ batch' = Tail(batch)
  /\ phase' = IF Len(batch) = 1 THEN "evaluating" ELSE "judging"
  /\ UNCHANGED <<mapping, rows, loaded, train, eval, pairs, epoch, next>>

\* The end of the loader: from training to evaluate, and to the next epoch.
EndPass ==
  /\ phase \in {"training", "evaluating"} /\ batch = <<>> /\ next > Len(Given)
  /\ next' = 1 /\ tally' = NoTally /\ verdict' = NoVerdict
  /\ IF IsTraining
       THEN phase' = "evaluating" /\ UNCHANGED epoch
       ELSE /\ phase' = IF epoch = Epochs THEN "ended" ELSE "training"
            /\ epoch' = IF epoch = Epochs THEN epoch ELSE epoch + 1
  /\ UNCHANGED <<mapping, rows, loaded, train, eval, pairs, batch>>

Done == phase \in {"refused", "broken", "unfit", "ended"} /\ UNCHANGED vars

Next ==
  \/ LoadMapping \/ AdaptRow \/ Split
  \/ OraclePair \/ SoftBeamPair \/ EndPairs
  \/ Read \/ HandOver \/ Judge \/ EndPass \/ Done

Spec == Init /\ [][Next]_vars

-----------------------------------------------------------------------------
TypeOK ==
  /\ phase \in {"start", "refused", "rows", "pairs", "broken", "training", "unfit",
                "evaluating", "judging", "ended"}
  /\ Ontology(mapping) /\ rows \in Seq(Row)
  /\ {loaded, train, eval} \subseteq Seq([text : Text, target : Range(mapping.fine)])
  /\ DOMAIN pairs = {"train", "eval"}
  /\ epoch \in 0..Epochs /\ next \in Nat \ {0} /\ Len(batch) <= BatchSize

\* hierarchical.py:53-117: an ontology that is validated is a partition of the
\* fine keys into categories that are not empty, and the reverse index is the
\* way back; building the pairs can fail only because all_coarse_keys, which is
\* not validated, names something that is no category.
OntologyIsAPartition ==
  phase \notin {"start", "refused"} =>
    /\ \A f \in Range(mapping.fine), c \in Range(mapping.coarse) :
         f \in ChildrenOf(mapping, c) <=> f \in DOMAIN mapping.parent /\ mapping.parent[f] = c
    /\ \A c \in Range(mapping.coarse) : ChildrenOf(mapping, c) # {}
    /\ \A c \in Range(mapping.coarse) : ChildrenOf(mapping, c) \subseteq Range(mapping.fine)
    /\ phase = "broken" => ~(Range(mapping.allCoarse) \subseteq Range(mapping.coarse))

PairIsRight(p, sample) ==
  LET own == ChildrenOf(mapping, mapping.parent[sample.target]) IN
  /\ p.target = sample.target /\ p.target \in own
  /\ IsInjective(p.fine) /\ own \subseteq Range(p.fine)
  /\ Len(p.fine) <= MaxFine \/ Range(p.fine) = own
  /\ \A k \in Range(p.fine) : p.parents[k] = mapping.parent[k]
  /\ Cardinality({p.parents[k] : k \in Range(p.fine)}) <= 2

\* hierarchical_dataset.py:88-176: the fine question of every sample offers all
\* of its answer's cluster and at most one other cluster, cut at the bound; each
\* candidate is noted with the category the ontology gives it.
PairsAreRight ==
  /\ \A i \in DOMAIN pairs.train : PairIsRight(pairs.train[i], train[i])
  /\ \A i \in DOMAIN pairs.eval : PairIsRight(pairs.eval[i], eval[i])

\* With two other options the catch-all ones are neither first nor last.
CatchAllInside(keys) ==
  Cardinality({i \in DOMAIN keys : keys[i] \notin mapping.negative}) >= 2 =>
    keys[1] \notin mapping.negative /\ keys[Len(keys)] \notin mapping.negative

\* hierarchical_dataset.py:199-318, 444-543: in every order both labels point at
\* the two answers, a catch-all option never stands at the edge of a training
\* prompt, and when all_coarse_keys lists the categories the loss counts every
\* fine option for a slot of the coarse question, and no padding.
ItemsAreRight ==
  \A i \in DOMAIN batch :
    LET item == batch[i]
        row == Collate(batch)[i]
    IN  /\ item.fine[row.fineLabel + 1] = item.target
        /\ item.coarse[row.coarseLabel + 1] = mapping.parent[item.target]
        /\ phase = "training" => CatchAllInside(item.coarse) /\ CatchAllInside(item.fine)
        /\ IsInjective(mapping.allCoarse) /\ Range(mapping.allCoarse) = Range(mapping.coarse) =>
             UNION {Summed(row, s) : s \in 0..(NumOptions(row.coarseMask) - 1)} = DOMAIN item.fine

\* hierarchical_trainer.py:369-491: what counts as right end to end has its
\* answer in the categories of the beam, and the end-to-end accuracy is neither
\* above the fine one nor above the coarse one by more than the beams.
RightWithinBeam ==
  /\ verdict.right => \E c \in verdict.beam : verdict.target \in ChildrenOf(mapping, c)
  /\ tally.e2e <= tally.fine /\ tally.fine <= tally.total
  /\ tally.e2e <= tally.coarse + tally.beams

\* hierarchical_loss.py:140: only the candidates of a category other than the
\* right one are suppressed.
OnlyOthersSuppressed ==
  phase = "training" =>
    \A i \in DOMAIN batch : \A k \in Suppressed(Collate(batch)[i]) :
      mapping.parent[batch[i].fine[k]] # mapping.parent[batch[i].target]
=============================================================================

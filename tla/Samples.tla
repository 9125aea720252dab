------------------------------- MODULE Samples -------------------------------
(***************************************************************************)
(* The data of a training process (train/data): converters turn the rows   *)
(* of public corpora and the lines of the synthetic file into samples, the *)
(* builder streams them by split, the injector adds "none of the above"    *)
(* negatives, and the dataset reads the result epoch by epoch, with the    *)
(* options of a choice shuffled, pads it into batches and, with the answers *)
(* of the model, into the counters of the module Metrics.                  *)
(*                                                                         *)
(* Every random draw is a choice.  The order of the training samples is    *)
(* not modelled: the loader draws a new one for every epoch.  Wording,     *)
(* instructions and metadata other than the negative mark are left out.    *)
(***************************************************************************)
EXTENDS Integers, Sequences, FiniteSets, Functions, TLC, Metrics

CONSTANTS
  Hub,            \* corpus -> split of the hub -> rows
  Lines,          \* synthetic_all.jsonl
  IntentLabels,   \* label names of banking77 and of clinc150
  PoolKeys,       \* NEGATIVE_OPTION_POOL
  SuffixedKeys,   \* a key of the pool with a random number
  Setups,         \* values of dataset_names
  MaxNegative,    \* max_negative_options
  MaxPerDataset,  \* max_samples_per_dataset, 0: None
  RatioNum, RatioDen,       \* negative_ratio
  InDomainNum, InDomainDen, \* in_domain_ratio
  TextLength,     \* tokens of a text
  MarkerAt,       \* position of an option marker in a text, 0: none
  Overhead, OptionLength,   \* tokens around the state
  MaxLength, BatchSize, Epochs,
  MaxBias,        \* max_samples of evaluate_position_bias
  Shuffle         \* the orders of places that a generator draws

Strings == STRING

ASSUME SampleConstants ==
  /\ {MaxNegative, MaxPerDataset, RatioNum, InDomainNum, Overhead, OptionLength,
      MaxLength, Epochs, MaxBias} \subseteq Nat
  /\ {BatchSize, InDomainDen, RatioDen} \subseteq Nat \ {0}
  /\ RatioNum < RatioDen /\ InDomainNum <= InDomainDen
  /\ SuffixedKeys # {} /\ SuffixedKeys \cap PoolKeys = {}
  /\ SuffixedKeys \cup PoolKeys \subseteq Strings

VARIABLES
  phase,
  names,      \* dataset_names of this process
  at,         \* the dataset, the row and the count the stream is at
  train, val, \* samples
  negatives,  \* synthetic_samples
  used,       \* samples rng.sample has given
  heldOut,    \* ids whose hash is below 10 in this process
  broken,     \* the line of the synthetic file that ends inside a character, or 0
  epoch, next, batch,
  stats,      \* metrics_tracker
  bias        \* what evaluate_position_bias has measured

vars == <<phase, names, at, train, val, negatives, used, heldOut, broken, epoch, next, batch, stats, bias>>
tracked == <<stats, bias>>

-----------------------------------------------------------------------------
\* The corpora.

LevelKeys(n) == SubSeq(<<"0", "1", "2", "3", "4", "5", "6", "7", "8", "9">>, 1, n)
TopicKeys == <<"world", "sports", "business", "sci_tech">>
MnliNames == <<"entailment", "neutral", "contradiction">>
JnliNames == <<"entailment", "contradiction", "neutral">>
MarcNames == <<"positive", "negative", "neutral">>
MarcKeys == <<"positive", "negative">>
QaKeys == <<"choice0", "choice1", "choice2", "choice3", "choice4">>

\* The converters of UnifiedDatasetBuilder.
Source(corpus, type) == [corpus |-> corpus, type |-> type]
Catalogue ==
  [banking77            |-> Source("banking77", "choice"),
   clinc150             |-> Source("clinc150", "choice"),
   mnli_choice          |-> Source("mnli", "choice"),
   mnli_noul            |-> Source("mnli", "noul"),
   ag_news              |-> Source("ag_news", "choice"),
   sst5                 |-> Source("sst5", "score"),
   jglue_marc_ja        |-> Source("marc_ja", "noul"),
   jglue_marc_ja_choice |-> Source("marc_ja", "choice"),
   jglue_jnli           |-> Source("jnli", "choice"),
   jglue_jnli_noul      |-> Source("jnli", "noul"),
   jglue_jsts           |-> Source("jsts", "score"),
   jglue_jcommonsenseqa |-> Source("jcqa", "choice"),
   synthetic_all        |-> Source("synthetic", "all"),
   synthetic_choice     |-> Source("synthetic", "choice"),
   synthetic_score      |-> Source("synthetic", "score"),
   synthetic_noul       |-> Source("synthetic", "noul")]

\* The options of a question are the keys of a dict: no key comes twice.
IsKeyList(keys) == keys \in Seq(Strings) /\ IsInjective(keys)

Corpora == {Catalogue[name].corpus : name \in DOMAIN Catalogue}
HubRow == [text : DOMAIN TextLength, label : Int, name : Strings, whole : BOOLEAN]
FileLine ==
  [id : Strings, parses : BOOLEAN, type : QuestionTypes, text : DOMAIN TextLength,
   criteria : Seq(Strings), target : Strings]

\* The split each convert_split asks the hub for.
HubSplit(corpus, split) ==
  CASE corpus \in {"banking77", "ag_news"} -> IF split = "validation" THEN "test" ELSE split
    [] corpus = "mnli" -> IF split = "validation" THEN "validation_matched" ELSE split
    [] corpus \in {"marc_ja", "jnli", "jsts", "jcqa"} ->
         IF split = "test" THEN "validation" ELSE split
    [] OTHER -> split

RowsOf(name, split) ==
  LET c == Catalogue[name].corpus IN
  IF c = "synthetic" THEN Lines ELSE Hub[c][HubSplit(c, split)]

ASSUME CorpusAssumption ==
  /\ \A c \in Corpora \ {"synthetic"}, split \in {"train", "validation"} :
       Hub[c][HubSplit(c, split)] \in Seq(HubRow)
  /\ Lines \in Seq(FileLine) /\ \A i \in DOMAIN Lines : IsKeyList(Lines[i].criteria)
  /\ IsKeyList(IntentLabels)
  /\ TextLength \in [DOMAIN TextLength -> Nat] /\ MarkerAt \in [DOMAIN TextLength -> Nat]

Skip == "(skip)"      \* continue
Raises == "(raises)"  \* an exception the converter does not catch

\* names[i] in Python, where a negative index counts from the end.
Indexed(labels, i) ==
  IF i \in 0..(Len(labels) - 1) THEN labels[i + 1]
  ELSE IF i \in (-Len(labels))..(-1) THEN labels[Len(labels) + i + 1] ELSE Raises

\* An index is checked, a name is taken as it is.
Checked(labels, row) ==
  IF row.name # "" THEN (IF row.name \in Range(labels) THEN row.name ELSE Skip)
  ELSE IF row.label \in 0..(Len(labels) - 1) THEN labels[row.label + 1] ELSE Skip

\* round() of tenths: half to even.
Rounded(tenths) ==
  LET q == tenths \div 10
      r == tenths % 10
  IN  IF r > 5 \/ (r = 5 /\ q % 2 = 1) THEN q + 1 ELSE q

ClippedLevel(tenths) ==
  LET v == Rounded(tenths) IN
  LevelKeys(6)[1 + (IF v < 0 THEN 0 ELSE IF v > 5 THEN 5 ELSE v)]

\* The label of a row, by the key or name its converter gives it.
AgNewsLabel(row) == Indexed(TopicKeys, row.label)
MnliLabel(row) == IF row.label = -1 THEN Skip ELSE Indexed(MnliNames, row.label)
JnliLabel(row) == Checked(JnliNames, row)
MarcLabel(row) ==
  LET l == Checked(MarcNames, row) IN IF l = "neutral" THEN Skip ELSE l
QaLabel(row) == IF row.whole THEN Checked(QaKeys, row) ELSE Skip
Sst5Label(row) == IF row.label \in 0..4 THEN LevelKeys(5)[row.label + 1] ELSE Skip
JstsLabel(row) == ClippedLevel(row.label)
ClincLabel(row) == Indexed(IntentLabels, row.label)
BankingLabel(row) ==
  IF row.name # "" THEN row.name
  ELSE IF row.label \in 0..(Len(IntentLabels) - 1)
    THEN IntentLabels[row.label + 1] ELSE ToString(row.label)

LabelOf(corpus, row) ==
  CASE corpus = "ag_news"   -> AgNewsLabel(row)
    [] corpus = "mnli"      -> MnliLabel(row)
    [] corpus = "jnli"      -> JnliLabel(row)
    [] corpus = "marc_ja"   -> MarcLabel(row)
    [] corpus = "jcqa"      -> QaLabel(row)
    [] corpus = "sst5"      -> Sst5Label(row)
    [] corpus = "jsts"      -> JstsLabel(row)
    [] corpus = "clinc150"  -> ClincLabel(row)
    [] corpus = "banking77" -> BankingLabel(row)

\* A binary question leaves the neutral rows out.
TargetOf(name, row) ==
  LET label == LabelOf(Catalogue[name].corpus, row) IN
  IF Catalogue[name].type # "noul" \/ label \in {Skip, Raises} THEN label
  ELSE IF label = "neutral" THEN Skip
  ELSE IF label \in {"entailment", "positive"} THEN "true" ELSE "false"

\* The intents offered: in training the target and a draw of the others.
IntentCandidates(split, target) ==
  IF split = "train" /\ MaxNegative < Len(IntentLabels) - 1
    THEN {<<target>> \o draw :
            draw \in {d \in [1..MaxNegative -> Range(IntentLabels) \ {target}] : IsInjective(d)}}
    ELSE {IF target \in Range(IntentLabels) THEN IntentLabels ELSE Append(IntentLabels, target)}

CriteriaOf(name, split, target) ==
  LET c == Catalogue[name].corpus IN
  CASE Catalogue[name].type = "noul"    -> {<<>>}
    [] c \in {"banking77", "clinc150"}  -> IntentCandidates(split, target)
    [] c = "ag_news"                    -> {TopicKeys}
    [] c = "mnli" /\ Catalogue[name].type = "choice" -> {MnliNames}
    [] c = "jnli" /\ Catalogue[name].type = "choice" -> {JnliNames}
    [] c = "marc_ja" /\ Catalogue[name].type = "choice" -> {MarcKeys}
    [] c = "jcqa"                       -> {QaKeys}
    [] c = "sst5"                       -> {LevelKeys(5)}
    [] c = "jsts"                       -> {LevelKeys(6)}

\* UnifiedSample.__post_init__.
KeepsContract(type, criteria, target) ==
  CASE type = "choice" -> criteria # <<>> => target \in Range(criteria)
    [] type = "noul"   -> target \in {"true", "false", "True", "False"}
    [] type = "score"  -> /\ Len(criteria) \in 2..10
                          /\ criteria = LevelKeys(Len(criteria))
                          /\ target \in Range(criteria)

\* row: where the state comes from; truth: the answer to it in its own sample.
MakeSample(name, row, type, text, criteria, target) ==
  [dataset |-> name, row |-> row, type |-> type, text |-> text, criteria |-> criteria,
   target |-> target, negative |-> "", truth |-> target]

\* Mutation of PassesOver: every split gets every line.
PassesOverUnsplit(name, split, line) ==
  \/ ~line.parses
  \/ ~KeepsContract(line.type, line.criteria, line.target)
  \/ Catalogue[name].type \notin {"all", line.type}

\* convert_split of the synthetic converter passes over a line it can read that does
\* not parse, is of another type or belongs to the other split by the hash of its id.
PassesOver(name, split, line) ==
  \/ ~line.parses
  \/ ~KeepsContract(line.type, line.criteria, line.target)
  \/ Catalogue[name].type \notin {"all", line.type}
  \/ (split = "train") = (line.id \in heldOut)

\* What becomes of row i: its target, Skip or Raises.  A line that cannot be
\* decoded raises where the file is read, outside the try.
Outcome(name, split, i) ==
  LET row == RowsOf(name, split)[i] IN
  IF Catalogue[name].corpus # "synthetic" THEN TargetOf(name, row)
  ELSE IF i = broken THEN Raises
  ELSE IF PassesOver(name, split, row) THEN Skip ELSE row.target

\* The samples a row with a target may give.
Converted(name, split, i) ==
  LET row == RowsOf(name, split)[i]
      c == Catalogue[name].corpus
      target == Outcome(name, split, i)
  IN  IF c = "synthetic"
        THEN {MakeSample(name, <<c, "file", row.id>>, row.type, row.text, row.criteria, target)}
        ELSE {MakeSample(name, <<c, HubSplit(c, split), ToString(i)>>, Catalogue[name].type,
                         row.text, criteria, target) :
                criteria \in CriteriaOf(name, split, target)}

-----------------------------------------------------------------------------
ReadsFile(q) ==
  \E i \in DOMAIN q : q[i] \in DOMAIN Catalogue /\ Catalogue[q[i]].corpus = "synthetic"
NoBias == [seen |-> 0, keyed |-> 0, slotted |-> 0, moved |-> FALSE]
Start == [d |-> 1, r |-> 1, n |-> 0]
NextDataset == [d |-> at.d + 1, r |-> 1, n |-> 0]

\* A process: its configuration and, if it reads the synthetic file, the hashes of
\* its interpreter and where the file breaks.
Init ==
  /\ phase = "train"
  /\ names \in Setups
  /\ at = Start
  /\ train = <<>> /\ val = <<>> /\ negatives = <<>> /\ used = {}
  /\ heldOut \in IF ReadsFile(names) THEN SUBSET {Lines[i].id : i \in DOMAIN Lines} ELSE {{}}
  /\ broken \in IF ReadsFile(names) THEN {0} \cup DOMAIN Lines ELSE {0}
  /\ epoch = 0 /\ next = 1 /\ batch = <<>>
  /\ stats = NoStats /\ bias = NoBias

Streaming == phase \in {"train", "validation"}
Name == names[at.d]
Unregistered == at.d <= Len(names) /\ Name \notin DOMAIN Catalogue
AtRow ==
  /\ at.d <= Len(names) /\ Name \in DOMAIN Catalogue
  /\ at.r <= Len(RowsOf(Name, phase))

\* Lines are decoded ahead: one that cannot be may raise before its turn.
DecodeFails == Catalogue[Name].corpus = "synthetic" /\ at.r < broken

\* stream_samples takes one row of the converter it is at.
StreamRow ==
  /\ Streaming /\ AtRow
  /\ \/ /\ Outcome(Name, phase, at.r) = Raises \/ DecodeFails
        /\ phase' = "failed"
        /\ UNCHANGED <<at, train, val>>
     \/ /\ Outcome(Name, phase, at.r) = Skip
        /\ at' = [at EXCEPT !.r = @ + 1]
        /\ UNCHANGED <<phase, train, val>>
     \/ /\ Outcome(Name, phase, at.r) \notin {Skip, Raises}
        /\ \E s \in Converted(Name, phase, at.r) :
             /\ train' = IF phase = "train" THEN Append(train, s) ELSE train
             /\ val' = IF phase = "train" THEN val ELSE Append(val, s)
        /\ at' = IF at.n + 1 = MaxPerDataset THEN NextDataset
                 ELSE [at EXCEPT !.r = @ + 1, !.n = @ + 1]
        /\ UNCHANGED phase
  /\ UNCHANGED <<names, negatives, used, heldOut, broken, epoch, next, batch, tracked>>

\* Neither the name of the corpus nor its old name can be loaded.
HubFails ==
  /\ Streaming /\ AtRow /\ at.r = 1 /\ Catalogue[Name].corpus # "synthetic"
  /\ phase' = "failed"
  /\ UNCHANGED <<names, at, train, val, negatives, used, heldOut, broken, epoch, next, batch, tracked>>

\* The converter is exhausted, or its name is not registered.
EndDataset ==
  /\ Streaming /\ at.d <= Len(names) /\ ~AtRow
  /\ at' = NextDataset
  /\ UNCHANGED <<phase, names, train, val, negatives, used, heldOut, broken, epoch, next, batch, tracked>>

\* The end of the stream of a split.  An empty training set is refused by the
\* sampler of the loader.
EndStream ==
  /\ Streaming /\ at.d > Len(names)
  /\ phase' = IF phase = "train" THEN "inject" ELSE IF train = <<>> THEN "failed" ELSE "reading"
  /\ at' = Start
  /\ UNCHANGED <<names, train, val, negatives, used, heldOut, broken, epoch, next, batch, tracked>>

-----------------------------------------------------------------------------
\* SyntheticNegativeInjector.inject on the training split.

\* The items at some of the places of a list, in their order.
Picked(q, places) ==
  [n \in 1..Cardinality(places) |->
     q[CHOOSE i \in places : Cardinality(places \cap (1..i)) = n]]

IsChoice(s) == s.type = "choice"
ChoicePlaces(q) == {i \in DOMAIN q : IsChoice(q[i])}
ChoiceSamples == Picked(train, ChoicePlaces(train))
OtherSamples == Picked(train, DOMAIN train \ ChoicePlaces(train))
NumNegatives == (Len(ChoiceSamples) * RatioNum) \div (RatioDen - RatioNum)
NumInDomain == (NumNegatives * InDomainNum) \div InDomainDen
Candidates == {i \in DOMAIN ChoiceSamples : Len(ChoiceSamples[i].criteria) >= 2}

Injecting == phase = "inject" /\ NumNegatives > 0
InDomainLeft == Candidates # {} /\ Len(negatives) < NumInDomain
CrossLeft ==
  Len(negatives) < NumNegatives - (IF Candidates = {} THEN NumInDomain ELSE 0)

\* _sample_negative_option.
NegativeKeys(criteria) ==
  IF PoolKeys \subseteq Range(criteria)
    THEN SuffixedKeys \ Range(criteria) ELSE PoolKeys \ Range(criteria)

Without(criteria, key) == Picked(criteria, {i \in DOMAIN criteria : criteria[i] # key})

\* A sample whose answer is taken out of its options.
InDomainNegative ==
  /\ Injecting /\ InDomainLeft
  /\ \E i \in Candidates :
       /\ Cardinality(Candidates) >= NumInDomain => i \notin used
       /\ used' = used \cup {i}
       /\ LET rest == Without(ChoiceSamples[i].criteria, ChoiceSamples[i].target) IN
          \E key \in NegativeKeys(rest) :
            negatives' = Append(negatives,
              [ChoiceSamples[i] EXCEPT !.criteria = Append(rest, key), !.target = key,
                                 !.negative = "in_domain"])
  /\ UNCHANGED <<phase, names, at, train, val, heldOut, broken, epoch, next, batch, tracked>>

\* The state of one sample with the options of another.  Two samples of one
\* dataset are drawn again while they are the same, but not for ever.
CrossNegative ==
  /\ Injecting /\ ~InDomainLeft /\ CrossLeft
  /\ \E i, j \in DOMAIN ChoiceSamples :
       \E key \in NegativeKeys(ChoiceSamples[j].criteria) :
         negatives' = Append(negatives,
           [ChoiceSamples[i] EXCEPT !.criteria = Append(ChoiceSamples[j].criteria, key), !.target = key,
                              !.negative = "cross"])
  /\ UNCHANGED <<phase, names, at, train, val, used, heldOut, broken, epoch, next, batch, tracked>>

\* Mutation of EndInjection: only the choices come back.
EndInjectionChoices ==
  /\ phase = "inject" /\ ~(NumNegatives > 0 /\ (InDomainLeft \/ CrossLeft))
  /\ train' = IF NumNegatives > 0 THEN ChoiceSamples \o negatives ELSE train
  /\ phase' = "validation"
  /\ negatives' = <<>> /\ used' = {}
  /\ UNCHANGED <<names, at, val, heldOut, broken, epoch, next, batch, tracked>>

EndInjection ==
  /\ phase = "inject" /\ ~(NumNegatives > 0 /\ (InDomainLeft \/ CrossLeft))
  /\ train' = IF NumNegatives > 0 THEN ChoiceSamples \o negatives \o OtherSamples ELSE train
  /\ phase' = "validation"
  /\ negatives' = <<>> /\ used' = {}
  /\ UNCHANGED <<names, at, val, heldOut, broken, epoch, next, batch, tracked>>

-----------------------------------------------------------------------------
\* JevDataset and its collate function.

OptionsOf(s) == IF s.type = "noul" THEN <<"true", "false">> ELSE s.criteria

IsOrder(p, places) == DOMAIN p = places /\ Range(p) = places
Shuffles(keys) ==
  {[i \in DOMAIN keys |-> keys[p[i]]] : p \in {p \in Shuffle : IsOrder(p, DOMAIN keys)}}

\* format_prompt: only a choice that is read for training is shuffled.
Orders(s, isTrain) ==
  IF isTrain /\ s.type = "choice" THEN Shuffles(s.criteria) ELSE {OptionsOf(s)}

FixedLength(keys) == Overhead + OptionLength * Len(keys)
KeptState(s, keys) ==
  LET room == MaxLength - FixedLength(keys) IN
  IF TextLength[s.text] < room THEN TextLength[s.text] ELSE room

\* tokenize_sample raises on a target that is no option, on options that fill
\* the sequence and on a state that brings a marker of its own.
Tokenizes(s) ==
  LET keys == OptionsOf(s) IN
  /\ s.target \in Range(keys)
  /\ FixedLength(keys) < MaxLength
  /\ MarkerAt[s.text] \notin 1..KeptState(s, keys)

\* Mutation of Item: the label is looked up before the shuffle.
ItemEarly(s, keys) ==
  [keys |-> keys,
   label |-> (CHOOSE i \in DOMAIN OptionsOf(s) : OptionsOf(s)[i] = s.target) - 1,
   length |-> FixedLength(keys) + KeptState(s, keys)]

Item(s, keys) ==
  [keys |-> keys, label |-> (CHOOSE i \in DOMAIN keys : keys[i] = s.target) - 1,
   length |-> FixedLength(keys) + KeptState(s, keys)]

IsTraining == epoch % 2 = 1
Reading == IF IsTraining THEN train ELSE val

\* Mutation of Read: one item too many in a batch.
ReadOver ==
  /\ phase = "reading" /\ next <= Len(Reading) /\ Len(batch) <= BatchSize
  /\ LET s == Reading[next] IN
     IF Tokenizes(s)
       THEN /\ \E keys \in Orders(s, IsTraining) : batch' = Append(batch, Item(s, keys))
            /\ next' = next + 1
            /\ UNCHANGED phase
       ELSE phase' = "failed" /\ UNCHANGED <<batch, next>>
  /\ UNCHANGED <<names, at, train, val, negatives, used, heldOut, broken, epoch, tracked>>

\* __getitem__ for the next sample; evaluation and training take turns, and the
\* untrained model is evaluated first.
Read ==
  /\ phase = "reading" /\ next <= Len(Reading) /\ Len(batch) < BatchSize
  /\ LET s == Reading[next] IN
     IF Tokenizes(s)
       THEN /\ \E keys \in Orders(s, IsTraining) : batch' = Append(batch, Item(s, keys))
            /\ next' = next + 1
            /\ UNCHANGED phase
       ELSE phase' = "failed" /\ UNCHANGED <<batch, next>>
  /\ UNCHANGED <<names, at, train, val, negatives, used, heldOut, broken, epoch, tracked>>

\* A bound: the right slot, the first and the last stand for every answer.
Guesses(item) == {item.label, 0, Len(item.keys) - 1}
Answers(item, s) ==
  [type : {s.type}, options : {Len(item.keys)}, guess : Guesses(item), label : {item.label},
   negative : {s.negative # ""}, error : IF s.type = "score" THEN {0, 7} ELSE {0}]
SampleOf(b) == Reading[next - Len(batch) + b - 1]

\* The answers of the model to a batch.
AnswersTo(items) ==
  {q \in [DOMAIN items -> UNION {Answers(items[b], SampleOf(b)) : b \in DOMAIN items}] :
     \A b \in DOMAIN items : q[b] \in Answers(items[b], SampleOf(b))}

\* jev_collate_fn hands the batch over; the last one may be smaller.  The
\* answers are counted, in training and in evaluation.
HandOver ==
  /\ phase = "reading" /\ batch # <<>>
  /\ Len(batch) = BatchSize \/ next > Len(Reading)
  /\ \E answers \in AnswersTo(batch) : stats' = Update(stats, answers)
  /\ batch' = <<>>
  /\ UNCHANGED <<phase, names, at, train, val, negatives, used, heldOut, broken, epoch, next, bias>>

EndOfPass == phase = "reading" /\ batch = <<>> /\ next > Len(Reading)

\* set_epoch, or the end.  The next pass resets the counters.
NextPass ==
  /\ epoch' = epoch + 1
  /\ next' = 1
  /\ phase' = IF epoch' > 2 * Epochs THEN "done" ELSE "reading"
  /\ stats' = NoStats /\ bias' = NoBias

\* Mutation of EndEpoch: an evaluation counts on from the training before it.
EndEpochCounting ==
  /\ EndOfPass
  /\ IF IsTraining \/ val = <<>>
       THEN /\ epoch' = epoch + 1 /\ next' = 1
            /\ phase' = IF epoch' > 2 * Epochs THEN "done" ELSE "reading"
            /\ UNCHANGED <<stats, bias>>
       ELSE phase' = "bias" /\ UNCHANGED <<epoch, next, stats, bias>>
  /\ UNCHANGED <<names, at, train, val, negatives, used, heldOut, broken, batch>>

EndEpoch ==
  /\ EndOfPass
  /\ IF IsTraining \/ val = <<>> THEN NextPass
                                 ELSE phase' = "bias" /\ UNCHANGED <<epoch, next, stats, bias>>
  /\ UNCHANGED <<names, at, train, val, negatives, used, heldOut, broken, batch>>

\* evaluate_position_bias.

HasOptions(s) == IsChoice(s) /\ Len(s.criteria) >= 2
Probed ==
  LET choices == Picked(val, {i \in DOMAIN val : HasOptions(val[i])}) IN
  SubSeq(choices, 1, IF Len(choices) < MaxBias THEN Len(choices) ELSE MaxBias)

Position(keys, key) == CHOOSE i \in DOMAIN keys : keys[i] = key
Apart(a, b) == IF a < b THEN b - a ELSE a - b
Highest(S) == CHOOSE m \in S : \A n \in S : n <= m

\* The largest difference of a key between two orders, given what the model
\* says of the slots of each.
MaxDelta(orig, perm, probsOrig, probsPerm) ==
  Highest({Apart(probsOrig[Position(orig, k)], probsPerm[Position(perm, k)]) : k \in Range(orig)})

\* One sample in its own order and in another, shown to a model that looks at
\* the keys only and to one that looks at the slots only.
MeasureBias ==
  /\ phase = "bias" /\ bias.seen < Len(Probed)
  /\ LET orig == Probed[bias.seen + 1].criteria
         ByKey(keys) == [i \in DOMAIN keys |-> Position(orig, keys[i])]
         Slots == [i \in DOMAIN orig |-> i]
     IN  \E perm \in Shuffles(orig) :
           bias' = [seen |-> bias.seen + 1,
                    keyed |-> Highest({bias.keyed, MaxDelta(orig, perm, ByKey(orig), ByKey(perm))}),
                    slotted |-> Highest({bias.slotted, MaxDelta(orig, perm, Slots, Slots)}),
                    moved |-> bias.moved \/ perm # orig]
  /\ UNCHANGED <<phase, names, at, train, val, negatives, used, heldOut, broken, epoch, next, batch, stats>>

EndBias ==
  /\ phase = "bias" /\ bias.seen = Len(Probed)
  /\ NextPass
  /\ UNCHANGED <<names, at, train, val, negatives, used, heldOut, broken, batch>>

Done == phase \in {"done", "failed"} /\ UNCHANGED vars

Next ==
  \/ StreamRow \/ HubFails \/ EndDataset \/ EndStream
  \/ InDomainNegative \/ CrossNegative \/ EndInjection
  \/ Read \/ HandOver \/ EndEpoch \/ MeasureBias \/ EndBias \/ Done

Spec == Init /\ [][Next]_vars

-----------------------------------------------------------------------------
IsSample(s) ==
  /\ DOMAIN s = {"dataset", "row", "type", "text", "criteria", "target", "negative", "truth"}
  /\ KeepsContract(s.type, s.criteria, s.target)
  /\ IsInjective(s.criteria)
  /\ s.text \in DOMAIN TextLength
  /\ s.negative \in {"", "in_domain", "cross"}

TypeOK ==
  /\ phase \in {"train", "inject", "validation", "reading", "bias", "done", "failed"}
  /\ names \in Setups
  /\ at \in [d : Nat, r : Nat, n : Nat]
  /\ \A q \in {train, val, negatives} : \A i \in DOMAIN q : IsSample(q[i])
  /\ used \subseteq DOMAIN ChoiceSamples
  /\ broken \in 0..Len(Lines)
  /\ epoch \in 0..(2 * Epochs + 1)
  /\ next \in Nat \ {0}
  /\ Len(batch) <= BatchSize

Ready == phase \in {"reading", "bias", "done"}

\* builders.py, converters: whichever datasets share a corpus or the synthetic
\* file, and whatever split the hub has instead, no row is both trained on (as
\* it is or inside a negative) and used to evaluate.
HeldOut ==
  Ready => {train[i].row : i \in DOMAIN train} \cap {val[i].row : i \in DOMAIN val} = {}

Count(q, s) == Cardinality({i \in DOMAIN q : q[i] = s})

Unmarked(s) == s.negative = ""

\* negative_sampler.py:183-255: the injection loses and repeats no sample, adds
\* negatives to choices only, and no more of them than negative_ratio of the
\* choices that come out.
InjectionIsExact ==
  [][phase = "inject" /\ phase' # "inject" =>
       LET added == {i \in DOMAIN train' : ~Unmarked(train'[i])}
           kept == DOMAIN train' \ added
       IN  /\ Cardinality(kept) = Len(train)
           /\ \A i \in DOMAIN train :
                Cardinality({j \in kept : train'[j] = train[i]}) = Count(train, train[i])
           /\ Cardinality(added) * RatioDen <= Cardinality(ChoicePlaces(train')) * RatioNum
           /\ added \subseteq ChoicePlaces(train')]_vars

\* formatter.py:67-105,175: the label of an item names the answer of its sample
\* wherever the shuffle put it; the levels of a score and the two answers of a
\* noul stay in their order.
LabelFollowsTarget ==
  \A b \in DOMAIN batch :
    LET s == Reading[next - Len(batch) + b - 1]
        item == batch[b]
    IN  /\ item.keys[item.label + 1] = s.target
        /\ Range(item.keys) = Range(OptionsOf(s)) /\ Len(item.keys) = Len(OptionsOf(s))
        /\ s.type # "choice" \/ ~IsTraining => item.keys = OptionsOf(s)
        /\ item.length <= MaxLength

\* metrics.py:62-175, trainer.py:559-627: the counters are of this pass alone,
\* agree with each other by type and by size, and the validation has no negatives.
CountersAddUp ==
  /\ phase = "reading" => stats.total = next - 1 - Len(batch)
  /\ \A field \in {"correct", "total"} :
       /\ ByType(stats, field) = stats[field]
       /\ BySize(stats, field) = stats[field]
  /\ stats.tp + stats.fp + stats.fn + stats.tn = stats.total
  /\ Ready /\ ~IsTraining => stats.tp + stats.fn = 0

\* metrics.py:176-241: a composite metric of 1.0 hides no more wrong answers than
\* its rounding can: 3 of 20000 choices and 1 of 4000 nouls.
CompositeTells ==
  /\ Composites(stats) # {} /\ Composites(stats) \subseteq 0..10000
  /\ stats.total > 0 /\ 10000 \in Composites(stats) =>
       LET wrong(t) == stats.byType[t].total - stats.byType[t].correct IN
       /\ 20000 * wrong("choice") <= 3 * stats.byType["choice"].total
       /\ 4000 * wrong("noul") <= stats.byType["noul"].total

\* trainer.py:629-739: options that only change places make no difference to a
\* model that looks at the keys, and always one to a model that looks at places.
BiasIsOfOrder == bias.keyed = 0 /\ (bias.slotted > 0 <=> bias.moved)

EvaluationIsSound == CountersAddUp /\ CompositeTells /\ BiasIsOfOrder
=============================================================================

--------------------------- MODULE SystemOneProofs ---------------------------
(***************************************************************************)
(* Proofs about the gating and about SystemOne, for any requests, readings *)
(* and thresholds.                                                         *)
(*                                                                         *)
(* The rules come from four places that do not know each other.  What they *)
(* have in common is an invariant of every answer (Justified), kept by the *)
(* step that gates it and by the demotion after it; that every question is *)
(* answered needs to know who owes which answer in each phase (Owed).      *)
(***************************************************************************)
EXTENDS SystemOne, SequenceTheorems, FiniteSetTheorems, WellFoundedInduction, TLAPS

-----------------------------------------------------------------------------
(* The rules of the gating.                                                *)

USE UnitAssumption, EpsAssumption, NoEnergyAssumption, LimitsAssumption

(* Out of distribution wins over any confidence, and an answer that passes *)
(* is confident enough and far enough ahead (gating.rs:488-540).           *)
THEOREM OodShortCircuits ==
  ASSUME NEW type, NEW r \in Reading, NEW c \in GatingConfig
  PROVE  /\ IsOod(type, r, c) => RouteFor(type, r, c) = "fallback"
         /\ RouteFor(type, r, c) = "auto" =>
              ~IsOod(type, r, c) /\ Reaches(r.conf, c.high) /\ Reaches(r.margin, c.margin)
BY DEF RouteFor

(* Of two answers that differ in their confidence only, the more confident *)
(* one is not gated more strictly, whatever a valid configuration says: no *)
(* threshold, tolerance or energy rule makes confidence harmful            *)
(* (gating.rs:437-540, validated by 161-233).                              *)
THEOREM ConfidenceNeverHarms ==
  ASSUME NEW type, NEW r \in Reading, NEW s \in Reading,
         NEW c \in GatingConfig, ValidConfig(c),
         s.margin = r.margin, s.energy = r.energy, r.conf <= s.conf
  PROVE  Severity[RouteFor(type, s, c)] <= Severity[RouteFor(type, r, c)]
<1>1. /\ r.conf \in Int /\ s.conf \in Int /\ s.margin = r.margin /\ s.energy = r.energy
      /\ r.margin \in Int /\ r.energy \in Int
  BY DEF Reading, Share
<1>2. /\ c.high \in Int /\ c.low \in Int /\ c.margin \in Int /\ c.low <= c.high
      /\ c.hybrid \in SUBSET Hybrid
  BY DEF GatingConfig, ValidConfig
<1>3. IsOod(type, s, c) => IsOod(type, r, c)
  <2>1. \A h \in c.hybrid : s.conf < h.conf => r.conf < h.conf
    BY <1>1, <1>2 DEF Hybrid
  <2>2. QED
    BY <1>1, <2>1 DEF IsOod
<1>4. /\ Reaches(r.conf, c.high) => Reaches(s.conf, c.high)
      /\ Reaches(r.conf, c.low) => Reaches(s.conf, c.low)
      /\ Reaches(r.conf, c.high) => Reaches(r.conf, c.low)
      /\ Reaches(r.margin, c.margin) <=> Reaches(s.margin, c.margin)
  BY <1>1, <1>2 DEF Reaches
<1>5. Severity["auto"] = 0 /\ Severity["confirm"] = 1 /\ Severity["fallback"] = 2
  BY DEF Severity
<1>6. QED
  BY <1>3, <1>4, <1>5 DEF RouteFor

(* The demotion of a bimodal score never makes an answer more automatic or *)
(* more confident, and leaves nothing to be executed unseen                *)
(* (bimodal.rs:199-204).                                                   *)
LEMMA DemotionDemotes ==
  ASSUME NEW g \in Metadata
  PROVE  /\ Demote(g) \in Metadata
         /\ Demote(g).route # "auto"
         /\ Demote(g).conf <= g.conf
         /\ Severity[g.route] <= Severity[Demote(g).route]
<1>1. g.conf \in Int /\ g.conf \in Share /\ BimodalCeiling \in Share /\ g.route \in Routes
  BY DEF Metadata, Share
<1>2. /\ Demote(g).route = IF g.route = "auto" THEN "confirm" ELSE g.route
      /\ Demote(g).conf = IF g.conf < BimodalCeiling THEN g.conf ELSE BimodalCeiling
  BY DEF Demote, Capped
<1>3. Demote(g) \in Metadata
  BY <1>1, <1>2 DEF Demote, Capped, Metadata, Routes, Share
<1>4. QED
  BY <1>1, <1>2, <1>3 DEF Severity, Routes, Share

-----------------------------------------------------------------------------
(* Helpers on numbers and labels.                                          *)

(* A non-empty set of levels has a greatest one. *)
LEMMA MaxOfLevels ==
  ASSUME NEW n \in Nat, NEW S, S \subseteq 1..n, S # {}
  PROVE  Max(S) \in S
<1> DEFINE R == OpToRel(<, Nat)
           T == {n - x : x \in S}
<1>1. IsWellFoundedOn(R, Nat)
  BY NatLessThanWellFounded
<1>2. T \subseteq Nat /\ T # {}
  <2>1. \A x \in S : x \in 1..n
    OBVIOUS
  <2>2. \A x \in S : n - x \in Nat
    BY <2>1
  <2>3. QED
    BY <2>2
<1>3. PICK t \in T : \A u \in T : ~(<<u, t>> \in R)
  <2> HIDE DEF R, T
  <2>1. QED
    BY <1>1, <1>2, WFMin
<1>4. \A u \in T : u \in Nat /\ t \in Nat /\ ~(u < t)
  <2>1. \A u, v \in Nat : u < v => <<u, v>> \in R
    BY DEF OpToRel
  <2>2. QED
    BY <1>2, <1>3, <2>1
<1>5. PICK x \in S : t = n - x
  OBVIOUS
<1>6. \A y \in S : x >= y
  <2> SUFFICES ASSUME NEW y \in S PROVE x >= y
    OBVIOUS
  <2>1. n - y \in T
    OBVIOUS
  <2>2. ~(n - y < n - x)
    BY <1>4, <1>5, <2>1
  <2>3. QED
    BY <2>2
<1>7. QED
  BY <1>6 DEF Max

(* The inverse of a function leads back into its domain. *)
LEMMA InverseInDomain ==
  ASSUME NEW f, NEW S, NEW T, f \in [S -> T]
  PROVE  /\ DOMAIN AntiFunction(f) \subseteq T
         /\ \A t \in DOMAIN AntiFunction(f) : AntiFunction(f)[t] \in S
BY DEF AntiFunction, Inverse, Range

-----------------------------------------------------------------------------
(* What each way of making an answer makes.                                *)

(* The fields of an answer. *)
LEMMA AnswerFields ==
  ASSUME NEW c, NEW p, NEW r, NEW g
  PROVE  /\ Answer(c, p, r, g).choice = c
         /\ Answer(c, p, r, g).probs = p
         /\ Answer(c, p, r, g).reading = r
         /\ Answer(c, p, r, g).gating = g
BY DEF Answer

(* Guardrails keep the type of a question and the number of its levels. *)
LEMMA NormalizedIsQuestion ==
  ASSUME NEW q \in Question
  PROVE  /\ Normalized(q) \in Question
         /\ Normalized(q).type = q.type
         /\ Len(Normalized(q).levels) = Len(q.levels)
<1>1. q.keys \subseteq Label /\ q.levels \in Seq(Label) /\ q.type \in {"choice", "score", "noul"}
  BY DEF Question
<1>2. Len(q.levels) \in Nat /\ DOMAIN q.levels = 1..Len(q.levels) /\ q.levels \in [1..Len(q.levels) -> Label]
  BY <1>1, LenProperties
<1>3. {CleanChoice[k] : k \in q.keys} \subseteq Label
  BY <1>1, LabelAssumption
<1> DEFINE l == [n \in 1..Len(q.levels) |-> CleanScore[q.levels[n]]]
<1>4. l \in Seq(Label) /\ Len(l) = Len(q.levels)
  <2>1. l \in [1..Len(q.levels) -> Label]
    BY <1>2, LabelAssumption
  <2>2. l \in Seq(Label)
    BY <1>2, <2>1, SeqDef
  <2>3. DOMAIN l = 1..Len(l) /\ Len(l) \in Nat
    BY <2>2, LenProperties
  <2>4. QED
    BY <1>2, <2>2, <2>3
<1>5. Normalized(q) = [type |-> q.type, keys |-> {CleanChoice[k] : k \in q.keys}, levels |-> l]
  BY <1>2 DEF Normalized
<1>6. QED
  BY <1>1, <1>3, <1>4, <1>5 DEF Question

(* The distribution of a score maps some labels to its levels. *)
LEMMA DistributionOfLevels ==
  ASSUME NEW levels \in Seq(Label), Len(levels) <= MaxLevels
  PROVE  /\ DOMAIN Distribution(levels) \subseteq Label
         /\ Distribution(levels) \in [DOMAIN Distribution(levels) -> 0..MaxLevels]
<1>1. /\ Len(levels) \in Nat /\ MaxLevels \in Nat
      /\ levels \in [1..Len(levels) -> Label] /\ DOMAIN levels = 1..Len(levels)
  BY LenProperties, ServerAssumption
<1>2. 1..Len(levels) \subseteq 0..MaxLevels /\ 1..Len(levels) \subseteq 1..MaxLevels
  BY <1>1
<1> DEFINE numbered == [n \in 1..Len(levels) |-> IndexLabel[n]]
<1>3. numbered \in [1..Len(levels) -> Label]
  BY <1>2, LabelAssumption
<1>4. ASSUME NEW f \in [1..Len(levels) -> Label]
      PROVE  /\ DOMAIN AntiFunction(f) \subseteq Label
             /\ AntiFunction(f) \in [DOMAIN AntiFunction(f) -> 0..MaxLevels]
  <2>1. /\ DOMAIN AntiFunction(f) \subseteq Label
        /\ \A t \in DOMAIN AntiFunction(f) : AntiFunction(f)[t] \in 0..MaxLevels
    BY <1>2, InverseInDomain
  <2>2. AntiFunction(f) = [t \in DOMAIN AntiFunction(f) |-> AntiFunction(f)[t]]
    BY DEF AntiFunction, Inverse
  <2>3. QED
    BY <2>1, <2>2
<1>5. Distribution(levels) = AntiFunction(levels) \/ Distribution(levels) = AntiFunction(numbered)
  BY <1>1 DEF Distribution
<1>6. QED
  BY <1>1, <1>3, <1>4, <1>5

(* The engine answers in the terms of the question, and gates nothing. *)
LEMMA EngineAnswersFit ==
  ASSUME NEW q \in Question, q.type = "score" => Len(q.levels) <= MaxLevels,
         NEW a \in EngineAnswers(q)
  PROVE  /\ IsAnswer(a)
         /\ a.gating = NoGating
         /\ a.choice # NoLabel <=> q.type = "choice"
<1>1. q.keys \subseteq Label /\ q.levels \in Seq(Label) /\ q.type \in {"choice", "score", "noul"}
  BY DEF Question
<1>2. MaxLevels \in Nat \ {0} /\ NoLabel \notin Label
  BY ServerAssumption, LabelAssumption
<1>3. CASE q.type = "choice"
  <2>1. PICK k \in q.keys, r \in Readings : a = Answer(k, [x \in q.keys |-> Evaluated], r, NoGating)
    BY <1>3 DEF EngineAnswers
  <2>2. [x \in q.keys |-> Evaluated] \in [q.keys -> 0..MaxLevels]
    BY <1>2 DEF Evaluated
  <2>3. DOMAIN [x \in q.keys |-> Evaluated] = q.keys
    OBVIOUS
  <2>4. QED
    BY <1>1, <1>2, <1>3, <2>1, <2>2, <2>3, AnswerFields, ReadingsAssumption DEF IsAnswer
<1>4. CASE q.type = "score"
  <2>1. PICK r \in Readings : a = Answer(NoLabel, Distribution(q.levels), r, NoGating)
    BY <1>4 DEF EngineAnswers
  <2>2. QED
    BY <1>1, <1>2, <1>4, <2>1, DistributionOfLevels, AnswerFields, ReadingsAssumption DEF IsAnswer
<1>5. CASE q.type = "noul"
  <2>1. PICK r \in Readings : a = Answer(NoLabel, <<>>, r, NoGating)
    BY <1>5 DEF EngineAnswers
  <2>2. DOMAIN <<>> = {} /\ <<>> \in [{} -> 0..MaxLevels]
    OBVIOUS
  <2>3. a.choice = NoLabel /\ a.probs = <<>> /\ a.reading = r /\ a.gating = NoGating
    BY <2>1, AnswerFields
  <2>4. DOMAIN a.probs \subseteq Label /\ a.probs \in [DOMAIN a.probs -> 0..MaxLevels]
    BY <2>2, <2>3
  <2>5. QED
    BY <1>5, <2>3, <2>4, ReadingsAssumption DEF IsAnswer
<1>6. QED
  BY <1>1, <1>3, <1>4, <1>5

(* A reading that is gated becomes metadata. *)
LEMMA MetadataOfGating ==
  ASSUME NEW r \in Reading, NEW c, NEW type
  PROVE  /\ Evaluate(type, r, c) \in Metadata
         /\ RouterMetadata(r, c) \in Metadata
         /\ EarlyExitMetadata(r) \in Metadata
<1>1. r.conf \in Share
  BY DEF Reading
<1>2. /\ RouteFor(type, r, c) \in Routes
      /\ RouterRoute(r, c) \in Routes
      /\ IsOod(type, r, c) \in BOOLEAN
  BY DEF RouteFor, RouterRoute, Routes, IsOod
<1>3. QED
  BY <1>1, <1>2 DEF Evaluate, RouterMetadata, EarlyExitMetadata, Metadata, Routes

(* The configuration of a request is one. *)
LEMMA ConfigIsConfig ==
  ASSUME request \in Request
  PROVE  Config \in GatingConfig
BY RequestAssumption, ServerAssumption DEF Config

(* The router answers with a candidate, gates what it answers and lets     *)
(* only those pass that the gating of the engine would find confident.     *)
LEMMA RouterAnswersFit ==
  ASSUME request \in Request, FineKeys # {}, NEW a \in RouterAnswers
  PROVE  /\ IsAnswer(a)
         /\ a.gating \in Metadata
         /\ a.choice # NoLabel
         /\ a.gating.route = "auto" =>
              Reaches(a.reading.conf, Config.high) /\ Reaches(a.reading.margin, Config.margin)
<1> DEFINE probs == [k \in FineKeys |-> Evaluated]
<1>1. FineKeys \subseteq Label /\ FirstFineKey \in FineKeys /\ NoLabel \notin Label
  BY LabelAssumption
<1>2. DOMAIN probs = FineKeys /\ probs \in [FineKeys -> 0..MaxLevels]
  BY ServerAssumption DEF Evaluated
<1>3. \/ \E r \in Readings : a = Answer(FirstFineKey, probs, r, EarlyExitMetadata(r))
      \/ \E k \in FineKeys, r \in Readings : a = Answer(k, probs, r, RouterMetadata(r, Config))
  BY DEF RouterAnswers
<1> HIDE DEF probs
<1>4. CASE \E r \in Readings : a = Answer(FirstFineKey, probs, r, EarlyExitMetadata(r))
  <2>1. PICK r \in Readings : a = Answer(FirstFineKey, probs, r, EarlyExitMetadata(r))
    BY <1>4
  <2>2. a.choice = FirstFineKey /\ a.probs = probs /\ a.reading = r /\ a.gating = EarlyExitMetadata(r)
    BY <2>1, AnswerFields
  <2>3. r \in Reading /\ EarlyExitMetadata(r) \in Metadata /\ EarlyExitMetadata(r).route = "confirm"
    BY ReadingsAssumption, MetadataOfGating DEF EarlyExitMetadata
  <2>4. QED
    BY <1>1, <1>2, <2>2, <2>3 DEF IsAnswer
<1>5. CASE \E k \in FineKeys, r \in Readings : a = Answer(k, probs, r, RouterMetadata(r, Config))
  <2>1. PICK k \in FineKeys, r \in Readings : a = Answer(k, probs, r, RouterMetadata(r, Config))
    BY <1>5
  <2>2. a.choice = k /\ a.probs = probs /\ a.reading = r /\ a.gating = RouterMetadata(r, Config)
    BY <2>1, AnswerFields
  <2>3. r \in Reading /\ RouterMetadata(r, Config) \in Metadata
    BY ReadingsAssumption, MetadataOfGating
  <2>4. RouterMetadata(r, Config).route = "auto" => r.conf >= Config.high /\ r.margin >= Config.margin
    BY DEF RouterMetadata, RouterRoute
  <2>5. r.conf \in Int /\ r.margin \in Int /\ Config.high \in Int /\ Config.margin \in Int
    BY <2>3, ConfigIsConfig DEF Reading, Share, GatingConfig
  <2>6. RouterMetadata(r, Config).route = "auto" =>
          Reaches(r.conf, Config.high) /\ Reaches(r.margin, Config.margin)
    BY <2>4, <2>5 DEF Reaches
  <2>7. QED
    BY <1>1, <1>2, <2>2, <2>3, <2>6 DEF IsAnswer
<1>6. QED
  BY <1>3, <1>4, <1>5

(* An answer that may be executed unseen is confident and far enough ahead, *)
(* and in distribution if the engine gave it.                               *)
Justified(i, a) ==
  a.gating # NoGating /\ a.gating.route = "auto" =>
    /\ Reaches(a.reading.conf, Config.high)
    /\ Reaches(a.reading.margin, Config.margin)
    /\ i \in DOMAIN processed => ~IsOod(request.qs[i].type, a.reading, Config)

InItsTerms(i, a) == a.choice # NoLabel <=> request.qs[i].type = "choice"

(* The gating justifies what it lets pass. *)
LEMMA GatedFits ==
  ASSUME request \in Request, NEW i, NEW a, IsAnswer(a), a.gating = NoGating,
         questions[i].type = request.qs[i].type, InItsTerms(i, a)
  PROVE  /\ IsAnswer(Gated(i, a))
         /\ Justified(i, Gated(i, a))
         /\ InItsTerms(i, Gated(i, a))
         /\ Config.enabled => Gated(i, a).gating # NoGating
<1> DEFINE g == Evaluate(questions[i].type, a.reading, Config)
<1>1. a.reading \in Reading /\ Config \in GatingConfig /\ NoGating \notin Metadata
  BY ConfigIsConfig, ServerAssumption DEF IsAnswer
<1>2. g \in Metadata
  BY <1>1, MetadataOfGating
<1>3. g.route = "auto" =>
        /\ Reaches(a.reading.conf, Config.high)
        /\ Reaches(a.reading.margin, Config.margin)
        /\ ~IsOod(request.qs[i].type, a.reading, Config)
  BY <1>1, OodShortCircuits DEF Evaluate
<1>4. CASE Config.enabled
  <2> DEFINE b == Gated(i, a)
  <2>1. b = Answer(a.choice, a.probs, a.reading, g)
    BY <1>4 DEF Gated, WithGating
  <2>2. b.choice = a.choice /\ b.probs = a.probs /\ b.reading = a.reading /\ b.gating = g
    BY <2>1, AnswerFields
  <2> HIDE DEF b, g
  <2>3. IsAnswer(b) /\ Justified(i, b) /\ InItsTerms(i, b) /\ b.gating # NoGating
    BY <1>1, <1>2, <1>3, <2>2 DEF IsAnswer, Justified, InItsTerms
  <2>4. QED
    BY <2>3 DEF b
<1>5. CASE ~Config.enabled
  BY <1>5 DEF Gated, Justified
<1>6. QED
  BY <1>4, <1>5

(* Widening changes the distribution only. *)
LEMMA WidenedFits ==
  ASSUME NEW a, IsAnswer(a), NEW keys \in SUBSET Label
  PROVE  /\ IsAnswer(Widened(a, keys))
         /\ Widened(a, keys).gating = a.gating
         /\ Widened(a, keys).reading = a.reading
         /\ Widened(a, keys).choice = a.choice
<1> DEFINE probs == [k \in keys |-> IF k \in DOMAIN a.probs THEN a.probs[k] ELSE Excluded]
<1>1. DOMAIN probs = keys /\ probs \in [keys -> 0..MaxLevels]
  BY ServerAssumption DEF IsAnswer, Excluded
<1>2. Widened(a, keys) = Answer(a.choice, probs, a.reading, a.gating)
  BY DEF Widened, WithProbs
<1> HIDE DEF probs
<1>3. QED
  BY <1>1, <1>2, AnswerFields DEF IsAnswer

(* What makes an answer at most as automatic and confident as another one. *)
NotMore(b, a) ==
  a.gating # NoGating =>
    /\ b.gating # NoGating
    /\ Severity[a.gating.route] <= Severity[b.gating.route]
    /\ b.gating.conf <= a.gating.conf

(* The guardrail demotes what is bimodal and keeps everything else. *)
LEMMA VerifiedFits ==
  ASSUME NEW i, NEW a, IsAnswer(a), Justified(i, a), InItsTerms(i, a), NEW q
  PROVE  /\ IsAnswer(Verified(q, a))
         /\ Justified(i, Verified(q, a))
         /\ InItsTerms(i, Verified(q, a))
         /\ NotMore(Verified(q, a), a)
         /\ Verified(q, a).gating # NoGating /\ Verified(q, a).gating.route = "auto"
              => ~IsBimodal(q, Verified(q, a))
<1>1. a.gating \in Metadata \cup {NoGating} /\ NoGating \notin Metadata
  BY ServerAssumption DEF IsAnswer
<1>2. CASE IsBimodal(q, a) /\ a.gating # NoGating
  <2> DEFINE b == Verified(q, a)
  <2>1. b = Answer(a.choice, a.probs, a.reading, Demote(a.gating))
    BY <1>2 DEF Verified, WithGating
  <2>2. b.choice = a.choice /\ b.probs = a.probs /\ b.reading = a.reading /\ b.gating = Demote(a.gating)
    BY <2>1, AnswerFields
  <2> HIDE DEF b
  <2>3. /\ Demote(a.gating) \in Metadata
        /\ Demote(a.gating).route # "auto"
        /\ Demote(a.gating).conf <= a.gating.conf
        /\ Severity[a.gating.route] <= Severity[Demote(a.gating).route]
    BY <1>1, <1>2, DemotionDemotes
  <2>4. IsAnswer(b) /\ Justified(i, b) /\ InItsTerms(i, b) /\ NotMore(b, a) /\ b.gating.route # "auto"
    BY <1>1, <2>2, <2>3 DEF IsAnswer, Justified, InItsTerms, NotMore
  <2>5. QED
    BY <2>4 DEF b
<1>3. CASE ~(IsBimodal(q, a) /\ a.gating # NoGating)
  <2>1. Verified(q, a) = a
    BY <1>3 DEF Verified
  <2>2. a.gating # NoGating => a.gating.conf \in Int /\ Severity[a.gating.route] \in Int
    BY <1>1 DEF Metadata, Share, Severity, Routes
  <2>3. QED
    BY <1>3, <2>1, <2>2 DEF NotMore
<1>4. QED
  BY <1>2, <1>3

(* Restoring the labels of the client changes the distribution only. *)
LEMMA RestoredFits ==
  ASSUME NEW a, IsAnswer(a), NEW q \in Question, q.type = "score" => Len(q.levels) <= MaxLevels
  PROVE  /\ IsAnswer(Restored(q, a))
         /\ Restored(q, a).gating = a.gating
         /\ Restored(q, a).reading = a.reading
         /\ Restored(q, a).choice = a.choice
<1> DEFINE Of(l) == {n \in DOMAIN q.levels : q.levels[n] = l}
           probs == [l \in Range(q.levels) |-> Max(Of(l))]
<1>1. CASE q.type = "score" /\ Cardinality(DOMAIN a.probs) = Len(q.levels)
  <2>1. /\ Len(q.levels) \in Nat /\ DOMAIN q.levels = 1..Len(q.levels)
        /\ q.levels \in [1..Len(q.levels) -> Label]
        /\ MaxLevels \in Nat /\ Len(q.levels) <= MaxLevels
    BY <1>1, LenProperties, ServerAssumption DEF Question
  <2>2. Range(q.levels) \subseteq Label
    BY <2>1 DEF Range
  <2>3. \A l \in Range(q.levels) : Max(Of(l)) \in 0..MaxLevels
    <3> SUFFICES ASSUME NEW l \in Range(q.levels) PROVE Max(Of(l)) \in 0..MaxLevels
      OBVIOUS
    <3>1. Of(l) \subseteq 1..Len(q.levels) /\ Of(l) # {}
      BY <2>1 DEF Range
    <3> HIDE DEF Of
    <3>2. Max(Of(l)) \in 1..Len(q.levels)
      BY <2>1, <3>1, MaxOfLevels
    <3>3. QED
      BY <2>1, <3>2
  <2>4. DOMAIN probs = Range(q.levels) /\ probs \in [Range(q.levels) -> 0..MaxLevels]
    BY <2>3
  <2>5. Restored(q, a) = Answer(a.choice, probs, a.reading, a.gating)
    BY <1>1 DEF Restored, WithProbs
  <2> HIDE DEF probs
  <2>6. QED
    BY <2>2, <2>4, <2>5, AnswerFields DEF IsAnswer
<1>2. CASE ~(q.type = "score" /\ Cardinality(DOMAIN a.probs) = Len(q.levels))
  BY <1>2 DEF Restored
<1>3. QED
  BY <1>1, <1>2

-----------------------------------------------------------------------------
(* The inductive invariant.                                                *)

\* How far a request has come; a reply of 200 keeps what was reached.
Handled == phase \in {"routing", "running", "post", "summary"} \/ status = 200
Batched == phase \in {"running", "post", "summary"} \/ status = 200
Gathered == phase \in {"post", "summary"} \/ status = 200
Checked == phase = "summary" \/ status = 200

Prepared ==
  /\ phase = "received" => questions = <<>> /\ processed = <<>> /\ answers = <<>>
  /\ Handled => /\ request.qs # <<>>
                /\ \A i \in Place : ValidQuestion(request.qs[i])
                /\ questions = [i \in Place |-> Normalized(request.qs[i])]
  /\ \A i \in DOMAIN processed : processed[i].levels = questions[i].levels

\* The router owes the answers of some questions and the batch the others.
Owed ==
  /\ phase = "routing" => processed = <<>> /\ DOMAIN answers \subseteq Hierarchical
  /\ Batched => /\ DOMAIN processed = DOMAIN questions \ Hierarchical
                /\ Hierarchical \subseteq DOMAIN answers
  /\ Gathered => DOMAIN answers = DOMAIN questions

Sound == \A i \in DOMAIN answers : Justified(i, answers[i]) /\ InItsTerms(i, answers[i])

\* Screened questions are gated last.
Gates ==
  \A i \in DOMAIN answers :
    /\ Config.enabled /\ (Gathered \/ i \notin Screened) => answers[i].gating # NoGating
    /\ phase = "running" /\ i \in Screened => answers[i].gating = NoGating
    /\ Checked /\ answers[i].gating # NoGating /\ answers[i].gating.route = "auto"
         => ~IsBimodal(request.qs[i], answers[i])

IInv == TypeOK /\ Prepared /\ Owed /\ Sound /\ Gates

(* What depends on the request does not change. *)
LEMMA RequestStays ==
  ASSUME request' = request
  PROVE  Place' = Place /\ Config' = Config
BY DEF Place, Config

(* What depends on the questions does not change with the answers. *)
LEMMA QuestionsStay ==
  ASSUME request' = request, questions' = questions
  PROVE  /\ Hierarchical' = Hierarchical
         /\ processed' = processed => Screened' = Screened
<1>1. Hierarchical' = Hierarchical
  BY DEF Hierarchical, IsHierarchical
<1>2. processed' = processed => Screened' = Screened
  BY DEF Screened, IsScreened
<1>3. QED
  BY <1>1, <1>2

(* A prepared question has the type and the levels the client sent. *)
LEMMA QuestionsFit ==
  ASSUME TypeOK, Prepared, Handled
  PROVE  /\ DOMAIN questions = Place
         /\ \A i \in Place :
              /\ request.qs[i] \in Question
              /\ questions[i] \in Question
              /\ questions[i].type = request.qs[i].type
              /\ questions[i].type = "score" =>
                   Len(questions[i].levels) <= MaxLevels /\ Len(request.qs[i].levels) <= MaxLevels
<1>1. request.qs \in Seq(Question)
  BY RequestAssumption DEF TypeOK
<1>2. \A i \in Place : request.qs[i] \in Question
  BY <1>1, ElementOfSeq DEF Place
<1>3. \A i \in Place : questions[i] = Normalized(request.qs[i]) /\ ValidQuestion(request.qs[i])
  BY DEF Prepared
<1>4. ASSUME NEW i \in Place
      PROVE  /\ questions[i] \in Question
             /\ questions[i].type = request.qs[i].type
             /\ Len(questions[i].levels) = Len(request.qs[i].levels)
  BY <1>2, <1>3, NormalizedIsQuestion
<1>5. \A i \in Place : request.qs[i].type = "score" => Len(request.qs[i].levels) <= MaxLevels
  BY <1>3, ServerAssumption DEF ValidQuestion
<1>6. DOMAIN questions = Place
  BY DEF Prepared
<1>7. QED
  BY <1>2, <1>4, <1>5, <1>6

LEMMA InitIInv == Init => IInv
<1> SUFFICES ASSUME Init PROVE IInv
  OBVIOUS
<1>1. /\ questions = <<>> /\ processed = <<>> /\ answers = <<>> /\ DOMAIN <<>> = {}
      /\ phase = "received" /\ status = 0 /\ request \in Request
  BY DEF Init
<1>2. DOMAIN questions = {} /\ DOMAIN processed = {} /\ DOMAIN answers = {}
  BY <1>1
<1>3. TypeOK
  BY <1>1, <1>2 DEF TypeOK, Phases
<1>4. Prepared
  BY <1>1, <1>2 DEF Prepared, Handled
<1>5. Owed
  BY <1>1 DEF Owed, Batched, Gathered
<1>6. Sound /\ Gates
  BY <1>2 DEF Sound, Gates
<1>7. QED
  BY <1>3, <1>4, <1>5, <1>6 DEF IInv

(* Replies without an answer: nothing is kept that the invariant is about. *)
LEMMA RefusalKeeps ==
  ASSUME IInv, NEW code \in {400, 413, 500}, Reply(code),
         UNCHANGED <<request, questions, processed, answers, summary>>
  PROVE  IInv'
<1>1. phase' = "replied" /\ status' = code
  BY DEF Reply
<1>2. ~Handled' /\ ~Batched' /\ ~Gathered' /\ ~Checked'
  BY <1>1 DEF Handled, Batched, Gathered, Checked
<1>3. TypeOK'
  BY <1>1, RequestStays DEF IInv, TypeOK, Phases
<1>4. Prepared'
  BY <1>1, <1>2 DEF IInv, Prepared
<1>5. Owed'
  BY <1>1, <1>2 DEF Owed
<1>6. Sound'
  BY RequestStays DEF IInv, Sound, Justified, InItsTerms
<1>7. Gates'
  <2>1. ASSUME NEW i \in DOMAIN answers
        PROVE Config'.enabled /\ i \notin Screened' => answers'[i].gating # NoGating
    BY RequestStays, QuestionsStay DEF IInv, Gates
  <2>2. QED
    BY <1>1, <1>2, <2>1 DEF Gates
<1>8. QED
  BY <1>3, <1>4, <1>5, <1>6, <1>7 DEF IInv

(* Admitting a request prepares its questions. *)
LEMMA AdmitKeeps ==
  ASSUME IInv, Admit
  PROVE  IInv'
<1>1. /\ phase = "received" /\ phase' = "routing" /\ status' = status /\ request' = request
      /\ questions' = [i \in Place |-> Normalized(request.qs[i])]
      /\ processed' = <<>> /\ answers' = <<>>
  BY DEF Admit, IInv, Prepared
<1>2. status = 0 /\ Place' = Place /\ DOMAIN questions' = Place
  BY <1>1, RequestStays DEF IInv, TypeOK
<1>3. DOMAIN answers' = {} /\ DOMAIN processed' = {}
  BY <1>1
<1>4. \A i \in Place : questions'[i] \in Question
  <2>1. \A i \in Place : request.qs[i] \in Question
    BY ElementOfSeq, RequestAssumption DEF IInv, TypeOK, Place
  <2>2. QED
    BY <1>1, <2>1, NormalizedIsQuestion
<1>5. TypeOK'
  BY <1>1, <1>2, <1>3, <1>4 DEF IInv, TypeOK, Phases
<1>6. Prepared'
  <2>1. request.qs # <<>> /\ \A i \in Place : ValidQuestion(request.qs[i])
    BY DEF Admit, ValidRequest
  <2>2. QED
    BY <1>1, <1>2, <1>3, <2>1 DEF Prepared
<1>7. Owed'
  BY <1>1, <1>2, <1>3 DEF Owed, Batched, Gathered
<1>8. Sound' /\ Gates'
  BY <1>3 DEF Sound, Gates
<1>9. QED
  BY <1>5, <1>6, <1>7, <1>8 DEF IInv

(* The router answers one of its questions. *)
LEMMA RouteQuestionKeeps ==
  ASSUME IInv, RouteQuestion
  PROVE  IInv'
<1>1. /\ phase = "routing" /\ Handled /\ processed = <<>> /\ status = 0
      /\ UNCHANGED <<request, phase, questions, processed, summary, status>>
  BY DEF RouteQuestion, Handled, IInv, Owed, TypeOK
<1>2. PICK i \in Hierarchical \ DOMAIN answers, a \in RouterAnswers :
        answers' = [j \in DOMAIN answers \cup {i} |-> IF j = i THEN a ELSE answers[j]]
  BY DEF RouteQuestion
<1>3. Place' = Place /\ Config' = Config /\ Hierarchical' = Hierarchical /\ Screened' = Screened
  BY <1>1, RequestStays, QuestionsStay
<1>4. /\ i \in DOMAIN questions /\ DOMAIN questions = Place
      /\ questions[i].type = "choice" /\ request.qs[i].type = "choice" /\ FineKeys # {}
  BY <1>1, QuestionsFit DEF IInv, Hierarchical, IsHierarchical
<1>5. /\ IsAnswer(a) /\ a.gating \in Metadata /\ a.choice # NoLabel
      /\ a.gating.route = "auto" =>
           Reaches(a.reading.conf, Config.high) /\ Reaches(a.reading.margin, Config.margin)
  BY <1>4, RouterAnswersFit DEF IInv, TypeOK
<1>6. DOMAIN answers' = DOMAIN answers \cup {i} /\ answers'[i] = a
  BY <1>2
<1>7. \A j \in DOMAIN answers : answers'[j] = answers[j]
  BY <1>2
<1>8. DOMAIN processed = {} /\ NoGating \notin Metadata
  BY <1>1, ServerAssumption
<1>9. TypeOK'
  BY <1>1, <1>3, <1>4, <1>5, <1>6, <1>7 DEF IInv, TypeOK
<1>10. Prepared'
  BY <1>1, <1>3 DEF IInv, Prepared, Handled
<1>11. Owed'
  BY <1>1, <1>3, <1>6 DEF IInv, Owed, Batched, Gathered
<1>12. Sound'
  <2> SUFFICES ASSUME NEW j \in DOMAIN answers'
               PROVE  (Justified(j, answers[j]) /\ InItsTerms(j, answers[j]))'
    BY DEF Sound
  <2>1. CASE j = i
    BY <1>1, <1>3, <1>4, <1>5, <1>6, <1>8, <2>1 DEF Justified, InItsTerms
  <2>2. CASE j \in DOMAIN answers
    BY <1>1, <1>3, <1>7, <2>2 DEF IInv, Sound, Justified, InItsTerms
  <2>3. QED
    BY <1>6, <2>1, <2>2
<1>13. Gates'
  <2>1. a.gating # NoGating
    BY <1>5, <1>8
  <2>2. QED
    BY <1>1, <1>3, <1>6, <1>7, <2>1 DEF IInv, Gates, Gathered, Checked
<1>14. QED
  BY <1>9, <1>10, <1>11, <1>12, <1>13 DEF IInv

(* The screening hands every other question to the batch. *)
LEMMA ScreenKeeps ==
  ASSUME IInv, Screen
  PROVE  IInv'
<1> DEFINE flat == DOMAIN questions \ Hierarchical
<1>1. /\ phase = "routing" /\ Handled /\ processed = <<>> /\ status = 0 /\ phase' = "running"
      /\ Hierarchical \subseteq DOMAIN answers /\ DOMAIN answers \subseteq Hierarchical
      /\ UNCHANGED <<request, questions, answers, summary, status>>
  BY DEF Screen, Handled, IInv, Owed, TypeOK
<1>2. PICK kept \in [flat -> UNION {Screenings(questions[i]) : i \in flat}] :
        /\ \A i \in flat : kept[i] \in Screenings(questions[i])
        /\ processed' = [i \in flat |-> OnlyWith(kept[i], questions[i])]
  BY DEF Screen
<1>3. Place' = Place /\ Config' = Config /\ Hierarchical' = Hierarchical
  BY <1>1, RequestStays, QuestionsStay
<1>4. DOMAIN questions = Place /\ \A i \in Place : questions[i] \in Question
  BY <1>1, QuestionsFit DEF IInv
<1>5. ASSUME NEW i \in flat
      PROVE  /\ processed'[i] \in Question
             /\ processed'[i].type = questions[i].type
             /\ processed'[i].levels = questions[i].levels
  <2>1. kept[i] \subseteq questions[i].keys
    BY <1>2, <1>5 DEF Screenings, kSubset
  <2>2. processed'[i] = [type |-> questions[i].type, keys |-> kept[i], levels |-> questions[i].levels]
    BY <1>2, <1>5 DEF OnlyWith
  <2>3. questions[i] \in Question
    BY <1>4
  <2>4. QED
    BY <2>1, <2>2, <2>3 DEF Question
<1>6. DOMAIN processed' = flat
  BY <1>2
<1>7. DOMAIN processed' \cap DOMAIN answers = {} /\ DOMAIN processed = {}
  BY <1>1, <1>6
<1>8. TypeOK'
  BY <1>1, <1>3, <1>5, <1>6 DEF IInv, TypeOK, Phases
<1>9. Prepared'
  BY <1>1, <1>3, <1>5, <1>6 DEF IInv, Prepared, Handled
<1>10. Owed'
  BY <1>1, <1>3, <1>6 DEF Owed, Batched, Gathered
<1>11. Sound'
  BY <1>1, <1>3, <1>7 DEF IInv, Sound, Justified, InItsTerms
<1>12. Gates'
  <2>1. Screened' \cap DOMAIN answers = {} /\ Screened = {}
    BY <1>7 DEF Screened
  <2>2. QED
    BY <1>1, <1>3, <2>1 DEF IInv, Gates, Gathered, Checked
<1>13. QED
  BY <1>8, <1>9, <1>10, <1>11, <1>12 DEF IInv

(* A chunk is answered: in its own terms, and gated unless it was screened. *)
LEMMA RunChunkKeeps ==
  ASSUME IInv, RunChunk
  PROVE  IInv'
<1>1. /\ phase = "running" /\ Handled /\ Batched /\ ~Gathered /\ ~Checked /\ status = 0
      /\ UNCHANGED <<request, phase, questions, processed, summary, status>>
  BY DEF RunChunk, Handled, Batched, Gathered, Checked, IInv, TypeOK
<1>2. PICK got \in [Chunk -> UNION {EngineAnswers(processed[i]) : i \in Chunk}] :
        /\ \A i \in Chunk : got[i] \in EngineAnswers(processed[i])
        /\ answers' = [i \in DOMAIN answers \cup Chunk |->
                         IF i \in DOMAIN answers THEN answers[i]
                         ELSE IF i \in Screened THEN got[i]
                         ELSE Gated(i, got[i])]
  BY DEF RunChunk
<1>3. Place' = Place /\ Config' = Config /\ Hierarchical' = Hierarchical /\ Screened' = Screened
  BY <1>1, RequestStays, QuestionsStay
<1>4. Chunk \subseteq DOMAIN processed /\ Chunk \cap DOMAIN answers = {}
  BY DEF Chunk, Left
<1>5. DOMAIN answers' = DOMAIN answers \cup Chunk
  BY <1>2
<1>6. \A i \in DOMAIN answers : answers'[i] = answers[i]
  BY <1>2
<1>7. DOMAIN questions = Place /\ DOMAIN processed \subseteq DOMAIN questions
  BY <1>1, QuestionsFit DEF IInv, TypeOK
<1>8. ASSUME NEW i \in Chunk
      PROVE  /\ IsAnswer(answers'[i])
             /\ Justified(i, answers'[i])
             /\ InItsTerms(i, answers'[i])
             /\ i \in Screened => answers'[i].gating = NoGating
             /\ i \notin Screened /\ Config.enabled => answers'[i].gating # NoGating
  <2>1. /\ processed[i] \in Question /\ processed[i].type = questions[i].type
        /\ processed[i].levels = questions[i].levels
        /\ questions[i].type = request.qs[i].type
        /\ processed[i].type = "score" => Len(processed[i].levels) <= MaxLevels
    BY <1>1, <1>4, <1>7, QuestionsFit DEF IInv, TypeOK, Prepared
  <2>2. got[i] \in EngineAnswers(processed[i])
    BY <1>2
  <2>3. IsAnswer(got[i]) /\ got[i].gating = NoGating /\ InItsTerms(i, got[i])
    BY <2>1, <2>2, EngineAnswersFit DEF InItsTerms
  <2>4. CASE i \in Screened
    <3>1. answers'[i] = got[i]
      BY <1>2, <1>4, <2>4
    <3>2. QED
      BY <2>3, <2>4, <3>1 DEF Justified
  <2>5. CASE i \notin Screened
    <3>1. answers'[i] = Gated(i, got[i])
      BY <1>2, <1>4, <2>5
    <3>2. QED
      BY <2>1, <2>3, <2>5, <3>1, GatedFits DEF IInv, TypeOK
  <2>6. QED
    BY <2>4, <2>5
<1>9. TypeOK'
  BY <1>1, <1>3, <1>4, <1>5, <1>6, <1>7, <1>8 DEF IInv, TypeOK
<1>10. Prepared'
  BY <1>1, <1>3 DEF IInv, Prepared, Handled
<1>11. Owed'
  BY <1>1, <1>3, <1>5 DEF IInv, Owed, Batched, Gathered
<1>12. Sound'
  <2> SUFFICES ASSUME NEW j \in DOMAIN answers'
               PROVE  (Justified(j, answers[j]) /\ InItsTerms(j, answers[j]))'
    BY DEF Sound
  <2>1. Justified(j, answers'[j]) /\ InItsTerms(j, answers'[j])
    BY <1>5, <1>6, <1>8 DEF IInv, Sound
  <2>2. QED
    BY <1>1, <1>3, <2>1 DEF Justified, InItsTerms
<1>13. Gates'
  BY <1>1, <1>3, <1>5, <1>6, <1>8 DEF IInv, Gates, Gathered, Checked
<1>14. QED
  BY <1>9, <1>10, <1>11, <1>12, <1>13 DEF IInv

(* The screened questions are widened and gated, and the answers gathered. *)
LEMMA GateScreenedKeeps ==
  ASSUME IInv, GateScreened
  PROVE  /\ IInv'
         /\ \A i \in DOMAIN answers : i \in DOMAIN answers' /\ NotMore(answers'[i], answers[i])
<1>1. /\ phase = "running" /\ Handled /\ Batched /\ ~Gathered /\ ~Checked /\ status = 0
      /\ phase' = "post" /\ DOMAIN processed \subseteq DOMAIN answers
      /\ UNCHANGED <<request, questions, processed, summary, status>>
  BY DEF GateScreened, Left, Handled, Batched, Gathered, Checked, IInv, TypeOK
<1>2. answers' = [i \in DOMAIN answers |->
                   IF i \in Screened THEN Gated(i, Widened(answers[i], questions[i].keys))
                   ELSE answers[i]]
  BY DEF GateScreened
<1>3. Place' = Place /\ Config' = Config /\ Hierarchical' = Hierarchical /\ Screened' = Screened
  BY <1>1, RequestStays, QuestionsStay
<1>4. DOMAIN answers' = DOMAIN answers /\ DOMAIN answers = DOMAIN questions /\ DOMAIN questions = Place
  BY <1>1, <1>2, QuestionsFit DEF IInv, Owed, TypeOK
<1>5. ASSUME NEW i \in DOMAIN answers
      PROVE  /\ IsAnswer(answers'[i])
             /\ Justified(i, answers'[i])
             /\ InItsTerms(i, answers'[i])
             /\ Config.enabled => answers'[i].gating # NoGating
             /\ NotMore(answers'[i], answers[i])
  <2>1. IsAnswer(answers[i]) /\ Justified(i, answers[i]) /\ InItsTerms(i, answers[i])
    BY DEF IInv, TypeOK, Sound
  <2>2. CASE i \in Screened
    <3> DEFINE a == Widened(answers[i], questions[i].keys)
    <3>1. questions[i] \in Question /\ questions[i].type = request.qs[i].type
      BY <1>1, <1>4, QuestionsFit DEF IInv
    <3>2. answers[i].gating = NoGating
      BY <1>1, <2>2 DEF IInv, Gates
    <3>3. questions[i].keys \in SUBSET Label
      BY <3>1 DEF Question
    <3>4. IsAnswer(a) /\ a.gating = NoGating /\ a.choice = answers[i].choice
      BY <2>1, <3>2, <3>3, WidenedFits
    <3> HIDE DEF a
    <3>5. InItsTerms(i, a)
      BY <2>1, <3>4 DEF InItsTerms
    <3>6. answers'[i] = Gated(i, a)
      BY <1>2, <2>2 DEF a
    <3>7. QED
      BY <3>1, <3>2, <3>4, <3>5, <3>6, GatedFits DEF IInv, TypeOK, NotMore
  <2>3. CASE i \notin Screened
    <3>1. answers'[i] = answers[i]
      BY <1>2, <2>3
    <3>2. Config.enabled => answers[i].gating # NoGating
      BY <2>3 DEF IInv, Gates
    <3>3. NotMore(answers[i], answers[i])
      BY <2>1 DEF NotMore, IsAnswer, Metadata, Share, Severity, Routes
    <3>4. QED
      BY <2>1, <3>1, <3>2, <3>3
  <2>4. QED
    BY <2>2, <2>3
<1>6. TypeOK'
  BY <1>1, <1>3, <1>4, <1>5 DEF IInv, TypeOK, Phases
<1>7. Prepared'
  BY <1>1, <1>3 DEF IInv, Prepared, Handled
<1>8. Owed'
  BY <1>1, <1>3, <1>4 DEF IInv, Owed, Batched, Gathered
<1>9. Sound'
  <2> SUFFICES ASSUME NEW j \in DOMAIN answers'
               PROVE  (Justified(j, answers[j]) /\ InItsTerms(j, answers[j]))'
    BY DEF Sound
  <2>1. Justified(j, answers'[j]) /\ InItsTerms(j, answers'[j])
    BY <1>4, <1>5
  <2>2. QED
    BY <1>1, <1>3, <2>1 DEF Justified, InItsTerms
<1>10. Gates'
  BY <1>1, <1>3, <1>4, <1>5 DEF Gates, Gathered, Checked
<1>11. QED
  BY <1>4, <1>5, <1>6, <1>7, <1>8, <1>9, <1>10 DEF IInv

(* The guardrails demote and relabel what was gathered. *)
LEMMA PostProcessKeeps ==
  ASSUME IInv, PostProcess
  PROVE  /\ IInv'
         /\ \A i \in DOMAIN answers : i \in DOMAIN answers' /\ NotMore(answers'[i], answers[i])
<1>1. /\ phase = "post" /\ Handled /\ Batched /\ Gathered /\ status = 0 /\ phase' = "summary"
      /\ UNCHANGED <<request, questions, processed, summary, status>>
  BY DEF PostProcess, Handled, Batched, Gathered, IInv, TypeOK
<1>2. answers' = [i \in DOMAIN answers |-> Restored(request.qs[i], Verified(request.qs[i], answers[i]))]
  BY DEF PostProcess
<1>3. Place' = Place /\ Config' = Config /\ Hierarchical' = Hierarchical
  BY <1>1, RequestStays, QuestionsStay
<1>4. DOMAIN answers' = DOMAIN answers /\ DOMAIN answers = DOMAIN questions /\ DOMAIN questions = Place
  BY <1>1, <1>2, QuestionsFit DEF IInv, Owed
<1>5. ASSUME NEW i \in DOMAIN answers
      PROVE  /\ IsAnswer(answers'[i])
             /\ Justified(i, answers'[i])
             /\ InItsTerms(i, answers'[i])
             /\ Config.enabled => answers'[i].gating # NoGating
             /\ answers'[i].gating # NoGating /\ answers'[i].gating.route = "auto"
                  => ~IsBimodal(request.qs[i], answers'[i])
             /\ NotMore(answers'[i], answers[i])
  <2> DEFINE q == request.qs[i]
             v == Verified(q, answers[i])
  <2>1. IsAnswer(answers[i]) /\ Justified(i, answers[i]) /\ InItsTerms(i, answers[i])
    BY DEF IInv, TypeOK, Sound
  <2>2. Config.enabled => answers[i].gating # NoGating
    BY <1>1 DEF IInv, Gates
  <2>3. /\ q \in Question
        /\ q.type = "score" => Len(q.levels) <= MaxLevels
    BY <1>1, <1>4, QuestionsFit DEF IInv
  <2>4. /\ IsAnswer(v) /\ Justified(i, v) /\ InItsTerms(i, v) /\ NotMore(v, answers[i])
        /\ v.gating # NoGating /\ v.gating.route = "auto" => ~IsBimodal(q, v)
    BY <2>1, VerifiedFits
  <2>5. answers'[i] = Restored(q, v)
    BY <1>2
  <2> HIDE DEF v, q
  <2>6. /\ IsAnswer(answers'[i]) /\ answers'[i].gating = v.gating
        /\ answers'[i].reading = v.reading /\ answers'[i].choice = v.choice
    BY <2>3, <2>4, <2>5, RestoredFits
  <2>7. IsBimodal(q, answers'[i]) <=> IsBimodal(q, v)
    BY <2>6 DEF IsBimodal
  <2>8. /\ Justified(i, answers'[i]) /\ InItsTerms(i, answers'[i]) /\ NotMore(answers'[i], answers[i])
        /\ Config.enabled => answers'[i].gating # NoGating
    BY <2>2, <2>4, <2>6 DEF Justified, InItsTerms, NotMore
  <2>9. QED
    BY <2>4, <2>6, <2>7, <2>8 DEF q
<1>6. TypeOK'
  BY <1>1, <1>3, <1>4, <1>5 DEF IInv, TypeOK, Phases
<1>7. Prepared'
  BY <1>1, <1>3 DEF IInv, Prepared, Handled
<1>8. Owed'
  BY <1>1, <1>3, <1>4 DEF IInv, Owed, Batched, Gathered
<1>9. Sound'
  <2> SUFFICES ASSUME NEW j \in DOMAIN answers'
               PROVE  (Justified(j, answers[j]) /\ InItsTerms(j, answers[j]))'
    BY DEF Sound
  <2>1. Justified(j, answers'[j]) /\ InItsTerms(j, answers'[j])
    BY <1>4, <1>5
  <2>2. QED
    BY <1>1, <1>3, <2>1 DEF Justified, InItsTerms
<1>10. Gates'
  <2> SUFFICES ASSUME NEW j \in DOMAIN answers'
               PROVE  /\ (Config.enabled => answers[j].gating # NoGating)'
                      /\ (answers[j].gating # NoGating /\ answers[j].gating.route = "auto"
                            => ~IsBimodal(request.qs[j], answers[j]))'
    BY <1>1 DEF Gates
  <2>1. /\ Config.enabled => answers'[j].gating # NoGating
        /\ answers'[j].gating # NoGating /\ answers'[j].gating.route = "auto"
             => ~IsBimodal(request.qs[j], answers'[j])
    BY <1>4, <1>5
  <2>2. QED
    BY <1>1, <1>3, <2>1 DEF IsBimodal
<1>11. QED
  BY <1>4, <1>5, <1>6, <1>7, <1>8, <1>9, <1>10 DEF IInv

(* The reply carries the answers as they are. *)
LEMMA SummarizeKeeps ==
  ASSUME IInv, Summarize
  PROVE  IInv'
<1>1. /\ phase = "summary" /\ phase' = "replied" /\ status' = 200
      /\ UNCHANGED <<request, questions, processed, answers>>
  BY DEF Summarize, Reply
<1>2. Handled /\ Batched /\ Gathered /\ Checked
  BY <1>1 DEF Handled, Batched, Gathered, Checked
<1>3. Place' = Place /\ Config' = Config /\ Hierarchical' = Hierarchical /\ Screened' = Screened
  BY <1>1, RequestStays, QuestionsStay
<1>4. TypeOK'
  BY <1>1, <1>3 DEF IInv, TypeOK, Phases
<1>5. Prepared'
  BY <1>1, <1>2, <1>3 DEF IInv, Prepared
<1>6. Owed'
  BY <1>1, <1>2, <1>3 DEF IInv, Owed
<1>7. Sound'
  BY <1>1, <1>3 DEF IInv, Sound, Justified, InItsTerms
<1>8. Gates'
  <2> SUFFICES ASSUME NEW j \in DOMAIN answers'
               PROVE  /\ (Config.enabled => answers[j].gating # NoGating)'
                      /\ (answers[j].gating # NoGating /\ answers[j].gating.route = "auto"
                            => ~IsBimodal(request.qs[j], answers[j]))'
    BY <1>1 DEF Gates
  <2>1. QED
    BY <1>1, <1>2, <1>3 DEF IInv, Gates, IsBimodal
<1>9. QED
  BY <1>4, <1>5, <1>6, <1>7, <1>8 DEF IInv

LEMMA StutterKeeps ==
  ASSUME IInv, UNCHANGED vars
  PROVE  IInv'
<1>1. UNCHANGED <<request, phase, questions, processed, answers, summary, status>>
  BY DEF vars
<1>2. Place' = Place /\ Config' = Config /\ Hierarchical' = Hierarchical /\ Screened' = Screened
  BY <1>1, RequestStays, QuestionsStay
<1>3. /\ (Handled' <=> Handled) /\ (Batched' <=> Batched)
      /\ (Gathered' <=> Gathered) /\ (Checked' <=> Checked)
  BY <1>1 DEF Handled, Batched, Gathered, Checked
<1>4. TypeOK'
  BY <1>1, <1>2 DEF IInv, TypeOK
<1>5. Prepared' /\ Owed'
  BY <1>1, <1>2, <1>3 DEF IInv, Prepared, Owed
<1>6. Sound'
  BY <1>1, <1>2 DEF IInv, Sound, Justified, InItsTerms
<1>7. Gates'
  BY <1>1, <1>2, <1>3 DEF IInv, Gates, IsBimodal
<1>8. QED
  BY <1>4, <1>5, <1>6, <1>7 DEF IInv

LEMMA NextIInv == IInv /\ [Next]_vars => IInv'
<1> SUFFICES ASSUME IInv, [Next]_vars PROVE IInv'
  OBVIOUS
<1>1. CASE Reject
  BY <1>1, RefusalKeeps DEF Reject
<1>2. CASE Admit
  BY <1>2, AdmitKeeps
<1>3. CASE RouteQuestion
  BY <1>3, RouteQuestionKeeps
<1>4. CASE Screen
  BY <1>4, ScreenKeeps
<1>5. CASE RunChunk
  BY <1>5, RunChunkKeeps
<1>6. CASE GateScreened
  BY <1>6, GateScreenedKeeps
<1>7. CASE PostProcess
  BY <1>7, PostProcessKeeps
<1>8. CASE Summarize
  BY <1>8, SummarizeKeeps
<1>9. CASE InferenceFails
  BY <1>9, RefusalKeeps DEF InferenceFails
<1>10. CASE Replied \/ UNCHANGED vars
  BY <1>10, StutterKeeps DEF Replied
<1>11. QED
  BY <1>1, <1>2, <1>3, <1>4, <1>5, <1>6, <1>7, <1>8, <1>9, <1>10 DEF Next

THEOREM Invariance == Spec => []IInv
BY InitIInv, NextIInv, PTL DEF Spec

-----------------------------------------------------------------------------
(* The results.                                                            *)

(* A request is in one of the phases of its handler, its maps keyed by its *)
(* questions and its distributions over labels.                            *)
THEOREM SystemOneTypeOK == Spec => []TypeOK
<1>1. IInv => TypeOK
  BY DEF IInv
<1>2. QED
  BY Invariance, <1>1, PTL

(* A reply of 200 answers every question, in its own terms and, with the   *)
(* gating on, with a route (systemone.rs:143-202).                         *)
THEOREM NoQuestionIsLost == Spec => []EveryQuestionAnswered
<1>1. IInv => EveryQuestionAnswered
  <2> SUFFICES ASSUME IInv, status = 200 PROVE EveryQuestionAnswered
    BY DEF EveryQuestionAnswered, Delivered
  <2>1. Handled /\ Gathered
    BY DEF Handled, Gathered
  <2>2. DOMAIN answers = Place
    BY <2>1, QuestionsFit DEF IInv, Owed
  <2>3. QED
    BY <2>1, <2>2 DEF IInv, Sound, Gates, InItsTerms, EveryQuestionAnswered
<1>2. QED
  BY Invariance, <1>1, PTL

(* Whichever rule let an answer pass, it is confident, ahead, no bimodal   *)
(* score and, from the engine, in distribution.                            *)
THEOREM AutomaticMeansJustified == Spec => []AutoIsJustified
<1>1. IInv => AutoIsJustified
  <2> SUFFICES ASSUME IInv, status = 200 PROVE AutoIsJustified
    BY DEF AutoIsJustified, Delivered
  <2>1. Handled /\ Gathered /\ Checked
    BY DEF Handled, Gathered, Checked
  <2>2. DOMAIN answers = Place
    BY <2>1, QuestionsFit DEF IInv, Owed
  <2>3. QED
    BY <2>1, <2>2 DEF IInv, Sound, Gates, Justified, AutoIsJustified
<1>2. QED
  BY Invariance, <1>1, PTL

(* Routes and confidences only go down once they are given, and are not    *)
(* taken away (bimodal.rs:161-222, batch.rs:748-770).                      *)
THEOREM RoutesOnlyGoDown == Spec => NeverPromoted
<1>1. ASSUME IInv, [Next]_vars
      PROVE  \A i \in DOMAIN answers :
               answers[i].gating # NoGating =>
                 /\ i \in DOMAIN answers'
                 /\ answers'[i].gating # NoGating
                 /\ Severity[answers[i].gating.route] <= Severity[answers'[i].gating.route]
                 /\ answers'[i].gating.conf <= answers[i].gating.conf
  <2> SUFFICES \A i \in DOMAIN answers : i \in DOMAIN answers' /\ NotMore(answers'[i], answers[i])
    BY DEF NotMore
  <2>1. \A i \in DOMAIN answers : NotMore(answers[i], answers[i])
    BY <1>1 DEF IInv, TypeOK, IsAnswer, NotMore, Metadata, Share, Severity, Routes
  <2>2. CASE \A i \in DOMAIN answers : i \in DOMAIN answers' /\ answers'[i] = answers[i]
    BY <2>1, <2>2
  <2>3. CASE Reject \/ Summarize \/ InferenceFails \/ Replied \/ UNCHANGED vars
    BY <2>2, <2>3 DEF Reject, Summarize, InferenceFails, Replied, vars
  <2>4. CASE Admit \/ Screen
    BY <2>2, <2>4 DEF Admit, Screen
  <2>5. CASE RouteQuestion
    BY <2>2, <2>5 DEF RouteQuestion
  <2>6. CASE RunChunk
    BY <2>2, <2>6 DEF RunChunk
  <2>7. CASE GateScreened
    BY <1>1, <2>7, GateScreenedKeeps
  <2>8. CASE PostProcess
    BY <1>1, <2>8, PostProcessKeeps
  <2>9. QED
    BY <1>1, <2>3, <2>4, <2>5, <2>6, <2>7, <2>8 DEF Next
<1>2. QED
  BY <1>1, Invariance, PTL DEF Spec, NeverPromoted

-----------------------------------------------------------------------------
(* The verdict on the reply.                                               *)

(* A finite set split in three is counted by its parts. *)
LEMMA CountsOfThree ==
  ASSUME NEW S, IsFiniteSet(S), NEW f, \A x \in S : f[x] \in Routes,
         NEW n, n = [route \in Routes |-> Cardinality({x \in S : f[x] = route})]
  PROVE  /\ n["auto"] \in Nat /\ n["confirm"] \in Nat /\ n["fallback"] \in Nat
         /\ \A route \in Routes : n[route] > 0 <=> \E x \in S : f[x] = route
         /\ n["auto"] + n["confirm"] + n["fallback"] = Cardinality(S)
<1> DEFINE P(route) == {x \in S : f[x] = route}
<1>1. ASSUME NEW route
      PROVE  /\ IsFiniteSet(P(route)) /\ Cardinality(P(route)) \in Nat
             /\ Cardinality(P(route)) > 0 <=> \E x \in S : f[x] = route
  <2>1. P(route) \subseteq S
    OBVIOUS
  <2>2. P(route) = {} <=> ~ \E x \in S : f[x] = route
    OBVIOUS
  <2> HIDE DEF P
  <2>3. IsFiniteSet(P(route))
    BY <2>1, FS_Subset
  <2>4. Cardinality(P(route)) \in Nat /\ (Cardinality(P(route)) = 0 <=> P(route) = {})
    BY <2>3, FS_CardinalityType, FS_EmptySet
  <2>5. QED
    BY <2>2, <2>3, <2>4
<1>0. \A route \in Routes : n[route] = Cardinality(P(route))
  OBVIOUS
<1>2. /\ S = (P("auto") \cup P("confirm")) \cup P("fallback")
      /\ P("auto") \cap P("confirm") = {}
      /\ (P("auto") \cup P("confirm")) \cap P("fallback") = {}
  BY DEF Routes
<1> HIDE DEF P
<1>3. IsFiniteSet(P("auto") \cup P("confirm")) /\
      Cardinality(P("auto") \cup P("confirm")) = Cardinality(P("auto")) + Cardinality(P("confirm"))
  <2>1. Cardinality(P("auto") \cap P("confirm")) = 0
    BY <1>2, FS_EmptySet
  <2>2. /\ IsFiniteSet(P("auto")) /\ Cardinality(P("auto")) \in Nat
        /\ IsFiniteSet(P("confirm")) /\ Cardinality(P("confirm")) \in Nat
    BY <1>1
  <2>3. /\ IsFiniteSet(P("auto") \cup P("confirm"))
        /\ Cardinality(P("auto") \cup P("confirm"))
             = Cardinality(P("auto")) + Cardinality(P("confirm"))
                 - Cardinality(P("auto") \cap P("confirm"))
    BY <2>2, FS_Union
  <2>4. QED
    BY <2>1, <2>2, <2>3
<1>4. Cardinality(S) = Cardinality(P("auto") \cup P("confirm")) + Cardinality(P("fallback"))
  <2>1. Cardinality((P("auto") \cup P("confirm")) \cap P("fallback")) = 0
    BY <1>2, FS_EmptySet
  <2>2. Cardinality(P("auto") \cup P("confirm")) \in Nat /\ Cardinality(P("fallback")) \in Nat
    BY <1>1, <1>3, FS_CardinalityType
  <2>3. Cardinality((P("auto") \cup P("confirm")) \cup P("fallback"))
          = Cardinality(P("auto") \cup P("confirm")) + Cardinality(P("fallback"))
              - Cardinality((P("auto") \cup P("confirm")) \cap P("fallback"))
    BY <1>1, <1>3, FS_Union
  <2>4. Cardinality(S) = Cardinality((P("auto") \cup P("confirm")) \cup P("fallback"))
    BY <1>2
  <2>5. QED
    BY <2>1, <2>2, <2>3, <2>4
<1>5. /\ n["auto"] = Cardinality(P("auto"))
      /\ n["confirm"] = Cardinality(P("confirm"))
      /\ n["fallback"] = Cardinality(P("fallback"))
  BY <1>0 DEF Routes
<1>6. \A route \in Routes : n[route] > 0 <=> \E x \in S : f[x] = route
  BY <1>0, <1>1
<1>7. QED
  BY <1>1, <1>3, <1>4, <1>5, <1>6

(* Before the reply there is no verdict; then it is the worst route. *)
Verdict == (phase # "replied" => summary = NoSummary) /\ SummaryIsWorst

LEMMA SummarizeIsWorst ==
  ASSUME IInv, Summarize
  PROVE  SummaryIsWorst'
<1> SUFFICES ASSUME summary' # NoSummary PROVE SummaryIsWorst'
  BY DEF SummaryIsWorst
<1>1. /\ phase = "summary" /\ summary' = Summary /\ Config.enabled
      /\ UNCHANGED <<request, questions, processed, answers>>
  BY DEF Summarize
<1>2. Handled /\ Gathered
  BY <1>1 DEF Handled, Gathered
<1>3. DOMAIN answers = Place /\ Place' = Place
  BY <1>1, <1>2, QuestionsFit, RequestStays DEF IInv, Owed
<1>4. \A i \in Place : answers[i].gating # NoGating /\ answers[i].gating.route \in Routes
  BY <1>1, <1>2, <1>3 DEF IInv, Gates, TypeOK, IsAnswer, Metadata
<1>5. IsFiniteSet(Place) /\ Cardinality(Place) = Len(request.qs) /\ Place # {}
  <2>1. request.qs \in Seq(Question)
    BY RequestAssumption DEF IInv, TypeOK
  <2>2. Len(request.qs) \in Nat \ {0}
    BY <1>2, <2>1, EmptySeq DEF IInv, Prepared
  <2>3. IsFiniteSet(1..Len(request.qs)) /\ Cardinality(1..Len(request.qs)) = Len(request.qs)
    <3>1. 1 \in Int /\ Len(request.qs) \in Int /\ ~(1 > Len(request.qs))
      BY <2>2
    <3>2. /\ IsFiniteSet(1..Len(request.qs))
          /\ Cardinality(1..Len(request.qs)) = Len(request.qs) - 1 + 1
      BY <3>1, FS_Interval, Zenon
    <3>3. QED
      BY <2>2, <3>2
  <2>4. 1 \in Place
    BY <2>2 DEF Place
  <2>5. QED
    BY <2>3, <2>4 DEF Place
<1> DEFINE f == [i \in Place |-> answers[i].gating.route]
           n == [route \in Routes |-> Cardinality({i \in Place : f[i] = route})]
<1>6. /\ n["auto"] \in Nat /\ n["confirm"] \in Nat /\ n["fallback"] \in Nat
      /\ \A route \in Routes : n[route] > 0 <=> \E i \in Place : f[i] = route
      /\ n["auto"] + n["confirm"] + n["fallback"] = Len(request.qs)
  <2>1. \A i \in Place : f[i] \in Routes
    BY <1>4
  <2>2. n = [route \in Routes |-> Cardinality({i \in Place : f[i] = route})]
    OBVIOUS
  <2> HIDE DEF f, n
  <2>3. /\ n["auto"] \in Nat /\ n["confirm"] \in Nat /\ n["fallback"] \in Nat
        /\ \A route \in Routes : n[route] > 0 <=> \E i \in Place : f[i] = route
        /\ n["auto"] + n["confirm"] + n["fallback"] = Cardinality(Place)
    BY <1>5, <2>1, <2>2, CountsOfThree, SMTT(60)
  <2>4. QED
    BY <1>5, <2>3
<1>7. \A route \in Routes : {i \in DOMAIN answers : RouteOf(answers[i]) = route}
                              = {i \in Place : f[i] = route}
  BY <1>3, <1>4 DEF RouteOf
<1>8. summary' = [aggregate |-> Aggregate(n), count |-> n,
                  escalation |-> n["confirm"] > 0 \/ n["fallback"] > 0]
  <2>1. [route \in Routes |-> Cardinality({i \in DOMAIN answers : RouteOf(answers[i]) = route})] = n
    BY <1>7
  <2>2. QED
    BY <1>1, <2>1 DEF Summary
<1>9. /\ \A i \in Place : f[i] \in Routes
      /\ \A i \in Place : Severity[f[i]] <= Severity[Aggregate(n)]
      /\ \E i \in Place : Severity[f[i]] = Severity[Aggregate(n)]
  <2>1. \A i \in Place : f[i] \in Routes
    BY <1>4
  <2>2. Severity["auto"] = 0 /\ Severity["confirm"] = 1 /\ Severity["fallback"] = 2
    BY DEF Severity
  <2> HIDE DEF f, n
  <2>3. CASE n["fallback"] > 0
    BY <1>6, <2>1, <2>2, <2>3 DEF Aggregate, Routes
  <2>4. CASE ~(n["fallback"] > 0) /\ n["confirm"] > 0
    BY <1>6, <2>1, <2>2, <2>4 DEF Aggregate, Routes
  <2>5. CASE ~(n["fallback"] > 0) /\ ~(n["confirm"] > 0)
    BY <1>5, <1>6, <2>1, <2>2, <2>5 DEF Aggregate, Routes
  <2>6. QED
    BY <2>1, <2>3, <2>4, <2>5
<1>10. (n["confirm"] > 0 \/ n["fallback"] > 0) <=> Aggregate(n) # "auto"
  <2> HIDE DEF n
  <2>1. QED
    BY DEF Aggregate
<1>11. /\ answers' = answers /\ request' = request
       /\ summary'.aggregate = Aggregate(n) /\ summary'.count = n
       /\ summary'.escalation <=> (n["confirm"] > 0 \/ n["fallback"] > 0)
  <2> HIDE DEF f, n
  <2>1. answers' = answers /\ request' = request
    BY <1>1
  <2>2. QED
    BY <1>8, <2>1
<1>12. \A i \in Place : f[i] = answers[i].gating.route
  OBVIOUS
<1> HIDE DEF f, n
<1>13. QED
  BY <1>3, <1>6, <1>9, <1>10, <1>11, <1>12 DEF SummaryIsWorst

(* The verdict on a reply is its worst route and counts every question     *)
(* (gating.rs:662-703, systemone.rs:208-238).                              *)
THEOREM VerdictIsWorst == Spec => []SummaryIsWorst
<1>1. Init => Verdict
  BY DEF Init, Verdict, SummaryIsWorst
<1>2. ASSUME IInv, Verdict, [Next]_vars PROVE Verdict'
  <2>1. CASE Summarize
    BY <1>2, <2>1, SummarizeIsWorst DEF Summarize, Reply, Verdict
  <2>2. CASE Replied \/ UNCHANGED vars
    <3>1. UNCHANGED <<request, phase, answers, summary>>
      BY <2>2 DEF Replied, vars
    <3>2. QED
      BY <1>2, <3>1, RequestStays DEF Verdict, SummaryIsWorst
  <2>3. CASE \/ Reject \/ Admit \/ RouteQuestion \/ Screen \/ RunChunk
             \/ GateScreened \/ PostProcess \/ InferenceFails
    <3>1. phase # "replied" /\ summary' = summary
      BY <2>3 DEF Reject, Admit, RouteQuestion, Screen, RunChunk, GateScreened,
                  PostProcess, InferenceFails
    <3>2. QED
      BY <1>2, <3>1 DEF Verdict, SummaryIsWorst
  <2>4. QED
    BY <1>2, <2>1, <2>2, <2>3 DEF Next
<1>3. Verdict => SummaryIsWorst
  BY DEF Verdict
<1>4. QED
  BY <1>1, <1>2, <1>3, Invariance, PTL DEF Spec

(* A reply is complete, its automatic answers deserve it and its verdict is *)
(* the worst of its routes, for any request and thresholds.                *)
THEOREM RepliesAreRight == Spec => []ReplyIsRight
BY NoQuestionIsLost, AutomaticMeansJustified, VerdictIsWorst, PTL DEF ReplyIsRight

-----------------------------------------------------------------------------
(* The terms of the client.                                                *)

(* An injective sequence has as many values as it has places, and its      *)
(* inverse puts each value where it came from.                             *)
LEMMA InverseOfInjective ==
  ASSUME NEW n \in Nat, NEW f \in [1..n -> Label], IsInjective(f)
  PROVE  /\ Cardinality(DOMAIN AntiFunction(f)) = n
         /\ AntiFunction(f) = [l \in Range(f) |-> Max({i \in 1..n : f[i] = l})]
<1>1. DOMAIN AntiFunction(f) = Range(f)
  BY DEF AntiFunction, Inverse
<1>2. f \in Bijection(1..n, Range(f))
  BY DEF Bijection, Injection, Surjection, IsInjective, Range
<1>3. IsFiniteSet(1..n) /\ Cardinality(1..n) = n
  BY FS_Interval
<1>4. Cardinality(Range(f)) = n
  BY <1>2, <1>3, FS_Bijection DEF ExistsBijection
<1>5. ASSUME NEW l \in Range(f)
      PROVE  AntiFunction(f)[l] = Max({i \in 1..n : f[i] = l})
  <2>1. PICK i \in 1..n : f[i] = l
    BY DEF Range
  <2>2. \A j \in 1..n : f[j] = l <=> j = i
    BY <2>1 DEF IsInjective
  <2>3. AntiFunction(f)[l] = i
    BY <2>1, <2>2 DEF AntiFunction, Inverse
  <2>4. Max({j \in 1..n : f[j] = l}) \in {j \in 1..n : f[j] = l}
    BY <2>1, MaxOfLevels
  <2>5. QED
    BY <2>2, <2>3, <2>4
<1>6. AntiFunction(f) = [l \in Range(f) |-> AntiFunction(f)[l]]
  BY <1>1 DEF AntiFunction, Inverse
<1>7. QED
  BY <1>1, <1>4, <1>5, <1>6

(* However the labels of a score collide, its distribution has one entry   *)
(* for each of them.                                                       *)
LEMMA OneEntryPerLevel ==
  ASSUME NEW levels \in Seq(Label), Len(levels) <= MaxLevels
  PROVE  Cardinality(DOMAIN Distribution(levels)) = Len(levels)
<1>1. /\ Len(levels) \in Nat /\ MaxLevels \in Nat
      /\ levels \in [1..Len(levels) -> Label] /\ DOMAIN levels = 1..Len(levels)
  BY LenProperties, ServerAssumption
<1> DEFINE numbered == [n \in 1..Len(levels) |-> IndexLabel[n]]
<1>2. numbered \in [1..Len(levels) -> Label] /\ IsInjective(numbered)
  <2>1. \A n \in 1..Len(levels) : n \in 1..MaxLevels
    BY <1>1
  <2>2. QED
    BY <2>1, LabelAssumption DEF IsInjective
<1>3. Distribution(levels) = IF IsInjective(levels) /\ EmptyLabel \notin Range(levels)
                             THEN AntiFunction(levels) ELSE AntiFunction(numbered)
  BY <1>1 DEF Distribution
<1> HIDE DEF numbered
<1>4. QED
  BY <1>1, <1>2, <1>3, InverseOfInjective

\* What is answered, before and after the excluded candidates are put back.
Sure(keys) == [k \in keys |-> Evaluated]
Partial(keys, kept) == [k \in keys |-> IF k \in kept THEN Evaluated ELSE Excluded]

\* The levels of a score under the labels of the client.
Restoration(q) == [l \in Range(q.levels) |-> Max({n \in DOMAIN q.levels : q.levels[n] = l})]

\* What the screening leaves of a choice; all of it when there is none.
KeptOf(i) ==
  questions[i].type = "choice" =>
    /\ processed[i].keys \subseteq questions[i].keys
    /\ i \notin Screened => processed[i].keys = questions[i].keys

ChoiceOf(i) ==
  questions[i].type = "choice" =>
    /\ answers[i].choice \in processed[i].keys
    /\ answers[i].probs = IF Gathered THEN Partial(questions[i].keys, processed[i].keys)
                          ELSE Sure(processed[i].keys)

ScoreOf(i) ==
  questions[i].type = "score" =>
    answers[i].probs = IF Checked THEN Restoration(request.qs[i])
                       ELSE Distribution(questions[i].levels)

Terms ==
  Handled =>
    /\ \A i \in DOMAIN processed : KeptOf(i)
    /\ \A i \in DOMAIN processed \cap DOMAIN answers : ChoiceOf(i) /\ ScoreOf(i)

(* Gating and the demotion leave the choice and its distribution alone. *)
LEMMA GatingKeepsTerms ==
  ASSUME NEW i, NEW q, NEW a, IsAnswer(a)
  PROVE  /\ Gated(i, a).choice = a.choice /\ Gated(i, a).probs = a.probs
         /\ Verified(q, a).choice = a.choice /\ Verified(q, a).probs = a.probs
BY AnswerFields DEF Gated, Verified, WithGating

LEMMA ScreenKeepsTerms ==
  ASSUME IInv, Screen
  PROVE  Terms'
<1> DEFINE flat == DOMAIN questions \ Hierarchical
<1>1. /\ DOMAIN answers \subseteq Hierarchical
      /\ UNCHANGED <<request, questions, answers>>
  BY DEF Screen, IInv, Owed
<1>2. PICK kept \in [flat -> UNION {Screenings(questions[i]) : i \in flat}] :
        /\ \A i \in flat : kept[i] \in Screenings(questions[i])
        /\ processed' = [i \in flat |-> OnlyWith(kept[i], questions[i])]
  BY DEF Screen
<1>3. DOMAIN processed' = flat /\ DOMAIN processed' \cap DOMAIN answers' = {}
  BY <1>1, <1>2
<1>4. ASSUME NEW i \in flat
      PROVE  KeptOf(i)'
  <2>1. processed'[i].keys = kept[i]
    BY <1>2 DEF OnlyWith
  <2>2. kept[i] \subseteq questions[i].keys
    BY <1>2 DEF Screenings, kSubset
  <2>3. ~IsScreened(questions[i]) => kept[i] = questions[i].keys
    BY <1>2 DEF Screenings
  <2>4. i \in Screened' <=> IsScreened(questions[i])
    BY <1>1, <1>3 DEF Screened, IsScreened
  <2>5. QED
    BY <1>1, <2>1, <2>2, <2>3, <2>4 DEF KeptOf
<1>5. QED
  BY <1>3, <1>4 DEF Terms

LEMMA RunChunkKeepsTerms ==
  ASSUME IInv, Terms, RunChunk
  PROVE  Terms'
<1>1. /\ phase = "running" /\ Handled /\ ~Gathered /\ ~Checked
      /\ ~Gathered' /\ ~Checked'
      /\ UNCHANGED <<request, phase, questions, processed, summary, status>>
  BY DEF RunChunk, Handled, Gathered, Checked, IInv, TypeOK
<1>2. PICK got \in [Chunk -> UNION {EngineAnswers(processed[i]) : i \in Chunk}] :
        /\ \A i \in Chunk : got[i] \in EngineAnswers(processed[i])
        /\ answers' = [i \in DOMAIN answers \cup Chunk |->
                         IF i \in DOMAIN answers THEN answers[i]
                         ELSE IF i \in Screened THEN got[i]
                         ELSE Gated(i, got[i])]
  BY DEF RunChunk
<1>3. /\ DOMAIN answers' = DOMAIN answers \cup Chunk
      /\ \A i \in DOMAIN answers : answers'[i] = answers[i]
      /\ Chunk \cap DOMAIN answers = {} /\ Chunk \subseteq DOMAIN processed
  BY <1>2 DEF Chunk, Left
<1>4. Screened' = Screened
  BY <1>1, QuestionsStay
<1>5. \A i \in DOMAIN processed' : KeptOf(i)'
  BY <1>1, <1>4 DEF Terms, KeptOf
<1>6. ASSUME NEW i \in Chunk
      PROVE  (ChoiceOf(i) /\ ScoreOf(i))'
  <2>1. /\ processed[i] \in Question /\ processed[i].type = questions[i].type
        /\ processed[i].levels = questions[i].levels
        /\ processed[i].type = "score" => Len(processed[i].levels) <= MaxLevels
    BY <1>1, <1>3, QuestionsFit DEF IInv, TypeOK, Prepared
  <2>2. got[i] \in EngineAnswers(processed[i])
    BY <1>2
  <2>3. IsAnswer(got[i])
    BY <2>1, <2>2, EngineAnswersFit
  <2>4. answers'[i].choice = got[i].choice /\ answers'[i].probs = got[i].probs
    BY <1>2, <1>3, <2>3, GatingKeepsTerms
  <2>5. CASE questions[i].type = "choice"
    <3>1. PICK k \in processed[i].keys, r \in Readings :
            got[i] = Answer(k, [x \in processed[i].keys |-> Evaluated], r, NoGating)
      BY <2>1, <2>2, <2>5 DEF EngineAnswers
    <3>2. got[i].choice = k /\ got[i].probs = Sure(processed[i].keys)
      BY <3>1, AnswerFields DEF Sure
    <3>3. QED
      BY <1>1, <2>4, <2>5, <3>2 DEF ChoiceOf, ScoreOf
  <2>6. CASE questions[i].type = "score"
    <3>1. PICK r \in Readings : got[i] = Answer(NoLabel, Distribution(processed[i].levels), r, NoGating)
      BY <2>1, <2>2, <2>6 DEF EngineAnswers
    <3>2. got[i].probs = Distribution(questions[i].levels)
      BY <2>1, <3>1, AnswerFields
    <3>3. QED
      BY <1>1, <2>4, <2>6, <3>2 DEF ChoiceOf, ScoreOf
  <2>7. QED
    BY <1>1, <2>5, <2>6 DEF ChoiceOf, ScoreOf
<1>7. ASSUME NEW i \in DOMAIN processed \cap DOMAIN answers
      PROVE  (ChoiceOf(i) /\ ScoreOf(i))'
  BY <1>1, <1>3 DEF Terms, ChoiceOf, ScoreOf
<1>8. QED
  BY <1>1, <1>3, <1>5, <1>6, <1>7 DEF Terms

(* The excluded candidates are put back with 0.0 for those that went through *)
(* the screening; for the others there are none.                           *)
LEMMA GateScreenedKeepsTerms ==
  ASSUME IInv, Terms, GateScreened
  PROVE  Terms'
<1>1. /\ phase = "running" /\ Handled /\ ~Gathered /\ ~Checked /\ Gathered' /\ ~Checked'
      /\ UNCHANGED <<request, questions, processed, summary, status>>
  BY DEF GateScreened, Handled, Gathered, Checked, IInv, TypeOK
<1>2. answers' = [i \in DOMAIN answers |->
                   IF i \in Screened THEN Gated(i, Widened(answers[i], questions[i].keys))
                   ELSE answers[i]]
  BY DEF GateScreened
<1>3. Screened' = Screened /\ DOMAIN answers' = DOMAIN answers
  BY <1>1, <1>2, QuestionsStay
<1>4. \A i \in DOMAIN processed' : KeptOf(i)'
  BY <1>1, <1>3 DEF Terms, KeptOf
<1>5. ASSUME NEW i \in DOMAIN processed \cap DOMAIN answers
      PROVE  (ChoiceOf(i) /\ ScoreOf(i))'
  <2>1. KeptOf(i) /\ ChoiceOf(i) /\ ScoreOf(i) /\ IsAnswer(answers[i])
    BY <1>1, <1>5 DEF Terms, IInv, TypeOK
  <2>2. questions[i] \in Question
    BY <1>1, <1>5, QuestionsFit DEF IInv, TypeOK
  <2>3. CASE i \in Screened
    <3> DEFINE a == Widened(answers[i], questions[i].keys)
    <3>1. questions[i].type = "choice" /\ questions[i].keys \in SUBSET Label
      BY <2>2, <2>3 DEF Screened, IsScreened, Question
    <3>2. IsAnswer(a) /\ a.choice = answers[i].choice
      BY <2>1, <3>1, WidenedFits
    <3>3. a.probs = Partial(questions[i].keys, processed[i].keys)
      <4>1. a.probs = [k \in questions[i].keys |->
                         IF k \in DOMAIN answers[i].probs THEN answers[i].probs[k] ELSE Excluded]
        BY AnswerFields DEF Widened, WithProbs
      <4>2. answers[i].probs = Sure(processed[i].keys)
        BY <1>1, <2>1, <3>1 DEF ChoiceOf
      <4>3. QED
        BY <4>1, <4>2 DEF Sure, Partial
    <3> HIDE DEF a
    <3>4. answers'[i] = Gated(i, a)
      BY <1>2, <1>5, <2>3 DEF a
    <3>5. answers'[i].choice = answers[i].choice /\ answers'[i].probs = a.probs
      BY <3>2, <3>4, GatingKeepsTerms
    <3>6. QED
      BY <1>1, <2>1, <3>1, <3>3, <3>5 DEF ChoiceOf, ScoreOf
  <2>4. CASE i \notin Screened
    <3>1. answers'[i] = answers[i]
      BY <1>2, <1>5, <2>4
    <3>2. processed[i].keys = questions[i].keys =>
            Sure(processed[i].keys) = Partial(questions[i].keys, processed[i].keys)
      BY DEF Sure, Partial
    <3>3. QED
      BY <1>1, <2>1, <2>4, <3>1, <3>2 DEF KeptOf, ChoiceOf, ScoreOf
  <2>5. QED
    BY <2>3, <2>4
<1>6. QED
  BY <1>1, <1>3, <1>4, <1>5 DEF Terms

(* The labels of the client are put back: the distribution has one entry   *)
(* for each of its levels.                                                 *)
LEMMA PostProcessKeepsTerms ==
  ASSUME IInv, Terms, PostProcess
  PROVE  Terms'
<1>1. /\ phase = "post" /\ Handled /\ Gathered /\ ~Checked /\ Gathered' /\ Checked'
      /\ UNCHANGED <<request, questions, processed, summary, status>>
  BY DEF PostProcess, Handled, Gathered, Checked, IInv, TypeOK
<1>2. answers' = [i \in DOMAIN answers |-> Restored(request.qs[i], Verified(request.qs[i], answers[i]))]
  BY DEF PostProcess
<1>3. Screened' = Screened /\ DOMAIN answers' = DOMAIN answers
  BY <1>1, <1>2, QuestionsStay
<1>4. \A i \in DOMAIN processed' : KeptOf(i)'
  BY <1>1, <1>3 DEF Terms, KeptOf
<1>5. ASSUME NEW i \in DOMAIN processed \cap DOMAIN answers
      PROVE  (ChoiceOf(i) /\ ScoreOf(i))'
  <2> DEFINE q == request.qs[i]
             v == Verified(q, answers[i])
  <2>1. ChoiceOf(i) /\ ScoreOf(i) /\ IsAnswer(answers[i])
    BY <1>1, <1>5 DEF Terms, IInv, TypeOK
  <2>2. /\ questions[i] \in Question /\ q \in Question /\ questions[i].type = q.type
        /\ questions[i] = Normalized(q)
        /\ q.type = "score" => Len(questions[i].levels) <= MaxLevels
    <3>1. i \in Place
      BY <1>1, <1>5, QuestionsFit DEF IInv, TypeOK
    <3>2. questions[i] = Normalized(q)
      BY <1>1, <3>1 DEF IInv, Prepared
    <3>3. QED
      BY <1>1, <3>1, <3>2, QuestionsFit DEF IInv
  <2>3. v.choice = answers[i].choice /\ v.probs = answers[i].probs
    BY <2>1, GatingKeepsTerms
  <2>4. answers'[i] = Restored(q, v)
    BY <1>2, <1>5
  <2> HIDE DEF v
  <2>5. CASE q.type = "score"
    <3>1. questions[i].levels \in Seq(Label) /\ Len(questions[i].levels) = Len(q.levels)
      BY <2>2, NormalizedIsQuestion DEF Question
    <3>2. v.probs = Distribution(questions[i].levels)
      BY <1>1, <2>1, <2>2, <2>3, <2>5 DEF ScoreOf
    <3>3. Cardinality(DOMAIN v.probs) = Len(q.levels)
      BY <2>2, <2>5, <3>1, <3>2, OneEntryPerLevel
    <3>4. answers'[i] = WithProbs(v, Restoration(q))
      BY <2>4, <2>5, <3>3 DEF Restored, Restoration
    <3>5. answers'[i].probs = Restoration(q)
      BY <3>4, AnswerFields DEF WithProbs
    <3>6. QED
      BY <1>1, <2>2, <2>5, <3>5 DEF ChoiceOf, ScoreOf
  <2>6. CASE q.type # "score"
    <3>1. answers'[i] = v
      BY <2>4, <2>6 DEF Restored
    <3>2. QED
      BY <1>1, <2>1, <2>2, <2>3, <2>6, <3>1 DEF ChoiceOf, ScoreOf
  <2>7. QED
    BY <2>5, <2>6
<1>6. QED
  BY <1>1, <1>3, <1>4, <1>5 DEF Terms

LEMMA NextKeepsTerms ==
  ASSUME IInv, Terms, [Next]_vars
  PROVE  Terms'
<1>1. CASE Reject \/ InferenceFails
  <2>1. ~Handled'
    BY <1>1 DEF Reject, InferenceFails, Reply, Handled
  <2>2. QED
    BY <2>1 DEF Terms
<1>2. CASE Admit \/ RouteQuestion
  <2>1. DOMAIN processed' = {}
    BY <1>2 DEF Admit, RouteQuestion, IInv, Prepared, Owed
  <2>2. QED
    BY <2>1 DEF Terms
<1>3. CASE Screen
  BY <1>3, ScreenKeepsTerms
<1>4. CASE RunChunk
  BY <1>4, RunChunkKeepsTerms
<1>5. CASE GateScreened
  BY <1>5, GateScreenedKeepsTerms
<1>6. CASE PostProcess
  BY <1>6, PostProcessKeepsTerms
<1>7. CASE Summarize \/ Replied \/ UNCHANGED vars
  <2>1. UNCHANGED <<request, questions, processed, answers>>
    BY <1>7 DEF Summarize, Replied, vars
  <2>2. (Gathered' <=> Gathered) /\ (Checked' <=> Checked) /\ (Handled' <=> Handled)
    BY <1>7 DEF Summarize, Reply, Replied, vars, Gathered, Checked, Handled
  <2>3. Screened' = Screened
    BY <2>1, QuestionsStay
  <2>4. QED
    BY <2>1, <2>2, <2>3 DEF Terms, KeptOf, ChoiceOf, ScoreOf
<1>8. QED
  BY <1>1, <1>2, <1>3, <1>4, <1>5, <1>6, <1>7 DEF Next

(* Whatever the screening leaves out and the cleaning makes alike, the     *)
(* reply is in the candidates and the labels of the client                 *)
(* (batch.rs:752-768, guardrails/mod.rs:230-266).                          *)
THEOREM TermsOfTheClient == Spec => []AnswersInClientTerms
<1>1. Init => Terms
  <2>1. Init => DOMAIN processed = {}
    BY DEF Init
  <2>2. QED
    BY <2>1 DEF Terms
<1>2. IInv /\ Terms /\ [Next]_vars => Terms'
  BY NextKeepsTerms
<1>3. ASSUME IInv, Terms, status = 200
      PROVE  ChoiceAmongCandidates /\ LabelsRestored
  <2>1. Handled /\ Batched /\ Gathered /\ Checked
    BY <1>3 DEF Handled, Batched, Gathered, Checked
  <2>2. /\ DOMAIN answers = Place /\ DOMAIN questions = Place
        /\ DOMAIN processed = Place \ Hierarchical
        /\ \A i \in Place : questions[i].type = request.qs[i].type /\ request.qs[i] \in Question
    BY <1>3, <2>1, QuestionsFit DEF IInv, Owed
  <2>3. ChoiceAmongCandidates
    <3> SUFFICES ASSUME NEW i \in DOMAIN processed, request.qs[i].type = "choice"
                 PROVE  LET keys == {CleanChoice[k] : k \in request.qs[i].keys} IN
                        /\ DOMAIN answers[i].probs = keys
                        /\ answers[i].choice \in keys
                        /\ answers[i].probs[answers[i].choice] = Evaluated
                        /\ {k \in keys : answers[i].probs[k] = Evaluated} = processed[i].keys
      BY DEF ChoiceAmongCandidates
    <3> DEFINE keys == {CleanChoice[k] : k \in request.qs[i].keys}
    <3>1. questions[i].type = "choice" /\ i \in Place /\ i \in DOMAIN answers
      BY <2>2
    <3>2. questions[i].keys = keys
      <4>1. questions[i] = Normalized(request.qs[i])
        BY <1>3, <2>1, <3>1 DEF IInv, Prepared
      <4>2. QED
        BY <4>1 DEF Normalized
    <3>3. /\ processed[i].keys \subseteq questions[i].keys
          /\ answers[i].choice \in processed[i].keys
          /\ answers[i].probs = Partial(questions[i].keys, processed[i].keys)
      BY <1>3, <2>1, <3>1 DEF Terms, KeptOf, ChoiceOf
    <3> HIDE DEF keys
    <3>4. /\ DOMAIN answers[i].probs = keys /\ answers[i].choice \in keys
          /\ answers[i].probs[answers[i].choice] = Evaluated
          /\ {k \in keys : answers[i].probs[k] = Evaluated} = processed[i].keys
      BY <3>2, <3>3 DEF Partial, Evaluated, Excluded
    <3>5. QED
      BY <3>4 DEF keys
  <2>4. LabelsRestored
    <3> SUFFICES ASSUME NEW i \in Place, request.qs[i].type = "score", IsInjective(request.qs[i].levels)
                 PROVE  answers[i].probs = AntiFunction(request.qs[i].levels)
      BY DEF LabelsRestored
    <3>1. i \in DOMAIN processed /\ i \in DOMAIN answers /\ questions[i].type = "score"
      BY <2>2 DEF Hierarchical, IsHierarchical
    <3>2. answers[i].probs = Restoration(request.qs[i])
      BY <1>3, <2>1, <3>1 DEF Terms, ScoreOf
    <3> DEFINE levels == request.qs[i].levels
    <3>3. levels \in [1..Len(levels) -> Label] /\ Len(levels) \in Nat /\ DOMAIN levels = 1..Len(levels)
      BY <2>2, LenProperties DEF Question
    <3>4. Restoration(request.qs[i]) = [l \in Range(levels) |-> Max({n \in 1..Len(levels) : levels[n] = l})]
      BY <3>3 DEF Restoration
    <3> HIDE DEF levels
    <3>5. AntiFunction(levels) = [l \in Range(levels) |-> Max({n \in 1..Len(levels) : levels[n] = l})]
      BY <3>3, InverseOfInjective DEF levels
    <3>6. QED
      BY <3>2, <3>4, <3>5 DEF levels
  <2>5. QED
    BY <2>3, <2>4
<1>4. IInv /\ Terms => AnswersInClientTerms
  BY <1>3 DEF AnswersInClientTerms, ChoiceAmongCandidates, LabelsRestored, Delivered
<1>5. QED
  BY <1>1, <1>2, <1>4, Invariance, PTL DEF Spec

=============================================================================

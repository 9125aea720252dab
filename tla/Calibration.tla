----------------------------- MODULE Calibration -----------------------------
(***************************************************************************)
(* The temperatures of train/calibration, and the answers that             *)
(* train/export/generate_parity_fixtures.py expects of the server.         *)
(*                                                                         *)
(* The samples of a validation set are split into buckets by the number of *)
(* their options; each bucket gets a temperature of its own, fitted on its *)
(* samples unless they are too few or the model hardly beats chance on     *)
(* them.  A temperature is the samples it was fitted on; the search for it *)
(* and the scores before and after are left out.                           *)
(***************************************************************************)
EXTENDS Gating, Sequences, FiniteSets, FiniteSetsExt

CONSTANTS MaxValSamples,     \* max_val_samples, 0: all
          MinSamples,        \* min_samples_per_bucket
          GateNum, GateDen,  \* accuracy_gating_factor
          Parts              \* a common multiple of all numbers of options

ASSUME CalibrationConstants ==
  /\ {MaxValSamples, MinSamples, GateNum} \subseteq Nat
  /\ {GateDen, Parts} \subseteq Nat \ {0}

Types == {"choice", "score", "noul"}

\* A sample of the LogitCache: its options, and whether the model is right.
Item == [type : Types, count : Nat \ {0}, right : BOOLEAN]

-----------------------------------------------------------------------------
\* Buckets.

Exactly(n) == [kind |-> "exactly", low |-> n, high |-> n]
Between(m, n) == [kind |-> "between", low |-> m, high |-> n]
AtLeast(n) == [kind |-> "at_least", low |-> n, high |-> n]

ChoiceBuckets == <<Exactly(2), Between(3, 5), Between(6, 10), AtLeast(11)>>
ScoreBuckets == <<Between(2, 5), Between(6, 10)>>
NoulBucket == <<AtLeast(0)>>

BucketsOf(type) ==
  CASE type = "choice" -> ChoiceBuckets
    [] type = "score"  -> ScoreBuckets
    [] type = "noul"   -> NoulBucket

\* calibration/config.py.
MatchesBucketExpr(e, n) ==
  \/ e.kind = "exactly" /\ n = e.low
  \/ e.kind = "at_least" /\ n >= e.low
  \/ e.kind = "between" /\ n \in e.low..e.high

\* Mutation of MatchesBucket: the upper end of a range is left out.
MatchesBucketOpen(e, n) ==
  \/ e.kind = "exactly" /\ n = e.low
  \/ e.kind = "at_least" /\ n >= e.low
  \/ e.kind = "between" /\ n >= e.low /\ n < e.high

\* What reads calibration.json has a translation of its own.
MatchesBucket(e, n) ==
  \/ e.kind = "exactly" /\ n = e.low
  \/ e.kind = "at_least" /\ n >= e.low
  \/ e.kind = "between" /\ e.low <= n /\ n <= e.high

-----------------------------------------------------------------------------
\* TemperatureOptimizer.

\* collect_logits stops after the batch with the last sample it takes and cuts
\* what is over.
Collected(items) ==
  IF MaxValSamples > 0 /\ Len(items) > MaxValSamples
    THEN SubSeq(items, 1, MaxValSamples) ELSE items

FilterByBucket(cache, type, e) ==
  {i \in DOMAIN cache : cache[i].type = type /\ MatchesBucketExpr(e, cache[i].count)}

\* Parts times the number of right answers, and of those expected of chance.
RightAnswers(cache, on) == Parts * Cardinality({i \in on : cache[i].right})
ChanceLevel(cache, on) == MapThenSumSet(LAMBDA i : Parts \div cache[i].count, on)

HardlyBeatsChance(cache, on) ==
  GateDen * RightAnswers(cache, on) <= GateNum * ChanceLevel(cache, on)

CalibrateBucket(cache, on) ==
  IF Cardinality(on) < MinSamples THEN [status |-> "SPARSE_FALLBACK", on |-> {}]
  ELSE IF HardlyBeatsChance(cache, on) THEN [status |-> "ACCURACY_GATED", on |-> {}]
  ELSE [status |-> "OPTIMIZED", on |-> on]

\* The temperature map, by type and bucket.
Calibrate(cache) ==
  [t \in Types |-> [b \in DOMAIN BucketsOf(t) |->
     CalibrateBucket(cache, FilterByBucket(cache, t, BucketsOf(t)[b]))]]

\* total_samples of the summary: the sizes of all buckets together, a sample
\* being counted in each bucket that has it.
TotalSamples(cache) ==
  Cardinality(UNION {UNION {
    {<<t, b, i>> : i \in FilterByBucket(cache, t, BucketsOf(t)[b])} :
      b \in DOMAIN BucketsOf(t)} : t \in Types})

-----------------------------------------------------------------------------
\* generate_parity_fixtures.

DefaultTemperature == [status |-> "DEFAULT", on |-> {}]

\* resolve_temperature: the first bucket that matches.
ResolveTemperature(map, type, n) ==
  LET fits == {b \in DOMAIN BucketsOf(type) : MatchesBucket(BucketsOf(type)[b], n)} IN
  IF type = "noul" THEN map["noul"][1]
  ELSE IF fits = {} THEN DefaultTemperature
  ELSE map[type][Min(fits)]

\* Mutation of DecideRoute: a small margin is passed over.
DecideRouteAuto(type, r, c) ==
  IF Reaches(r.conf, c.high) THEN "auto"
  ELSE IF Reaches(r.conf, c.low) THEN "confirm" ELSE "fallback"

\* decide_route knows no energy and no second peak, and gives a Noul no margin.
DecideRoute(type, r, c) ==
  IF Reaches(r.conf, c.high)
    THEN IF type # "noul" /\ ~Reaches(r.margin, c.margin) THEN "confirm" ELSE "auto"
  ELSE IF Reaches(r.conf, c.low) THEN "confirm" ELSE "fallback"

AggregateRoute(routes) ==
  IF "fallback" \in routes THEN "fallback"
  ELSE IF "confirm" \in routes THEN "confirm" ELSE "auto"

\* What the server answers: its gating, and the demotion of a bimodal score.
ServerRoute(type, r, c) ==
  LET g == Evaluate(type, r, c) IN
  IF r.bimodal THEN Demote(g).route ELSE g.route
=============================================================================

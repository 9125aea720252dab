------------------------------ MODULE Metrics ------------------------------
(***************************************************************************)
(* MetricsTracker (train/training/metrics.py): the counters that a pass    *)
(* over a loader fills batch by batch, and the metrics made of them.       *)
(* Shares are in ten-thousandths, the distance of a score in tenths.       *)
(***************************************************************************)
EXTENDS Integers, Sequences

QuestionTypes == {"choice", "score", "noul"}
SizeBuckets == {"bucket_2", "bucket_3_5", "bucket_6_10", "bucket_11_plus"}

Nothing == [correct |-> 0, total |-> 0]
NoStats ==
  [total |-> 0, correct |-> 0,
   byType |-> [t \in QuestionTypes |-> Nothing], errors |-> 0,
   bySize |-> [b \in SizeBuckets |-> Nothing],
   tp |-> 0, fp |-> 0, fn |-> 0, tn |-> 0]

SizeBucket(n) ==
  CASE n <= 2 -> "bucket_2" [] n \in 3..5 -> "bucket_3_5"
    [] n \in 6..10 -> "bucket_6_10" [] OTHER -> "bucket_11_plus"

One(test) == IF test THEN 1 ELSE 0
Add(count, right) == [correct |-> count.correct + One(right), total |-> count.total + 1]

\* An answer: [type, options, guess, label, negative, error].  The last option
\* is taken for the one that says "none of these".
UpdateOne(stats, a) ==
  LET right == a.guess = a.label
      saysNone == a.guess = a.options - 1
  IN  [total |-> stats.total + 1, correct |-> stats.correct + One(right),
       byType |-> [stats.byType EXCEPT ![a.type] = Add(@, right)],
       errors |-> stats.errors + (IF a.type = "score" THEN a.error ELSE 0),
       bySize |-> [stats.bySize EXCEPT ![SizeBucket(a.options)] = Add(@, right)],
       tp |-> stats.tp + One(a.negative /\ saysNone),
       fp |-> stats.fp + One(~a.negative /\ saysNone),
       fn |-> stats.fn + One(a.negative /\ ~saysNone),
       tn |-> stats.tn + One(~a.negative /\ ~saysNone)]

\* update() goes through a batch, item by item.
Update(stats, answers) ==
  LET After[n \in 0..Len(answers)] ==
        IF n = 0 THEN stats ELSE UpdateOne(After[n - 1], answers[n])
  IN  After[Len(answers)]

\* The questions of all types, and those of all sizes.
ByType(stats, field) ==
  LET of(t) == stats.byType[t][field] IN of("choice") + of("score") + of("noul")
BySize(stats, field) ==
  LET of(b) == stats.bySize[b][field] IN
  of("bucket_2") + of("bucket_3_5") + of("bucket_6_10") + of("bucket_11_plus")

\* round(x, 4) for x of num / den ten-thousandths; the floating point numbers
\* may let a tie go either way.
Round4(num, den) ==
  LET q == num \div den IN
  {r \in {q, q + 1} : 2 * num <= den * (2 * r + 1) /\ den * (2 * r - 1) <= 2 * num}

\* compute().  The shares are rounded, except the overall accuracy that a type
\* without a question falls back on.  All are
\* brought to the denominator of that accuracy.
Denominator(stats) == IF stats.total = 0 THEN 1 ELSE stats.total
Accuracy(stats) == 10000 * stats.correct
TypeAccuracies(stats, type) ==
  LET of == stats.byType[type] IN
  IF of.total = 0 THEN {Accuracy(stats)}
  ELSE {Denominator(stats) * r : r \in Round4(10000 * of.correct, of.total)}
ScoreComponents(stats) ==
  LET n == stats.byType["score"].total IN
  IF n = 0 THEN {Accuracy(stats)}
  ELSE {Denominator(stats) * (IF mae < 10000 THEN 10000 - mae ELSE 0) :
          mae \in Round4(1000 * stats.errors, n)}

\* The composite metric: what it may be, in ten-thousandths.
Composites(stats) ==
  UNION {Round4(2 * choice + score + noul, 4 * Denominator(stats)) :
           choice \in TypeAccuracies(stats, "choice"),
           score \in ScoreComponents(stats),
           noul \in TypeAccuracies(stats, "noul")}
=============================================================================

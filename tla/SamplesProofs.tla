---------------------------- MODULE SamplesProofs ----------------------------
(***************************************************************************)
(* Proofs about Samples and Metrics, for any corpora, files and intents,   *)
(* any texts and bounds, any orders a generator may draw and any answers.  *)
(*                                                                         *)
(* What each list may hold is fixed when a row is converted: where it came *)
(* from (Trained, Evaluated) and the contract of its type (Good).  The     *)
(* injection moves samples and makes new ones of them, so it keeps both.   *)
(* That it loses and repeats none is a matter of counting places: picking  *)
(* some of a list in order, and putting lists one after the other, keeps   *)
(* how often a value is held (PickedCount, ConcatCount).                   *)
(*                                                                         *)
(* The batch is tied to the list it was read from by position (ReadFrom),  *)
(* which is what the label, the marks of the answers and the number of     *)
(* questions counted all rest on.                                          *)
(***************************************************************************)
EXTENDS Samples, FiniteSetTheorems, SequenceTheorems, WellFoundedInduction, TLAPS

-----------------------------------------------------------------------------
(* Numbers.                                                                *)

NatLess == {ss \in Nat \X Nat : ss[1] < ss[2]}

LEMMA LeastNumber ==
  ASSUME NEW T \in SUBSET Nat, T # {}
  PROVE  \E x \in T : \A y \in T : x <= y
<1>1. IsWellFoundedOn(NatLess, Nat)
  BY NatLessThanWellFounded DEF OpToRel, NatLess
<1>2. PICK x \in T : \A y \in T : ~ (<<y, x>> \in NatLess)
  BY <1>1, WFMin
<1>3. ASSUME NEW y \in T, ~ (x <= y)
      PROVE  FALSE
  <2>1. <<y, x>> \in Nat \X Nat /\ <<y, x>>[1] = y /\ <<y, x>>[2] = x
    OBVIOUS
  <2>2. y < x
    BY <1>3
  <2>3. <<y, x>> \in NatLess
    BY <2>1, <2>2 DEF NatLess
  <2> QED
    BY <1>2, <2>3
<1> QED
  BY <1>3

-----------------------------------------------------------------------------
(* The counters of the metrics.                                            *)

\* f gives the counters after each of the first k answers.
Counts(f, k, s, answers) ==
  f = [n \in 0..k |-> IF n = 0 THEN s ELSE UpdateOne(f[n - 1], answers[n])]

LEMMA CountsExist ==
  ASSUME NEW N \in Nat, NEW s, NEW answers
  PROVE  \E f : Counts(f, N, s, answers)
<1> DEFINE T == {k \in 0..N : ~ \E f : Counts(f, k, s, answers)}
<1> SUFFICES ASSUME T # {} PROVE FALSE
  <2>1. N \in 0..N
    OBVIOUS
  <2> QED
    BY <2>1
<1>1. PICK k \in T : \A l \in T : k <= l
  <2>1. T \in SUBSET Nat
    OBVIOUS
  <2> HIDE DEF T
  <2> QED
    BY <2>1, LeastNumber
<1>2. k \in 0..N /\ ~ \E f : Counts(f, k, s, answers)
  OBVIOUS
<1>3. k # 0
  <2> DEFINE f == [n \in 0..0 |-> s]
  <2>1. Counts(f, 0, s, answers)
    <3>1. \A n \in 0..0 : n = 0
      OBVIOUS
    <3>2. f = [n \in 0..0 |-> IF n = 0 THEN s ELSE UpdateOne(f[n - 1], answers[n])]
      BY <3>1
    <3> QED
      BY <3>2 DEF Counts
  <2> QED
    BY <1>2, <2>1
<1>4. PICK f : Counts(f, k - 1, s, answers)
  <2>1. k - 1 \in 0..N /\ ~ (k <= k - 1)
    BY <1>2, <1>3
  <2>2. k - 1 \notin T
    BY <1>1, <2>1
  <2> QED
    BY <2>1, <2>2
<1> DEFINE g == [n \in 0..k |-> IF n = k THEN UpdateOne(f[k - 1], answers[k]) ELSE f[n]]
           h == [n \in 0..k |-> IF n = 0 THEN s ELSE UpdateOne(g[n - 1], answers[n])]
<1>5. ASSUME NEW n \in 0..k
      PROVE  g[n] = h[n]
  <2>1. CASE n = k
    <3>1. k - 1 \in 0..k /\ k - 1 # k /\ n # 0
      BY <1>2, <1>3, <2>1
    <3>2. g[k - 1] = f[k - 1]
      BY <3>1
    <3> QED
      BY <2>1, <3>1, <3>2
  <2>2. CASE n # k
    <3>1. n \in 0..(k - 1) /\ (n # 0 => n - 1 \in 0..k /\ n - 1 # k)
      BY <1>2, <2>2
    <3>2. f[n] = IF n = 0 THEN s ELSE UpdateOne(f[n - 1], answers[n])
      BY <1>4, <3>1 DEF Counts
    <3>3. n # 0 => g[n - 1] = f[n - 1]
      BY <3>1
    <3> QED
      BY <2>2, <3>2, <3>3
  <2> QED
    BY <2>1, <2>2
<1>6. g = h
  <2>1. DOMAIN g = DOMAIN h /\ g = [n \in 0..k |-> g[n]] /\ h = [n \in 0..k |-> h[n]]
    OBVIOUS
  <2> HIDE DEF g, h
  <2> QED
    BY <1>5, <2>1
<1>7. Counts(g, k, s, answers)
  BY <1>6 DEF Counts
<1> QED
  BY <1>2, <1>7

LEMMA UpdateCounts ==
  ASSUME NEW s, NEW answers, Len(answers) \in Nat
  PROVE  \E f : /\ Counts(f, Len(answers), s, answers)
                /\ Update(s, answers) = f[Len(answers)]
<1> DEFINE F == CHOOSE f : Counts(f, Len(answers), s, answers)
<1>1. Counts(F, Len(answers), s, answers)
  BY CountsExist
<1>2. Update(s, answers) = F[Len(answers)]
  BY DEF Update, Counts
<1> QED
  BY <1>1, <1>2

Tally == {t \in [correct : Nat, total : Nat] : t.correct <= t.total}
Stats ==
  [total : Nat, correct : Nat, byType : [QuestionTypes -> Tally], errors : Nat,
   bySize : [SizeBuckets -> Tally], tp : Nat, fp : Nat, fn : Nat, tn : Nat]
Answer ==
  [type : QuestionTypes, options : Nat, guess : Int, label : Int, negative : BOOLEAN, error : Nat]

\* The counters agree with each other.
Consistent(s) ==
  /\ s \in Stats
  /\ s.correct <= s.total
  /\ \A field \in {"correct", "total"} :
       /\ ByType(s, field) = s[field]
       /\ BySize(s, field) = s[field]
  /\ s.tp + s.fp + s.fn + s.tn = s.total

LEMMA TallyAdd ==
  ASSUME NEW t \in Tally, NEW right \in BOOLEAN
  PROVE  /\ Add(t, right) \in Tally
         /\ Add(t, right).total = t.total + 1
         /\ Add(t, right).correct = t.correct + One(right)
         /\ One(right) \in {0, 1}
BY DEF Tally, Add, One

LEMMA NothingCounted == Consistent(NoStats)
<1>1. Nothing \in Tally /\ Nothing.correct = 0 /\ Nothing.total = 0
  BY DEF Nothing, Tally
<1>2. /\ NoStats.total = 0 /\ NoStats.correct = 0 /\ NoStats.errors = 0
      /\ NoStats.tp = 0 /\ NoStats.fp = 0 /\ NoStats.fn = 0 /\ NoStats.tn = 0
      /\ NoStats.byType = [t \in QuestionTypes |-> Nothing]
      /\ NoStats.bySize = [b \in SizeBuckets |-> Nothing]
  BY DEF NoStats
<1>3. NoStats \in Stats
  BY <1>1 DEF NoStats, Stats
<1>4. ASSUME NEW field \in {"correct", "total"}
      PROVE  ByType(NoStats, field) = 0 /\ BySize(NoStats, field) = 0 /\ NoStats[field] = 0
  <2>1. Nothing[field] = 0 /\ NoStats[field] = 0
    BY <1>1, <1>2
  <2> QED
    BY <1>2, <2>1 DEF ByType, BySize, QuestionTypes, SizeBuckets
<1> QED
  BY <1>2, <1>3, <1>4 DEF Consistent

LEMMA UpdateOneStep ==
  ASSUME NEW s, Consistent(s), NEW a \in Answer
  PROVE  LET u == UpdateOne(s, a) IN
         /\ Consistent(u) /\ u.total = s.total + 1
         /\ ~a.negative => u.tp = s.tp /\ u.fn = s.fn
<1> DEFINE u == UpdateOne(s, a)
           right == a.guess = a.label
           none == a.guess = a.options - 1
           t == a.type
           b == SizeBucket(a.options)
<1>1. /\ s \in Stats /\ s.total \in Nat /\ s.correct \in Nat /\ s.errors \in Nat
      /\ s.tp \in Nat /\ s.fp \in Nat /\ s.fn \in Nat /\ s.tn \in Nat
      /\ s.byType \in [QuestionTypes -> Tally] /\ s.bySize \in [SizeBuckets -> Tally]
  BY DEF Consistent, Stats
<1>2. /\ t \in QuestionTypes /\ a.negative \in BOOLEAN /\ a.error \in Nat /\ a.options \in Nat
      /\ right \in BOOLEAN /\ none \in BOOLEAN
  BY DEF Answer
<1>3. b \in SizeBuckets
  BY <1>2 DEF SizeBucket, SizeBuckets
<1>4. /\ u.total = s.total + 1 /\ u.correct = s.correct + One(right)
      /\ u.byType = [s.byType EXCEPT ![t] = Add(s.byType[t], right)]
      /\ u.errors = s.errors + (IF t = "score" THEN a.error ELSE 0)
      /\ u.bySize = [s.bySize EXCEPT ![b] = Add(s.bySize[b], right)]
      /\ u.tp = s.tp + One(a.negative /\ none) /\ u.fp = s.fp + One(~a.negative /\ none)
      /\ u.fn = s.fn + One(a.negative /\ ~none) /\ u.tn = s.tn + One(~a.negative /\ ~none)
  BY DEF UpdateOne
<1>5. u = [total |-> u.total, correct |-> u.correct, byType |-> u.byType, errors |-> u.errors,
           bySize |-> u.bySize, tp |-> u.tp, fp |-> u.fp, fn |-> u.fn, tn |-> u.tn]
  BY DEF UpdateOne
<1> HIDE DEF u, right, none, t, b
<1>6. /\ Add(s.byType[t], right) \in Tally
      /\ Add(s.byType[t], right).total = s.byType[t].total + 1
      /\ Add(s.byType[t], right).correct = s.byType[t].correct + One(right)
      /\ One(right) \in {0, 1}
  BY <1>1, <1>2, TallyAdd
<1>7. /\ Add(s.bySize[b], right) \in Tally
      /\ Add(s.bySize[b], right).total = s.bySize[b].total + 1
      /\ Add(s.bySize[b], right).correct = s.bySize[b].correct + One(right)
  BY <1>1, <1>2, <1>3, TallyAdd
<1>8. u.byType \in [QuestionTypes -> Tally] /\ u.bySize \in [SizeBuckets -> Tally]
  BY <1>1, <1>2, <1>3, <1>4, <1>6, <1>7
<1>9. u.errors \in Nat
  BY <1>1, <1>2, <1>4
<1>10. /\ u.tp \in Nat /\ u.fp \in Nat /\ u.fn \in Nat /\ u.tn \in Nat
       /\ u.tp + u.fp + u.fn + u.tn = s.tp + s.fp + s.fn + s.tn + 1
       /\ ~a.negative => u.tp = s.tp /\ u.fn = s.fn
  <2>1. CASE a.negative
    BY <1>1, <1>2, <1>4, <2>1 DEF One
  <2>2. CASE ~a.negative
    BY <1>1, <1>2, <1>4, <2>2 DEF One
  <2> QED
    BY <2>1, <2>2
<1>11. u \in Stats
  BY <1>1, <1>4, <1>5, <1>6, <1>8, <1>9, <1>10 DEF Stats
<1>12. ASSUME NEW field \in {"correct", "total"}
       PROVE  ByType(u, field) = u[field] /\ BySize(u, field) = u[field]
  <2> DEFINE d == u[field] - s[field]
  <2>1. /\ d \in {0, 1} /\ u[field] = s[field] + d
        /\ Add(s.byType[t], right)[field] = s.byType[t][field] + d
        /\ Add(s.bySize[b], right)[field] = s.bySize[b][field] + d
    <3>1. CASE field = "correct"
      BY <1>1, <1>4, <1>6, <1>7, <3>1
    <3>2. CASE field = "total"
      BY <1>1, <1>4, <1>6, <1>7, <3>2
    <3> QED
      BY <3>1, <3>2
  <2>2. /\ \A q \in QuestionTypes : s.byType[q][field] \in Nat
        /\ \A c \in SizeBuckets : s.bySize[c][field] \in Nat
    <3>1. \A x \in Tally : x[field] \in Nat
      BY DEF Tally
    <3> QED
      BY <1>1, <3>1
  <2>3. ByType(s, field) = s[field] /\ BySize(s, field) = s[field]
    BY DEF Consistent
  <2> HIDE DEF d
  <2>4. \A q \in QuestionTypes : u.byType[q][field] = s.byType[q][field] + (IF q = t THEN d ELSE 0)
    BY <1>1, <1>2, <1>4, <2>1, <2>2
  <2>5. \A c \in SizeBuckets : u.bySize[c][field] = s.bySize[c][field] + (IF c = b THEN d ELSE 0)
    BY <1>1, <1>3, <1>4, <2>1, <2>2
  <2>6. ByType(u, field) = ByType(s, field) + d
    BY <1>2, <2>1, <2>2, <2>4 DEF ByType, QuestionTypes
  <2>7. BySize(u, field) = BySize(s, field) + d
    BY <1>3, <2>1, <2>2, <2>5 DEF BySize, SizeBuckets
  <2> QED
    BY <2>1, <2>3, <2>6, <2>7
<1>13. u.tp + u.fp + u.fn + u.tn = u.total
  BY <1>4, <1>10 DEF Consistent
<1>14. u.correct <= u.total
  BY <1>1, <1>4, <1>6 DEF Consistent
<1>15. Consistent(u)
  BY <1>11, <1>12, <1>13, <1>14 DEF Consistent
<1> QED
  BY <1>4, <1>10, <1>15 DEF u

\* A batch adds as many questions as it has, and no negative to a pass without.
LEMMA UpdateStep ==
  ASSUME NEW s, Consistent(s), NEW answers \in Seq(Answer)
  PROVE  LET u == Update(s, answers) IN
         /\ Consistent(u) /\ u.total = s.total + Len(answers)
         /\ (\A i \in DOMAIN answers : ~answers[i].negative) => u.tp = s.tp /\ u.fn = s.fn
<1> DEFINE N == Len(answers)
           plain == \A i \in DOMAIN answers : ~answers[i].negative
<1>1. N \in Nat /\ DOMAIN answers = 1..N /\ \A i \in 1..N : answers[i] \in Answer
  BY LenProperties
<1>2. PICK f : Counts(f, N, s, answers) /\ Update(s, answers) = f[N]
  BY <1>1, UpdateCounts
<1> HIDE DEF N
<1> DEFINE Good(n) == /\ Consistent(f[n]) /\ f[n].total = s.total + n
                      /\ plain => f[n].tp = s.tp /\ f[n].fn = s.fn
           T == {n \in 0..N : ~Good(n)}
<1>3. s.total \in Nat
  BY DEF Consistent, Stats
<1>4. T = {}
  <2> SUFFICES ASSUME T # {} PROVE FALSE
    OBVIOUS
  <2>1. PICK k \in T : \A l \in T : k <= l
    <3>1. T \in SUBSET Nat
      OBVIOUS
    <3> HIDE DEF T
    <3> QED
      BY <3>1, LeastNumber
  <2>2. k \in 0..N /\ ~Good(k)
    OBVIOUS
  <2>3. f[k] = IF k = 0 THEN s ELSE UpdateOne(f[k - 1], answers[k])
    BY <1>2, <2>2 DEF Counts
  <2>4. k # 0
    BY <1>3, <2>2, <2>3
  <2>5. Good(k - 1)
    <3>1. k - 1 \in 0..N /\ ~ (k <= k - 1)
      BY <1>1, <2>2, <2>4
    <3>2. k - 1 \notin T
      BY <2>1, <3>1
    <3> QED
      BY <3>1, <3>2
  <2>6. k \in 1..N /\ answers[k] \in Answer
    BY <1>1, <2>2, <2>4
  <2>7. /\ Consistent(f[k]) /\ f[k].total = f[k - 1].total + 1
        /\ ~answers[k].negative => f[k].tp = f[k - 1].tp /\ f[k].fn = f[k - 1].fn
    BY <2>3, <2>4, <2>5, <2>6, UpdateOneStep
  <2>8. f[k].total = s.total + k
    BY <1>3, <2>2, <2>5, <2>7
  <2> QED
    BY <1>1, <2>2, <2>5, <2>6, <2>7, <2>8
<1>5. N \in 0..N
  BY <1>1
<1>6. Good(N)
  BY <1>4, <1>5
<1> QED
  BY <1>2, <1>6 DEF N

-----------------------------------------------------------------------------
(* The composite metric.                                                   *)

\* Abbreviations: numbers that only the arithmetic steps look into.
Whole == 10000
Parts == 0..Whole
Scaled(n) == Whole * n
Times(d, r) == d * r
Four(d) == 4 * d
Weighed(a, b, c) == 2 * a + b + c
Close(r, num, den) == 2 * num <= den * (2 * r + 1) /\ den * (2 * r - 1) <= 2 * num
Part(num, n) == num <= Scaled(n)
AllBut(k, n, num) == Times(n, Whole - k) <= num
Near(r, u) == u.total * (2 * r - 1) <= 20000 * u.correct
Few(k, m, u) == k * (u.total - u.correct) <= m * u.total

LEMMA RoundFacts ==
  ASSUME NEW num \in Nat, NEW den \in Nat \ {0}
  PROVE  /\ Round4(num, den) # {} /\ Round4(num, den) \subseteq Nat
         /\ \A r \in Round4(num, den) : Close(r, num, den)
<1> DEFINE q == num \div den
<1>1. q \in Int /\ den * q <= num /\ num < den * q + den
  BY Z3
<1>2. Round4(num, den) = {r \in {q, q + 1} : Close(r, num, den)}
  BY DEF Round4, Close
<1> HIDE DEF q
<1>3. q \in Nat
  BY <1>1, Z3
<1>4. Close(q, num, den) \/ Close(q + 1, num, den)
  BY <1>1, <1>3, Z3 DEF Close
<1>5. Round4(num, den) # {}
  BY <1>2, <1>4
<1>6. Round4(num, den) \subseteq Nat /\ \A r \in Round4(num, den) : Close(r, num, den)
  BY <1>2, <1>3
<1> QED
  BY <1>5, <1>6

LEMMA RoundAtMost ==
  ASSUME NEW num \in Nat, NEW den \in Nat \ {0}, Part(num, den)
  PROVE  Round4(num, den) \subseteq Parts
<1>1. SUFFICES ASSUME NEW r \in Round4(num, den)
               PROVE  r \in Parts
  OBVIOUS
<1>2. r \in Nat /\ Close(r, num, den)
  BY RoundFacts
<1>3. den * (2 * r - 1) <= den * 20000
  BY <1>2, Z3 DEF Part, Close, Scaled, Whole
<1>4. r <= 10000
  BY <1>2, <1>3, Z3
<1> QED
  BY <1>2, <1>4 DEF Parts, Whole

LEMMA PartTimes ==
  ASSUME NEW d \in Nat \ {0}, NEW r \in Parts
  PROVE  Times(d, r) \in Nat /\ Part(Times(d, r), d)
<1>1. r \in Nat /\ r <= 10000
  BY DEF Parts, Whole
<1> QED
  BY <1>1, Z3 DEF Part, Times, Scaled, Whole

\* What the share of a tally may be, and what it says of the answers.
LEMMA ShareFacts ==
  ASSUME NEW u \in Tally, u.total # 0
  PROVE  /\ Round4(Scaled(u.correct), u.total) # {}
         /\ \A r \in Round4(Scaled(u.correct), u.total) : r \in Parts /\ Near(r, u)
<1> DEFINE num == Scaled(u.correct)
           den == u.total
<1>1. /\ u.correct \in Nat /\ u.total \in Nat \ {0} /\ u.correct <= u.total
  BY DEF Tally
<1>2. num \in Nat /\ den \in Nat \ {0} /\ Part(num, den)
  BY <1>1 DEF Scaled, Whole, Part
<1>3. ASSUME NEW r \in Nat, Close(r, num, den)
      PROVE  Near(r, u)
  <2>1. den * (2 * r - 1) <= 2 * num
    BY <1>3 DEF Close
  <2>2. 2 * num = 20000 * u.correct
    BY <1>1 DEF Scaled, Whole
  <2> QED
    BY <2>1, <2>2 DEF Near
<1> HIDE DEF num, den
<1>4. /\ Round4(num, den) # {} /\ Round4(num, den) \subseteq Nat
      /\ \A r \in Round4(num, den) : r \in Parts /\ Close(r, num, den)
  BY <1>2, RoundFacts, RoundAtMost
<1>5. /\ Round4(num, den) # {}
      /\ \A r \in Round4(num, den) : r \in Parts /\ Near(r, u)
  BY <1>3, <1>4
<1> QED
  BY <1>5 DEF num, den

LEMMA DenominatorFacts ==
  ASSUME NEW s, Consistent(s)
  PROVE  /\ Denominator(s) \in Nat \ {0}
         /\ Accuracy(s) \in Nat /\ Part(Accuracy(s), Denominator(s))
<1>1. s.total \in Nat /\ s.correct \in Nat /\ s.correct <= s.total
  BY DEF Consistent, Stats
<1> QED
  BY <1>1 DEF Denominator, Accuracy, Part, Scaled, Whole

LEMMA TypeAccuracyFacts ==
  ASSUME NEW s, Consistent(s), NEW t \in {"choice", "noul"}
  PROVE  /\ TypeAccuracies(s, t) # {}
         /\ \A a \in TypeAccuracies(s, t) :
              /\ a \in Nat /\ Part(a, Denominator(s))
              /\ s.byType[t].total # 0 =>
                   \E r \in Parts : a = Times(Denominator(s), r) /\ Near(r, s.byType[t])
<1> DEFINE d == Denominator(s)
           u == s.byType[t]
           R == Round4(Scaled(u.correct), u.total)
<1>1. u \in Tally
  BY DEF Consistent, Stats, QuestionTypes
<1>2. d \in Nat \ {0} /\ Accuracy(s) \in Nat /\ Part(Accuracy(s), d)
  BY DenominatorFacts
<1>3. TypeAccuracies(s, t) = IF u.total = 0 THEN {Accuracy(s)} ELSE {Times(d, r) : r \in R}
  BY DEF TypeAccuracies, Times, Scaled, Whole
<1>4. u.total # 0 => R # {} /\ \A r \in R : r \in Parts /\ Near(r, u)
  BY <1>1, ShareFacts
<1> HIDE DEF d, u, R
<1>5. \A r \in Parts : Times(d, r) \in Nat /\ Part(Times(d, r), d)
  BY <1>2, PartTimes
<1>6. /\ TypeAccuracies(s, t) # {}
      /\ \A a \in TypeAccuracies(s, t) :
           /\ a \in Nat /\ Part(a, d)
           /\ u.total # 0 => \E r \in Parts : a = Times(d, r) /\ Near(r, u)
  <2>1. CASE u.total = 0
    BY <1>2, <1>3, <2>1
  <2>2. CASE u.total # 0
    BY <1>3, <1>4, <1>5, <2>2
  <2> QED
    BY <2>1, <2>2
<1> QED
  BY <1>6 DEF d, u

LEMMA ScoreComponentFacts ==
  ASSUME NEW s, Consistent(s)
  PROVE  /\ ScoreComponents(s) # {}
         /\ \A b \in ScoreComponents(s) : b \in Nat /\ Part(b, Denominator(s))
<1> DEFINE d == Denominator(s)
           n == s.byType["score"].total
           num == 1000 * s.errors
           less(mae) == IF mae < 10000 THEN 10000 - mae ELSE 0
           R == Round4(num, n)
<1>1. n \in Nat /\ num \in Nat
  BY DEF Consistent, Stats, QuestionTypes, Tally
<1>2. d \in Nat \ {0} /\ Accuracy(s) \in Nat /\ Part(Accuracy(s), d)
  BY DenominatorFacts
<1>3. ScoreComponents(s) = IF n = 0 THEN {Accuracy(s)} ELSE {Times(d, less(mae)) : mae \in R}
  BY DEF ScoreComponents, Times
<1>4. \A mae \in Nat : less(mae) \in Parts
  BY DEF Parts, Whole
<1> HIDE DEF d, n, num, less
<1>5. n # 0 => R # {} /\ R \subseteq Nat
  BY <1>1, RoundFacts
<1> HIDE DEF R
<1>6. \A r \in Parts : Times(d, r) \in Nat /\ Part(Times(d, r), d)
  BY <1>2, PartTimes
<1>7. /\ ScoreComponents(s) # {}
      /\ \A b \in ScoreComponents(s) : b \in Nat /\ Part(b, d)
  <2>1. CASE n = 0
    BY <1>2, <1>3, <2>1
  <2>2. CASE n # 0
    BY <1>3, <1>4, <1>5, <1>6, <2>2
  <2> QED
    BY <2>1, <2>2
<1> QED
  BY <1>7 DEF d

\* A composite metric of 1.0 needs shares that are nearly so.
LEMMA WholeNeeds ==
  ASSUME NEW d \in Nat \ {0}, NEW a \in Nat, NEW b \in Nat, NEW c \in Nat,
         Part(a, d), Part(b, d), Part(c, d)
  PROVE  /\ Round4(Weighed(a, b, c), Four(d)) # {}
         /\ Round4(Weighed(a, b, c), Four(d)) \subseteq Parts
         /\ Whole \in Round4(Weighed(a, b, c), Four(d)) => AllBut(1, d, a) /\ AllBut(2, d, c)
<1> DEFINE num == Weighed(a, b, c)
           den == Four(d)
<1>1. num \in Nat /\ den \in Nat \ {0} /\ Part(num, den)
  BY DEF Weighed, Four, Part, Scaled, Whole
<1>2. ASSUME Close(Whole, num, den)
      PROVE  AllBut(1, d, a) /\ AllBut(2, d, c)
  <2>1. 19999 * den <= 2 * num
    BY <1>2, <1>1 DEF Close, Whole
  <2> QED
    BY <2>1 DEF Weighed, Four, Part, Scaled, AllBut, Times, Whole
<1> HIDE DEF num, den
<1>3. /\ Round4(num, den) # {} /\ Round4(num, den) \subseteq Parts
      /\ \A r \in Round4(num, den) : Close(r, num, den)
  BY <1>1, RoundFacts, RoundAtMost
<1>4. /\ Round4(num, den) # {} /\ Round4(num, den) \subseteq Parts
      /\ Whole \in Round4(num, den) => AllBut(1, d, a) /\ AllBut(2, d, c)
  BY <1>2, <1>3
<1> QED
  BY <1>4 DEF num, den

\* A share that had to be nearly whole, in the terms of the answers.
LEMMA HidesFew ==
  ASSUME NEW u \in Tally, NEW d \in Nat \ {0}, NEW r \in Parts, Near(r, u)
  PROVE  /\ AllBut(1, d, Times(d, r)) => Few(20000, 3, u)
         /\ AllBut(2, d, Times(d, r)) => Few(4000, 1, u)
<1> DEFINE c == u.correct
           n == u.total
<1>1. c \in Nat /\ n \in Nat /\ r \in Nat
  BY DEF Tally, Parts, Whole
<1>2. n * (2 * r - 1) <= 20000 * c
  BY DEF Near
<1> HIDE DEF c, n
<1>3. ASSUME AllBut(1, d, Times(d, r))
      PROVE  20000 * (n - c) <= 3 * n
  <2>1. r >= 9999
    BY <1>1, <1>3, Z3 DEF AllBut, Times, Whole
  <2>2. n * 19997 <= n * (2 * r - 1)
    BY <1>1, <2>1, Z3
  <2> DEFINE m == n * (2 * r - 1)
  <2>3. m \in Int /\ n * 19997 <= m /\ m <= 20000 * c
    BY <1>1, <1>2, <2>2
  <2> HIDE DEF m
  <2> QED
    BY <1>1, <2>3
<1>4. ASSUME AllBut(2, d, Times(d, r))
      PROVE  4000 * (n - c) <= 1 * n
  <2>1. r >= 9998
    BY <1>1, <1>4, Z3 DEF AllBut, Times, Whole
  <2>2. n * 19995 <= n * (2 * r - 1)
    BY <1>1, <2>1, Z3
  <2> DEFINE m == n * (2 * r - 1)
  <2>3. m \in Int /\ n * 19995 <= m /\ m <= 20000 * c
    BY <1>1, <1>2, <2>2
  <2> HIDE DEF m
  <2> QED
    BY <1>1, <2>3
<1> QED
  BY <1>3, <1>4 DEF Few, c, n

Tells(s) ==
  /\ Composites(s) # {} /\ Composites(s) \subseteq 0..10000
  /\ 10000 \in Composites(s) =>
       LET wrong(t) == s.byType[t].total - s.byType[t].correct IN
       /\ 20000 * wrong("choice") <= 3 * s.byType["choice"].total
       /\ 4000 * wrong("noul") <= s.byType["noul"].total

LEMMA CompositeFacts ==
  ASSUME NEW s, Consistent(s)
  PROVE  Tells(s)
<1> DEFINE d == Denominator(s)
           sum(a, b, c) == Round4(Weighed(a, b, c), Four(d))
           C == TypeAccuracies(s, "choice")
           S == ScoreComponents(s)
           N == TypeAccuracies(s, "noul")
<1>1. d \in Nat \ {0}
  BY DenominatorFacts
<1>2. /\ C # {} /\ S # {} /\ N # {}
      /\ \A x \in C : x \in Nat /\ Part(x, d)
      /\ \A x \in S : x \in Nat /\ Part(x, d)
      /\ \A x \in N : x \in Nat /\ Part(x, d)
  BY TypeAccuracyFacts, ScoreComponentFacts
<1>3. Composites(s) = UNION {sum(a, b, c) : a \in C, b \in S, c \in N}
  BY DEF Composites, Weighed, Four
<1>4. s.byType["choice"] \in Tally /\ s.byType["noul"] \in Tally
  BY DEF Consistent, Stats, QuestionTypes
<1>5. \A a \in C, b \in S, c \in N :
        /\ sum(a, b, c) # {} /\ sum(a, b, c) \subseteq Parts
        /\ Whole \in sum(a, b, c) => AllBut(1, d, a) /\ AllBut(2, d, c)
  <2> HIDE DEF d, C, S, N
  <2> QED
    BY <1>1, <1>2, WholeNeeds
<1>6. ASSUME NEW t \in {"choice", "noul"}, NEW a \in TypeAccuracies(s, t)
      PROVE  /\ AllBut(1, d, a) => Few(20000, 3, s.byType[t])
             /\ AllBut(2, d, a) => Few(4000, 1, s.byType[t])
  <2> DEFINE u == s.byType[t]
  <2>1. u \in Tally
    BY <1>4
  <2>2. CASE u.total = 0
    BY <2>1, <2>2 DEF Tally, Few
  <2>3. CASE u.total # 0
    <3>1. PICK r \in Parts : a = Times(d, r) /\ Near(r, u)
      BY <2>3, TypeAccuracyFacts
    <3> HIDE DEF d, u
    <3>2. /\ AllBut(1, d, a) => Few(20000, 3, u)
          /\ AllBut(2, d, a) => Few(4000, 1, u)
      BY <1>1, <2>1, <3>1, HidesFew
    <3> QED
      BY <3>2 DEF u
  <2> QED
    BY <2>2, <2>3
<1>7. /\ Composites(s) # {} /\ Composites(s) \subseteq Parts
      /\ Whole \in Composites(s) =>
           Few(20000, 3, s.byType["choice"]) /\ Few(4000, 1, s.byType["noul"])
  <2>1. ASSUME NEW a \in C, NEW c \in N, AllBut(1, d, a), AllBut(2, d, c)
        PROVE  Few(20000, 3, s.byType["choice"]) /\ Few(4000, 1, s.byType["noul"])
    BY <1>6, <2>1
  <2> HIDE DEF d, C, S, N, sum
  <2>2. Composites(s) # {}
    BY <1>2, <1>3, <1>5
  <2>3. Composites(s) \subseteq Parts
    BY <1>3, <1>5
  <2>4. ASSUME Whole \in Composites(s)
        PROVE  Few(20000, 3, s.byType["choice"]) /\ Few(4000, 1, s.byType["noul"])
    <3>1. PICK a \in C, b \in S, c \in N : Whole \in sum(a, b, c)
      BY <1>3, <2>4
    <3> QED
      BY <1>5, <2>1, <3>1
  <2> QED
    BY <2>2, <2>3, <2>4
<1>8. s.byType["noul"].total \in Nat /\ s.byType["noul"].correct \in Nat
  BY <1>4 DEF Tally
<1> QED
  BY <1>7, <1>8 DEF Few, Parts, Whole, Tells

-----------------------------------------------------------------------------
(* Lists: the items picked from one, counted in it and put behind another. *)

LEMMA Ranks ==
  ASSUME NEW n \in Nat, NEW S \in SUBSET (1..n)
  PROVE  /\ IsFiniteSet(S) /\ Cardinality(S) \in Nat
         /\ \A i \in S : Cardinality(S \cap (1..i)) \in 1..Cardinality(S)
         /\ \A k \in 1..Cardinality(S) : \E i \in S : Cardinality(S \cap (1..i)) = k
         /\ \A i, j \in S : Cardinality(S \cap (1..i)) = Cardinality(S \cap (1..j)) => i = j
<1> DEFINE c == Cardinality(S)
           rank == [i \in S |-> Cardinality(S \cap (1..i))]
<1>1. IsFiniteSet(1..n) /\ IsFiniteSet(S) /\ c \in Nat
  <2>1. IsFiniteSet(1..n)
    BY FS_Interval
  <2>2. IsFiniteSet(S)
    BY <2>1, FS_Subset
  <2> QED
    BY <2>1, <2>2, FS_CardinalityType
<1>2. \A i \in S : /\ IsFiniteSet(S \cap (1..i)) /\ Cardinality(S \cap (1..i)) \in Nat
                    /\ Cardinality(S \cap (1..i)) <= c
  BY <1>1, FS_Subset, FS_CardinalityType
<1>3. \A i \in S : Cardinality(S \cap (1..i)) \in 1..c
  <2> SUFFICES ASSUME NEW i \in S PROVE Cardinality(S \cap (1..i)) \in 1..c
    OBVIOUS
  <2>1. i \in S \cap (1..i)
    OBVIOUS
  <2>2. Cardinality(S \cap (1..i)) # 0
    BY <1>2, <2>1, FS_EmptySet
  <2> QED
    BY <1>1, <1>2, <2>2
<1>4. ASSUME NEW i \in S, NEW j \in S, i < j
      PROVE  Cardinality(S \cap (1..i)) # Cardinality(S \cap (1..j))
  <2>1. S \cap (1..i) \subseteq S \cap (1..j)
    BY <1>4
  <2>2. j \in S \cap (1..j) /\ j \notin S \cap (1..i)
    BY <1>4
  <2> QED
    BY <1>2, <2>1, <2>2, FS_Subset
<1>5. \A i, j \in S : Cardinality(S \cap (1..i)) = Cardinality(S \cap (1..j)) => i = j
  BY <1>4
<1>6. rank \in Injection(S, 1..c)
  <2>1. rank \in [S -> 1..c]
    BY <1>3
  <2>2. \A i, j \in S : rank[i] = rank[j] => i = j
    BY <1>5
  <2> HIDE DEF rank
  <2> QED
    BY <2>1, <2>2 DEF Injection, IsInjective
<1>7. IsFiniteSet(1..c) /\ Cardinality(1..c) = c
  BY <1>1, FS_Interval
<1>8. rank \in Surjection(S, 1..c)
  BY <1>6, <1>7, FS_Injection
<1>9. \A k \in 1..c : \E i \in S : rank[i] = k
  BY <1>8 DEF Surjection
<1> QED
  BY <1>1, <1>3, <1>5, <1>9

\* where gives the place in q of each item of Picked(q, places), none twice.
PlacesOf(where, q, places) ==
  /\ where \in [1..Cardinality(places) -> places]
  /\ \A m, n \in 1..Cardinality(places) : where[m] = where[n] => m = n
  /\ \A i \in places : \E n \in 1..Cardinality(places) : where[n] = i
  /\ \A n \in 1..Cardinality(places) : Picked(q, places)[n] = q[where[n]]

LEMMA PickedFacts ==
  ASSUME NEW T, NEW q \in Seq(T), NEW places \in SUBSET DOMAIN q
  PROVE  /\ IsFiniteSet(places) /\ Cardinality(places) \in Nat
         /\ Picked(q, places) \in Seq(T)
         /\ Len(Picked(q, places)) = Cardinality(places)
         /\ DOMAIN Picked(q, places) = 1..Cardinality(places)
         /\ \E where : PlacesOf(where, q, places)
<1> DEFINE c == Cardinality(places)
           r == Picked(q, places)
           place(n) == CHOOSE i \in places : Cardinality(places \cap (1..i)) = n
           where == [n \in 1..c |-> place(n)]
<1>1. DOMAIN q = 1..Len(q) /\ Len(q) \in Nat /\ \A i \in DOMAIN q : q[i] \in T
  BY LenProperties
<1>2. /\ IsFiniteSet(places) /\ c \in Nat
      /\ \A i \in places : Cardinality(places \cap (1..i)) \in 1..c
      /\ \A k \in 1..c : \E i \in places : Cardinality(places \cap (1..i)) = k
      /\ \A i, j \in places : Cardinality(places \cap (1..i)) = Cardinality(places \cap (1..j)) => i = j
  BY <1>1, Ranks
<1>3. r = [n \in 1..c |-> q[place(n)]]
  BY DEF Picked
<1>4. \A n \in 1..c : place(n) \in places /\ Cardinality(places \cap (1..place(n))) = n
  BY <1>2
<1>5. \A i \in places : place(Cardinality(places \cap (1..i))) = i
  BY <1>2, <1>4
<1> HIDE DEF place
<1>6. r \in [1..c -> T]
  BY <1>1, <1>3, <1>4
<1>7. r \in Seq(T) /\ Len(r) = c /\ DOMAIN r = 1..c
  <2>1. r \in Seq(T)
    BY <1>2, <1>6, SeqDef
  <2>2. DOMAIN r = 1..c
    BY <1>6
  <2> QED
    BY <1>2, <2>1, <2>2, LenProperties
<1>8. where \in [1..c -> places]
  BY <1>4
<1>9. \A m, n \in 1..c : where[m] = where[n] => m = n
  BY <1>4
<1>10. \A i \in places : \E n \in 1..c : where[n] = i
  <2> SUFFICES ASSUME NEW i \in places PROVE \E n \in 1..c : where[n] = i
    OBVIOUS
  <2> DEFINE n == Cardinality(places \cap (1..i))
  <2>1. n \in 1..c /\ place(n) = i
    BY <1>2, <1>5
  <2> HIDE DEF n
  <2> QED
    BY <2>1
<1>11. \A n \in 1..c : r[n] = q[where[n]]
  BY <1>3
<1>12. PlacesOf(where, q, places)
  <2> HIDE DEF where
  <2> QED
    BY <1>8, <1>9, <1>10, <1>11 DEF PlacesOf
<1> QED
  BY <1>2, <1>7, <1>12

LEMMA SameCount ==
  ASSUME NEW S, NEW T, IsFiniteSet(S), NEW f \in [S -> T],
         \A x, y \in S : f[x] = f[y] => x = y,
         \A z \in T : \E x \in S : f[x] = z
  PROVE  IsFiniteSet(T) /\ Cardinality(T) = Cardinality(S)
<1>1. f \in Bijection(S, T)
  BY DEF Bijection, Injection, Surjection, IsInjective
<1>2. ExistsBijection(S, T)
  BY <1>1 DEF ExistsBijection
<1> QED
  BY <1>2, FS_Bijection

\* The places a list gives to the values in V.
Holding(q, V) == {i \in DOMAIN q : q[i] \in V}

\* A value fills as many places of the picked list as it filled of these in q.
LEMMA PickedCount ==
  ASSUME NEW T, NEW q \in Seq(T), NEW places \in SUBSET DOMAIN q, NEW V
  PROVE  Cardinality(Holding(Picked(q, places), V)) = Cardinality(Holding(q, V) \cap places)
<1> DEFINE c == Cardinality(places)
           r == Picked(q, places)
           A == Holding(r, V)
           B == Holding(q, V) \cap places
<1>1. DOMAIN r = 1..c /\ IsFiniteSet(places) /\ c \in Nat
  BY PickedFacts
<1>2. PICK where : PlacesOf(where, q, places)
  BY PickedFacts
<1> DEFINE f == [n \in A |-> where[n]]
<1>3. /\ A \subseteq 1..c /\ \A n \in 1..c : n \in A <=> r[n] \in V
      /\ B \subseteq places /\ \A i \in places : i \in B <=> q[i] \in V
  BY <1>1 DEF Holding
<1>4. IsFiniteSet(A)
  <2>1. IsFiniteSet(1..c)
    BY <1>1, FS_Interval
  <2> QED
    BY <1>3, <2>1, FS_Subset
<1>5. \A n \in 1..c : where[n] \in places /\ r[n] = q[where[n]]
  BY <1>2 DEF PlacesOf
<1>6. f \in [A -> B]
  BY <1>3, <1>5
<1>7. \A m, n \in A : f[m] = f[n] => m = n
  BY <1>2, <1>3 DEF PlacesOf
<1>8. \A i \in B : \E n \in A : f[n] = i
  <2> SUFFICES ASSUME NEW i \in B PROVE \E n \in A : f[n] = i
    OBVIOUS
  <2>1. PICK n \in 1..c : where[n] = i
    BY <1>2 DEF PlacesOf
  <2>2. n \in A
    BY <1>3, <1>5, <2>1
  <2> QED
    BY <2>1, <2>2
<1>9. Cardinality(A) = Cardinality(B)
  <2> HIDE DEF A, B, f
  <2> QED
    BY <1>4, <1>6, <1>7, <1>8, SameCount
<1> QED
  BY <1>9

LEMMA HoldingFinite ==
  ASSUME NEW T, NEW q \in Seq(T), NEW V
  PROVE  /\ Holding(q, V) \in SUBSET (1..Len(q))
         /\ IsFiniteSet(Holding(q, V)) /\ Cardinality(Holding(q, V)) \in Nat
<1>1. DOMAIN q = 1..Len(q) /\ Len(q) \in Nat
  BY LenProperties
<1>2. Holding(q, V) \in SUBSET (1..Len(q))
  BY <1>1 DEF Holding
<1> QED
  BY <1>1, <1>2, Ranks

LEMMA ConcatFacts ==
  ASSUME NEW T, NEW a \in Seq(T), NEW b \in Seq(T)
  PROVE  LET r == a \o b IN
         /\ r \in Seq(T) /\ Len(r) = Len(a) + Len(b)
         /\ Len(a) \in Nat /\ Len(b) \in Nat
         /\ DOMAIN a = 1..Len(a) /\ DOMAIN b = 1..Len(b) /\ DOMAIN r = 1..(Len(a) + Len(b))
         /\ \A i \in 1..Len(a) : r[i] = a[i]
         /\ \A i \in 1..Len(b) : r[Len(a) + i] = b[i]
<1> DEFINE r == a \o b
<1>1. Len(a) \in Nat /\ Len(b) \in Nat /\ DOMAIN a = 1..Len(a) /\ DOMAIN b = 1..Len(b)
  BY LenProperties
<1>2. /\ r \in Seq(T) /\ Len(r) = Len(a) + Len(b)
      /\ \A i \in 1..(Len(a) + Len(b)) : r[i] = IF i <= Len(a) THEN a[i] ELSE b[i - Len(a)]
  BY ConcatProperties
<1>3. DOMAIN r = 1..Len(r)
  BY <1>2, LenProperties
<1> HIDE DEF r
<1>4. \A i \in 1..Len(a) : r[i] = a[i]
  BY <1>1, <1>2
<1>5. ASSUME NEW i \in 1..Len(b) PROVE r[Len(a) + i] = b[i]
  <2>1. Len(a) + i \in 1..(Len(a) + Len(b)) /\ ~ (Len(a) + i <= Len(a)) /\ (Len(a) + i) - Len(a) = i
    BY <1>1
  <2> QED
    BY <1>2, <2>1
<1> QED
  BY <1>1, <1>2, <1>3, <1>4, <1>5 DEF r

LEMMA ConcatCount ==
  ASSUME NEW T, NEW a \in Seq(T), NEW b \in Seq(T), NEW V
  PROVE  Cardinality(Holding(a \o b, V)) = Cardinality(Holding(a, V)) + Cardinality(Holding(b, V))
<1> DEFINE n == Len(a)
           r == a \o b
           A == Holding(a, V)
           B == Holding(b, V)
           C == {i \in Holding(r, V) : i > n}
           f == [i \in B |-> n + i]
<1>1. /\ r \in Seq(T) /\ n \in Nat /\ Len(b) \in Nat
      /\ DOMAIN a = 1..n /\ DOMAIN b = 1..Len(b) /\ DOMAIN r = 1..(n + Len(b))
      /\ \A i \in 1..n : r[i] = a[i]
      /\ \A i \in 1..Len(b) : r[n + i] = b[i]
  BY ConcatFacts
<1>2. /\ A \in SUBSET (1..n) /\ IsFiniteSet(A) /\ Cardinality(A) \in Nat
      /\ B \in SUBSET (1..Len(b)) /\ IsFiniteSet(B) /\ Cardinality(B) \in Nat
  BY HoldingFinite
<1> HIDE DEF n, r
<1>3. \A i \in 1..Len(b) : n + i \in DOMAIN r /\ n + i > n
  BY <1>1
<1>4. f \in [B -> C]
  BY <1>1, <1>2, <1>3 DEF Holding
<1>5. \A i, j \in B : f[i] = f[j] => i = j
  BY <1>1, <1>2
<1>6. \A k \in C : \E i \in B : f[i] = k
  <2> SUFFICES ASSUME NEW k \in C PROVE \E i \in B : f[i] = k
    OBVIOUS
  <2>1. k \in 1..(n + Len(b)) /\ k > n /\ r[k] \in V
    BY <1>1 DEF Holding
  <2>2. k - n \in 1..Len(b) /\ n + (k - n) = k
    BY <1>1, <2>1
  <2>3. b[k - n] \in V
    BY <1>1, <2>1, <2>2
  <2>4. k - n \in B
    BY <1>1, <2>2, <2>3 DEF Holding
  <2> QED
    BY <2>2, <2>4
<1>7. IsFiniteSet(C) /\ Cardinality(C) = Cardinality(B)
  <2> HIDE DEF B, C, f
  <2> QED
    BY <1>2, <1>4, <1>5, <1>6, SameCount
<1>8. Holding(r, V) = A \cup C
  <2>1. ASSUME NEW i \in Holding(r, V) PROVE i \in A \cup C
    <3>1. i \in 1..(n + Len(b)) /\ r[i] \in V
      BY <1>1 DEF Holding
    <3>2. CASE i > n
      BY <3>2
    <3>3. CASE ~ (i > n)
      <4>1. i \in 1..n /\ a[i] \in V
        BY <1>1, <3>1, <3>3
      <4> QED
        BY <1>1, <4>1 DEF Holding
    <3> QED
      BY <3>2, <3>3
  <2>2. ASSUME NEW i \in A PROVE i \in Holding(r, V)
    <3>1. i \in 1..n /\ a[i] \in V
      BY <1>1 DEF Holding
    <3>2. i \in 1..(n + Len(b)) /\ r[i] \in V
      BY <1>1, <3>1
    <3> QED
      BY <1>1, <3>2 DEF Holding
  <2> QED
    BY <2>1, <2>2
<1>9. A \cap C = {}
  BY <1>1, <1>2
<1>10. Cardinality(A \cup C) = Cardinality(A) + Cardinality(C)
  <2> HIDE DEF A, C
  <2>1. Cardinality(A \cup C) = Cardinality(A) + Cardinality(C) - Cardinality(A \cap C)
    BY <1>2, <1>7, FS_Union
  <2>2. Cardinality(A \cap C) = 0
    BY <1>9, FS_EmptySet
  <2>3. Cardinality(C) \in Nat
    BY <1>7, FS_CardinalityType
  <2> QED
    BY <1>2, <2>1, <2>2, <2>3
<1> QED
  BY <1>7, <1>8, <1>10 DEF r

\* A list in two parts, with another one between them.
LEMMA AroundCount ==
  ASSUME NEW T, NEW q \in Seq(T), NEW b \in Seq(T), NEW S \in SUBSET DOMAIN q, NEW V
  PROVE  LET r == Picked(q, S) \o b \o Picked(q, DOMAIN q \ S) IN
         /\ r \in Seq(T)
         /\ Cardinality(Holding(r, V)) = Cardinality(Holding(q, V)) + Cardinality(Holding(b, V))
<1> DEFINE O == DOMAIN q \ S
           x == Picked(q, S)
           y == Picked(q, O)
           H == Holding(q, V)
<1>1. x \in Seq(T) /\ y \in Seq(T) /\ O \in SUBSET DOMAIN q
  BY PickedFacts
<1>2. /\ Cardinality(Holding(x, V)) = Cardinality(H \cap S)
      /\ Cardinality(Holding(y, V)) = Cardinality(H \cap O)
  BY <1>1, PickedCount
<1>3. x \o b \in Seq(T)
  BY <1>1, ConcatFacts
<1>4. Cardinality(Holding(x \o b, V)) = Cardinality(Holding(x, V)) + Cardinality(Holding(b, V))
  BY <1>1, ConcatCount
<1>5. /\ (x \o b) \o y \in Seq(T)
      /\ Cardinality(Holding((x \o b) \o y, V))
           = Cardinality(Holding(x \o b, V)) + Cardinality(Holding(y, V))
  BY <1>1, <1>3, ConcatFacts, ConcatCount
<1>6. Cardinality(H) = Cardinality(H \cap S) + Cardinality(H \cap O)
  <2>1. IsFiniteSet(H) /\ H \subseteq DOMAIN q
    BY HoldingFinite DEF Holding
  <2>2. IsFiniteSet(H \cap S) /\ IsFiniteSet(H \cap O)
    BY <2>1, FS_Subset
  <2>3. H = (H \cap S) \cup (H \cap O) /\ (H \cap S) \cap (H \cap O) = {}
    BY <2>1
  <2> HIDE DEF H, O
  <2>4. Cardinality(H) = Cardinality(H \cap S) + Cardinality(H \cap O) - Cardinality((H \cap S) \cap (H \cap O))
    BY <2>2, <2>3, FS_Union
  <2>5. Cardinality((H \cap S) \cap (H \cap O)) = 0
    BY <2>3, FS_EmptySet
  <2> QED
    BY <2>2, <2>4, <2>5, FS_CardinalityType
<1>7. /\ Cardinality(Holding(b, V)) \in Nat /\ Cardinality(Holding(x, V)) \in Nat
      /\ Cardinality(Holding(y, V)) \in Nat
  BY <1>1, HoldingFinite
<1> QED
  BY <1>2, <1>4, <1>5, <1>6, <1>7

-----------------------------------------------------------------------------
(* The inductive invariant.                                                *)

\* What a key can be, and what a row can be known by.
Key ==
  UNION {Strings, {ToString(n) : n \in Int}, {"true", "false"}, Range(LevelKeys(5)), Range(LevelKeys(6)),
         Range(TopicKeys), Range(MnliNames), Range(JnliNames), Range(MarcKeys), Range(QaKeys)}
Place == {"file", "train", "validation", "test", "validation_matched"}
Sample ==
  [dataset : DOMAIN Catalogue, row : Corpora \X Place \X Key, type : QuestionTypes,
   text : DOMAIN TextLength, criteria : Seq(Key), target : Key,
   negative : {"", "in_domain", "cross"}, truth : Key]
Good == {s \in Sample : KeepsContract(s.type, s.criteria, s.target) /\ IsInjective(s.criteria)}

\* Where the rows of a training set and of an evaluation come from.
Trained(s, held) == s.row[2] = "train" \/ (s.row[2] = "file" /\ s.row[3] \notin held)
Evaluated(s, held) ==
  \/ s.row[2] \in {"validation", "test", "validation_matched"}
  \/ s.row[2] = "file" /\ s.row[3] \in held

Preparing == phase \in {"train", "inject", "validation"}

Control ==
  /\ phase \in {"train", "inject", "validation", "reading", "bias", "done", "failed"}
  /\ names \in Setups
  /\ at \in [d : Nat \ {0}, r : Nat \ {0}, n : Nat]
  /\ epoch \in 0..(2 * Epochs + 1)
  /\ phase \in {"reading", "bias"} => epoch <= 2 * Epochs
  /\ next \in Nat \ {0}
  /\ Preparing => epoch = 0 /\ next = 1 /\ batch = <<>> /\ stats = NoStats /\ bias = NoBias
  /\ phase = "bias" => batch = <<>> /\ ~IsTraining

Collected ==
  /\ train \in Seq(Good) /\ val \in Seq(Good) /\ negatives \in Seq(Good)
  /\ \A i \in DOMAIN train : Trained(train[i], heldOut)
  /\ \A i \in DOMAIN negatives : Trained(negatives[i], heldOut)
  /\ \A i \in DOMAIN val : Evaluated(val[i], heldOut) /\ Unmarked(val[i])

Injected ==
  /\ phase \in {"train", "inject"} => \A i \in DOMAIN train : Unmarked(train[i])
  /\ \A i \in DOMAIN negatives : ~Unmarked(negatives[i]) /\ IsChoice(negatives[i])
  /\ phase = "inject" => Len(negatives) <= NumNegatives
  /\ phase # "inject" => negatives = <<>>
  /\ used \subseteq DOMAIN ChoiceSamples
  /\ phase # "inject" => used = {}

\* Sample b of the batch is b places after the last one handed over.
ReadFrom(b) == next - Len(batch) + b - 1

\* The item is the sample s, as it is read.
ShowsSample(item, s, isTrain) ==
  /\ item.keys[item.label + 1] = s.target
  /\ Range(item.keys) = Range(OptionsOf(s)) /\ Len(item.keys) = Len(OptionsOf(s))
  /\ s.type # "choice" \/ ~isTrain => item.keys = OptionsOf(s)
  /\ item.length <= MaxLength

BatchItem == [keys : Seq(Key), label : Nat, length : Int]

Batched ==
  /\ batch \in Seq(BatchItem)
  /\ Len(batch) <= BatchSize
  /\ Len(batch) < next /\ next <= Len(Reading) + 1
  /\ \A b \in DOMAIN batch : ShowsSample(batch[b], Reading[ReadFrom(b)], IsTraining)

Counted ==
  /\ Consistent(stats)
  /\ phase = "reading" => stats.total = next - 1 - Len(batch)
  /\ ~IsTraining => stats.tp = 0 /\ stats.fn = 0

Measured ==
  /\ bias \in [seen : Nat, keyed : {0}, slotted : Nat, moved : BOOLEAN]
  /\ bias.slotted > 0 <=> bias.moved

IInv == Control /\ Collected /\ Injected /\ Batched /\ Counted /\ Measured

-----------------------------------------------------------------------------
(* The corpora.                                                            *)

LEMMA CatalogueFacts ==
  ASSUME NEW name \in DOMAIN Catalogue
  PROVE  LET c == Catalogue[name].corpus
             t == Catalogue[name].type
         IN  /\ t \in {"choice", "noul", "score", "all"}
             /\ c # "synthetic" =>
                  \/ t = "choice" /\ c \in {"banking77", "clinc150", "mnli", "ag_news", "marc_ja", "jnli", "jcqa"}
                  \/ t = "score" /\ c \in {"sst5", "jsts"}
                  \/ t = "noul" /\ c \in {"mnli", "marc_ja", "jnli"}
<1>1. DOMAIN Catalogue =
        {"banking77", "clinc150", "mnli_choice", "mnli_noul", "ag_news", "sst5", "jglue_marc_ja",
         "jglue_marc_ja_choice", "jglue_jnli", "jglue_jnli_noul", "jglue_jsts",
         "jglue_jcommonsenseqa", "synthetic_all", "synthetic_choice", "synthetic_score",
         "synthetic_noul"}
  BY DEF Catalogue
<1>2. /\ Catalogue["banking77"] = Source("banking77", "choice")
      /\ Catalogue["clinc150"] = Source("clinc150", "choice")
      /\ Catalogue["mnli_choice"] = Source("mnli", "choice")
      /\ Catalogue["mnli_noul"] = Source("mnli", "noul")
      /\ Catalogue["ag_news"] = Source("ag_news", "choice")
      /\ Catalogue["sst5"] = Source("sst5", "score")
      /\ Catalogue["jglue_marc_ja"] = Source("marc_ja", "noul")
      /\ Catalogue["jglue_marc_ja_choice"] = Source("marc_ja", "choice")
  BY DEF Catalogue
<1>3. /\ Catalogue["jglue_jnli"] = Source("jnli", "choice")
      /\ Catalogue["jglue_jnli_noul"] = Source("jnli", "noul")
      /\ Catalogue["jglue_jsts"] = Source("jsts", "score")
      /\ Catalogue["jglue_jcommonsenseqa"] = Source("jcqa", "choice")
      /\ Catalogue["synthetic_all"] = Source("synthetic", "all")
      /\ Catalogue["synthetic_choice"] = Source("synthetic", "choice")
      /\ Catalogue["synthetic_score"] = Source("synthetic", "score")
      /\ Catalogue["synthetic_noul"] = Source("synthetic", "noul")
  BY DEF Catalogue
<1>4. \A c, t : Source(c, t).corpus = c /\ Source(c, t).type = t
  BY DEF Source
<1> QED
  BY <1>1, <1>2, <1>3, <1>4

LEMMA CorpusFacts ==
  ASSUME NEW name \in DOMAIN Catalogue, NEW split \in {"train", "validation"}
  PROVE  LET c == Catalogue[name].corpus
             rows == RowsOf(name, split)
         IN  /\ c # "synthetic" => rows \in Seq(HubRow)
             /\ c = "synthetic" => rows \in Seq(FileLine) /\ \A i \in DOMAIN rows : IsKeyList(rows[i].criteria)
<1> DEFINE c == Catalogue[name].corpus
<1>1. c \in Corpora
  BY DEF Corpora
<1>2. CASE c # "synthetic"
  <2>1. RowsOf(name, split) = Hub[c][HubSplit(c, split)]
    BY <1>2 DEF RowsOf
  <2> QED
    BY <1>1, <1>2, <2>1, CorpusAssumption
<1>3. CASE c = "synthetic"
  <2>1. RowsOf(name, split) = Lines
    BY <1>3 DEF RowsOf
  <2> QED
    BY <1>3, <2>1, CorpusAssumption
<1> QED
  BY <1>2, <1>3

LEMMA LevelKeysFacts ==
  ASSUME NEW n \in 0..10
  PROVE  /\ LevelKeys(n) \in Seq(Range(LevelKeys(n))) /\ IsInjective(LevelKeys(n))
         /\ Len(LevelKeys(n)) = n
<1> DEFINE all == <<"0", "1", "2", "3", "4", "5", "6", "7", "8", "9">>
           r == LevelKeys(n)
<1>2. \A i, j \in 1..10 : all[i] = all[j] => i = j
  OBVIOUS
<1> DEFINE T == {all[i] : i \in 1..10}
<1>3. \A i \in 1..10 : all[i] \in T
  OBVIOUS
<1> HIDE DEF all, T
<1>4. r = SubSeq(all, 1, n)
  BY DEF LevelKeys, all
<1> HIDE DEF r
<1>5. /\ r \in Seq(T) /\ Len(r) = (IF 1 <= n THEN n - 1 + 1 ELSE 0)
      /\ \A i \in 1..(n - 1 + 1) : r[i] = all[1 + i - 1]
  <2>1. 1 \in Int /\ n \in Int /\ \A i \in 1..n : all[i] \in T
    BY <1>3
  <2> QED
    BY <1>4, <2>1, SubSeqProperties
<1>6. Len(r) = n /\ \A i \in 1..n : r[i] = all[i]
  BY <1>5
<1>7. DOMAIN r = 1..n
  BY <1>5, <1>6, LenProperties
<1>8. IsInjective(r)
  BY <1>2, <1>6, <1>7 DEF IsInjective
<1>9. r \in Seq(Range(r))
  <2>1. r \in [1..n -> Range(r)]
    BY <1>5, <1>7 DEF Range
  <2> QED
    BY <2>1, SeqDef
<1> QED
  BY <1>6, <1>8, <1>9 DEF r

LEMMA FixedKeys ==
  ASSUME NEW keys \in {TopicKeys, MnliNames, JnliNames, MarcNames, MarcKeys, QaKeys}
  PROVE  keys \in Seq(Range(keys)) /\ IsInjective(keys) /\ keys # <<>>
<1>1. CASE keys = TopicKeys
  BY <1>1 DEF TopicKeys, IsInjective, Range
<1>2. CASE keys = MnliNames
  BY <1>2 DEF MnliNames, IsInjective, Range
<1>3. CASE keys = JnliNames
  BY <1>3 DEF JnliNames, IsInjective, Range
<1>4. CASE keys = MarcNames
  BY <1>4 DEF MarcNames, IsInjective, Range
<1>5. CASE keys = MarcKeys
  BY <1>5 DEF MarcKeys, IsInjective, Range
<1>6. CASE keys = QaKeys
  BY <1>6 DEF QaKeys, IsInjective, Range
<1> QED
  BY <1>1, <1>2, <1>3, <1>4, <1>5, <1>6

LEMMA MarcRanges == Range(MarcNames) = Range(MarcKeys) \cup {"neutral"}
BY DEF MarcNames, MarcKeys, Range

LEMMA IndexedFacts ==
  ASSUME NEW T, NEW labels \in Seq(T), NEW i \in Int
  PROVE  Indexed(labels, i) \in Range(labels) \cup {Raises}
<1> DEFINE n == Len(labels)
<1>1. n \in Nat /\ DOMAIN labels = 1..n
  BY LenProperties
<1>2. CASE i \in 0..(n - 1)
  <2>1. i + 1 \in 1..n /\ Indexed(labels, i) = labels[i + 1]
    BY <1>1, <1>2 DEF Indexed
  <2> QED
    BY <1>1, <2>1 DEF Range
<1>3. CASE i \notin 0..(n - 1) /\ i \in (-n)..(-1)
  <2>1. n + i + 1 \in 1..n /\ Indexed(labels, i) = labels[n + i + 1]
    BY <1>1, <1>3 DEF Indexed
  <2> QED
    BY <1>1, <2>1 DEF Range
<1>4. CASE i \notin 0..(n - 1) /\ i \notin (-n)..(-1)
  BY <1>4 DEF Indexed
<1> QED
  BY <1>2, <1>3, <1>4

LEMMA CheckedFacts ==
  ASSUME NEW T, NEW labels \in Seq(T), NEW row \in HubRow
  PROVE  Checked(labels, row) \in Range(labels) \cup {Skip}
<1>1. row.label \in Int
  BY DEF HubRow
<1>2. Len(labels) \in Nat /\ DOMAIN labels = 1..Len(labels)
  BY LenProperties
<1>3. CASE row.label \in 0..(Len(labels) - 1)
  <2>1. row.label + 1 \in DOMAIN labels
    BY <1>1, <1>2, <1>3
  <2> QED
    BY <1>3, <2>1 DEF Checked, Range
<1>4. CASE row.label \notin 0..(Len(labels) - 1)
  BY <1>4 DEF Checked
<1> QED
  BY <1>3, <1>4

LEMMA AppendKeys ==
  ASSUME NEW K, NEW keys \in Seq(K), IsInjective(keys), NEW key \in K, key \notin Range(keys)
  PROVE  /\ Append(keys, key) \in Seq(K) /\ IsInjective(Append(keys, key))
         /\ Range(Append(keys, key)) = Range(keys) \cup {key}
         /\ Append(keys, key) # <<>>
<1> DEFINE n == Len(keys)
           r == Append(keys, key)
<1>1. n \in Nat /\ DOMAIN keys = 1..n
  BY LenProperties
<1>2. /\ r \in Seq(K) /\ Len(r) = n + 1
      /\ \A i \in 1..n : r[i] = keys[i]
      /\ r[n + 1] = key
  BY AppendProperties
<1>3. DOMAIN r = 1..(n + 1)
  BY <1>2, LenProperties
<1> HIDE DEF r, n
<1>4. \A i \in 1..n : r[i] \in Range(keys)
  BY <1>1, <1>2 DEF Range
<1>5. \A i \in DOMAIN r : i \in 1..n \/ i = n + 1
  BY <1>1, <1>3
<1>6. \A i, j \in DOMAIN r : r[i] = r[j] => i = j
  BY <1>1, <1>2, <1>4, <1>5 DEF IsInjective
<1>7. Range(r) \subseteq Range(keys) \cup {key}
  BY <1>2, <1>4, <1>5 DEF Range
<1>8. Range(keys) \cup {key} \subseteq Range(r)
  <2>1. n + 1 \in DOMAIN r /\ 1..n \subseteq DOMAIN r
    BY <1>1, <1>3
  <2> QED
    BY <1>1, <1>2, <2>1 DEF Range
<1>9. r # <<>>
  BY <1>1, <1>2, EmptySeq
<1> QED
  BY <1>2, <1>6, <1>7, <1>8, <1>9 DEF IsInjective, r

LEMMA SubsetSeq ==
  ASSUME NEW S, NEW T, S \subseteq T, NEW q \in Seq(S)
  PROVE  q \in Seq(T) /\ Range(q) \subseteq S
<1>1. Len(q) \in Nat /\ DOMAIN q = 1..Len(q) /\ \A i \in 1..Len(q) : q[i] \in S
  BY LenProperties
<1>2. q = [i \in 1..Len(q) |-> q[i]]
  BY LenProperties
<1>3. q \in [1..Len(q) -> T]
  BY <1>1, <1>2
<1> QED
  BY <1>1, <1>3, SeqDef DEF Range

LEMMA KeysFixed ==
  ASSUME NEW keys \in {TopicKeys, MnliNames, JnliNames, MarcKeys, QaKeys, LevelKeys(5), LevelKeys(6)}
  PROVE  keys \in Seq(Key) /\ IsInjective(keys) /\ Range(keys) \subseteq Key
<1>1. keys \in Seq(Range(keys)) /\ IsInjective(keys)
  <2>1. CASE keys \in {LevelKeys(5), LevelKeys(6)}
    BY <2>1, LevelKeysFacts
  <2>2. CASE keys \in {TopicKeys, MnliNames, JnliNames, MarcKeys, QaKeys}
    BY <2>2, FixedKeys
  <2> QED
    BY <2>1, <2>2
<1>2. Range(keys) \subseteq Key
  BY DEF Key
<1> QED
  BY <1>1, <1>2, SubsetSeq

LEMMA IntentFacts ==
  ASSUME NEW split, NEW target \in Key, NEW criteria \in IntentCandidates(split, target)
  PROVE  criteria \in Seq(Key) /\ IsInjective(criteria) /\ target \in Range(criteria)
<1>1. /\ IntentLabels \in Seq(Strings) /\ IsInjective(IntentLabels)
      /\ IntentLabels \in Seq(Key) /\ Range(IntentLabels) \subseteq Key
  <2>1. Strings \subseteq Key
    BY DEF Key
  <2>2. IntentLabels \in Seq(Strings) /\ IsInjective(IntentLabels)
    BY CorpusAssumption DEF IsKeyList
  <2> QED
    BY <2>1, <2>2, SubsetSeq
<1>2. CASE split = "train" /\ MaxNegative < Len(IntentLabels) - 1
  <2> DEFINE n == MaxNegative
             others == Range(IntentLabels) \ {target}
  <2>1. PICK draw \in [1..n -> others] : IsInjective(draw) /\ criteria = <<target>> \o draw
    BY <1>2 DEF IntentCandidates
  <2>2. n \in Nat /\ others \subseteq Key /\ target \notin others
    BY <1>1, SampleConstants
  <2> HIDE DEF n, others
  <2>3. draw \in Seq(Key) /\ Len(draw) = n
    <3>1. draw \in [1..n -> Key]
      BY <2>1, <2>2
    <3>2. draw \in Seq(Key) /\ DOMAIN draw = 1..n
      BY <2>2, <3>1, SeqDef
    <3> QED
      BY <2>2, <3>2, LenProperties
  <2>4. <<target>> \in Seq(Key) /\ Len(<<target>>) = 1 /\ <<target>>[1] = target
    OBVIOUS
  <2>5. /\ criteria \in Seq(Key) /\ DOMAIN criteria = 1..(1 + n)
        /\ \A i \in 1..1 : criteria[i] = target
        /\ \A i \in 1..n : criteria[1 + i] = draw[i]
    BY <2>1, <2>3, <2>4, ConcatFacts
  <2>6. criteria[1] = target /\ 1 \in DOMAIN criteria
    BY <2>2, <2>5
  <2>7. ASSUME NEW i \in DOMAIN criteria, NEW j \in DOMAIN criteria, criteria[i] = criteria[j]
        PROVE  i = j
    <3>1. \A k \in DOMAIN criteria : k # 1 => k - 1 \in 1..n /\ 1 + (k - 1) = k /\ criteria[k] = draw[k - 1]
      <4> SUFFICES ASSUME NEW k \in DOMAIN criteria, k # 1
                   PROVE  k - 1 \in 1..n /\ 1 + (k - 1) = k /\ criteria[k] = draw[k - 1]
        OBVIOUS
      <4>1. k - 1 \in 1..n /\ 1 + (k - 1) = k
        BY <2>2, <2>5
      <4> QED
        BY <2>5, <4>1
    <3>2. \A k \in DOMAIN criteria : k # 1 => criteria[k] # target
      BY <2>1, <2>2, <3>1
    <3>3. CASE i = 1 \/ j = 1
      BY <2>6, <2>7, <3>2, <3>3
    <3>4. CASE i # 1 /\ j # 1
      <4>1. i - 1 = j - 1
        BY <2>1, <2>7, <3>1, <3>4 DEF IsInjective
      <4> QED
        BY <2>2, <2>5, <4>1
    <3> QED
      BY <3>3, <3>4
  <2> QED
    BY <2>5, <2>6, <2>7 DEF IsInjective, Range
<1>3. CASE ~ (split = "train" /\ MaxNegative < Len(IntentLabels) - 1) /\ target \in Range(IntentLabels)
  <2>1. criteria = IntentLabels
    BY <1>3 DEF IntentCandidates
  <2> QED
    BY <1>1, <1>3, <2>1
<1>4. CASE ~ (split = "train" /\ MaxNegative < Len(IntentLabels) - 1) /\ target \notin Range(IntentLabels)
  <2>1. criteria = Append(IntentLabels, target)
    BY <1>4 DEF IntentCandidates
  <2> QED
    BY <1>1, <1>4, <2>1, AppendKeys
<1> QED
  BY <1>2, <1>3, <1>4

\* The options and the answer that a converter gives.
Offered(type, criteria, target) ==
  /\ criteria \in Seq(Key) /\ IsInjective(criteria) /\ target \in Key
  /\ KeepsContract(type, criteria, target)

LEMMA ChoiceOffered ==
  ASSUME NEW criteria, criteria \in Seq(Key), IsInjective(criteria), NEW target \in Range(criteria)
  PROVE  Offered("choice", criteria, target)
<1>1. target \in Key
  BY SubsetSeq
<1> QED
  BY <1>1 DEF Offered, KeepsContract

LEMMA ChoiceRow ==
  ASSUME NEW name \in DOMAIN Catalogue, Catalogue[name].type = "choice",
         Catalogue[name].corpus # "synthetic",
         NEW split, NEW row \in HubRow,
         TargetOf(name, row) \notin {Skip, Raises},
         NEW criteria \in CriteriaOf(name, split, TargetOf(name, row))
  PROVE  Offered("choice", criteria, TargetOf(name, row))
<1> DEFINE c == Catalogue[name].corpus
           l == LabelOf(c, row)
<1>1. TargetOf(name, row) = l
  BY DEF TargetOf
<1>2. row.label \in Int /\ row.name \in Strings
  BY DEF HubRow
<1>3. c \in {"banking77", "clinc150", "mnli", "ag_news", "marc_ja", "jnli", "jcqa"}
  BY CatalogueFacts
<1>4. Skip # Raises /\ l # Skip /\ l # Raises
  BY <1>1 DEF Skip, Raises
<1>5. CASE c = "ag_news"
  <2>1. l = Indexed(TopicKeys, row.label) /\ criteria = TopicKeys
    BY <1>1, <1>5 DEF LabelOf, AgNewsLabel, CriteriaOf
  <2>2. l \in Range(TopicKeys)
    BY <1>2, <1>4, <2>1, FixedKeys, IndexedFacts
  <2> QED
    BY <1>1, <2>1, <2>2, KeysFixed, ChoiceOffered
<1>6. CASE c = "mnli"
  <2>1. l = MnliLabel(row) /\ criteria = MnliNames
    BY <1>1, <1>6 DEF LabelOf, CriteriaOf
  <2>2. l = Indexed(MnliNames, row.label)
    BY <1>4, <2>1 DEF MnliLabel
  <2>3. l \in Range(MnliNames)
    BY <1>2, <1>4, <2>2, FixedKeys, IndexedFacts
  <2> QED
    BY <1>1, <2>1, <2>3, KeysFixed, ChoiceOffered
<1>7. CASE c = "jnli"
  <2>1. l = Checked(JnliNames, row) /\ criteria = JnliNames
    BY <1>1, <1>7 DEF LabelOf, JnliLabel, CriteriaOf
  <2>2. l \in Range(JnliNames)
    BY <1>4, <2>1, FixedKeys, CheckedFacts
  <2> QED
    BY <1>1, <2>1, <2>2, KeysFixed, ChoiceOffered
<1>8. CASE c = "marc_ja"
  <2>1. l = MarcLabel(row) /\ criteria = MarcKeys
    BY <1>1, <1>8 DEF LabelOf, CriteriaOf
  <2>2. l = Checked(MarcNames, row) /\ l # "neutral"
    BY <1>4, <2>1 DEF MarcLabel
  <2>3. l \in Range(MarcNames)
    BY <1>4, <2>2, FixedKeys, CheckedFacts
  <2>4. l \in Range(MarcKeys)
    BY <2>2, <2>3, MarcRanges
  <2> QED
    BY <1>1, <2>1, <2>4, KeysFixed, ChoiceOffered
<1>9. CASE c = "jcqa"
  <2>1. l = QaLabel(row) /\ criteria = QaKeys
    BY <1>1, <1>9 DEF LabelOf, CriteriaOf
  <2>2. l = Checked(QaKeys, row)
    BY <1>4, <2>1 DEF QaLabel
  <2>3. l \in Range(QaKeys)
    BY <1>4, <2>2, FixedKeys, CheckedFacts
  <2> QED
    BY <1>1, <2>1, <2>3, KeysFixed, ChoiceOffered
<1>10. IntentLabels \in Seq(Strings) /\ Strings \subseteq Key /\ \A n \in Int : ToString(n) \in Key
  BY CorpusAssumption DEF IsKeyList, Key
<1>11. CASE c = "clinc150"
  <2>1. l = Indexed(IntentLabels, row.label) /\ criteria \in IntentCandidates(split, l)
    BY <1>1, <1>11 DEF LabelOf, ClincLabel, CriteriaOf
  <2>2. l \in Range(IntentLabels)
    BY <1>2, <1>4, <1>10, <2>1, IndexedFacts
  <2>3. l \in Key
    BY <1>10, <2>2, SubsetSeq
  <2> QED
    BY <1>1, <2>1, <2>3, IntentFacts, ChoiceOffered
<1>12. CASE c = "banking77"
  <2>1. l = BankingLabel(row) /\ criteria \in IntentCandidates(split, l)
    BY <1>1, <1>12 DEF LabelOf, CriteriaOf
  <2>2. l \in Key
    <3>1. CASE row.name # ""
      BY <1>2, <1>10, <2>1, <3>1 DEF BankingLabel
    <3>2. CASE row.name = "" /\ row.label \in 0..(Len(IntentLabels) - 1)
      <4>1. row.label + 1 \in DOMAIN IntentLabels
        <5>1. Len(IntentLabels) \in Nat /\ DOMAIN IntentLabels = 1..Len(IntentLabels)
          BY <1>10, LenProperties
        <5> DEFINE n == Len(IntentLabels)
                   k == row.label
        <5>2. k \in 0..(n - 1)
          BY <3>2
        <5> HIDE DEF n, k
        <5>3. k + 1 \in 1..n
          BY <5>1, <5>2 DEF n
        <5> QED
          BY <5>1, <5>3 DEF n, k
      <4>2. IntentLabels[row.label + 1] \in Key
        BY <1>10, <4>1, LenProperties
      <4> QED
        BY <2>1, <3>2, <4>2 DEF BankingLabel
    <3>3. CASE row.name = "" /\ row.label \notin 0..(Len(IntentLabels) - 1)
      BY <1>2, <1>10, <2>1, <3>3 DEF BankingLabel
    <3> QED
      BY <3>1, <3>2, <3>3
  <2> QED
    BY <1>1, <2>1, <2>2, IntentFacts, ChoiceOffered
<1> QED
  BY <1>3, <1>5, <1>6, <1>7, <1>8, <1>9, <1>11, <1>12

LEMMA NoulRow ==
  ASSUME NEW name \in DOMAIN Catalogue, Catalogue[name].type = "noul",
         Catalogue[name].corpus # "synthetic",
         NEW split, NEW row \in HubRow,
         TargetOf(name, row) \notin {Skip, Raises},
         NEW criteria \in CriteriaOf(name, split, TargetOf(name, row))
  PROVE  Offered("noul", criteria, TargetOf(name, row))
<1> DEFINE t == TargetOf(name, row)
<1>1. t \in {"true", "false"}
  BY DEF TargetOf
<1>2. criteria = <<>>
  <2>1. Catalogue[name].corpus \in {"mnli", "marc_ja", "jnli"}
    BY CatalogueFacts
  <2> QED
    BY <2>1 DEF CriteriaOf
<1>3. t \in Key
  BY <1>1 DEF Key
<1>4. <<>> \in Seq(Key) /\ IsInjective(<<>>)
  BY DEF IsInjective
<1> QED
  BY <1>1, <1>2, <1>3, <1>4 DEF Offered, KeepsContract

LEMMA ScoreOffered ==
  ASSUME NEW n \in 2..10, LevelKeys(n) \in Seq(Key), NEW i \in 1..n
  PROVE  Offered("score", LevelKeys(n), LevelKeys(n)[i])
<1> DEFINE criteria == LevelKeys(n)
<1>1. IsInjective(criteria) /\ Len(criteria) = n
  <2>1. n \in 0..10
    OBVIOUS
  <2> QED
    BY <2>1, LevelKeysFacts
<1>2. DOMAIN criteria = 1..n /\ criteria[i] \in Key
  BY <1>1, LenProperties
<1>3. criteria[i] \in Range(criteria)
  BY <1>2 DEF Range
<1>4. criteria = LevelKeys(Len(criteria)) /\ Len(criteria) \in 2..10
  BY <1>1
<1> HIDE DEF criteria
<1>5. Offered("score", criteria, criteria[i])
  BY <1>1, <1>2, <1>3, <1>4 DEF Offered, KeepsContract
<1> QED
  BY <1>5 DEF criteria

LEMMA ScoreRow ==
  ASSUME NEW name \in DOMAIN Catalogue, Catalogue[name].type = "score",
         Catalogue[name].corpus # "synthetic",
         NEW split, NEW row \in HubRow,
         TargetOf(name, row) \notin {Skip, Raises},
         NEW criteria \in CriteriaOf(name, split, TargetOf(name, row))
  PROVE  Offered("score", criteria, TargetOf(name, row))
<1> DEFINE c == Catalogue[name].corpus
           l == LabelOf(c, row)
<1>1. TargetOf(name, row) = l /\ row.label \in Int
  BY DEF TargetOf, HubRow
<1>2. LevelKeys(5) \in Seq(Key) /\ LevelKeys(6) \in Seq(Key)
  BY KeysFixed
<1>3. c \in {"sst5", "jsts"}
  BY CatalogueFacts
<1>4. CASE c = "sst5"
  <2>1. l = Sst5Label(row) /\ criteria = LevelKeys(5)
    BY <1>1, <1>4 DEF LabelOf, CriteriaOf
  <2>2. row.label \in 0..4 /\ l = LevelKeys(5)[row.label + 1]
    BY <1>1, <2>1 DEF Sst5Label
  <2>3. row.label + 1 \in 1..5 /\ 5 \in 2..10
    BY <2>2
  <2> QED
    BY <1>1, <1>2, <2>1, <2>2, <2>3, ScoreOffered
<1>5. CASE c = "jsts"
  <2> DEFINE v == Rounded(row.label)
             i == 1 + (IF v < 0 THEN 0 ELSE IF v > 5 THEN 5 ELSE v)
  <2>1. l = JstsLabel(row) /\ criteria = LevelKeys(6)
    BY <1>1, <1>5 DEF LabelOf, CriteriaOf
  <2>2. v \in Int
    BY <1>1 DEF Rounded
  <2>3. l = LevelKeys(6)[i]
    BY <2>1 DEF JstsLabel, ClippedLevel
  <2> HIDE DEF v
  <2>4. i \in 1..6 /\ 6 \in 2..10
    BY <2>2
  <2> QED
    BY <1>1, <1>2, <2>1, <2>3, <2>4, ScoreOffered
<1> QED
  BY <1>3, <1>4, <1>5

LEMMA FileRow ==
  ASSUME NEW name \in DOMAIN Catalogue, NEW split, NEW row \in FileLine, IsKeyList(row.criteria),
         ~PassesOver(name, split, row)
  PROVE  Offered(row.type, row.criteria, row.target) /\ row.type \in QuestionTypes
<1>1. row.criteria \in Seq(Key)
  BY SubsetSeq DEF FileLine, Key
<1>2. row.target \in Key
  BY DEF FileLine, Key
<1> QED
  BY <1>1, <1>2 DEF PassesOver, FileLine, IsKeyList, Offered

\* A row that becomes a sample gives a good one, unmarked, that knows its split.
LEMMA ConvertedFacts ==
  ASSUME NEW name \in DOMAIN Catalogue, NEW split \in {"train", "validation"},
         NEW i \in Nat, i \in 1..Len(RowsOf(name, split)),
         Outcome(name, split, i) \notin {Skip, Raises},
         NEW s \in Converted(name, split, i)
  PROVE  /\ s \in Good /\ Unmarked(s)
         /\ IF split = "train" THEN Trained(s, heldOut) ELSE Evaluated(s, heldOut)
<1> DEFINE c == Catalogue[name].corpus
           row == RowsOf(name, split)[i]
           target == Outcome(name, split, i)
<1>1. c \in Corpora
  BY DEF Corpora
<1>2. CASE c = "synthetic"
  <2>1. row \in FileLine /\ IsKeyList(row.criteria)
    BY <1>2, CorpusFacts, LenProperties
  <2>2. ~PassesOver(name, split, row) /\ target = row.target
    BY <1>2 DEF Outcome
  <2>3. Offered(row.type, row.criteria, target) /\ row.type \in QuestionTypes
    BY <2>1, <2>2, FileRow
  <2>4. s = MakeSample(name, <<c, "file", row.id>>, row.type, row.text, row.criteria, target)
    BY <1>2 DEF Converted
  <2>5. row.id \in Key /\ row.text \in DOMAIN TextLength
    BY <2>1 DEF FileLine, Key
  <2>6. s \in Sample
    BY <1>1, <2>3, <2>4, <2>5 DEF MakeSample, Sample, Offered, Place
  <2>7. s \in Good /\ Unmarked(s) /\ s.row = <<c, "file", row.id>>
    BY <2>3, <2>4, <2>6 DEF MakeSample, Good, Offered, Unmarked
  <2>8. split = "train" <=> row.id \notin heldOut
    BY <2>2 DEF PassesOver
  <2> QED
    BY <2>7, <2>8 DEF Trained, Evaluated
<1>3. CASE c # "synthetic"
  <2> DEFINE type == Catalogue[name].type
  <2>1. row \in HubRow
    BY <1>3, CorpusFacts, LenProperties
  <2>2. target = TargetOf(name, row) /\ target \notin {Skip, Raises}
    BY <1>3 DEF Outcome
  <2>3. PICK criteria \in CriteriaOf(name, split, target) :
          s = MakeSample(name, <<c, HubSplit(c, split), ToString(i)>>, type, row.text, criteria, target)
    BY <1>3 DEF Converted
  <2>4. type \in {"choice", "score", "noul"}
    BY <1>3, CatalogueFacts
  <2> HIDE DEF row, target, type
  <2>5. Offered(type, criteria, target)
    <3>1. CASE type = "choice"
      BY <1>3, <2>1, <2>2, <2>3, <3>1, ChoiceRow DEF type
    <3>2. CASE type = "score"
      BY <1>3, <2>1, <2>2, <2>3, <3>2, ScoreRow DEF type
    <3>3. CASE type = "noul"
      BY <1>3, <2>1, <2>2, <2>3, <3>3, NoulRow DEF type
    <3> QED
      BY <2>4, <3>1, <3>2, <3>3
  <2>6. c \in {"banking77", "clinc150", "mnli", "ag_news", "marc_ja", "jnli", "jcqa", "sst5", "jsts"}
    BY <1>3, CatalogueFacts
  <2>7. IF split = "train" THEN HubSplit(c, split) = "train"
                           ELSE HubSplit(c, split) \in {"validation", "test", "validation_matched"}
    BY <2>6 DEF HubSplit
  <2>8. HubSplit(c, split) \in Place /\ ToString(i) \in Key /\ row.text \in DOMAIN TextLength
    BY <2>1, <2>7 DEF Place, Key, HubRow
  <2>9. s \in Sample
    BY <1>1, <2>3, <2>4, <2>5, <2>8 DEF MakeSample, Sample, Offered, QuestionTypes
  <2>10. s \in Good /\ Unmarked(s) /\ s.row = <<c, HubSplit(c, split), ToString(i)>>
    BY <2>3, <2>5, <2>9 DEF MakeSample, Good, Offered, Unmarked
  <2> QED
    BY <2>7, <2>10 DEF Trained, Evaluated
<1> QED
  BY <1>2, <1>3

-----------------------------------------------------------------------------
(* The steps that prepare the samples.                                     *)

LEMMA ScaledShare ==
  ASSUME NEW a \in Nat, NEW b \in Nat, NEW c \in Nat \ {0}
  PROVE  /\ (a * b) \div c \in Nat
         /\ ((a * b) \div c) * c <= a * b
         /\ b <= c => (a * b) \div c <= a
<1> DEFINE p == a * b
           q == p \div c
<1>1. p \in Nat
  BY Z3
<1>2. b <= c => p <= a * c
  BY Z3
<1> HIDE DEF p
<1>3. q \in Int /\ c * q <= p /\ p < c * q + c /\ q * c = c * q
  BY <1>1, Z3
<1> HIDE DEF q
<1>4. q >= 0
  BY <1>1, <1>3, Z3
<1>5. b <= c => q <= a
  BY <1>1, <1>2, <1>3, Z3
<1> QED
  BY <1>3, <1>4, <1>5 DEF p, q

LEMMA PickedMembers ==
  ASSUME NEW T, NEW q \in Seq(T), NEW places \in SUBSET DOMAIN q, NEW n \in DOMAIN Picked(q, places)
  PROVE  \E i \in places : Picked(q, places)[n] = q[i]
<1>1. PICK where : PlacesOf(where, q, places)
  BY PickedFacts
<1>2. n \in 1..Cardinality(places)
  BY PickedFacts
<1> QED
  BY <1>1, <1>2 DEF PlacesOf

LEMMA ChoiceFacts ==
  ASSUME train \in Seq(Good)
  PROVE  /\ ChoicePlaces(train) \in SUBSET DOMAIN train
         /\ Cardinality(ChoicePlaces(train)) \in Nat
         /\ ChoiceSamples \in Seq(Good) /\ Len(ChoiceSamples) = Cardinality(ChoicePlaces(train))
         /\ \A n \in DOMAIN ChoiceSamples :
              /\ ChoiceSamples[n] \in Good /\ IsChoice(ChoiceSamples[n])
              /\ \E i \in DOMAIN train : ChoiceSamples[n] = train[i]
<1>1. ChoicePlaces(train) \in SUBSET DOMAIN train
  BY DEF ChoicePlaces
<1>2. /\ Cardinality(ChoicePlaces(train)) \in Nat
      /\ ChoiceSamples \in Seq(Good) /\ Len(ChoiceSamples) = Cardinality(ChoicePlaces(train))
  BY <1>1, PickedFacts DEF ChoiceSamples
<1>3. ASSUME NEW n \in DOMAIN ChoiceSamples
      PROVE  /\ ChoiceSamples[n] \in Good /\ IsChoice(ChoiceSamples[n])
             /\ \E i \in DOMAIN train : ChoiceSamples[n] = train[i]
  <2>1. PICK i \in ChoicePlaces(train) : ChoiceSamples[n] = train[i]
    BY <1>1, PickedMembers DEF ChoiceSamples
  <2>2. i \in DOMAIN train /\ IsChoice(train[i])
    BY <2>1 DEF ChoicePlaces
  <2>3. train[i] \in Good
    BY <2>2, LenProperties
  <2> QED
    BY <2>1, <2>2, <2>3
<1> QED
  BY <1>1, <1>2, <1>3

LEMMA NegativeNumbers ==
  ASSUME train \in Seq(Good)
  PROVE  /\ NumNegatives \in Nat
         /\ NumInDomain \in Nat /\ NumInDomain <= NumNegatives
         /\ NumNegatives * (RatioDen - RatioNum) <= Cardinality(ChoicePlaces(train)) * RatioNum
<1> DEFINE c == Len(ChoiceSamples)
           d == RatioDen - RatioNum
<1>1. c \in Nat /\ c = Cardinality(ChoicePlaces(train))
  BY ChoiceFacts
<1>2. /\ RatioNum \in Nat /\ d \in Nat \ {0}
      /\ InDomainNum \in Nat /\ InDomainDen \in Nat \ {0} /\ InDomainNum <= InDomainDen
  BY SampleConstants
<1>3. NumNegatives = (c * RatioNum) \div d
  BY DEF NumNegatives
<1> HIDE DEF c, d
<1>4. NumNegatives \in Nat /\ NumNegatives * d <= c * RatioNum
  BY <1>1, <1>2, <1>3, ScaledShare
<1>5. NumInDomain \in Nat /\ NumInDomain <= NumNegatives
  BY <1>2, <1>4, ScaledShare DEF NumInDomain
<1> QED
  BY <1>1, <1>4, <1>5 DEF d

LEMMA SameTrain ==
  ASSUME train' = train
  PROVE  /\ NumNegatives' = NumNegatives /\ NumInDomain' = NumInDomain
         /\ ChoiceSamples' = ChoiceSamples
BY DEF NumNegatives, NumInDomain, ChoiceSamples

LEMMA KeepCollected ==
  ASSUME Collected, UNCHANGED <<train, val, negatives, heldOut>>
  PROVE  Collected'
BY DEF Collected, Unmarked

LEMMA KeepInjected ==
  ASSUME Injected, UNCHANGED <<train, negatives, used>>,
         phase' = phase \/ (phase # "inject" /\ phase' \notin {"train", "inject"})
  PROVE  Injected'
BY SameTrain DEF Injected, Unmarked, IsChoice

\* While the samples are prepared nothing is read or counted.
LEMMA PrepareStep ==
  ASSUME IInv, Preparing, Collected', UNCHANGED <<names, epoch, next, batch, tracked>>,
         phase' \in {"train", "inject", "validation", "reading", "failed"},
         at' \in [d : Nat \ {0}, r : Nat \ {0}, n : Nat]
  PROVE  Control' /\ Batched' /\ Counted' /\ Measured'
<1>1. /\ epoch = 0 /\ next = 1 /\ batch = <<>> /\ stats = NoStats /\ bias = NoBias
      /\ epoch' = 0 /\ next' = 1 /\ batch' = <<>> /\ stats' = NoStats /\ bias' = NoBias
      /\ names' = names /\ names \in Setups
  BY DEF IInv, Control, tracked
<1>2. ~IsTraining /\ ~IsTraining'
  BY <1>1 DEF IsTraining
<1>3. Epochs \in Nat
  BY SampleConstants
<1>4. Control'
  BY <1>1, <1>2, <1>3 DEF Control, Preparing
<1>5. Batched'
  <2>1. Reading' = val'
    BY <1>2 DEF Reading
  <2>2. Len(val') \in Nat
    BY LenProperties DEF Collected
  <2>3. batch' \in Seq(BatchItem) /\ Len(batch') = 0 /\ DOMAIN batch' = {}
    BY <1>1
  <2>4. BatchSize \in Nat
    BY SampleConstants
  <2> QED
    BY <1>1, <2>1, <2>2, <2>3, <2>4 DEF Batched
<1>6. Counted'
  <2>1. NoStats.total = 0 /\ NoStats.tp = 0 /\ NoStats.fn = 0
    BY DEF NoStats
  <2>2. Len(batch') = 0 /\ next' = 1
    BY <1>1
  <2>3. Consistent(stats')
    BY <1>1, NothingCounted
  <2>4. stats'.total = 0 /\ stats'.tp = 0 /\ stats'.fn = 0
    BY <1>1, <2>1
  <2> QED
    BY <2>2, <2>3, <2>4 DEF Counted
<1>7. Measured'
  BY <1>1 DEF Measured, NoBias
<1> QED
  BY <1>4, <1>5, <1>6, <1>7

LEMMA StreamRowStep == IInv /\ StreamRow => IInv'
<1> SUFFICES ASSUME IInv, StreamRow PROVE IInv'
  OBVIOUS
<1>1. /\ phase \in {"train", "validation"} /\ at.d <= Len(names) /\ Name \in DOMAIN Catalogue
      /\ at.r <= Len(RowsOf(Name, phase))
      /\ UNCHANGED <<names, negatives, used, heldOut, broken, epoch, next, batch, tracked>>
  BY DEF StreamRow, Streaming, AtRow
<1>2. Preparing /\ negatives = <<>> /\ used = {}
  BY <1>1 DEF Preparing, IInv, Injected
<1>3. at \in [d : Nat \ {0}, r : Nat \ {0}, n : Nat]
  BY DEF IInv, Control
<1>4. NextDataset \in [d : Nat \ {0}, r : Nat \ {0}, n : Nat]
  BY <1>3 DEF NextDataset
<1>5. CASE phase' = "failed" /\ UNCHANGED <<at, train, val>>
  <2>1. Collected'
    BY <1>1, <1>5, KeepCollected DEF IInv
  <2>2. Injected'
    BY <1>1, <1>5, KeepInjected DEF IInv
  <2> QED
    BY <1>1, <1>2, <1>3, <1>5, <2>1, <2>2, PrepareStep DEF IInv
<1>6. CASE at' = [at EXCEPT !.r = @ + 1] /\ UNCHANGED <<phase, train, val>>
  <2>1. Collected'
    BY <1>1, <1>6, KeepCollected DEF IInv
  <2>2. Injected'
    BY <1>1, <1>6, KeepInjected DEF IInv
  <2>3. at' \in [d : Nat \ {0}, r : Nat \ {0}, n : Nat]
    BY <1>3, <1>6
  <2> QED
    BY <1>1, <1>2, <1>6, <2>1, <2>2, <2>3, PrepareStep DEF IInv
<1>7. CASE /\ Outcome(Name, phase, at.r) \notin {Skip, Raises}
           /\ \E s \in Converted(Name, phase, at.r) :
                /\ train' = IF phase = "train" THEN Append(train, s) ELSE train
                /\ val' = IF phase = "train" THEN val ELSE Append(val, s)
           /\ at' = IF at.n + 1 = MaxPerDataset THEN NextDataset
                    ELSE [at EXCEPT !.r = @ + 1, !.n = @ + 1]
           /\ UNCHANGED phase
  <2>1. PICK s \in Converted(Name, phase, at.r) :
          /\ train' = IF phase = "train" THEN Append(train, s) ELSE train
          /\ val' = IF phase = "train" THEN val ELSE Append(val, s)
    BY <1>7
  <2>2. s \in Good /\ Unmarked(s) /\ IF phase = "train" THEN Trained(s, heldOut) ELSE Evaluated(s, heldOut)
    <3>1. Len(RowsOf(Name, phase)) \in Nat
      <4>1. RowsOf(Name, phase) \in Seq(HubRow) \/ RowsOf(Name, phase) \in Seq(FileLine)
        BY <1>1, CorpusFacts
      <4> QED
        BY <4>1, LenProperties
    <3>2. at.r \in Nat /\ at.r \in 1..Len(RowsOf(Name, phase))
      BY <1>1, <1>3, <3>1
    <3> QED
      BY <1>1, <1>7, <3>2, ConvertedFacts
  <2>3. at' \in [d : Nat \ {0}, r : Nat \ {0}, n : Nat]
    <3>1. [at EXCEPT !.r = @ + 1, !.n = @ + 1] \in [d : Nat \ {0}, r : Nat \ {0}, n : Nat]
      <4> DEFINE b == [at EXCEPT !.r = @ + 1]
      <4>1. b \in [d : Nat \ {0}, r : Nat \ {0}, n : Nat] /\ b.n = at.n
        BY <1>3
      <4>2. [at EXCEPT !.r = @ + 1, !.n = @ + 1] = [b EXCEPT !.n = at.n + 1]
        OBVIOUS
      <4> HIDE DEF b
      <4>3. [b EXCEPT !.n = at.n + 1] \in [d : Nat \ {0}, r : Nat \ {0}, n : Nat]
        BY <1>3, <4>1
      <4> QED
        BY <4>2, <4>3
    <3>2. at' = NextDataset \/ at' = [at EXCEPT !.r = @ + 1, !.n = @ + 1]
      BY <1>7
    <3> QED
      BY <1>4, <3>1, <3>2
  <2>4. /\ train \in Seq(Good) /\ val \in Seq(Good) /\ negatives \in Seq(Good)
        /\ \A i \in DOMAIN train : Trained(train[i], heldOut) /\ (phase = "train" => Unmarked(train[i]))
        /\ \A i \in DOMAIN val : Evaluated(val[i], heldOut) /\ Unmarked(val[i])
    BY DEF IInv, Collected, Injected
  <2>5. CASE phase = "train"
    <3>1. train' = Append(train, s) /\ val' = val
      BY <2>1, <2>5
    <3>2. /\ train' \in Seq(Good)
          /\ \A i \in DOMAIN train' : Trained(train'[i], heldOut) /\ Unmarked(train'[i])
      <4>1. Len(train) \in Nat /\ DOMAIN train = 1..Len(train)
        BY <2>4, LenProperties
      <4>2. /\ train' \in Seq(Good) /\ Len(train') = Len(train) + 1
            /\ \A i \in 1..Len(train) : train'[i] = train[i]
            /\ train'[Len(train) + 1] = s
        BY <2>2, <2>4, <3>1, AppendProperties
      <4>3. \A i \in DOMAIN train' : i \in 1..Len(train) \/ i = Len(train) + 1
        BY <4>1, <4>2, LenProperties
      <4> QED
        BY <2>2, <2>4, <2>5, <4>1, <4>2, <4>3
    <3>3. Collected'
      <4>1. heldOut' = heldOut /\ negatives' = <<>> /\ DOMAIN negatives' = {}
        BY <1>1, <1>2
      <4> QED
        <5>1. /\ train' \in Seq(Good) /\ val' \in Seq(Good) /\ negatives' \in Seq(Good)
          BY <2>4, <3>1, <3>2, <4>1
        <5>2. \A i \in DOMAIN train' : Trained(train'[i], heldOut)
          BY <2>4, <3>1, <3>2
        <5>3. \A i \in DOMAIN val' : Evaluated(val'[i], heldOut) /\ Unmarked(val'[i])
          BY <2>4, <3>1, <3>2
        <5> QED
          BY <4>1, <5>1, <5>2, <5>3 DEF Collected, Unmarked
    <3>4. Injected'
      <4>1. phase' = "train" /\ negatives' = <<>> /\ used' = {} /\ DOMAIN negatives' = {}
        BY <1>1, <1>2, <1>7, <2>5
      <4> QED
        BY <3>2, <4>1 DEF Injected, Unmarked
    <3> QED
      BY <1>1, <1>2, <1>7, <2>3, <3>3, <3>4, PrepareStep DEF IInv
  <2>6. CASE phase = "validation"
    <3>1. train' = train /\ val' = Append(val, s)
      BY <2>1, <2>6
    <3>2. /\ val' \in Seq(Good)
          /\ \A i \in DOMAIN val' : Evaluated(val'[i], heldOut) /\ Unmarked(val'[i])
      <4>1. Len(val) \in Nat /\ DOMAIN val = 1..Len(val)
        BY <2>4, LenProperties
      <4>2. /\ val' \in Seq(Good) /\ Len(val') = Len(val) + 1
            /\ \A i \in 1..Len(val) : val'[i] = val[i]
            /\ val'[Len(val) + 1] = s
        BY <2>2, <2>4, <3>1, AppendProperties
      <4>3. \A i \in DOMAIN val' : i \in 1..Len(val) \/ i = Len(val) + 1
        BY <4>1, <4>2, LenProperties
      <4> QED
        BY <2>2, <2>4, <2>6, <4>1, <4>2, <4>3
    <3>3. Collected'
      <4>1. heldOut' = heldOut /\ negatives' = <<>> /\ DOMAIN negatives' = {}
        BY <1>1, <1>2
      <4> QED
        <5>1. /\ train' \in Seq(Good) /\ val' \in Seq(Good) /\ negatives' \in Seq(Good)
          BY <2>4, <3>1, <3>2, <4>1
        <5>2. \A i \in DOMAIN train' : Trained(train'[i], heldOut)
          BY <2>4, <3>1, <3>2
        <5>3. \A i \in DOMAIN val' : Evaluated(val'[i], heldOut) /\ Unmarked(val'[i])
          BY <2>4, <3>1, <3>2
        <5> QED
          BY <4>1, <5>1, <5>2, <5>3 DEF Collected, Unmarked
    <3>4. Injected'
      BY <1>1, <1>7, <3>1, KeepInjected DEF IInv
    <3> QED
      BY <1>1, <1>2, <1>7, <2>3, <3>3, <3>4, PrepareStep DEF IInv
  <2> QED
    BY <1>1, <2>5, <2>6
<1> QED
  BY <1>5, <1>6, <1>7 DEF StreamRow

LEMMA HubFailsStep == IInv /\ HubFails => IInv'
<1> SUFFICES ASSUME IInv, HubFails PROVE IInv'
  OBVIOUS
<1>1. /\ phase \in {"train", "validation"} /\ phase' = "failed"
      /\ UNCHANGED <<names, at, train, val, negatives, used, heldOut, broken, epoch, next, batch, tracked>>
  BY DEF HubFails, Streaming
<1>2. Preparing /\ at' \in [d : Nat \ {0}, r : Nat \ {0}, n : Nat]
  BY <1>1 DEF Preparing, IInv, Control
<1>3. Collected'
  BY <1>1, KeepCollected DEF IInv
<1>4. Injected'
  BY <1>1, KeepInjected DEF IInv
<1> QED
  BY <1>1, <1>2, <1>3, <1>4, PrepareStep DEF IInv

LEMMA EndDatasetStep == IInv /\ EndDataset => IInv'
<1> SUFFICES ASSUME IInv, EndDataset PROVE IInv'
  OBVIOUS
<1>1. /\ phase \in {"train", "validation"} /\ at' = NextDataset
      /\ UNCHANGED <<phase, names, train, val, negatives, used, heldOut, broken, epoch, next, batch, tracked>>
  BY DEF EndDataset, Streaming
<1>2. Preparing /\ at' \in [d : Nat \ {0}, r : Nat \ {0}, n : Nat]
  BY <1>1 DEF Preparing, IInv, Control, NextDataset
<1>3. Collected'
  BY <1>1, KeepCollected DEF IInv
<1>4. Injected'
  BY <1>1, KeepInjected DEF IInv
<1> QED
  BY <1>1, <1>2, <1>3, <1>4, PrepareStep DEF IInv

LEMMA EndStreamStep == IInv /\ EndStream => IInv'
<1> SUFFICES ASSUME IInv, EndStream PROVE IInv'
  OBVIOUS
<1>1. /\ phase \in {"train", "validation"} /\ at' = Start
      /\ phase' = IF phase = "train" THEN "inject" ELSE IF train = <<>> THEN "failed" ELSE "reading"
      /\ UNCHANGED <<names, train, val, negatives, used, heldOut, broken, epoch, next, batch, tracked>>
  BY DEF EndStream, Streaming
<1>2. Preparing /\ at' \in [d : Nat \ {0}, r : Nat \ {0}, n : Nat]
  BY <1>1 DEF Preparing, Start
<1>3. Collected'
  BY <1>1, KeepCollected DEF IInv
<1>4. Injected'
  <2>1. CASE phase = "train"
    <3>1. phase' = "inject" /\ negatives' = <<>> /\ used' = {} /\ DOMAIN negatives' = {}
      BY <1>1, <2>1 DEF IInv, Injected
    <3>2. Len(negatives') <= NumNegatives'
      <4>1. Len(negatives') = 0
        BY <3>1
      <4>2. NumNegatives' \in Nat
        BY <1>1, SameTrain, NegativeNumbers DEF IInv, Collected
      <4> QED
        BY <4>1, <4>2
    <3>3. \A i \in DOMAIN train' : Unmarked(train'[i])
      BY <1>1, <2>1 DEF IInv, Injected
    <3> QED
      BY <3>1, <3>2, <3>3 DEF Injected, Unmarked
  <2>2. CASE phase = "validation"
    BY <1>1, <2>2, KeepInjected DEF IInv
  <2> QED
    BY <1>1, <2>1, <2>2
<1>5. phase' \in {"train", "inject", "validation", "reading", "failed"}
  BY <1>1
<1> QED
  BY <1>1, <1>2, <1>3, <1>4, <1>5, PrepareStep DEF IInv

LEMMA NegativeKeyFacts ==
  ASSUME NEW criteria, NEW key \in NegativeKeys(criteria)
  PROVE  key \in Key /\ key \notin Range(criteria)
BY SampleConstants DEF NegativeKeys, Key

LEMMA WithoutFacts ==
  ASSUME NEW criteria \in Seq(Key), IsInjective(criteria), NEW key
  PROVE  Without(criteria, key) \in Seq(Key) /\ IsInjective(Without(criteria, key))
<1> DEFINE places == {i \in DOMAIN criteria : criteria[i] # key}
           r == Picked(criteria, places)
<1>1. places \in SUBSET DOMAIN criteria
  OBVIOUS
<1>2. Without(criteria, key) = r
  BY DEF Without
<1> HIDE DEF places
<1>3. r \in Seq(Key) /\ DOMAIN r = 1..Cardinality(places)
  BY <1>1, PickedFacts
<1>4. PICK where : PlacesOf(where, criteria, places)
  BY <1>1, PickedFacts
<1>5. \A m, n \in DOMAIN r : r[m] = r[n] => m = n
  BY <1>1, <1>3, <1>4 DEF PlacesOf, IsInjective
<1> QED
  BY <1>2, <1>3, <1>5 DEF IsInjective

\* A negative made from a choice: its answer is an option of its own.
LEMMA NegativeGood ==
  ASSUME NEW s \in Good, IsChoice(s), NEW criteria \in Seq(Key), IsInjective(criteria),
         NEW key \in NegativeKeys(criteria), NEW mark \in {"in_domain", "cross"}
  PROVE  LET n == [s EXCEPT !.criteria = Append(criteria, key), !.target = key, !.negative = mark] IN
         n \in Good /\ IsChoice(n) /\ ~Unmarked(n) /\ n.row = s.row
<1> DEFINE more == Append(criteria, key)
           n == [s EXCEPT !.criteria = more, !.target = key, !.negative = mark]
<1>1. key \in Key /\ key \notin Range(criteria)
  BY NegativeKeyFacts
<1>2. more \in Seq(Key) /\ IsInjective(more) /\ key \in Range(more)
  BY <1>1, AppendKeys
<1> HIDE DEF more
<1>3. s \in Sample /\ s.type = "choice"
  BY DEF Good, IsChoice
<1>4. /\ n.type = "choice" /\ n.criteria = more /\ n.target = key /\ n.negative = mark
      /\ n.row = s.row
  BY <1>3 DEF Sample
<1>5. n \in Sample
  BY <1>1, <1>2, <1>3 DEF Sample
<1> HIDE DEF n
<1>6. KeepsContract(n.type, n.criteria, n.target)
  BY <1>2, <1>4 DEF KeepsContract
<1>7. n \in Good
  BY <1>2, <1>4, <1>5, <1>6 DEF Good
<1>8. n \in Good /\ IsChoice(n) /\ ~Unmarked(n) /\ n.row = s.row
  BY <1>4, <1>7 DEF IsChoice, Unmarked
<1> QED
  BY <1>8 DEF n, more

\* The injection goes on as long as negatives are missing.
LEMMA AddNegative ==
  ASSUME IInv, phase = "inject", Len(negatives) < NumNegatives, used' \subseteq DOMAIN ChoiceSamples,
         NEW s \in Good, IsChoice(s), ~Unmarked(s), Trained(s, heldOut), negatives' = Append(negatives, s),
         UNCHANGED <<phase, names, at, train, val, heldOut, broken, epoch, next, batch, tracked>>
  PROVE  IInv'
<1>1. Preparing /\ at' \in [d : Nat \ {0}, r : Nat \ {0}, n : Nat]
  BY DEF Preparing, IInv, Control
<1>2. /\ train \in Seq(Good) /\ val \in Seq(Good) /\ negatives \in Seq(Good)
      /\ \A i \in DOMAIN train : Trained(train[i], heldOut) /\ Unmarked(train[i])
      /\ \A i \in DOMAIN negatives :
           Trained(negatives[i], heldOut) /\ ~Unmarked(negatives[i]) /\ IsChoice(negatives[i])
      /\ \A i \in DOMAIN val : Evaluated(val[i], heldOut) /\ Unmarked(val[i])
  BY DEF IInv, Collected, Injected
<1>3. Len(negatives) \in Nat /\ DOMAIN negatives = 1..Len(negatives)
  BY <1>2, LenProperties
<1>4. /\ negatives' \in Seq(Good) /\ Len(negatives') = Len(negatives) + 1
      /\ \A i \in 1..Len(negatives) : negatives'[i] = negatives[i]
      /\ negatives'[Len(negatives) + 1] = s
  BY <1>2, AppendProperties
<1>5. \A i \in DOMAIN negatives' :
        Trained(negatives'[i], heldOut) /\ ~Unmarked(negatives'[i]) /\ IsChoice(negatives'[i])
  <2>1. \A i \in DOMAIN negatives' : i \in 1..Len(negatives) \/ i = Len(negatives) + 1
    BY <1>3, <1>4, LenProperties
  <2> QED
    BY <1>2, <1>3, <1>4, <2>1
<1>6. Collected'
  BY <1>2, <1>4, <1>5 DEF Collected, Unmarked
<1>7. Len(negatives') <= NumNegatives'
  <2>1. NumNegatives \in Nat
    BY <1>2, NegativeNumbers
  <2> QED
    BY <1>3, <1>4, <2>1, SameTrain
<1>8. Injected'
  <2>1. used' \subseteq DOMAIN ChoiceSamples'
    BY SameTrain
  <2> QED
    BY <1>2, <1>5, <1>7, <2>1 DEF Injected, Unmarked, IsChoice
<1>9. phase' \in {"train", "inject", "validation", "reading", "failed"}
  OBVIOUS
<1> QED
  BY <1>1, <1>6, <1>8, <1>9, PrepareStep DEF IInv

LEMMA ChoiceRows ==
  ASSUME IInv, NEW i \in DOMAIN ChoiceSamples
  PROVE  /\ ChoiceSamples[i] \in Good /\ IsChoice(ChoiceSamples[i])
         /\ Trained(ChoiceSamples[i], heldOut)
         /\ ChoiceSamples[i].criteria \in Seq(Key) /\ IsInjective(ChoiceSamples[i].criteria)
<1>1. train \in Seq(Good) /\ \A j \in DOMAIN train : Trained(train[j], heldOut)
  BY DEF IInv, Collected
<1>2. /\ ChoiceSamples[i] \in Good /\ IsChoice(ChoiceSamples[i])
      /\ \E j \in DOMAIN train : ChoiceSamples[i] = train[j]
  BY <1>1, ChoiceFacts
<1> QED
  BY <1>1, <1>2 DEF Good, Sample

LEMMA InDomainNegativeStep == IInv /\ InDomainNegative => IInv'
<1> SUFFICES ASSUME IInv, InDomainNegative PROVE IInv'
  OBVIOUS
<1>1. PICK i \in Candidates :
        /\ used' = used \cup {i}
        /\ LET rest == Without(ChoiceSamples[i].criteria, ChoiceSamples[i].target) IN
           \E key \in NegativeKeys(rest) :
             negatives' = Append(negatives,
               [ChoiceSamples[i] EXCEPT !.criteria = Append(rest, key), !.target = key,
                                  !.negative = "in_domain"])
  BY DEF InDomainNegative
<1> DEFINE s == ChoiceSamples[i]
           rest == Without(s.criteria, s.target)
<1>2. PICK key \in NegativeKeys(rest) :
        negatives' = Append(negatives, [s EXCEPT !.criteria = Append(rest, key), !.target = key,
                                                 !.negative = "in_domain"])
  BY <1>1
<1>3. /\ phase = "inject" /\ Len(negatives) < NumInDomain
      /\ UNCHANGED <<phase, names, at, train, val, heldOut, broken, epoch, next, batch, tracked>>
  BY DEF InDomainNegative, Injecting, InDomainLeft
<1>4. i \in DOMAIN ChoiceSamples
  BY DEF Candidates
<1>5. s \in Good /\ IsChoice(s) /\ Trained(s, heldOut) /\ s.criteria \in Seq(Key) /\ IsInjective(s.criteria)
  BY <1>4, ChoiceRows
<1>6. rest \in Seq(Key) /\ IsInjective(rest)
  BY <1>5, WithoutFacts
<1>7. used' \subseteq DOMAIN ChoiceSamples
  BY <1>1, <1>4 DEF IInv, Injected
<1>8. Len(negatives) < NumNegatives
  <2>1. NumInDomain \in Nat /\ NumNegatives \in Nat /\ NumInDomain <= NumNegatives
    BY NegativeNumbers DEF IInv, Collected
  <2>2. Len(negatives) \in Nat
    BY LenProperties DEF IInv, Collected
  <2> QED
    BY <1>3, <2>1, <2>2
<1> HIDE DEF s, rest
<1> DEFINE new == [s EXCEPT !.criteria = Append(rest, key), !.target = key, !.negative = "in_domain"]
<1>9. new \in Good /\ IsChoice(new) /\ ~Unmarked(new) /\ new.row = s.row
  BY <1>5, <1>6, NegativeGood
<1> HIDE DEF new
<1>10. Trained(new, heldOut)
  BY <1>5, <1>9 DEF Trained
<1>11. negatives' = Append(negatives, new)
  BY <1>2 DEF new
<1> QED
  BY <1>3, <1>7, <1>8, <1>9, <1>10, <1>11, AddNegative

LEMMA CrossNegativeStep == IInv /\ CrossNegative => IInv'
<1> SUFFICES ASSUME IInv, CrossNegative PROVE IInv'
  OBVIOUS
<1>1. PICK i \in DOMAIN ChoiceSamples, j \in DOMAIN ChoiceSamples :
        \E key \in NegativeKeys(ChoiceSamples[j].criteria) :
          negatives' = Append(negatives,
            [ChoiceSamples[i] EXCEPT !.criteria = Append(ChoiceSamples[j].criteria, key), !.target = key,
                               !.negative = "cross"])
  BY DEF CrossNegative
<1> DEFINE s == ChoiceSamples[i]
           rest == ChoiceSamples[j].criteria
<1>2. PICK key \in NegativeKeys(rest) :
        negatives' = Append(negatives, [s EXCEPT !.criteria = Append(rest, key), !.target = key,
                                                 !.negative = "cross"])
  BY <1>1
<1>3. /\ phase = "inject" /\ CrossLeft /\ used' = used
      /\ UNCHANGED <<phase, names, at, train, val, heldOut, broken, epoch, next, batch, tracked>>
  BY DEF CrossNegative, Injecting
<1>4. /\ s \in Good /\ IsChoice(s) /\ Trained(s, heldOut)
      /\ rest \in Seq(Key) /\ IsInjective(rest)
  BY <1>1, ChoiceRows
<1>5. used' \subseteq DOMAIN ChoiceSamples
  BY <1>3 DEF IInv, Injected
<1>6. Len(negatives) < NumNegatives
  <2>1. NumInDomain \in Nat /\ NumNegatives \in Nat
    BY NegativeNumbers DEF IInv, Collected
  <2>2. Len(negatives) \in Nat
    BY LenProperties DEF IInv, Collected
  <2> QED
    BY <1>3, <2>1, <2>2 DEF CrossLeft
<1> HIDE DEF s, rest
<1> DEFINE new == [s EXCEPT !.criteria = Append(rest, key), !.target = key, !.negative = "cross"]
<1>7. new \in Good /\ IsChoice(new) /\ ~Unmarked(new) /\ new.row = s.row
  BY <1>4, NegativeGood
<1> HIDE DEF new
<1>8. Trained(new, heldOut)
  BY <1>4, <1>7 DEF Trained
<1>9. negatives' = Append(negatives, new)
  BY <1>2 DEF new
<1> QED
  BY <1>3, <1>5, <1>6, <1>7, <1>8, <1>9, AddNegative

LEMMA EndInjectionStep == IInv /\ EndInjection => IInv'
<1> SUFFICES ASSUME IInv, EndInjection PROVE IInv'
  OBVIOUS
<1>1. /\ phase = "inject" /\ phase' = "validation" /\ negatives' = <<>> /\ used' = {}
      /\ train' = IF NumNegatives > 0 THEN ChoiceSamples \o negatives \o OtherSamples ELSE train
      /\ UNCHANGED <<names, at, val, heldOut, broken, epoch, next, batch, tracked>>
  BY DEF EndInjection
<1>2. Preparing /\ at' \in [d : Nat \ {0}, r : Nat \ {0}, n : Nat]
  BY <1>1 DEF Preparing, IInv, Control
<1>3. /\ train \in Seq(Good) /\ val \in Seq(Good) /\ negatives \in Seq(Good)
      /\ \A i \in DOMAIN train : Trained(train[i], heldOut)
      /\ \A i \in DOMAIN negatives : Trained(negatives[i], heldOut)
      /\ \A i \in DOMAIN val : Evaluated(val[i], heldOut) /\ Unmarked(val[i])
  BY DEF IInv, Collected
<1> DEFINE Fit == {s \in Good : Trained(s, heldOut)}
<1>4. train \in Seq(Fit) /\ negatives \in Seq(Fit)
  <2>1. ASSUME NEW q \in Seq(Good), \A i \in DOMAIN q : Trained(q[i], heldOut)
        PROVE  q \in Seq(Fit)
    <3>1. Len(q) \in Nat /\ DOMAIN q = 1..Len(q) /\ q = [i \in 1..Len(q) |-> q[i]] /\ \A i \in 1..Len(q) : q[i] \in Good
      BY <2>1, LenProperties
    <3>2. q \in [1..Len(q) -> Fit]
      BY <2>1, <3>1
    <3> HIDE DEF Fit
    <3> QED
      BY <3>1, <3>2, SeqDef
  <2> QED
    BY <1>3, <2>1
<1> HIDE DEF Fit
<1>5. train' \in Seq(Fit)
  <2>1. ChoicePlaces(train) \in SUBSET DOMAIN train
    BY DEF ChoicePlaces
  <2>2. ChoiceSamples \o negatives \o OtherSamples \in Seq(Fit)
    BY <1>4, <2>1, AroundCount DEF ChoiceSamples, OtherSamples
  <2> QED
    BY <1>1, <1>4, <2>2
<1>6. train' \in Seq(Good) /\ \A i \in DOMAIN train' : Trained(train'[i], heldOut)
  <2>1. Fit \subseteq Good /\ \A s \in Fit : Trained(s, heldOut)
    BY DEF Fit
  <2>2. \A i \in DOMAIN train' : train'[i] \in Fit
    BY <1>5, LenProperties
  <2> QED
    BY <1>5, <2>1, <2>2, SubsetSeq
<1>7. negatives' \in Seq(Good) /\ DOMAIN negatives' = {}
  BY <1>1
<1>8. Collected'
  BY <1>1, <1>3, <1>6, <1>7 DEF Collected, Unmarked
<1>9. Injected'
  BY <1>1, <1>7 DEF Injected
<1> QED
  BY <1>1, <1>2, <1>8, <1>9, PrepareStep DEF IInv

-----------------------------------------------------------------------------
(* The steps that read the samples.                                        *)

LEMMA ShufflesFacts ==
  ASSUME NEW T, NEW keys \in Seq(T), NEW q \in Shuffles(keys)
  PROVE  q \in Seq(T) /\ Len(q) = Len(keys) /\ DOMAIN q = DOMAIN keys /\ Range(q) = Range(keys)
<1> DEFINE n == Len(keys)
<1>1. n \in Nat /\ DOMAIN keys = 1..n /\ \A i \in 1..n : keys[i] \in T
  BY LenProperties
<1>2. PICK p \in Shuffle : IsOrder(p, DOMAIN keys) /\ q = [i \in DOMAIN keys |-> keys[p[i]]]
  BY DEF Shuffles
<1>3. \A i \in 1..n : p[i] \in 1..n
  BY <1>1, <1>2 DEF IsOrder, Range
<1>4. \A j \in 1..n : \E i \in 1..n : p[i] = j
  BY <1>1, <1>2 DEF IsOrder, Range
<1> HIDE DEF n
<1>5. q \in [1..n -> T]
  BY <1>1, <1>2, <1>3
<1>6. q \in Seq(T) /\ Len(q) = n /\ DOMAIN q = 1..n
  BY <1>1, <1>5, SeqDef, LenProperties
<1>7. Range(q) \subseteq Range(keys)
  BY <1>1, <1>2, <1>3 DEF Range
<1>8. Range(keys) \subseteq Range(q)
  <2> SUFFICES ASSUME NEW j \in 1..n PROVE keys[j] \in Range(q)
    BY <1>1 DEF Range
  <2>1. PICK i \in 1..n : p[i] = j
    BY <1>4
  <2>2. q[i] = keys[j]
    BY <1>1, <1>2, <2>1
  <2> QED
    BY <1>6, <2>2 DEF Range
<1> QED
  BY <1>1, <1>6, <1>7, <1>8 DEF n

LEMMA OptionFacts ==
  ASSUME NEW s \in Good
  PROVE  /\ OptionsOf(s) \in Seq(Key)
         /\ \A isTrain \in BOOLEAN : \A keys \in Orders(s, isTrain) :
              /\ keys \in Seq(Key)
              /\ Len(keys) = Len(OptionsOf(s)) /\ Range(keys) = Range(OptionsOf(s))
              /\ s.type # "choice" \/ ~isTrain => keys = OptionsOf(s)
<1>1. s.criteria \in Seq(Key)
  BY DEF Good, Sample
<1>2. OptionsOf(s) \in Seq(Key)
  <2>1. <<"true", "false">> \in Seq(Key)
    <3>1. "true" \in Key /\ "false" \in Key
      BY DEF Key
    <3> QED
      BY <3>1
  <2> QED
    BY <1>1, <2>1 DEF OptionsOf
<1>3. ASSUME NEW isTrain \in BOOLEAN, NEW keys \in Orders(s, isTrain)
      PROVE  /\ keys \in Seq(Key)
             /\ Len(keys) = Len(OptionsOf(s)) /\ Range(keys) = Range(OptionsOf(s))
             /\ s.type # "choice" \/ ~isTrain => keys = OptionsOf(s)
  <2>1. CASE isTrain /\ s.type = "choice"
    <3>1. keys \in Shuffles(s.criteria) /\ OptionsOf(s) = s.criteria
      BY <2>1 DEF Orders, OptionsOf
    <3> QED
      BY <1>1, <2>1, <3>1, ShufflesFacts
  <2>2. CASE ~ (isTrain /\ s.type = "choice")
    <3>1. keys = OptionsOf(s)
      BY <2>2 DEF Orders
    <3> QED
      BY <1>2, <3>1
  <2> QED
    BY <2>1, <2>2
<1> QED
  BY <1>2, <1>3

\* The label of an item is the place of the answer in the order of the item.
LEMMA ItemFacts ==
  ASSUME NEW s \in Good, Tokenizes(s), NEW isTrain \in BOOLEAN, NEW keys \in Orders(s, isTrain)
  PROVE  Item(s, keys) \in BatchItem /\ ShowsSample(Item(s, keys), s, isTrain)
<1> DEFINE item == Item(s, keys)
           i == CHOOSE i \in DOMAIN keys : keys[i] = s.target
<1>1. /\ keys \in Seq(Key) /\ Len(keys) = Len(OptionsOf(s)) /\ Range(keys) = Range(OptionsOf(s))
      /\ s.type # "choice" \/ ~isTrain => keys = OptionsOf(s)
  BY OptionFacts
<1>2. Len(keys) \in Nat /\ DOMAIN keys = 1..Len(keys)
  BY <1>1, LenProperties
<1>3. i \in DOMAIN keys /\ keys[i] = s.target
  <2>1. s.target \in Range(keys)
    BY <1>1 DEF Tokenizes
  <2> QED
    BY <2>1 DEF Range
<1>4. /\ item.keys = keys /\ item.label = i - 1
      /\ item.length = FixedLength(keys) + KeptState(s, keys)
      /\ item = [keys |-> item.keys, label |-> item.label, length |-> item.length]
  BY DEF Item
<1> HIDE DEF item, i
<1>5. item.length \in Int /\ item.length <= MaxLength
  <2> DEFINE w == OptionLength * Len(keys)
  <2>1. w \in Int
    <3>1. OptionLength \in Nat
      BY SampleConstants
    <3> QED
      BY <1>2, <3>1
  <2>2. FixedLength(keys) = Overhead + w
    BY DEF FixedLength
  <2>3. MaxLength \in Nat /\ Overhead \in Nat
    BY SampleConstants
  <2>4. TextLength[s.text] \in Nat
    <3>1. s.text \in DOMAIN TextLength
      BY DEF Good, Sample
    <3> QED
      BY <3>1, CorpusAssumption
  <2> HIDE DEF w
  <2>5. FixedLength(keys) \in Int
    BY <2>1, <2>2, <2>3
  <2>6. KeptState(s, keys) \in Int /\ KeptState(s, keys) <= MaxLength - FixedLength(keys)
    BY <2>3, <2>4, <2>5 DEF KeptState
  <2> QED
    BY <1>4, <2>3, <2>5, <2>6
<1>6. item.label \in Nat /\ item.label + 1 = i
  BY <1>2, <1>3, <1>4
<1>7. item \in BatchItem
  BY <1>1, <1>4, <1>5, <1>6 DEF BatchItem
<1>8. ShowsSample(item, s, isTrain)
  BY <1>1, <1>3, <1>4, <1>5, <1>6 DEF ShowsSample
<1> QED
  BY <1>7, <1>8 DEF item

LEMMA ReadingFacts ==
  ASSUME IInv
  PROVE  /\ Reading \in Seq(Good) /\ Len(Reading) \in Nat /\ DOMAIN Reading = 1..Len(Reading)
         /\ \A i \in 1..Len(Reading) : Reading[i] \in Good /\ (IsTraining \/ Unmarked(Reading[i]))
<1>1. train \in Seq(Good) /\ val \in Seq(Good) /\ \A i \in DOMAIN val : Unmarked(val[i])
  BY DEF IInv, Collected
<1>2. Reading \in Seq(Good)
  BY <1>1 DEF Reading
<1>3. Len(Reading) \in Nat /\ DOMAIN Reading = 1..Len(Reading) /\ \A i \in 1..Len(Reading) : Reading[i] \in Good
  BY <1>2, LenProperties
<1>4. ~IsTraining => Reading = val
  BY DEF Reading
<1> QED
  BY <1>1, <1>2, <1>3, <1>4

LEMMA ReadPlaces ==
  ASSUME IInv
  PROVE  /\ next \in Nat \ {0} /\ Len(batch) \in Nat /\ DOMAIN batch = 1..Len(batch)
         /\ \A b \in DOMAIN batch : ReadFrom(b) \in 1..Len(Reading) /\ ReadFrom(b) < next
<1>1. /\ next \in Nat \ {0} /\ Len(batch) < next /\ next <= Len(Reading) + 1 /\ batch \in Seq(BatchItem)
  BY DEF IInv, Control, Batched
<1>2. Len(batch) \in Nat /\ DOMAIN batch = 1..Len(batch) /\ Len(Reading) \in Nat
  BY <1>1, LenProperties, ReadingFacts
<1> QED
  BY <1>1, <1>2 DEF ReadFrom

LEMMA ReadStep == IInv /\ Read => IInv'
<1> SUFFICES ASSUME IInv, Read PROVE IInv'
  OBVIOUS
<1> DEFINE s == Reading[next]
<1>1. /\ phase = "reading" /\ next <= Len(Reading) /\ Len(batch) < BatchSize
      /\ UNCHANGED <<names, at, train, val, negatives, used, heldOut, broken, epoch, stats, bias>>
  BY DEF Read, tracked
<1>2. /\ Reading' = IF IsTraining THEN train ELSE val
      /\ IsTraining' = IsTraining /\ Reading' = Reading
  BY <1>1 DEF Reading, IsTraining
<1>3. /\ next \in Nat \ {0} /\ Len(batch) \in Nat /\ DOMAIN batch = 1..Len(batch)
      /\ Len(Reading) \in Nat /\ s \in Good /\ BatchSize \in Nat
  <2>1. next \in Nat \ {0} /\ Len(batch) \in Nat /\ DOMAIN batch = 1..Len(batch)
    BY ReadPlaces
  <2>2. Len(Reading) \in Nat /\ \A i \in 1..Len(Reading) : Reading[i] \in Good
    BY ReadingFacts
  <2> QED
    BY <1>1, <2>1, <2>2, SampleConstants
<1>4. Collected'
  BY <1>1, KeepCollected DEF IInv
<1>5. Measured'
  BY <1>1 DEF IInv, Measured
<1>6. CASE Tokenizes(s)
  <2>1. PICK keys \in Orders(s, IsTraining) : batch' = Append(batch, Item(s, keys))
    BY <1>6 DEF Read
  <2>2. next' = next + 1 /\ phase' = phase
    BY <1>6 DEF Read
  <2> DEFINE item == Item(s, keys)
  <2>3. item \in BatchItem /\ ShowsSample(item, s, IsTraining)
    <3>1. IsTraining \in BOOLEAN
      BY DEF IsTraining
    <3> QED
      BY <1>3, <1>6, <3>1, ItemFacts
  <2> HIDE DEF item
  <2>4. /\ batch \in Seq(BatchItem) /\ Len(batch) < next
        /\ \A b \in DOMAIN batch : ShowsSample(batch[b], Reading[ReadFrom(b)], IsTraining)
    BY DEF IInv, Batched
  <2>5. /\ batch' \in Seq(BatchItem) /\ Len(batch') = Len(batch) + 1
        /\ \A b \in 1..Len(batch) : batch'[b] = batch[b]
        /\ batch'[Len(batch) + 1] = item
    BY <2>1, <2>3, <2>4, AppendProperties DEF item
  <2>6. DOMAIN batch' = 1..(Len(batch) + 1)
    BY <2>5, LenProperties
  <2>7. \A b \in DOMAIN batch' : ShowsSample(batch'[b], Reading[next - Len(batch) + b - 1], IsTraining)
    <3> SUFFICES ASSUME NEW b \in DOMAIN batch'
                 PROVE  ShowsSample(batch'[b], Reading[next - Len(batch) + b - 1], IsTraining)
      OBVIOUS
    <3>1. CASE b \in 1..Len(batch)
      BY <1>3, <2>4, <2>5, <3>1 DEF ReadFrom
    <3>2. CASE b = Len(batch) + 1
      <4>1. next - Len(batch) + b - 1 = next
        BY <1>3, <3>2
      <4> QED
        BY <2>3, <2>5, <3>2, <4>1
    <3> QED
      BY <1>3, <2>6, <3>1, <3>2
  <2>8. Batched'
    <3>1. \A b \in DOMAIN batch' : next' - Len(batch') + b - 1 = next - Len(batch) + b - 1
      BY <1>3, <2>2, <2>5, <2>6
    <3>2. Len(batch') <= BatchSize /\ Len(batch') < next' /\ next' <= Len(Reading') + 1
      BY <1>1, <1>2, <1>3, <2>2, <2>4, <2>5
    <3> QED
      BY <1>2, <2>5, <2>7, <3>1, <3>2 DEF Batched, ReadFrom
  <2>9. Control'
    <3>1. next' \in Nat \ {0} /\ phase' = "reading"
      BY <1>1, <1>3, <2>2
    <3> QED
      BY <1>1, <3>1 DEF IInv, Control, Preparing
  <2>10. Counted'
    <3>1. next' - 1 - Len(batch') = next - 1 - Len(batch)
      BY <1>3, <2>2, <2>5
    <3> QED
      BY <1>1, <1>2, <2>2, <3>1 DEF IInv, Counted
  <2>11. Injected'
    BY <1>1, <2>2, KeepInjected DEF IInv
  <2> QED
    BY <1>4, <1>5, <2>8, <2>9, <2>10, <2>11 DEF IInv
<1>7. CASE ~Tokenizes(s)
  <2>1. phase' = "failed" /\ UNCHANGED <<batch, next>>
    BY <1>7 DEF Read
  <2>2. Batched'
    BY <1>2, <2>1 DEF IInv, Batched, ReadFrom
  <2>3. Control'
    BY <1>1, <2>1 DEF IInv, Control, Preparing
  <2>4. Counted'
    BY <1>1, <1>2, <2>1 DEF IInv, Counted
  <2>5. Injected'
    BY <1>1, <2>1, KeepInjected DEF IInv
  <2> QED
    BY <1>4, <1>5, <2>2, <2>3, <2>4, <2>5 DEF IInv
<1> QED
  BY <1>6, <1>7

LEMMA AnswerFacts ==
  ASSUME NEW s \in Good, NEW item \in BatchItem, NEW a \in Answers(item, s)
  PROVE  a \in Answer /\ (Unmarked(s) => ~a.negative)
<1>1. /\ a = [type |-> a.type, options |-> a.options, guess |-> a.guess, label |-> a.label,
              negative |-> a.negative, error |-> a.error]
      /\ a.type = s.type /\ a.options = Len(item.keys) /\ a.guess \in Guesses(item)
      /\ a.label = item.label /\ a.negative = (s.negative # "")
  BY DEF Answers
<1>2. s.type \in QuestionTypes
  BY DEF Good, Sample
<1>3. Len(item.keys) \in Nat /\ item.label \in Int
  BY LenProperties DEF BatchItem
<1>4. a.guess \in Int
  <2>1. item.label \in Int /\ 0 \in Int /\ Len(item.keys) - 1 \in Int
    BY <1>3
  <2>2. a.guess = item.label \/ a.guess = 0 \/ a.guess = Len(item.keys) - 1
    BY <1>1 DEF Guesses
  <2> QED
    BY <2>1, <2>2
<1>5. a.error \in Nat
  <2>1. a.error \in IF s.type = "score" THEN {0, 7} ELSE {0}
    BY DEF Answers
  <2>2. a.error = 0 \/ a.error = 7
    BY <2>1
  <2>3. 0 \in Nat /\ 7 \in Nat
    OBVIOUS
  <2> QED
    BY <2>2, <2>3
<1>6. (s.negative # "") \in BOOLEAN
  OBVIOUS
<1>7. a \in Answer
  BY <1>1, <1>2, <1>3, <1>4, <1>5, <1>6 DEF Answer
<1>8. Unmarked(s) => ~a.negative
  BY <1>1 DEF Unmarked
<1> QED
  BY <1>7, <1>8

LEMMA BatchAnswers ==
  ASSUME IInv, NEW answers \in AnswersTo(batch)
  PROVE  /\ answers \in Seq(Answer) /\ Len(answers) = Len(batch)
         /\ IsTraining \/ \A b \in DOMAIN answers : ~answers[b].negative
<1> DEFINE n == Len(batch)
<1>1. n \in Nat /\ DOMAIN batch = 1..n /\ \A b \in 1..n : ReadFrom(b) \in 1..Len(Reading)
  BY ReadPlaces
<1>2. \A b \in 1..n : batch[b] \in BatchItem
  BY LenProperties DEF IInv, Batched
<1>3. \A b \in 1..n : /\ Reading[ReadFrom(b)] \in Good
                      /\ IsTraining \/ Unmarked(Reading[ReadFrom(b)])
  BY <1>1, ReadingFacts
<1>4. \A b : SampleOf(b) = Reading[ReadFrom(b)]
  BY DEF SampleOf, ReadFrom
<1>5. /\ answers \in [1..n -> UNION {Answers(batch[b], SampleOf(b)) : b \in 1..n}]
      /\ \A b \in 1..n : answers[b] \in Answers(batch[b], SampleOf(b))
  BY <1>1 DEF AnswersTo
<1>6. DOMAIN answers = 1..n /\ answers = [b \in 1..n |-> answers[b]]
  BY <1>5
<1> HIDE DEF n
<1>7. ASSUME NEW b \in 1..n
      PROVE  answers[b] \in Answer /\ (IsTraining \/ ~answers[b].negative)
  <2>1. answers[b] \in Answers(batch[b], Reading[ReadFrom(b)])
    BY <1>4, <1>5
  <2>2. batch[b] \in BatchItem /\ Reading[ReadFrom(b)] \in Good
    BY <1>2, <1>3
  <2>3. answers[b] \in Answer /\ (Unmarked(Reading[ReadFrom(b)]) => ~answers[b].negative)
    BY <2>1, <2>2, AnswerFacts
  <2> QED
    BY <1>3, <2>3
<1>8. answers \in [1..n -> Answer]
  BY <1>6, <1>7
<1>9. answers \in Seq(Answer) /\ Len(answers) = n
  BY <1>1, <1>6, <1>8, SeqDef, LenProperties
<1> QED
  BY <1>6, <1>7, <1>9 DEF n

LEMMA HandOverStep == IInv /\ HandOver => IInv'
<1> SUFFICES ASSUME IInv, HandOver PROVE IInv'
  OBVIOUS
<1>1. /\ phase = "reading" /\ batch' = <<>>
      /\ UNCHANGED <<phase, names, at, train, val, negatives, used, heldOut, broken, epoch, next, bias>>
  BY DEF HandOver
<1>2. PICK answers \in AnswersTo(batch) : stats' = Update(stats, answers)
  BY DEF HandOver
<1>3. /\ answers \in Seq(Answer) /\ Len(answers) = Len(batch)
      /\ IsTraining \/ \A b \in DOMAIN answers : ~answers[b].negative
  BY BatchAnswers
<1>4. IsTraining' = IsTraining /\ Reading' = Reading
  BY <1>1 DEF Reading, IsTraining
<1>5. next \in Nat \ {0} /\ Len(batch) \in Nat
  BY ReadPlaces
<1>6. Len(batch') = 0 /\ batch' \in Seq(BatchItem) /\ DOMAIN batch' = {}
  BY <1>1
<1>7. Counted'
  <2>1. /\ Consistent(stats) /\ stats.total = next - 1 - Len(batch)
        /\ ~IsTraining => stats.tp = 0 /\ stats.fn = 0
    BY <1>1 DEF IInv, Counted
  <2>2. /\ Consistent(stats') /\ stats'.total = stats.total + Len(answers)
        /\ (\A b \in DOMAIN answers : ~answers[b].negative) => stats'.tp = stats.tp /\ stats'.fn = stats.fn
    BY <1>2, <1>3, <2>1, UpdateStep
  <2>3. stats'.total = next' - 1 - Len(batch')
    BY <1>1, <1>3, <1>5, <1>6, <2>1, <2>2
  <2>4. ~IsTraining' => stats'.tp = 0 /\ stats'.fn = 0
    BY <1>3, <1>4, <2>1, <2>2
  <2> QED
    BY <2>2, <2>3, <2>4 DEF Counted
<1>8. Batched'
  <2>1. next <= Len(Reading) + 1 /\ BatchSize \in Nat
    BY SampleConstants DEF IInv, Batched
  <2>2. Len(batch') <= BatchSize /\ Len(batch') < next' /\ next' <= Len(Reading') + 1
    BY <1>1, <1>4, <1>5, <1>6, <2>1
  <2> QED
    BY <1>6, <2>2 DEF Batched
<1>9. Control'
  BY <1>1 DEF IInv, Control, Preparing
<1>10. Collected'
  BY <1>1, KeepCollected DEF IInv
<1>11. Injected'
  BY <1>1, KeepInjected DEF IInv
<1>12. Measured'
  BY <1>1 DEF IInv, Measured
<1> QED
  BY <1>7, <1>8, <1>9, <1>10, <1>11, <1>12 DEF IInv

\* The next pass starts with nothing read and nothing counted.
LEMMA NextPassStep ==
  ASSUME IInv, NextPass, phase \in {"reading", "bias"}, batch = <<>>,
         UNCHANGED <<names, at, train, val, negatives, used, heldOut, broken, batch>>
  PROVE  IInv'
<1>1. /\ epoch' = epoch + 1 /\ next' = 1 /\ stats' = NoStats /\ bias' = NoBias
      /\ phase' = IF epoch' > 2 * Epochs THEN "done" ELSE "reading"
  BY DEF NextPass
<1>2. /\ epoch \in 0..(2 * Epochs + 1) /\ epoch <= 2 * Epochs /\ Epochs \in Nat
  BY SampleConstants DEF IInv, Control
<1>3. Control'
  <2>1. epoch' \in 0..(2 * Epochs + 1) /\ (phase' \in {"reading", "bias"} => epoch' <= 2 * Epochs)
    BY <1>1, <1>2
  <2>2. phase' \in {"reading", "done"} /\ names' \in Setups /\ at' \in [d : Nat \ {0}, r : Nat \ {0}, n : Nat]
    BY <1>1 DEF IInv, Control
  <2> QED
    BY <1>1, <2>1, <2>2 DEF Control, Preparing
<1>4. Collected'
  BY KeepCollected DEF IInv
<1>5. Injected'
  BY <1>1, KeepInjected DEF IInv
<1>6. batch' = <<>> /\ Len(batch') = 0 /\ batch' \in Seq(BatchItem) /\ DOMAIN batch' = {}
  OBVIOUS
<1>7. Batched'
  <2>1. Len(Reading') \in Nat
    <3>1. train' \in Seq(Good) /\ val' \in Seq(Good)
      BY <1>4 DEF Collected
    <3> QED
      BY <3>1, LenProperties DEF Reading
  <2>2. BatchSize \in Nat
    BY SampleConstants
  <2>3. Len(batch') <= BatchSize /\ Len(batch') < next' /\ next' <= Len(Reading') + 1
    BY <1>1, <1>6, <2>1, <2>2
  <2> QED
    BY <1>6, <2>3 DEF Batched
<1>8. Counted'
  <2>1. NoStats.total = 0 /\ NoStats.tp = 0 /\ NoStats.fn = 0
    BY DEF NoStats
  <2>2. Consistent(stats') /\ stats'.total = 0 /\ stats'.tp = 0 /\ stats'.fn = 0
    BY <1>1, <2>1, NothingCounted
  <2>3. next' = 1 /\ Len(batch') = 0
    BY <1>1
  <2>4. stats'.total = next' - 1 - Len(batch')
    <3>1. 1 - 1 - 0 = 0
      OBVIOUS
    <3> QED
      BY <2>2, <2>3, <3>1
  <2> QED
    BY <2>2, <2>4 DEF Counted
<1>9. Measured'
  BY <1>1 DEF Measured, NoBias
<1> QED
  BY <1>3, <1>4, <1>5, <1>7, <1>8, <1>9 DEF IInv

LEMMA EndEpochStep == IInv /\ EndEpoch => IInv'
<1> SUFFICES ASSUME IInv, EndEpoch PROVE IInv'
  OBVIOUS
<1>1. /\ phase = "reading" /\ batch = <<>>
      /\ UNCHANGED <<names, at, train, val, negatives, used, heldOut, broken, batch>>
  BY DEF EndEpoch, EndOfPass
<1>2. CASE IsTraining \/ val = <<>>
  BY <1>1, <1>2, NextPassStep DEF EndEpoch
<1>3. CASE ~ (IsTraining \/ val = <<>>)
  <2>1. phase' = "bias" /\ UNCHANGED <<epoch, next, stats, bias>>
    BY <1>3 DEF EndEpoch
  <2>2. IsTraining' = IsTraining /\ Reading' = Reading /\ ~IsTraining
    BY <1>1, <1>3, <2>1 DEF Reading, IsTraining
  <2>3. Control'
    BY <1>1, <2>1, <2>2 DEF IInv, Control, Preparing
  <2>4. Batched'
    BY <1>1, <2>1, <2>2 DEF IInv, Batched, ReadFrom
  <2>5. Counted'
    BY <1>1, <2>1, <2>2 DEF IInv, Counted
  <2>6. Collected'
    BY <1>1, KeepCollected DEF IInv
  <2>7. Injected'
    BY <1>1, <2>1, KeepInjected DEF IInv
  <2>8. Measured'
    BY <2>1 DEF IInv, Measured
  <2> QED
    BY <2>3, <2>4, <2>5, <2>6, <2>7, <2>8 DEF IInv
<1> QED
  BY <1>2, <1>3

LEMMA EndBiasStep == IInv /\ EndBias => IInv'
<1> SUFFICES ASSUME IInv, EndBias PROVE IInv'
  OBVIOUS
<1>1. /\ phase = "bias" /\ NextPass
      /\ UNCHANGED <<names, at, train, val, negatives, used, heldOut, broken, batch>>
  BY DEF EndBias
<1>2. batch = <<>>
  BY <1>1 DEF IInv, Control
<1> QED
  BY <1>1, <1>2, NextPassStep

-----------------------------------------------------------------------------
(* The position bias.                                                      *)

LEMMA HighestFacts ==
  ASSUME NEW n \in Nat, NEW S \in SUBSET (0..n), S # {}
  PROVE  Highest(S) \in S /\ \A m \in S : m <= Highest(S)
<1> DEFINE T == {k \in 0..n : n - k \in S}
<1>1. T \in SUBSET Nat
  OBVIOUS
<1>2. \A m \in S : n - m \in T
  <2> SUFFICES ASSUME NEW m \in S PROVE n - m \in T
    OBVIOUS
  <2>1. m \in 0..n
    OBVIOUS
  <2>2. n - m \in 0..n /\ n - (n - m) = m
    BY <2>1
  <2> QED
    BY <2>2
<1>3. T # {}
  BY <1>2
<1>4. PICK x \in T : \A y \in T : x <= y
  <2> HIDE DEF T
  <2> QED
    BY <1>1, <1>3, LeastNumber
<1>5. n - x \in S /\ x \in 0..n
  OBVIOUS
<1>6. \A m \in S : m <= n - x
  <2> SUFFICES ASSUME NEW m \in S PROVE m <= n - x
    OBVIOUS
  <2>1. m \in 0..n /\ n - m \in 0..n
    OBVIOUS
  <2>2. x <= n - m
    BY <1>2, <1>4
  <2> QED
    BY <1>5, <2>1, <2>2
<1> HIDE DEF T
<1> QED
  BY <1>5, <1>6 DEF Highest

LEMMA HigherOfTwo ==
  ASSUME NEW a \in Nat, NEW b \in Nat
  PROVE  /\ Highest({a, b}) \in Nat
         /\ Highest({a, b}) > 0 <=> a > 0 \/ b > 0
<1> DEFINE S == {a, b}
<1>1. a + b \in Nat /\ S \in SUBSET (0..(a + b)) /\ S # {}
  OBVIOUS
<1>2. Highest(S) \in S /\ \A m \in S : m <= Highest(S)
  <2> HIDE DEF S
  <2> QED
    BY <1>1, HighestFacts
<1>3. Highest(S) \in {a, b} /\ a <= Highest(S) /\ b <= Highest(S)
  BY <1>2
<1> HIDE DEF S
<1>4. Highest(S) \in Nat
  BY <1>3
<1>5. Highest(S) > 0 <=> a > 0 \/ b > 0
  BY <1>3, <1>4
<1> QED
  BY <1>4, <1>5 DEF S

LEMMA PositionFacts ==
  ASSUME NEW keys, NEW k \in Range(keys)
  PROVE  Position(keys, k) \in DOMAIN keys /\ keys[Position(keys, k)] = k
<1>1. \E i \in DOMAIN keys : keys[i] = k
  BY DEF Range
<1> QED
  BY <1>1 DEF Position

LEMMA ApartFacts ==
  ASSUME NEW a \in Nat, NEW b \in Nat, NEW n \in Nat, a <= n, b <= n
  PROVE  Apart(a, b) \in 0..n /\ (Apart(a, b) = 0 <=> a = b)
BY DEF Apart

\* What a question shown in two orders makes of the two models.
LEMMA DeltaFacts ==
  ASSUME NEW T, NEW orig \in Seq(T), IsInjective(orig), orig # <<>>, NEW perm \in Shuffles(orig)
  PROVE  LET ByKey(keys) == [i \in DOMAIN keys |-> Position(orig, keys[i])]
             Slots == [i \in DOMAIN orig |-> i]
         IN  /\ MaxDelta(orig, perm, ByKey(orig), ByKey(perm)) = 0
             /\ MaxDelta(orig, perm, Slots, Slots) \in Nat
             /\ MaxDelta(orig, perm, Slots, Slots) > 0 <=> perm # orig
<1> DEFINE n == Len(orig)
           ByKey(keys) == [i \in DOMAIN keys |-> Position(orig, keys[i])]
           Slots == [i \in DOMAIN orig |-> i]
<1>1. n \in Nat \ {0} /\ DOMAIN orig = 1..n
  BY LenProperties, EmptySeq
<1>2. /\ perm \in Seq(T) /\ DOMAIN perm = 1..n /\ Range(perm) = Range(orig)
  BY <1>1, ShufflesFacts
<1>3. \A k \in Range(orig) :
        /\ Position(orig, k) \in 1..n /\ orig[Position(orig, k)] = k
        /\ Position(perm, k) \in 1..n /\ perm[Position(perm, k)] = k
  BY <1>1, <1>2, PositionFacts
<1>4. \A i, j \in 1..n : orig[i] = orig[j] => i = j
  BY <1>1 DEF IsInjective
<1>5. \A i \in 1..n : orig[i] \in Range(orig)
  BY <1>1 DEF Range
<1>6. 1 \in 1..n
  BY <1>1
<1> HIDE DEF n
<1>7. MaxDelta(orig, perm, ByKey(orig), ByKey(perm)) = 0
  <2> DEFINE D == {Apart(ByKey(orig)[Position(orig, k)], ByKey(perm)[Position(perm, k)]) : k \in Range(orig)}
  <2>1. \A k \in Range(orig) :
          Apart(ByKey(orig)[Position(orig, k)], ByKey(perm)[Position(perm, k)]) = 0
    <3> SUFFICES ASSUME NEW k \in Range(orig)
                 PROVE  Apart(ByKey(orig)[Position(orig, k)], ByKey(perm)[Position(perm, k)]) = 0
      OBVIOUS
    <3>1. ByKey(orig)[Position(orig, k)] = Position(orig, k)
      BY <1>1, <1>3
    <3>2. ByKey(perm)[Position(perm, k)] = Position(orig, k)
      BY <1>2, <1>3
    <3>3. Position(orig, k) \in Nat /\ Position(orig, k) <= n
      BY <1>1, <1>3
    <3> HIDE DEF ByKey
    <3> QED
      BY <1>1, <3>1, <3>2, <3>3, ApartFacts
  <2>2. D = {0}
    <3> HIDE DEF ByKey
    <3>1. D \subseteq {0}
      BY <2>1
    <3>2. Apart(ByKey(orig)[Position(orig, orig[1])], ByKey(perm)[Position(perm, orig[1])]) \in D
      BY <1>5, <1>6
    <3> QED
      BY <3>1, <3>2
  <2>3. MaxDelta(orig, perm, ByKey(orig), ByKey(perm)) = Highest(D)
    BY DEF MaxDelta
  <2> HIDE DEF D
  <2>4. 0 \in Nat /\ D \in SUBSET (0..0) /\ D # {}
    BY <2>2
  <2>5. Highest(D) \in D
    BY <2>4, HighestFacts
  <2> QED
    BY <2>2, <2>3, <2>5
<1> DEFINE A(k) == Apart(Position(orig, k), Position(perm, k))
           D == {A(k) : k \in Range(orig)}
<1>8. MaxDelta(orig, perm, Slots, Slots) = Highest(D)
  <2>1. \A k \in Range(orig) : Slots[Position(orig, k)] = Position(orig, k) /\ Slots[Position(perm, k)] = Position(perm, k)
    BY <1>1, <1>3
  <2> HIDE DEF Slots
  <2>2. {Apart(Slots[Position(orig, k)], Slots[Position(perm, k)]) : k \in Range(orig)} = D
    BY <2>1
  <2> QED
    BY <2>2 DEF MaxDelta
<1>9. \A k \in Range(orig) : A(k) \in 0..n /\ (A(k) = 0 <=> Position(orig, k) = Position(perm, k))
  <2> SUFFICES ASSUME NEW k \in Range(orig)
               PROVE  A(k) \in 0..n /\ (A(k) = 0 <=> Position(orig, k) = Position(perm, k))
    OBVIOUS
  <2>1. /\ Position(orig, k) \in Nat /\ Position(orig, k) <= n
        /\ Position(perm, k) \in Nat /\ Position(perm, k) <= n /\ n \in Nat
    BY <1>1, <1>3
  <2> QED
    BY <2>1, ApartFacts
<1> HIDE DEF A
<1>10. /\ Highest(D) \in D /\ \A m \in D : m <= Highest(D)
       /\ D \in SUBSET (0..n)
  <2>1. D \in SUBSET (0..n)
    BY <1>9
  <2>2. A(orig[1]) \in D
    BY <1>5, <1>6
  <2> HIDE DEF D
  <2> QED
    BY <1>1, <2>1, <2>2, HighestFacts
<1>11. Highest(D) \in Nat
  <2>1. Highest(D) \in 0..n
    BY <1>10
  <2> QED
    BY <1>1, <2>1
<1>12. ASSUME perm = orig PROVE Highest(D) = 0
  <2>1. PICK k \in Range(orig) : Highest(D) = A(k)
    BY <1>10
  <2> QED
    BY <1>9, <1>12, <2>1
<1>13. ASSUME perm # orig PROVE Highest(D) > 0
  <2>1. PICK i \in 1..n : perm[i] # orig[i]
    <3>1. orig = [i \in 1..n |-> orig[i]] /\ perm = [i \in 1..n |-> perm[i]]
      BY <1>1, <1>2, LenProperties
    <3> QED
      BY <1>13, <3>1
  <2>2. orig[i] \in Range(orig) /\ Position(orig, orig[i]) = i
    BY <1>3, <1>4, <1>5
  <2>3. Position(perm, orig[i]) # i
    BY <1>3, <2>1, <2>2
  <2>4. A(orig[i]) \in D /\ A(orig[i]) \in Nat /\ A(orig[i]) # 0
    BY <1>9, <2>2, <2>3
  <2>5. A(orig[i]) <= Highest(D)
    BY <1>10, <2>4
  <2> HIDE DEF D
  <2> QED
    BY <1>11, <2>4, <2>5
<1> HIDE DEF D
<1>14. /\ MaxDelta(orig, perm, Slots, Slots) \in Nat
       /\ MaxDelta(orig, perm, Slots, Slots) > 0 <=> perm # orig
  BY <1>8, <1>11, <1>12, <1>13
<1> QED
  BY <1>7, <1>14

\* The samples that are measured are choices of the validation.
LEMMA ProbedFacts ==
  ASSUME val \in Seq(Good)
  PROVE  /\ Len(Probed) \in Nat
         /\ \A n \in 1..Len(Probed) :
              LET keys == Probed[n].criteria IN
              keys \in Seq(Key) /\ IsInjective(keys) /\ keys # <<>>
<1> DEFINE places == {i \in DOMAIN val : HasOptions(val[i])}
           choices == Picked(val, places)
           m == IF Len(choices) < MaxBias THEN Len(choices) ELSE MaxBias
<1>1. places \in SUBSET DOMAIN val
  OBVIOUS
<1>2. choices \in Seq(Good) /\ Len(choices) \in Nat /\ DOMAIN choices = 1..Len(choices)
  <2> HIDE DEF places
  <2> QED
    BY <1>1, PickedFacts, LenProperties
<1>3. MaxBias \in Nat
  BY SampleConstants
<1>4. m \in 0..Len(choices)
  <2> HIDE DEF choices
  <2> QED
    BY <1>2, <1>3
<1>5. ASSUME NEW n \in 1..Len(choices)
      PROVE  choices[n] \in Good /\ HasOptions(choices[n])
  <2>1. n \in DOMAIN choices
    BY <1>2
  <2>2. PICK i \in places : choices[n] = val[i]
    <3> HIDE DEF places
    <3> QED
      BY <1>1, <2>1, PickedMembers
  <2>3. val[i] \in Good
    BY <2>2, LenProperties
  <2> QED
    BY <2>2, <2>3
<1> HIDE DEF choices, places
<1>6. Probed = SubSeq(choices, 1, m)
  BY DEF Probed, choices, places
<1> HIDE DEF m
<1>7. Len(Probed) = m /\ \A n \in 1..m : Probed[n] = choices[n]
  <2>1. m \in Nat /\ m <= Len(choices) /\ 1 \in Nat
    BY <1>2, <1>4
  <2>2. 1 \in 1..(Len(choices) + 1) /\ m \in (1 - 1)..Len(choices)
    BY <1>2, <1>4
  <2>3. Len(SubSeq(choices, 1, m)) = IF 1 <= m THEN m - 1 + 1 ELSE 0
    BY <1>2, <2>2, SubSeqProperties
  <2>4. \A n \in 1..(m - 1 + 1) : SubSeq(choices, 1, m)[n] = choices[1 + n - 1]
    BY <1>2, <2>2, SubSeqProperties
  <2>5. Len(Probed) = m
    BY <1>6, <2>1, <2>3
  <2>6. \A n \in 1..m : 1 + n - 1 = n /\ n \in 1..(m - 1 + 1)
    BY <2>1
  <2>7. \A n \in 1..m : Probed[n] = choices[n]
    BY <1>6, <2>4, <2>6
  <2> QED
    BY <2>5, <2>7
<1>8. \A n \in 1..m : n \in 1..Len(choices)
  BY <1>2, <1>4
<1>9. ASSUME NEW n \in 1..m
      PROVE  Probed[n].criteria \in Seq(Key) /\ IsInjective(Probed[n].criteria) /\ Probed[n].criteria # <<>>
  <2>1. Probed[n] \in Good /\ HasOptions(Probed[n])
    BY <1>5, <1>7, <1>8
  <2>2. Probed[n].criteria \in Seq(Key) /\ IsInjective(Probed[n].criteria)
    BY <2>1 DEF Good, Sample
  <2>3. Len(Probed[n].criteria) >= 2
    BY <2>1 DEF HasOptions
  <2>4. Len(<<>>) = 0
    OBVIOUS
  <2> QED
    BY <2>2, <2>3, <2>4
<1> QED
  BY <1>4, <1>2, <1>7, <1>9

LEMMA MeasureBiasStep == IInv /\ MeasureBias => IInv'
<1> SUFFICES ASSUME IInv, MeasureBias PROVE IInv'
  OBVIOUS
<1> DEFINE orig == Probed[bias.seen + 1].criteria
           ByKey(keys) == [i \in DOMAIN keys |-> Position(orig, keys[i])]
           Slots == [i \in DOMAIN orig |-> i]
           K(perm) == MaxDelta(orig, perm, ByKey(orig), ByKey(perm))
           M(perm) == MaxDelta(orig, perm, Slots, Slots)
<1>1. /\ phase = "bias" /\ bias.seen < Len(Probed)
      /\ UNCHANGED <<phase, names, at, train, val, negatives, used, heldOut, broken, epoch, next, batch, stats>>
  BY DEF MeasureBias
<1>2. PICK perm \in Shuffles(orig) :
        bias' = [seen |-> bias.seen + 1, keyed |-> Highest({bias.keyed, K(perm)}),
                 slotted |-> Highest({bias.slotted, M(perm)}), moved |-> bias.moved \/ perm # orig]
  BY DEF MeasureBias
<1>3. /\ bias.seen \in Nat /\ bias.keyed = 0 /\ bias.slotted \in Nat /\ bias.moved \in BOOLEAN
      /\ bias.slotted > 0 <=> bias.moved
  BY DEF IInv, Measured
<1>4. orig \in Seq(Key) /\ IsInjective(orig) /\ orig # <<>>
  <2>1. val \in Seq(Good)
    BY DEF IInv, Collected
  <2>2. bias.seen + 1 \in 1..Len(Probed)
    BY <1>1, <1>3, <2>1, ProbedFacts
  <2> QED
    BY <2>1, <2>2, ProbedFacts
<1>5. K(perm) = 0 /\ M(perm) \in Nat /\ (M(perm) > 0 <=> perm # orig)
  BY <1>4, DeltaFacts
<1> HIDE DEF orig, K, M
<1>6. Highest({bias.keyed, K(perm)}) = 0
  <2>1. 0 \in Nat
    OBVIOUS
  <2>2. Highest({0, 0}) \in Nat /\ (Highest({0, 0}) > 0 <=> 0 > 0 \/ 0 > 0)
    BY <2>1, HigherOfTwo
  <2>3. Highest({0, 0}) = 0
    BY <2>2
  <2> QED
    BY <1>3, <1>5, <2>3
<1>7. /\ Highest({bias.slotted, M(perm)}) \in Nat
      /\ Highest({bias.slotted, M(perm)}) > 0 <=> bias.slotted > 0 \/ M(perm) > 0
  BY <1>3, <1>5, HigherOfTwo
<1>8. Measured'
  <2> DEFINE h == Highest({bias.slotted, M(perm)})
             moved == bias.moved \/ perm # orig
  <2>1. h \in Nat /\ moved \in BOOLEAN /\ (h > 0 <=> moved)
    BY <1>3, <1>5, <1>7
  <2>2. bias' = [seen |-> bias.seen + 1, keyed |-> 0, slotted |-> h, moved |-> moved]
    BY <1>2, <1>6
  <2>3. bias.seen + 1 \in Nat
    BY <1>3
  <2> HIDE DEF h, moved
  <2>4. bias' \in [seen : Nat, keyed : {0}, slotted : Nat, moved : BOOLEAN]
    BY <2>1, <2>2, <2>3
  <2>5. bias'.slotted > 0 <=> bias'.moved
    BY <2>1, <2>2
  <2> QED
    BY <2>4, <2>5 DEF Measured
<1>9. IsTraining' = IsTraining /\ Reading' = Reading
  BY <1>1 DEF Reading, IsTraining
<1>10. Control'
  BY <1>1, <1>9 DEF IInv, Control, Preparing
<1>11. Collected'
  BY <1>1, KeepCollected DEF IInv
<1>12. Injected'
  BY <1>1, KeepInjected DEF IInv
<1>13. Batched'
  BY <1>1, <1>9 DEF IInv, Batched, ReadFrom
<1>14. Counted'
  BY <1>1, <1>9 DEF IInv, Counted
<1> QED
  BY <1>8, <1>10, <1>11, <1>12, <1>13, <1>14 DEF IInv

LEMMA StutterStep == IInv /\ UNCHANGED vars => IInv'
<1> SUFFICES ASSUME IInv, UNCHANGED vars PROVE IInv'
  OBVIOUS
<1>1. UNCHANGED <<phase, names, at, train, val, negatives, used, heldOut, broken, epoch, next, batch, stats, bias>>
  BY DEF vars
<1>2. IsTraining' = IsTraining /\ Reading' = Reading
  BY <1>1 DEF Reading, IsTraining
<1>3. Control'
  BY <1>1, <1>2 DEF IInv, Control, Preparing
<1>4. Collected'
  BY <1>1, KeepCollected DEF IInv
<1>5. Injected'
  BY <1>1, KeepInjected DEF IInv
<1>6. Batched'
  BY <1>1, <1>2 DEF IInv, Batched, ReadFrom
<1>7. Counted'
  BY <1>1, <1>2 DEF IInv, Counted
<1>8. Measured'
  BY <1>1 DEF IInv, Measured
<1> QED
  BY <1>3, <1>4, <1>5, <1>6, <1>7, <1>8 DEF IInv

LEMMA InitInv == Init => IInv
<1> SUFFICES ASSUME Init PROVE IInv
  OBVIOUS
<1>1. /\ phase = "train" /\ names \in Setups /\ at = Start
      /\ train = <<>> /\ val = <<>> /\ negatives = <<>> /\ used = {}
      /\ epoch = 0 /\ next = 1 /\ batch = <<>> /\ stats = NoStats /\ bias = NoBias
  BY DEF Init
<1>2. DOMAIN train = {} /\ DOMAIN val = {} /\ DOMAIN negatives = {} /\ DOMAIN batch = {}
  BY <1>1
<1>3. ~IsTraining /\ Reading = val
  BY <1>1 DEF IsTraining, Reading
<1>4. Epochs \in Nat /\ BatchSize \in Nat
  BY SampleConstants
<1>5. Control
  <2>1. at \in [d : Nat \ {0}, r : Nat \ {0}, n : Nat]
    BY <1>1 DEF Start
  <2> QED
    BY <1>1, <1>4, <2>1 DEF Control
<1>6. Collected
  BY <1>1, <1>2 DEF Collected
<1>7. Injected
  BY <1>1, <1>2 DEF Injected
<1>8. Batched
  <2>1. Len(batch) = 0 /\ Len(Reading) = 0
    BY <1>1, <1>3
  <2>2. batch \in Seq(BatchItem)
    BY <1>1
  <2> QED
    BY <1>1, <1>2, <1>4, <2>1, <2>2 DEF Batched
<1>9. Counted
  <2>1. NoStats.tp = 0 /\ NoStats.fn = 0
    BY DEF NoStats
  <2> QED
    BY <1>1, <2>1, NothingCounted DEF Counted
<1>10. Measured
  BY <1>1 DEF Measured, NoBias
<1> QED
  BY <1>5, <1>6, <1>7, <1>8, <1>9, <1>10 DEF IInv

LEMMA NextInv == IInv /\ [Next]_vars => IInv'
<1> SUFFICES ASSUME IInv, [Next]_vars PROVE IInv'
  OBVIOUS
<1>1. CASE StreamRow
  BY <1>1, StreamRowStep
<1>2. CASE HubFails
  BY <1>2, HubFailsStep
<1>3. CASE EndDataset
  BY <1>3, EndDatasetStep
<1>4. CASE EndStream
  BY <1>4, EndStreamStep
<1>5. CASE InDomainNegative
  BY <1>5, InDomainNegativeStep
<1>6. CASE CrossNegative
  BY <1>6, CrossNegativeStep
<1>7. CASE EndInjection
  BY <1>7, EndInjectionStep
<1>8. CASE Read
  BY <1>8, ReadStep
<1>9. CASE HandOver
  BY <1>9, HandOverStep
<1>10. CASE EndEpoch
  BY <1>10, EndEpochStep
<1>11. CASE MeasureBias
  BY <1>11, MeasureBiasStep
<1>12. CASE EndBias
  BY <1>12, EndBiasStep
<1>13. CASE Done \/ UNCHANGED vars
  BY <1>13, StutterStep DEF Done
<1> QED
  BY <1>1, <1>2, <1>3, <1>4, <1>5, <1>6, <1>7, <1>8, <1>9, <1>10, <1>11, <1>12, <1>13 DEF Next

LEMMA Invariant == Spec => []IInv
<1> QED
  BY InitInv, NextInv, PTL DEF Spec

-----------------------------------------------------------------------------
(* What the invariant implies.                                             *)

BrokenFits == broken \in 0..Len(Lines)

\* builders.py, negative_sampler.py, dataset.py: whatever the rows of the
\* corpora, the lines of the file and the draws, every sample of the three lists
\* keeps the contract of its type, names a text there is and offers no option
\* twice, a negative is drawn from a choice of the training set, and a batch
\* is never larger than the loader's.
THEOREM SamplesTypes == Spec => []TypeOK
<1> USE DEF IInv
<1>1. IInv /\ BrokenFits => TypeOK
  <2> SUFFICES ASSUME IInv, BrokenFits PROVE TypeOK
    OBVIOUS
  <2>1. \A s \in Good : IsSample(s)
    BY DEF Good, Sample, IsSample
  <2>2. ASSUME NEW q \in {train, val, negatives}, NEW i \in DOMAIN q PROVE IsSample(q[i])
    <3>1. q \in Seq(Good)
      BY DEF Collected
    <3>2. q[i] \in Good
      BY <3>1, LenProperties
    <3> QED
      BY <2>1, <3>2
  <2>3. at \in [d : Nat, r : Nat, n : Nat]
    BY DEF Control
  <2> QED
    BY <2>2, <2>3 DEF TypeOK, Control, Injected, Batched, BrokenFits
<1>2. Init => BrokenFits
  <2>1. DOMAIN Lines = 1..Len(Lines) /\ Len(Lines) \in Nat
    BY CorpusAssumption
  <2> QED
    BY <2>1 DEF Init, BrokenFits
<1>3. BrokenFits /\ [Next]_vars => BrokenFits'
  BY DEF BrokenFits, Next, vars, StreamRow, HubFails, EndDataset, EndStream, InDomainNegative,
         CrossNegative, EndInjection, Read, HandOver, EndEpoch, MeasureBias, EndBias, Done
<1> QED
  BY <1>1, <1>2, <1>3, Invariant, PTL DEF Spec

\* builders.py:49-175, negative_sampler.py: however many datasets read the same
\* corpus or the synthetic file, and whichever split stands in for a missing
\* one, no row that the process trains on is one that it evaluates with.
THEOREM RowsHeldOut == Spec => []HeldOut
<1>1. IInv => HeldOut
  <2> SUFFICES ASSUME IInv, NEW i \in DOMAIN train, NEW j \in DOMAIN val
               PROVE  train[i].row # val[j].row
    BY DEF HeldOut
  <2>1. Trained(train[i], heldOut) /\ Evaluated(val[j], heldOut)
    BY DEF IInv, Collected
  <2> QED
    BY <2>1 DEF Trained, Evaluated
<1> QED
  BY <1>1, Invariant, PTL

\* formatter.py, dataset.py: with any set of orders a generator may draw, every
\* item of a batch shows the answer of its own sample under its label.
THEOREM LabelsFollow == Spec => []LabelFollowsTarget
<1>1. IInv => LabelFollowsTarget
  BY DEF IInv, Batched, ShowsSample, ReadFrom, LabelFollowsTarget
<1> QED
  BY <1>1, Invariant, PTL

\* metrics.py, trainer.py:559-739: for any answers of the model the counters of
\* a pass agree with each other and with what was read, and the bias of a model
\* that looks at places shows exactly when an option changed its place.
THEOREM EvaluationSound == Spec => []EvaluationIsSound
<1>1. IInv => EvaluationIsSound
  <2> SUFFICES ASSUME IInv PROVE EvaluationIsSound
    OBVIOUS
  <2>1. /\ Consistent(stats) /\ (phase = "reading" => stats.total = next - 1 - Len(batch))
        /\ ~IsTraining => stats.tp = 0 /\ stats.fn = 0
    BY DEF IInv, Counted
  <2>2. CompositeTells
    <3>1. Tells(stats)
      BY <2>1, CompositeFacts
    <3> QED
      BY <3>1 DEF Tells, CompositeTells
  <2>3. /\ \A field \in {"correct", "total"} :
             ByType(stats, field) = stats[field] /\ BySize(stats, field) = stats[field]
        /\ stats.tp + stats.fp + stats.fn + stats.tn = stats.total
    BY <2>1 DEF Consistent
  <2>4. ~IsTraining => stats.tp + stats.fn = 0
    BY <2>1
  <2>5. CountersAddUp
    BY <2>1, <2>3, <2>4 DEF CountersAddUp
  <2>6. BiasIsOfOrder
    BY DEF IInv, Measured, BiasIsOfOrder
  <2> QED
    BY <2>2, <2>5, <2>6 DEF EvaluationIsSound
<1> QED
  BY <1>1, Invariant, PTL

-----------------------------------------------------------------------------
(* The injection.                                                          *)

LEMMA InjectedCount ==
  ASSUME train \in Seq(Good), negatives \in Seq(Good), NEW V
  PROVE  LET r == ChoiceSamples \o negatives \o OtherSamples IN
         /\ r \in Seq(Good)
         /\ Cardinality(Holding(r, V)) = Cardinality(Holding(train, V)) + Cardinality(Holding(negatives, V))
<1>1. ChoicePlaces(train) \in SUBSET DOMAIN train
  BY DEF ChoicePlaces
<1> DEFINE S == ChoicePlaces(train)
           r == Picked(train, S) \o negatives \o Picked(train, DOMAIN train \ S)
<1>2. ChoiceSamples \o negatives \o OtherSamples = r
  BY DEF ChoiceSamples, OtherSamples
<1> HIDE DEF S
<1>3. /\ r \in Seq(Good)
      /\ Cardinality(Holding(r, V)) = Cardinality(Holding(train, V)) + Cardinality(Holding(negatives, V))
  <2>1. S \in SUBSET DOMAIN train
    BY <1>1 DEF S
  <2>2. r \in Seq(Good)
    BY <2>1, AroundCount
  <2>3. Cardinality(Holding(r, V)) = Cardinality(Holding(train, V)) + Cardinality(Holding(negatives, V))
    <3>1. \A q \in Seq(Good) : Cardinality(Holding(q, V)) \in Nat
      BY HoldingFinite
    <3>2. /\ Cardinality(Holding(train, V)) \in Nat /\ Cardinality(Holding(negatives, V)) \in Nat
          /\ Cardinality(Holding(r, V)) \in Nat
      BY <2>2, <3>1
    <3> QED
      BY <2>1, <3>2, AroundCount
  <2> QED
    BY <2>2, <2>3
<1> HIDE DEF r
<1> QED
  BY <1>2, <1>3

LEMMA HoldingAll ==
  ASSUME NEW T, NEW q \in Seq(T), NEW V
  PROVE  /\ (\A i \in DOMAIN q : q[i] \in V) => Cardinality(Holding(q, V)) = Len(q)
         /\ (\A i \in DOMAIN q : q[i] \notin V) => Cardinality(Holding(q, V)) = 0
         /\ Cardinality(Holding(q, V)) = 0 => \A i \in DOMAIN q : q[i] \notin V
<1>1. Len(q) \in Nat /\ DOMAIN q = 1..Len(q)
  BY LenProperties
<1>2. Cardinality(1..Len(q)) = Len(q)
  BY <1>1, FS_Interval
<1>3. IsFiniteSet(Holding(q, V))
  BY HoldingFinite
<1>4. Cardinality(Holding(q, V)) = 0 <=> Holding(q, V) = {}
  BY <1>3, FS_EmptySet
<1>5. (\A i \in DOMAIN q : q[i] \in V) => Holding(q, V) = 1..Len(q)
  BY <1>1 DEF Holding
<1>6. (\A i \in DOMAIN q : q[i] \notin V) <=> Holding(q, V) = {}
  BY DEF Holding
<1> QED
  BY <1>2, <1>4, <1>5, <1>6

\* L negatives among c + L choices are no more than a share R / D of them.
LEMMA RatioKept ==
  ASSUME NEW L \in Nat, NEW N \in Nat, NEW c \in Nat, NEW R \in Nat, NEW D \in Nat,
         R < D, L <= N, N * (D - R) <= c * R
  PROVE  L * D <= (c + L) * R
<1> DEFINE d == D - R
<1>1. d \in Nat /\ D = d + R
  OBVIOUS
<1>2. L * d <= N * d
  BY <1>1, Z3
<1>3. N * d <= c * R
  OBVIOUS
<1>4. /\ L * D = L * d + L * R
      /\ (c + L) * R = c * R + L * R
  <2> HIDE DEF d
  <2> QED
    BY <1>1, Z3
<1>5. L * d \in Nat /\ N * d \in Nat /\ c * R \in Nat /\ L * R \in Nat
  BY <1>1, Z3
<1> HIDE DEF d
<1> QED
  BY <1>2, <1>3, <1>4, <1>5

\* The mixed list when there is something to inject.
LEMMA MixedList ==
  ASSUME IInv, phase = "inject"
  PROVE  LET r == ChoiceSamples \o negatives \o OtherSamples
             added == {i \in DOMAIN r : ~Unmarked(r[i])}
             kept == DOMAIN r \ added
         IN  /\ Cardinality(kept) = Len(train)
             /\ \A i \in DOMAIN train :
                  Cardinality({j \in kept : r[j] = train[i]}) = Count(train, train[i])
             /\ Cardinality(added) * RatioDen <= Cardinality(ChoicePlaces(r)) * RatioNum
             /\ added \subseteq ChoicePlaces(r)
<1> DEFINE r == ChoiceSamples \o negatives \o OtherSamples
           added == {i \in DOMAIN r : ~Unmarked(r[i])}
           kept == DOMAIN r \ added
           Plain == {s \in Good : Unmarked(s)}
           Mark == {s \in Good : ~Unmarked(s)}
           Choice == {s \in Good : IsChoice(s)}
           Odd == {s \in Good : ~Unmarked(s) /\ ~IsChoice(s)}
<1>1. /\ train \in Seq(Good) /\ negatives \in Seq(Good)
      /\ \A i \in DOMAIN train : Unmarked(train[i])
      /\ \A i \in DOMAIN negatives : ~Unmarked(negatives[i]) /\ IsChoice(negatives[i])
      /\ Len(negatives) <= NumNegatives
  BY DEF IInv, Collected, Injected
<1>2. /\ \A i \in DOMAIN train : train[i] \in Good
      /\ \A i \in DOMAIN negatives : negatives[i] \in Good
      /\ Len(train) \in Nat /\ Len(negatives) \in Nat
  BY <1>1, LenProperties
<1>3. r \in Seq(Good)
  BY <1>1, InjectedCount
<1>4. \A V : Cardinality(Holding(r, V)) = Cardinality(Holding(train, V)) + Cardinality(Holding(negatives, V))
  BY <1>1, InjectedCount
<1> HIDE DEF r
<1>5. \A i \in DOMAIN r : r[i] \in Good
  BY <1>3, LenProperties
<1>6. added = Holding(r, Mark) /\ kept = Holding(r, Plain) /\ ChoicePlaces(r) = Holding(r, Choice)
  BY <1>5 DEF Holding, ChoicePlaces
<1>7. Cardinality(added) = Len(negatives)
  <2>1. Cardinality(Holding(train, Mark)) = 0 /\ Cardinality(Holding(negatives, Mark)) = Len(negatives)
    BY <1>1, <1>2, HoldingAll
  <2> HIDE DEF added, Mark
  <2> QED
    BY <1>2, <1>4, <1>6, <2>1
<1>8. Cardinality(kept) = Len(train)
  <2>1. Cardinality(Holding(train, Plain)) = Len(train) /\ Cardinality(Holding(negatives, Plain)) = 0
    BY <1>1, <1>2, HoldingAll
  <2> HIDE DEF kept, Plain
  <2> QED
    BY <1>2, <1>4, <1>6, <2>1
<1>9. ASSUME NEW i \in DOMAIN train
      PROVE  Cardinality({j \in kept : r[j] = train[i]}) = Count(train, train[i])
  <2>1. {j \in kept : r[j] = train[i]} = Holding(r, {train[i]})
    BY <1>1 DEF Holding
  <2>2. Count(train, train[i]) = Cardinality(Holding(train, {train[i]}))
    <3>1. {k \in DOMAIN train : train[k] = train[i]} = Holding(train, {train[i]})
      BY DEF Holding
    <3> QED
      BY <3>1 DEF Count
  <2>3. Cardinality(Holding(negatives, {train[i]})) = 0
    <3>1. \A j \in DOMAIN negatives : negatives[j] \notin {train[i]}
      BY <1>1
    <3> QED
      BY <1>1, <3>1, HoldingAll
  <2>4. Cardinality(Holding(train, {train[i]})) \in Nat
    BY <1>1, HoldingFinite
  <2> HIDE DEF kept
  <2>5. Cardinality(Holding(r, {train[i]}))
          = Cardinality(Holding(train, {train[i]})) + Cardinality(Holding(negatives, {train[i]}))
    BY <1>4
  <2>6. Cardinality(Holding(r, {train[i]})) = Cardinality(Holding(train, {train[i]}))
    BY <2>3, <2>4, <2>5
  <2> QED
    BY <2>1, <2>2, <2>6
<1>10. Cardinality(ChoicePlaces(r)) = Cardinality(ChoicePlaces(train)) + Len(negatives)
  <2>1. Holding(train, Choice) = ChoicePlaces(train)
    BY <1>2 DEF Holding, ChoicePlaces
  <2>2. Cardinality(Holding(negatives, Choice)) = Len(negatives)
    BY <1>1, <1>2, HoldingAll
  <2> HIDE DEF Choice
  <2> QED
    BY <1>4, <1>6, <2>1, <2>2
<1>11. Cardinality(added) * RatioDen <= Cardinality(ChoicePlaces(r)) * RatioNum
  <2> DEFINE c == Cardinality(ChoicePlaces(train))
             L == Len(negatives)
             N == NumNegatives
  <2>1. c \in Nat /\ N \in Nat /\ N * (RatioDen - RatioNum) <= c * RatioNum
    BY <1>1, NegativeNumbers, ChoiceFacts
  <2>2. RatioNum \in Nat /\ RatioDen \in Nat /\ RatioNum < RatioDen
    BY SampleConstants
  <2>3. L \in Nat /\ L <= N
    BY <1>1, <1>2
  <2> HIDE DEF c, L, N
  <2>4. L * RatioDen <= (c + L) * RatioNum
    BY <2>1, <2>2, <2>3, RatioKept
  <2> HIDE DEF added
  <2> QED
    BY <1>7, <1>10, <2>4 DEF c, L
<1>12. added \subseteq ChoicePlaces(r)
  <2>1. Cardinality(Holding(train, Odd)) = 0 /\ Cardinality(Holding(negatives, Odd)) = 0
    BY <1>1, <1>2, HoldingAll
  <2>2. Cardinality(Holding(r, Odd)) = 0
    <3> HIDE DEF Odd
    <3> QED
      BY <1>4, <2>1
  <2>3. \A i \in DOMAIN r : r[i] \notin Odd
    <3> HIDE DEF Odd
    <3> QED
      BY <1>3, <2>2, HoldingAll
  <2> QED
    BY <1>5, <2>3 DEF ChoicePlaces
<1> HIDE DEF added, kept
<1> QED
  BY <1>8, <1>9, <1>11, <1>12 DEF r, added, kept

\* The list as it is when there is nothing to inject.
LEMMA UnmixedList ==
  ASSUME IInv, phase = "inject"
  PROVE  LET added == {i \in DOMAIN train : ~Unmarked(train[i])}
             kept == DOMAIN train \ added
         IN  /\ Cardinality(kept) = Len(train)
             /\ \A i \in DOMAIN train :
                  Cardinality({j \in kept : train[j] = train[i]}) = Count(train, train[i])
             /\ Cardinality(added) * RatioDen <= Cardinality(ChoicePlaces(train)) * RatioNum
             /\ added \subseteq ChoicePlaces(train)
<1> DEFINE added == {i \in DOMAIN train : ~Unmarked(train[i])}
           kept == DOMAIN train \ added
<1>1. train \in Seq(Good) /\ \A i \in DOMAIN train : Unmarked(train[i])
  BY DEF IInv, Collected, Injected
<1>2. added = {} /\ kept = DOMAIN train
  BY <1>1
<1>3. Cardinality(kept) = Len(train)
  <2>1. Len(train) \in Nat /\ DOMAIN train = 1..Len(train)
    BY <1>1, LenProperties
  <2> DEFINE n == Len(train)
  <2>2. n \in Nat /\ kept = 1..n
    BY <1>2, <2>1
  <2> HIDE DEF n, kept
  <2>3. Cardinality(1..n) = n
    BY <2>2, FS_Interval
  <2> QED
    BY <2>2, <2>3 DEF n
<1>4. Cardinality(added) * RatioDen <= Cardinality(ChoicePlaces(train)) * RatioNum
  <2>1. Cardinality(added) = 0
    BY <1>2, FS_EmptySet
  <2>2. Cardinality(ChoicePlaces(train)) \in Nat /\ RatioNum \in Nat /\ RatioDen \in Nat
    BY <1>1, ChoiceFacts, SampleConstants
  <2> DEFINE c == Cardinality(ChoicePlaces(train))
             a == Cardinality(added)
  <2> HIDE DEF c, a
  <2>3. a * RatioDen <= c * RatioNum
    BY <2>1, <2>2, Z3 DEF a, c
  <2> QED
    BY <2>3 DEF a, c
<1>5. added \subseteq ChoicePlaces(train)
  BY <1>2
<1>6. \A i \in DOMAIN train : Cardinality({j \in kept : train[j] = train[i]}) = Count(train, train[i])
  BY <1>2 DEF Count
<1> HIDE DEF added, kept
<1> QED
  BY <1>3, <1>4, <1>5, <1>6 DEF added, kept

\* negative_sampler.py:183-255: for any ratio below one and any draws, mixing the
\* negatives in loses and repeats no sample, marks choices only and keeps their
\* share within the ratio.
THEOREM InjectionExact == Spec => InjectionIsExact
<1> DEFINE Exact ==
      phase = "inject" /\ phase' # "inject" =>
        LET added == {i \in DOMAIN train' : ~Unmarked(train'[i])}
            kept == DOMAIN train' \ added
        IN  /\ Cardinality(kept) = Len(train)
            /\ \A i \in DOMAIN train :
                 Cardinality({j \in kept : train'[j] = train[i]}) = Count(train, train[i])
            /\ Cardinality(added) * RatioDen <= Cardinality(ChoicePlaces(train')) * RatioNum
            /\ added \subseteq ChoicePlaces(train')
<1>1. ASSUME IInv, Next, phase = "inject", phase' # "inject"
      PROVE  train' = IF NumNegatives > 0 THEN ChoiceSamples \o negatives \o OtherSamples ELSE train
  <2>1. EndInjection
    BY <1>1 DEF Next, StreamRow, HubFails, EndDataset, EndStream, Streaming, InDomainNegative,
       CrossNegative, Read, HandOver, EndEpoch, EndOfPass, MeasureBias, EndBias, Done, vars
  <2> QED
    BY <2>1 DEF EndInjection
<1>2. IInv /\ [Next]_vars => [Exact]_vars
  <2> SUFFICES ASSUME IInv, Next, phase = "inject", phase' # "inject" PROVE Exact
    BY DEF vars
  <2>1. CASE NumNegatives > 0
    <3>1. train' = ChoiceSamples \o negatives \o OtherSamples
      BY <1>1, <2>1
    <3> QED
      BY <3>1, MixedList
  <2>2. CASE ~ (NumNegatives > 0)
    <3>1. train' = train
      BY <1>1, <2>2
    <3> QED
      BY <3>1, UnmixedList
  <2> QED
    BY <2>1, <2>2
<1>3. Spec => [][Exact]_vars
  BY <1>2, Invariant, PTL DEF Spec
<1> QED
  BY <1>3, PTL DEF InjectionIsExact
=============================================================================

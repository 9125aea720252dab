---------------------------- MODULE TrainingProofs ----------------------------
(***************************************************************************)
(* Proofs about Training, for any configurations, metrics and numbers of   *)
(* jobs, with a kill possible at every step.                               *)
(***************************************************************************)
EXTENDS Training, SequenceTheorems, TLAPS

\* A job has a number, writes only between its loops, and has the metric of
\* each epoch that is over.
Paced ==
  /\ ~Resting => jobs >= 1 /\ kind # "eval"
  /\ pc \in {"idle", "batches", "ended", "failed"} => todo = <<>>
  /\ pc = "closing" => kind # "sft"
  /\ pc = "batches" => epoch >= 1
  /\ Len(history) = IF pc = "batches" THEN epoch - 1 ELSE epoch

\* The best metric is the highest, the best epoch the first that had it.
Selected ==
  /\ best # NoScore =>
       /\ bestEpoch \in DOMAIN history /\ Improves(bestEpoch)
       /\ best = history[bestEpoch].score
  /\ \A e \in DOMAIN history : history[e].score = NaN \/ history[e].score <= best

\* The weights of the best epoch are on the disk or about to be written, and
\* no others are.
IsBestModel(entry) == entry.dir = BestDir /\ entry.file = "model"

Pending ==
  pc \in {"ready", "batches", "closing", "ended"} /\ kind # "eval" =>
    /\ \A i \in DOMAIN todo : IsBestModel(todo[i]) =>
         pc = "ready" /\ best # NoScore /\ todo[i].content.of = history[bestEpoch].weights
    /\ best # NoScore =>
         \/ disk[BestDir]["model"].of = history[bestEpoch].weights
         \/ \E i \in DOMAIN todo : IsBestModel(todo[i])

\* What waited counts, and that no epoch was stale before the last one.
StaleAt(e) ==
  /\ conf.patience # NoPatience /\ e >= conf.patience
  /\ \A f \in (e - conf.patience + 1)..e : ~Improves(f)

Patient ==
  kind = "sft" =>
    /\ waited <= Len(history)
    /\ \A f \in (Len(history) - waited + 1)..Len(history) : ~Improves(f)
    /\ waited < Len(history) => Improves(Len(history) - waited)
    /\ \A e \in DOMAIN history : StaleAt(e) => pc # "batches" /\ e = Len(history)
    /\ pc = "ended" => Over

\* The accumulation: of the batches so far, whole windows were applied; the
\* steps of an epoch are one more than its whole windows at most.
Windows == conf.batches \div conf.accum

UpTo(k) ==
  /\ k * conf.accum + window = batch
  /\ steps <= (epoch - 1) * (Windows + 1) + k

Reached == IF kind = "rlcd" /\ conf.freeze THEN {p \in Params : IsHead(p)} ELSE Params

Applied ==
  /\ pc = "ready" =>
       /\ window = 0
       /\ steps * conf.accum >= epoch * conf.batches
       /\ steps <= epoch * (Windows + 1)
  /\ pc = "batches" =>
       /\ window < conf.accum
       /\ steps * conf.accum + window >= (epoch - 1) * conf.batches + batch
       /\ IF batch < conf.batches THEN \E k \in 0..batch : UpTo(k)
          ELSE window = 0 /\ steps <= epoch * (Windows + 1)
  /\ pc \in {"ready", "batches"} => touched = IF steps = 0 THEN {} ELSE Reached

\* No later job has a checkpoint yet.
Fresh ==
  \A n \in 1..MaxJobs : n > jobs =>
    disk[Best(n)]["metrics"] = None /\ disk[Latest(n)]["metrics"] = None

\* The ten writes that end an epoch, or the last five of them.
Writes == SftCheckpoint(Best(jobs), weights) \o SftCheckpoint(Latest(jobs), weights)
Written == 10 - Len(todo)

\* The first j files of a checkpoint are on the disk.
Part(files, j, n, w) ==
  /\ j >= 1 => files["model"] = Holds("state_dict", w)
  /\ j >= 2 => files["tokenizer"] = Holds("tokenizer", Of(n))
  /\ j >= 4 => files["config"] = Holds("sft", Of(n))

Partly(dir, j) == Part(disk[dir], j, jobs, weights)

NoCheckpoint ==
  disk[Best(jobs)]["metrics"] = None /\ disk[Latest(jobs)]["metrics"] = None

\* Best is written while latest is whole, latest while best is.
Saving ==
  /\ kind # "sft" => \A i \in DOMAIN todo : todo[i].dir \notin SftDirs
  /\ kind = "sft" /\ ~Resting =>
       /\ Len(todo) <= 10
       /\ \A i \in DOMAIN todo : todo[i] = Writes[Written + i]
       /\ IF history = <<>> THEN todo = <<>> /\ NoCheckpoint
          ELSE /\ best # NoScore
               /\ Written >= 5 => Whole(Best(jobs))
               /\ Written < 5 => Partly(Best(jobs), Written) /\ (NoCheckpoint \/ Whole(Latest(jobs)))
               /\ Written \in 5..9 => Partly(Latest(jobs), Written - 5)
               /\ Written = 10 => Whole(Latest(jobs))

IInv ==
  /\ TypeOK /\ Paced /\ Selected /\ Pending /\ Patient /\ Applied /\ Fresh /\ Saving
-----------------------------------------------------------------------------
\* Whole windows and what is left over.
LEMMA Remainder ==
  ASSUME NEW a \in Nat \ {0}, NEW k \in Nat, NEW w \in Nat, w < a
  PROVE  (k * a + w) % a = w /\ (k * a + w) \div a = k
<1> DEFINE n == k * a + w
<1>1. n \in Nat
  OBVIOUS
<1>2. n \div a \in Int /\ n % a \in 0..(a - 1) /\ n = a * (n \div a) + (n % a)
  BY <1>1
<1>3. CASE n \div a >= k + 1
  BY <1>2, <1>3
<1>4. CASE n \div a <= k - 1
  BY <1>2, <1>4
<1> QED
  BY <1>2, <1>3, <1>4

LEMMA WindowsFit ==
  ASSUME NEW a \in Nat \ {0}, NEW b \in Nat, NEW k \in Nat, k * a <= b
  PROVE  b \div a \in Nat /\ k <= b \div a
<1>1. b \div a \in Int /\ b % a \in 0..(a - 1) /\ b = a * (b \div a) + (b % a)
  OBVIOUS
<1> QED
  BY <1>1

-----------------------------------------------------------------------------
(* Types. *)

Entry == [dir : Dirs, file : File, content : Content]

LEMMA ConfTypes ==
  ASSUME NEW c \in Confs
  PROVE  /\ c.batches \in Nat /\ c.accum \in Nat \ {0} /\ c.epochs \in Nat
         /\ c.patience \in Nat \cup {-1} /\ c.freeze \in BOOLEAN
BY TrainingConstants DEF Conf, NoPatience

LEMMA Blanks ==
  ASSUME MaxJobs \in Nat
  PROVE  /\ Pretrained \in Weights /\ \A n \in 0..MaxJobs : Of(n) \in Weights
         /\ None \in Content /\ Torn \in Content
<1>1. Pretrained \in Weights /\ \A n \in 0..MaxJobs : Of(n) \in Weights
  BY DEF Pretrained, Weights, Of
<1> QED
  BY <1>1 DEF None, Torn, Holds, Content

\* A new job knows nothing of the one before.
LEMMA BlankTypes ==
  ASSUME NEW w \in Weights, Blank(w), conf' \in Confs
  PROVE  /\ epoch' \in 0..(conf').epochs /\ batch' \in 0..(conf').batches /\ window' \in Nat
         /\ steps' \in Nat /\ weights' \in Weights /\ touched' \subseteq Params
         /\ best' \in Scores \cup {NoScore} /\ bestEpoch' \in 0..epoch' /\ waited' \in 0..epoch'
         /\ history' \in Seq([score : Scores \cup {NaN}, weights : Weights])
<1>1. (conf').epochs \in Nat /\ (conf').batches \in Nat
  BY ConfTypes
<1> QED
  BY <1>1 DEF Blank

LEMMA CheckpointTypes ==
  ASSUME jobs \in 1..MaxJobs, NEW dir \in Dirs, NEW w \in Weights
  PROVE  SftCheckpoint(dir, w) \in Seq(Entry) /\ RlcdCheckpoint(dir, w) \in Seq(Entry)
<1>1. Of(jobs) \in Weights
  BY TrainingConstants DEF Of, Weights
<1>2. /\ Holds("state_dict", w) \in Content /\ Holds("record", w) \in Content
      /\ Holds("tokenizer", Of(jobs)) \in Content /\ Holds("backbone", Of(jobs)) \in Content
      /\ Holds("sft", Of(jobs)) \in Content /\ Holds("metrics", w) \in Content
  BY <1>1 DEF Holds, Content
<1>3. \A f \in File, c \in Content : Put(dir, f, c) \in Entry
  BY DEF Put, Entry
<1>4. /\ Put(dir, "model", Holds("state_dict", w)) \in Entry
      /\ Put(dir, "model", Holds("record", w)) \in Entry
      /\ Put(dir, "tokenizer", Holds("tokenizer", Of(jobs))) \in Entry
      /\ Put(dir, "config", Holds("backbone", Of(jobs))) \in Entry
      /\ Put(dir, "config", Holds("sft", Of(jobs))) \in Entry
      /\ Put(dir, "metrics", Holds("metrics", w)) \in Entry
  BY <1>2, <1>3 DEF File
<1> QED
  BY <1>4 DEF SftCheckpoint, RlcdCheckpoint

LEMMA DirsOf ==
  /\ \A n \in 1..MaxJobs : Best(n) \in Dirs /\ Latest(n) \in Dirs
  /\ {RlcdBest, RlcdFinal, Hier} \subseteq Dirs /\ SftDirs \subseteq Dirs
BY DEF Dirs, SftDirs

LEMMA InitTypes == Init => TypeOK
<1> SUFFICES ASSUME Init PROVE TypeOK
  OBVIOUS
<1> USE TrainingConstants
<1>1. conf \in Confs /\ conf.epochs \in Nat /\ conf.batches \in Nat
  BY ConfTypes DEF Init
<1>2. disk \in [Dirs -> [File -> Content]]
  BY Blanks DEF Init
<1>3. todo \in Seq([dir : Dirs, file : File, content : Content])
  BY DEF Init
<1>4. history \in Seq([score : Scores \cup {NaN}, weights : Weights])
  BY DEF Init
<1> QED
  BY <1>1, <1>2, <1>3, <1>4, Blanks DEF Init, TypeOK

LEMMA StartTypes ==
  ASSUME TypeOK, StartSft \/ StartRlcd \/ StartHier \/ StartEval
  PROVE  TypeOK'
<1> USE TrainingConstants, Blanks, DirsOf
<1>1. jobs' \in 1..MaxJobs
  BY DEF StartSft, StartRlcd, StartHier, StartEval, Begin, TypeOK
<1>2. conf' \in Confs
  BY DEF StartSft, StartRlcd, StartHier, StartEval, TypeOK
<1>3. \A dir \in SftDirs \cup {RlcdBest} : disk[dir]["model"].of \in Weights
  <2>1. \A dir \in Dirs, f \in File : disk[dir][f] \in Content
    BY DEF TypeOK
  <2> QED
    BY <2>1 DEF File, Content
<1>4. \E w \in Weights : Blank(w)
  BY <1>3 DEF StartSft, StartRlcd, StartHier, StartEval
<1>5. todo' \in Seq(Entry)
  <2>1. CASE StartHier
    <3>1. Of(jobs') \in Weights
      BY <1>1
    <3>2. Holds("ontology", Of(jobs')) \in Content /\ Holds("tokenizer", Of(jobs')) \in Content
      BY <3>1 DEF Holds, Content
    <3>3. /\ Put(Hier, "config", Holds("ontology", Of(jobs'))) \in Entry
          /\ Put(Hier, "tokenizer", Holds("tokenizer", Of(jobs'))) \in Entry
      BY <3>2 DEF Put, Entry, File
    <3> QED
      BY <2>1, <3>3 DEF StartHier
  <2>2. StartSft \/ StartRlcd \/ StartEval => todo' = <<>>
    BY DEF StartSft, StartRlcd, StartEval
  <2>3. <<>> \in Seq(Entry)
    OBVIOUS
  <2> QED
    BY <2>1, <2>2, <2>3, Zenon
<1>6. /\ kind' \in {"sft", "rlcd", "hier", "eval"}
      /\ pc' \in {"idle", "ready", "batches", "closing", "ended", "failed"}
      /\ disk' = disk
  BY DEF StartSft, StartRlcd, StartHier, StartEval, Begin
<1>7. PICK w \in Weights : Blank(w)
  BY <1>4
<1>8. /\ epoch' \in 0..(conf').epochs /\ batch' \in 0..(conf').batches /\ window' \in Nat
      /\ steps' \in Nat /\ weights' \in Weights /\ touched' \subseteq Params
      /\ best' \in Scores \cup {NoScore} /\ bestEpoch' \in 0..epoch' /\ waited' \in 0..epoch'
      /\ history' \in Seq([score : Scores \cup {NaN}, weights : Weights])
  BY <1>2, <1>7, BlankTypes
<1>9. disk' \in [Dirs -> [File -> Content]]
  BY <1>6 DEF TypeOK
<1> HIDE TrainingConstants, Blanks, DirsOf
<1> QED
  BY <1>1, <1>2, <1>5, <1>6, <1>8, <1>9 DEF TypeOK, Entry

LEMMA DiskTypes ==
  ASSUME TypeOK, NEW d \in Dirs, NEW f \in File, NEW c \in Content,
         disk' = [disk EXCEPT ![d][f] = c]
  PROVE  /\ disk' \in [Dirs -> [File -> Content]]
         /\ \A e \in Dirs, g \in File :
              disk'[e][g] = IF e = d /\ g = f THEN c ELSE disk[e][g]
BY DEF TypeOK

LEMMA WriteTypes ==
  ASSUME TypeOK, todo # <<>>
  PROVE  /\ Head(todo) \in Entry /\ Head(todo) = todo[1]
         /\ Head(todo).dir \in Dirs /\ Head(todo).file \in File /\ Head(todo).content \in Content
         /\ Tail(todo) \in Seq(Entry) /\ Len(Tail(todo)) = Len(todo) - 1
         /\ \A i \in DOMAIN Tail(todo) : i + 1 \in DOMAIN todo /\ Tail(todo)[i] = todo[i + 1]
<1>1. todo \in Seq(Entry)
  BY DEF TypeOK, Entry
<1>2. /\ Head(todo) \in Entry /\ Head(todo) = todo[1]
      /\ Tail(todo) \in Seq(Entry) /\ Len(Tail(todo)) = Len(todo) - 1
      /\ \A i \in DOMAIN Tail(todo) : i + 1 \in DOMAIN todo /\ Tail(todo)[i] = todo[i + 1]
  BY <1>1
<1> QED
  BY <1>2 DEF Entry

LEMMA EvaluateTypes ==
  ASSUME TypeOK, Paced, NEW k \in {"sft", "rlcd", "hier"}, AtEnd(k),
         NEW score \in Scores \cup {NaN}, Record(score)
  PROVE  /\ history' \in Seq([score : Scores \cup {NaN}, weights : Weights])
         /\ best' \in Scores \cup {NoScore} /\ bestEpoch' \in 0..epoch'
         /\ Len(history') = epoch' /\ Len(history') = Len(history) + 1
         /\ \A e \in DOMAIN history : history'[e] = history[e] /\ e \in DOMAIN history'
         /\ history'[epoch] = [score |-> score, weights |-> weights]
         /\ epoch \in Nat \ {0}
<1> USE TrainingConstants
<1>1. epoch \in Nat \ {0} /\ Len(history) = epoch - 1
  BY ConfTypes DEF TypeOK, Paced, AtEnd
<1>2. [score |-> score, weights |-> weights] \in [score : Scores \cup {NaN}, weights : Weights]
  BY DEF TypeOK
<1>3. history' \in Seq([score : Scores \cup {NaN}, weights : Weights])
  BY <1>2 DEF Record, TypeOK
<1>4. Beats(score, best) => score \in Scores
  BY DEF Beats
<1> QED
  BY <1>1, <1>2, <1>3, <1>4 DEF Record, TypeOK

LEMMA BestDirs ==
  ASSUME TypeOK, kind # "eval", jobs >= 1
  PROVE  BestDir \in Dirs
BY DirsOf, TrainingConstants DEF TypeOK, BestDir

\* Steps that leave the disk and the files to write alone.
LEMMA LoopTypes ==
  ASSUME TypeOK, Paced, BeginEpoch \/ SftBatch \/ RlcdBatch \/ HierBatch \/ SftFinish \/ End
  PROVE  TypeOK'
<1> USE TrainingConstants
<1>1. conf.epochs \in Nat /\ conf.batches \in Nat /\ epoch \in Nat /\ batch \in Nat
  BY ConfTypes DEF TypeOK
<1>2. CASE BeginEpoch
  <2>1. epoch' \in 0..conf.epochs /\ bestEpoch \in 0..epoch' /\ waited \in 0..epoch'
    BY <1>1, <1>2 DEF BeginEpoch, Over, TypeOK
  <2>2. batch' \in 0..conf.batches /\ window' \in Nat
    BY <1>1, <1>2 DEF BeginEpoch, TypeOK
  <2> QED
    BY <1>2, <2>1, <2>2 DEF BeginEpoch, TypeOK
<1>3. ASSUME NEW synced \in BOOLEAN, Backward(synced), batch < conf.batches, ~Resting
      PROVE  TypeOK'
  <2>1. jobs \in 0..MaxJobs /\ steps \in Nat /\ window \in Nat
    BY DEF TypeOK
  <2>2. [job |-> jobs, steps |-> steps + 1] \in Weights
    BY <2>1 DEF Weights
  <2>3. batch' \in 0..conf.batches /\ window' \in Nat /\ steps' \in Nat
    BY <1>1, <1>3, <2>1 DEF Backward
  <2>4. weights' \in Weights /\ touched' \subseteq Params
    BY <1>3, <2>2 DEF Backward, TypeOK
  <2> QED
    BY <1>3, <2>3, <2>4 DEF Backward, TypeOK
<1>4. CASE SftBatch \/ RlcdBatch \/ HierBatch
  <2>1. batch < conf.batches /\ ~Resting /\ \E synced \in BOOLEAN : Backward(synced)
    <3>1. Accumulated \in BOOLEAN /\ ((batch + 1) % conf.accum = 0 \/ batch + 1 = conf.batches) \in BOOLEAN
      BY DEF Accumulated
    <3> QED
      BY <1>4, <3>1 DEF SftBatch, RlcdBatch, HierBatch, AtBatch, Resting
  <2> QED
    BY <1>3, <2>1
<1>5. CASE SftFinish \/ End
  BY <1>5 DEF SftFinish, End, TypeOK, state
<1> QED
  BY <1>2, <1>4, <1>5

LEMMA FileTypes ==
  ASSUME TypeOK, Paced, Write \/ Kill
  PROVE  TypeOK'
<1> USE TrainingConstants
<1>1. CASE Write
  <2>1. disk' \in [Dirs -> [File -> Content]]
    BY <1>1, WriteTypes, DiskTypes DEF Write
  <2>2. todo' \in Seq([dir : Dirs, file : File, content : Content])
    BY <1>1, WriteTypes DEF Write, Entry
  <2> QED
    BY <1>1, <2>1, <2>2 DEF Write, TypeOK, state
<1>2. CASE Kill
  <2>1. disk' \in [Dirs -> [File -> Content]]
    <3>1. CASE UNCHANGED disk
      BY <3>1 DEF TypeOK
    <3>2. CASE todo # <<>> /\ disk' = [disk EXCEPT ![Head(todo).dir][Head(todo).file] = Torn]
      BY <3>2, WriteTypes, DiskTypes, Blanks
    <3> QED
      BY <1>2, <3>1, <3>2 DEF Kill
  <2>2. Pretrained \in Weights /\ Blank(Pretrained) /\ conf' \in Confs /\ conf' = conf
    BY <1>2, Blanks DEF Kill, TypeOK
  <2>3. /\ epoch' \in 0..(conf').epochs /\ batch' \in 0..(conf').batches /\ window' \in Nat
        /\ steps' \in Nat /\ weights' \in Weights /\ touched' \subseteq Params
        /\ best' \in Scores \cup {NoScore} /\ bestEpoch' \in 0..epoch' /\ waited' \in 0..epoch'
        /\ history' \in Seq([score : Scores \cup {NaN}, weights : Weights])
    BY <2>2, BlankTypes
  <2>4. todo' \in Seq([dir : Dirs, file : File, content : Content])
    BY <1>2 DEF Kill
  <2>5. jobs' = jobs /\ kind' = kind /\ pc' = "idle"
    BY <1>2 DEF Kill
  <2> QED
    BY <2>1, <2>2, <2>3, <2>4, <2>5 DEF TypeOK
<1> QED
  BY <1>1, <1>2

LEMMA WritingTypes ==
  ASSUME TypeOK, Paced, Patient,
         SftEvaluate \/ RlcdEvaluate \/ HierEvaluate \/ RlcdFinish \/ HierFinish
  PROVE  TypeOK'
<1> USE TrainingConstants
<1>1. jobs \in 1..MaxJobs /\ weights \in Weights /\ Of(jobs) \in Weights
  BY Blanks DEF SftEvaluate, RlcdEvaluate, HierEvaluate, RlcdFinish, HierFinish, AtEnd, AtClose,
       Resting, Paced, TypeOK
<1>2. /\ SftCheckpoint(Best(jobs), weights) \in Seq(Entry)
      /\ SftCheckpoint(Latest(jobs), weights) \in Seq(Entry)
      /\ RlcdCheckpoint(RlcdBest, weights) \in Seq(Entry)
      /\ RlcdCheckpoint(RlcdFinal, weights) \in Seq(Entry)
  BY <1>1, DirsOf, CheckpointTypes
<1>3. /\ <<Put(Hier, "model", Holds("state_dict", weights))>> \in Seq(Entry)
      /\ <<Put(Hier, "metrics", Holds("summary", Of(jobs)))>> \in Seq(Entry)
  <2>1. Holds("state_dict", weights) \in Content /\ Holds("summary", Of(jobs)) \in Content
    BY <1>1 DEF Holds, Content
  <2>2. /\ Put(Hier, "model", Holds("state_dict", weights)) \in Entry
        /\ Put(Hier, "metrics", Holds("summary", Of(jobs))) \in Entry
    BY <2>1, DirsOf DEF Put, Entry, File
  <2> QED
    BY <2>2
<1>4. <<>> \in Seq(Entry)
  OBVIOUS
<1>5. ASSUME NEW k \in {"sft", "rlcd", "hier"}, AtEnd(k), NEW score \in Scores \cup {NaN},
             Record(score), todo' \in Seq(Entry), waited' \in 0..epoch
      PROVE  TypeOK'
  <2>1. /\ history' \in Seq([score : Scores \cup {NaN}, weights : Weights])
        /\ best' \in Scores \cup {NoScore} /\ bestEpoch' \in 0..epoch'
    BY <1>5, EvaluateTypes
  <2> QED
    BY <1>5, <2>1 DEF Record, TypeOK, Entry
<1>6. epoch \in Nat /\ waited \in Nat /\ waited <= epoch
  BY ConfTypes DEF TypeOK
<1>7. CASE SftEvaluate
  <2>1. PICK score \in Scores :
          /\ Record(score)
          /\ waited' = IF Beats(score, best) THEN 0 ELSE waited + 1
          /\ todo' = (IF Beats(score, best) THEN SftCheckpoint(Best(jobs), weights) ELSE <<>>)
                       \o SftCheckpoint(Latest(jobs), weights)
    BY <1>7 DEF SftEvaluate
  <2>2. todo' \in Seq(Entry)
    BY <2>1, <1>2, <1>4
  <2>3. waited' \in 0..epoch
    BY <2>1, <1>6, <1>7 DEF Paced, Patient, SftEvaluate, AtEnd
  <2> QED
    BY <2>1, <2>2, <2>3, <1>5, <1>7 DEF SftEvaluate
<1>8. CASE RlcdEvaluate
  BY <1>2, <1>4, <1>5, <1>6, <1>8 DEF RlcdEvaluate, PolicyScores
<1>9. CASE HierEvaluate
  BY <1>3, <1>4, <1>5, <1>6, <1>9 DEF HierEvaluate
<1>10. CASE RlcdFinish
  <2>1. todo' \in Seq(Entry)
    BY <1>2, <1>10 DEF RlcdFinish
  <2> QED
    BY <2>1, <1>10 DEF RlcdFinish, TypeOK, state, Entry
<1>11. CASE HierFinish
  <2>1. todo' \in Seq(Entry)
    BY <1>3, <1>11 DEF HierFinish
  <2> QED
    BY <2>1, <1>11 DEF HierFinish, TypeOK, state, Entry
<1> QED
  BY <1>7, <1>8, <1>9, <1>10, <1>11

LEMMA Types ==
  ASSUME TypeOK, Paced, Patient, [Next]_vars
  PROVE  TypeOK'
<1>1. CASE Done \/ UNCHANGED vars
  BY <1>1 DEF Done, vars, state, TypeOK
<1> QED
  BY <1>1, StartTypes, LoopTypes, FileTypes, WritingTypes DEF Next, Step

-----------------------------------------------------------------------------
(* The course of a job. *)

\* What a new job, or the end of one, leaves.
LEMMA BlankIs ==
  ASSUME NEW w, Blank(w)
  PROVE  /\ epoch' = 0 /\ history' = <<>> /\ Len(history') = 0 /\ DOMAIN history' = {}
         /\ best' = NoScore /\ bestEpoch' = 0 /\ waited' = 0 /\ window' = 0 /\ steps' = 0
         /\ touched' = {}
BY DEF Blank

Started == StartSft \/ StartRlcd \/ StartHier \/ StartEval
Evaluated == SftEvaluate \/ RlcdEvaluate \/ HierEvaluate

LEMMA StartIs ==
  ASSUME TypeOK, Started
  PROVE  /\ \E w : Blank(w)
         /\ jobs' = jobs + 1 /\ jobs' \in 1..MaxJobs /\ disk' = disk
         /\ pc' \in {"ready", "failed", "ended"}
         /\ pc' \in {"failed", "ended"} => todo' = <<>>
         /\ pc' = "ready" => kind' # "eval"
         /\ pc' = "ended" => kind' = "eval"
         /\ kind' # "hier" => todo' = <<>>
<1>1. jobs' = jobs + 1 /\ jobs' \in 1..MaxJobs
  BY TrainingConstants DEF Started, StartSft, StartRlcd, StartHier, StartEval, Begin, TypeOK
<1>2. CASE StartSft
  BY <1>1, <1>2 DEF StartSft, Begin
<1>3. CASE StartRlcd
  BY <1>1, <1>3 DEF StartRlcd, Begin
<1>4. CASE StartHier
  BY <1>1, <1>4 DEF StartHier, Begin
<1>5. CASE StartEval
  BY <1>1, <1>5 DEF StartEval, Begin
<1> QED
  BY <1>2, <1>3, <1>4, <1>5 DEF Started

LEMMA EvaluateIs ==
  ASSUME TypeOK, Paced, Evaluated
  PROVE  \E k \in {"sft", "rlcd", "hier"}, score \in Scores \cup {NaN} :
           AtEnd(k) /\ Record(score)
BY DEF Evaluated, SftEvaluate, RlcdEvaluate, HierEvaluate, PolicyScores

LEMMA Paces ==
  ASSUME TypeOK, Paced, [Next]_vars
  PROVE  Paced'
<1>0. epoch \in Nat /\ jobs \in Nat
  BY ConfTypes, TrainingConstants DEF TypeOK
<1>1. CASE Started
  <2>1. PICK w : Blank(w)
    BY <1>1, StartIs
  <2> QED
    BY <1>1, <2>1, StartIs, BlankIs DEF Paced, Resting
<1>2. CASE Kill
  BY <1>2, BlankIs DEF Kill, Paced, Resting
<1>3. CASE Write
  BY <1>3 DEF Write, Paced, Resting, state
<1>4. CASE BeginEpoch
  BY <1>0, <1>4 DEF BeginEpoch, Paced, Resting
<1>5. CASE SftBatch \/ RlcdBatch \/ HierBatch
  BY <1>5 DEF SftBatch, RlcdBatch, HierBatch, AtBatch, Backward, Paced, Resting
<1>6. CASE Evaluated
  <2>1. PICK k \in {"sft", "rlcd", "hier"}, score \in Scores \cup {NaN} : AtEnd(k) /\ Record(score)
    BY <1>6, EvaluateIs
  <2>2. Len(history') = epoch'
    BY <2>1, EvaluateTypes
  <2> QED
    BY <2>1, <2>2 DEF Record, AtEnd, Paced, Resting
<1>7. CASE SftFinish \/ RlcdFinish \/ HierFinish
  BY <1>7 DEF SftFinish, RlcdFinish, HierFinish, AtClose, state, Paced, Resting
<1>8. CASE End
  BY <1>8 DEF End, state, Paced, Resting
<1>9. CASE Done \/ UNCHANGED vars
  BY <1>9 DEF Done, vars, state, Paced, Resting
<1> QED
  BY <1>1, <1>2, <1>3, <1>4, <1>5, <1>6, <1>7, <1>8, <1>9 DEF Next, Step, Started, Evaluated

-----------------------------------------------------------------------------
(* The best epoch. *)

\* Steps after which the metrics are what they were.
Calm == BeginEpoch \/ SftBatch \/ RlcdBatch \/ HierBatch \/ Write
          \/ SftFinish \/ RlcdFinish \/ HierFinish \/ End \/ Done \/ UNCHANGED vars

LEMMA StepIs ==
  ASSUME [Next]_vars
  PROVE  Started \/ Kill \/ Evaluated \/ Calm
BY DEF Next, Step, Started, Evaluated, Calm

LEMMA CalmKeeps ==
  ASSUME Calm
  PROVE  UNCHANGED <<jobs, kind, conf, best, bestEpoch, waited, history>>
BY DEF Calm, BeginEpoch, SftBatch, RlcdBatch, HierBatch, Backward, Write, SftFinish, RlcdFinish,
       HierFinish, End, Done, vars, state

LEMMA MetricTypes ==
  ASSUME TypeOK
  PROVE  /\ best \in Int /\ Len(history) \in Nat /\ DOMAIN history = 1..Len(history)
         /\ \A e \in DOMAIN history :
              /\ history[e].score \in Scores \cup {NaN} /\ history[e].weights \in Weights
              /\ history[e].score # NaN => history[e].score \in Int
         /\ \A score \in Scores \cup {NaN} : score # NaN => score \in Nat
<1>1. history \in Seq([score : Scores \cup {NaN}, weights : Weights])
  BY DEF TypeOK
<1> DEFINE R == [score : Scores \cup {NaN}, weights : Weights]
<1>2. DOMAIN history = 1..Len(history) /\ Len(history) \in Nat /\ \A e \in 1..Len(history) : history[e] \in R
  <2> HIDE DEF R
  <2>1. history \in Seq(R)
    BY <1>1 DEF R
  <2> QED
    BY <2>1
<1>3. best \in Int
  BY TrainingConstants DEF TypeOK, NoScore
<1>4. \A e \in DOMAIN history : history[e].score \in Scores \cup {NaN} /\ history[e].weights \in Weights
  BY <1>2
<1>5. \A score \in Scores \cup {NaN} : score # NaN => score \in Nat
  BY TrainingConstants
<1> QED
  BY <1>2, <1>3, <1>4, <1>5

\* The epochs that are over improve as they did; the one that ends improves
\* when it beats the best.
LEMMA NewImproves ==
  ASSUME TypeOK, Paced, Selected, NEW k \in {"sft", "rlcd", "hier"}, AtEnd(k),
         NEW score \in Scores \cup {NaN}, Record(score)
  PROVE  /\ \A e \in DOMAIN history : Improves(e)' <=> Improves(e)
         /\ Improves(epoch)' <=> Beats(score, best)
<1> USE TrainingConstants
<1>1. /\ Len(history) = epoch - 1 /\ Len(history') = epoch /\ epoch \in Nat \ {0}
      /\ DOMAIN history = 1..(epoch - 1) /\ DOMAIN history' = 1..epoch
      /\ \A e \in DOMAIN history : history'[e] = history[e]
      /\ history'[epoch].score = score /\ epoch' = epoch
  BY EvaluateTypes, MetricTypes DEF Paced, AtEnd, Record
<1>2. \A e \in DOMAIN history : Improves(e)' <=> Improves(e)
  BY <1>1 DEF Improves
<1>3. \A e \in DOMAIN history : history[e].score # NaN => history[e].score \in Int
  BY MetricTypes
<1>4. best \in Int /\ (score # NaN => score \in Nat) /\ NaN \notin Int
  BY MetricTypes
<1>5. ASSUME Improves(epoch)' PROVE Beats(score, best)
  <2>1. score # NaN /\ \A f \in 1..(epoch - 1) : history[f].score = NaN \/ history[f].score < score
    BY <1>1, <1>5 DEF Improves
  <2>2. CASE best = NoScore
    BY <2>1, <2>2, <1>4 DEF Beats, NoScore
  <2>3. CASE best # NoScore
    <3>1. bestEpoch \in 1..(epoch - 1) /\ best = history[bestEpoch].score
      BY <2>3, <1>1 DEF Selected
    <3> QED
      BY <3>1, <2>1, <1>4 DEF Beats
  <2> QED
    BY <2>2, <2>3
<1>6. ASSUME Beats(score, best) PROVE Improves(epoch)'
  <2>1. score # NaN /\ score > best
    BY <1>6 DEF Beats
  <2>2. \A f \in 1..(epoch - 1) : history[f].score = NaN \/ history[f].score < score
    BY <2>1, <1>1, <1>3, <1>4 DEF Selected
  <2> QED
    BY <2>1, <2>2, <1>1 DEF Improves
<1> QED
  BY <1>2, <1>5, <1>6

LEMMA Selects ==
  ASSUME TypeOK, Paced, Selected, [Next]_vars
  PROVE  Selected'
<1>1. CASE Started \/ Kill
  <2>1. \E w : Blank(w)
    BY <1>1, StartIs DEF Kill
  <2> QED
    BY <2>1, BlankIs DEF Selected
<1>2. CASE Calm
  BY <1>2, CalmKeeps DEF Selected, Improves
<1>3. CASE Evaluated
  <2>1. PICK k \in {"sft", "rlcd", "hier"}, score \in Scores \cup {NaN} : AtEnd(k) /\ Record(score)
    BY <1>3, EvaluateIs
  <2>2. /\ DOMAIN history = 1..(epoch - 1) /\ DOMAIN history' = 1..epoch /\ epoch \in Nat \ {0}
        /\ \A e \in DOMAIN history : history'[e] = history[e]
        /\ history'[epoch].score = score /\ epoch' = epoch
    BY <2>1, EvaluateTypes, MetricTypes DEF Paced, AtEnd, Record
  <2>3. /\ \A e \in DOMAIN history : Improves(e)' <=> Improves(e)
        /\ Improves(epoch)' <=> Beats(score, best)
    BY <2>1, NewImproves
  <2>4. CASE Beats(score, best)
    <3>1. best' = score /\ bestEpoch' = epoch /\ score # NaN /\ score > best
      BY <2>1, <2>4 DEF Record, Beats
    <3>2. /\ best \in Int /\ score \in Int
          /\ \A e \in DOMAIN history : history[e].score # NaN => history[e].score \in Int
      BY <3>1, MetricTypes
    <3>3. \A e \in DOMAIN history' : history'[e].score = NaN \/ history'[e].score <= best'
      BY <3>1, <3>2, <2>2 DEF Selected
    <3>4. bestEpoch' \in DOMAIN history' /\ Improves(bestEpoch)' /\ best' = history'[bestEpoch'].score
      BY <3>1, <2>2, <2>3, <2>4 DEF Improves
    <3> QED
      BY <3>3, <3>4 DEF Selected
  <2>5. CASE ~Beats(score, best)
    <3>1. best' = best /\ bestEpoch' = bestEpoch
      BY <2>1, <2>5 DEF Record
    <3>2. score = NaN \/ score <= best
      BY <2>5, MetricTypes DEF Beats
    <3>3. \A e \in DOMAIN history' : history'[e].score = NaN \/ history'[e].score <= best'
      BY <3>1, <3>2, <2>2 DEF Selected
    <3>4. best # NoScore => Improves(bestEpoch)'
      BY <3>1, <2>3 DEF Selected, Improves
    <3> QED
      BY <3>1, <3>3, <3>4, <2>2 DEF Selected
  <2> QED
    BY <2>4, <2>5
<1> QED
  BY <1>1, <1>2, <1>3, StepIs

-----------------------------------------------------------------------------
(* The patience. *)

\* While the patience is not used up, the last epoch is not stale.
LEMMA NotYetStale ==
  ASSUME TypeOK, Paced, Patient, kind = "sft", pc = "ready", ~Over
  PROVE  \A e \in DOMAIN history : ~StaleAt(e)
<1> SUFFICES ASSUME NEW e \in DOMAIN history, StaleAt(e) PROVE FALSE
  OBVIOUS
<1>1. /\ Len(history) = epoch /\ e = Len(history) /\ e \in Nat \ {0}
      /\ waited \in Nat /\ conf.patience \in Nat
  BY ConfTypes, MetricTypes DEF Paced, Patient, StaleAt, NoPatience, TypeOK
<1>2. waited < conf.patience /\ e >= conf.patience
  BY <1>1 DEF Over, Stale, StaleAt
<1>3. waited < Len(history) /\ Improves(Len(history) - waited)
  BY <1>1, <1>2 DEF Patient
<1>4. Len(history) - waited \in (e - conf.patience + 1)..e
  BY <1>1, <1>2
<1> QED
  BY <1>3, <1>4 DEF StaleAt

LEMMA Waits ==
  ASSUME TypeOK, Paced, Selected, Patient, [Next]_vars
  PROVE  Patient'
<1>1. CASE Started
  <2>1. PICK w : Blank(w)
    BY <1>1, StartIs
  <2> QED
    BY <1>1, <2>1, StartIs, BlankIs DEF Patient
<1>2. CASE Kill
  BY <1>2, BlankIs DEF Kill, Patient
<1>3. CASE BeginEpoch
  <2>1. /\ UNCHANGED <<kind, conf, waited, history>> /\ pc' = "batches"
        /\ pc = "ready" /\ ~Over
    BY <1>3 DEF BeginEpoch
  <2>2. kind = "sft" => \A e \in DOMAIN history : ~StaleAt(e)
    BY <2>1, NotYetStale
  <2> QED
    BY <2>1, <2>2 DEF Patient, StaleAt, Improves
<1>4. CASE Calm /\ ~BeginEpoch
  <2>1. UNCHANGED <<kind, conf, waited, history>>
    BY <1>4, CalmKeeps
  <2>2. kind = "sft" => epoch' = epoch /\ (pc' = pc \/ (pc' # "batches" /\ Over))
    BY <1>4 DEF Calm, SftBatch, RlcdBatch, HierBatch, Backward, AtBatch, Write, SftFinish,
         RlcdFinish, HierFinish, AtClose, End, Done, vars, state, Paced
  <2> QED
    BY <2>1, <2>2 DEF Patient, StaleAt, Improves, Over, Stale
<1>5. CASE Evaluated /\ ~SftEvaluate
  BY <1>5 DEF Evaluated, RlcdEvaluate, HierEvaluate, AtEnd, Record, Patient
<1>6. CASE SftEvaluate
  <2>1. PICK score \in Scores :
          /\ Record(score)
          /\ waited' = IF Beats(score, best) THEN 0 ELSE waited + 1
    BY <1>6 DEF SftEvaluate
  <2>2. AtEnd("sft") /\ kind' = "sft" /\ conf' = conf /\ pc' = "ready" /\ kind = "sft" /\ pc = "batches"
    BY <1>6, <2>1 DEF SftEvaluate, AtEnd, Record
  <2>3. /\ Len(history) = epoch - 1 /\ Len(history') = epoch /\ epoch \in Nat \ {0}
        /\ DOMAIN history = 1..(epoch - 1) /\ DOMAIN history' = 1..epoch
    BY <2>1, <2>2, EvaluateTypes, MetricTypes DEF Paced, Record
  <2>4. /\ \A e \in DOMAIN history : Improves(e)' <=> Improves(e)
        /\ Improves(epoch)' <=> Beats(score, best)
    BY <2>1, <2>2, NewImproves
  <2>5. waited \in Nat /\ waited <= epoch - 1 /\ epoch' = epoch
    BY <2>1, <2>2, <2>3 DEF Patient, TypeOK, Record
  <2>6. \A e \in DOMAIN history : ~StaleAt(e)
    BY <2>2 DEF Patient
  <2>7. \A e \in DOMAIN history' : StaleAt(e)' => e = Len(history')
    <3> SUFFICES ASSUME NEW e \in DOMAIN history', e # Len(history'), StaleAt(e)' PROVE FALSE
      OBVIOUS
    <3>1. e \in DOMAIN history /\ e \in Nat
      BY <2>3
    <3>2. /\ conf.patience # NoPatience /\ e >= conf.patience
          /\ \A f \in (e - conf.patience + 1)..e : ~Improves(f)'
      BY <2>2 DEF StaleAt
    <3>3. PICK f \in (e - conf.patience + 1)..e : Improves(f)
      BY <3>1, <3>2, <2>6 DEF StaleAt
    <3>4. f \in DOMAIN history
      BY <3>1, <3>2, <2>3, ConfTypes DEF TypeOK, NoPatience
    <3> QED
      BY <3>2, <3>3, <3>4, <2>4
  <2>8. CASE Beats(score, best)
    BY <2>1, <2>2, <2>3, <2>4, <2>5, <2>7, <2>8 DEF Patient
  <2>9. CASE ~Beats(score, best)
    BY <2>1, <2>2, <2>3, <2>4, <2>5, <2>7, <2>9 DEF Patient
  <2> QED
    BY <2>8, <2>9
<1> QED
  BY <1>1, <1>2, <1>3, <1>4, <1>5, <1>6, StepIs

-----------------------------------------------------------------------------
(* The accumulation. *)

\* n epochs of B batches and b batches done in s steps; k whole windows of a
\* batches and w batches are of the present epoch.
Course(a, B, n, s, w, b, k) ==
  /\ a \in Nat \ {0} /\ B \in Nat /\ n \in Nat /\ s \in Nat /\ w \in Nat /\ b \in Nat /\ k \in Nat
  /\ b < B /\ w < a /\ k * a + w = b
  /\ s <= n * ((B \div a) + 1) + k /\ s * a + w >= n * B + b

OneMore(a, B, n, s, w, b, k) ==
  /\ (b + 1) % a = 0 <=> w + 1 = a
  /\ (s + 1) * a >= n * B + (b + 1)
  /\ w + 1 = a => (k + 1) * a = b + 1
  /\ s * a + (w + 1) >= n * B + (b + 1) /\ k * a + (w + 1) = b + 1
  /\ s + 1 <= n * ((B \div a) + 1) + (k + 1)
  /\ s + 1 <= (n + 1) * ((B \div a) + 1)

LEMMA OneBatch ==
  ASSUME NEW a, NEW B, NEW n, NEW s, NEW w, NEW b, NEW k, Course(a, B, n, s, w, b, k)
  PROVE  OneMore(a, B, n, s, w, b, k)
<1> USE DEF Course
<1>1. (s + 1) * a = s * a + a /\ (k + 1) * a = k * a + a
  OBVIOUS
<1>2. (b + 1) % a = 0 <=> w + 1 = a
  <2>1. CASE w + 1 = a
    <3>1. b + 1 = (k + 1) * a + 0
      BY <1>1, <2>1
    <3>2. ((k + 1) * a + 0) % a = 0
      BY Remainder
    <3> QED
      BY <3>1, <3>2, <2>1
  <2>2. CASE w + 1 < a
    <3> DEFINE v == w + 1
    <3>1. v \in Nat /\ v < a /\ b + 1 = k * a + v /\ v # 0
      BY <2>2
    <3> HIDE DEF v
    <3>2. (k * a + v) % a = v
      BY <3>1, Remainder
    <3>3. (b + 1) % a # 0
      BY <3>1, <3>2
    <3> QED
      BY <3>3, <2>2
  <2> QED
    BY <2>1, <2>2
<1>3. k * a <= B
  <2>1. k * a \in Int
    OBVIOUS
  <2> QED
    BY <2>1
<1>4. B \div a \in Nat /\ k <= B \div a
  BY <1>3, WindowsFit
<1>5. (n + 1) * ((B \div a) + 1) = n * ((B \div a) + 1) + ((B \div a) + 1)
  BY <1>4
<1>6. n * ((B \div a) + 1) \in Nat /\ n * B \in Nat /\ s * a \in Nat /\ k * a \in Nat
  BY <1>4
<1> QED
  BY <1>1, <1>2, <1>4, <1>5, <1>6 DEF OneMore

LEMMA Reaches ==
  ASSUME TypeOK, kind # "eval"
  PROVE  {p \in Params : Rate(p) # "none"} = Reached
<1>1. CASE kind = "sft"
  BY <1>1 DEF Rate, SftRate, Reached
<1>2. CASE kind = "hier"
  BY <1>2 DEF Rate, HierRate, Reached
<1>3. CASE kind = "rlcd"
  BY <1>3 DEF Rate, RlcdRate, Reached
<1> QED
  BY <1>1, <1>2, <1>3 DEF TypeOK

\* The second half of Applied, within an epoch.
LEMMA WithinEpoch ==
  ASSUME pc' = "batches", window' < (conf').accum,
         steps' * (conf').accum + window' >= (epoch' - 1) * (conf').batches + batch',
         touched' = IF steps' = 0 THEN {} ELSE Reached',
         IF batch' < (conf').batches THEN \E k \in 0..batch' : UpTo(k)'
           ELSE window' = 0 /\ steps' <= epoch' * (Windows + 1)'
  PROVE  Applied'
BY DEF Applied

LEMMA BatchApplies ==
  ASSUME TypeOK, Paced, Applied, SftBatch \/ RlcdBatch \/ HierBatch
  PROVE  Applied'
<1> DEFINE a == conf.accum  B == conf.batches  n == epoch - 1  W == B \div a
<1>1. /\ a \in Nat \ {0} /\ B \in Nat /\ n \in Nat /\ steps \in Nat /\ window \in Nat
      /\ batch \in Nat /\ epoch = n + 1
      /\ pc = "batches" /\ batch < B /\ ~Resting
  BY ConfTypes DEF SftBatch, RlcdBatch, HierBatch, AtBatch, Paced, TypeOK, Resting
<1>2. PICK k \in 0..batch : UpTo(k)
  BY <1>1 DEF Applied
<1>3. /\ k \in Nat /\ window < a /\ k * a + window = batch /\ steps <= n * (W + 1) + k
      /\ steps * a + window >= n * B + batch /\ W = B \div a
  BY <1>1, <1>2 DEF Applied, UpTo, Windows
<1>4. /\ (batch + 1) % a = 0 <=> window + 1 = a
      /\ (steps + 1) * a >= n * B + (batch + 1)
      /\ window + 1 = a => (k + 1) * a = batch + 1
      /\ steps * a + (window + 1) >= n * B + (batch + 1)
      /\ k * a + (window + 1) = batch + 1
      /\ steps + 1 <= n * (W + 1) + (k + 1)
      /\ steps + 1 <= (n + 1) * (W + 1)
  <2> HIDE DEF a, B, n
  <2>1. Course(a, B, n, steps, window, batch, k)
    BY <1>1, <1>3 DEF Course
  <2>2. OneMore(a, B, n, steps, window, batch, k)
    BY <2>1, OneBatch
  <2> QED
    BY <2>2 DEF OneMore
<1> DEFINE synced == window + 1 = a \/ batch + 1 = B
<1>5. Backward(synced)
  BY <1>4 DEF SftBatch, RlcdBatch, HierBatch, Accumulated
<1>6. /\ (conf').accum = a /\ (conf').batches = B /\ pc' = "batches" /\ batch' = batch + 1
      /\ epoch' - 1 = n /\ epoch' = n + 1 /\ Windows' = W /\ Reached' = Reached
  BY <1>1, <1>5 DEF Backward, Windows, Reached
<1>7. /\ synced => window' = 0 /\ steps' = steps + 1
      /\ ~synced => window' = window + 1 /\ steps' = steps
  BY <1>5 DEF Backward
<1>8. touched' = IF steps' = 0 THEN {} ELSE Reached
  <2>1. touched = IF steps = 0 THEN {} ELSE Reached
    BY <1>1 DEF Applied
  <2>2. {p \in Params : Rate(p) # "none"} = Reached
    BY <1>1, Reaches DEF Paced
  <2>3. /\ synced => touched' = touched \cup Reached
        /\ ~synced => touched' = touched
    BY <1>5, <2>2 DEF Backward
  <2>4. synced => steps' # 0
    BY <1>1, <1>7
  <2> HIDE DEF synced
  <2> QED
    BY <2>1, <2>3, <2>4, <1>7
<1>9. window' < a /\ steps' * a + window' >= n * B + batch'
  <2> HIDE DEF a, B, n, W
  <2>1. CASE synced
    <3>1. (steps + 1) * a \in Int /\ n * B \in Int
      BY <1>1
    <3> QED
      BY <3>1, <2>1, <1>1, <1>4, <1>6, <1>7
  <2>2. CASE ~synced
    BY <2>2, <1>1, <1>3, <1>4, <1>6, <1>7
  <2> QED
    BY <2>1, <2>2
<1>10. CASE batch + 1 < B
  <2>1. CASE synced
    <3>1. window + 1 = a /\ k + 1 \in 0..batch'
      BY <2>1, <1>1, <1>2, <1>3, <1>6, <1>10
    <3>2. (k + 1) * (conf').accum + window' = batch' /\ steps' <= (epoch' - 1) * (Windows' + 1) + (k + 1)
      <4>1. (k + 1) * a + window' = batch' /\ steps' <= n * (W + 1) + (k + 1)
        <5>1. (k + 1) * a \in Int
          BY <1>1, <1>3
        <5> QED
          BY <5>1, <3>1, <2>1, <1>4, <1>6, <1>7
      <4> HIDE DEF a, B, n, W
      <4> QED
        BY <4>1, <1>6
    <3> QED
      BY <3>1, <3>2, <1>6, <1>8, <1>9, <1>10, WithinEpoch DEF UpTo
  <2>2. CASE ~synced
    <3>1. k \in 0..batch'
      BY <1>1, <1>2, <1>6
    <3>2. k * (conf').accum + window' = batch' /\ steps' <= (epoch' - 1) * (Windows' + 1) + k
      <4>1. k * a + window' = batch' /\ steps' <= n * (W + 1) + k
        BY <2>2, <1>3, <1>4, <1>6, <1>7
      <4> HIDE DEF a, B, n, W
      <4> QED
        BY <4>1, <1>6
    <3> QED
      BY <3>1, <3>2, <1>6, <1>8, <1>9, <1>10, WithinEpoch DEF UpTo
  <2> QED
    BY <2>1, <2>2
<1>11. CASE batch + 1 >= B
  <2>1. synced /\ ~(batch' < (conf').batches)
    BY <1>1, <1>6, <1>11
  <2>2. window' = 0 /\ steps' <= epoch' * (Windows' + 1)
    BY <2>1, <1>4, <1>6, <1>7
  <2> QED
    BY <2>1, <2>2, <1>6, <1>8, <1>9, WithinEpoch
<1> QED
  BY <1>1, <1>10, <1>11

LEMMA EpochApplies ==
  ASSUME TypeOK, Paced, Applied, BeginEpoch
  PROVE  Applied'
<1>1. /\ conf.accum \in Nat \ {0} /\ conf.batches \in Nat /\ epoch \in Nat /\ steps \in Nat
      /\ pc = "ready" /\ window = 0 /\ steps * conf.accum >= epoch * conf.batches
      /\ steps <= epoch * (Windows + 1) /\ touched = IF steps = 0 THEN {} ELSE Reached
  BY ConfTypes DEF BeginEpoch, Applied, TypeOK
<1>2. /\ conf' = conf /\ pc' = "batches" /\ batch' = 0 /\ window' = 0 /\ steps' = steps
      /\ epoch' = epoch + 1 /\ epoch' - 1 = epoch /\ Windows' = Windows /\ Reached' = Reached
      /\ touched' = touched
  BY <1>1 DEF BeginEpoch, Windows, Reached
<1>3. Windows \in Nat
  <2>1. 0 * conf.accum <= conf.batches
    BY <1>1
  <2> QED
    BY <1>1, <2>1, WindowsFit DEF Windows
<1>4. /\ epoch * (Windows + 1) <= (epoch + 1) * (Windows + 1)
      /\ epoch * (Windows + 1) \in Int /\ 0 * conf.accum = 0
      /\ epoch * conf.batches \in Int /\ steps * conf.accum \in Int
  BY <1>1, <1>3
<1>5. UpTo(0)'
  BY <1>1, <1>2, <1>4 DEF UpTo
<1>6. \E k \in 0..batch' : UpTo(k)'
  BY <1>2, <1>5
<1>7. window' < (conf').accum /\ steps' * (conf').accum + window' >= (epoch' - 1) * (conf').batches + batch'
  BY <1>1, <1>2, <1>4
<1>8. window' = 0 /\ steps' <= epoch' * (Windows + 1)'
  <2>1. (Windows + 1)' = Windows + 1 /\ (epoch + 1) * (Windows + 1) \in Int
    BY <1>1, <1>2, <1>3
  <2>2. steps' <= (epoch + 1) * (Windows + 1)
    BY <1>1, <1>2, <1>4, <2>1
  <2> QED
    BY <1>2, <2>1, <2>2
<1>9. touched' = IF steps' = 0 THEN {} ELSE Reached'
  BY <1>1, <1>2
<1> QED
  BY <1>2, <1>6, <1>7, <1>8, <1>9, WithinEpoch

LEMMA EndApplies ==
  ASSUME TypeOK, Paced, Applied, Evaluated
  PROVE  Applied'
<1>1. PICK k \in {"sft", "rlcd", "hier"}, score \in Scores \cup {NaN} : AtEnd(k) /\ Record(score)
  BY EvaluateIs
<1>2. /\ conf.accum \in Nat \ {0} /\ conf.batches \in Nat /\ epoch \in Nat \ {0} /\ steps \in Nat
      /\ pc = "batches" /\ batch = conf.batches
  BY <1>1, ConfTypes DEF AtEnd, Paced, TypeOK
<1>3. /\ window = 0 /\ steps * conf.accum + window >= (epoch - 1) * conf.batches + batch
      /\ steps <= epoch * (Windows + 1) /\ touched = IF steps = 0 THEN {} ELSE Reached
  BY <1>2 DEF Applied
<1>4. steps * conf.accum >= epoch * conf.batches
  <2>1. epoch * conf.batches = (epoch - 1) * conf.batches + conf.batches
    BY <1>2
  <2>2. steps * conf.accum \in Int /\ (epoch - 1) * conf.batches \in Int
    BY <1>2
  <2> QED
    BY <1>2, <1>3, <2>1, <2>2
<1>5. /\ UNCHANGED <<kind, conf, epoch, steps, window, touched>> /\ pc' = "ready"
      /\ Windows' = Windows /\ Reached' = Reached
  BY <1>1 DEF Record, Windows, Reached
<1> QED
  BY <1>3, <1>4, <1>5 DEF Applied

LEMMA Applies ==
  ASSUME TypeOK, Paced, Applied, [Next]_vars
  PROVE  Applied'
<1>1. CASE Started
  <2>1. PICK w : Blank(w)
    BY <1>1, StartIs
  <2>2. TypeOK'
    BY <1>1, StartTypes DEF Started
  <2>3. conf' \in Confs
    BY <2>2 DEF TypeOK
  <2>4. /\ (conf').accum \in Nat \ {0} /\ (conf').batches \in Nat
    BY <2>3, ConfTypes
  <2>5. Windows' \in Nat
    <3>1. 0 * (conf').accum <= (conf').batches
      BY <2>4
    <3> QED
      BY <2>4, <3>1, WindowsFit DEF Windows
  <2>6. /\ epoch' = 0 /\ steps' = 0 /\ window' = 0 /\ touched' = {} /\ pc' # "batches"
    BY <1>1, <2>1, StartIs, BlankIs
  <2>7. 0 * (conf').accum >= 0 * (conf').batches /\ 0 <= 0 * (Windows' + 1)
    <3>1. \A x \in Int : 0 * x = 0
      OBVIOUS
    <3>2. (conf').accum \in Int /\ (conf').batches \in Int /\ Windows' + 1 \in Int
      BY <2>4, <2>5
    <3>3. 0 * (conf').accum = 0 /\ 0 * (conf').batches = 0 /\ 0 * (Windows' + 1) = 0
      BY <3>1, <3>2
    <3> QED
      BY <3>3
  <2> QED
    BY <2>6, <2>7 DEF Applied
<1>2. CASE Kill
  BY <1>2 DEF Kill, Applied
<1>3. CASE Calm /\ ~BeginEpoch /\ ~SftBatch /\ ~RlcdBatch /\ ~HierBatch
  <2>1. CASE Write \/ Done \/ UNCHANGED vars
    BY <2>1 DEF Write, Done, vars, state, Applied, Windows, Reached, UpTo
  <2>2. CASE SftFinish \/ RlcdFinish \/ HierFinish \/ End
    BY <2>2 DEF SftFinish, RlcdFinish, HierFinish, End, Applied
  <2> QED
    BY <1>3, <2>1, <2>2 DEF Calm
<1> QED
  BY <1>1, <1>2, <1>3, StepIs, EpochApplies, BatchApplies, EndApplies DEF Calm

-----------------------------------------------------------------------------
(* The files of the best epoch. *)

\* What a write leaves: the entry is on the disk and the others wait.
LEMMA WriteIs ==
  ASSUME TypeOK, Write
  PROVE  /\ UNCHANGED <<jobs, kind, conf, pc, weights, best, bestEpoch, history>>
         /\ todo # <<>> /\ todo' = Tail(todo) /\ Len(todo') = Len(todo) - 1 /\ Len(todo) >= 1
         /\ \A i \in DOMAIN todo' : i + 1 \in DOMAIN todo /\ todo'[i] = todo[i + 1]
         /\ \A i \in DOMAIN todo : i = 1 \/ (i - 1 \in DOMAIN todo' /\ todo'[i - 1] = todo[i])
         /\ 1 \in DOMAIN todo
         /\ \A d \in Dirs, f \in File :
              disk'[d][f] = IF d = todo[1].dir /\ f = todo[1].file
                              THEN todo[1].content ELSE disk[d][f]
<1>1. todo # <<>> /\ todo' = Tail(todo)
  BY DEF Write
<1>2. todo \in Seq(Entry)
  BY DEF TypeOK, Entry
<1>3. /\ Len(todo') = Len(todo) - 1 /\ Len(todo) >= 1 /\ 1 \in DOMAIN todo
      /\ \A i \in DOMAIN todo' : i + 1 \in DOMAIN todo /\ todo'[i] = todo[i + 1]
      /\ \A i \in DOMAIN todo : i = 1 \/ (i - 1 \in DOMAIN todo' /\ todo'[i - 1] = todo[i])
  BY <1>1, <1>2
<1>4. Head(todo) = todo[1]
  BY <1>1, WriteTypes
<1>5. disk' = [disk EXCEPT ![todo[1].dir][todo[1].file] = todo[1].content]
  BY <1>4 DEF Write
<1>6. todo[1].dir \in Dirs /\ todo[1].file \in File /\ todo[1].content \in Content
  BY <1>1, <1>4, WriteTypes
<1>7. \A d \in Dirs, f \in File :
        disk'[d][f] = IF d = todo[1].dir /\ f = todo[1].file THEN todo[1].content ELSE disk[d][f]
  BY <1>5, <1>6, DiskTypes
<1>8. UNCHANGED <<jobs, kind, conf, pc, weights, best, bestEpoch, history>>
  BY DEF Write, state
<1> QED
  BY <1>1, <1>3, <1>7, <1>8

LEMMA Directories ==
  /\ \A n, m : Best(n) # Latest(m) /\ (Best(n) = Best(m) => n = m) /\ (Latest(n) = Latest(m) => n = m)
  /\ \A n : {Best(n), Latest(n)} \cap {RlcdBest, RlcdFinal, Hier} = {}
  /\ RlcdBest # RlcdFinal /\ RlcdBest # Hier /\ RlcdFinal # Hier
BY DEF Best, Latest, RlcdBest, RlcdFinal, Hier

LEMMA FiveAndFive ==
  ASSUME NEW a1, NEW a2, NEW a3, NEW a4, NEW a5, NEW b1, NEW b2, NEW b3, NEW b4, NEW b5
  PROVE  <<a1, a2, a3, a4, a5>> \o <<b1, b2, b3, b4, b5>>
           = <<a1, a2, a3, a4, a5, b1, b2, b3, b4, b5>>
<1> DEFINE s == <<a1, a2, a3, a4, a5>>
           t == <<b1, b2, b3, b4, b5>>
           u == <<a1, a2, a3, a4, a5, b1, b2, b3, b4, b5>>
           All == {a1, a2, a3, a4, a5, b1, b2, b3, b4, b5}
<1>1. s \in Seq(All) /\ t \in Seq(All) /\ u \in Seq(All)
  OBVIOUS
<1>2. Len(s) = 5 /\ Len(t) = 5 /\ Len(u) = 10
  OBVIOUS
<1>3. /\ u[1] = s[1] /\ u[2] = s[2] /\ u[3] = s[3] /\ u[4] = s[4] /\ u[5] = s[5]
      /\ u[6] = t[1] /\ u[7] = t[2] /\ u[8] = t[3] /\ u[9] = t[4] /\ u[10] = t[5]
  OBVIOUS
<1> HIDE DEF s, t, u, All
<1> DEFINE c == s \o t
<1>4. /\ c \in Seq(All) /\ Len(c) = Len(s) + Len(t)
      /\ \A i \in 1..(Len(s) + Len(t)) : c[i] = IF i <= Len(s) THEN s[i] ELSE t[i - Len(s)]
  BY <1>1, ConcatProperties
<1> HIDE DEF c
<1>5. Len(c) = 10 /\ \A i \in 1..10 : c[i] = IF i <= 5 THEN s[i] ELSE t[i - 5]
  BY <1>2, <1>4
<1>6. /\ c[1] = u[1] /\ c[2] = u[2] /\ c[3] = u[3] /\ c[4] = u[4] /\ c[5] = u[5]
      /\ c[6] = u[6] /\ c[7] = u[7] /\ c[8] = u[8] /\ c[9] = u[9] /\ c[10] = u[10]
  BY <1>3, <1>5
<1>7. \A i \in 1..10 : c[i] = u[i]
  BY <1>6
<1>8. c = u
  BY <1>1, <1>2, <1>4, <1>5, <1>7, SeqEqual
<1> QED
  BY <1>8 DEF c, s, t, u

LEMMA NoneAndFive ==
  ASSUME NEW b1, NEW b2, NEW b3, NEW b4, NEW b5
  PROVE  <<>> \o <<b1, b2, b3, b4, b5>> = <<b1, b2, b3, b4, b5>>
OBVIOUS

LEMMA BothWrites ==
  Writes = <<Put(Best(jobs), "model", Holds("state_dict", weights)),
             Put(Best(jobs), "tokenizer", Holds("tokenizer", Of(jobs))),
             Put(Best(jobs), "config", Holds("backbone", Of(jobs))),
             Put(Best(jobs), "config", Holds("sft", Of(jobs))),
             Put(Best(jobs), "metrics", Holds("metrics", weights)),
             Put(Latest(jobs), "model", Holds("state_dict", weights)),
             Put(Latest(jobs), "tokenizer", Holds("tokenizer", Of(jobs))),
             Put(Latest(jobs), "config", Holds("backbone", Of(jobs))),
             Put(Latest(jobs), "config", Holds("sft", Of(jobs))),
             Put(Latest(jobs), "metrics", Holds("metrics", weights))>>
BY FiveAndFive DEF Writes, SftCheckpoint

\* The files of an evaluated epoch.
ToWrite(k, score) ==
  CASE k = "sft" -> (IF Beats(score, best) THEN SftCheckpoint(Best(jobs), weights) ELSE <<>>)
                      \o SftCheckpoint(Latest(jobs), weights)
    [] k = "rlcd" -> IF Beats(score, best) THEN RlcdCheckpoint(RlcdBest, weights) ELSE <<>>
    [] k = "hier" -> IF Beats(score, best)
                       THEN <<Put(Hier, "model", Holds("state_dict", weights))>> ELSE <<>>

LEMMA SftToWrite ==
  ASSUME NEW score
  PROVE  ToWrite("sft", score) =
           IF Beats(score, best) THEN Writes ELSE SftCheckpoint(Latest(jobs), weights)
BY NoneAndFive DEF ToWrite, Writes, SftCheckpoint

\* What is to be written at the end of an epoch: of files of the best
\* checkpoint, the model first, and only when the epoch beats the others.
LEMMA EvaluateWrites ==
  ASSUME NEW k \in {"sft", "rlcd", "hier"}, kind = k, NEW score
  PROVE  /\ \A i \in DOMAIN ToWrite(k, score) : IsBestModel(ToWrite(k, score)[i]) =>
              Beats(score, best) /\ ToWrite(k, score)[i].content.of = weights
         /\ Beats(score, best) =>
              1 \in DOMAIN ToWrite(k, score) /\ IsBestModel(ToWrite(k, score)[1])
<1>1. CASE k = "sft"
  <2> DEFINE s == ToWrite("sft", score)
  <2>1. BestDir = Best(jobs) /\ Best(jobs) # Latest(jobs)
    BY <1>1, Directories DEF BestDir
  <2>2. CASE Beats(score, best)
    <3>1. s = Writes
      BY <2>2, SftToWrite
    <3>2. DOMAIN s = 1..10
      BY <3>1, BothWrites
    <3>3. s[1].dir = Best(jobs) /\ s[1].file = "model" /\ s[1].content.of = weights
      BY <3>1, BothWrites DEF Put, Holds
    <3>4. /\ s[2].file = "tokenizer" /\ s[3].file = "config" /\ s[4].file = "config"
          /\ s[5].file = "metrics"
      BY <3>1, BothWrites DEF Put
    <3>5. /\ s[6].dir = Latest(jobs) /\ s[7].dir = Latest(jobs) /\ s[8].dir = Latest(jobs)
          /\ s[9].dir = Latest(jobs) /\ s[10].dir = Latest(jobs)
      BY <3>1, BothWrites DEF Put
    <3> HIDE DEF s
    <3>6. \A i \in DOMAIN s : s[i].dir = Best(jobs) /\ s[i].file = "model" => i = 1
      BY <3>2, <3>4, <3>5, <2>1
    <3>7. \A i \in DOMAIN s : IsBestModel(s[i]) => s[i].content.of = weights
      BY <3>3, <3>6, <2>1 DEF IsBestModel
    <3>8. 1 \in DOMAIN s /\ IsBestModel(s[1])
      BY <3>2, <3>3, <2>1 DEF IsBestModel
    <3> QED
      BY <1>1, <2>2, <3>7, <3>8 DEF s
  <2>3. CASE ~Beats(score, best)
    <3>1. s = SftCheckpoint(Latest(jobs), weights)
      BY <2>3, SftToWrite
    <3>2. DOMAIN s = 1..5
      BY <3>1 DEF SftCheckpoint
    <3>3. /\ s[1].dir = Latest(jobs) /\ s[2].dir = Latest(jobs) /\ s[3].dir = Latest(jobs)
          /\ s[4].dir = Latest(jobs) /\ s[5].dir = Latest(jobs)
      BY <3>1 DEF SftCheckpoint, Put
    <3> HIDE DEF s
    <3>4. \A i \in DOMAIN s : s[i].dir = Latest(jobs)
      BY <3>2, <3>3
    <3>5. \A i \in DOMAIN s : ~IsBestModel(s[i])
      BY <2>1, <3>4 DEF IsBestModel
    <3> QED
      BY <1>1, <2>3, <3>5 DEF s
  <2> QED
    BY <2>2, <2>3
<1>2. CASE k = "rlcd"
  <2>1. BestDir = RlcdBest
    BY <1>2 DEF BestDir
  <2> QED
    BY <1>2, <2>1 DEF RlcdCheckpoint, IsBestModel, Put, Holds, ToWrite
<1>3. CASE k = "hier"
  <2>1. BestDir = Hier
    BY <1>3 DEF BestDir
  <2> QED
    BY <1>3, <2>1 DEF IsBestModel, Put, Holds, ToWrite
<1> QED
  BY <1>1, <1>2, <1>3

LEMMA Keeps ==
  ASSUME TypeOK, Paced, Selected, Pending, [Next]_vars
  PROVE  Pending'
<1>1. CASE Started
  <2>1. PICK w : Blank(w)
    BY <1>1, StartIs
  <2>2. best' = NoScore
    BY <2>1, BlankIs
  <2>3. \A i \in DOMAIN todo' : todo'[i].file # "model"
    <3>1. CASE StartHier
      BY <3>1 DEF StartHier, Put
    <3>2. CASE ~StartHier
      BY <1>1, <3>2 DEF Started, StartSft, StartRlcd, StartEval
    <3> QED
      BY <3>1, <3>2
  <2> QED
    BY <2>2, <2>3 DEF Pending, IsBestModel
<1>2. CASE Kill
  BY <1>2 DEF Kill, Pending
<1>3. CASE Write
  <2> DEFINE W == history[bestEpoch].weights
  <2> SUFFICES ASSUME pc \in {"ready", "batches", "closing", "ended"}, kind # "eval"
               PROVE  Pending'
    BY <1>3, WriteIs DEF Pending
  <2>1. BestDir' = BestDir /\ W' = W
    BY <1>3, WriteIs DEF BestDir
  <2>2. BestDir \in Dirs
    <3>1. jobs >= 1
      BY <1>3 DEF Write, Paced
    <3> QED
      BY <3>1, BestDirs
  <2>3. \A i \in DOMAIN todo' : IsBestModel(todo[i])' =>
          pc' = "ready" /\ best' # NoScore /\ todo'[i].content.of = W'
    BY <1>3, <2>1, WriteIs DEF Pending, IsBestModel
  <2>4. ASSUME best # NoScore
        PROVE  \/ disk'[BestDir]["model"].of = W
               \/ \E i \in DOMAIN todo' : IsBestModel(todo[i])'
    <3>1. CASE IsBestModel(todo[1])
      <4>1. disk'[BestDir]["model"] = todo[1].content
        BY <1>3, <2>2, <3>1, WriteIs DEF IsBestModel, File
      <4> QED
        BY <1>3, <3>1, <4>1, WriteIs DEF Pending
    <3>2. CASE ~IsBestModel(todo[1])
      <4>1. disk'[BestDir]["model"] = disk[BestDir]["model"]
        BY <1>3, <2>2, <3>2, WriteIs DEF IsBestModel, File
      <4>2. CASE disk[BestDir]["model"].of = W
        BY <4>1, <4>2
      <4>3. CASE \E i \in DOMAIN todo : IsBestModel(todo[i])
        <5>1. PICK i \in DOMAIN todo : IsBestModel(todo[i])
          BY <4>3
        <5>2. i - 1 \in DOMAIN todo' /\ todo'[i - 1] = todo[i]
          BY <1>3, <3>2, <5>1, WriteIs
        <5> QED
          BY <2>1, <5>1, <5>2 DEF IsBestModel
      <4> QED
        BY <2>4, <4>2, <4>3 DEF Pending
    <3> QED
      BY <3>1, <3>2
  <2>5. best' = best
    BY <1>3, WriteIs
  <2> QED
    BY <2>1, <2>3, <2>4, <2>5 DEF Pending
<1>4. CASE Evaluated
  <2>1. PICK k \in {"sft", "rlcd", "hier"}, score \in Scores \cup {NaN} :
          /\ AtEnd(k) /\ Record(score)
          /\ todo' = ToWrite(k, score)
    BY <1>4 DEF Evaluated, SftEvaluate, RlcdEvaluate, HierEvaluate, PolicyScores, ToWrite
  <2>2. kind = k /\ pc = "batches" /\ todo = <<>> /\ kind # "eval"
    BY <2>1 DEF AtEnd, Paced
  <2>3. /\ \A i \in DOMAIN todo' : IsBestModel(todo'[i]) =>
             Beats(score, best) /\ todo'[i].content.of = weights
        /\ Beats(score, best) => 1 \in DOMAIN todo' /\ IsBestModel(todo'[1])
    BY <2>1, <2>2, EvaluateWrites
  <2>4. BestDir' = BestDir /\ disk' = disk /\ pc' = "ready"
    BY <2>1 DEF Record, BestDir
  <2>5. \A i \in DOMAIN todo' : IsBestModel(todo[i])' <=> IsBestModel(todo'[i])
    BY <2>4 DEF IsBestModel
  <2>6. CASE Beats(score, best)
    <3>1. best' = score /\ bestEpoch' = epoch /\ history'[epoch].weights = weights /\ score # NoScore
      BY <2>1, <2>6, EvaluateTypes, MetricTypes DEF Record, Beats, NoScore
    <3> QED
      BY <2>3, <2>4, <2>5, <2>6, <3>1 DEF Pending
  <2>7. CASE ~Beats(score, best)
    <3>1. best' = best /\ bestEpoch' = bestEpoch
      BY <2>1, <2>7 DEF Record
    <3>2. best # NoScore =>
            /\ history'[bestEpoch] = history[bestEpoch]
            /\ disk[BestDir]["model"].of = history[bestEpoch].weights
      BY <2>1, <2>2, EvaluateTypes DEF Selected, Pending
    <3> QED
      BY <2>3, <2>4, <2>5, <2>7, <3>1, <3>2 DEF Pending
  <2> QED
    BY <2>6, <2>7
<1>5. CASE RlcdFinish
  <2>1. /\ todo = <<>> /\ BestDir = RlcdBest /\ BestDir' = BestDir /\ pc = "ready" /\ kind # "eval"
        /\ UNCHANGED <<best, bestEpoch, history, disk>>
    BY <1>5 DEF RlcdFinish, AtClose, BestDir, state
  <2>2. \A i \in DOMAIN todo' : ~IsBestModel(todo[i])'
    BY <1>5, <2>1, Directories DEF RlcdFinish, RlcdCheckpoint, IsBestModel, Put
  <2> QED
    BY <2>1, <2>2 DEF Pending
<1>6. CASE HierFinish
  <2>1. /\ todo = <<>> /\ BestDir' = BestDir /\ pc = "ready" /\ kind # "eval"
        /\ UNCHANGED <<best, bestEpoch, history, disk>>
    BY <1>6 DEF HierFinish, AtClose, BestDir, state
  <2>2. \A i \in DOMAIN todo' : ~IsBestModel(todo[i])'
    BY <1>6 DEF HierFinish, IsBestModel, Put
  <2> QED
    BY <2>1, <2>2 DEF Pending
<1>7. CASE Calm /\ ~Write /\ ~RlcdFinish /\ ~HierFinish
  <2>1. /\ UNCHANGED <<jobs, kind, best, bestEpoch, history, disk, todo>>
        /\ pc' = pc \/ (todo = <<>> /\ pc \in {"ready", "closing"})
    BY <1>7, CalmKeeps DEF Calm, BeginEpoch, SftBatch, RlcdBatch, HierBatch, Backward, SftFinish,
         AtClose, End, Done, vars, state
  <2>2. BestDir' = BestDir
    BY <2>1 DEF BestDir
  <2>3. \A i \in DOMAIN todo : IsBestModel(todo[i])' <=> IsBestModel(todo[i])
    BY <2>1, <2>2 DEF IsBestModel
  <2> QED
    BY <2>1, <2>2, <2>3 DEF Pending
<1> QED
  BY <1>1, <1>2, <1>3, <1>4, <1>5, <1>6, <1>7, StepIs DEF Calm


-----------------------------------------------------------------------------
(* The checkpoints of a run. *)

\* A fine-tuning run that is writing is in the middle of the ten writes.
LEMMA Writing ==
  ASSUME TypeOK, Saving, kind = "sft", ~Resting, todo # <<>>
  PROVE  /\ Len(todo) \in 1..10 /\ Written \in 0..9 /\ history # <<>>
         /\ todo[1] = Writes[Written + 1]
<1>1. Len(todo) \in Nat /\ Len(todo) >= 1 /\ 1 \in DOMAIN todo
  BY DEF TypeOK
<1>2. Len(todo) <= 10 /\ history # <<>> /\ \A i \in DOMAIN todo : todo[i] = Writes[Written + i]
  BY DEF Saving
<1>3. Written \in 0..9 /\ Len(todo) \in 1..10
  <2>1. \A l \in Nat : l >= 1 /\ l <= 10 => l \in 1..10 /\ 10 - l \in 0..9
    OBVIOUS
  <2> QED
    BY <1>1, <1>2, <2>1 DEF Written
<1>4. todo[1] = Writes[Written + 1]
  BY <1>1, <1>2
<1> QED
  BY <1>2, <1>3, <1>4

LEMMA WriteNumber ==
  ASSUME NEW n \in 0..9
  PROVE  /\ n < 5 => Writes[n + 1].dir = Best(jobs)
         /\ n >= 5 => Writes[n + 1].dir = Latest(jobs)
         /\ n = 0 \/ n = 5 =>
              /\ Writes[n + 1].file = "model"
              /\ Writes[n + 1].content = Holds("state_dict", weights)
         /\ n = 1 \/ n = 6 =>
              /\ Writes[n + 1].file = "tokenizer"
              /\ Writes[n + 1].content = Holds("tokenizer", Of(jobs))
         /\ n = 2 \/ n = 7 =>
              /\ Writes[n + 1].file = "config"
              /\ Writes[n + 1].content = Holds("backbone", Of(jobs))
         /\ n = 3 \/ n = 8 =>
              /\ Writes[n + 1].file = "config"
              /\ Writes[n + 1].content = Holds("sft", Of(jobs))
         /\ n = 4 \/ n = 9 =>
              /\ Writes[n + 1].file = "metrics"
              /\ Writes[n + 1].content = Holds("metrics", weights)
<1>1. n \in {0, 1, 2, 3, 4} \/ n \in {5, 6, 7, 8, 9}
  OBVIOUS
<1>2. CASE n \in {0, 1, 2, 3, 4}
  BY <1>2, BothWrites DEF Put
<1>3. CASE n \in {5, 6, 7, 8, 9}
  BY <1>3, BothWrites DEF Put
<1> QED
  BY <1>1, <1>2, <1>3

\* A job writes into the checkpoints of a run only if it is that run.
LEMMA WritesItsOwn ==
  ASSUME TypeOK, Saving, ~Resting, todo # <<>>
  PROVE  \/ todo[1].dir \notin SftDirs
         \/ kind = "sft" /\ todo[1].dir \in {Best(jobs), Latest(jobs)}
<1>1. 1 \in DOMAIN todo
  BY DEF TypeOK
<1>2. CASE kind # "sft"
  BY <1>1, <1>2 DEF Saving
<1>3. CASE kind = "sft"
  <2>1. Written \in 0..9 /\ todo[1] = Writes[Written + 1]
    BY <1>3, Writing
  <2>2. Written < 5 \/ Written >= 5
    BY <2>1
  <2> QED
    BY <1>3, <2>1, <2>2, WriteNumber
<1> QED
  BY <1>2, <1>3

\* Only the file that is written, or cut short, changes.
LEMMA OneFile ==
  ASSUME TypeOK, [Next]_vars
  PROVE  \/ UNCHANGED disk
         \/ /\ Write \/ Kill
            /\ ~Resting /\ todo # <<>>
            /\ \A d \in Dirs, f \in File :
                 d # todo[1].dir \/ f # todo[1].file => disk'[d][f] = disk[d][f]
<1>1. CASE Started
  BY <1>1, StartIs
<1>2. CASE Evaluated
  BY <1>2 DEF Evaluated, SftEvaluate, RlcdEvaluate, HierEvaluate, Record
<1>3. CASE Write
  BY <1>3, WriteIs DEF Write
<1>4. CASE Kill
  <2> SUFFICES ASSUME todo # <<>>,
                      disk' = [disk EXCEPT ![Head(todo).dir][Head(todo).file] = Torn]
               PROVE  \A d \in Dirs, f \in File :
                        d # todo[1].dir \/ f # todo[1].file => disk'[d][f] = disk[d][f]
    BY <1>4 DEF Kill
  <2>1. Head(todo) = todo[1] /\ todo[1].dir \in Dirs /\ todo[1].file \in File
    BY WriteTypes
  <2>2. Torn \in Content
    BY Blanks, TrainingConstants
  <2>3. disk' = [disk EXCEPT ![todo[1].dir][todo[1].file] = Torn]
    BY <2>1
  <2> QED
    BY <2>1, <2>2, <2>3, DiskTypes
<1>5. CASE Calm /\ ~Write
  BY <1>5 DEF Calm, BeginEpoch, SftBatch, RlcdBatch, HierBatch, Backward, SftFinish, RlcdFinish,
       HierFinish, End, Done, vars
<1> QED
  BY <1>1, <1>2, <1>3, <1>4, <1>5, StepIs

\* What is not written to stays as it is.
LEMMA OthersStay ==
  ASSUME TypeOK, Saving, [Next]_vars, NEW n \in 1..MaxJobs, n # jobs
  PROVE  \A f \in File : /\ disk'[Best(n)][f] = disk[Best(n)][f]
                         /\ disk'[Latest(n)][f] = disk[Latest(n)][f]
<1>1. Best(n) \in SftDirs /\ Latest(n) \in SftDirs /\ Best(n) \in Dirs /\ Latest(n) \in Dirs
  BY DirsOf DEF SftDirs
<1>2. {Best(n), Latest(n)} \cap {Best(jobs), Latest(jobs)} = {}
  BY Directories
<1> QED
  BY <1>1, <1>2, OneFile, WritesItsOwn

LEMMA StaysFresh ==
  ASSUME TypeOK, Saving, Fresh, [Next]_vars
  PROVE  Fresh'
<1>1. jobs \in 0..MaxJobs /\ jobs' >= jobs /\ jobs' \in Int
  <2>1. jobs' = jobs \/ jobs' = jobs + 1
    BY StepIs, StartIs, CalmKeeps
       DEF Kill, Evaluated, SftEvaluate, RlcdEvaluate, HierEvaluate, Record
  <2> QED
    BY <2>1 DEF TypeOK
<1>2. SUFFICES ASSUME NEW n \in 1..MaxJobs, n > jobs'
               PROVE  disk'[Best(n)]["metrics"] = None /\ disk'[Latest(n)]["metrics"] = None
  BY DEF Fresh
<1>3. n > jobs /\ n # jobs
  BY <1>1, <1>2
<1>4. disk[Best(n)]["metrics"] = None /\ disk[Latest(n)]["metrics"] = None
  BY <1>3 DEF Fresh
<1> QED
  BY <1>3, <1>4, OthersStay DEF File


LEMMA FilesHold ==
  ASSUME NEW w, NEW as \in {"state_dict", "tokenizer", "sft", "metrics"}
  PROVE  Holds(as, w) \notin {None, Torn} /\ Holds(as, w).of = w
BY DEF Holds, None, Torn

\* A write of a fine-tuning run.
LEMMA SftWriteSaves ==
  ASSUME TypeOK, Paced, Saving, Write, kind = "sft"
  PROVE  Saving'
<1> DEFINE n == Written
<1>1. /\ n \in 0..9 /\ history # <<>> /\ todo[1] = Writes[n + 1] /\ Len(todo) \in 1..10 /\ ~Resting
  BY Writing DEF Write
<1>2. /\ jobs' = jobs /\ kind' = kind /\ weights' = weights /\ history' = history /\ best' = best
      /\ Len(todo') = Len(todo) - 1 /\ Writes' = Writes
      /\ Best(jobs)' = Best(jobs) /\ Latest(jobs)' = Latest(jobs)
  BY WriteIs DEF Writes, SftCheckpoint
<1>3. Written' = n + 1
  BY <1>1, <1>2 DEF Written
<1>4. \A i \in DOMAIN todo' : todo'[i] = Writes'[Written' + i]
  <2>1. \A i \in DOMAIN todo : todo[i] = Writes[Written + i]
    BY <1>1 DEF Saving
  <2>2. \A i \in DOMAIN todo' : i \in Int /\ i + 1 \in DOMAIN todo /\ todo'[i] = todo[i + 1]
    BY <1>1, <1>2, WriteIs
  <2>3. \A i \in Int : (n + 1) + i = n + (i + 1)
    BY <1>1
  <2> HIDE DEF n
  <2> QED
    BY <1>2, <1>3, <2>1, <2>2, <2>3 DEF n
<1>5. /\ best # NoScore /\ (n >= 5 => Whole(Best(jobs)))
      /\ n < 5 => Partly(Best(jobs), n) /\ (NoCheckpoint \/ Whole(Latest(jobs)))
      /\ n \in 5..9 => Partly(Latest(jobs), n - 5)
  BY <1>1 DEF Saving
<1>6. /\ Best(jobs) \in Dirs /\ Latest(jobs) \in Dirs /\ Best(jobs) # Latest(jobs)
      /\ Best(jobs)[2] = jobs /\ Latest(jobs)[2] = jobs
  <2>1. jobs \in 1..MaxJobs
    BY <1>1, TrainingConstants DEF TypeOK, Paced
  <2> QED
    BY <2>1, DirsOf, Directories DEF Best, Latest
<1>7. \A d \in Dirs, f \in File :
        disk'[d][f] = IF d = Writes[n + 1].dir /\ f = Writes[n + 1].file
                        THEN Writes[n + 1].content ELSE disk[d][f]
  BY <1>1, WriteIs
<1> HIDE DEF n
<1>9. CASE n < 5
  <2>1. \A f \in File : disk'[Latest(jobs)][f] = disk[Latest(jobs)][f]
    BY <1>1, <1>6, <1>7, <1>9, WriteNumber
  <2>2. \A f \in File : f # Writes[n + 1].file => disk'[Best(jobs)][f] = disk[Best(jobs)][f]
    BY <1>6, <1>7
  <2>3. disk'[Best(jobs)][Writes[n + 1].file] = Writes[n + 1].content
    <3>1. Writes[n + 1].dir = Best(jobs) /\ Writes[n + 1].file \in File
      BY <1>1, <1>9, WriteNumber DEF File
    <3> QED
      BY <1>6, <1>7, <3>1
  <2>4. /\ n = 4 => Part(disk'[Best(jobs)], 4, jobs, weights)
        /\ n < 4 => Part(disk'[Best(jobs)], n + 1, jobs, weights)
    BY <1>1, <1>2, <1>5, <1>9, <2>2, <2>3, WriteNumber DEF Partly, Part, File
  <2>5. n < 4 => (NoCheckpoint \/ Whole(Latest(jobs)))'
    <3>1. n < 4 => Writes[n + 1].file # "metrics"
      BY <1>1, WriteNumber
    <3>2. CASE NoCheckpoint
      BY <1>2, <2>1, <2>2, <3>1, <3>2 DEF NoCheckpoint, File
    <3>3. CASE Whole(Latest(jobs))
      BY <1>2, <2>1, <3>3 DEF Whole, File
    <3> QED
      BY <1>5, <1>9, <3>2, <3>3
  <2>6. n = 4 => Whole(Best(jobs))'
    <3> SUFFICES ASSUME n = 4 PROVE Whole(Best(jobs))'
      OBVIOUS
    <3>1. disk'[Best(jobs)]["metrics"] = Holds("metrics", weights)
      BY <1>1, <2>3, WriteNumber
    <3>2. /\ disk'[Best(jobs)]["model"] = Holds("state_dict", weights)
          /\ disk'[Best(jobs)]["tokenizer"] = Holds("tokenizer", Of(jobs))
          /\ disk'[Best(jobs)]["config"] = Holds("sft", Of(jobs))
      BY <2>4 DEF Part
    <3> QED
      BY <1>2, <1>6, <3>1, <3>2, FilesHold DEF Whole, File
  <2>7. n = 4 => Partly(Latest(jobs), Written - 5)'
    BY <1>3 DEF Partly, Part
  <2>8. n < 4 => Partly(Best(jobs), Written)'
    BY <1>2, <1>3, <2>4 DEF Partly
  <2>9. n = 4 \/ n < 4
    BY <1>1, <1>9
  <2> QED
    BY <1>1, <1>2, <1>3, <1>4, <1>5, <1>9, <2>5, <2>6, <2>7, <2>8, <2>9 DEF Saving
<1>10. CASE n >= 5
  <2>1. \A f \in File : disk'[Best(jobs)][f] = disk[Best(jobs)][f]
    BY <1>1, <1>6, <1>7, <1>10, WriteNumber
  <2>2. \A f \in File : f # Writes[n + 1].file => disk'[Latest(jobs)][f] = disk[Latest(jobs)][f]
    BY <1>6, <1>7
  <2>3. disk'[Latest(jobs)][Writes[n + 1].file] = Writes[n + 1].content
    <3>1. Writes[n + 1].dir = Latest(jobs) /\ Writes[n + 1].file \in File
      BY <1>1, <1>10, WriteNumber DEF File
    <3> QED
      BY <1>6, <1>7, <3>1
  <2>4. /\ n = 9 => Part(disk'[Latest(jobs)], 4, jobs, weights)
        /\ n < 9 => Part(disk'[Latest(jobs)], n - 4, jobs, weights)
    <3>1. Partly(Latest(jobs), n - 5)
      BY <1>1, <1>5, <1>10
    <3> QED
      BY <1>1, <1>2, <1>10, <2>2, <2>3, <3>1, WriteNumber DEF Partly, Part, File
  <2>5. Whole(Best(jobs))'
    BY <1>2, <1>5, <1>10, <2>1 DEF Whole, File
  <2>6. n = 9 => Whole(Latest(jobs))'
    <3> SUFFICES ASSUME n = 9 PROVE Whole(Latest(jobs))'
      OBVIOUS
    <3>1. disk'[Latest(jobs)]["metrics"] = Holds("metrics", weights)
      BY <1>1, <2>3, WriteNumber
    <3>2. /\ disk'[Latest(jobs)]["model"] = Holds("state_dict", weights)
          /\ disk'[Latest(jobs)]["tokenizer"] = Holds("tokenizer", Of(jobs))
          /\ disk'[Latest(jobs)]["config"] = Holds("sft", Of(jobs))
      BY <2>4 DEF Part
    <3> QED
      BY <1>2, <1>6, <3>1, <3>2, FilesHold DEF Whole, File
  <2>7. n < 9 => Partly(Latest(jobs), Written - 5)'
    <3>1. Written' - 5 = n - 4
      BY <1>1, <1>3
    <3> QED
      BY <1>2, <2>4, <3>1 DEF Partly
  <2>8. n = 9 \/ n < 9
    BY <1>1
  <2> QED
    BY <1>1, <1>2, <1>3, <1>4, <1>5, <1>10, <2>5, <2>6, <2>7, <2>8 DEF Saving
<1> QED
  BY <1>1, <1>9, <1>10

LEMMA SftEvaluateSaves ==
  ASSUME TypeOK, Paced, Selected, Saving, SftEvaluate
  PROVE  Saving'
<1>1. PICK score \in Scores : Record(score) /\ todo' = ToWrite("sft", score)
  BY DEF SftEvaluate, ToWrite
<1>2. /\ kind = "sft" /\ pc = "batches" /\ todo = <<>> /\ ~Resting /\ AtEnd("sft")
  BY DEF SftEvaluate, AtEnd, Paced, Resting
<1>3. /\ UNCHANGED <<jobs, kind, weights, disk>> /\ Writes' = Writes
      /\ Best(jobs)' = Best(jobs) /\ Latest(jobs)' = Latest(jobs)
  BY <1>1 DEF Record, Writes, SftCheckpoint
<1>4. Len(todo) = 0 /\ Written = 10
  BY <1>2 DEF Written
<1>5. /\ history = <<>> => NoCheckpoint
      /\ history # <<>> => best # NoScore /\ Whole(Best(jobs)) /\ Whole(Latest(jobs))
  BY <1>2, <1>4 DEF Saving
<1>6. history' # <<>> /\ best' # NoScore
  <2>1. Len(history') = Len(history) + 1 /\ Len(history) \in Nat
    <3>1. score \in Scores \cup {NaN} /\ AtEnd("sft") /\ Record(score)
      BY <1>1, <1>2
    <3>2. Len(history') = Len(history) + 1
      BY <3>1, EvaluateTypes
    <3> QED
      BY <3>2, MetricTypes
  <2>2. Beats(score, best) => best' = score
    BY <1>1 DEF Record
  <2>3. score \in Nat /\ score # NaN
    BY <1>1, TrainingConstants
  <2>4. ~Beats(score, best) => best # NoScore /\ best' = best
    BY <1>1, <2>3 DEF Record, Beats, NoScore
  <2> QED
    BY <2>1, <2>2, <2>3, <2>4 DEF NoScore
<1>7. CASE Beats(score, best)
  <2>1. todo' = Writes
    BY <1>1, <1>7, SftToWrite
  <2>2. Len(todo') = 10 /\ DOMAIN todo' = 1..10
    BY <2>1, BothWrites
  <2>3. Written' = 0
    BY <2>2 DEF Written
  <2>4. \A i \in DOMAIN todo' : todo'[i] = Writes'[Written' + i]
    BY <1>3, <2>1, <2>2, <2>3
  <2>5. (NoCheckpoint \/ Whole(Latest(jobs)))'
    BY <1>3, <1>5 DEF NoCheckpoint, Whole
  <2>6. Partly(Best(jobs), Written)'
    BY <2>3 DEF Partly, Part
  <2> QED
    BY <1>2, <1>3, <1>6, <2>2, <2>3, <2>4, <2>5, <2>6 DEF Saving
<1>8. CASE ~Beats(score, best)
  <2>1. todo' = SftCheckpoint(Latest(jobs), weights)
    BY <1>1, <1>8, SftToWrite
  <2>2. Len(todo') = 5 /\ DOMAIN todo' = 1..5
    BY <2>1 DEF SftCheckpoint
  <2>3. Written' = 5
    BY <2>2 DEF Written
  <2>4. \A i \in DOMAIN todo' : todo'[i] = Writes'[Written' + i]
    <3>1. /\ todo'[1] = Writes[6] /\ todo'[2] = Writes[7] /\ todo'[3] = Writes[8]
          /\ todo'[4] = Writes[9] /\ todo'[5] = Writes[10]
      BY <2>1, BothWrites DEF SftCheckpoint
    <3> QED
      BY <1>3, <2>2, <2>3, <3>1
  <2>5. Whole(Best(jobs))'
    <3>1. history # <<>>
      <4>1. history = <<>> => best = NoScore
        BY MetricTypes DEF Selected
      <4>2. best # NoScore
        <5>1. score \in Nat /\ score # NaN
          BY <1>1, TrainingConstants
        <5> QED
          BY <1>8, <5>1 DEF Beats, NoScore
      <4> QED
        BY <4>1, <4>2
    <3> QED
      BY <1>3, <1>5, <3>1 DEF Whole
  <2>6. Partly(Latest(jobs), Written - 5)'
    BY <2>3 DEF Partly, Part
  <2> QED
    BY <1>2, <1>3, <1>6, <2>2, <2>3, <2>4, <2>5, <2>6 DEF Saving
<1> QED
  BY <1>7, <1>8

LEMMA Saves ==
  ASSUME TypeOK, Paced, Selected, Fresh, Saving, [Next]_vars
  PROVE  Saving'
<1>1. CASE Started
  <2>1. \A i \in DOMAIN todo' : todo'[i].dir \notin SftDirs
    <3>1. CASE StartHier
      <4>1. \A i \in DOMAIN todo' : todo'[i].dir = Hier
        BY <3>1 DEF StartHier, Put
      <4> QED
        BY <4>1, Directories DEF SftDirs
    <3>2. CASE ~StartHier
      BY <1>1, <3>2 DEF Started, StartSft, StartRlcd, StartEval
    <3> QED
      BY <3>1, <3>2
  <2>2. PICK w : Blank(w)
    BY <1>1, StartIs
  <2>3. history' = <<>> /\ jobs' = jobs + 1 /\ jobs' \in 1..MaxJobs /\ disk' = disk
    BY <1>1, <2>2, StartIs, BlankIs
  <2>4. NoCheckpoint'
    <3>1. jobs' > jobs
      BY <2>3 DEF TypeOK
    <3>2. disk[Best(jobs')]["metrics"] = None /\ disk[Latest(jobs')]["metrics"] = None
      BY <2>3, <3>1 DEF Fresh
    <3> QED
      BY <2>3, <3>2 DEF NoCheckpoint
  <2>5. kind' = "sft" => todo' = <<>>
    BY <1>1, StartIs
  <2>6. todo' = <<>> => Len(todo') = 0 /\ DOMAIN todo' = {}
    OBVIOUS
  <2> QED
    BY <2>1, <2>3, <2>4, <2>5, <2>6 DEF Saving
<1>2. CASE Kill
  BY <1>2 DEF Kill, Saving, Resting
<1>3. CASE Write /\ kind = "sft"
  BY <1>3, SftWriteSaves
<1>4. CASE Write /\ kind # "sft"
  BY <1>4, WriteIs DEF Saving
<1>5. CASE SftEvaluate
  BY <1>5, SftEvaluateSaves
<1>6. CASE RlcdEvaluate \/ HierEvaluate \/ RlcdFinish \/ HierFinish
  <2>1. kind' # "sft"
    BY <1>6 DEF RlcdEvaluate, HierEvaluate, RlcdFinish, HierFinish, AtEnd, AtClose, Record
  <2>2. \A i \in DOMAIN todo' : todo'[i].dir \in {RlcdBest, RlcdFinal, Hier}
    BY <1>6 DEF RlcdEvaluate, HierEvaluate, RlcdFinish, HierFinish, RlcdCheckpoint, Put
  <2>3. {RlcdBest, RlcdFinal, Hier} \cap SftDirs = {}
    BY Directories DEF SftDirs
  <2> QED
    BY <2>1, <2>2, <2>3 DEF Saving
<1>7. CASE Calm /\ ~Write /\ ~RlcdFinish /\ ~HierFinish
  <2>1. UNCHANGED <<jobs, kind, best, history, disk, todo>>
    BY <1>7, CalmKeeps DEF Calm, BeginEpoch, SftBatch, RlcdBatch, HierBatch, Backward, SftFinish,
         End, Done, vars
  <2>2. Written' = Written /\ Best(jobs)' = Best(jobs) /\ Latest(jobs)' = Latest(jobs)
        /\ (Whole(Best(jobs))' <=> Whole(Best(jobs)))
        /\ (Whole(Latest(jobs))' <=> Whole(Latest(jobs))) /\ (NoCheckpoint' <=> NoCheckpoint)
    BY <2>1 DEF Written, Whole, NoCheckpoint
  <2>3. ~Resting' => ~Resting
    BY <1>7 DEF Calm, BeginEpoch, SftBatch, RlcdBatch, HierBatch, Backward, AtBatch, SftFinish,
       AtClose, End, Done, vars, Resting
  <2>4. CASE todo = <<>>
    <3>1. Len(todo) = 0 /\ Written = 10 /\ DOMAIN todo = {}
      BY <2>4 DEF Written
    <3> QED
      BY <2>1, <2>2, <2>3, <2>4, <3>1 DEF Saving
  <2>5. CASE todo # <<>>
    <3>1. UNCHANGED <<weights, pc>>
      BY <1>7, <2>5 DEF Calm, BeginEpoch, SftBatch, RlcdBatch, HierBatch, AtBatch, SftFinish,
         AtClose, End, Done, vars, state, Paced
    <3>2. /\ Writes' = Writes /\ \A j : Partly(Best(jobs), j)' <=> Partly(Best(jobs), j)
          /\ \A j : Partly(Latest(jobs), j)' <=> Partly(Latest(jobs), j)
      BY <2>1, <3>1 DEF Writes, SftCheckpoint, Partly
    <3>3. (Partly(Best(jobs), Written)' <=> Partly(Best(jobs), Written))
          /\ (Partly(Latest(jobs), Written - 5)' <=> Partly(Latest(jobs), Written - 5))
      BY <2>1, <2>2, <3>1 DEF Partly
    <3> QED
      BY <2>1, <2>2, <2>3, <3>1, <3>2, <3>3 DEF Saving
  <2> QED
    BY <2>4, <2>5
<1> QED
  BY <1>1, <1>2, <1>3, <1>4, <1>5, <1>6, <1>7, StepIs DEF Evaluated, Calm

-----------------------------------------------------------------------------
(* The theorems. *)

LEMMA Initially == Init => IInv
<1> SUFFICES ASSUME Init PROVE IInv
  OBVIOUS
<1>1. TypeOK
  BY InitTypes
<1>2. Resting /\ jobs = 0 /\ kind = "sft" /\ pc = "idle" /\ todo = <<>> /\ history = <<>>
      /\ best = NoScore /\ epoch = 0 /\ waited = 0
  BY DEF Init, Resting
<1>3. Len(history) = 0 /\ DOMAIN history = {} /\ DOMAIN todo = {}
  BY <1>2
<1>4. Paced /\ Selected /\ Pending /\ Applied /\ Saving
  BY <1>2, <1>3 DEF Paced, Selected, Pending, Applied, Saving
<1>5. Patient
  BY <1>2, <1>3 DEF Patient
<1>6. Fresh
  <2>1. \A n \in 1..MaxJobs : Best(n) \in Dirs /\ Latest(n) \in Dirs
    BY DirsOf
  <2> QED
    BY <2>1 DEF Init, Fresh, File
<1> QED
  BY <1>1, <1>4, <1>5, <1>6 DEF IInv

LEMMA Inductive == IInv /\ [Next]_vars => IInv'
BY Types, Paces, Selects, Keeps, Waits, Applies, StaysFresh, Saves DEF IInv

LEMMA Invariant == Spec => []IInv
<1>1. Init => IInv
  BY Initially
<1>2. IInv /\ [Next]_vars => IInv'
  BY Inductive
<1> QED
  BY <1>1, <1>2, PTL DEF Spec

\* TrainingTypeOK.  Every variable keeps its type: what is on the disk is a file
\* of some job, and no run counts past its epochs and batches.
THEOREM TrainingTypeOK == Spec => []TypeOK
<1>1. IInv => TypeOK
  BY DEF IInv
<1> QED
  BY <1>1, Invariant, PTL

LEMMA BestFollows == IInv => BestIsBest
<1> SUFFICES ASSUME IInv, pc \in {"ready", "closing", "ended"}, kind # "eval",
                    pc = "ready" => todo = <<>>
             PROVE  LET better == {e \in DOMAIN history : Improves(e)} IN
                    IF better = {} THEN best = NoScore
                    ELSE /\ bestEpoch \in better /\ \A e \in better : e <= bestEpoch
                         /\ best = history[bestEpoch].score
                         /\ disk[BestDir]["model"].of = history[bestEpoch].weights
  BY DEF BestIsBest
<1>1. TypeOK /\ Selected /\ Pending
  BY DEF IInv
<1>2. CASE best = NoScore
  <2>1. \A e \in DOMAIN history : ~Improves(e)
    <3> SUFFICES ASSUME NEW e \in DOMAIN history, Improves(e) PROVE FALSE
      OBVIOUS
    <3>1. history[e].score \in Nat
      BY <1>1, MetricTypes DEF Improves
    <3>2. history[e].score # NaN
      BY DEF Improves
    <3> QED
      BY <1>1, <1>2, <3>1, <3>2 DEF Selected, NoScore
  <2> QED
    BY <1>2, <2>1
<1>3. CASE best # NoScore
  <2>1. bestEpoch \in DOMAIN history /\ Improves(bestEpoch) /\ best = history[bestEpoch].score
    BY <1>1, <1>3 DEF Selected
  <2>2. \A e \in DOMAIN history : Improves(e) => e <= bestEpoch
    <3> SUFFICES ASSUME NEW e \in DOMAIN history, Improves(e), ~(e <= bestEpoch) PROVE FALSE
      OBVIOUS
    <3>1. e \in Int /\ bestEpoch \in Int /\ bestEpoch \in 1..(e - 1)
      BY <1>1, <2>1, MetricTypes
    <3>2. history[bestEpoch].score # NaN /\ history[e].score # NaN
      BY <2>1 DEF Improves
    <3>3. history[bestEpoch].score < history[e].score
      BY <3>1, <3>2 DEF Improves
    <3>4. history[e].score <= best /\ best \in Int /\ history[e].score \in Int
      BY <1>1, <3>2, MetricTypes DEF Selected
    <3> QED
      BY <2>1, <3>3, <3>4
  <2>3. disk[BestDir]["model"].of = history[bestEpoch].weights
    <3>1. \A i \in DOMAIN todo : ~IsBestModel(todo[i])
      BY <1>1 DEF Pending
    <3> QED
      BY <1>1, <1>3, <3>1 DEF Pending
  <2> QED
    BY <2>1, <2>2, <2>3
<1> QED
  BY <1>2, <1>3

\* KeepsTheBest.  Of any run, whatever was killed before it and whatever it has
\* written over, the best checkpoint holds the weights of the first epoch with
\* the highest metric.
THEOREM KeepsTheBest == Spec => []BestIsBest
BY Invariant, BestFollows, PTL

LEMMA AppliedFollows == IInv => GradientsApplied
<1> SUFFICES ASSUME IInv, pc = "ready" PROVE GradientsApplied
  BY DEF GradientsApplied
<1>1. TypeOK /\ Applied
  BY DEF IInv
<1>2. /\ conf.accum \in Nat \ {0} /\ conf.batches \in Nat /\ conf.epochs \in Nat /\ epoch \in Nat
      /\ steps \in Nat
  BY <1>1, ConfTypes DEF TypeOK
<1>3. Windows \in Nat
  <2>1. 0 * conf.accum <= conf.batches
    BY <1>2
  <2> QED
    BY <1>2, <2>1, WindowsFit DEF Windows
<1>4. /\ window = 0 /\ steps * conf.accum >= epoch * conf.batches
      /\ steps <= epoch * (Windows + 1) /\ touched = IF steps = 0 THEN {} ELSE Reached
  BY <1>1 DEF Applied
<1>5. Windows * conf.epochs <= PlannedSteps /\ PlannedSteps \in Int
  <2> DEFINE b == conf.batches \div conf.accum
             e == conf.epochs
  <2>1. b \in Nat /\ e \in Nat /\ Windows = b
    BY <1>2, <1>3 DEF Windows
  <2>2. MaxOf(1, b) \in Nat /\ MaxOf(1, b) >= b
    BY <2>1 DEF MaxOf
  <2>3. b * e \in Nat
    BY <2>1
  <2>4. MaxOf(1, b * e) \in Nat /\ MaxOf(1, b * e) >= b * e
    BY <2>3 DEF MaxOf
  <2>5. \A x \in Nat, y \in Nat, z \in Nat : x >= y => x * z >= y * z /\ x * z \in Int
    OBVIOUS
  <2>6. PlannedSteps = IF kind = "hier" THEN MaxOf(1, b * e) ELSE MaxOf(1, b) * e
    BY DEF PlannedSteps
  <2> HIDE DEF b, e
  <2>7. MaxOf(1, b) * e >= b * e /\ MaxOf(1, b) * e \in Int
    BY <2>1, <2>2, <2>5
  <2>8. Windows * conf.epochs = b * e
    BY <2>1 DEF e
  <2> QED
    BY <2>3, <2>4, <2>6, <2>7, <2>8
<1>6. epoch = conf.epochs => steps <= PlannedSteps + conf.epochs
  <2> SUFFICES ASSUME epoch = conf.epochs PROVE steps <= PlannedSteps + conf.epochs
    OBVIOUS
  <2>1. epoch * (Windows + 1) = Windows * conf.epochs + conf.epochs
    BY <1>2, <1>3
  <2>2. Windows * conf.epochs \in Int
    BY <1>2, <1>3
  <2> QED
    BY <1>2, <1>4, <1>5, <2>1, <2>2
<1> QED
  BY <1>4, <1>6 DEF GradientsApplied, Reached

\* AppliesGradients.  Of every number of batches, whether the accumulation
\* divides it or not, all gradients are applied by the end of each epoch, with
\* at most one step per epoch more than was planned.
THEOREM AppliesGradients == Spec => []GradientsApplied
BY Invariant, AppliedFollows, PTL

LEMMA StopFollows == IInv => StopsWhenStale
<1> SUFFICES ASSUME IInv, kind = "sft", pc \in {"ready", "ended"}, conf.patience # NoPatience
             PROVE  LET stale == {e \in DOMAIN history :
                                    /\ e >= conf.patience
                                    /\ \A f \in (e - conf.patience + 1)..e : ~Improves(f)}
                    IN  /\ \A e \in stale : e = epoch
                        /\ pc = "ended" => epoch = conf.epochs \/ epoch \in stale
  BY DEF StopsWhenStale
<1>1. TypeOK /\ Paced /\ Patient
  BY DEF IInv
<1>2. Len(history) = epoch /\ epoch \in Nat /\ DOMAIN history = 1..epoch
  BY <1>1, MetricTypes DEF Paced
<1>3. \A e \in DOMAIN history : StaleAt(e) => e = epoch
  BY <1>1, <1>2 DEF Patient
<1>4. ASSUME pc = "ended", epoch # conf.epochs
      PROVE  epoch \in DOMAIN history /\ StaleAt(epoch)
  <2>1. Stale
    BY <1>1, <1>4 DEF Patient, Over
  <2>2. epoch > 0 /\ waited >= conf.patience /\ conf.patience \in Nat /\ waited \in Nat
    BY <1>1, <2>1, ConfTypes DEF Stale, TypeOK, NoPatience
  <2>3. waited <= epoch /\ \A f \in (epoch - waited + 1)..epoch : ~Improves(f)
    BY <1>1, <1>2 DEF Patient
  <2>4. \A f \in (epoch - conf.patience + 1)..epoch : f \in (epoch - waited + 1)..epoch
    BY <1>2, <2>2
  <2> QED
    BY <1>2, <2>2, <2>3, <2>4 DEF StaleAt
<1> QED
  BY <1>2, <1>3, <1>4 DEF StaleAt

\* StopsInTime.  For every patience, the first epoch that ends stale is the last
\* one of the run, and no run stops before it without its epochs being over.
THEOREM StopsInTime == Spec => []StopsWhenStale
BY Invariant, StopFollows, PTL

LEMMA CheckpointStays ==
  ASSUME IInv, [Next]_vars, NEW n \in 1..MaxJobs, Whole(Best(n)) \/ Whole(Latest(n))
  PROVE  (Whole(Best(n)) \/ Whole(Latest(n)))'
<1>1. TypeOK /\ Saving
  BY DEF IInv
<1>2. Best(n) \in Dirs /\ Latest(n) \in Dirs /\ Best(n) \in SftDirs /\ Latest(n) \in SftDirs
      /\ Best(n) # Latest(n)
  BY DirsOf, Directories DEF SftDirs
<1>3. ASSUME \A f \in File : disk'[Best(n)][f] = disk[Best(n)][f]
      PROVE  Whole(Best(n))' <=> Whole(Best(n))
  BY <1>3 DEF Whole, File
<1>4. ASSUME \A f \in File : disk'[Latest(n)][f] = disk[Latest(n)][f]
      PROVE  Whole(Latest(n))' <=> Whole(Latest(n))
  BY <1>4 DEF Whole, File
<1>5. CASE n # jobs
  BY <1>1, <1>3, <1>4, <1>5, OthersStay
<1>6. CASE UNCHANGED disk
  BY <1>3, <1>4, <1>6
<1>7. CASE n = jobs /\ disk' # disk
  <2>1. /\ ~Resting /\ todo # <<>>
        /\ \A d \in Dirs, f \in File :
             d # todo[1].dir \/ f # todo[1].file => disk'[d][f] = disk[d][f]
    BY <1>1, <1>7, OneFile
  <2>2. CASE todo[1].dir \notin SftDirs
    BY <1>2, <1>3, <1>4, <2>1, <2>2
  <2>3. CASE kind = "sft"
    <3>1. Written \in 0..9 /\ history # <<>> /\ todo[1] = Writes[Written + 1]
      BY <1>1, <2>1, <2>3, Writing
    <3>2. CASE Written < 5
      <4>1. todo[1].dir = Best(n)
        BY <1>7, <3>1, <3>2, WriteNumber
      <4>2. NoCheckpoint \/ Whole(Latest(jobs))
        BY <1>1, <2>1, <2>3, <3>1, <3>2 DEF Saving
      <4>3. ~NoCheckpoint
        BY <1>7 DEF NoCheckpoint, Whole, File
      <4> QED
        BY <1>2, <1>4, <1>7, <2>1, <4>1, <4>2, <4>3
    <3>3. CASE Written >= 5
      <4>1. todo[1].dir = Latest(n)
        BY <1>7, <3>1, <3>3, WriteNumber
      <4>2. Whole(Best(jobs))
        BY <1>1, <2>1, <2>3, <3>1, <3>3 DEF Saving
      <4> QED
        BY <1>2, <1>3, <1>7, <2>1, <4>1, <4>2
    <3> QED
      BY <3>1, <3>2, <3>3
  <2> QED
    BY <1>1, <2>1, <2>2, <2>3, WritesItsOwn
<1> QED
  BY <1>5, <1>6, <1>7

\* NeverWithoutCheckpoint.  Once a fine-tuning run has a checkpoint whose files
\* belong together it has one ever after, in whichever of the ten writes of an
\* epoch it is killed, and whatever jobs come later.
THEOREM NeverWithoutCheckpoint == Spec => KeepsACheckpoint
<1>1. IInv /\ [Next]_vars =>
        [\A n \in 1..MaxJobs :
           (Whole(Best(n)) \/ Whole(Latest(n))) => (Whole(Best(n)) \/ Whole(Latest(n)))']_vars
  BY CheckpointStays
<1> QED
  BY <1>1, Invariant, PTL DEF Spec, KeepsACheckpoint

=============================================================================

------------------------------- MODULE Training -------------------------------
(***************************************************************************)
(* The training jobs of train/training, run one after the other on one     *)
(* machine: supervised fine-tuning (SFT), reinforcement from its           *)
(* checkpoints (RLCD), and the two-level trainer.  A job may be killed at  *)
(* any moment, also in the middle of a write; the disk stays.              *)
(*                                                                         *)
(* Weights are the job and the optimizer steps that made them, a metric is *)
(* a number of a small set, and the loss, the scores and the reports are   *)
(* left out.  The data of a job is the module Samples.                     *)
(***************************************************************************)
EXTENDS Integers, Sequences, FiniteSets, SequencesExt

CONSTANTS
  Confs,      \* configurations: [batches, accum, epochs, patience, freeze, own]
  Scores,     \* values of the metric that selects the best epoch
  NaN,        \* what a diverged policy scores
  Params,     \* named_parameters, by what the names tell apart
  MaxJobs     \* bound: processes that are started

NoPatience == -1   \* early_stopping_patience is None
NoScore == -1      \* best_metric before the first epoch

Conf == [batches : Nat,   \* of the training loader
         accum : Nat \ {0}, epochs : Nat, patience : Nat \cup {NoPatience},
         freeze : BOOLEAN,  \* freeze_backbone
         own : BOOLEAN]     \* the backbone is the one of SFTConfig()
Heads == {"choice_head", "score_head", "noul_head", "sab"}

ASSUME TrainingConstants ==
  /\ Confs \subseteq Conf
  /\ Scores \subseteq Nat /\ NaN \notin Int
  /\ Params \subseteq [top : Heads \cup {"backbone"}, embedding : BOOLEAN]
  /\ MaxJobs \in Nat

VARIABLES
  jobs,       \* processes started
  kind, conf, \* of the job
  pc,
  epoch, batch,
  window,     \* batches whose gradient waits for a step
  steps,      \* steps of the optimizer
  weights,    \* of the model that is trained
  touched,    \* parameters the steps have changed
  best, bestEpoch, waited,  \* best metric, its epoch, patience_counter
  history,    \* the metric of each epoch, with the weights it is of
  todo,       \* files the job is about to write, in their order
  disk

state == <<epoch, batch, window, steps, weights, touched, best, bestEpoch, waited, history>>
vars == <<jobs, kind, conf, pc, state, todo, disk>>

-----------------------------------------------------------------------------
\* Files.

Pretrained == [job |-> 0, steps |-> 0]
Of(n) == [job |-> n, steps |-> 0]   \* of a job as a whole
Holds(as, of) == [as |-> as, of |-> of]
None == Holds("none", Pretrained)
Torn == Holds("torn", Pretrained)
File == {"model", "tokenizer", "config", "metrics"}

\* An SFT job has a directory of its own, the others write where they are told.
Best(n) == <<"best", n>>
\* Mutation of Latest: there is one directory for both.
LatestSame(n) == <<"best", n>>
Latest(n) == <<"latest", n>>
RlcdBest == <<"rlcd_best", 0>>
RlcdFinal == <<"rlcd_final", 0>>
Hier == <<"hier", 0>>
SftDirs == {Best(n) : n \in 1..MaxJobs} \cup {Latest(n) : n \in 1..MaxJobs}
Dirs == SftDirs \cup {RlcdBest, RlcdFinal, Hier}

Put(dir, file, content) == [dir |-> dir, file |-> file, content |-> content]

\* SFTTrainer.save_checkpoint: config.json is the backbone's until the
\* configuration of the run replaces it.
SftCheckpoint(dir, w) ==
  <<Put(dir, "model", Holds("state_dict", w)), Put(dir, "tokenizer", Holds("tokenizer", Of(jobs))),
    Put(dir, "config", Holds("backbone", Of(jobs))), Put(dir, "config", Holds("sft", Of(jobs))),
    Put(dir, "metrics", Holds("metrics", w))>>

\* RLCDTrainer._save_checkpoint: the weights inside a record, no config.json.
RlcdCheckpoint(dir, w) ==
  <<Put(dir, "model", Holds("record", w)), Put(dir, "tokenizer", Holds("tokenizer", Of(jobs)))>>

\* What run_rlcd reads before it trains, with load_state_dict strict.  An
\* unknown key of the configuration is dropped, so the backbone's config.json
\* reads as the default configuration, whose backbone fits only its own weights
\* (own: the weights are of that backbone).
RlcdLoads(dir, own) ==
  LET d == disk[dir] IN
  /\ d["config"] \notin {None, Torn}
  /\ d["tokenizer"] # Torn
  /\ d["model"] \notin {None, Torn} /\ d["model"].as = "state_dict"
  /\ d["config"].as = "backbone" => own

\* What calibration.eval_exit_criteria reads; it takes a record apart.
EvalLoads(dir, own) ==
  LET d == disk[dir] IN
  /\ d["config"] \notin {None, Torn}
  /\ d["tokenizer"] # Torn
  /\ d["model"] \notin {None, Torn}
  /\ d["config"].as = "backbone" => own

-----------------------------------------------------------------------------
\* The groups of the optimizer, by their learning rate.

IsHead(p) == p.top \in Heads

\* get_optimizer_grouped_parameters.
SftRate(p) ==
  IF IsHead(p) THEN "head" ELSE IF p.embedding THEN "embed" ELSE "backbone"

\* create_rlcd_optimizer_param_groups after the freeze of the constructor.
RlcdRate(p) ==
  IF IsHead(p) THEN "head"
  ELSE IF conf.freeze THEN "none" ELSE IF p.embedding THEN "embed" ELSE "backbone"

\* HierarchicalSFTTrainer._setup_optimization asks for the embeddings first.
HierRate(p) ==
  IF p.embedding THEN "embed" ELSE IF p.top = "backbone" THEN "backbone" ELSE "head"

Rate(p) ==
  CASE kind = "sft" -> SftRate(p) [] kind = "rlcd" -> RlcdRate(p) [] kind = "hier" -> HierRate(p)

\* num_training_steps of the scheduler.
MaxOf(a, b) == IF a > b THEN a ELSE b
PlannedSteps ==
  IF kind = "hier"
    THEN MaxOf(1, (conf.batches \div conf.accum) * conf.epochs)
    ELSE MaxOf(1, conf.batches \div conf.accum) * conf.epochs

-----------------------------------------------------------------------------
Blank(w) ==
  /\ epoch' = 0 /\ batch' = 0 /\ window' = 0 /\ steps' = 0
  /\ weights' = w /\ touched' = {}
  /\ best' = NoScore /\ bestEpoch' = 0 /\ waited' = 0 /\ history' = <<>>

Init ==
  /\ jobs = 0 /\ kind = "sft" /\ pc = "idle" /\ conf \in Confs
  /\ epoch = 0 /\ batch = 0 /\ window = 0 /\ steps = 0
  /\ weights = Pretrained /\ touched = {}
  /\ best = NoScore /\ bestEpoch = 0 /\ waited = 0 /\ history = <<>>
  /\ todo = <<>>
  /\ disk = [d \in Dirs |-> [f \in File |-> None]]

Resting == pc \in {"idle", "ended", "failed"}

Begin(k) ==
  /\ Resting /\ jobs < MaxJobs
  /\ jobs' = jobs + 1 /\ kind' = k

\* run_sft_pipeline up to the loop of train.  A loader that shuffles refuses an
\* empty dataset; the zero-shot evaluation is not compared with anything.
StartSft ==
  /\ Begin("sft")
  /\ conf' \in Confs
  /\ Blank(Pretrained)
  /\ pc' = IF conf'.batches = 0 THEN "failed" ELSE "ready"
  /\ todo' = <<>>
  /\ UNCHANGED disk

\* run_rlcd.main up to the loop of train, on any checkpoint.
StartRlcd ==
  /\ Begin("rlcd")
  /\ conf' \in Confs
  /\ \E dir \in SftDirs \cup {RlcdBest} :
       IF RlcdLoads(dir, conf'.own) /\ conf'.batches # 0
         THEN Blank(disk[dir]["model"].of) /\ pc' = "ready"
         ELSE Blank(Pretrained) /\ pc' = "failed"
  /\ todo' = <<>>
  /\ UNCHANGED disk

\* run_hierarchical_sft.main up to the loop of train, which first writes the
\* ontology, the configuration and the tokenizer.
StartHier ==
  /\ Begin("hier")
  /\ conf' \in Confs
  /\ Blank(Pretrained)
  /\ pc' = IF conf'.batches = 0 THEN "failed" ELSE "ready"
  /\ todo' = IF conf'.batches = 0 THEN <<>>
             ELSE <<Put(Hier, "config", Holds("ontology", Of(jobs'))),
                    Put(Hier, "tokenizer", Holds("tokenizer", Of(jobs')))>>
  /\ UNCHANGED disk

\* calibration.eval_exit_criteria loads a checkpoint and judges it.
StartEval ==
  /\ Begin("eval")
  /\ UNCHANGED conf
  /\ \E dir \in SftDirs \cup {RlcdBest} :
       /\ disk[dir]["model"] # None
       /\ IF EvalLoads(dir, conf.own)
            THEN Blank(disk[dir]["model"].of) /\ pc' = "ended"
            ELSE Blank(Pretrained) /\ pc' = "failed"
  /\ todo' = <<>>
  /\ UNCHANGED disk

\* One file is written.
Write ==
  /\ ~Resting /\ todo # <<>>
  /\ disk' = [disk EXCEPT ![Head(todo).dir][Head(todo).file] = Head(todo).content]
  /\ todo' = Tail(todo)
  /\ UNCHANGED <<jobs, kind, conf, pc, state>>

\* The process is killed, or a write fails: what it was writing is cut short.
Kill ==
  /\ ~Resting
  /\ \/ UNCHANGED disk
     \/ todo # <<>> /\ disk' = [disk EXCEPT ![Head(todo).dir][Head(todo).file] = Torn]
  /\ Blank(Pretrained)
  /\ pc' = "idle" /\ todo' = <<>>
  /\ UNCHANGED <<jobs, kind, conf>>

-----------------------------------------------------------------------------
\* Early stopping is an affair of SFT.
Stale == kind = "sft" /\ conf.patience # NoPatience /\ epoch > 0 /\ waited >= conf.patience

Over == epoch = conf.epochs \/ Stale

\* The head of the loop over the epochs; the two-level trainer clears the
\* gradients there.
BeginEpoch ==
  /\ pc = "ready" /\ todo = <<>> /\ ~Over
  /\ epoch' = epoch + 1
  /\ batch' = 0
  /\ window' = IF kind = "hier" THEN 0 ELSE window
  /\ pc' = "batches"
  /\ UNCHANGED <<jobs, kind, conf, steps, weights, touched, best, bestEpoch, waited, history,
                 todo, disk>>

\* The backward pass of a batch and, if synced, a step of the optimizer.
Backward(synced) ==
  /\ batch' = batch + 1
  /\ window' = IF synced THEN 0 ELSE window + 1
  /\ steps' = IF synced THEN steps + 1 ELSE steps
  /\ weights' = IF synced THEN [job |-> jobs, steps |-> steps + 1] ELSE weights
  /\ touched' = IF synced THEN touched \cup {p \in Params : Rate(p) # "none"} ELSE touched
  /\ UNCHANGED <<jobs, kind, conf, pc, epoch, best, bestEpoch, waited, history, todo, disk>>

AtBatch(k) == kind = k /\ pc = "batches" /\ batch < conf.batches

\* Accelerator.accumulate: a step every accum batches and at the last batch.
Accumulated == window + 1 = conf.accum \/ batch + 1 = conf.batches

SftBatch == AtBatch("sft") /\ Backward(Accumulated)
RlcdBatch == AtBatch("rlcd") /\ Backward(Accumulated)

\* Mutation of HierBatch: what is left over at the end of an epoch is not applied.
HierBatchWhole ==
  /\ AtBatch("hier")
  /\ Backward((batch + 1) % conf.accum = 0)

HierBatch ==
  /\ AtBatch("hier")
  /\ Backward((batch + 1) % conf.accum = 0 \/ batch + 1 = conf.batches)

\* A comparison with NaN is false.
Beats(a, b) == a # NaN /\ a > b

AtEnd(k) == kind = k /\ pc = "batches" /\ batch = conf.batches

Record(score) ==
  /\ history' = Append(history, [score |-> score, weights |-> weights])
  /\ IF Beats(score, best) THEN best' = score /\ bestEpoch' = epoch
                           ELSE UNCHANGED <<best, bestEpoch>>
  /\ pc' = "ready"
  /\ UNCHANGED <<jobs, kind, conf, epoch, batch, window, steps, weights, touched, disk>>

\* Mutation of SftEvaluate: a better epoch does not start the patience afresh.
SftEvaluateNoReset ==
  /\ AtEnd("sft")
  /\ \E score \in Scores :
       /\ Record(score)
       /\ waited' = IF Beats(score, best) THEN waited ELSE waited + 1
       /\ todo' = (IF Beats(score, best) THEN SftCheckpoint(Best(jobs), weights) ELSE <<>>)
                    \o SftCheckpoint(Latest(jobs), weights)

\* Mutation of SftEvaluate: an epoch as good as the best one replaces its checkpoint.
SftEvaluateTies ==
  /\ AtEnd("sft")
  /\ \E score \in Scores :
       /\ Record(score)
       /\ waited' = IF Beats(score, best) THEN 0 ELSE waited + 1
       /\ todo' = (IF score >= best THEN SftCheckpoint(Best(jobs), weights) ELSE <<>>)
                    \o SftCheckpoint(Latest(jobs), weights)

\* The end of an epoch: evaluate, then the best checkpoint if it is one, then
\* the latest.
SftEvaluate ==
  /\ AtEnd("sft")
  /\ \E score \in Scores :
       /\ Record(score)
       /\ waited' = IF Beats(score, best) THEN 0 ELSE waited + 1
       /\ todo' = (IF Beats(score, best) THEN SftCheckpoint(Best(jobs), weights) ELSE <<>>)
                    \o SftCheckpoint(Latest(jobs), weights)

\* What RLCDTrainer.evaluate may return: a policy whose logits are not numbers
\* scores NaN.
PolicyScores == Scores \cup {NaN}

RlcdEvaluate ==
  /\ AtEnd("rlcd")
  /\ \E score \in PolicyScores :
       /\ Record(score)
       /\ todo' = IF Beats(score, best) THEN RlcdCheckpoint(RlcdBest, weights) ELSE <<>>
  /\ UNCHANGED waited

HierEvaluate ==
  /\ AtEnd("hier")
  /\ \E score \in Scores :
       /\ Record(score)
       /\ todo' = IF Beats(score, best)
                    THEN <<Put(Hier, "model", Holds("state_dict", weights))>> ELSE <<>>
  /\ UNCHANGED waited

AtClose(k) == kind = k /\ pc = "ready" /\ todo = <<>> /\ Over

\* The summary names the variable of the loop, which no epochs leave unbound.
SftFinish ==
  /\ AtClose("sft")
  /\ pc' = IF conf.epochs = 0 THEN "failed" ELSE "ended"
  /\ UNCHANGED <<jobs, kind, conf, state, todo, disk>>

RlcdFinish ==
  /\ AtClose("rlcd")
  /\ todo' = RlcdCheckpoint(RlcdFinal, weights)
  /\ pc' = "closing"
  /\ UNCHANGED <<jobs, kind, conf, state, disk>>

HierFinish ==
  /\ AtClose("hier")
  /\ todo' = <<Put(Hier, "metrics", Holds("summary", Of(jobs)))>>
  /\ pc' = "closing"
  /\ UNCHANGED <<jobs, kind, conf, state, disk>>

End ==
  /\ pc = "closing" /\ todo = <<>>
  /\ pc' = "ended"
  /\ UNCHANGED <<jobs, kind, conf, state, todo, disk>>

Done == Resting /\ jobs = MaxJobs /\ UNCHANGED vars

Step ==
  \/ Write \/ BeginEpoch \/ SftBatch \/ RlcdBatch \/ HierBatch
  \/ SftEvaluate \/ RlcdEvaluate \/ HierEvaluate
  \/ SftFinish \/ RlcdFinish \/ HierFinish \/ End

Next ==
  \/ StartSft \/ StartRlcd \/ StartHier \/ StartEval
  \/ Step \/ Kill \/ Done

Spec == Init /\ [][Next]_vars

-----------------------------------------------------------------------------
Weights == [job : 0..MaxJobs, steps : Nat]

Content ==
  [as : {"none", "torn", "state_dict", "record", "tokenizer", "backbone", "sft", "ontology",
         "metrics", "summary"},
   of : Weights]

TypeOK ==
  /\ jobs \in 0..MaxJobs
  /\ kind \in {"sft", "rlcd", "hier", "eval"} /\ conf \in Confs
  /\ pc \in {"idle", "ready", "batches", "closing", "ended", "failed"}
  /\ epoch \in 0..conf.epochs /\ batch \in 0..conf.batches /\ window \in Nat
  /\ steps \in Nat /\ weights \in Weights /\ touched \subseteq Params
  /\ best \in Scores \cup {NoScore} /\ bestEpoch \in 0..epoch /\ waited \in 0..epoch
  /\ history \in Seq([score : Scores \cup {NaN}, weights : Weights])
  /\ todo \in Seq([dir : Dirs, file : File, content : Content])
  /\ disk \in [Dirs -> [File -> Content]]

\* Epoch e is the first with the highest metric so far.
Improves(e) ==
  /\ history[e].score # NaN
  /\ \A f \in 1..(e - 1) : history[f].score = NaN \/ history[f].score < history[e].score

BestDir == CASE kind = "sft" -> Best(jobs) [] kind = "rlcd" -> RlcdBest [] kind = "hier" -> Hier

\* trainer.py:917-926, rlcd_trainer.py:506-508, hierarchical_trainer.py:531-537:
\* once the files are written, the best checkpoint on the disk holds the weights
\* of the first epoch of this job with the highest metric, whatever came later.
BestIsBest ==
  pc \in {"ready", "closing", "ended"} /\ kind # "eval" /\ (pc = "ready" => todo = <<>>) =>
    LET better == {e \in DOMAIN history : Improves(e)} IN
    IF better = {} THEN best = NoScore
    ELSE /\ bestEpoch \in better /\ \A e \in better : e <= bestEpoch
         /\ best = history[bestEpoch].score
         /\ disk[BestDir]["model"].of = history[bestEpoch].weights

\* All files of a directory are of one epoch of one run.
Whole(dir) ==
  LET d == disk[dir] IN
  /\ \A f \in File : d[f] \notin {None, Torn}
  /\ d["config"] = Holds("sft", Of(dir[2])) /\ d["tokenizer"].of = Of(dir[2])
  /\ d["model"].of = d["metrics"].of

\* trainer.py:917-926 writes the best checkpoint over the old one, then the
\* latest: a run that has a whole checkpoint has one ever after, wherever it is
\* killed.
KeepsACheckpoint ==
  [][\A n \in 1..MaxJobs :
       (Whole(Best(n)) \/ Whole(Latest(n))) => (Whole(Best(n)) \/ Whole(Latest(n)))']_vars

\* trainer.py:478-526, rlcd_trainer.py:545-595, hierarchical_trainer.py:349-357:
\* at the end of an epoch the gradient of every batch has been applied, also of
\* those left over by the accumulation, to every parameter that is not frozen
\* and to no other; the schedule is overrun by one step per epoch at most.
GradientsApplied ==
  pc = "ready" =>
    /\ window = 0
    /\ steps * conf.accum >= epoch * conf.batches
    /\ epoch = conf.epochs => steps <= PlannedSteps + conf.epochs
    /\ touched = IF steps = 0 THEN {}
                 ELSE IF kind = "rlcd" /\ conf.freeze THEN {p \in Params : IsHead(p)} ELSE Params

\* trainer.py:917-955: the first epoch at whose end the last patience epochs
\* brought nothing better is the last one, and no run stops before.
StopsWhenStale ==
  kind = "sft" /\ pc \in {"ready", "ended"} /\ conf.patience # NoPatience =>
    LET stale == {e \in DOMAIN history :
                    /\ e >= conf.patience
                    /\ \A f \in (e - conf.patience + 1)..e : ~Improves(f)}
    IN  /\ \A e \in stale : e = epoch
        /\ pc = "ended" => epoch = conf.epochs \/ epoch \in stale
=============================================================================

# Formal models of sokuto

`sokuto` (this repository) is a decision engine: a server that answers closed
questions (a choice, a score, a "noul", which is a graded yes or no) about a text
with a small encoder model, and that walks declarative graphs of such questions; and
the Python programs that make the model: they generate and read samples, train,
calibrate, export and quantise. This directory holds TLA+ models of its control logic,
the TLC configurations that check them on small instances, and proofs for TLAPS. Paths
of Rust files below are relative to `src/crates/`; `runtime` stands for
`sokuto-runtime/src`, `server` for `sokuto-server/src`, `core` for `sokuto-core/src`.
Paths of Python files are relative to `src/train/`.

Contents

1. [The system](#1-the-system)
2. [Modules](#2-modules)
3. [Runs](#3-runs)
4. [Bounds](#4-bounds)
5. [Fairness](#5-fairness)
6. [Proofs](#6-proofs)
7. [Only model-checked](#7-only-model-checked)
8. [Where the code and its words differ](#8-where-the-code-and-its-words-differ)
9. [Not modelled](#9-not-modelled)
10. [Plan](#10-plan)

## 1. The system

### The server

A request enters at an axum handler. `POST /v1/systemone` carries a state and a set
of questions: the guardrails rewrite and bound it, a blocking task encodes the
questions, screens long candidate lists, runs them in chunks through the engine,
gates the answers and returns them. `POST /v1/systemone/dag` carries a state and a
graph of nodes: the executor validates the graph and walks it under a deadline,
asking one question per Inference node and several at once per Parallel node, each in
a blocking task that calls the engine. The engine shares a fixed set of ONNX Runtime
sessions among the threads that call it.

| component | state | operations | what makes it hard | what makes it correct |
|---|---|---|---|---|
| DAG definition and validator (`runtime/dag/{schema,validator}.rs`) | colours, path stack, adjacency lists, worklist | `validate_dag` | iteration order of the maps, edges that no rule states (task to join), recursion | accepts acyclic and well-formed definitions only; a reported cycle exists; bounded recursion; exact warning |
| DAG executor (`runtime/dag/executor.rs`) | current node, path, records, context, last answer, running tasks | `execute`, `run_dag`, `evaluate_conditions` | blocking tasks that fail, panic, or outlive a deadline; stale last answer; rules with tolerances | visits no node twice, records every question once and with its own answer, always returns, explains escalations |
| Resource pool (`runtime/dag/pool.rs`) | queue, semaphore | `new`, `acquire`, guard drop | two structures passed one after the other, timeouts, cancellation | each item has one borrower, none is lost, waiters are served in order |
| Session pool (`runtime/engine/session.rs`) | mutexes, a counter | `forward_raw_into` | scan of try-locks under interleaving, blocking on one session, poisoning | one caller per session, no guard survives its call, poisoned sessions never run |
| Batch evaluation (`runtime/engine/batch.rs`, `tokenizer/batch.rs`) | buffers of a call | chunked evaluation | a chunk that fails, padding, order of the questions | every question gets its own logits |
| Coarse screening (`runtime/engine/coarse.rs`) | embedding cache | `filter_top_candidates`, `reconstruct_probabilities` | ties, catch-all candidates, more of them than places | keeps `top_m`, keeps order, keeps a catch-all |
| Gating (`core/gating.rs`, `runtime/engine/gating.rs`) | none | route of an answer, aggregate of a response | tolerances, energy, three sources of a confidence | never more automatic than the worst answer |
| Hierarchical router (`runtime/hierarchical/*`) | mapping, built once | `route` | early exit, soft beam, catch-all bias, thresholds of its own | the answer is a candidate of a selected cluster |
| Guardrails (`server/guardrails/*`) | none | `process`, `post_process` | limits checked before text is appended, labels rewritten and restored, routes demoted late | what leaves is bounded; labels come back; a demotion is visible |
| Handlers (`server/handlers/*`) | shared `AppState` | one per route | deadlines against detached tasks, no deadline on `/systemone` | one answer per request with the status of its cause |
| Escalation prompts, prompt interpolation, tokenizer, schema, contracts, mathematics, server state and metrics, command line | none, or built once | conversions | texts and floating-point numbers | see section 9 |

Interactions: the handlers share `AppState` (read only after start-up), which owns the
engine, the tokenizer, the executor and the guardrails. The executor calls the
validator, then starts `spawn_blocking` tasks which call the engine; they share
nothing with the walk but their join handles. Every call of the engine, from any
handler, meets in `forward_raw_into` and its mutexes. The resource pool of
`dag/pool.rs` is exported and tested but no other module uses it today.

### The training programs

They run one after the other on one machine and talk through files. The synthetic
pipeline asks language models for samples and appends them to JSONL files. A training
run reads those files and public corpora, adds negatives, and runs one of three loops:
supervised fine-tuning (SFT), reinforcement from its checkpoint (RLCD), or the
two-level trainer, whose data comes from an ontology. Calibration fits temperatures to
a checkpoint, export turns both into an ONNX bundle, quantisation into a smaller one;
the upload publishes a bundle and a last program computes the answers that
the tests of the server expect. The server reads the bundle.

| component | state | operations | what makes it hard | what makes it correct |
|---|---|---|---|---|
| Synthetic pipeline (`data/synthetic/`) | statistics, similarity index, the files | `run`, `process_single_seed`, three gates, persist, resume | concurrent tasks with awaits between check and append; kills inside a line or a character; resumed numbering | every attempt is counted once; the file is a growing set without duplicates, all of which a resumed run knows; no overshoot |
| Corpora, converters, data set (`data/`) | streams of rows, sample lists, a generator per epoch | convert, build by split, inject negatives, format, collate | rows without labels, labels as indices into shuffled options, rounded ratios | trained and evaluated rows are apart; labels point at their answers; nothing is lost |
| Metrics (`training/metrics.py`) | counters | `reset`, `update`, `compute` | counters shared by training and evaluation | counters of one pass that agree with each other |
| Hierarchy (`data/hierarchical*.py`, `training/hierarchical_*.py`) | ontology, pairs, batches | validate, adapt, pair, shuffle, collate, loss mask, simulated routing | three numberings of categories, hand-edited files, bounds | a validated ontology is a partition; pairs and labels fit it |
| Training loops (`training/*trainer.py`, `run_*.py`) | epoch, window, best metric, patience, checkpoints | epoch, batch, evaluate, save, stop, resume | accumulation remainders, ties and NaN, checkpoints overwritten in place, kills | every gradient is applied; the best checkpoint is the best; there is always one to go on from |
| Calibration (`calibration/`) | cache of logits, buckets, artefact | collect, bucket, fit, look up | three readers of the ranges, gates, too few samples | a temperature serves the sizes it was fitted on |
| Release (`export/`) | two directories, a hub | export, quantise, upload, expected answers | partial failures over earlier files, inputs that are missing or match in part, graph walks by name | an exit code of zero means a bundle of one job and one model; heads stay in FP32 |
| Models, losses, rewards, benchmarks | tensors | | | see section 9 |

The hazards this leads to, each at its line and with the properties that watch it,
are listed in `PROJECT.json` under "hazards"; those without a property say why.

## 2. Modules

| module | stands for | state and actions |
|---|---|---|
| `DagGraph` | `DagDefinition`, `DagNode`, the checks of a node, the edges | operators only: `Adj` (the adjacency lists of `validate_dag`), `After` (what the executor may run next), `NodeError`, `ValidDag`, and the reference notions `Acyclic`, `WellFormed`, `ReachableFrom` |
| `DagRequest` | the definition a request carries | the constant `Dags` and the variable `dag`, which validator and executor share |
| `DagValidator` | `validate_dag` (its names begin with `Validator` where `DagExecutor` has the same ones) | one action per early return, per checked node, per step of `dfs` (root, descend, cycle, leave), per node taken off the worklist; maps are iterated in every order |
| `DagCondition` | `evaluate_conditions`, `matches_condition`, `answer_to_context_value` | operators over numbers scaled so that the tolerance of 1e-6 is one unit |
| `DagRules` | a node that splits on a rule and its negation | one action: both orders of the two rules are evaluated on an answer, once |
| `DagWalk` | what `execute` promises | abstract: the walk follows edges, never repeats, ends completed, escalated or failed |
| `DagExecutor` | `execute`, `run_dag` | one action per node type and phase: `InferenceBegin`/`End`, `BranchStep`, `ParallelBegin`/`End`, `EscalateStep`, `StepFails`, `Leave`, plus `Timeout` and `TaskEnds` for the blocking tasks |
| `PoolLoans` | what a pool of things promises its clients | abstract: `Lend`, `GiveBack` |
| `ResourcePool` | `LowLatencyResourcePool` | `Acquire`, `Wake`, `GiveUp` (deadline or cancellation), `Pop`, `PopEmpty`, `FailEmpty`, and the drop in its two steps `DropPush`, `DropRelease` |
| `SessionPool` | `InferenceEngine::forward_raw_into` (its names begin with `Session` where `ResourcePool` has the same ones, so that one module can speak of both) | `Begin` (counter), `TryHit`/`TryMiss` (one `try_lock` each), `Lock`, `Finish`, `Panic` |
| `Gating` | `core/gating.rs`, the router's own comparison, the demotion in `guardrails/bimodal.rs` | operators only: `IsOod`, `RouteFor`, `Evaluate` (an answer of the engine), `RouterRoute` and `EarlyExitMetadata` (an answer of the router), `Demote`, `Aggregate` |
| `SystemOne` | one request in `system_one_handler` with the guardrails, the router, the screening and the batch behind it | `Reject`, `Admit` (checks and cleaned labels), `RouteQuestion` (one question of the router), `Screen`, `RunChunk`, `GateScreened` (distribution widened, then gated), `PostProcess` (demotion, labels restored), `Summarize`, `InferenceFails` |
| `SampleStore` | what the common file of the synthetic pipeline promises a reader | abstract: `Add` of a sample that is new in id and text, `Spoil` of one whose line was not ended |
| `SyntheticPipeline` | `data/synthetic/pipeline.py`, `validator.py`, `deduplicator.py`, `client.py` as `run` uses them | `Start`, `LoadLine` (one line of the file read back into the ids and the index), `LoadFails` (a line that cannot be decoded) and `Resume`, `NextBatch`, per task `Enter` (semaphore), `Generated`, `Validated` (the gates and both appends, which have no await between them), `PersistFails`, `Return`, `Abort` (an exception nobody catches), `Kill` (anywhere, also within a line) |
| `Metrics` | `training/metrics.py` | operators only: the counters a batch adds to, and what `compute` makes of them |
| `Samples` | `data/{builders,converters,negative_sampler,formatter,dataset}` and the passes of the trainer over a loader | `StreamRow` (a row taken, skipped or raising), `HubFails`, `EndDataset`, `EndStream`; `InDomainNegative`, `CrossNegative`, `EndInjection`; `Read` (an item of a batch), `HandOver` (a batch and its answers), `EndEpoch`, `MeasureBias`, `EndBias` |
| `Hierarchy` | `data/hierarchical.py`, `hierarchical_dataset.py`, `training/hierarchical_loss.py`, `evaluate` of the trainer | load and validate, adapt, split, one action per pair, per training batch, per evaluated sample (the coarse pass, then the judgement) |
| `Training` | `training/{trainer,rlcd_trainer,hierarchical_trainer}.py`, the three `run_*.py`, `calibration.eval_exit_criteria` as a reader of checkpoints | `StartSft`/`StartRlcd`/`StartHier`/`StartEval`, `BeginEpoch`, one batch action and one evaluation per trainer, `Write` (one file), `Kill` (also within a write), `*Finish` |
| `Calibration` | `calibration/{config,optimizer,evaluator}.py`, the routes of `export/generate_parity_fixtures.py` | operators: buckets, gates, `ResolveTemperature`, expected routes beside those of `Gating` |
| `Release` | `run_calibration`, `run_export`, `quantize.py`, `upload_hf.py`, the program of the expected answers | one job at a time over two directories, an action per written file and per step that can fail; the walk over the graph node by node |
| `DagProofs`, `PoolProofs`, `SystemOneProofs`, `SamplesProofs`, `HierarchyProofs`, `TrainingProofs`, `SyntheticProofs`, `ReleaseProofs` | | theorems, see section 6 |
| `MCDagValidator`, `MCDagCondition`, `MCDagExecutor`, `MCResourcePool`, `MCSystemOne`, `MCSyntheticPipeline`, `MCSamples`, `MCHierarchy`, `MCTraining`, `MCRelease` | | the instances TLC checks (`SessionPool` is run as it is) |

```
DagGraph <- DagRequest <- DagValidator       PoolLoans <= ResourcePool
    ^           ^-------- DagExecutor => DagWalk         <= SessionPool
    ^------ DagCondition <----^
                 ^--------- DagRules

Gating <- SystemOne                          SampleStore <= SyntheticPipeline
   ^----- Calibration <- Release             Metrics <- Samples
Hierarchy                                    Training
(<- EXTENDS, => or <= "implements", through INSTANCE ... WITH)
```

`DagExecutor` uses `ValidDag`, the verdict of `validate_dag` as one expression; that the
search of `DagValidator` comes to just that verdict is checked by its run
(`DecidesValidDag`, a part of `VerdictIsRight`) and proved (`DecidesWhatCanBeWalked`). So the
two models fit together as the two functions do.

The variables have the names of the code where it has any: `step_count`, `path`
(`execution_path`), `steps`, `context`, `final_answer`, `color`, `stack` (`path_stack`),
`start` (`start_idx`), `offset`. An answer of the model carries a ghost field `by`, the
node whose question was asked, so that properties can say that a record holds the
answer to its own question.

`SystemOne` names the maps of the handler by what they hold at each phase: `questions`
is the request after `GuardrailPipeline::process`, `processed` is `processed_questions`
of the batch (the questions that did not go to the router, screened), `answers` is the
map that the router and the batch fill. A question is known by its place in
the request. What the network says is a *reading*: confidence, margin, energy and
whether the distribution is bimodal. Readings are chosen from a set, constrained by
`Possible` to what the formulas of `core/math.rs` allow together: a choice is at most as
confident as its margin, a bimodal score is never very confident. A
distribution keeps what the properties need: for a choice, which candidates were
evaluated and which only reported with 0.0; for a score, which level each label
stands for. `RunChunk` gates the answers of questions that were not screened as the
code does within the chunk; the screened ones wait for `GateScreened`. Checks
before the inference are two (`400` for what is invalid, `413` for what is too large); a
failure or a panic of the blocking task is `InferenceFails` (`500`).

`Calibration` extends `Gating`, so that the answers the tests expect of the server are
compared with the rules of the server itself and not with a copy of them.

In `Training`, weights are the job and the number of optimizer steps that made
them, a file is what it holds and of which weights or job, and a directory is four
files. The order in which an epoch writes is the sequence `todo`; `Write` takes its
head and `Kill` may leave that file torn. In `SyntheticPipeline` a line of a file is a
sample, garbled (`json.loads` refuses it) or broken (half of a character is in it, which the
decoding of the file refuses), and `open` says that the last one has no newline, so that the
next append sticks to it: a sample that lacks nothing else is read back all the same, and
lost to that append. In `Samples` the variable `broken` is the line of the synthetic file that
cannot be decoded, if any: reading raises there, or at an earlier line, as the file is
decoded in blocks. In `Samples` and `Hierarchy`, a row is known by where it stands,
a label is an index, and every random draw is a choice; in both the orders that can
be drawn are a constant, `Shuffle`. In `Release` the content of a
file is the job that wrote it and the weights it is of; the weights 0 are those of a model that took
up a checkpoint in part only (`strict=False`), the calibration `NoSuchFile` is a path that
leads to no file.

Mutations: next to a definition stands at times a second one named "Mutation of ...".
It is the definition with a plausible mistake in it. Nothing uses it; put in place of
the definition, it makes TLC find the property it is paired with in `PROJECT.json`
violated, which shows that the property depends on that line of the code.

## 3. Runs

| run | property | what it shows |
|---|---|---|
| `validator` | `VerdictIsRight` | accepted: no cycle in what the executor may run, fan-outs and joins included, no dangling target, no node that cannot run, and exactly the unreachable nodes are logged; rejected for a cycle: the reported path is one; `dfs` opens no node twice; the verdict is `ValidDag`, the one the executor relies on |
| | `ValidationReturns` | validation ends |
| `conditions` | `RulesDecideAlike` | a node that splits by a rule and its negation always takes one of the two ways, in either order, tolerance included; a later node that refers to an answer decides as the node that gave it would have |
| `executor` | `RunIsAccountedFor` | no node twice on a path; the records are exactly the visited nodes and their tasks, each with its own answer; an escalation reports the question behind it; the step limit is reported by the walks that took as many steps and by no other, never over a smaller definition |
| | `EventuallyReturns` | the caller gets an answer although tasks hang |
| | `ImplementsWalk` | all of it is a `DagWalk` |
| `pool` | `PermitsStandForItems`, `EveryWaiterServed`, `ImplementsLoans` | with timeouts and cancellation at every await: each item is in the queue or in one guard, a permit always finds its item, also one that a deadline gave back, waiting ends, loans are exclusive |
| `sessions` | `GuardsAreInUse`, `SessionsAreLent`, `QuietPoolDrains` | scans and waits of several callers lend a session to one of them at a time, no guard outlives its call, a session whose run panicked is out for good, and every caller comes back once no new ones arrive |
| `systemone` | `ReplyIsRight` | whichever way a question took, a successful reply answers and gates it; what may be executed unseen is confident, ahead, not bimodal and, from the engine, not out of distribution, although three rules of three files decide it; the verdict is the worst route after all demotions |
| | `AnswersInClientTerms` | a choice of the engine is among the candidates that were evaluated, and reported over all; a score with different labels comes back under them, also when they look alike once cleaned |
| | `NeverPromoted` | from its first gating on, no answer becomes more automatic or more confident |
| `synthetic` | `TypeOK` | shape of the statistics, the tasks and the lines of the files |
| | `Accounting` | every attempt is passed, rejected by one gate, failed or under way; batches that are sized while others finish leave no surplus in the file |
| | `TypeFilesAgree` | a file by type differs from the common one by at most two samples per write that was cut short |
| | `KnowsTheFile` | a run at work has read the whole file and knows the id and the text of every sample in it, whichever run wrote it and whatever was cut short; one that cannot read it does not begin |
| | `ImplementsStore` | with tasks that interleave, kills and resumed runs, the readable lines grow, no two have one id or similar texts, and none is lost but one whose write was cut just before its newline |
| | `EventuallyReturns` | a run that is not killed comes to its end or raises, also when it attempts more than it can pass |
| `samples` | `TypeOK`, `HeldOut` | whichever data sets share a corpus or file, no row is both trained on and evaluated |
| | `InjectionIsExact` | negatives are added within their ratio to choices only, and no sample is lost or repeated |
| | `LabelFollowsTarget` | the label names the answer wherever the shuffle put it; scores and nouls keep their order |
| | `EvaluationIsSound` | the counters are of one pass, agree by type and size; a composite metric rounded to 1.0 leaves at most 1.5 choices and 2.5 nouls in ten thousand wrong (it does not mean that none is); a model that looks at the keys only has no position bias, and one that looks at places only has one as soon as an order differs |
| `training` | `BestIsBest` | the best checkpoint on the disk holds the weights of the first epoch of this job with the highest metric, with ties and NaN |
| | `GradientsApplied` | at the end of an epoch the gradient of every batch is applied, to the parameters that are not frozen; the schedule is overrun by one step per epoch at most |
| | `StopsWhenStale` | patience ends the run at the first stale epoch, not earlier or later |
| | `KeepsACheckpoint` | wherever a run is killed, of its two checkpoints one is whole once one was |
| `release` | `TypeOK`, `CalibrationServed` | a temperature that is looked up was fitted on samples of its type and size, enough of them |
| | `OneJobsBundle` | an exit code of zero means that this job wrote every file of the bundle, of the one model it had in memory, compared unless that was switched off, and that the calibration is what its path gave, whatever earlier jobs left; section 8 says what it does not mean |
| | `HeadStaysFp32` | no node between the backbone and the logits is quantised, every matrix of the backbone is |
| | `FixturesMatchServer` | the server is never more lenient than the expected answers and agrees with them on plain inputs |
| `hierarchy` | `OntologyIsAPartition` | what `validate` lets pass is a partition with its reverse index, also of files edited by hand |
| | `PairsAreRight` | the fine question of a sample offers its whole cluster and at most one other, each candidate with its category |
| | `ItemsAreRight` | both labels point at their answers in every order, catch-alls stand inside, the loss counts every option once |
| | `RightWithinBeam` | a hit end to end has its answer in the categories that were passed on |
| `hierarchy_parents` | `OnlyOthersSuppressed` | see section 8 |

Most type invariants of the modules with proofs are theorems and are not repeated as
runs. Properties named together above are conjunctions; their parts are defined, and
most of them proved, one by one. `EventuallyReturns` of the executor and of the
pipeline, `EveryWaiterServed` and `QuietPoolDrains` are the liveness properties beyond
plain termination.

## 4. Bounds

* `validator`: all definitions over three nodes without slips, whose first node is the
  entry (self-loops, two- and three-node cycles, through rules, tasks and joins), and all
  over two identifiers with every slip, missing nodes included. The shortest cycle that
  involves a fan-out with a join and a task has three nodes. Lists have at most two
  elements. One action of `dfs` looks at one neighbour, so an order of iteration is a
  choice of the behaviour.
* `conditions`: numbers 0 to 7 with the tolerance at 1 (`Half` = 4 stands for 0.5), so all
  distances on both sides of the tolerance occur; two choice texts, the texts "true",
  "false" and a decimal, an array, null.
* `executor`: every accepted shape of three numbered nodes, those with an edge back (which
  are refused), and walks of six nodes with a fan-out of one or two tasks, a duplicate
  task, a join of each type and a last node that asks or escalates. `MaxSteps` is 4: the
  long walks meet it, the small ones do not. The reply set has a choice that is sure, one
  that is not, and a noul without a confidence.
* `pool`: four clients and up to two items; so there may be two waiters behind two
  borrowers, an item may be missing altogether, and `Capacity` is met from both sides.
* `sessions`: three callers and three sessions, `Width` 4 in place of 2^64: as 2^64, it is
  not a multiple of the number of sessions. Every session can be poisoned.

* `systemone`: shares in hundredths with the tolerance at one of them, readings on both
  sides of each threshold and exactly within the tolerance, two valid configurations of
  the client (one with the hybrid energy rule), the server's (off), and one that is
  refused. Eight kinds of question: a single candidate, a cleaned candidate, a choice
  for the router, one to be screened, scores whose labels stay apart, collapse or vanish
  when cleaned, a noul. Requests have up to three questions, so that a chunk of two is
  followed by another one and router and batch share a request; limits are met by an
  empty request, four questions, and a flag for the sizes in bytes. `ScreenAbove`
  and `TopM` are 2 and there is one catch-all: a screening leaves candidates out. The
  thresholds of the router are 1 (with `auto_hierarchical`) and 2.
  `MaxLevels` and `BimodalLevels` are 3.
* `synthetic`: three texts, two of them similar, and one that is too short; five answers
  (a failed call, two good ones, one that repeats a text under another type, one that
  raises in the gate). Two tasks at a time, targets of 1 and 3 samples, two attempts in
  a run at most (`MaxAttempts`, an argument of `run`), two runs (`MaxRuns`, so one resumed or restarted)
  and one append that fails or is cut (`MaxFaults`): batches larger and smaller than
  what is missing, and a line that a resumed run meets garbled, broken, or whole without
  its newline.
* `samples`: seven sets of data sets that share corpora, of one or two rows per split with
  labels that are missing, out of range or given as names, and a synthetic file that can
  be decoded or not from any of its lines on; one epoch, batches of two,
  two samples per data set, a ratio of one half of which seven tenths are in domain.
  `MCShuffle` holds the turns of one to five places and of their reversal, which moves every
  label to every place.
* `training`: two jobs (`MaxJobs`), so that a job of any kind follows a killed or finished
  one; 0 to 3 batches accumulated by 1 or 2, 0 to 5 epochs, patience none, 0, 1 and 2,
  two scores and NaN. Longer runs and any number of jobs are the theorems' affair.
* `release`: three jobs (`MaxJobs`) over checkpoints of two trainings (`MaxTrained`), so that
  a bundle can be exported, exported over and quantised; two validation sets at the
  boundaries of all buckets and gates, two graphs, four requests. `Parts` is a common
  multiple of the numbers of options, so that chance is an integer.
* `hierarchy`: a preset of two categories and one of three, every single mistake that
  `validate` refuses, three edits it does not look at, corpora of none to four rows,
  batches of two, two epochs, at most three fine candidates (`MaxFine`). `MCShuffle` holds the
  turns of one to four places and of their reversal, which moves every option to every place.

## 5. Fairness

* Validator: `WF_validatorVars(ValidatorNext)`. A sequential function runs on.
* Executor: `WF_vars(Run)`, since tokio polls a walk that can go on, and
  `WF_vars(Timeout)`, since the timer fires; the deadline can take effect only at an
  await. There is no fairness on `TaskEnds`: the engine may hang.
* Resource pool: `WF_vars(Proceed(c))` per client: woken futures are polled and guards are
  dropped in the end. Nobody has to call `acquire`, no deadline has to pass. That waiters
  are served then follows from the order of the semaphore, which tokio documents.
* Session pool: `WF_sessionVars(GoOn(c))` per caller: threads are scheduled and runs end.
  std's mutexes are not fair, so a caller in `lock` has no claim against others that
  keep coming; `QuietPoolDrains` therefore only speaks of behaviours in which calls stop.

* `/systemone`: none. Unlike a walk this path has no deadline, and its blocking task may
  wait for a session for as long as others keep taking it (section 8): nothing in the code
  guarantees a reply, and `SystemOne` claims none.
* Synthetic pipeline: weak fairness of the reading back (`LoadLine`, `LoadFails`, `Resume`), of the loop
  (`NextBatch`, `Return`, `Abort`) and of each task: reading a file goes on, asyncio
  runs what is ready, and a call of a model answers or raises. Of the two clients there are,
  the mock answers at once and `HttpLLMClient` always raises, as it has no network code yet.
  For a client that does have some (`"llm"` in the model) this is an assumption:
  `timeout_seconds` (`data/synthetic/client.py:255-272`, `config.py:89`) is stored and never used, so it
  rests on the timeout of whatever library makes the call. Nobody has to start the program,
  kill it or let a write fail.
* `Samples`, `Training`, `Release` and `Hierarchy` state safety only: they are sequential
  programs that may be killed at any step, or whose loops are bounded by their data.

## 6. Proofs

All are checked by TLAPS for every value of the constants, under the assumptions the
modules name. Invariants are stated in parts, `IInv` is their conjunction, and every proof
that a step preserves it has one lemma or step per action.

### What is assumed

TLC evaluates each of these in the runs.

* The graphs: `NoNode \notin NodeId`; rules lead to identifiers (`ConditionAssumption`); the
  definitions given are definitions (`DagsAssumption`, the type a request is parsed into:
  `IsDag` says nothing about its being sensible, but that it has finitely many nodes);
  `MaxSteps \in Nat`; replies are answers (`ReplyAssumption`). For the rules: numbers are
  integers (they are scaled, see section 2), and an answer is of one kind, as the schema has it
  (`NumbersAssumption`, `AnswersAssumption`).
* The server: finite sets of clients and items; a pool size in `Nat` and a counter of at least
  one value; requests of questions with known labels, shares between 0 and `Unit`, number
  labels that differ from each other.
* The training programs: options in the numbers that `sample_num_options` can draw
  (`OptionCount` within 2 to 16, for scores 2 to 10), at least one task at a time
  (`SyntheticPipeline`); ontologies whose lists are sequences of keys, a split of at most one and
  batches of at least one sample (`Hierarchy`); configurations with batches, epochs and patience
  in `Nat` and at least one accumulated batch, scores in `Nat`, NaN no integer (`Training`);
  corpora whose rows are rows, of any number and with any labels, lines of the synthetic file
  that offer no option twice (they are keys of a JSON object), lengths and markers of texts in
  `Nat` (`CorpusAssumption`), a share of negatives below one and batches of at least one sample
  (`SampleConstants`; a ratio of one divides by zero in `inject`) (`Samples`);
  graphs whose edges stay within their nodes, samples with as many options as `data/schema.py`
  and `data/formatter.py` let a sample of their type have (`SamplesAssumption`), scenarios
  whose readings the formulas of the confidence can give (`ScenariosAssumption`) (`Release`).

### The server

* **`DagProofs`, the validator.** `ValidatorTypes`, `AcceptsWellFormed`, `AcceptsAcyclic`,
  `ReportsRealCycles`, `BoundsRecursion`, `WarnsUnreachable`, `DecidesWhatCanBeWalked`, and the
  conjunction `VerdictsAreRight`. The lemmas about graphs come first: the adjacency lists of the
  validator, which leave out the edge from a Parallel node to its join, have the same cycles
  and reach the same nodes as the edges the executor follows. `Acyclic` is stated without
  paths (every non-empty set of nodes has one with no successor in it), which needs no
  induction over sequences. The invariant says what the
  colours mean: the grey nodes are the path stack, each once, each a neighbour of the one
  below; black nodes lead to black nodes only and hold no cycle. Acyclicity of the black
  nodes alone is not inductive, since nothing would be known of the neighbours of a node
  that turns black.
  That the verdict is exactly `ValidDag` joins both directions: what is accepted can be
  walked, and what is rejected has an error or a cycle to show.
* **`DagProofs`, the executor.** `ExecutorTypeOK`, `NeverRevisits`, `PathIsFollowed`,
  `RecordsAreThePath`, `NeverOverwrites`, `EscalationIsExplained`, `LimitIsNotSpurious`,
  `LimitIsExact`, their conjunction `RunsAreAccountedFor`, and `ExecutorImplementsWalk`, the
  refinement of `DagWalk`. It begins with what an accepted definition gives the walk: no
  dangling reference, and an edge for every node it may go to. The heart of the invariant is `Ordered`: the node the walk is at comes later, in the order
  of the acyclic definition, than every node recorded. This is what forbids revisits and
  overwriting, and it has to speak of records and not of the path, because tasks are
  recorded without being visited. `RulesAreDecisive` is about the rules alone, over
  unbounded numbers and any texts; its two halves are that a rule and its negation are
  never both true nor both false, and that looking an answer up in the context gives what the
  answer itself gave. Rules with `In` have no negation in the schema.
* **`PoolProofs`.** Of the resource pool: `PoolTypeOK`, `PoolLosesNothing`, `PermitMeansItem`,
  `PermitsMatchItems`, `PoolImplementsLoans`. That permits and items are equal in
  number is never true in between; the invariant counts the clients in transit: items in the
  queue = free permits + clients with a permit and without an item. Of the session pool:
  `SessionIndices`, `NoSessionIsLost`, `PoisonedNeverRuns`, `NoGuardIsIdle`,
  `SessionPoolImplementsLoans`. Mutex and guard are two records of one fact; the invariant
  is that they agree, that no two callers have one session, and that only callers at
  work have any. The last is what makes `PoisonedIsNotRun` inductive: a panic poisons a
  session that nobody else has.
* **`SystemOneProofs`.** `ConfidenceNeverHarms` is about the rules alone: of two readings
  of a question that differ in the confidence, the more confident one is not gated more
  strictly by any configuration that passes validation. Of the handler:
  `SystemOneTypeOK`, `NoQuestionIsLost`, `AutomaticMeansJustified`, `VerdictIsWorst`, their
  conjunction `RepliesAreRight`, `RoutesOnlyGoDown` and `TermsOfTheClient`, for any requests,
  labels, cleaning functions, sizes and thresholds.
  The invariant has six parts: the types; what the guardrails prepared (`Prepared`); who
  owes an answer to which question at each phase (`Owed`: the router's first, then what is
  left of the batch, then nobody); that answers fit the type of their question and an
  `auto` was justified when it was given (`Sound`); what is gated when, with no
  bimodal `auto` left once the guardrails are through (`Gates`: screened answers are
  not gated until the batch is over); and in which terms an answer stands at each phase
  (`Terms`: over what the screening kept, then over all options, then over the labels of the
  client). No property is inductive alone: that no
  question is lost needs to know that the two ways split the request, that an
  `auto` is justified must hold of answers long before the reply, and that a label comes back
  as it was sent needs what every step since the cleaning did to it.

### The training programs

* **`SyntheticProofs`.** `TypesHold`, `AccountsBalance`, `FilesAgree`, `ResumesWithAll` and
  `StoreRefinement`, the refinement of `SampleStore` over all runs, kills and resumes. Between
  the check of the index and the append lie awaits, so that the file alone says nothing about
  which text may be written next. The invariant says which texts are spoken for: the index holds those of
  the samples written and of the samples under validation (`Known`), and the latter are
  unlike the former and unlike each other (`AllApart`); while a file is read back, the index is
  what the lines read so far hold (`Resuming`). That a batch never writes more than is
  wanted counts the tasks of a batch by their stage (`Budget`). That the files agree within
  two samples per fault is a sum of two numbers, neither of which is bounded so: a
  write that is cut may spoil a sample at once, or leave an open line that spoils the
  next one, so `Trouble` counts the samples in one place only and the lines left open. That
  only the last sample of an open file is ever lost needs no line before it to hold the same
  sample (`LooseOnce`), which ids and texts give. Only what a process read itself tells it
  that a file is readable, so that a broken line in the file of a running process is the work
  of one of its own tasks.
* **`SamplesProofs`.** `SamplesTypes`, `RowsHeldOut`, `InjectionExact`, `LabelsFollow` and
  `EvaluationSound`, for any corpora, files, intents, texts, bounds, answers and any set of
  orders the generators may draw. `HeldOut` speaks of the moment training begins; the
  invariant (`Collected`) says from the first row on where each list takes its rows from:
  training rows from a split named train or from lines that are not held out, validation
  rows from the other splits or the lines that are, whichever data sets share them. This has
  to be shown converter by converter (`ConvertedFacts`), together with the contract of the
  sample each one makes (`Good`), which everything after relies on. The injection moves and
  copies samples: picking places of a list and joining lists keep how often a value is held
  (`PickedCount`, `ConcatCount`, `AroundCount`), so the mixed list holds each sample as
  often as before. The batch is tied to the list by position (`Batched`), so a label points
  at the answer of its own sample and an evaluation, which has no marked sample, counts none
  (`Counted`). A batch of answers is counted by a recursive function, of which the prover
  knows no induction: the first place where the counters went wrong would be a least number,
  and there is none (`LeastNumber`, `UpdateStep`). The composite metric needs the bounds of
  its shares and of what rounding adds to them, twice (`CompositeFacts`), the position bias
  that a shuffle of distinct options differs from their order exactly if one of them has
  moved (`DeltaFacts`).
* **`HierarchyProofs`.** `HierarchyTypeOK`, `ValidatedPartition`, `EveryPairIsRight`,
  `ItemsStayRight`, `HitsAreWithinBeam`, for any ontologies, corpora, bounds and any set of orders
  the generator may draw. The invariant
  links the phases: what validation left (`Mapped`), which pair belongs to which sample
  (`PairedInOrder`), where the noted parents come from (`ParentsNoted`), what a verdict may
  count (`Labelled`, `Counted`). For the items `Fitting` adds that options are keys of
  the ontology (`PairsListed`) and that labels and parents of an item belong to its own
  order (`ItemsFit`); that the loss counts each option once then compares two ways of counting
  them by a bijection. The filter of a sequence is an operator of the model (`Only`), because
  the prover knows no definition of `SelectSeq`.
* **`TrainingProofs`.** `TrainingTypeOK`, `KeepsTheBest`, `AppliesGradients`, `StopsInTime` and
  `NeverWithoutCheckpoint`, for any configurations and any number of jobs and kills.
  `BestIsBest` only speaks of what is on the disk once nothing is left to write; the
  invariant (`Pending`) says that until then the model of the best epoch is on the disk or
  waits in `todo`, and that no other is about to be written in its place. `Applied` counts
  windows: within an epoch there is a number `k` of whole windows with
  `k * accum + window = batch`, which bounds the steps from above by
  `batches \div accum + 1` per epoch; the products are kept out of the way by stating the
  step of a batch for opaque numbers (`OneBatch`). `Patient` says which epochs the counter
  stands for: the last `waited` ones brought nothing, the one before them did.
  `KeepsACheckpoint` needs to know in which of its ten writes a run is (`Saving`: what is
  to be written is the end of the sequence `Writes`, best is written while latest is whole,
  or while there is none at all, latest while best is whole) and that later jobs have
  no checkpoint yet (`Fresh`).
* **`ReleaseProofs`.** `ReleaseTypeOK`, `ZeroMeansOneJob`, `HeadsAreLeftAlone`, `TemperaturesServe`,
  `FixturesAgree`, for any number of jobs, checkpoints and kills. That a job which ends well
  leaves one bundle is not inductive, as it says nothing until the end: the invariant
  (`Sealing`) says at each phase that every file of the list of the job is written or is
  still to be written (`Owed`) and that what the phase relies on, the model first of
  all, is still the one this job made. The walk over the graph keeps what it came across closed
  (`Walked`): whatever feeds an excluded node is excluded, queued, or of the backbone; with
  an empty queue this is one of the closed sets that define what lies upstream of the
  logits. The temperatures need no invariant but the types: a number of options has one
  place in the buckets of its type (`Place`), on which the collecting and the reading side
  agree, and the samples of the buckets are counted by a bijection with those collected.


## 7. Only model-checked

* Liveness (`ValidationReturns`, `EventuallyReturns` of the executor and of the pipeline,
  `EveryWaiterServed`, `QuietPoolDrains`), which is out of the prover's reach.
  The abstract specifications state no fairness, so the refinements are theorems as they are.
* `OnlyOthersSuppressed`, which is false (section 8).

Every invariant and every action property of the passing runs is a theorem, and so are the
four refinements. What the proofs leave to TLC besides liveness is that the models can do
what they are about: that the phases are reached and every action and disjunct fires.


## 8. Where the code and its words differ

One run checks a sentence of the repository and finds it violated.

* `hierarchy_parents`: `hierarchical_loss.py:140` says that only candidates outside the right
  category are suppressed, and `hierarchical_dataset.py:5-6` that the indices of
  parents and children agree. The parents of the fine candidates are numbered in the order
  of the ontology (`hierarchical_dataset.py:366-368`), the label and the logits of the
  categories follow the shuffled prompt (414-422), and the loss compares one with the other.
  The run shows a batch in which candidates of the right category, the answer among them,
  are suppressed.

Observed on the way, without a run of their own. In the server:

* `validator.rs:4` says unreachable nodes are verified fail-fast and an error
  `UnreachableNodes` exists; the code logs them and accepts (this is the exact warning that
  `VerdictIsRight` states).
* The schema gives the six operators one meaning each; on `node.confidence` only `gte`,
  `lt` and the two confidence forms are ever true.
* `executor.rs:40-41` has `StepLimitExceeded` for a number of steps that went beyond the limit. A
  walk that is over in exactly `max_steps` steps is reported so too, and its result is lost: the
  test after the loop (388) is `step_count >= max_steps` (`LimitIsReached`, a part of
  `RunIsAccountedFor`, states what the code does).
* `final_answer` is documented as the result of the last inference node; a Parallel step
  does not touch it, so it may be older, or absent. A Branch or an Escalate after it looks
  at the same stale answer.
* `docs/api/systemone.md:72` and `GatingConfig` say that an energy above the threshold falls
  back; the router computes the energy and decides without it.
* Levels that share a label are numbered so that each keeps its probability
  (`decision.rs:123`); putting the labels of the client back loses one.

* `available()` of the resource pool is documented as the number of items in the queue;
  a pool made of no items has one permit and says 1.
* `energy_temperature` of a request is not used (`runtime/engine/gating.rs:62-70`;
  `docs/api/systemone.md:73` offers it).
* The router attaches gating metadata although gating is disabled, may choose a
  candidate of the mapping that the client did not offer, and says "confirm" on its early
  exit even when the confidence is below the low threshold. Its answers and
  demoted ones carry no escalation context.
* With the default thresholds no bimodal score is ever `auto` before its demotion: the
  same variance that makes it bimodal keeps its confidence below 0.65, and `auto` asks for
  0.70. The model's lenient configuration makes the demotion matter.
* The header of `core/gating.rs` (lines 7-9) names 0.85 and 0.50; the defaults are 0.70 and
  0.35.
* Candidates of a choice that are equal once cleaned become one, and the keys
  of a choice, unlike the labels of a score, are not put back.
* A three-way split by `lt`, `eq`, `gt` has a gap at a distance of exactly the tolerance
  (`|x - y| = 1e-6` is neither equal nor beyond), where the walk just ends.
* A rule on the confidence of a noul answer compares 0.0.
* A caller of the engine that found no free session waits for the one its scan began
  with, even when another becomes free meanwhile; the scan is not atomic, so it can come
  to this although the sessions were never all busy at one time.
* A poisoned session refuses the callers that wait for it, although healthy ones may
  be free; `/ready` does not notice when all are poisoned.

In the training programs:

* An append that is cut just before its newline (`data/synthetic/pipeline.py:152-154`) leaves a sample that the
  next run reads back and counts, and that its first append then destroys: `SampleStore` has
  a step for it, `Spoil`.
* Lines are written with `ensure_ascii=False`, so that a cut may leave half of a character. The
  iteration over the file then raises `UnicodeDecodeError` outside the `try` of the loop
  (`pipeline.py:117-122`): every later resume ends there, and so does the reading of the data
  set (`data/converters/synthetic.py:84-90`).
* An exit code of zero of `run_export` does not mean that the checkpoint was loaded whole
  (`export/run_export.py:172-176` only warns of keys that are missing or unexpected, and a partly
  random model agrees with its own export), nor that `calibration.json` can be read or was
  fitted on this model (the file found is copied as it is, `bundle.py:104-105`). And where
  `bundle.py:69` says that the defaults are made when no calibration was specified, they are
  made as well when `--calibration` names a file that does not exist (`bundle.py:104-112`;
  nothing in `run_export.py:220-232` looks).
* A composite metric of 1.0 does not mean that every answer was right: `metrics.py:190` and `239`
  round to four digits: one wrong noul of 6700 gives a share of 0.9999, and with it 1.0.
* `eval_metric` may be `"loss"` (`training/config.py:43`), but every metric is maximised: the
  epoch with the highest loss would be kept.
* An RLCD checkpoint has no `config.json` and its weights are inside a record
  (`rlcd_trainer.py`), so the command of `docs/training/calibration.md:157-160` cannot load
  it, and RLCD cannot go on from its own checkpoint. `docs/training/rlcd.md:120` reads
  `runs/sft_tier2/best_checkpoint`, a path no program writes.
* The confusion matrix of negatives takes the last option of any question, scores and nouls
  included, for "none of the above" (`metrics.py:154-165`); a validation set never has
  negatives, so there its true positives are 0 by construction (`CountersAddUp`).
* `hierarchical_trainer.py:369-376` says that `evaluate` follows the flow of the server; the
  fine pass shows the candidates of the pair, not those of the selected categories.
* When the split leaves no training sample, `run_hierarchical_sft.py:249-262` generates
  samples and both trains and evaluates on them; the split itself is by position.
* Whether a synthetic line is held out is decided by `hash(sample_id)`
  (`synthetic.py:106`), which Python draws anew for each process: two processes
  disagree about it. `HeldOut` is about one.
* The window of confidences from 0.75 to 0.85 that the calibration reports is the one bin
  that begins at 0.8 (`optimizer.py:597-607`); the artefacts named in section 5.1 of the calibration
  page are not all written; `run_export` looks for checkpoints in `runs/{sft,smoke_test,rlcd}`
  only; the upload does not look at `parity_passed`.

## 9. Not modelled

* Softmax, entropies, variances, calibration: floating-point functions without state.
* In `SystemOne`: token counts, metrics, reasons and prompts; the switches of the guardrails
  and of the early exit (on by default); the scores of the screening and the coarse
  question of the router, which are choices of the model; padding and the place of
  logits in a batch; the reply of a panic that is caught, beyond its status.
* Prompt texts, escalation texts, sanitising, compaction: only their effect on control
  matters to the models; those with an effect are in the plan.
* Loading of models and tokenizers, configuration, metrics, API description, command
  line: done once, or pure I/O.
* Of the training programs: the tensors (models, losses, rewards, scoring: functions whose
  results are choices here), the search for a temperature, the metrics of the
  calibration, benchmarks and reports, wording of prompts, tokenisation beyond whether an
  item fits, sampling of the taxonomy and of the operators that evolve a seed, learning
  rates beyond the group of a parameter. Two programs that write to one directory at
  the same time: nothing in the repository starts them so.
* Packaging, scripts and documentation: no control logic.
* What `spawn_blocking` does when its threads are exhausted: tokio queues tasks; for the
  executor this is a task that runs longer.

## 10. Plan

Done, in this order: `DagGraph`, `DagValidator`, `DagCondition`, `DagWalk`, `DagExecutor`,
`PoolLoans`, `ResourcePool`, `SessionPool`, `Gating`, `SystemOne`, with their runs and
proofs; `SampleStore`, `SyntheticPipeline`, `Metrics`, `Samples`, `Training`, `Calibration`,
`Release`, `Hierarchy`, with their runs; the proofs of `Hierarchy` and `Training`; then those
of `DagRules`, of the terms of the replies, of the items of the batches, of
`SyntheticPipeline` and of `Release`; last those of `Samples` and `Metrics`, and that validator
and executor speak of the same definitions.

Of what is not modelled yet, by weight:

1. **DagServing**: requests with deadlines over tasks that use `SessionPool`: what a request
   that timed out leaves behind, one reply per request with the status of
   its cause (`server/handlers/dag.rs`), `/systemone` beside it without a deadline, and
   readiness when sessions are poisoned (`server/state.rs`). Abstract
   specification: one reply per request, sessions return.
2. **CoarseFilter**: `filter_top_candidates` with its quick-select as a choice, against "the
   `top_m` best in order, catch-alls kept"; up to five candidates with scores that tie.
   `Screenings` of `SystemOne` is what it has to implement.
3. **BatchEvaluation**: padding, buckets and the way back of the logits, with a chunk that
   fails; theorem: every question gets its own row.
4. **HierarchicalRouter**: the coarse question, soft beam and catch-all bias behind
   `RouterAnswers`.
5. **Limits** of the guardrails against the text they append, and **Interpolation** of
   placeholders.

The small modules (2, 3, 5) can share a run each with what they refine. Theorems worth
proving there: the refinement of the serving path, the row lemma of the batches, the size
and the order of the coarse filter.

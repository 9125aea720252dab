--------------------------- MODULE SyntheticPipeline ---------------------------
(***************************************************************************)
(* The generator of synthetic samples (train/data/synthetic): batches of   *)
(* asyncio tasks, each of which asks a model for a sample, passes it       *)
(* through three quality gates and appends it to JSONL files, from which   *)
(* a later run resumes.                                                    *)
(*                                                                         *)
(* A text is a model value with a length; which texts the deduplicator     *)
(* takes for the same is a relation.  A line of a file is a sample, is     *)
(* garbled, or is broken: the file cannot even be decoded there.  Wording, *)
(* domains, rationales and metrics are left out.                           *)
(***************************************************************************)
EXTENDS Integers, Sequences, FiniteSets, Functions

CONSTANTS Text,             \* states (situations) a model may write
          StateLength,      \* their lengths
          Similar,          \* pairs of cosine similarity >= similarity_threshold
          Key,              \* criteria keys and answers
          Lower,            \* str.lower of them
          OptionCount,      \* values of sample_num_options, by type
          Answers,          \* raw answers of a model behind BaseLLMClient
          SpecTypes,        \* types whose ratio in the configuration is not 0
          MinState, MaxState,   \* QualityFilterConfig
          RequireHardNegative,
          MaxConcurrency,
          Targets,          \* values of total_target_samples
          MaxAttempts,      \* argument of run, 0: none
          MaxRuns,          \* bound: starts of the program
          MaxFaults         \* bound: writes that are cut short

Types == {"choice", "score", "noul"}   \* QuestionType
ActionKey == <<"action_a", "action_b", "action_c", "action_d", "action_e", "action_f",
               "action_g", "action_h", "action_i", "action_j", "action_k", "action_l",
               "action_m", "action_n", "action_o", "action_p">>
LevelKey == <<"0", "1", "2", "3", "4", "5", "6", "7", "8", "9">>
Failed == [fails |-> TRUE]             \* a call that raises
Garbled == [garbled |-> TRUE]          \* a line json.loads refuses
Broken == [broken |-> TRUE]            \* a line with half of a multi-byte character
Pieces == {Garbled, Broken}
NoSample == [none |-> TRUE]

\* criteria: the keys in their order, or <<>>; mapping: whether dict() takes it.
Raw == [state : Text, instructions : BOOLEAN, type : Types \cup {"other"},
        mapping : BOOLEAN, criteria : Seq(Key), tooLong : BOOLEAN,
        hardNegative : BOOLEAN, target : Key]
Sample == [id : Types \X Nat, type : Types, state : Text, criteria : Seq(Key), target : Key]

ASSUME TextAssumption ==
  /\ StateLength \in [Text -> Nat]
  /\ Similar \subseteq Text \X Text
  /\ \A t \in Text : <<t, t>> \in Similar
  /\ \A p \in Similar : <<p[2], p[1]>> \in Similar
ASSUME AnswerAssumption ==
  /\ Lower \in [Key -> Key]
  /\ {"true", "false"} \cup Range(ActionKey) \cup Range(LevelKey) \subseteq Key
  /\ OptionCount \in [Types -> SUBSET (2..16)]
  /\ OptionCount["score"] \subseteq 2..10
  /\ Answers \subseteq Raw \cup {Failed}
  /\ SpecTypes \subseteq Types
ASSUME ConfigAssumption ==
  /\ {MinState, MaxState, MaxAttempts, MaxRuns, MaxFaults} \subseteq Nat
  /\ MaxConcurrency \in Nat \ {0}
  /\ Targets \subseteq Nat \ {0}
  /\ RequireHardNegative \in BOOLEAN

VARIABLES
  phase,      \* of the process
  client,     \* the LLM clients it was started with
  target,     \* targets of run
  loaded,     \* lines of synthetic_all.jsonl read back by a resume
  existing,   \* existing_ids
  base,       \* current_valid_count
  seqIdx,     \* seq_idx
  index,      \* texts in the deduplicator
  tasks,      \* the coroutines of the batch
  stats,      \* PipelineStatistics
  dead,       \* lines this process appended to dead_letter.jsonl
  allFile,    \* synthetic_all.jsonl
  typeFile,   \* synthetic_choice.jsonl, _score and _noul
  runs, faults

volatile == <<client, target, loaded, existing, base, seqIdx, index, tasks, stats, dead>>
files == <<allFile, typeFile>>
vars == <<phase, volatile, files, runs, faults>>

-----------------------------------------------------------------------------
\* The contract of a sample and the gates.

\* UnifiedSample.__post_init__; lower-casing of the answers of a Noul only.
KeepsContract(type, criteria, answer) ==
  CASE type = "choice" -> criteria # <<>> => answer \in Range(criteria)
    [] type = "noul"   -> Lower[answer] \in {"true", "false"}
    [] type = "score"  -> /\ Len(criteria) \in 2..10
                          /\ criteria = SubSeq(LevelKey, 1, Len(criteria))
                          /\ answer \in Range(criteria)

\* What validate_gate1_schema looks at before it turns the criteria into a dict.
HasShape(raw) ==
  /\ StateLength[raw.state] \in MinState..MaxState
  /\ raw.instructions
  /\ raw.type \in Types

PassesGate1(raw) ==
  /\ HasShape(raw)
  /\ raw.mapping
  /\ ~raw.tooLong
  /\ (raw.type = "choice" /\ RequireHardNegative) => raw.hardNegative
  /\ KeepsContract(raw.type, raw.criteria, raw.target)

\* dict() on anything else raises outside every try of the gate.
Gate1Raises(raw) == HasShape(raw) /\ ~raw.mapping

SampleOf(id, raw) ==
  [id |-> id, type |-> raw.type, state |-> raw.state,
   criteria |-> raw.criteria, target |-> raw.target]

\* TextEmbeddingDeduplicator.is_duplicate against the texts of the index.
IsDuplicate(known, text) == \E t \in known : <<text, t>> \in Similar

\* validate_gate3_cross_validation; an exception of the client counts as a no.
Agrees(verdict, sample) ==
  /\ verdict # Failed
  /\ ~verdict.ambiguous
  /\ Lower[verdict.predicted] = Lower[sample.target]

-----------------------------------------------------------------------------
\* The clients.

\* MockLLMClient: one answer by type and number of options, and a validator
\* that reads the answer off the prompt.
MockCriteria(type, n) ==
  CASE type = "choice" -> SubSeq(ActionKey, 1, n)
    [] type = "score"  -> SubSeq(LevelKey, 1, n)
    [] type = "noul"   -> <<>>

MockAnswer(type, n, text) ==
  [state |-> text, instructions |-> TRUE, type |-> type, mapping |-> TRUE,
   criteria |-> MockCriteria(type, n), tooLong |-> FALSE,
   hardNegative |-> type = "choice",
   target |-> CASE type = "choice" -> "action_a"
                [] type = "score"  -> LevelKey[1 + (IF n - 1 < 2 THEN n - 1 ELSE 2)]
                [] type = "noul"   -> "false"]

MockVerdict(sample) ==
  [ambiguous |-> FALSE,
   predicted |-> IF "action_a" \in Range(sample.criteria) THEN "action_a"
                 ELSE IF "2" \in Range(sample.criteria) THEN "2"
                 ELSE IF "0" \in Range(sample.criteria) THEN "0" ELSE "false"]

\* HttpLLMClient: _post_chat has no network code yet and always raises.
AnswersOf(c, type) ==
  CASE c = "mock" -> {MockAnswer(type, n, t) : n \in OptionCount[type], t \in Text}
    [] c = "http" -> {Failed}
    [] c = "llm"  -> Answers

VerdictsOf(c, sample) ==
  CASE c = "mock" -> {MockVerdict(sample)}
    [] c = "http" -> {Failed}
    [] c = "llm"  -> {Failed} \cup [ambiguous : BOOLEAN, predicted : {sample.target, "other"}]

-----------------------------------------------------------------------------
\* Files.  open: the last line has no newline.

EmptyFile == [lines |-> <<>>, open |-> FALSE]

\* A piece that sticks to the end of a line without a newline makes no sample
\* of it, and half of a character stays half of one.
Joined(end, piece) == IF Broken \in {end, piece} THEN Broken ELSE Garbled

\* What a write leaves: a line of its own, unless the last one is open.
Put(file, piece, open) ==
  [lines |-> IF file.open THEN [file.lines EXCEPT ![Len(file.lines)] = Joined(@, piece)]
             ELSE Append(file.lines, piece),
   open |-> open]

\* _append_to_jsonl
Appended(file, s) == Put(file, s, FALSE)

\* What it may leave when it is cut short: nothing, a part of the line, which
\* may end inside a character, or the line without its newline.
Torn(file, s) == {file} \cup {Put(file, piece, TRUE) : piece \in Pieces \cup {s}}

Intact(file) == Range(file.lines) \ Pieces

-----------------------------------------------------------------------------
NoStats == [attempted |-> 0, passed |-> 0,
            gate |-> [g \in 1..3 |-> 0], count |-> [t \in Types |-> 0]]

Idle(p) ==
  /\ phase' = p
  /\ client' = "mock" /\ target' = 1
  /\ loaded' = 0 /\ existing' = {} /\ base' = 0 /\ seqIdx' = 0 /\ index' = {}
  /\ tasks' = <<>> /\ stats' = NoStats /\ dead' = 0

Init ==
  /\ phase = "down"
  /\ client = "mock" /\ target = 1
  /\ loaded = 0 /\ existing = {} /\ base = 0 /\ seqIdx = 0 /\ index = {}
  /\ tasks = <<>> /\ stats = NoStats /\ dead = 0
  /\ allFile = EmptyFile
  /\ typeFile = [t \in Types |-> EmptyFile]
  /\ runs = 0 /\ faults = 0

AttemptsLimit == IF MaxAttempts # 0 THEN MaxAttempts ELSE 3 * target

AtWork == phase \in {"loading", "running"}

\* main_async and the head of run: options, clients.
Start ==
  /\ ~AtWork /\ runs < MaxRuns
  /\ phase' = "loading" /\ runs' = runs + 1
  /\ client' \in {"mock", "http", "llm"}
  /\ target' \in Targets
  /\ UNCHANGED <<loaded, existing, base, seqIdx, index, tasks, stats, dead, files, faults>>

\* Mutation of LoadLine: the index is not filled on a resume.
LoadLineIdOnly ==
  /\ phase = "loading" /\ loaded < Len(allFile.lines)
  /\ loaded' = loaded + 1
  /\ LET line == allFile.lines[loaded + 1] IN
     /\ line # Broken
     /\ existing' = IF line = Garbled THEN existing ELSE existing \cup {line.id}
  /\ UNCHANGED <<phase, client, target, base, seqIdx, index, tasks, stats, dead, files, runs, faults>>

\* The loop of load_existing_sample_ids: an id and, unless it looks like one
\* that is there, a text; a line json.loads refuses is passed over.
LoadLine ==
  /\ phase = "loading" /\ loaded < Len(allFile.lines)
  /\ loaded' = loaded + 1
  /\ LET line == allFile.lines[loaded + 1] IN
     \/ line = Garbled /\ UNCHANGED <<existing, index>>
     \/ /\ line \notin Pieces
        /\ existing' = existing \cup {line.id}
        /\ index' = IF IsDuplicate(index, line.state) THEN index ELSE index \cup {line.state}
  /\ UNCHANGED <<phase, client, target, base, seqIdx, tasks, stats, dead, files, runs, faults>>

\* Mutation of LoadFails: the line is passed over like one json.loads refuses.
LoadPassesOver ==
  /\ phase = "loading" /\ loaded < Len(allFile.lines)
  /\ allFile.lines[loaded + 1] = Broken
  /\ loaded' = loaded + 1
  /\ UNCHANGED <<phase, client, target, existing, base, seqIdx, index, tasks, stats, dead, files, runs, faults>>

\* The iteration over the file raises a UnicodeDecodeError, outside the try of
\* the loop; no line that was read before it outlives the process.
LoadFails ==
  /\ phase = "loading" /\ loaded < Len(allFile.lines)
  /\ allFile.lines[loaded + 1] = Broken
  /\ Idle("down")
  /\ UNCHANGED <<files, runs, faults>>

\* Mutation of Resume: the last index is used again.
ResumeOneEarly ==
  /\ phase = "loading" /\ loaded = Len(allFile.lines)
  /\ phase' = "running"
  /\ base' = Cardinality(existing) /\ seqIdx' = base' - 1
  /\ UNCHANGED <<client, target, loaded, existing, index, tasks, stats, dead, files, runs, faults>>

\* run goes on from what was found.
Resume ==
  /\ phase = "loading" /\ loaded = Len(allFile.lines)
  /\ phase' = "running"
  /\ base' = Cardinality(existing) /\ seqIdx' = base'
  /\ UNCHANGED <<client, target, loaded, existing, index, tasks, stats, dead, files, runs, faults>>

Finished(t) == tasks[t].stage = "done"
Wanted == target - (stats.passed + base)
MayAttempt == Wanted > 0 /\ stats.attempted < AttemptsLimit

BatchSize == IF 2 * MaxConcurrency < Wanted THEN 2 * MaxConcurrency ELSE Wanted

\* The loop of run: the seeds of a batch are drawn as its tasks start, all
\* before the first of them waits for a model.
NextBatch ==
  /\ phase = "running"
  /\ \A t \in DOMAIN tasks : Finished(t)
  /\ MayAttempt
  /\ \E drawn \in [1..BatchSize -> SpecTypes] :
       tasks' = [i \in 1..BatchSize |->
                  LET id == <<drawn[i], seqIdx + i - 1>> IN
                  [id |-> id, sample |-> NoSample,
                   stage |-> IF id \in existing THEN "done" ELSE "queued"]]
  /\ seqIdx' = seqIdx + BatchSize
  /\ UNCHANGED <<phase, client, target, loaded, existing, base, index, stats, dead, files, runs, faults>>

Return ==
  /\ phase = "running"
  /\ \A t \in DOMAIN tasks : Finished(t)
  /\ ~MayAttempt
  /\ Idle("returned")
  /\ UNCHANGED <<files, runs, faults>>

InStage(t, s) == phase = "running" /\ t \in DOMAIN tasks /\ tasks[t].stage = s

\* Mutation of Inside: the semaphore is not given back.
InsideForGood == {t \in DOMAIN tasks : tasks[t].stage # "queued"}

Inside == {t \in DOMAIN tasks : tasks[t].stage \in {"generating", "validating"}}

\* The semaphore lets its waiters in in their order.
Enter(t) ==
  /\ InStage(t, "queued")
  /\ \A u \in 1..(t - 1) : tasks[u].stage # "queued"
  /\ Cardinality(Inside) < MaxConcurrency
  /\ tasks' = [tasks EXCEPT ![t].stage = "generating"]
  /\ stats' = [stats EXCEPT !.attempted = @ + 1]
  /\ UNCHANGED <<phase, client, target, loaded, existing, base, seqIdx, index, dead, files, runs, faults>>

\* Mutation of Reject: a generation error leaves no dead letter.
RejectSilent(t, gate) ==
  /\ tasks' = [tasks EXCEPT ![t].stage = "done", ![t].sample = NoSample]
  /\ stats' = IF gate = 0 THEN stats ELSE [stats EXCEPT !.gate[gate] = @ + 1]
  /\ dead' = IF gate = 0 THEN dead ELSE dead + 1

\* persist_dead_letter: gate 0 is generation_error, which no statistic counts.
Reject(t, gate) ==
  /\ tasks' = [tasks EXCEPT ![t].stage = "done", ![t].sample = NoSample]
  /\ stats' = IF gate = 0 THEN stats ELSE [stats EXCEPT !.gate[gate] = @ + 1]
  /\ dead' = dead + 1

\* evolve_seed comes back; the first two gates follow without a wait.
Generated(t) ==
  /\ InStage(t, "generating")
  /\ \E raw \in AnswersOf(client, tasks[t].id[1]) :
       \/ raw = Failed /\ Reject(t, 0) /\ UNCHANGED index
       \/ /\ raw # Failed /\ Gate1Raises(raw)
          /\ tasks' = [tasks EXCEPT ![t].stage = "raised"]
          /\ UNCHANGED <<index, stats, dead>>
       \/ /\ raw # Failed /\ ~Gate1Raises(raw) /\ ~PassesGate1(raw)
          /\ Reject(t, 1) /\ UNCHANGED index
       \/ /\ raw # Failed /\ PassesGate1(raw) /\ IsDuplicate(index, raw.state)
          /\ Reject(t, 2) /\ UNCHANGED index
       \/ /\ raw # Failed /\ PassesGate1(raw) /\ ~IsDuplicate(index, raw.state)
          /\ index' = index \cup {raw.state}
          /\ tasks' = [tasks EXCEPT ![t].stage = "validating",
                                    ![t].sample = SampleOf(tasks[t].id, raw)]
          /\ UNCHANGED <<stats, dead>>
  /\ UNCHANGED <<phase, client, target, loaded, existing, base, seqIdx, files, runs, faults>>

\* Mutation of Persist: the answers of a Noul go to the common file only.
PersistNoNoul(t) ==
  LET s == tasks[t].sample IN
  /\ allFile' = Appended(allFile, s)
  /\ typeFile' = IF s.type = "noul" THEN typeFile
                 ELSE [typeFile EXCEPT ![s.type] = Appended(@, s)]
  /\ stats' = [stats EXCEPT !.passed = @ + 1, !.count[s.type] = @ + 1]

\* persist_sample, complete.
Persist(t) ==
  LET s == tasks[t].sample IN
  /\ allFile' = Appended(allFile, s)
  /\ typeFile' = [typeFile EXCEPT ![s.type] = Appended(@, s)]
  /\ stats' = [stats EXCEPT !.passed = @ + 1, !.count[s.type] = @ + 1]

\* validate_sample comes back.
Validated(t) ==
  /\ InStage(t, "validating")
  /\ \E v \in VerdictsOf(client, tasks[t].sample) :
       \/ /\ Agrees(v, tasks[t].sample)
          /\ Persist(t)
          /\ existing' = existing \cup {tasks[t].id}
          /\ tasks' = [tasks EXCEPT ![t].stage = "done", ![t].sample = NoSample]
          /\ UNCHANGED dead
       \/ /\ ~Agrees(v, tasks[t].sample)
          /\ Reject(t, 3)
          /\ UNCHANGED <<existing, files>>
  /\ UNCHANGED <<phase, client, target, loaded, base, seqIdx, index, runs, faults>>

\* One of the two appends of persist_sample raises (a full disk), before or
\* after part of the line is written.
PersistFails(t) ==
  /\ InStage(t, "validating") /\ faults < MaxFaults
  /\ LET s == tasks[t].sample IN
     /\ \E v \in VerdictsOf(client, s) : Agrees(v, s)
     /\ \/ allFile' \in Torn(allFile, s) /\ UNCHANGED typeFile
        \/ /\ allFile' = Appended(allFile, s)
           /\ \E file \in Torn(typeFile[s.type], s) : typeFile' = [typeFile EXCEPT ![s.type] = file]
  /\ tasks' = [tasks EXCEPT ![t].stage = "raised"]
  /\ faults' = faults + 1
  /\ UNCHANGED <<phase, client, target, loaded, existing, base, seqIdx, index, stats, dead, runs>>

\* gather passes the first exception on; asyncio.run cancels the other tasks.
Abort ==
  /\ phase = "running"
  /\ \E t \in DOMAIN tasks : tasks[t].stage = "raised"
  /\ Idle("down")
  /\ UNCHANGED <<files, runs, faults>>

\* The process is killed between two writes.
Kill ==
  /\ AtWork /\ runs < MaxRuns
  /\ Idle("down")
  /\ UNCHANGED <<files, runs, faults>>

TaskStep(t) == Enter(t) \/ Generated(t) \/ Validated(t)

Slot == 1..(2 * MaxConcurrency)

\* The program may be at rest for good: no one has to start it again.
Done == ~AtWork /\ runs = MaxRuns /\ UNCHANGED vars

Next ==
  \/ Start \/ LoadLine \/ LoadFails \/ Resume \/ NextBatch \/ Return \/ Abort \/ Kill \/ Done
  \/ \E t \in Slot : TaskStep(t) \/ PersistFails(t)

\* The event loop runs what is ready and the models answer or raise.
Spec ==
  /\ Init /\ [][Next]_vars
  /\ WF_vars(LoadLine) /\ WF_vars(LoadFails) /\ WF_vars(Resume)
  /\ WF_vars(NextBatch) /\ WF_vars(Return) /\ WF_vars(Abort)
  /\ \A t \in Slot : WF_vars(TaskStep(t))

-----------------------------------------------------------------------------
File == [lines : Seq(Sample \cup Pieces), open : BOOLEAN]

TypeOK ==
  /\ phase \in {"down", "loading", "running", "returned"}
  /\ client \in {"mock", "http", "llm"}
  /\ target \in Nat \ {0}
  /\ loaded \in 0..Len(allFile.lines)
  /\ existing \subseteq Types \X Nat
  /\ {base, seqIdx, dead, runs, faults} \subseteq Nat
  /\ index \subseteq Text
  /\ tasks \in Seq([id : Types \X Nat, sample : Sample \cup {NoSample},
                    stage : {"queued", "generating", "validating", "raised", "done"}])
  /\ stats \in [attempted : Nat, passed : Nat, gate : [1..3 -> Nat], count : [Types -> Nat]]
  /\ allFile \in File
  /\ typeFile \in [Types -> File]

\* However many tasks of a batch pass at once, and whatever was there before,
\* a run leaves no more samples than it was asked for (or than it found).
NeverOvershoots ==
  phase = "running" =>
    Cardinality(Intact(allFile)) <= (IF base > target THEN base ELSE target)

\* What run returns explains every attempt: it passed, it has a line among the
\* dead letters, or it is under way; no gate count exceeds those lines.
ExplainsAttempts ==
  LET underWay == {t \in DOMAIN tasks : tasks[t].stage \in {"generating", "validating", "raised"}}
  IN  /\ stats.attempted = stats.passed + dead + Cardinality(underWay)
      /\ stats.gate[1] + stats.gate[2] + stats.gate[3] <= dead
      /\ stats.passed = stats.count["choice"] + stats.count["score"] + stats.count["noul"]

\* pipeline.py:275-335: the counts account for every attempt, and the batches
\* sized by them leave no surplus in the file, resumed runs included.
Accounting == ExplainsAttempts /\ NeverOvershoots

\* The file by type holds what the common file holds, but for at most two
\* samples for each write that was cut short: its own and the one that stuck to it.
TypeFilesAgree ==
  LET inAll == Intact(allFile)
      byType == UNION {Intact(typeFile[t]) : t \in Types}
  IN  Cardinality((inAll \ byType) \cup (byType \ inAll)) <= 2 * faults

\* A process that runs its batches knows every sample of the file, its text
\* and its id, whichever run wrote it and whatever was cut short, and has read
\* the file to its end, unless one of its own tasks raised since: a resume that
\* cannot read the file does not go on without the rest of it.
KnowsTheFile ==
  LET raised == {tasks[t].id : t \in {u \in DOMAIN tasks : tasks[u].stage = "raised"}}
  IN  phase = "running" =>
        /\ \A s \in Intact(allFile) :
             IsDuplicate(index, s.state) /\ s.id \in existing \cup raised
        /\ Broken \in Range(allFile.lines) => raised # {}

-----------------------------------------------------------------------------
\* The abstract store: the readable samples of synthetic_all.jsonl, all runs
\* taken together, and the one of them that lacks its newline.
Loose(file) == IF file.open THEN {file.lines[Len(file.lines)]} \ Pieces ELSE {}
Store == INSTANCE SampleStore WITH store <- Intact(allFile), loose <- Loose(allFile)

\* Runs, crashes and resumed runs together only ever add a sample with a new
\* id whose text is similar to none that is there, and lose none, but for one
\* whose write was cut just before its newline: the next write takes it along.
ImplementsStore == Store!Spec

\* run returns (or the program dies): batches that skip what exists, reject
\* everything or fail cannot keep it going for ever.
EventuallyReturns == AtWork ~> ~AtWork
=============================================================================

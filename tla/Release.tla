-------------------------------- MODULE Release --------------------------------
(***************************************************************************)
(* From a checkpoint to a published model (train/calibration,              *)
(* train/export): the jobs that fit the temperatures, export a checkpoint  *)
(* to ONNX, quantise the export, upload the result, and compute the        *)
(* answers the tests of the server expect.  Jobs run one after the other   *)
(* over two directories; each may fail or be killed at any moment, also in *)
(* the middle of a write.  Training goes on beside them.                   *)
(*                                                                         *)
(* The content of a file is where it comes from; a graph of ONNX is its    *)
(* nodes and which of them are of the backbone.                            *)
(***************************************************************************)
EXTENDS Calibration, Integers

CONSTANTS
  Sources,     \* directories best_checkpoint, in the order of the search
  Samples,     \* sequences of samples a validation set may hold
  Nets,        \* ONNX graphs: nodes, inputs, backbone, named, matmul, logits
  Scenarios,   \* test_scenarios: questions and gating_config
  MaxJobs,     \* bound: jobs
  MaxTrained   \* bound: checkpoints written

Net == [nodes : SUBSET Nat, inputs : [Nat -> SUBSET Nat], backbone : SUBSET Nat,
        named : SUBSET Nat, matmul : SUBSET Nat, logits : Nat]

ASSUME ReleaseConstants ==
  /\ {MaxJobs, MaxTrained} \subseteq Nat
  /\ \A net \in Nets :
       /\ net.logits \in net.nodes /\ DOMAIN net.inputs = net.nodes
       /\ net.backbone \cup net.named \cup net.matmul \subseteq net.nodes
       /\ \A n \in net.nodes : net.inputs[n] \subseteq net.nodes

\* data/schema.py and data/formatter.py refuse any other sample.
ASSUME SamplesAssumption ==
  /\ Samples \subseteq Seq(Item)
  /\ \A items \in Samples : \A i \in DOMAIN items :
       /\ items[i].type = "noul" => items[i].count = 2
       /\ items[i].type = "score" => items[i].count \in 2..10

\* Readings that the formulas of the confidence can give.
Question == [type : Types, count : Nat \ {0}, reading : Reading]

ASSUME ScenariosAssumption ==
  \A s \in Scenarios :
    /\ s.gating \in GatingConfig
    /\ s.questions \in Seq(Question)
    /\ \A i \in DOMAIN s.questions :
         Possible(s.questions[i].type, s.questions[i].reading)

VARIABLES
  trained,    \* the weights in each checkpoint directory, 0: none yet
  trainings,  \* checkpoints written
  saved,      \* calibration.json files of the runs, the latest last
  disk,       \* models/default and models/quantized
  hub,        \* the files of the repository, and its tags
  jobs, kind, args, pc, exit,
  todo,       \* files the job is about to write, in their order
  walk,       \* of find_nodes_to_exclude
  fixture     \* e2e_parity_fixtures.json

vars == <<trained, trainings, saved, disk, hub, jobs, kind, args, pc, exit, todo, walk, fixture>>
outside == <<trained, trainings, saved>>

-----------------------------------------------------------------------------
\* Files.

\* job: that wrote it; of: the weights it is about; ok: parity, as it is (model)
\* or as it is told (metadata).
Content(as, job, of, ok) == [as |-> as, job |-> job, of |-> of, ok |-> ok]
None == Content("none", 0, 0, FALSE)
Torn == Content("torn", 0, 0, FALSE)

Bundles == {"default", "quantized"}
File == {"model", "tokenizer", "config", "calibration", "metadata"}
Copied == <<"tokenizer", "calibration", "config">>

Put(file, content) == [file |-> file, content |-> content]

NoArgs == [weights |-> 0, calibration |-> 0, check |-> FALSE, tag |-> "none"]
NoWalk == [net |-> CHOOSE n \in Nets : TRUE, queue |-> {}, excluded |-> {}]
NoFixture == [answers |-> <<>>, aggregate |-> "none"]

\* find_latest_checkpoint goes by the time of a directory, which writing the
\* files in it again does not change: it may be any of them, as with --checkpoint.
Checkpoints == {s \in Sources : trained[s] > 0}

\* --calibration names a file that does not exist, which nothing checks.
NoSuchFile == -1

\* find_latest_calibration goes by the time of the file, --calibration by its
\* name, whether or not there is such a file; 0: no name and nothing found.
Calibrations == {NoSuchFile} \cup (IF saved = <<>> THEN {0} ELSE DOMAIN saved)

\* What becomes of calibration.json in a bundle.
CalibrationFile(i) ==
  IF i \notin DOMAIN saved THEN Content("defaults", 0, 0, FALSE)
  ELSE IF saved[i].torn THEN Torn
  ELSE Content("calibration", i, saved[i].of, FALSE)

-----------------------------------------------------------------------------
Init ==
  /\ trained = [s \in Sources |-> 0]
  /\ trainings = 0 /\ saved = <<>>
  /\ disk = [b \in Bundles |-> [f \in File |-> None]]
  /\ hub = [files |-> [f \in File |-> None], tags |-> {}]
  /\ jobs = 0 /\ kind = "export" /\ args = NoArgs /\ pc = "idle" /\ exit = "none"
  /\ todo = <<>> /\ walk = NoWalk /\ fixture = NoFixture

\* A training job writes its best checkpoint, perhaps over an older one.
Train(s) ==
  /\ trainings < MaxTrained
  /\ trainings' = trainings + 1
  /\ trained' = [trained EXCEPT ![s] = trainings']
  /\ UNCHANGED <<saved, disk, hub, jobs, kind, args, pc, exit, todo, walk, fixture>>

Begin(k) ==
  /\ pc = "idle" /\ jobs < MaxJobs
  /\ jobs' = jobs + 1 /\ kind' = k
  /\ todo' = <<>> /\ walk' = NoWalk

\* Python ends with an exit code.
Leave(code) == pc' = "idle" /\ exit' = code

\* The temperatures are fitted and save_run_artifacts writes calibration.json,
\* whole or in part.
Fit(s) ==
  /\ trained[s] > 0
  /\ Begin("calibrate")
  /\ \E items \in Samples, torn \in BOOLEAN :
       LET cache == IF torn THEN <<>> ELSE Collected(items) IN
         /\ saved' = Append(saved, [of |-> trained[s], torn |-> torn,
                                    cache |-> cache, map |-> Calibrate(cache)])
         /\ Leave(IF torn THEN "error" ELSE "ok")
  /\ args' = NoArgs
  /\ UNCHANGED <<trained, trainings, disk, hub, fixture>>

-----------------------------------------------------------------------------
\* run_export.

\* run_pipeline: --checkpoint or the latest, --calibration or the latest, and a
\* checkpoint that may not load.  strict=False: tensors whose names the model does
\* not have, or that are missing, are only warned of; the model is then that of no
\* checkpoint (0), and the job goes on with it.
StartExport ==
  /\ Begin("export")
  /\ \/ Checkpoints = {} /\ args' = NoArgs /\ Leave("error")
     \/ \E s \in Checkpoints, c \in Calibrations, check \in BOOLEAN, whole \in BOOLEAN :
          /\ args' = [NoArgs EXCEPT !.weights = IF whole THEN trained[s] ELSE 0,
                                    !.calibration = c, !.check = check]
          /\ \/ pc' = "export" /\ exit' = "none"
             \/ Leave("error")
  /\ UNCHANGED <<outside, disk, hub, fixture>>

\* export_onnx_model writes models/default/model.onnx; its checks of the graph
\* come after the file.
ExportModel ==
  /\ pc = "export"
  /\ \E ok \in BOOLEAN :
       disk' = [disk EXCEPT !["default"]["model"] = Content("fp32", jobs, args.weights, ok)]
  /\ pc' = "validate"
  /\ UNCHANGED <<outside, hub, jobs, kind, args, exit, todo, walk, fixture>>

\* Mutation of Bundle: a calibration that is there already is left alone.
BundleKeep ==
  SelectSeq(
    <<Put("tokenizer", Content("tokenizer", jobs, args.weights, FALSE)),
      Put("config", Content("config", jobs, args.weights, FALSE)),
      Put("calibration", CalibrationFile(args.calibration)),
      Put("metadata", Content("export_metadata", jobs, args.weights, args.check))>>,
    LAMBDA p : p.file # "calibration" \/ args.calibration \in DOMAIN saved \/ disk["default"]["calibration"] = None)

\* create_artifact_bundle, once the model is in its place.
Bundle ==
  <<Put("tokenizer", Content("tokenizer", jobs, args.weights, FALSE)),
    Put("config", Content("config", jobs, args.weights, FALSE)),
    Put("calibration", CalibrationFile(args.calibration)),
    Put("metadata", Content("export_metadata", jobs, args.weights, args.check))>>

\* Mutation of Validate: the bundle is made all the same.
ValidateGoesOn ==
  /\ pc = "validate"
  /\ pc' = "bundle" /\ todo' = Bundle
  /\ exit' = IF args.check /\ ~disk["default"]["model"].ok THEN "error" ELSE exit
  /\ UNCHANGED <<outside, disk, hub, jobs, kind, args, walk, fixture>>

\* validate_onnx_parity, unless it is skipped.  A model that fails stays where
\* it was written.
Validate ==
  /\ pc = "validate"
  /\ IF args.check /\ ~disk["default"]["model"].ok
       THEN Leave("error") /\ UNCHANGED todo
       ELSE pc' = "bundle" /\ todo' = Bundle /\ UNCHANGED exit
  /\ UNCHANGED <<outside, disk, hub, jobs, kind, args, walk, fixture>>

\* The directory the job writes to.
Target == IF kind = "export" THEN "default" ELSE "quantized"

\* One file is written; a file that the source does not have is left as it was.
Write ==
  /\ pc # "idle" /\ todo # <<>>
  /\ disk' = IF Head(todo).content = None THEN disk
             ELSE [disk EXCEPT ![Target][Head(todo).file] = Head(todo).content]
  /\ todo' = Tail(todo)
  /\ UNCHANGED <<outside, hub, jobs, kind, args, pc, exit, walk, fixture>>

EndExport ==
  /\ pc = "bundle" /\ todo = <<>>
  /\ Leave("ok")
  /\ UNCHANGED <<outside, disk, hub, jobs, kind, args, todo, walk, fixture>>

-----------------------------------------------------------------------------
\* quantize.

StartQuantise ==
  /\ Begin("quantise")
  /\ \E check \in BOOLEAN : args' = [NoArgs EXCEPT !.check = check]
  /\ IF disk["default"]["model"] \in {None, Torn}
       THEN Leave("error")
       ELSE pc' = "load" /\ exit' = "none"
  /\ UNCHANGED <<outside, disk, hub, fixture>>

\* find_nodes_to_exclude: the walk begins at the tensor of the logits.
LoadGraph ==
  /\ pc = "load"
  /\ \E net \in Nets : walk' = [net |-> net, queue |-> {net.logits}, excluded |-> {}]
  /\ pc' = "walk"
  /\ UNCHANGED <<outside, disk, hub, jobs, kind, args, exit, todo, fixture>>

\* Mutation of Traverse: only the last node is kept.
TraverseOnce ==
  /\ pc = "walk"
  /\ \E n \in walk.queue :
       walk' = IF n \in walk.net.backbone
                 THEN [walk EXCEPT !.queue = @ \ {n}]
                 ELSE [walk EXCEPT !.queue = @ \ {n}, !.excluded = @ \cup {n}]
  /\ UNCHANGED <<outside, disk, hub, jobs, kind, args, pc, exit, todo, fixture>>

\* The producer of a tensor is kept as it is, and so is what feeds it, up to the
\* backbone; whatever the order of the tensors in the queue.
Traverse ==
  /\ pc = "walk"
  /\ \E n \in walk.queue :
       walk' = IF n \in walk.net.backbone
                 THEN [walk EXCEPT !.queue = @ \ {n}]
                 ELSE [walk EXCEPT !.queue = (@ \cup walk.net.inputs[n]) \ (walk.excluded \cup {n}),
                                   !.excluded = @ \cup {n}]
  /\ UNCHANGED <<outside, disk, hub, jobs, kind, args, pc, exit, todo, fixture>>

\* Nodes that are kept for their name or their operator, whatever they lead to.
Protect ==
  /\ pc = "walk" /\ walk.queue = {}
  /\ walk' = [walk EXCEPT !.excluded = @ \cup (walk.net.named \ walk.net.backbone)]
  /\ pc' = "quantise"
  /\ UNCHANGED <<outside, disk, hub, jobs, kind, args, exit, todo, fixture>>

\* The nodes quantize_dynamic turns to INT8.
Int8 == walk.net.matmul \ walk.excluded

\* quantize_onnx_model writes the model; then the other files of the source are
\* to be copied.
Quantise ==
  /\ pc = "quantise"
  /\ \E ok \in BOOLEAN :
       disk' = [disk EXCEPT !["quantized"]["model"] =
                              Content("int8", jobs, disk["default"]["model"].of, ok)]
  /\ todo' = [i \in DOMAIN Copied |-> Put(Copied[i], disk["default"][Copied[i]])]
  /\ pc' = "copy" /\ walk' = NoWalk
  /\ UNCHANGED <<outside, hub, jobs, kind, args, exit, fixture>>

\* verify_quantized_parity and quantize_metadata.json, which says of a model
\* that was not compared what it says of one that passed.
Verify ==
  /\ pc = "copy" /\ todo = <<>>
  /\ LET m == disk["quantized"]["model"] IN
     todo' = <<Put("metadata", Content("quantize_metadata", jobs, m.of,
                                       IF args.check THEN m.ok ELSE TRUE))>>
  /\ pc' = "close"
  /\ UNCHANGED <<outside, disk, hub, jobs, kind, args, exit, walk, fixture>>

\* The exit code tells whether the two models agreed.
EndQuantise ==
  /\ pc = "close" /\ todo = <<>>
  /\ Leave(IF disk["quantized"]["metadata"].ok THEN "ok" ELSE "parity")
  /\ UNCHANGED <<outside, disk, hub, jobs, kind, args, todo, walk, fixture>>

-----------------------------------------------------------------------------
\* upload_hf.

\* upload_tier: without the directory, or with --tag-only, there is only a tag.
StartUpload ==
  /\ Begin("upload")
  /\ \E tag \in {"none", "v1"}, tagOnly \in BOOLEAN :
       /\ args' = [NoArgs EXCEPT !.tag = tag]
       /\ pc' = IF tagOnly \/ \A f \in File : disk["quantized"][f] = None THEN "tag" ELSE "upload"
  /\ exit' = "none"
  /\ UNCHANGED <<outside, disk, hub, fixture>>

\* upload_folder: one commit, which leaves files of the repository that the
\* directory does not have.
UploadFolder ==
  /\ pc = "upload"
  /\ hub' = [hub EXCEPT !.files = [f \in File |->
               IF disk["quantized"][f] = None THEN @[f] ELSE disk["quantized"][f]]]
  /\ pc' = "tag"
  /\ UNCHANGED <<outside, disk, jobs, kind, args, exit, todo, walk, fixture>>

\* create_tag refuses a name that is taken.
CreateTag ==
  /\ pc = "tag"
  /\ IF args.tag = "none" THEN UNCHANGED hub /\ Leave("ok")
     ELSE IF \E t \in hub.tags : t.name = args.tag THEN UNCHANGED hub /\ Leave("error")
     ELSE /\ hub' = [hub EXCEPT !.tags = @ \cup {[name |-> args.tag, files |-> hub.files]}]
          /\ Leave("ok")
  /\ UNCHANGED <<outside, disk, jobs, kind, args, todo, walk, fixture>>

-----------------------------------------------------------------------------
\* generate_parity_fixtures.

\* run_inference_for_question for the questions of a scenario, and
\* determine_aggregate_route.
Expected(scenario) ==
  LET Answer(q) == [type |-> q.type, count |-> q.count, reading |-> q.reading,
                    gating |-> scenario.gating,
                    route |-> DecideRoute(q.type, q.reading, scenario.gating)]
      answers == [i \in DOMAIN scenario.questions |-> Answer(scenario.questions[i])]
  IN  [answers |-> answers,
       aggregate |-> AggregateRoute({answers[i].route : i \in DOMAIN answers})]

\* It needs the model and the tokenizer of models/default, and does without a
\* calibration.
Loads ==
  /\ disk["default"]["model"].as = "fp32"
  /\ disk["default"]["tokenizer"].as = "tokenizer"
  /\ disk["default"]["calibration"] # Torn

GenerateFixtures ==
  /\ Begin("fixtures")
  /\ \/ Loads /\ Leave("ok") /\ \E s \in Scenarios : fixture' = Expected(s)
     \/ ~Loads /\ Leave("error") /\ UNCHANGED fixture
  /\ args' = NoArgs
  /\ UNCHANGED <<outside, disk, hub>>

-----------------------------------------------------------------------------
\* The file a job is in the middle of.
Writing ==
  IF pc = "export" THEN {Put("model", Torn)}
  ELSE IF pc = "quantise" THEN {Put("model", Torn)}
  ELSE IF todo # <<>> /\ Head(todo).content # None THEN {Put(Head(todo).file, Torn)} ELSE {}

\* A job raises or is killed; what it was writing may be cut short.
Interrupt ==
  /\ pc # "idle"
  /\ \/ UNCHANGED disk
     \/ \E p \in Writing : disk' = [disk EXCEPT ![Target][p.file] = Torn]
  /\ Leave("error")
  /\ todo' = <<>> /\ walk' = NoWalk
  /\ UNCHANGED <<outside, hub, jobs, kind, args, fixture>>

Done == pc = "idle" /\ jobs = MaxJobs /\ UNCHANGED vars

Step ==
  \/ ExportModel \/ Validate \/ Write \/ EndExport
  \/ LoadGraph \/ Traverse \/ Protect \/ Quantise \/ Verify \/ EndQuantise
  \/ UploadFolder \/ CreateTag

Next ==
  \/ \E s \in Sources : Train(s) \/ Fit(s)
  \/ StartExport \/ StartQuantise \/ StartUpload \/ GenerateFixtures
  \/ Step \/ Interrupt \/ Done

Spec == Init /\ [][Next]_vars

-----------------------------------------------------------------------------
Contents ==
  [as : {"none", "torn", "fp32", "int8", "tokenizer", "config", "calibration", "defaults",
         "export_metadata", "quantize_metadata"},
   job : 0..(MaxJobs + MaxTrained), of : 0..MaxTrained, ok : BOOLEAN]

TypeOK ==
  /\ trainings \in 0..MaxTrained
  /\ trained \in [Sources -> 0..trainings]
  /\ \A i \in DOMAIN saved : saved[i].of \in 1..trainings
  /\ disk \in [Bundles -> [File -> Contents]]
  /\ hub.files \in [File -> Contents] /\ \A t \in hub.tags : t.files \in [File -> Contents]
  /\ jobs \in 0..MaxJobs /\ kind \in {"calibrate", "export", "quantise", "upload", "fixtures"}
  /\ exit \in {"none", "ok", "error", "parity"} /\ (pc # "idle" => exit = "none")
  /\ walk.excluded \cup walk.queue \subseteq walk.net.nodes

\* calibration/config.py:24-52, optimizer.py:66-123 and 370-642,
\* generate_parity_fixtures.py:146-195: the temperature that is looked up for a
\* question was fitted on samples of its type, all those with as many options
\* among them, enough of them and with a model that beats chance; a question that
\* finds none is of a size that no bucket holds; no sample with a choice to make is
\* counted twice or left out of the summary.
CalibrationServed ==
  \A k \in DOMAIN saved :
    LET cache == saved[k].cache IN
    /\ \A i \in DOMAIN cache :
         LET t == cache[i].type
             tau == ResolveTemperature(saved[k].map, t, cache[i].count) IN
         tau.on # {} =>
           /\ i \in tau.on
           /\ \A j \in tau.on : cache[j].type = t
           /\ Cardinality(tau.on) >= MinSamples /\ ~HardlyBeatsChance(cache, tau.on)
    /\ \A i \in DOMAIN cache :
         ResolveTemperature(saved[k].map, cache[i].type, cache[i].count) = DefaultTemperature =>
           \A t \in Types : \A b \in DOMAIN BucketsOf(t) :
             i \notin FilterByBucket(cache, t, BucketsOf(t)[b])
    /\ TotalSamples(cache) = Cardinality({i \in DOMAIN cache : cache[i].count >= 2})

\* Who reads run_export.py:183-308 or quantize.py:496-586 by their exit code: a
\* code of zero means that the job wrote every file of the bundle, that model,
\* tokenizer, configuration and metadata are of the one model it had in memory,
\* that the metadata tells whether the model was compared, that it passed if it
\* was, and that the calibration is what its path gave, whatever earlier jobs left
\* in the directory.  A quantised bundle is as good as the files of its source.
\* Not promised, because the code does not: a checkpoint that was loaded whole
\* (the model may be that of none), a calibration that can be read (it may be cut
\* short), that was fitted on this model, or that is the one --calibration named.
OneJobsBundle ==
  LET d == disk["default"]  q == disk["quantized"] IN
  pc = "idle" /\ exit = "ok" =>
    /\ kind = "export" =>
         /\ \A f \in File \ {"calibration"} : d[f].job = jobs /\ d[f].of = args.weights
         /\ d["calibration"] = CalibrationFile(args.calibration)
         /\ d["metadata"].ok = args.check /\ (args.check => d["model"].ok)
    /\ kind = "quantise" =>
         /\ q["model"].job = jobs /\ q["metadata"].job = jobs
         /\ q["model"].of = d["model"].of /\ q["metadata"].of = d["model"].of
         /\ q["metadata"].ok /\ (args.check => q["model"].ok)
         /\ \A i \in DOMAIN Copied : d[Copied[i]] # None => q[Copied[i]] = d[Copied[i]]

\* Everything between the logits and the backbone: what is in every set of nodes
\* that has the logits and what feeds its nodes outside the backbone.
Closed(net, S) ==
  net.logits \in S /\ \A n \in S \ net.backbone : net.inputs[n] \subseteq S

Upstream(net) ==
  {n \in net.nodes \ net.backbone : \A S \in SUBSET net.nodes : Closed(net, S) => n \in S}

\* quantize.py:113-196, the hybrid quantisation: no node of the heads becomes
\* INT8, also one whose name gives nothing away and that the logits reach only
\* through others, and every matrix of the backbone does.
HeadStaysFp32 ==
  pc = "quantise" =>
    /\ Int8 \cap Upstream(walk.net) = {}
    /\ walk.net.matmul \cap walk.net.backbone \subseteq Int8

\* generate_parity_fixtures.py:88-143 beside gating.rs: the server is never more
\* lenient than the expected answers, and agrees with them, one by one and as a
\* whole, where the input fits, a score has one peak and the margin asked of a
\* Noul is not above its confidence.
FixturesMatchServer ==
  LET a == fixture.answers
      server == [i \in DOMAIN a |-> ServerRoute(a[i].type, a[i].reading, a[i].gating)]
      Plain(i) ==
        /\ ~IsOod(a[i].type, a[i].reading, a[i].gating) /\ ~a[i].reading.bimodal
        /\ a[i].type = "noul" => a[i].gating.margin <= a[i].gating.high
  IN  /\ \A i \in DOMAIN a :
           /\ Severity[server[i]] >= Severity[a[i].route]
           /\ Plain(i) => server[i] = a[i].route
      /\ (a # <<>> /\ \A i \in DOMAIN a : Plain(i)) =>
           fixture.aggregate =
             Aggregate([r \in Routes |-> Cardinality({i \in DOMAIN a : server[i] = r})])
=============================================================================

---------------------------- MODULE ReleaseProofs ----------------------------
(***************************************************************************)
(* Proofs about Release, for any validation sets, graphs and scenarios     *)
(* that its assumptions allow, and any number of jobs and checkpoints.     *)
(*                                                                         *)
(* That a job which ends well leaves a bundle of its own is not            *)
(* inductive.  What is: at every moment each file of the job's list is on  *)
(* the disk or still to be written, and nothing else is (Owed), and what   *)
(* each phase relied on, the model first of all, has not been overwritten. *)
(*                                                                         *)
(* The walk over the graph keeps what it came across closed: whatever      *)
(* feeds a node it excluded is excluded, in the queue or of the backbone.  *)
(* When the queue is empty, the nodes excluded and the backbone are one of *)
(* the closed sets that Upstream quantifies over.                          *)
(*                                                                         *)
(* For the temperatures it is the tables that are looked into: a number of *)
(* options has one place in the buckets of its type (Place), which the two *)
(* translations of a bucket agree on.                                      *)
(***************************************************************************)
EXTENDS Release, SequenceTheorems, FiniteSetTheorems, TLAPS

Graphs == Nets \cup {NoWalk.net}
Nodes == UNION {g.nodes : g \in Graphs}

Caches == {<<>>} \cup {Collected(items) : items \in Samples}
RunOf(w, t, c) == [of |-> w, torn |-> t, cache |-> c, map |-> Calibrate(c)]
Runs == {RunOf(w, t, c) : w \in 1..MaxTrained, t \in BOOLEAN, c \in Caches}

Folder == [File -> Contents]
Tags == [name : {"none", "v1"}, files : Folder]
Puts == [file : File, content : Contents]
Args == [weights : 0..MaxTrained, calibration : NoSuchFile..MaxJobs, check : BOOLEAN,
         tag : {"none", "v1"}]

Kinds == {"calibrate", "export", "quantise", "upload", "fixtures"}
Phases == [calibrate |-> {}, fixtures |-> {},
           export |-> {"export", "validate", "bundle"},
           quantise |-> {"load", "walk", "quantise", "copy", "close"},
           upload |-> {"upload", "tag"}]

Ledger ==
  /\ trainings \in 0..MaxTrained
  /\ trained \in [Sources -> 0..trainings]
  /\ saved \in Seq(Runs) /\ Len(saved) <= jobs
  /\ \A i \in DOMAIN saved : saved[i].of \in 1..trainings

Folders ==
  /\ disk \in [Bundles -> Folder]
  /\ hub \in [files : Folder, tags : SUBSET Tags]

Job ==
  /\ jobs \in 0..MaxJobs
  /\ kind \in Kinds
  /\ args \in Args /\ args.calibration <= Len(saved)
  /\ pc = "idle" \/ pc \in Phases[kind]
  /\ exit \in {"none", "ok", "error", "parity"}
  /\ pc # "idle" => exit = "none"

Walking ==
  /\ walk \in [net : Graphs, queue : SUBSET Nodes, excluded : SUBSET Nodes]
  /\ walk.excluded \cup walk.queue \subseteq walk.net.nodes
  /\ pc \in {"walk", "quantise"} => walk.net \in Nets

Queued == todo \in Seq(Puts)

Typed == Ledger /\ Folders /\ Job /\ Queued /\ Walking

-----------------------------------------------------------------------------
(* What the operators give. *)

LEMMA Bounds == MaxJobs \in Nat /\ MaxTrained \in Nat
BY ReleaseConstants

LEMMA ContentTyped ==
  ASSUME NEW as \in {"none", "torn", "fp32", "int8", "tokenizer", "config",
                     "calibration", "defaults", "export_metadata", "quantize_metadata"},
         NEW j \in 0..MaxJobs, NEW w \in 0..MaxTrained, NEW ok \in BOOLEAN
  PROVE  Content(as, j, w, ok) \in Contents
<1>1. j \in 0..(MaxJobs + MaxTrained)
  BY Bounds
<1>2. QED
  BY <1>1 DEF Content, Contents

LEMMA NothingTyped == None \in Contents /\ Torn \in Contents
<1>1. 0 \in 0..MaxJobs /\ 0 \in 0..MaxTrained
  BY Bounds
<1>2. QED
  BY <1>1, ContentTyped DEF None, Torn

LEMMA CalibrationTyped ==
  ASSUME Ledger, Job, NEW i \in NoSuchFile..Len(saved)
  PROVE  CalibrationFile(i) \in Contents /\ CalibrationFile(i) # None
<1>1. CASE i \notin DOMAIN saved
  <2>1. Content("defaults", 0, 0, FALSE) \in Contents
    <3>1. 0 \in 0..MaxJobs /\ 0 \in 0..MaxTrained
      BY Bounds
    <3>2. QED
      BY <3>1, ContentTyped
  <2>2. CalibrationFile(i) = Content("defaults", 0, 0, FALSE)
    BY <1>1 DEF CalibrationFile
  <2>3. Content("defaults", 0, 0, FALSE) # None
    BY DEF Content, None
  <2>4. QED
    BY <2>1, <2>2, <2>3
<1>2. CASE i \in DOMAIN saved
  <2>1. i \in DOMAIN saved /\ i \in 0..MaxJobs
    BY <1>2, Bounds DEF Ledger, Job
  <2>2. saved[i].of \in 0..MaxTrained
    BY <2>1, Bounds DEF Ledger
  <2>3. Content("calibration", i, saved[i].of, FALSE) \in Contents
    BY <2>1, <2>2, ContentTyped
  <2>4. QED
    BY <1>2, <2>3, NothingTyped DEF CalibrationFile, Content, None, Torn
<1>3. QED
  BY <1>1, <1>2

(* One file is put into one directory. *)
LEMMA PutInto ==
  ASSUME NEW d \in [Bundles -> Folder], NEW b \in Bundles, NEW f \in File,
         NEW c \in Contents
  PROVE  /\ [d EXCEPT ![b][f] = c] \in [Bundles -> Folder]
         /\ \A b2 \in Bundles, f2 \in File :
              [d EXCEPT ![b][f] = c][b2][f2] =
                IF b2 = b /\ f2 = f THEN c ELSE d[b2][f2]
BY DEF Folder

LEMMA TargetIsBundle == Target \in Bundles
BY DEF Target, Bundles

LEMMA HeadAndTail ==
  ASSUME NEW S, NEW s \in Seq(S), s # <<>>
  PROVE  /\ Head(s) \in S /\ Tail(s) \in Seq(S)
         /\ {s[j] : j \in DOMAIN s} = {Head(s)} \cup {Tail(s)[j] : j \in DOMAIN Tail(s)}
<1>1. /\ Len(s) \in Nat /\ Len(s) > 0 /\ DOMAIN s = 1..Len(s)
      /\ Head(s) = s[1] /\ Head(s) \in S /\ Tail(s) \in Seq(S)
      /\ DOMAIN Tail(s) = 1..(Len(s) - 1)
      /\ \A j \in 1..(Len(s) - 1) : Tail(s)[j] = s[j + 1]
  BY EmptySeq, HeadTailProperties, LenProperties
<1>2. \A j \in DOMAIN s : s[j] = Head(s) \/ \E k \in DOMAIN Tail(s) : Tail(s)[k] = s[j]
  <2> TAKE j \in DOMAIN s
  <2>1. CASE j = 1
    BY <2>1, <1>1
  <2>2. CASE j # 1
    <3>1. j - 1 \in 1..(Len(s) - 1) /\ (j - 1) + 1 = j
      BY <2>2, <1>1
    <3>2. QED
      BY <3>1, <1>1
  <2>3. QED
    BY <2>1, <2>2
<1>3. \A k \in DOMAIN Tail(s) : k + 1 \in DOMAIN s /\ Tail(s)[k] = s[k + 1]
  BY <1>1
<1>4. 1 \in DOMAIN s
  BY <1>1
<1>5. {s[j] : j \in DOMAIN s} \subseteq {Head(s)} \cup {Tail(s)[j] : j \in DOMAIN Tail(s)}
  BY <1>2
<1>6. {Head(s)} \cup {Tail(s)[j] : j \in DOMAIN Tail(s)} \subseteq {s[j] : j \in DOMAIN s}
  <2>1. Head(s) \in {s[j] : j \in DOMAIN s}
    BY <1>1, <1>4
  <2>2. \A k \in DOMAIN Tail(s) : Tail(s)[k] \in {s[j] : j \in DOMAIN s}
    BY <1>3
  <2>3. QED
    BY <2>1, <2>2
<1>7. QED
  BY <1>1, <1>5, <1>6

LEMMA BundleTyped ==
  ASSUME Ledger, Job
  PROVE  Bundle \in Seq(Puts)
<1>1. CalibrationFile(args.calibration) \in Contents
  BY CalibrationTyped DEF Job, Args, NoSuchFile
<1>2. /\ Content("tokenizer", jobs, args.weights, FALSE) \in Contents
      /\ Content("config", jobs, args.weights, FALSE) \in Contents
      /\ Content("export_metadata", jobs, args.weights, args.check) \in Contents
  BY ContentTyped DEF Job, Args
<1>3. \A f \in File, c \in Contents : Put(f, c) \in Puts
  BY DEF Put, Puts
<1>4. {"tokenizer", "config", "calibration", "metadata"} \subseteq File
  BY DEF File
<1> DEFINE a == Put("tokenizer", Content("tokenizer", jobs, args.weights, FALSE))
           b == Put("config", Content("config", jobs, args.weights, FALSE))
           c == Put("calibration", CalibrationFile(args.calibration))
           d == Put("metadata",
                    Content("export_metadata", jobs, args.weights, args.check))
<1>5. a \in Puts /\ b \in Puts /\ c \in Puts /\ d \in Puts
  BY <1>1, <1>2, <1>3, <1>4
<1>6. Bundle = <<a, b, c, d>>
  BY DEF Bundle
<1> HIDE DEF a, b, c, d
<1>7. QED
  BY <1>5, <1>6

-----------------------------------------------------------------------------
(* Types. *)

LEMMA InitTyped == Init => Typed
<1> SUFFICES ASSUME Init PROVE Typed
  OBVIOUS
<1>1. Ledger
  BY Bounds DEF Init, Ledger
<1>2. Folders
  BY NothingTyped DEF Init, Folders, Folder, Tags
<1>3. Job
  BY Bounds DEF Init, Job, Kinds, Args, NoSuchFile, NoArgs
<1>4. Queued
  BY DEF Init, Queued
<1>5. Walking
  BY DEF Init, Walking, NoWalk, Graphs
<1>6. QED
  BY <1>1, <1>2, <1>3, <1>4, <1>5 DEF Typed

(* Only a training and a fit touch what is kept outside, and every job is  *)
(* counted once.                                                           *)
LEMMA OutsideFrame ==
  ASSUME Next \/ UNCHANGED vars, \A s \in Sources : ~Train(s) /\ ~Fit(s)
  PROVE  UNCHANGED outside
BY DEF Next, vars, outside, Step, StartExport, StartQuantise, StartUpload,
       GenerateFixtures, ExportModel, Validate, Write, EndExport, LoadGraph,
       Traverse, Protect, Quantise, Verify, EndQuantise, UploadFolder, CreateTag,
       Interrupt, Done

LEMMA JobsCount ==
  ASSUME Job, Next \/ UNCHANGED vars
  PROVE  jobs' \in 0..MaxJobs /\ jobs' >= jobs
<1> DEFINE More == jobs < MaxJobs /\ jobs' = jobs + 1
<1>1. ASSUME NEW s \in Sources, Train(s)
      PROVE  UNCHANGED jobs
  BY <1>1 DEF Train
<1>2. ASSUME NEW s \in Sources, Fit(s)
      PROVE  More
  BY <1>2 DEF Fit, Begin
<1>3. CASE StartExport \/ StartQuantise \/ StartUpload \/ GenerateFixtures
  <2>1. More
    BY <1>3 DEF StartExport, StartQuantise, StartUpload, GenerateFixtures, Begin
  <2>2. QED
    BY <2>1, Bounds DEF Job
<1>4. CASE Step
  <2>1. UNCHANGED jobs
    BY <1>4 DEF Step, ExportModel, Validate, Write, EndExport, LoadGraph,
               Traverse, Protect, Quantise, Verify, EndQuantise, UploadFolder,
               CreateTag
  <2>2. QED
    BY <2>1, Bounds DEF Job
<1>5. CASE Interrupt \/ Done \/ UNCHANGED vars
  <2>1. UNCHANGED jobs
    BY <1>5 DEF Interrupt, Done, vars
  <2>2. QED
    BY <2>1, Bounds DEF Job
<1>6. QED
  BY <1>1, <1>2, <1>3, <1>4, <1>5, Bounds DEF Next, Job

LEMMA StepLedger ==
  ASSUME Typed, Next \/ UNCHANGED vars
  PROVE  Ledger'
<1> USE DEF Typed
<1>0. jobs' \in 0..MaxJobs /\ jobs' >= jobs
  BY JobsCount
<1>1. ASSUME NEW s \in Sources, Train(s)
      PROVE  Ledger'
  <2>1. trainings' \in 0..MaxTrained /\ trainings' = trainings + 1
    BY <1>1, Bounds DEF Train, Ledger
  <2>2. trained' \in [Sources -> 0..trainings']
    BY <1>1, <2>1, Bounds DEF Train, Ledger
  <2>3. saved' = saved /\ jobs' = jobs
    BY <1>1 DEF Train
  <2>4. \A i \in DOMAIN saved : saved[i].of \in 1..trainings'
    BY <2>1, Bounds DEF Ledger
  <2>5. QED
    BY <2>1, <2>2, <2>3, <2>4 DEF Ledger
<1>2. ASSUME NEW s \in Sources, Fit(s)
      PROVE  Ledger'
  <2>1. PICK r \in Runs : saved' = Append(saved, r) /\ r.of = trained[s]
    <3>1. PICK items \in Samples, torn \in BOOLEAN :
            LET cache == IF torn THEN <<>> ELSE Collected(items) IN
            saved' = Append(saved, [of |-> trained[s], torn |-> torn,
                                    cache |-> cache, map |-> Calibrate(cache)])
      BY <1>2 DEF Fit
    <3> DEFINE cache == IF torn THEN <<>> ELSE Collected(items)
    <3>2. cache \in Caches
      BY DEF Caches
    <3>3. trained[s] \in 1..MaxTrained
      BY <1>2, Bounds DEF Fit, Ledger
    <3>4. saved' = Append(saved, RunOf(trained[s], torn, cache))
      BY <3>1 DEF RunOf
    <3> HIDE DEF cache
    <3>5. RunOf(trained[s], torn, cache) \in Runs
      BY <3>2, <3>3 DEF Runs
    <3>6. RunOf(trained[s], torn, cache).of = trained[s]
      BY DEF RunOf
    <3>7. QED
      BY <3>4, <3>5, <3>6
  <2>2. jobs' = jobs + 1 /\ jobs \in Nat
    BY <1>2, Bounds DEF Fit, Begin, Job
  <2>3. UNCHANGED <<trained, trainings>>
    BY <1>2 DEF Fit
  <2>4. trained[s] \in 1..trainings
    BY <1>2, Bounds DEF Fit, Ledger
  <2>5. /\ saved' \in Seq(Runs) /\ Len(saved') = Len(saved) + 1
        /\ \A i \in DOMAIN saved' : saved'[i] = r \/ (i \in DOMAIN saved /\ saved'[i] = saved[i])
    BY <2>1, AppendProperties DEF Ledger
  <2>6. Len(saved') <= jobs'
    BY <2>2, <2>5 DEF Ledger
  <2>7. \A i \in DOMAIN saved' : saved'[i].of \in 1..trainings
    BY <2>1, <2>4, <2>5 DEF Ledger
  <2>8. QED
    BY <2>3, <2>5, <2>6, <2>7 DEF Ledger
<1>3. CASE \A s \in Sources : ~Train(s) /\ ~Fit(s)
  <2>1. UNCHANGED outside
    BY <1>3, OutsideFrame
  <2>2. Len(saved) \in Nat
    BY DEF Ledger
  <2>3. Len(saved) <= jobs'
    BY <1>0, <2>2, Bounds DEF Ledger, Job
  <2>4. QED
    BY <2>1, <2>3 DEF Ledger, outside
<1>4. QED
  BY <1>1, <1>2, <1>3

LEMMA OneFile ==
  ASSUME Folders, NEW b \in Bundles, NEW f \in File
  PROVE  disk[b][f] \in Contents
BY DEF Folders, Folder

LEMMA StepFolders ==
  ASSUME Typed, Next \/ UNCHANGED vars
  PROVE  Folders'
<1> USE DEF Typed
<1>0. disk \in [Bundles -> Folder] /\ hub \in [files : Folder, tags : SUBSET Tags]
  BY DEF Folders
<1>1. CASE ExportModel
  <2>1. PICK ok \in BOOLEAN :
          disk' = [disk EXCEPT !["default"]["model"] = Content("fp32", jobs, args.weights, ok)]
    BY <1>1 DEF ExportModel
  <2>2. Content("fp32", jobs, args.weights, ok) \in Contents
    BY ContentTyped DEF Job, Args
  <2>3. disk' \in [Bundles -> Folder]
    BY <1>0, <2>1, <2>2, PutInto DEF Bundles, File
  <2>4. QED
    BY <1>0, <1>1, <2>3 DEF ExportModel, Folders
<1>2. CASE Quantise
  <2>1. PICK ok \in BOOLEAN :
          disk' = [disk EXCEPT !["quantized"]["model"] =
                     Content("int8", jobs, disk["default"]["model"].of, ok)]
    BY <1>2 DEF Quantise
  <2>2. disk["default"]["model"].of \in 0..MaxTrained
    BY OneFile DEF Bundles, File, Contents
  <2>3. Content("int8", jobs, disk["default"]["model"].of, ok) \in Contents
    BY <2>2, ContentTyped DEF Job
  <2>4. disk' \in [Bundles -> Folder]
    BY <1>0, <2>1, <2>3, PutInto DEF Bundles, File
  <2>5. QED
    BY <1>0, <1>2, <2>4 DEF Quantise, Folders
<1>3. CASE Write
  <2>1. Head(todo) \in Puts
    BY <1>3, HeadAndTail DEF Write, Queued
  <2>2. Head(todo).file \in File /\ Head(todo).content \in Contents
    BY <2>1 DEF Puts
  <2>3. \/ disk' = disk
        \/ disk' = [disk EXCEPT ![Target][Head(todo).file] = Head(todo).content]
    BY <1>3 DEF Write
  <2>4. disk' \in [Bundles -> Folder]
    BY <1>0, <2>2, <2>3, PutInto, TargetIsBundle
  <2>5. QED
    BY <1>0, <1>3, <2>4 DEF Write, Folders
<1>4. CASE Interrupt
  <2>1. \A p \in Writing : p.file \in File
    <3>1. ASSUME todo # <<>> PROVE Head(todo).file \in File
      <4>1. Head(todo) \in Puts
        BY <3>1, HeadAndTail DEF Queued
      <4>2. QED
        BY <4>1 DEF Puts
    <3>2. QED
      BY <3>1 DEF Writing, Put, File
  <2>2. \/ disk' = disk
        \/ \E p \in Writing : disk' = [disk EXCEPT ![Target][p.file] = Torn]
    BY <1>4 DEF Interrupt
  <2>3. disk' \in [Bundles -> Folder]
    BY <1>0, <2>1, <2>2, PutInto, TargetIsBundle, NothingTyped
  <2>4. QED
    BY <1>0, <1>4, <2>3 DEF Interrupt, Folders
<1>5. CASE UploadFolder
  <2>1. hub' = [hub EXCEPT !.files = [f \in File |->
               IF disk["quantized"][f] = None THEN @[f] ELSE disk["quantized"][f]]]
    BY <1>5 DEF UploadFolder
  <2>2. \A f \in File : disk["quantized"][f] \in Contents /\ hub.files[f] \in Contents
    BY <1>0, OneFile DEF Bundles, Folder
  <2>3. hub' \in [files : Folder, tags : SUBSET Tags]
    BY <1>0, <2>1, <2>2 DEF Folder
  <2>4. QED
    BY <1>0, <1>5, <2>3 DEF UploadFolder, Folders
<1>6. CASE CreateTag
  <2>1. \/ hub' = hub
        \/ hub' = [hub EXCEPT !.tags = @ \cup {[name |-> args.tag, files |-> hub.files]}]
    BY <1>6 DEF CreateTag
  <2>2. [name |-> args.tag, files |-> hub.files] \in Tags
    BY <1>0 DEF Tags, Job, Args
  <2>3. hub' \in [files : Folder, tags : SUBSET Tags]
    BY <1>0, <2>1, <2>2
  <2>4. QED
    BY <1>0, <1>6, <2>3 DEF CreateTag, Folders
<1>7. ASSUME UNCHANGED <<disk, hub>>
      PROVE  Folders'
  BY <1>0, <1>7 DEF Folders
<1>8. ASSUME NEW s \in Sources, Train(s) \/ Fit(s)
      PROVE  UNCHANGED <<disk, hub>>
  BY <1>8 DEF Train, Fit
<1>9. CASE StartExport \/ StartQuantise \/ StartUpload \/ GenerateFixtures
  <2>1. UNCHANGED <<disk, hub>>
    BY <1>9 DEF StartExport, StartQuantise, StartUpload, GenerateFixtures
  <2>2. QED
    BY <2>1, <1>7
<1>10. CASE Validate \/ EndExport \/ LoadGraph \/ Traverse \/ Protect \/ Verify
            \/ EndQuantise \/ Done \/ UNCHANGED vars
  <2>1. UNCHANGED <<disk, hub>>
    BY <1>10 DEF Validate, EndExport, LoadGraph, Traverse, Protect, Verify,
                 EndQuantise, Done, vars
  <2>2. QED
    BY <2>1, <1>7
<1>11. QED
  BY <1>1, <1>2, <1>3, <1>4, <1>5, <1>6, <1>7, <1>8, <1>9, <1>10 DEF Next, Step

LEMMA StepQueued ==
  ASSUME Typed, Next \/ UNCHANGED vars
  PROVE  Queued'
<1> USE DEF Typed
<1>1. CASE Validate
  BY <1>1, BundleTyped DEF Validate, Queued
<1>2. CASE Write
  BY <1>2, HeadAndTail DEF Write, Queued
<1>3. CASE Quantise
  <2>1. todo' = [i \in DOMAIN Copied |-> Put(Copied[i], disk["default"][Copied[i]])]
    BY <1>3 DEF Quantise
  <2>2. \A i \in DOMAIN Copied : Put(Copied[i], disk["default"][Copied[i]]) \in Puts
    BY OneFile DEF Copied, Put, Puts, File, Bundles
  <2>3. DOMAIN Copied = 1..3
    BY DEF Copied
  <2>4. QED
    BY <2>1, <2>2, <2>3 DEF Queued
<1>4. CASE Verify
  <2> DEFINE q == disk["quantized"]["model"]
             ok == IF args.check THEN q.ok ELSE TRUE
             told == Put("metadata", Content("quantize_metadata", jobs, q.of, ok))
  <2>1. todo' = <<told>>
    BY <1>4 DEF Verify
  <2>2. q \in Contents
    BY OneFile DEF Bundles, File
  <2>3. q.of \in 0..MaxTrained /\ ok \in BOOLEAN
    BY <2>2 DEF Contents
  <2> HIDE DEF ok
  <2>4. Content("quantize_metadata", jobs, q.of, ok) \in Contents
    BY <2>3, ContentTyped DEF Job
  <2>5. told \in Puts
    BY <2>4 DEF Put, Puts, File
  <2> HIDE DEF told
  <2>6. QED
    BY <2>1, <2>5 DEF Queued
<1>5. ASSUME NEW s \in Sources, Train(s) \/ Fit(s)
      PROVE  Queued'
  <2>1. todo' = todo \/ todo' = <<>>
    BY <1>5 DEF Train, Fit, Begin
  <2>2. <<>> \in Seq(Puts) /\ todo \in Seq(Puts)
    BY DEF Queued
  <2>3. QED
    BY <2>1, <2>2 DEF Queued
<1>6. CASE StartExport \/ StartQuantise \/ StartUpload \/ GenerateFixtures \/ Interrupt
  <2>1. todo' = <<>>
    BY <1>6 DEF StartExport, StartQuantise, StartUpload, GenerateFixtures,
                Interrupt, Begin
  <2>2. QED
    BY <2>1 DEF Queued
<1>7. CASE ExportModel \/ EndExport \/ LoadGraph \/ Traverse \/ Protect
           \/ EndQuantise \/ UploadFolder \/ CreateTag \/ Done \/ UNCHANGED vars
  <2>1. todo' = todo
    BY <1>7 DEF ExportModel, EndExport, LoadGraph, Traverse, Protect,
                EndQuantise, UploadFolder, CreateTag, Done, vars
  <2>2. QED
    BY <2>1 DEF Queued
<1>8. QED
  BY <1>1, <1>2, <1>3, <1>4, <1>5, <1>6, <1>7 DEF Next, Step

LEMMA StepJob ==
  ASSUME Typed, Next \/ UNCHANGED vars
  PROVE  Job'
<1> USE DEF Typed
<1>0. /\ jobs' \in 0..MaxJobs
      /\ Len(saved) \in Nat /\ Len(saved) <= jobs /\ jobs \in 0..MaxJobs
  BY JobsCount DEF Ledger, Job
<1>1. ASSUME NEW s \in Sources, Train(s)
      PROVE  Job'
  BY <1>1 DEF Train, Job
<1>2. ASSUME NEW s \in Sources, Fit(s)
      PROVE  Job'
  <2>1. /\ kind' = "calibrate" /\ args' = NoArgs /\ pc' = "idle"
        /\ exit' \in {"error", "ok"}
    BY <1>2 DEF Fit, Begin, Leave
  <2>2. Len(saved') \in Nat
    <3>1. PICK r : saved' = Append(saved, r)
      BY <1>2 DEF Fit
    <3>2. Ledger'
      BY StepLedger
    <3>3. QED
      BY <3>2 DEF Ledger
  <2>3. QED
    BY <1>0, <2>1, <2>2, Bounds DEF Job, Kinds, NoArgs, Args, NoSuchFile
<1>3. CASE StartExport
  <2>1. kind' = "export" /\ saved' = saved
    BY <1>3 DEF StartExport, Begin, outside
  <2>2. \/ pc' = "export" /\ exit' = "none"
        \/ pc' = "idle" /\ exit' = "error"
    BY <1>3 DEF StartExport, Leave
  <2>3. args' \in Args /\ args'.calibration <= Len(saved)
    <3>1. CASE args' = NoArgs
      BY <3>1, <1>0, Bounds DEF NoArgs, Args, NoSuchFile
    <3>2. CASE \E s \in Checkpoints, c \in Calibrations, check \in BOOLEAN, whole \in BOOLEAN :
                 args' = [NoArgs EXCEPT !.weights = IF whole THEN trained[s] ELSE 0,
                                        !.calibration = c, !.check = check]
      <4>1. PICK s \in Checkpoints, c \in Calibrations, check \in BOOLEAN, whole \in BOOLEAN :
                 args' = [NoArgs EXCEPT !.weights = IF whole THEN trained[s] ELSE 0,
                                        !.calibration = c, !.check = check]
        BY <3>2
      <4> DEFINE w == IF whole THEN trained[s] ELSE 0
      <4>2. w \in 0..MaxTrained
        BY Bounds DEF Checkpoints, Ledger
      <4>3. c \in NoSuchFile..Len(saved) /\ c \in NoSuchFile..MaxJobs
        BY <1>0, Bounds DEF Calibrations, Ledger, NoSuchFile
      <4>4. QED
        <5>1. args' = [weights |-> w, calibration |-> c, check |-> check,
                       tag |-> "none"]
          BY <4>1 DEF NoArgs
        <5>2. QED
          BY <5>1, <4>2, <4>3 DEF Args
    <3>3. QED
      BY <1>3, <3>1, <3>2 DEF StartExport
  <2>4. QED
    BY <1>0, <2>1, <2>2, <2>3 DEF Job, Kinds, Phases
<1>4. CASE StartQuantise
  <2>1. kind' = "quantise" /\ saved' = saved
    BY <1>4 DEF StartQuantise, Begin, outside
  <2>2. \/ pc' = "load" /\ exit' = "none"
        \/ pc' = "idle" /\ exit' = "error"
    BY <1>4 DEF StartQuantise, Leave
  <2>3. args' \in Args /\ args'.calibration <= Len(saved)
    BY <1>4, <1>0, Bounds DEF StartQuantise, NoArgs, Args, NoSuchFile
  <2>4. QED
    BY <1>0, <2>1, <2>2, <2>3 DEF Job, Kinds, Phases
<1>5. CASE StartUpload
  <2>1. kind' = "upload" /\ saved' = saved
    BY <1>5 DEF StartUpload, Begin, outside
  <2>2. pc' \in {"tag", "upload"} /\ exit' = "none"
    BY <1>5 DEF StartUpload
  <2>3. args' \in Args /\ args'.calibration <= Len(saved)
    <3>1. PICK tag \in {"none", "v1"} : args' = [NoArgs EXCEPT !.tag = tag]
      BY <1>5 DEF StartUpload
    <3>2. args' = [weights |-> 0, calibration |-> 0, check |-> FALSE, tag |-> tag]
      BY <3>1 DEF NoArgs
    <3>3. QED
      BY <3>2, <1>0, Bounds DEF Args, NoSuchFile
  <2>4. QED
    BY <1>0, <2>1, <2>2, <2>3 DEF Job, Kinds, Phases
<1>6. CASE GenerateFixtures
  <2>1. kind' = "fixtures" /\ saved' = saved
    BY <1>6 DEF GenerateFixtures, Begin, outside
  <2>2. pc' = "idle" /\ exit' \in {"ok", "error"}
    BY <1>6 DEF GenerateFixtures, Leave
  <2>3. args' \in Args /\ args'.calibration <= Len(saved)
    BY <1>6, <1>0, Bounds DEF GenerateFixtures, NoArgs, Args, NoSuchFile
  <2>4. QED
    BY <1>0, <2>1, <2>2, <2>3 DEF Job, Kinds
<1>7. ASSUME UNCHANGED <<saved, jobs, kind, args>>,
             \/ pc' = "idle" /\ exit' \in {"ok", "error", "parity"}
             \/ pc' \in Phases[kind] /\ exit' = exit /\ pc # "idle"
             \/ UNCHANGED <<pc, exit>>
      PROVE  Job'
  BY <1>7 DEF Job
<1>8. CASE ExportModel \/ Validate \/ EndExport
  <2>1. kind = "export"
    BY <1>8 DEF ExportModel, Validate, EndExport, Job, Kinds, Phases
  <2>2. UNCHANGED <<saved, jobs, kind, args>>
    BY <1>8 DEF ExportModel, Validate, EndExport, outside
  <2>3. \/ pc' = "idle" /\ exit' \in {"ok", "error"}
        \/ pc' \in {"validate", "bundle"} /\ exit' = exit /\ pc # "idle"
    BY <1>8 DEF ExportModel, Validate, EndExport, Leave
  <2>4. QED
    BY <1>7, <2>1, <2>2, <2>3 DEF Phases
<1>9. CASE LoadGraph \/ Traverse \/ Protect \/ Quantise \/ Verify \/ EndQuantise
  <2>1. kind = "quantise"
    <3>1. pc \in {"load", "walk", "quantise", "copy", "close"}
      BY <1>9 DEF LoadGraph, Traverse, Protect, Quantise, Verify, EndQuantise
    <3>2. QED
      BY <3>1 DEF Job, Kinds, Phases
  <2>2. UNCHANGED <<saved, jobs, kind, args>>
    BY <1>9 DEF LoadGraph, Traverse, Protect, Quantise, Verify, EndQuantise, outside
  <2>3. \/ pc' = "idle" /\ exit' \in {"ok", "parity"}
        \/ pc' \in {"walk", "quantise", "copy", "close"} /\ exit' = exit /\ pc # "idle"
    BY <1>9 DEF LoadGraph, Traverse, Protect, Quantise, Verify, EndQuantise, Leave
  <2>4. QED
    BY <1>7, <2>1, <2>2, <2>3 DEF Phases
<1>10. CASE UploadFolder \/ CreateTag
  <2>1. kind = "upload"
    BY <1>10 DEF UploadFolder, CreateTag, Job, Kinds, Phases
  <2>2. UNCHANGED <<saved, jobs, kind, args>>
    BY <1>10 DEF UploadFolder, CreateTag, outside
  <2>3. \/ pc' = "idle" /\ exit' \in {"ok", "error"}
        \/ pc' = "tag" /\ exit' = exit /\ pc # "idle"
    BY <1>10 DEF UploadFolder, CreateTag, Leave
  <2>4. QED
    BY <1>7, <2>1, <2>2, <2>3 DEF Phases
<1>11. CASE Write \/ Interrupt \/ Done \/ UNCHANGED vars
  <2>1. UNCHANGED <<saved, jobs, kind, args>>
    BY <1>11 DEF Write, Interrupt, Done, vars, outside
  <2>2. \/ pc' = "idle" /\ exit' = "error"
        \/ UNCHANGED <<pc, exit>>
    BY <1>11 DEF Write, Interrupt, Done, vars, Leave
  <2>3. QED
    BY <1>7, <2>1, <2>2
<1>12. QED
  BY <1>1, <1>2, <1>3, <1>4, <1>5, <1>6, <1>8, <1>9, <1>10, <1>11 DEF Next, Step

LEMMA StepWalking ==
  ASSUME Typed, Next \/ UNCHANGED vars
  PROVE  Walking'
<1> USE DEF Typed
<1>1. CASE LoadGraph
  <2>1. PICK net \in Nets :
          walk' = [net |-> net, queue |-> {net.logits}, excluded |-> {}]
    BY <1>1 DEF LoadGraph
  <2>2. net.logits \in net.nodes /\ net \in Graphs
    BY ReleaseConstants DEF Graphs
  <2>3. net.logits \in Nodes
    BY <2>2 DEF Nodes
  <2>4. QED
    BY <2>1, <2>2, <2>3 DEF Walking
<1>2. CASE Traverse
  <2>1. PICK n \in walk.queue :
       walk' = IF n \in walk.net.backbone
                 THEN [walk EXCEPT !.queue = @ \ {n}]
                 ELSE [walk EXCEPT !.queue = (@ \cup walk.net.inputs[n]) \ (walk.excluded \cup {n}),
                                   !.excluded = @ \cup {n}]
    BY <1>2 DEF Traverse
  <2>2. walk.net \in Nets /\ pc' = pc /\ n \in walk.net.nodes
    BY <1>2 DEF Traverse, Walking
  <2>3. walk.net.inputs[n] \subseteq walk.net.nodes
    BY <2>2, ReleaseConstants
  <2>4. walk.net.nodes \subseteq Nodes
    BY <2>2 DEF Nodes, Graphs
  <2>5. QED
    BY <2>1, <2>2, <2>3, <2>4 DEF Walking
<1>3. CASE Protect
  <2>1. walk' = [walk EXCEPT !.excluded = @ \cup (walk.net.named \ walk.net.backbone)]
    BY <1>3 DEF Protect
  <2>2. walk.net \in Nets
    BY <1>3 DEF Protect, Walking
  <2>3. walk.net.named \subseteq walk.net.nodes
    BY <2>2, ReleaseConstants
  <2>4. walk.net.nodes \subseteq Nodes
    BY <2>2 DEF Nodes, Graphs
  <2>5. QED
    BY <2>1, <2>2, <2>3, <2>4 DEF Walking
<1>4. ASSUME walk' = NoWalk, pc' \notin {"walk", "quantise"}
      PROVE  Walking'
  BY <1>4 DEF Walking, NoWalk, Graphs
<1>5. ASSUME walk' = walk, pc' \notin {"walk", "quantise"} \/ pc' = pc
      PROVE  Walking'
  BY <1>5 DEF Walking
<1>6. ASSUME NEW s \in Sources, Train(s)
      PROVE  Walking'
  BY <1>5, <1>6 DEF Train
<1>7. ASSUME NEW s \in Sources, Fit(s)
      PROVE  Walking'
  BY <1>4, <1>7 DEF Fit, Begin, Leave
<1>8. CASE StartExport \/ StartQuantise \/ StartUpload \/ GenerateFixtures
  <2>1. walk' = NoWalk
    BY <1>8 DEF StartExport, StartQuantise, StartUpload, GenerateFixtures, Begin
  <2>2. pc' \in {"idle", "export", "load", "tag", "upload"}
    BY <1>8 DEF StartExport, StartQuantise, StartUpload, GenerateFixtures, Leave
  <2>3. QED
    BY <1>4, <2>1, <2>2
<1>9. CASE Quantise \/ Interrupt
  <2>1. walk' = NoWalk /\ pc' \in {"copy", "idle"}
    BY <1>9 DEF Quantise, Interrupt, Leave
  <2>2. QED
    BY <1>4, <2>1
<1>10. CASE ExportModel \/ Validate \/ EndExport \/ Verify \/ EndQuantise
            \/ UploadFolder \/ CreateTag \/ Write \/ Done \/ UNCHANGED vars
  <2>1. walk' = walk
    BY <1>10 DEF ExportModel, Validate, EndExport, Verify, EndQuantise,
                 UploadFolder, CreateTag, Write, Done, vars
  <2>2. pc' = pc \/ pc' \in {"idle", "validate", "bundle", "close", "tag"}
    BY <1>10 DEF ExportModel, Validate, EndExport, Verify, EndQuantise,
                 UploadFolder, CreateTag, Write, Done, vars, Leave
  <2>3. QED
    BY <1>5, <2>1, <2>2
<1>11. QED
  BY <1>1, <1>2, <1>3, <1>6, <1>7, <1>8, <1>9, <1>10 DEF Next, Step

LEMMA StepTyped == Typed /\ [Next]_vars => Typed'
BY StepLedger, StepFolders, StepQueued, StepJob, StepWalking DEF Typed

LEMMA AlwaysTyped == Spec => []Typed
BY InitTyped, StepTyped, PTL DEF Spec

LEMMA TypedGivesTypeOK == Typed => TypeOK
<1> SUFFICES ASSUME Typed PROVE TypeOK
  OBVIOUS
<1>1. hub.files \in Folder /\ \A t \in hub.tags : t.files \in Folder
  BY DEF Typed, Folders, Tags
<1>2. QED
  BY <1>1 DEF Typed, Ledger, Folders, Job, Walking, Folder, Kinds, TypeOK

(* Whatever jobs ran and wherever they were killed, files are what the     *)
(* programs write, a fitted run is of a checkpoint that was written, and   *)
(* the walk stays within the graph.                                        *)
THEOREM ReleaseTypeOK == Spec => []TypeOK
BY AlwaysTyped, TypedGivesTypeOK, PTL

-----------------------------------------------------------------------------
(* The walk that decides what stays FP32. *)

\* What the walk has come across.
Reached == walk.excluded \cup walk.queue \cup walk.net.backbone

Walked ==
  /\ pc \in {"walk", "quantise"} => walk.excluded \cap walk.net.backbone = {}
  /\ pc = "walk" =>
       /\ walk.net.logits \in Reached
       /\ \A n \in walk.excluded : walk.net.inputs[n] \subseteq Reached
  /\ pc = "quantise" => Upstream(walk.net) \subseteq walk.excluded

LEMMA StepWalked == Typed /\ Walked /\ [Next]_vars => Walked'
<1> SUFFICES ASSUME Typed, Walked, Next \/ UNCHANGED vars
             PROVE  Walked'
  BY DEF Walked
<1>1. CASE LoadGraph
  <2>1. PICK net \in Nets :
          walk' = [net |-> net, queue |-> {net.logits}, excluded |-> {}]
    BY <1>1 DEF LoadGraph
  <2>2. pc' = "walk"
    BY <1>1 DEF LoadGraph
  <2>3. QED
    BY <2>1, <2>2 DEF Walked, Reached
<1>2. CASE Traverse
  <2>1. PICK n \in walk.queue :
       walk' = IF n \in walk.net.backbone
                 THEN [walk EXCEPT !.queue = @ \ {n}]
                 ELSE [walk EXCEPT !.queue = (@ \cup walk.net.inputs[n]) \ (walk.excluded \cup {n}),
                                   !.excluded = @ \cup {n}]
    BY <1>2 DEF Traverse
  <2>2. pc = "walk" /\ pc' = "walk"
    BY <1>2 DEF Traverse
  <2>3. walk \in [net : Graphs, queue : SUBSET Nodes, excluded : SUBSET Nodes]
    BY DEF Typed, Walking
  <2>4. CASE n \in walk.net.backbone
    <3>1. /\ walk'.net = walk.net /\ walk'.excluded = walk.excluded
          /\ walk'.queue = walk.queue \ {n}
      BY <2>1, <2>3, <2>4
    <3>2. Reached' = Reached
      BY <3>1, <2>4 DEF Reached
    <3>3. QED
      BY <2>2, <3>1, <3>2 DEF Walked
  <2>5. CASE n \notin walk.net.backbone
    <3>1. /\ walk'.net = walk.net /\ walk'.excluded = walk.excluded \cup {n}
          /\ walk'.queue = (walk.queue \cup walk.net.inputs[n]) \ (walk.excluded \cup {n})
      BY <2>1, <2>3, <2>5
    <3>2. Reached' = Reached \cup walk.net.inputs[n]
      BY <3>1 DEF Reached
    <3>3. walk'.excluded \cap walk'.net.backbone = {}
      BY <2>2, <2>5, <3>1 DEF Walked
    <3>4. walk'.net.logits \in Reached'
      BY <2>2, <3>1, <3>2 DEF Walked
    <3>5. \A m \in walk'.excluded : walk'.net.inputs[m] \subseteq Reached'
      BY <2>2, <3>1, <3>2 DEF Walked
    <3>6. QED
      BY <2>2, <3>3, <3>4, <3>5 DEF Walked
  <2>6. QED
    BY <2>4, <2>5
<1>3. CASE Protect
  <2>1. /\ walk' = [walk EXCEPT !.excluded = @ \cup (walk.net.named \ walk.net.backbone)]
        /\ pc = "walk" /\ walk.queue = {} /\ pc' = "quantise"
    BY <1>3 DEF Protect
  <2>2. /\ walk'.net = walk.net
        /\ walk'.excluded = walk.excluded \cup (walk.net.named \ walk.net.backbone)
    BY <2>1 DEF Typed, Walking
  <2>3. walk.net \in Nets /\ walk.excluded \subseteq walk.net.nodes
    BY <2>1 DEF Typed, Walking
  <2>4. Upstream(walk.net) \subseteq walk.excluded
    <3> DEFINE S == walk.excluded \cup walk.net.backbone
    <3>1. S \in SUBSET walk.net.nodes
      BY <2>3, ReleaseConstants
    <3>2. S = Reached
      BY <2>1 DEF Reached
    <3>3. Closed(walk.net, S)
      BY <2>1, <3>2 DEF Walked, Closed
    <3>4. QED
      BY <3>1, <3>3 DEF Upstream
  <2>5. QED
    BY <2>1, <2>2, <2>4 DEF Walked
<1>4. ASSUME pc' \notin {"walk", "quantise"}
      PROVE  Walked'
  BY <1>4 DEF Walked
<1>5. ASSUME UNCHANGED <<walk, pc>>
      PROVE  Walked'
  BY <1>5 DEF Walked, Reached
<1>6. ASSUME NEW s \in Sources, Train(s) \/ Fit(s)
      PROVE  Walked'
  BY <1>4, <1>5, <1>6 DEF Train, Fit, Leave
<1>7. CASE StartExport \/ StartQuantise \/ StartUpload \/ GenerateFixtures
  <2>1. pc' \in {"idle", "export", "load", "tag", "upload"}
    BY <1>7 DEF StartExport, StartQuantise, StartUpload, GenerateFixtures, Leave
  <2>2. QED
    BY <1>4, <2>1
<1>8. CASE ExportModel \/ Validate \/ EndExport \/ Quantise \/ Verify \/ EndQuantise
           \/ UploadFolder \/ CreateTag \/ Interrupt
  <2>1. pc' \in {"validate", "bundle", "idle", "copy", "close", "tag"}
    BY <1>8 DEF ExportModel, Validate, EndExport, Quantise, Verify, EndQuantise,
                UploadFolder, CreateTag, Interrupt, Leave
  <2>2. QED
    BY <1>4, <2>1
<1>9. CASE Write \/ Done \/ UNCHANGED vars
  BY <1>5, <1>9 DEF Write, Done, vars
<1>10. QED
  BY <1>1, <1>2, <1>3, <1>6, <1>7, <1>8, <1>9 DEF Next, Step

(* For any graph: whatever the order in which tensors are taken from the   *)
(* queue, everything between the logits and the backbone is left alone,    *)
(* and every matrix of the backbone is not.                                *)
THEOREM HeadsAreLeftAlone == Spec => []HeadStaysFp32
<1>1. Init => Walked
  BY DEF Init, Walked
<1>2. Typed /\ Walked => HeadStaysFp32
  <2> SUFFICES ASSUME Typed, Walked, pc = "quantise"
               PROVE  /\ Int8 \cap Upstream(walk.net) = {}
                      /\ walk.net.matmul \cap walk.net.backbone \subseteq Int8
    BY DEF HeadStaysFp32
  <2>1. QED
    BY DEF Walked, Int8
<1>3. QED
  BY <1>1, <1>2, StepWalked, AlwaysTyped, PTL DEF Spec

-----------------------------------------------------------------------------
(* The expected answers. *)

Computed == fixture = NoFixture \/ \E s \in Scenarios : fixture = Expected(s)

LEMMA StepComputed == Computed /\ [Next]_vars => Computed'
<1> SUFFICES ASSUME Computed, Next \/ UNCHANGED vars
             PROVE  Computed'
  BY DEF Computed
<1>1. CASE GenerateFixtures
  BY <1>1 DEF GenerateFixtures, Computed
<1>2. ASSUME UNCHANGED fixture
      PROVE  Computed'
  BY <1>2 DEF Computed
<1>3. ASSUME NEW s \in Sources, Train(s) \/ Fit(s)
      PROVE  UNCHANGED fixture
  BY <1>3 DEF Train, Fit
<1>4. CASE StartExport \/ StartQuantise \/ StartUpload \/ Interrupt \/ Done \/ UNCHANGED vars
  BY <1>2, <1>4 DEF StartExport, StartQuantise, StartUpload, Interrupt, Done, vars
<1>5. CASE Step
  BY <1>2, <1>5 DEF Step, ExportModel, Validate, Write, EndExport, LoadGraph,
             Traverse, Protect, Quantise, Verify, EndQuantise, UploadFolder,
             CreateTag
<1>6. QED
  BY <1>1, <1>2, <1>3, <1>4, <1>5 DEF Next

(* One answer: the server is no more lenient, and where nothing but the    *)
(* thresholds counts it decides alike.                                     *)
LEMMA ServerIsStricter ==
  ASSUME NEW type \in Types, NEW r \in Reading, NEW c \in GatingConfig,
         Possible(type, r)
  PROVE  LET expected == DecideRoute(type, r, c)
             server == ServerRoute(type, r, c) IN
         /\ expected \in Routes /\ server \in Routes
         /\ Severity[server] >= Severity[expected]
         /\ (/\ ~IsOod(type, r, c) /\ ~r.bimodal
             /\ type = "noul" => c.margin <= c.high) => server = expected
<1> DEFINE expected == DecideRoute(type, r, c)
           plain == RouteFor(type, r, c)
           server == ServerRoute(type, r, c)
<1>1. /\ expected \in Routes /\ plain \in Routes
  BY DEF DecideRoute, RouteFor, Routes
<1>2. /\ r.conf \in Int /\ r.margin \in Int /\ r.bimodal \in BOOLEAN
      /\ c.high \in Int /\ c.low \in Int /\ c.margin \in Int /\ Eps \in Int
  BY EpsAssumption, UnitAssumption DEF Reading, Share, GatingConfig
<1>3. server = IF r.bimodal /\ plain = "auto" THEN "confirm" ELSE plain
  BY DEF ServerRoute, Evaluate, Demote
<1>4. \/ plain = "fallback"
      \/ ~IsOod(type, r, c) /\ plain = expected
      \/ ~IsOod(type, r, c) /\ type = "noul" /\ plain = "confirm" /\ expected = "auto"
         /\ Reaches(r.conf, c.high) /\ ~Reaches(r.margin, c.margin)
  BY DEF DecideRoute, RouteFor
<1>5. /\ server \in Routes
      /\ Severity[server] >= Severity[expected]
  BY <1>1, <1>3, <1>4 DEF Routes, Severity
<1>6. ASSUME ~IsOod(type, r, c), ~r.bimodal, type = "noul" => c.margin <= c.high
      PROVE  server = expected
  <2>1. server = plain
    BY <1>3, <1>6
  <2>2. type = "noul" /\ Reaches(r.conf, c.high) => Reaches(r.margin, c.margin)
    <3> SUFFICES ASSUME type = "noul", Reaches(r.conf, c.high)
                 PROVE  Reaches(r.margin, c.margin)
      OBVIOUS
    <3>1. r.conf = r.margin
      BY DEF Possible
    <3>2. QED
      BY <1>2, <1>6, <3>1 DEF Reaches
  <2>3. plain = expected
    BY <1>6, <2>2 DEF DecideRoute, RouteFor, Types
  <2>4. QED
    BY <2>1, <2>3
<1>7. QED
  BY <1>1, <1>5, <1>6

(* The worst route, found in a set and by counting.                        *)
LEMMA WorstIsWorst ==
  ASSUME NEW D, IsFiniteSet(D), NEW f \in [D -> Routes]
  PROVE  AggregateRoute({f[i] : i \in D}) =
           Aggregate([r \in Routes |-> Cardinality({i \in D : f[i] = r})])
<1> DEFINE Those(r) == {i \in D : f[i] = r}
           count == [r \in Routes |-> Cardinality(Those(r))]
<1>1. \A r \in Routes : (Cardinality(Those(r)) > 0 <=> r \in {f[i] : i \in D})
  <2> TAKE r \in Routes
  <2>1. IsFiniteSet(Those(r))
    BY FS_Subset
  <2>2. Cardinality(Those(r)) \in Nat /\ (Cardinality(Those(r)) = 0 <=> Those(r) = {})
    BY <2>1, FS_CardinalityType, FS_EmptySet
  <2>3. QED
    BY <2>2
<1>2. count["fallback"] > 0 <=> "fallback" \in {f[i] : i \in D}
  BY <1>1 DEF Routes
<1>3. count["confirm"] > 0 <=> "confirm" \in {f[i] : i \in D}
  BY <1>1 DEF Routes
<1> HIDE DEF count
<1>4. Aggregate(count) = AggregateRoute({f[i] : i \in D})
  BY <1>2, <1>3 DEF Aggregate, AggregateRoute
<1>5. QED
  BY <1>4 DEF count

\* What FixturesMatchServer says of one set of answers.
PlainAnswer(x) ==
  /\ ~IsOod(x.type, x.reading, x.gating) /\ ~x.reading.bimodal
  /\ x.type = "noul" => x.gating.margin <= x.gating.high

LEMMA ExpectedAnswer ==
  ASSUME NEW s \in Scenarios, NEW i \in DOMAIN s.questions
  PROVE  LET x == Expected(s).answers[i] IN
         /\ x.type = s.questions[i].type /\ x.reading = s.questions[i].reading
         /\ x.gating = s.gating
         /\ x.route = DecideRoute(x.type, x.reading, x.gating)
         /\ x.route \in Routes /\ ServerRoute(x.type, x.reading, x.gating) \in Routes
         /\ Severity[ServerRoute(x.type, x.reading, x.gating)] >= Severity[x.route]
         /\ PlainAnswer(x) => ServerRoute(x.type, x.reading, x.gating) = x.route
<1> DEFINE q == s.questions[i]
           x == Expected(s).answers[i]
<1>1. x = [type |-> q.type, count |-> q.count, reading |-> q.reading,
           gating |-> s.gating, route |-> DecideRoute(q.type, q.reading, s.gating)]
  BY DEF Expected
<1>2. q \in Question /\ Possible(q.type, q.reading) /\ s.gating \in GatingConfig
  BY ScenariosAssumption, ElementOfSeq
<1>3. q.type \in Types /\ q.reading \in Reading
  BY <1>2 DEF Question
<1> HIDE DEF q, x
<1>4. /\ x.type = q.type /\ x.reading = q.reading /\ x.gating = s.gating
      /\ x.route = DecideRoute(q.type, q.reading, s.gating)
  BY <1>1
<1>5. /\ x.route \in Routes /\ ServerRoute(q.type, q.reading, s.gating) \in Routes
      /\ Severity[ServerRoute(q.type, q.reading, s.gating)] >= Severity[x.route]
      /\ (/\ ~IsOod(q.type, q.reading, s.gating) /\ ~q.reading.bimodal
          /\ q.type = "noul" => s.gating.margin <= s.gating.high)
            => ServerRoute(q.type, q.reading, s.gating) = x.route
  BY <1>2, <1>3, <1>4, ServerIsStricter
<1>6. QED
  BY <1>4, <1>5 DEF PlainAnswer, q, x

LEMMA ComputedMatch == Computed => FixturesMatchServer
<1>1. ASSUME fixture = NoFixture
      PROVE  FixturesMatchServer
  BY <1>1 DEF NoFixture, FixturesMatchServer
<1>2. ASSUME NEW s \in Scenarios, fixture = Expected(s)
      PROVE  FixturesMatchServer
  <2> DEFINE D == DOMAIN s.questions
             a == fixture.answers
             route == [i \in D |-> a[i].route]
             server == [i \in DOMAIN a |-> ServerRoute(a[i].type, a[i].reading, a[i].gating)]
  <2>1. D = DOMAIN a /\ IsFiniteSet(D)
    <3>1. D = DOMAIN a
      BY <1>2 DEF Expected
    <3>2. D = 1..Len(s.questions) /\ Len(s.questions) \in Nat
      BY ScenariosAssumption
    <3>3. QED
      BY <3>1, <3>2, FS_Interval
  <2>2. \A i \in D : /\ a[i].route \in Routes /\ server[i] \in Routes
                     /\ Severity[server[i]] >= Severity[a[i].route]
                     /\ PlainAnswer(a[i]) => server[i] = a[i].route
    BY <1>2, <2>1, ExpectedAnswer
  <2>3. fixture.aggregate = AggregateRoute({route[i] : i \in D})
    <3>1. fixture.aggregate = AggregateRoute({a[i].route : i \in DOMAIN a})
      BY <1>2 DEF Expected
    <3>2. {a[i].route : i \in DOMAIN a} = {route[i] : i \in D}
      BY <2>1
    <3>3. QED
      BY <3>1, <3>2
  <2>4. route \in [D -> Routes]
    BY <2>2
  <2>5. (\A i \in DOMAIN a : PlainAnswer(a[i])) =>
          fixture.aggregate =
            Aggregate([r \in Routes |-> Cardinality({i \in DOMAIN a : server[i] = r})])
    <3> SUFFICES ASSUME \A i \in DOMAIN a : PlainAnswer(a[i])
                 PROVE  fixture.aggregate =
                          Aggregate([r \in Routes |-> Cardinality({i \in DOMAIN a : server[i] = r})])
      OBVIOUS
    <3>1. \A r \in Routes : {i \in DOMAIN a : server[i] = r} = {i \in D : route[i] = r}
      BY <2>1, <2>2
    <3>2. [r \in Routes |-> Cardinality({i \in DOMAIN a : server[i] = r})]
            = [r \in Routes |-> Cardinality({i \in D : route[i] = r})]
      BY <3>1
    <3> HIDE DEF D, a, route, server
    <3>3. AggregateRoute({route[i] : i \in D})
            = Aggregate([r \in Routes |-> Cardinality({i \in D : route[i] = r})])
      BY <2>1, <2>4, WorstIsWorst
    <3>4. QED
      BY <2>3, <3>2, <3>3
  <2>6. QED
    BY <2>1, <2>2, <2>5 DEF FixturesMatchServer, PlainAnswer
<1>3. QED
  BY <1>1, <1>2 DEF Computed

(* For any scenarios with readings that the formulas can give: the server  *)
(* is never more lenient than the expected answers, and agrees with them   *)
(* where nothing but the thresholds counts.                                *)
THEOREM FixturesAgree == Spec => []FixturesMatchServer
<1>1. Init => Computed
  BY DEF Init, Computed
<1>2. QED
  BY <1>1, StepComputed, ComputedMatch, PTL DEF Spec

-----------------------------------------------------------------------------
(* A bundle of one job. *)

\* The files of a bundle, of a copy and of the last step, each to be written
\* once.
BundleFiles == {Bundle[i] : i \in DOMAIN Bundle}
CopiedFiles == {Put(Copied[i], disk["default"][Copied[i]]) : i \in DOMAIN Copied}
LastFile ==
  LET m == disk["quantized"]["model"] IN
  Put("metadata", Content("quantize_metadata", jobs, m.of,
                          IF args.check THEN m.ok ELSE TRUE))

ToWrite == {todo[j] : j \in DOMAIN todo}

\* Each file of a list is written or is still to be.
Owed(list, b) ==
  /\ ToWrite \subseteq list
  /\ \A p \in list :
       p \in ToWrite \/ p.content = None \/ disk[b][p.file] = p.content

\* The job came to its end.
Over == pc = "idle" /\ exit = "ok"

ModelExported ==
  kind = "export" /\ (pc \in {"validate", "bundle"} \/ Over) =>
    disk["default"]["model"].job = jobs /\ disk["default"]["model"].of = args.weights

BundleUnderWay ==
  kind = "export" /\ (pc = "bundle" \/ Over) =>
    /\ args.check => disk["default"]["model"].ok
    /\ Owed(BundleFiles, "default")

ModelQuantised ==
  kind = "quantise" /\ (pc \in {"copy", "close"} \/ Over) =>
    /\ disk["quantized"]["model"].job = jobs
    /\ disk["quantized"]["model"].of = disk["default"]["model"].of

CopyUnderWay == pc = "copy" => Owed(CopiedFiles, "quantized")

CopyDone ==
  kind = "quantise" /\ (pc = "close" \/ Over) =>
    /\ \A p \in CopiedFiles :
         p.content = None \/ disk["quantized"][p.file] = p.content
    /\ Owed({LastFile}, "quantized")

Ended ==
  /\ pc \in {"export", "validate", "upload", "tag"} \/ Over => todo = <<>>
  /\ Over /\ kind = "quantise" => disk["quantized"]["metadata"].ok

Sealing == /\ ModelExported /\ BundleUnderWay /\ ModelQuantised
           /\ CopyUnderWay /\ CopyDone /\ Ended

-----------------------------------------------------------------------------
(* The lists. *)

LEMMA BundleListed ==
  ASSUME Ledger, Job
  PROVE  /\ BundleFiles =
              {Put("tokenizer", Content("tokenizer", jobs, args.weights, FALSE)),
               Put("config", Content("config", jobs, args.weights, FALSE)),
               Put("calibration", CalibrationFile(args.calibration)),
               Put("metadata", Content("export_metadata", jobs, args.weights, args.check))}
         /\ BundleFiles \subseteq Puts
         /\ \A p \in BundleFiles : p.content # None /\ p.file # "model"
         /\ \A p, q \in BundleFiles : p.file = q.file => p = q
<1> DEFINE a == Put("tokenizer", Content("tokenizer", jobs, args.weights, FALSE))
           b == Put("config", Content("config", jobs, args.weights, FALSE))
           c == Put("calibration", CalibrationFile(args.calibration))
           d == Put("metadata",
                    Content("export_metadata", jobs, args.weights, args.check))
<1>1. Bundle = <<a, b, c, d>>
  BY DEF Bundle
<1>2. /\ a.file = "tokenizer" /\ b.file = "config" /\ c.file = "calibration"
      /\ d.file = "metadata"
      /\ a.content # None /\ b.content # None /\ d.content # None
  BY DEF Put, Content, None
<1>3. c.content # None
  BY CalibrationTyped DEF Put, Job, Args, NoSuchFile
<1>4. Bundle \in Seq(Puts)
  BY BundleTyped
<1> HIDE DEF a, b, c, d
<1>5. BundleFiles = {a, b, c, d}
  BY <1>1 DEF BundleFiles
<1>6. BundleFiles \subseteq Puts
  BY <1>4 DEF BundleFiles
<1>7. QED
  BY <1>2, <1>3, <1>5, <1>6 DEF a, b, c, d

LEMMA CopiesListed ==
  ASSUME Folders
  PROVE  /\ CopiedFiles \subseteq Puts
         /\ \A p \in CopiedFiles : /\ p.file \in {"tokenizer", "calibration", "config"}
                                   /\ p.content = disk["default"][p.file]
         /\ \A p, q \in CopiedFiles : p.file = q.file => p = q
<1>1. CopiedFiles = {Put(f, disk["default"][f]) : f \in {"tokenizer", "calibration", "config"}}
  BY DEF CopiedFiles, Copied
<1>2. \A f \in File : disk["default"][f] \in Contents
  BY OneFile DEF Bundles
<1>3. QED
  BY <1>1, <1>2 DEF Put, Puts, File

LEMMA LastListed ==
  ASSUME Folders, Job
  PROVE  /\ LastFile \in Puts /\ LastFile.file = "metadata" /\ LastFile.content # None
         /\ LastFile.content.job = jobs
         /\ LastFile.content.of = disk["quantized"]["model"].of
         /\ LastFile.content.ok <=> (args.check => disk["quantized"]["model"].ok)
<1> DEFINE m == disk["quantized"]["model"]
<1>1. m \in Contents
  BY OneFile DEF Bundles, File
<1> DEFINE ok == IF args.check THEN m.ok ELSE TRUE
           c == Content("quantize_metadata", jobs, m.of, ok)
<1>2. m.of \in 0..MaxTrained /\ ok \in BOOLEAN
  BY <1>1 DEF Contents
<1>3. ok <=> (args.check => m.ok)
  BY <1>1 DEF Contents
<1>4. LastFile = [file |-> "metadata", content |-> c]
  BY DEF LastFile, Put
<1> HIDE DEF m, ok
<1>5. c \in Contents
  BY <1>2, ContentTyped DEF Job
<1>6. c.job = jobs /\ c.of = m.of /\ c.ok = ok /\ c # None
  BY DEF Content, None
<1> HIDE DEF c
<1>7. LastFile.file = "metadata" /\ LastFile.content = c /\ LastFile \in Puts
  BY <1>4, <1>5 DEF Puts, File
<1>8. QED
  BY <1>3, <1>6, <1>7 DEF m

LEMMA FirstToWrite ==
  ASSUME Queued, todo # <<>>
  PROVE  /\ Head(todo) \in Puts
         /\ {todo[j] : j \in DOMAIN todo}
              = {Head(todo)} \cup {Tail(todo)[j] : j \in DOMAIN Tail(todo)}
<1>1. todo \in Seq(Puts)
  BY DEF Queued
<1>2. QED
  BY <1>1, HeadAndTail, ZenonT(20)

(* One file of a list is written, and nothing but the files of the list.   *)
LEMMA WriteKeeps ==
  ASSUME Typed, Write, NEW list \in SUBSET Puts, Owed(list, Target),
         \A p, q \in list : p.file = q.file => p = q
  PROVE  /\ {todo'[j] : j \in DOMAIN todo'} \subseteq list
         /\ \A p \in list : \/ p \in {todo'[j] : j \in DOMAIN todo'}
                            \/ p.content = None
                            \/ disk'[Target][p.file] = p.content
         /\ \A b \in Bundles, f \in File :
              b # Target \/ (\A p \in list : p.file # f) => disk'[b][f] = disk[b][f]
<1> DEFINE h == Head(todo)
           rest == {todo'[j] : j \in DOMAIN todo'}
<1>1. todo \in Seq(Puts) /\ todo # <<>> /\ todo' = Tail(todo)
  BY DEF Typed, Queued, Write
<1>2. h \in Puts /\ ToWrite = {h} \cup rest
  <2>1. /\ Head(todo) \in Puts
        /\ {todo[j] : j \in DOMAIN todo}
             = {Head(todo)} \cup {Tail(todo)[j] : j \in DOMAIN Tail(todo)}
    BY FirstToWrite DEF Typed, Write
  <2>2. QED
    BY <1>1, <2>1 DEF ToWrite
<1>3. h \in list /\ rest \subseteq list
  BY <1>2 DEF Owed
<1>4. disk' = IF h.content = None THEN disk
              ELSE [disk EXCEPT ![Target][h.file] = h.content]
  BY DEF Write
<1>5. \A b \in Bundles, f \in File :
        disk'[b][f] = IF h.content # None /\ b = Target /\ f = h.file
                        THEN h.content ELSE disk[b][f]
  <2>1. h.file \in File /\ h.content \in Contents
    BY <1>2 DEF Puts
  <2>2. disk \in [Bundles -> Folder]
    BY DEF Typed, Folders
  <2> HIDE DEF h
  <2>3. QED
    BY <1>4, <2>1, <2>2, PutInto, TargetIsBundle
<1>6. \A p \in list : p \in rest \/ p.content = None \/ disk'[Target][p.file] = p.content
  <2> TAKE p \in list
  <2>1. p.file \in File
    BY DEF Puts
  <2>2. CASE p = h
    BY <1>5, <2>1, <2>2, TargetIsBundle
  <2>3. CASE p # h
    <3>1. p.file # h.file
      BY <1>3, <2>3
    <3>2. disk'[Target][p.file] = disk[Target][p.file]
      BY <1>5, <2>1, <3>1, TargetIsBundle
    <3>3. QED
      BY <1>2, <2>3, <3>2 DEF Owed
  <2>4. QED
    BY <2>2, <2>3
<1>7. \A b \in Bundles, f \in File :
        b # Target \/ (\A p \in list : p.file # f) => disk'[b][f] = disk[b][f]
  BY <1>3, <1>5
<1>8. QED
  BY <1>3, <1>6, <1>7

-----------------------------------------------------------------------------
LEMMA InitSealing == Init => Sealing
BY DEF Init, Sealing, ModelExported, BundleUnderWay, ModelQuantised, CopyUnderWay,
       CopyDone, Ended, Over

\* What Sealing is about.
scope == <<saved, disk, jobs, kind, args, pc, exit, todo>>

LEMMA SealingFrame ==
  ASSUME Sealing, UNCHANGED scope
  PROVE  Sealing'
<1>1. /\ UNCHANGED <<disk, jobs, kind, args, pc, exit, todo>>
      /\ Bundle' = Bundle
  BY DEF scope, Bundle, CalibrationFile
<1>2. /\ BundleFiles' = BundleFiles /\ CopiedFiles' = CopiedFiles
      /\ LastFile' = LastFile /\ ToWrite' = ToWrite /\ Over' = Over
  BY <1>1 DEF BundleFiles, CopiedFiles, LastFile, ToWrite, Over
<1>3. QED
  BY <1>1, <1>2 DEF Sealing, ModelExported, BundleUnderWay, ModelQuantised,
     CopyUnderWay, CopyDone, Ended, Owed

(* A job begins, or ends without having done its work.                     *)
LEMMA SealingVacuous ==
  ASSUME todo' = <<>>,
         pc' \in {"export", "load", "upload", "tag"} \/
           (pc' = "idle" /\ (exit' # "ok" \/ kind' \notin {"export", "quantise"}))
  PROVE  Sealing'
BY DEF Sealing, ModelExported, BundleUnderWay, ModelQuantised, CopyUnderWay,
       CopyDone, Ended, Over

LEMMA SealingInterrupted ==
  ASSUME pc' = "idle", exit' # "ok"
  PROVE  Sealing'
BY DEF Sealing, ModelExported, BundleUnderWay, ModelQuantised, CopyUnderWay,
       CopyDone, Ended, Over

LEMMA KindOfPhase ==
  ASSUME Job
  PROVE  /\ pc \in {"export", "validate", "bundle"} => kind = "export"
         /\ pc \in {"load", "walk", "quantise", "copy", "close"} => kind = "quantise"
         /\ pc \in {"upload", "tag"} => kind = "upload"
BY DEF Job, Kinds, Phases

(* The steps of an export. *)
LEMMA SealingExport ==
  ASSUME Typed, Sealing, ExportModel \/ Validate \/ EndExport
  PROVE  Sealing'
<1>0. Ledger /\ Job /\ Folders /\ Ledger' /\ Job' /\ kind = "export"
      /\ UNCHANGED <<saved, jobs, kind, args>>
  <2>1. UNCHANGED <<saved, jobs, kind, args>>
    BY DEF ExportModel, Validate, EndExport, outside
  <2>2. Ledger' /\ Job'
    BY StepLedger, StepJob DEF Next, Step
  <2>3. kind = "export"
    BY KindOfPhase DEF ExportModel, Validate, EndExport, Typed
  <2>4. QED
    BY <2>1, <2>2, <2>3 DEF Typed
<1>1. CASE ExportModel
  <2>1. PICK ok \in BOOLEAN :
          disk' = [disk EXCEPT !["default"]["model"] = Content("fp32", jobs, args.weights, ok)]
    BY <1>1 DEF ExportModel
  <2>2. Content("fp32", jobs, args.weights, ok) \in Contents
    BY <1>0, ContentTyped DEF Job, Args
  <2>3. disk'["default"]["model"] = Content("fp32", jobs, args.weights, ok)
    BY <1>0, <2>1, <2>2, PutInto DEF Folders, Bundles, File
  <2>4. disk'["default"]["model"].job = jobs /\ disk'["default"]["model"].of = args.weights
    BY <2>3 DEF Content
  <2>5. pc' = "validate" /\ todo' = <<>>
    BY <1>1 DEF ExportModel, Sealing, Ended
  <2>6. QED
    BY <1>0, <2>4, <2>5 DEF Sealing, ModelExported, BundleUnderWay, ModelQuantised,
       CopyUnderWay, CopyDone, Ended, Over
<1>2. CASE Validate
  <2>1. CASE pc' = "bundle"
    <3>1. /\ todo' = Bundle /\ disk' = disk /\ pc = "validate"
          /\ args.check => disk["default"]["model"].ok
      BY <1>2, <2>1 DEF Validate, Leave
    <3>2. Bundle' = Bundle
      BY <1>0 DEF Bundle, CalibrationFile
    <3>3. ToWrite' = BundleFiles'
      BY <3>1, <3>2 DEF ToWrite, BundleFiles
    <3>4. disk["default"]["model"].job = jobs /\ disk["default"]["model"].of = args.weights
      BY <1>0, <3>1 DEF Sealing, ModelExported
    <3>5. ModelExported'
      BY <1>0, <3>1, <3>4 DEF ModelExported
    <3>6. BundleUnderWay'
      BY <1>0, <3>1, <3>3 DEF BundleUnderWay, Owed
    <3>7. QED
      BY <1>0, <2>1, <3>5, <3>6 DEF Sealing, ModelQuantised, CopyUnderWay, CopyDone,
         Ended, Over
  <2>2. CASE pc' # "bundle"
    <3>1. pc' = "idle" /\ exit' = "error"
      BY <1>2, <2>2 DEF Validate, Leave
    <3>2. QED
      BY <3>1, SealingInterrupted
  <2>3. QED
    BY <2>1, <2>2
<1>3. CASE EndExport
  <2>1. /\ pc = "bundle" /\ todo = <<>> /\ todo' = <<>> /\ disk' = disk
        /\ pc' = "idle"
    BY <1>3 DEF EndExport, Leave
  <2>2. Bundle' = Bundle
    BY <1>0 DEF Bundle, CalibrationFile
  <2>3. BundleFiles' = BundleFiles /\ ToWrite' = ToWrite
    BY <2>1, <2>2 DEF BundleFiles, ToWrite
  <2>4. ModelExported'
    BY <1>0, <2>1 DEF Sealing, ModelExported
  <2>5. BundleUnderWay'
    BY <1>0, <2>1, <2>3 DEF Sealing, BundleUnderWay, Owed
  <2>6. QED
    BY <1>0, <2>1, <2>4, <2>5 DEF Sealing, ModelQuantised, CopyUnderWay, CopyDone,
       Ended, Over
<1>4. QED
  BY <1>1, <1>2, <1>3

(* The steps of a quantisation. *)
LEMMA SealingQuantise ==
  ASSUME Typed, Sealing,
         LoadGraph \/ Traverse \/ Protect \/ Quantise \/ Verify \/ EndQuantise
  PROVE  Sealing'
<1>0. Job /\ Folders /\ Folders' /\ Job' /\ kind = "quantise"
      /\ UNCHANGED <<saved, jobs, kind, args>>
  <2>1. UNCHANGED <<saved, jobs, kind, args>>
    BY DEF LoadGraph, Traverse, Protect, Quantise, Verify, EndQuantise, outside
  <2>2. Folders' /\ Job'
    BY StepFolders, StepJob DEF Next, Step
  <2>3. kind = "quantise"
    BY KindOfPhase DEF LoadGraph, Traverse, Protect, Quantise, Verify, EndQuantise, Typed
  <2>4. QED
    BY <2>1, <2>2, <2>3 DEF Typed
<1>1. CASE LoadGraph \/ Traverse \/ Protect
  <2>1. pc' \in {"walk", "quantise"}
    BY <1>1 DEF LoadGraph, Traverse, Protect
  <2>2. QED
    BY <1>0, <2>1 DEF Sealing, ModelExported, BundleUnderWay, ModelQuantised,
       CopyUnderWay, CopyDone, Ended, Over
<1>2. CASE Quantise
  <2>1. PICK ok \in BOOLEAN :
          disk' = [disk EXCEPT !["quantized"]["model"] =
                     Content("int8", jobs, disk["default"]["model"].of, ok)]
    BY <1>2 DEF Quantise
  <2> DEFINE c == Content("int8", jobs, disk["default"]["model"].of, ok)
  <2>2. c \in Contents /\ c.job = jobs /\ c.of = disk["default"]["model"].of
    <3>1. disk["default"]["model"].of \in 0..MaxTrained
      BY <1>0, OneFile DEF Bundles, File, Contents
    <3>2. c \in Contents
      BY <1>0, <3>1, ContentTyped DEF Job
    <3>3. QED
      BY <3>2 DEF Content
  <2> HIDE DEF c
  <2>3. /\ disk'["quantized"]["model"] = c
        /\ \A f \in File : disk'["default"][f] = disk["default"][f]
    <3>1. disk \in [Bundles -> Folder]
      BY <1>0 DEF Folders
    <3>2. disk' = [disk EXCEPT !["quantized"]["model"] = c]
      BY <2>1 DEF c
    <3>3. QED
      BY <2>2, <3>1, <3>2, PutInto DEF Bundles, File
  <2>4. ModelQuantised'
    BY <1>0, <2>2, <2>3 DEF ModelQuantised, File
  <2>5. todo' = [i \in DOMAIN Copied |-> Put(Copied[i], disk["default"][Copied[i]])]
        /\ pc' = "copy"
    BY <1>2 DEF Quantise
  <2>6. \A i \in DOMAIN Copied : disk'["default"][Copied[i]] = disk["default"][Copied[i]]
    BY <2>3 DEF Copied, File
  <2>7. ToWrite' = CopiedFiles'
    BY <2>5, <2>6 DEF ToWrite, CopiedFiles
  <2>8. CopyUnderWay'
    BY <2>7 DEF CopyUnderWay, Owed
  <2>9. QED
    BY <1>0, <2>4, <2>5, <2>8 DEF Sealing, ModelExported, BundleUnderWay, CopyDone,
       Ended, Over
<1>3. CASE Verify
  <2>1. /\ pc = "copy" /\ todo = <<>> /\ disk' = disk /\ pc' = "close"
        /\ todo' = <<LastFile>>
    BY <1>3 DEF Verify, LastFile
  <2>2. LastFile' = LastFile /\ CopiedFiles' = CopiedFiles
    BY <1>0, <2>1 DEF LastFile, CopiedFiles
  <2>3. ToWrite' = {LastFile'}
    BY <2>1, <2>2 DEF ToWrite
  <2>4. \A p \in CopiedFiles : p.content = None \/ disk["quantized"][p.file] = p.content
    BY <2>1 DEF Sealing, CopyUnderWay, Owed, ToWrite
  <2>5. CopyDone'
    BY <2>1, <2>2, <2>3, <2>4 DEF CopyDone, Owed
  <2>6. ModelQuantised'
    BY <1>0, <2>1 DEF Sealing, ModelQuantised
  <2>7. QED
    BY <1>0, <2>1, <2>5, <2>6 DEF Sealing, ModelExported, BundleUnderWay, CopyUnderWay,
       Ended, Over
<1>4. CASE EndQuantise
  <2>1. /\ pc = "close" /\ todo = <<>> /\ todo' = <<>> /\ disk' = disk /\ pc' = "idle"
        /\ exit' = "ok" => disk["quantized"]["metadata"].ok
    BY <1>4 DEF EndQuantise, Leave
  <2>2. LastFile' = LastFile /\ CopiedFiles' = CopiedFiles /\ ToWrite' = ToWrite
    BY <1>0, <2>1 DEF LastFile, CopiedFiles, ToWrite
  <2>3. CopyDone'
    BY <1>0, <2>1, <2>2 DEF Sealing, CopyDone, Owed
  <2>4. ModelQuantised'
    BY <1>0, <2>1 DEF Sealing, ModelQuantised
  <2>5. QED
    BY <1>0, <2>1, <2>3, <2>4 DEF Sealing, ModelExported, BundleUnderWay, CopyUnderWay,
       Ended, Over
<1>5. QED
  BY <1>1, <1>2, <1>3, <1>4

(* The step that writes a file. *)
LEMMA SealingWrite ==
  ASSUME Typed, Sealing, Write
  PROVE  Sealing'
<1>0. /\ Ledger /\ Job /\ Folders /\ Folders' /\ Job'
      /\ UNCHANGED <<saved, jobs, kind, args, pc, exit>>
      /\ pc # "idle" /\ ~Over'
  <2>1. UNCHANGED <<saved, jobs, kind, args, pc, exit>> /\ pc # "idle"
    BY DEF Write, outside
  <2>2. Folders' /\ Job'
    BY StepFolders, StepJob DEF Next, Step
  <2>3. QED
    BY <2>1, <2>2 DEF Typed, Over
<1>1. CASE pc = "bundle"
  <2>1. kind = "export" /\ Target = "default"
    BY <1>0, <1>1, KindOfPhase DEF Target
  <2>2. /\ disk["default"]["model"].job = jobs
        /\ disk["default"]["model"].of = args.weights
        /\ args.check => disk["default"]["model"].ok
        /\ Owed(BundleFiles, Target)
    BY <1>1, <2>1 DEF Sealing, ModelExported, BundleUnderWay
  <2>3. /\ BundleFiles \in SUBSET Puts
        /\ \A p \in BundleFiles : p.file # "model"
        /\ \A p, q \in BundleFiles : p.file = q.file => p = q
    BY <1>0, BundleListed
  <2>4. BundleFiles' = BundleFiles
    BY <1>0 DEF BundleFiles, Bundle, CalibrationFile
  <2>5. /\ ToWrite' \subseteq BundleFiles
        /\ \A p \in BundleFiles :
             p \in ToWrite' \/ p.content = None \/ disk'["default"][p.file] = p.content
        /\ disk'["default"]["model"] = disk["default"]["model"]
    BY <2>1, <2>2, <2>3, WriteKeeps DEF ToWrite, Bundles, File
  <2>6. Owed(BundleFiles, "default")'
    BY <2>4, <2>5 DEF Owed
  <2>7. ModelExported' /\ BundleUnderWay'
    BY <1>0, <2>2, <2>5, <2>6 DEF ModelExported, BundleUnderWay
  <2>8. QED
    BY <1>0, <1>1, <2>1, <2>7 DEF Sealing, ModelQuantised, CopyUnderWay, CopyDone, Ended
<1>2. CASE pc = "copy"
  <2>1. kind = "quantise" /\ Target = "quantized"
    BY <1>0, <1>2, KindOfPhase DEF Target
  <2>2. /\ disk["quantized"]["model"].job = jobs
        /\ disk["quantized"]["model"].of = disk["default"]["model"].of
        /\ Owed(CopiedFiles, Target)
    BY <1>2, <2>1 DEF Sealing, ModelQuantised, CopyUnderWay
  <2>3. /\ CopiedFiles \in SUBSET Puts
        /\ \A p \in CopiedFiles : p.file # "model"
        /\ \A p, q \in CopiedFiles : p.file = q.file => p = q
    BY <1>0, CopiesListed
  <2>4. /\ ToWrite' \subseteq CopiedFiles
        /\ \A p \in CopiedFiles :
             p \in ToWrite' \/ p.content = None \/ disk'["quantized"][p.file] = p.content
        /\ disk'["quantized"]["model"] = disk["quantized"]["model"]
        /\ \A f \in File : disk'["default"][f] = disk["default"][f]
    BY <2>1, <2>2, <2>3, WriteKeeps DEF ToWrite, Bundles, File
  <2>5. CopiedFiles' = CopiedFiles
    <3>1. \A i \in DOMAIN Copied : disk'["default"][Copied[i]] = disk["default"][Copied[i]]
      BY <2>4 DEF Copied, File
    <3>2. QED
      BY <3>1 DEF CopiedFiles
  <2>6. Owed(CopiedFiles, "quantized")'
    BY <2>4, <2>5 DEF Owed
  <2>7. ModelQuantised' /\ CopyUnderWay'
    BY <1>0, <2>2, <2>4, <2>6 DEF ModelQuantised, CopyUnderWay, File
  <2>8. QED
    BY <1>0, <1>2, <2>1, <2>7 DEF Sealing, ModelExported, BundleUnderWay, CopyDone, Ended
<1>3. CASE pc = "close"
  <2>1. kind = "quantise" /\ Target = "quantized"
    BY <1>0, <1>3, KindOfPhase DEF Target
  <2>2. /\ disk["quantized"]["model"].job = jobs
        /\ disk["quantized"]["model"].of = disk["default"]["model"].of
        /\ \A p \in CopiedFiles :
             p.content = None \/ disk["quantized"][p.file] = p.content
        /\ Owed({LastFile}, Target)
    BY <1>3, <2>1 DEF Sealing, ModelQuantised, CopyDone
  <2>3. {LastFile} \in SUBSET Puts /\ LastFile.file = "metadata"
    BY <1>0, LastListed
  <2>4. /\ ToWrite' \subseteq {LastFile}
        /\ \A p \in {LastFile} :
             p \in ToWrite' \/ p.content = None \/ disk'["quantized"][p.file] = p.content
        /\ \A f \in File : disk'["default"][f] = disk["default"][f]
        /\ \A f \in File \ {"metadata"} : disk'["quantized"][f] = disk["quantized"][f]
    BY <2>1, <2>2, <2>3, WriteKeeps DEF ToWrite, Bundles
  <2>5. CopiedFiles' = CopiedFiles
    <3>1. \A i \in DOMAIN Copied : disk'["default"][Copied[i]] = disk["default"][Copied[i]]
      BY <2>4 DEF Copied, File
    <3>2. QED
      BY <3>1 DEF CopiedFiles
  <2>6. disk'["quantized"]["model"] = disk["quantized"]["model"]
    BY <2>4 DEF File
  <2>7. LastFile' = LastFile
    BY <1>0, <2>6 DEF LastFile
  <2>8. Owed({LastFile}, "quantized")'
    BY <2>4, <2>7 DEF Owed
  <2>9. \A p \in CopiedFiles : disk'["quantized"][p.file] = disk["quantized"][p.file]
    BY <1>0, <2>4, CopiesListed DEF File
  <2>10. CopyDone'
    BY <2>2, <2>5, <2>8, <2>9 DEF CopyDone
  <2>11. ModelQuantised'
    BY <1>0, <2>2, <2>4, <2>6 DEF ModelQuantised, File
  <2>12. QED
    BY <1>0, <1>3, <2>1, <2>10, <2>11 DEF Sealing, ModelExported, BundleUnderWay,
       CopyUnderWay, Ended
<1>4. CASE pc \notin {"bundle", "copy", "close"}
  <2>1. pc \notin {"export", "validate", "upload", "tag"}
    BY DEF Write, Sealing, Ended
  <2>2. QED
    BY <1>0, <1>4, <2>1 DEF Sealing, ModelExported, BundleUnderWay, ModelQuantised,
       CopyUnderWay, CopyDone, Ended
<1>5. QED
  BY <1>1, <1>2, <1>3, <1>4

LEMMA StepSealing == Typed /\ Sealing /\ [Next]_vars => Sealing'
<1> SUFFICES ASSUME Typed, Sealing, Next \/ UNCHANGED vars
             PROVE  Sealing'
  OBVIOUS
<1>1. ASSUME NEW s \in Sources, Train(s)
      PROVE  Sealing'
  BY <1>1, SealingFrame DEF Train, scope
<1>2. ASSUME NEW s \in Sources, Fit(s)
      PROVE  Sealing'
  <2>1. todo' = <<>> /\ pc' = "idle" /\ kind' = "calibrate"
    BY <1>2 DEF Fit, Begin, Leave
  <2>2. QED
    BY <2>1, SealingVacuous
<1>3. CASE StartExport \/ StartQuantise \/ StartUpload \/ GenerateFixtures
  <2>1. todo' = <<>>
    BY <1>3 DEF StartExport, StartQuantise, StartUpload, GenerateFixtures, Begin
  <2>2. \/ pc' \in {"export", "load", "upload", "tag"}
        \/ pc' = "idle" /\ (exit' = "error" \/ kind' = "fixtures")
    BY <1>3 DEF StartExport, StartQuantise, StartUpload, GenerateFixtures, Begin, Leave
  <2>3. QED
    BY <2>1, <2>2, SealingVacuous
<1>4. CASE ExportModel \/ Validate \/ EndExport
  BY <1>4, SealingExport
<1>5. CASE LoadGraph \/ Traverse \/ Protect \/ Quantise \/ Verify \/ EndQuantise
  BY <1>5, SealingQuantise
<1>6. CASE UploadFolder \/ CreateTag
  <2>1. kind' = "upload"
    BY <1>6, KindOfPhase DEF UploadFolder, CreateTag, Typed
  <2>2. todo' = <<>>
    BY <1>6 DEF UploadFolder, CreateTag, Sealing, Ended
  <2>3. pc' \in {"tag", "idle"}
    BY <1>6 DEF UploadFolder, CreateTag, Leave
  <2>4. QED
    BY <2>1, <2>2, <2>3, SealingVacuous
<1>7. CASE Write
  BY <1>7, SealingWrite
<1>8. CASE Interrupt
  BY <1>8, SealingInterrupted DEF Interrupt, Leave
<1>9. CASE Done \/ UNCHANGED vars
  BY <1>9, SealingFrame DEF Done, vars, scope
<1>10. QED
  BY <1>1, <1>2, <1>3, <1>4, <1>5, <1>6, <1>7, <1>8, <1>9 DEF Next, Step

(* What is still owed at the end of a job is nothing. *)
LEMMA NothingOwed ==
  ASSUME NEW list, NEW b, Owed(list, b), todo = <<>>
  PROVE  \A p \in list : p.content = None \/ disk[b][p.file] = p.content
BY DEF Owed, ToWrite

LEMMA SealedAtTheEnd == Typed /\ Sealing => OneJobsBundle
<1> DEFINE d == disk["default"]
           q == disk["quantized"]
<1> SUFFICES ASSUME Typed, Sealing, Over
             PROVE  /\ kind = "export" =>
                         /\ \A f \in File \ {"calibration"} :
                              d[f].job = jobs /\ d[f].of = args.weights
                         /\ d["calibration"] = CalibrationFile(args.calibration)
                         /\ d["metadata"].ok = args.check /\ (args.check => d["model"].ok)
                    /\ kind = "quantise" =>
                         /\ q["model"].job = jobs /\ q["metadata"].job = jobs
                         /\ q["model"].of = d["model"].of /\ q["metadata"].of = d["model"].of
                         /\ q["metadata"].ok /\ (args.check => q["model"].ok)
                         /\ \A i \in DOMAIN Copied :
                              d[Copied[i]] # None => q[Copied[i]] = d[Copied[i]]
  BY DEF OneJobsBundle, Over
<1>0. todo = <<>> /\ Ledger /\ Job /\ Folders
  BY DEF Sealing, Ended, Typed
<1>1. ASSUME kind = "export"
      PROVE  /\ \A f \in File \ {"calibration"} :
                  d[f].job = jobs /\ d[f].of = args.weights
             /\ d["calibration"] = CalibrationFile(args.calibration)
             /\ d["metadata"].ok = args.check /\ (args.check => d["model"].ok)
  <2>1. /\ d["model"].job = jobs /\ d["model"].of = args.weights
        /\ args.check => d["model"].ok
        /\ Owed(BundleFiles, "default")
    BY <1>1 DEF Sealing, ModelExported, BundleUnderWay
  <2>2. \A p \in BundleFiles : d[p.file] = p.content
    BY <1>0, <2>1, NothingOwed, BundleListed
  <2> DEFINE x == Put("tokenizer", Content("tokenizer", jobs, args.weights, FALSE))
             y == Put("config", Content("config", jobs, args.weights, FALSE))
             z == Put("calibration", CalibrationFile(args.calibration))
             w == Put("metadata", Content("export_metadata", jobs, args.weights, args.check))
  <2>3. {x, y, z, w} \subseteq BundleFiles
    BY <1>0, BundleListed
  <2>4. /\ d["tokenizer"] = Content("tokenizer", jobs, args.weights, FALSE)
        /\ d["config"] = Content("config", jobs, args.weights, FALSE)
        /\ d["calibration"] = CalibrationFile(args.calibration)
        /\ d["metadata"] = Content("export_metadata", jobs, args.weights, args.check)
    <3>1. d[x.file] = x.content /\ d[y.file] = y.content
          /\ d[z.file] = z.content /\ d[w.file] = w.content
      BY <2>2, <2>3
    <3>2. QED
      BY <3>1 DEF Put
  <2>5. /\ d["tokenizer"].job = jobs /\ d["tokenizer"].of = args.weights
        /\ d["config"].job = jobs /\ d["config"].of = args.weights
        /\ d["metadata"].job = jobs /\ d["metadata"].of = args.weights
        /\ d["metadata"].ok = args.check
    BY <2>4 DEF Content
  <2>6. QED
    BY <2>1, <2>4, <2>5 DEF File
<1>2. ASSUME kind = "quantise"
      PROVE  /\ q["model"].job = jobs /\ q["metadata"].job = jobs
             /\ q["model"].of = d["model"].of /\ q["metadata"].of = d["model"].of
             /\ q["metadata"].ok /\ (args.check => q["model"].ok)
             /\ \A i \in DOMAIN Copied :
                  d[Copied[i]] # None => q[Copied[i]] = d[Copied[i]]
  <2>1. /\ q["model"].job = jobs /\ q["model"].of = d["model"].of
        /\ q["metadata"].ok
        /\ \A p \in CopiedFiles : p.content = None \/ q[p.file] = p.content
        /\ Owed({LastFile}, "quantized")
    BY <1>2 DEF Sealing, ModelQuantised, CopyDone, Ended
  <2>2. q["metadata"] = LastFile.content
    BY <1>0, <2>1, NothingOwed, LastListed
  <2>3. q["metadata"].job = jobs /\ q["metadata"].of = q["model"].of
        /\ (args.check => q["model"].ok)
    BY <1>0, <2>1, <2>2, LastListed
  <2>4. \A i \in DOMAIN Copied : d[Copied[i]] # None => q[Copied[i]] = d[Copied[i]]
    <3> TAKE i \in DOMAIN Copied
    <3> DEFINE p == Put(Copied[i], d[Copied[i]])
    <3>1. p \in CopiedFiles
      BY DEF CopiedFiles
    <3>2. p.file = Copied[i] /\ p.content = d[Copied[i]]
      BY DEF Put
    <3> HIDE DEF p
    <3>3. p.content = None \/ q[p.file] = p.content
      BY <2>1, <3>1
    <3>4. QED
      BY <3>2, <3>3
  <2>5. QED
    BY <2>1, <2>3, <2>4
<1>3. QED
  BY <1>1, <1>2

(* Whatever earlier jobs left in the directories and wherever they were    *)
(* killed: an exit code of zero means a bundle that one job wrote, of the  *)
(* model that job had in memory, with the calibration its path gave.       *)
THEOREM ZeroMeansOneJob == Spec => []OneJobsBundle
BY InitSealing, StepSealing, SealedAtTheEnd, AlwaysTyped, PTL DEF Spec

-----------------------------------------------------------------------------
(* The temperatures. *)

\* The one bucket that has room for n options, if there are two at least.
Place(type, n) ==
  CASE type = "noul"   -> 1
    [] type = "score"  -> IF n <= 5 THEN 1 ELSE 2
    [] type = "choice" -> IF n = 2 THEN 1
                          ELSE IF n <= 5 THEN 2
                          ELSE IF n <= 10 THEN 3 ELSE 4

\* The numbers of options that samples of a type have.
Offered(type, n) ==
  /\ type = "noul" => n = 2
  /\ type = "score" => n \in 2..10

LEMMA Buckets ==
  ASSUME NEW type \in Types, NEW n \in Nat \ {0}, Offered(type, n)
  PROVE  /\ n >= 2 => Place(type, n) \in DOMAIN BucketsOf(type)
         /\ \A b \in DOMAIN BucketsOf(type) :
              /\ MatchesBucketExpr(BucketsOf(type)[b], n) <=> n >= 2 /\ b = Place(type, n)
              /\ MatchesBucket(BucketsOf(type)[b], n) <=> n >= 2 /\ b = Place(type, n)
<1>1. CASE type = "choice"
  <2>1. BucketsOf(type) = ChoiceBuckets
    BY <1>1 DEF BucketsOf
  <2>2. DOMAIN ChoiceBuckets = 1..4
    BY DEF ChoiceBuckets
  <2>3. /\ ChoiceBuckets[1] = [kind |-> "exactly", low |-> 2, high |-> 2]
        /\ ChoiceBuckets[2] = [kind |-> "between", low |-> 3, high |-> 5]
        /\ ChoiceBuckets[3] = [kind |-> "between", low |-> 6, high |-> 10]
        /\ ChoiceBuckets[4] = [kind |-> "at_least", low |-> 11, high |-> 11]
    BY DEF ChoiceBuckets, Exactly, Between, AtLeast
  <2>4. /\ n >= 2 => Place(type, n) \in 1..4
        /\ n >= 2 /\ 1 = Place(type, n) <=> n = 2
        /\ n >= 2 /\ 2 = Place(type, n) <=> n \in 3..5
        /\ n >= 2 /\ 3 = Place(type, n) <=> n \in 6..10
        /\ n >= 2 /\ 4 = Place(type, n) <=> n >= 11
    BY <1>1 DEF Place
  <2>5. \A b \in 1..4 :
          /\ MatchesBucketExpr(ChoiceBuckets[b], n) <=> n >= 2 /\ b = Place(type, n)
          /\ MatchesBucket(ChoiceBuckets[b], n) <=> n >= 2 /\ b = Place(type, n)
    <3> TAKE b \in 1..4
    <3>1. CASE b = 1
      BY <3>1, <2>3, <2>4 DEF MatchesBucketExpr, MatchesBucket
    <3>2. CASE b = 2
      BY <3>2, <2>3, <2>4 DEF MatchesBucketExpr, MatchesBucket
    <3>3. CASE b = 3
      BY <3>3, <2>3, <2>4 DEF MatchesBucketExpr, MatchesBucket
    <3>4. CASE b = 4
      BY <3>4, <2>3, <2>4 DEF MatchesBucketExpr, MatchesBucket
    <3>5. QED
      BY <3>1, <3>2, <3>3, <3>4
  <2>6. QED
    BY <2>1, <2>2, <2>4, <2>5
<1>2. CASE type = "score"
  <2>1. BucketsOf(type) = ScoreBuckets
    BY <1>2 DEF BucketsOf
  <2>2. DOMAIN ScoreBuckets = 1..2
    BY DEF ScoreBuckets
  <2>3. /\ ScoreBuckets[1] = [kind |-> "between", low |-> 2, high |-> 5]
        /\ ScoreBuckets[2] = [kind |-> "between", low |-> 6, high |-> 10]
    BY DEF ScoreBuckets, Between
  <2>4. /\ n >= 2 /\ n <= 10 /\ Place(type, n) \in 1..2
        /\ 1 = Place(type, n) <=> n \in 2..5
        /\ 2 = Place(type, n) <=> n \in 6..10
    BY <1>2 DEF Place, Offered
  <2>5. \A b \in 1..2 :
          /\ MatchesBucketExpr(ScoreBuckets[b], n) <=> n >= 2 /\ b = Place(type, n)
          /\ MatchesBucket(ScoreBuckets[b], n) <=> n >= 2 /\ b = Place(type, n)
    <3> TAKE b \in 1..2
    <3>1. CASE b = 1
      BY <3>1, <2>3, <2>4 DEF MatchesBucketExpr, MatchesBucket
    <3>2. CASE b = 2
      BY <3>2, <2>3, <2>4 DEF MatchesBucketExpr, MatchesBucket
    <3>3. QED
      BY <3>1, <3>2
  <2>6. QED
    BY <2>1, <2>2, <2>4, <2>5
<1>3. CASE type = "noul"
  <2>1. BucketsOf(type) = NoulBucket
    BY <1>3 DEF BucketsOf
  <2>2. DOMAIN NoulBucket = 1..1
    BY DEF NoulBucket
  <2>3. NoulBucket[1] = [kind |-> "at_least", low |-> 0, high |-> 0]
    BY DEF NoulBucket, AtLeast
  <2>4. n = 2 /\ Place(type, n) = 1
    BY <1>3 DEF Place, Offered
  <2>5. QED
    BY <2>1, <2>2, <2>3, <2>4 DEF MatchesBucketExpr, MatchesBucket
<1>4. QED
  BY <1>1, <1>2, <1>3 DEF Types

\* A cache that may have been collected.
Proper(cache) ==
  /\ cache \in Seq(Item)
  /\ \A i \in DOMAIN cache : Offered(cache[i].type, cache[i].count)

LEMMA CachesAreProper == \A cache \in Caches : Proper(cache)
<1>1. Proper(<<>>)
  BY DEF Proper
<1>2. ASSUME NEW items \in Samples
      PROVE  Proper(Collected(items))
  <2>1. items \in Seq(Item) /\ \A i \in DOMAIN items : Offered(items[i].type, items[i].count)
    BY SamplesAssumption DEF Offered
  <2>2. CASE MaxValSamples > 0 /\ Len(items) > MaxValSamples
    <3>1. MaxValSamples \in Nat /\ Len(items) \in Nat /\ DOMAIN items = 1..Len(items)
      BY <2>1, CalibrationConstants
    <3>2. 1..MaxValSamples \subseteq DOMAIN items
      BY <2>2, <3>1
    <3>3. \A i \in 1..MaxValSamples : items[i] \in Item
      BY <2>1, <3>2, ElementOfSeq
    <3> DEFINE c == SubSeq(items, 1, MaxValSamples)
    <3>4. /\ c \in Seq(Item) /\ Len(c) = MaxValSamples
          /\ \A i \in 1..MaxValSamples : c[i] = items[i]
      BY <2>2, <3>1, <3>3, SubSeqProperties
    <3>5. Collected(items) = c
      BY <2>2 DEF Collected
    <3> HIDE DEF c
    <3>6. DOMAIN c = 1..MaxValSamples
      BY <3>4
    <3>7. QED
      BY <2>1, <3>2, <3>4, <3>5, <3>6 DEF Proper
  <2>3. CASE ~(MaxValSamples > 0 /\ Len(items) > MaxValSamples)
    BY <2>1, <2>3 DEF Collected, Proper
  <2>4. QED
    BY <2>2, <2>3
<1>3. QED
  BY <1>1, <1>2 DEF Caches

LEMMA ItemFacts ==
  ASSUME NEW cache, Proper(cache), NEW i \in DOMAIN cache
  PROVE  /\ cache[i].type \in Types /\ cache[i].count \in Nat \ {0}
         /\ Offered(cache[i].type, cache[i].count)
<1>1. cache[i] \in Item
  BY ElementOfSeq DEF Proper
<1>2. QED
  BY <1>1 DEF Item, Proper

(* A sample is in the bucket of its own, or in none if it leaves no choice. *)
LEMMA FilterFacts ==
  ASSUME NEW cache, Proper(cache), NEW t \in Types, NEW b \in DOMAIN BucketsOf(t),
         NEW i \in DOMAIN cache
  PROVE  i \in FilterByBucket(cache, t, BucketsOf(t)[b]) <=>
           /\ t = cache[i].type /\ cache[i].count >= 2
           /\ b = Place(cache[i].type, cache[i].count)
<1>1. /\ cache[i].type \in Types /\ cache[i].count \in Nat \ {0}
      /\ Offered(cache[i].type, cache[i].count)
  BY ItemFacts
<1>2. cache[i].type = t =>
        (MatchesBucketExpr(BucketsOf(t)[b], cache[i].count)
           <=> cache[i].count >= 2 /\ b = Place(t, cache[i].count))
  BY <1>1, Buckets
<1>3. QED
  BY <1>2 DEF FilterByBucket

LEMMA CacheIsFinite ==
  ASSUME NEW cache, Proper(cache)
  PROVE  /\ IsFiniteSet(DOMAIN cache)
         /\ \A t, e : /\ IsFiniteSet(FilterByBucket(cache, t, e))
                      /\ Cardinality(FilterByBucket(cache, t, e)) \in Nat
<1>1. DOMAIN cache = 1..Len(cache) /\ Len(cache) \in Nat
  BY DEF Proper
<1>2. IsFiniteSet(DOMAIN cache)
  BY <1>1, FS_Interval
<1>3. \A t, e : FilterByBucket(cache, t, e) \subseteq DOMAIN cache
  BY DEF FilterByBucket
<1>4. QED
  BY <1>2, <1>3, FS_Subset, FS_CardinalityType

(* Which temperature a question finds: the one of its only bucket.         *)
LEMMA ResolveFacts ==
  ASSUME NEW cache, NEW t \in Types, NEW n \in Nat \ {0}, Offered(t, n)
  PROVE  ResolveTemperature(Calibrate(cache), t, n) =
           IF n >= 2
             THEN CalibrateBucket(cache, FilterByBucket(cache, t, BucketsOf(t)[Place(t, n)]))
             ELSE DefaultTemperature
<1> DEFINE map == Calibrate(cache)
           fits == {b \in DOMAIN BucketsOf(t) : MatchesBucket(BucketsOf(t)[b], n)}
           own == Place(t, n)
<1>1. \A b \in DOMAIN BucketsOf(t) :
        map[t][b] = CalibrateBucket(cache, FilterByBucket(cache, t, BucketsOf(t)[b]))
  BY DEF Calibrate
<1>2. /\ n >= 2 => own \in DOMAIN BucketsOf(t)
      /\ \A b \in DOMAIN BucketsOf(t) : MatchesBucket(BucketsOf(t)[b], n) <=> n >= 2 /\ b = own
  BY Buckets
<1>3. ResolveTemperature(map, t, n) =
        IF t = "noul" THEN map["noul"][1]
        ELSE IF fits = {} THEN DefaultTemperature ELSE map[t][Min(fits)]
  BY DEF ResolveTemperature
<1>4. CASE t = "noul"
  <2>1. n = 2 /\ own = 1
    BY <1>4 DEF Offered, Place
  <2> HIDE DEF map, own, fits
  <2>2. ResolveTemperature(map, t, n) = map[t][own]
    BY <1>3, <1>4, <2>1
  <2>3. QED
    BY <1>1, <1>2, <2>1, <2>2 DEF map, own
<1>5. CASE t # "noul" /\ n < 2
  <2>1. fits = {}
    BY <1>2, <1>5
  <2>2. QED
    BY <1>3, <1>5, <2>1
<1>6. CASE t # "noul" /\ n >= 2
  <2>1. fits = {own} /\ own \in DOMAIN BucketsOf(t)
    BY <1>2, <1>6
  <2>2. own \in Int
    BY <1>6 DEF Place, Types
  <2> HIDE DEF map, own, fits
  <2>3. Min(fits) = own
    BY <2>1, <2>2 DEF Min
  <2>4. ResolveTemperature(map, t, n) = map[t][own]
    BY <1>3, <1>6, <2>1, <2>3
  <2>5. QED
    BY <1>1, <1>6, <2>1, <2>4 DEF map, own
<1>7. QED
  BY <1>4, <1>5, <1>6

(* The summary counts each sample with a choice to make once.              *)
LEMMA SummaryCounts ==
  ASSUME NEW cache, Proper(cache)
  PROVE  TotalSamples(cache) = Cardinality({i \in DOMAIN cache : cache[i].count >= 2})
<1> DEFINE counted == {i \in DOMAIN cache : cache[i].count >= 2}
           place(i) == Place(cache[i].type, cache[i].count)
           entry == [i \in counted |-> <<cache[i].type, place(i), i>>]
           entries == UNION {UNION {
             {<<t, b, i>> : i \in FilterByBucket(cache, t, BucketsOf(t)[b])} :
               b \in DOMAIN BucketsOf(t)} : t \in Types}
<1>1. ASSUME NEW i \in counted
      PROVE  entry[i] \in entries
  <2>1. /\ cache[i].type \in Types /\ place(i) \in DOMAIN BucketsOf(cache[i].type)
    BY ItemFacts, Buckets
  <2>2. i \in FilterByBucket(cache, cache[i].type, BucketsOf(cache[i].type)[place(i)])
    BY <2>1, FilterFacts
  <2>3. QED
    BY <2>1, <2>2
<1>2. ASSUME NEW e \in entries
      PROVE  \E i \in counted : entry[i] = e
  <2>1. PICK t \in Types : \E b \in DOMAIN BucketsOf(t) :
          \E i \in FilterByBucket(cache, t, BucketsOf(t)[b]) : e = <<t, b, i>>
    BY <1>2
  <2>2. PICK b \in DOMAIN BucketsOf(t) :
          \E i \in FilterByBucket(cache, t, BucketsOf(t)[b]) : e = <<t, b, i>>
    BY <2>1
  <2>3. PICK i \in FilterByBucket(cache, t, BucketsOf(t)[b]) : e = <<t, b, i>>
    BY <2>2
  <2>4. i \in DOMAIN cache
    BY DEF FilterByBucket
  <2>5. t = cache[i].type /\ cache[i].count >= 2 /\ b = place(i)
    BY <2>4, FilterFacts
  <2>6. QED
    BY <2>3, <2>4, <2>5
<1>3. \A i, j \in counted : entry[i] = entry[j] => i = j
  OBVIOUS
<1>4. entry \in Bijection(counted, entries)
  <2>1. entry = [i \in counted |-> entry[i]] /\ DOMAIN entry = counted
    OBVIOUS
  <2> HIDE DEF counted, entry, entries
  <2>2. entry \in [counted -> entries]
    BY <1>1, <2>1
  <2>3. QED
    BY <1>2, <1>3, <2>2 DEF Bijection, Injection, Surjection, IsInjective
<1>5. IsFiniteSet(counted)
  BY CacheIsFinite, FS_Subset
<1>6. TotalSamples(cache) = Cardinality(entries)
  BY DEF TotalSamples
<1> HIDE DEF counted, entry, entries
<1>7. Cardinality(entries) = Cardinality(counted)
  BY <1>4, <1>5, FS_Bijection DEF ExistsBijection
<1>8. QED
  BY <1>6, <1>7 DEF counted

\* What CalibrationServed says of one run.
ServedIn(cache, map) ==
  /\ \A i \in DOMAIN cache :
       LET t == cache[i].type
           tau == ResolveTemperature(map, t, cache[i].count) IN
       tau.on # {} =>
         /\ i \in tau.on
         /\ \A j \in tau.on : cache[j].type = t
         /\ Cardinality(tau.on) >= MinSamples /\ ~HardlyBeatsChance(cache, tau.on)
  /\ \A i \in DOMAIN cache :
       ResolveTemperature(map, cache[i].type, cache[i].count) = DefaultTemperature =>
         \A t \in Types : \A b \in DOMAIN BucketsOf(t) :
           i \notin FilterByBucket(cache, t, BucketsOf(t)[b])
  /\ TotalSamples(cache) = Cardinality({i \in DOMAIN cache : cache[i].count >= 2})

LEMMA RunIsServed ==
  ASSUME NEW cache, Proper(cache)
  PROVE  ServedIn(cache, Calibrate(cache))
<1> DEFINE map == Calibrate(cache)
<1>1. ASSUME NEW i \in DOMAIN cache
      PROVE  LET t == cache[i].type
                 tau == ResolveTemperature(map, t, cache[i].count) IN
             /\ tau.on # {} =>
                  /\ i \in tau.on
                  /\ \A j \in tau.on : cache[j].type = t
                  /\ Cardinality(tau.on) >= MinSamples /\ ~HardlyBeatsChance(cache, tau.on)
             /\ tau = DefaultTemperature =>
                  \A t2 \in Types : \A b \in DOMAIN BucketsOf(t2) :
                    i \notin FilterByBucket(cache, t2, BucketsOf(t2)[b])
  <2> DEFINE t == cache[i].type
             n == cache[i].count
             tau == ResolveTemperature(map, t, n)
             bucket == FilterByBucket(cache, t, BucketsOf(t)[Place(t, n)])
  <2>1. t \in Types /\ n \in Nat \ {0} /\ Offered(t, n)
    BY ItemFacts
  <2>2. tau = IF n >= 2 THEN CalibrateBucket(cache, bucket) ELSE DefaultTemperature
    BY <2>1, ResolveFacts
  <2>3. CASE n < 2
    <3>1. tau = DefaultTemperature
      BY <2>1, <2>2, <2>3
    <3>2. tau.on = {}
      BY <3>1 DEF DefaultTemperature
    <3>3. \A t2 \in Types : \A b \in DOMAIN BucketsOf(t2) :
            i \notin FilterByBucket(cache, t2, BucketsOf(t2)[b])
      BY <2>1, <2>3, FilterFacts
    <3>4. QED
      BY <3>2, <3>3
  <2>4. CASE n >= 2
    <3>1. i \in bucket
      BY <2>1, <2>4, Buckets, FilterFacts
    <3>2. \A j \in bucket : cache[j].type = t
      BY DEF FilterByBucket
    <3>3. Cardinality(bucket) \in Nat
      BY CacheIsFinite
    <3>4. tau = CalibrateBucket(cache, bucket)
      BY <2>1, <2>2, <2>4
    <3> HIDE DEF bucket, tau
    <3>5. tau # DefaultTemperature
      BY <3>4 DEF CalibrateBucket, DefaultTemperature
    <3>6. ASSUME tau.on # {}
          PROVE  /\ tau.on = bucket
                 /\ ~(Cardinality(bucket) < MinSamples) /\ ~HardlyBeatsChance(cache, bucket)
      BY <3>4, <3>6 DEF CalibrateBucket
    <3>7. tau.on # {} => /\ i \in tau.on
                         /\ \A j \in tau.on : cache[j].type = t
                         /\ Cardinality(tau.on) >= MinSamples
                         /\ ~HardlyBeatsChance(cache, tau.on)
      <4>1. MinSamples \in Nat
        BY CalibrationConstants
      <4>2. QED
        BY <3>1, <3>2, <3>3, <3>6, <4>1
    <3>8. QED
      BY <3>5, <3>7 DEF tau
  <2>5. QED
    BY <2>1, <2>3, <2>4
<1>2. QED
  BY <1>1, SummaryCounts DEF ServedIn

(* For any validation sets: the temperature that is looked up for a        *)
(* question was fitted on its bucket, on enough samples and with a model   *)
(* that beats chance, and no sample is counted twice or left out.          *)
THEOREM TemperaturesServe == Spec => []CalibrationServed
<1>1. Typed => CalibrationServed
  <2> SUFFICES ASSUME Typed, NEW k \in DOMAIN saved
               PROVE  ServedIn(saved[k].cache, saved[k].map)
    BY DEF CalibrationServed, ServedIn
  <2>1. saved[k] \in Runs
    BY ElementOfSeq DEF Typed, Ledger
  <2>2. PICK w \in 1..MaxTrained, torn \in BOOLEAN, c \in Caches : saved[k] = RunOf(w, torn, c)
    BY <2>1 DEF Runs
  <2>3. saved[k].cache = c /\ saved[k].map = Calibrate(c)
    BY <2>2 DEF RunOf
  <2>4. QED
    BY <2>3, CachesAreProper, RunIsServed
<1>2. QED
  BY <1>1, AlwaysTyped, PTL
=============================================================================

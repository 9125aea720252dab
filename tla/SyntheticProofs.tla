--------------------------- MODULE SyntheticProofs ---------------------------
(***************************************************************************)
(* Proofs about SyntheticPipeline, for any texts, answers, options and     *)
(* bounds: the accounts of a run, the agreement of the files, and that the *)
(* samples in the files implement SampleStore.                             *)
(*                                                                         *)
(* What carries them over the waits of the tasks is which texts are spoken *)
(* for: the index holds those of the written samples and of the samples    *)
(* under validation, and the latter are like none of the former.           *)
(***************************************************************************)
EXTENDS SyntheticPipeline, FiniteSetTheorems, SequenceTheorems, TLAPS

Stages == {"queued", "generating", "validating", "raised", "done"}
Task == [id : Types \X Nat, sample : Sample \cup {NoSample}, stage : Stages]

\* The tasks in one of some stages.
StageSet(ts, S) == {t \in DOMAIN ts : ts[t].stage \in S}
Waiting    == {"queued", "generating", "validating"}
UnderWay   == {"generating", "validating", "raised"}
Unfinished == {"queued", "generating", "validating", "raised"}

Apart(a, b) == a.id # b.id /\ <<a.state, b.state>> \notin Similar

\* A file whose last line was not ended has one, and a sample that lacks its
\* newline is on no other line: what sticks to it spoils it for good.
OpenEnds(file) == file.open => file.lines # <<>>
LooseOnce(file) == \A i \in 1..Len(file.lines) : file.lines[i] \in Loose(file) => i = Len(file.lines)

\* The samples of one file only or without a newline, and the files that end so.
ByType(types) == UNION {Intact(types[t]) : t \in Types}
Differing(all, types) == (Intact(all) \ ByType(types)) \cup (ByType(types) \ Intact(all))
Marked(all, types) == (Differing(all, types) \cup Loose(all)) \cup UNION {Loose(types[t]) : t \in Types}
OpenFiles(all, types) ==
  {f \in Types \cup {"all"} : IF f = "all" THEN all.open ELSE types[f].open}
Trouble(all, types) == Cardinality(Marked(all, types)) + Cardinality(OpenFiles(all, types))

Files ==
  /\ OpenEnds(allFile) /\ LooseOnce(allFile) /\ \A t \in Types : OpenEnds(typeFile[t])
  /\ \A a \in Intact(allFile), b \in Intact(allFile) : a # b => Apart(a, b)
  /\ Trouble(allFile, typeFile) <= 2 * faults

\* What a process that does not run its batches holds.
Resting ==
  /\ phase # "running" => tasks = <<>> /\ stats = NoStats /\ dead = 0
  /\ ~AtWork => existing = {} /\ index = {} /\ loaded = 0

\* A resume knows the lines it has read, whole.
ReadBack(file, n) == {file.lines[i] : i \in 1..n} \ Pieces
Resuming ==
  phase = "loading" =>
    /\ \A i \in 1..loaded : allFile.lines[i] # Broken
    /\ existing = {s.id : s \in ReadBack(allFile, loaded)}
    /\ index = {s.state : s \in ReadBack(allFile, loaded)}

\* The tasks of a batch have consecutive numbers.
Numbered ==
  /\ Len(tasks) <= seqIdx
  /\ \A t \in DOMAIN tasks : tasks[t].id[2] = (seqIdx - Len(tasks)) + (t - 1)

\* The index holds the text of every sample that is written or may be, and
\* existing_ids the id of each but those whose task raised.
Known ==
  /\ \A s \in Intact(allFile) :
       /\ s.state \in index
       /\ s.id \in existing \/ \E t \in StageSet(tasks, {"raised"}) : tasks[t].id = s.id
  /\ Broken \in Range(allFile.lines) => StageSet(tasks, {"raised"}) # {}
  /\ \A t \in StageSet(tasks, Waiting) : tasks[t].id \notin existing
  /\ \A t \in StageSet(tasks, {"validating"}) :
       /\ tasks[t].sample \in Sample
       /\ tasks[t].sample.id = tasks[t].id
       /\ tasks[t].sample.state \in index

\* A sample under validation is like none that is written and none beside it.
AllApart ==
  \A t \in StageSet(tasks, {"validating"}) :
    /\ \A s \in Intact(allFile) : <<tasks[t].sample.state, s.state>> \notin Similar
    /\ \A u \in StageSet(tasks, {"validating"}) :
         u # t => <<tasks[t].sample.state, tasks[u].sample.state>> \notin Similar

\* A batch is no larger than what is wanted, and a file no larger than what
\* passed and what was written by a task that raised.
Budget ==
  /\ base + stats.passed + Cardinality(StageSet(tasks, Unfinished)) <= IF base > target THEN base ELSE target
  /\ Cardinality(Intact(allFile)) <= base + stats.passed + Cardinality(StageSet(tasks, {"raised"}))

Running == phase = "running" => Numbered /\ Known /\ AllApart /\ Budget

IInv == TypeOK /\ Files /\ Resting /\ Resuming /\ ExplainsAttempts /\ Running

-----------------------------------------------------------------------------
(* Samples are no special lines. *)

LEMMA SpecialValues ==
  /\ Garbled \notin Sample /\ Broken \notin Sample /\ NoSample \notin Sample
  /\ Sample \cap Pieces = {}
  /\ Failed \notin Raw
<1>1. \A s \in Sample : s # Garbled /\ s # Broken /\ s # NoSample
  <2>1. \A s \in Sample : DOMAIN s = {"id", "type", "state", "criteria", "target"}
    BY DEF Sample
  <2>2. DOMAIN Garbled = {"garbled"} /\ DOMAIN Broken = {"broken"} /\ DOMAIN NoSample = {"none"}
    BY DEF Garbled, Broken, NoSample
  <2>3. QED
    BY <2>1, <2>2
<1>2. \A r \in Raw : r # Failed
  BY DEF Raw, Failed
<1>3. QED
  BY <1>1, <1>2 DEF Pieces

-----------------------------------------------------------------------------
(* Tasks: one of them moves on, the others stay as they are. *)

Moved(ts, us, t) ==
  /\ ts \in Seq(Task) /\ us \in Seq(Task) /\ t \in DOMAIN ts
  /\ DOMAIN us = DOMAIN ts /\ Len(us) = Len(ts)
  /\ us[t].id = ts[t].id
  /\ \A u \in DOMAIN ts : u # t => us[u] = ts[u]

Staged(ts, t, g) == [ts EXCEPT ![t].stage = g]
Settled(ts, t, g, s) == [ts EXCEPT ![t].stage = g, ![t].sample = s]

LEMMA StageMoves ==
  ASSUME NEW ts \in Seq(Task), NEW t \in DOMAIN ts, NEW g \in Stages
  PROVE  /\ Moved(ts, Staged(ts, t, g), t)
         /\ Staged(ts, t, g)[t].stage = g
         /\ Staged(ts, t, g)[t].sample = ts[t].sample
<1> DEFINE e == [ts[t] EXCEPT !.stage = g]
<1>1. t \in 1..Len(ts) /\ DOMAIN ts = 1..Len(ts) /\ ts[t] \in Task
  BY LenProperties, ElementOfSeq
<1>2. e \in Task /\ e.stage = g /\ e.id = ts[t].id /\ e.sample = ts[t].sample
  BY <1>1 DEF Task
<1> HIDE DEF e
<1>3. /\ [ts EXCEPT ![t] = e] \in Seq(Task) /\ Len([ts EXCEPT ![t] = e]) = Len(ts)
      /\ \A u \in 1..Len(ts) : [ts EXCEPT ![t] = e][u] = IF u = t THEN e ELSE ts[u]
  BY <1>1, <1>2, ExceptSeq
<1>4. Staged(ts, t, g) = [ts EXCEPT ![t] = e]
  BY DEF e, Staged
<1>5. QED
  BY <1>1, <1>2, <1>3, <1>4 DEF Moved

LEMMA SampleMoves ==
  ASSUME NEW ts \in Seq(Task), NEW t \in DOMAIN ts, NEW g \in Stages,
         NEW s \in Sample \cup {NoSample}
  PROVE  /\ Moved(ts, Settled(ts, t, g, s), t)
         /\ Settled(ts, t, g, s)[t].stage = g
         /\ Settled(ts, t, g, s)[t].sample = s
<1> DEFINE e == [ts[t] EXCEPT !.stage = g, !.sample = s]
<1>1. t \in 1..Len(ts) /\ DOMAIN ts = 1..Len(ts) /\ ts[t] \in Task
  BY LenProperties, ElementOfSeq
<1>2. e \in Task /\ e.stage = g /\ e.id = ts[t].id /\ e.sample = s
  BY <1>1 DEF Task
<1>3. Settled(ts, t, g, s) = [ts EXCEPT ![t] = e]
  BY <1>1 DEF Task, Settled
<1> HIDE DEF e
<1>4. /\ [ts EXCEPT ![t] = e] \in Seq(Task) /\ Len([ts EXCEPT ![t] = e]) = Len(ts)
      /\ \A u \in 1..Len(ts) : [ts EXCEPT ![t] = e][u] = IF u = t THEN e ELSE ts[u]
  BY <1>1, <1>2, ExceptSeq
<1>5. QED
  BY <1>1, <1>2, <1>3, <1>4 DEF Moved

LEMMA TasksFinite ==
  ASSUME NEW ts \in Seq(Task), NEW S
  PROVE  /\ IsFiniteSet(StageSet(ts, S)) /\ Cardinality(StageSet(ts, S)) \in Nat
         /\ Cardinality(StageSet(ts, S)) <= Len(ts)
         /\ StageSet(ts, S) \subseteq 1..Len(ts)
<1>1. Len(ts) \in Nat /\ DOMAIN ts = 1..Len(ts)
  BY LenProperties
<1>2. IsFiniteSet(1..Len(ts)) /\ Cardinality(1..Len(ts)) = Len(ts)
  BY <1>1, FS_Interval
<1>3. StageSet(ts, S) \in SUBSET (1..Len(ts))
  BY <1>1 DEF StageSet
<1>4. QED
  BY <1>2, <1>3, FS_Subset, FS_CardinalityType

(* How many tasks are in some stages, after one has moved. *)
LEMMA MovedCount ==
  ASSUME NEW ts, NEW us, NEW t, Moved(ts, us, t), NEW S
  PROVE  /\ us[t].stage \in S /\ ts[t].stage \in S =>
              Cardinality(StageSet(us, S)) = Cardinality(StageSet(ts, S))
         /\ us[t].stage \notin S /\ ts[t].stage \notin S =>
              Cardinality(StageSet(us, S)) = Cardinality(StageSet(ts, S))
         /\ us[t].stage \in S /\ ts[t].stage \notin S =>
              Cardinality(StageSet(us, S)) = Cardinality(StageSet(ts, S)) + 1
         /\ us[t].stage \notin S /\ ts[t].stage \in S =>
              Cardinality(StageSet(us, S)) = Cardinality(StageSet(ts, S)) - 1
<1>1. IsFiniteSet(StageSet(ts, S))
  BY TasksFinite DEF Moved
<1>2. us[t].stage \in S => StageSet(us, S) = StageSet(ts, S) \cup {t}
  BY DEF Moved, StageSet
<1>3. us[t].stage \notin S => StageSet(us, S) = StageSet(ts, S) \ {t}
  BY DEF Moved, StageSet
<1>4. t \in StageSet(ts, S) <=> ts[t].stage \in S
  BY DEF Moved, StageSet
<1>5. QED
  BY <1>1, <1>2, <1>3, <1>4, FS_AddElement, FS_RemoveElement

-----------------------------------------------------------------------------
(* Files: what an append and a write cut short leave behind. *)

LEMMA IntactFacts ==
  ASSUME NEW f \in File
  PROVE  /\ Intact(f) \subseteq Sample /\ IsFiniteSet(Intact(f))
         /\ Cardinality(Intact(f)) \in Nat
         /\ Len(f.lines) \in Nat /\ DOMAIN f.lines = 1..Len(f.lines)
         /\ Intact(f) = {f.lines[i] : i \in 1..Len(f.lines)} \ Pieces
         /\ Range(f.lines) = {f.lines[i] : i \in 1..Len(f.lines)}
         /\ \A i \in 1..Len(f.lines) : f.lines[i] \in Sample \cup Pieces
         /\ OpenEnds(f) => Loose(f) \subseteq Intact(f)
         /\ IsFiniteSet(Loose(f))
<1> DEFINE ls == f.lines
<1>1. ls \in Seq(Sample \cup Pieces)
  BY DEF File
<1> HIDE DEF ls
<1>2. /\ Len(ls) \in Nat /\ DOMAIN ls = 1..Len(ls) /\ ls \in [1..Len(ls) -> Sample \cup Pieces]
      /\ Range(ls) = {ls[i] : i \in 1..Len(ls)}
  BY <1>1, LenProperties, RangeEquality
<1>3. ls \in Surjection(1..Len(ls), Range(ls))
  BY <1>2 DEF Surjection, Range
<1>4. IsFiniteSet(Range(ls))
  BY <1>2, <1>3, FS_NatSurjection DEF ExistsSurjection
<1>5. Range(ls) \subseteq Sample \cup Pieces
  BY <1>1, RangeOfSeq
<1>6. Intact(f) = Range(ls) \ Pieces
  BY DEF Intact, ls
<1>7. IsFiniteSet(Intact(f)) /\ Cardinality(Intact(f)) \in Nat
  BY <1>4, <1>6, FS_Difference, FS_CardinalityType
<1>8. OpenEnds(f) => Loose(f) \subseteq Intact(f)
  <2>1. ASSUME OpenEnds(f), f.open PROVE Len(ls) \in 1..Len(ls)
    BY <1>1, <1>2, <2>1, EmptySeq DEF OpenEnds, ls
  <2>2. QED
    BY <1>2, <1>6, <2>1 DEF Loose, ls
<1>9. IsFiniteSet(Loose(f))
  <2>1. Loose(f) \in SUBSET {ls[Len(ls)]}
    BY DEF Loose, ls
  <2>2. QED
    BY <2>1, FS_Singleton, FS_Subset
<1>10. QED
  BY <1>2, <1>5, <1>6, <1>7, <1>8, <1>9 DEF ls

\* What a write of a sample to a file may leave of it: what an open end took
\* along, or the sample; and what that is to the store.
StoreStep(f, f2, s) ==
  \/ Intact(f2) = Intact(f) /\ Loose(f2) = Loose(f)
  \/ Loose(f) # {} /\ Intact(f2) = Intact(f) \ Loose(f) /\ Loose(f2) = {}
  \/ Loose(f) = {} /\ Intact(f2) = Intact(f) \cup {s} /\ Loose(f2) \in {{}, {s}}

Wrote(f, f2, s) ==
  /\ f2 \in File /\ OpenEnds(f2) /\ Len(f2.lines) >= Len(f.lines)
  /\ f.open => /\ Intact(f2) \subseteq Intact(f) /\ Intact(f) \subseteq Intact(f2) \cup Loose(f)
               /\ Loose(f2) \subseteq Loose(f)
  /\ ~f.open => /\ Intact(f) \subseteq Intact(f2) /\ Intact(f2) \subseteq Intact(f) \cup {s}
                /\ Loose(f2) \subseteq {s}
  /\ LooseOnce(f) /\ s \notin Intact(f) => LooseOnce(f2) /\ StoreStep(f, f2, s)

(* A line of its own. *)
LEMMA PutApart ==
  ASSUME NEW f \in File, ~f.open, NEW s \in Sample, NEW p \in Pieces \cup {s}, NEW o \in BOOLEAN
  PROVE  /\ Wrote(f, Put(f, p, o), s) /\ Put(f, p, o).open = o
         /\ p = s => s \in Intact(Put(f, p, o))
         /\ p # Broken /\ Broken \notin Range(f.lines) => Broken \notin Range(Put(f, p, o).lines)
<1> DEFINE ls == f.lines
           S  == Sample \cup Pieces
           ms == Append(ls, p)
           f2 == Put(f, p, o)
<1>1. ls \in Seq(S) /\ p \in S
  BY DEF File
<1>2. f2 = [lines |-> ms, open |-> o]
  BY DEF Put
<1>3. /\ ms \in Seq(S) /\ Len(ms) = Len(ls) + 1 /\ Len(ls) \in Nat /\ ms # <<>>
      /\ \A i \in 1..Len(ls) : ms[i] = ls[i]
      /\ ms[Len(ls) + 1] = p
  <2> HIDE DEF S, ls
  <2>1. QED
    BY <1>1, AppendProperties, LenProperties
<1> HIDE DEF ms, f2
<1>4. f2 \in File /\ f2.lines = ms /\ f2.open = o
  BY <1>2, <1>3 DEF File
<1>5. /\ Intact(f) = {ls[i] : i \in 1..Len(ls)} \ Pieces
      /\ Range(ls) = {ls[i] : i \in 1..Len(ls)}
      /\ Intact(f2) = {ms[i] : i \in 1..Len(ms)} \ Pieces
      /\ Range(ms) = {ms[i] : i \in 1..Len(ms)}
  <2>1. /\ Intact(f) = {ls[i] : i \in 1..Len(ls)} \ Pieces
        /\ Range(ls) = {ls[i] : i \in 1..Len(ls)}
    BY IntactFacts
  <2>2. /\ Intact(f2) = {f2.lines[i] : i \in 1..Len(f2.lines)} \ Pieces
        /\ Range(f2.lines) = {f2.lines[i] : i \in 1..Len(f2.lines)}
    BY <1>4, IntactFacts
  <2>3. QED
    BY <1>4, <2>1, <2>2
<1> HIDE DEF ls, S
<1>6. {ms[i] : i \in 1..Len(ms)} = {ls[i] : i \in 1..Len(ls)} \cup {p}
  <2>1. 1..Len(ms) = 1..Len(ls) \cup {Len(ls) + 1}
    BY <1>3
  <2>2. QED
    BY <1>3, <2>1
<1>7. Intact(f2) = Intact(f) \cup ({p} \ Pieces)
  BY <1>5, <1>6
<1>8. Loose(f) = {} /\ Loose(f2) = IF o THEN {p} \ Pieces ELSE {}
  BY <1>3, <1>4 DEF Loose
<1>9. s \notin Pieces
  BY SpecialValues
<1>10. ASSUME s \notin Intact(f)
       PROVE  LooseOnce(f2)
  <2>1. \A i \in 1..Len(ls) : ms[i] \notin {s} \ Pieces
    BY <1>3, <1>5, <1>10
  <2>2. Loose(f2) \subseteq {s} \ Pieces
    BY <1>8
  <2>3. \A i \in 1..Len(ms) : ms[i] \in Loose(f2) => i = Len(ms)
    BY <1>3, <2>1, <2>2
  <2>4. QED
    BY <1>4, <2>3 DEF LooseOnce
<1>11. StoreStep(f, f2, s)
  BY <1>7, <1>8, <1>9 DEF StoreStep
<1>12. Wrote(f, f2, s)
  <2>1. OpenEnds(f2) /\ Len(f2.lines) >= Len(f.lines)
    BY <1>3, <1>4 DEF OpenEnds, ls
  <2>2. /\ Intact(f) \subseteq Intact(f2) /\ Intact(f2) \subseteq Intact(f) \cup {s}
        /\ Loose(f2) \subseteq {s}
    BY <1>7, <1>8
  <2>3. QED
    BY <1>4, <1>10, <1>11, <2>1, <2>2 DEF Wrote
<1>13. p = s => s \in Intact(f2)
  BY <1>7, <1>9
<1>14. p # Broken /\ Broken \notin Range(ls) => Broken \notin Range(ms)
  BY <1>5, <1>6
<1>15. QED
  BY <1>4, <1>12, <1>13, <1>14 DEF f2, ls

(* A line that sticks to the last one. *)
LEMMA PutStuck ==
  ASSUME NEW f \in File, f.open, OpenEnds(f), NEW s \in Sample, NEW p \in Pieces \cup {s}, NEW o \in BOOLEAN
  PROVE  /\ Wrote(f, Put(f, p, o), s) /\ Put(f, p, o).open = o
         /\ p # Broken /\ Broken \notin Range(f.lines) => Broken \notin Range(Put(f, p, o).lines)
<1> DEFINE ls == f.lines
           S  == Sample \cup Pieces
           e  == Joined(ls[Len(ls)], p)
           ms == [ls EXCEPT ![Len(ls)] = e]
           f2 == Put(f, p, o)
<1>1. ls \in Seq(S) /\ e \in Pieces /\ e \in S
  BY DEF File, Joined, Pieces
<1>2. f2 = [lines |-> ms, open |-> o]
  BY DEF Put
<1>3. Len(ls) \in Nat /\ Len(ls) \in 1..Len(ls) /\ DOMAIN ls = 1..Len(ls)
  BY <1>1, LenProperties, EmptySeq DEF OpenEnds
<1>0. e = Broken => p = Broken \/ ls[Len(ls)] = Broken
  <2>1. Garbled # Broken
    BY DEF Garbled, Broken
  <2>2. QED
    BY <2>1 DEF Joined
<1> HIDE DEF e
<1>4. /\ ms \in Seq(S) /\ Len(ms) = Len(ls)
      /\ \A i \in 1..Len(ls) : ms[i] = IF i = Len(ls) THEN e ELSE ls[i]
  <2> HIDE DEF S, ls
  <2>1. QED
    BY <1>1, <1>3, ExceptSeq
<1> HIDE DEF ms, f2
<1>5. f2 \in File /\ f2.lines = ms /\ f2.open = o
  BY <1>2, <1>4 DEF File
<1>6. /\ Intact(f) = {ls[i] : i \in 1..Len(ls)} \ Pieces
      /\ Range(ls) = {ls[i] : i \in 1..Len(ls)}
      /\ Intact(f2) = {ms[i] : i \in 1..Len(ms)} \ Pieces
      /\ Range(ms) = {ms[i] : i \in 1..Len(ms)}
  <2>1. /\ Intact(f) = {ls[i] : i \in 1..Len(ls)} \ Pieces
        /\ Range(ls) = {ls[i] : i \in 1..Len(ls)}
    BY IntactFacts
  <2>2. /\ Intact(f2) = {f2.lines[i] : i \in 1..Len(f2.lines)} \ Pieces
        /\ Range(f2.lines) = {f2.lines[i] : i \in 1..Len(f2.lines)}
    BY <1>5, IntactFacts
  <2>3. QED
    BY <1>5, <2>1, <2>2
<1>7. Loose(f) = {ls[Len(ls)]} \ Pieces /\ Loose(f2) = {}
  BY <1>1, <1>3, <1>4, <1>5 DEF Loose
<1> HIDE DEF ls, S
<1>8. Intact(f2) \subseteq Intact(f) /\ Intact(f) \subseteq Intact(f2) \cup Loose(f)
  <2>1. \A i \in 1..Len(ls) : ms[i] \in Pieces \/ ms[i] = ls[i]
    BY <1>1, <1>4
  <2>2. \A i \in 1..Len(ls) : i = Len(ls) \/ ms[i] = ls[i]
    BY <1>4
  <2>3. Intact(f2) = {ms[i] : i \in 1..Len(ls)} \ Pieces
    BY <1>4, <1>6
  <2>4. Intact(f2) \subseteq Intact(f)
    BY <1>6, <2>1, <2>3
  <2>5. Intact(f) \subseteq Intact(f2) \cup Loose(f)
    BY <1>6, <1>7, <2>2, <2>3
  <2>6. QED
    BY <2>4, <2>5
<1>9. LooseOnce(f2)
  BY <1>7 DEF LooseOnce
<1>10. LooseOnce(f) => Intact(f2) = Intact(f) \ Loose(f)
  <2>1. ASSUME LooseOnce(f) PROVE Intact(f2) \cap Loose(f) = {}
    BY <1>1, <1>3, <1>4, <1>6, <2>1 DEF LooseOnce, ls
  <2>2. QED
    BY <1>8, <2>1
<1>11. LooseOnce(f) => StoreStep(f, f2, s)
  BY <1>7, <1>8, <1>10 DEF StoreStep
<1>12. Wrote(f, f2, s)
  <2>1. OpenEnds(f2) /\ Len(f2.lines) >= Len(f.lines)
    <3>1. ms # <<>>
      <4>1. Len(ls) >= 1
        BY <1>3
      <4>2. Len(ms) = Len(ls)
        BY <1>4
      <4>3. QED
        BY <4>1, <4>2
    <3>2. QED
      BY <1>3, <1>4, <1>5, <3>1 DEF OpenEnds, ls
  <2>2. QED
    BY <1>5, <1>7, <1>8, <1>9, <1>11, <2>1 DEF Wrote
<1>13. ASSUME p # Broken, Broken \notin Range(ls)
       PROVE  Broken \notin Range(ms)
  <2>1. ls[Len(ls)] # Broken /\ \A i \in 1..Len(ls) : ls[i] # Broken
    BY <1>3, <1>6, <1>13
  <2>2. \A i \in 1..Len(ls) : ms[i] # Broken
    BY <1>0, <1>4, <1>13, <2>1
  <2>3. QED
    BY <1>4, <1>6, <2>2
<1>14. QED
  BY <1>5, <1>12, <1>13 DEF f2, ls

LEMMA AppendedFacts ==
  ASSUME NEW f \in File, OpenEnds(f), NEW s \in Sample
  PROVE  /\ Wrote(f, Appended(f, s), s) /\ ~Appended(f, s).open
         /\ ~f.open => s \in Intact(Appended(f, s))
         /\ Broken \notin Range(f.lines) => Broken \notin Range(Appended(f, s).lines)
<1>1. s # Broken
  BY SpecialValues
<1>2. f.open \in BOOLEAN
  BY DEF File
<1>3. QED
  BY <1>1, <1>2, PutApart, PutStuck DEF Appended

LEMMA TornFacts ==
  ASSUME NEW f \in File, OpenEnds(f), NEW s \in Sample, NEW f2 \in Torn(f, s)
  PROVE  Wrote(f, f2, s)
<1>1. CASE f2 = f
  BY <1>1 DEF Wrote, StoreStep, Loose, File
<1>2. CASE f2 # f
  <2>1. PICK p \in Pieces \cup {s} : f2 = Put(f, p, TRUE)
    BY <1>2 DEF Torn
  <2>2. f.open \in BOOLEAN
    BY DEF File
  <2>3. QED
    BY <2>1, <2>2, PutApart, PutStuck
<1>3. QED
  BY <1>1, <1>2

(* What one of the files contributes to the two sets. *)
LEMMA TroubleIsFinite ==
  ASSUME NEW all \in File, NEW types \in [Types -> File]
  PROVE  /\ IsFiniteSet(Marked(all, types)) /\ IsFiniteSet(OpenFiles(all, types))
         /\ Cardinality(Marked(all, types)) \in Nat
         /\ Cardinality(OpenFiles(all, types)) \in Nat
         /\ Trouble(all, types) \in Nat
<1>1. IsFiniteSet(ByType(types))
  <2>1. ByType(types) = (Intact(types["choice"]) \cup Intact(types["score"])) \cup Intact(types["noul"])
    BY DEF ByType, Types
  <2>2. \A t \in Types : IsFiniteSet(Intact(types[t]))
    BY IntactFacts
  <2>3. IsFiniteSet(Intact(types["choice"]) \cup Intact(types["score"]))
    BY <2>2, FS_Union DEF Types
  <2>4. QED
    BY <2>1, <2>2, <2>3, FS_Union DEF Types
<1>2. IsFiniteSet(Intact(all) \ ByType(types)) /\ IsFiniteSet(ByType(types) \ Intact(all))
  BY <1>1, IntactFacts, FS_Difference
<1>3. IsFiniteSet(Differing(all, types))
  BY <1>2, FS_Union DEF Differing
<1>4. IsFiniteSet(UNION {Loose(types[t]) : t \in Types})
  <2>1. UNION {Loose(types[t]) : t \in Types} =
          (Loose(types["choice"]) \cup Loose(types["score"])) \cup Loose(types["noul"])
    BY DEF Types
  <2>2. \A t \in Types : IsFiniteSet(Loose(types[t]))
    BY IntactFacts
  <2>3. IsFiniteSet(Loose(types["choice"]) \cup Loose(types["score"]))
    BY <2>2, FS_Union DEF Types
  <2>4. IsFiniteSet((Loose(types["choice"]) \cup Loose(types["score"])) \cup Loose(types["noul"]))
    BY <2>2, <2>3, FS_Union DEF Types
  <2>5. QED
    BY <2>1, <2>4
<1>5. IsFiniteSet(Differing(all, types) \cup Loose(all))
  BY <1>3, IntactFacts, FS_Union
<1>6. IsFiniteSet(Marked(all, types))
  BY <1>4, <1>5, FS_Union DEF Marked
<1>7. IsFiniteSet(OpenFiles(all, types))
  <2>1. IsFiniteSet({"choice"}) /\ IsFiniteSet({"score"})
    BY FS_Singleton
  <2>2. IsFiniteSet({"choice"} \cup {"score"})
    BY <2>1, FS_Union
  <2>3. IsFiniteSet(({"choice"} \cup {"score"}) \cup {"noul"})
    BY <2>2, FS_AddElement
  <2>4. IsFiniteSet((({"choice"} \cup {"score"}) \cup {"noul"}) \cup {"all"})
    BY <2>3, FS_AddElement
  <2>5. OpenFiles(all, types) \in SUBSET ((({"choice"} \cup {"score"}) \cup {"noul"}) \cup {"all"})
    BY DEF OpenFiles, Types
  <2>6. QED
    BY <2>4, <2>5, FS_Subset
<1>8. QED
  BY <1>6, <1>7, FS_CardinalityType DEF Trouble

\* types2 differs from types in the file of q, which is f.
Replaced(types, types2, q, f) ==
  /\ types \in [Types -> File] /\ types2 \in [Types -> File]
  /\ q \in Types /\ types2[q] = f
  /\ \A t \in Types : t # q => types2[t] = types[t]

LEMMA IsReplaced ==
  ASSUME NEW types \in [Types -> File], NEW q \in Types, NEW f \in File
  PROVE  Replaced(types, [types EXCEPT ![q] = f], q, f)
BY DEF Replaced

LEMMA OpenReplaced ==
  ASSUME NEW types, NEW q, NEW f, NEW types2, Replaced(types, types2, q, f), NEW all, NEW all2
  PROVE  OpenFiles(all2, types2) =
           (OpenFiles(all, types) \ {"all", q}) \cup
             ((IF all2.open THEN {"all"} ELSE {}) \cup (IF f.open THEN {q} ELSE {}))
BY DEF OpenFiles, Types, Replaced

(* A write marks no other sample than its own: one that was spoiled lacked *)
(* its newline.                                                            *)
LEMMA OthersUnmarked ==
  ASSUME NEW f, NEW f2, NEW s, Wrote(f, f2, s), f \in File,
         NEW x, x # s, x \notin Loose(f)
  PROVE  x \notin Loose(f2) /\ (x \in Intact(f2) <=> x \in Intact(f))
BY DEF Wrote, File

LEMMA MarkedGrows ==
  ASSUME NEW all \in File, NEW all2, NEW types, NEW types2, NEW q, NEW f, NEW s,
         Wrote(all, all2, s), Replaced(types, types2, q, f), Wrote(types[q], f, s)
  PROVE  Marked(all2, types2) \subseteq Marked(all, types) \cup {s}
<1> SUFFICES ASSUME NEW x, x # s, x \notin Marked(all, types)
             PROVE  x \notin Marked(all2, types2)
  OBVIOUS
<1>1. /\ x \notin Loose(all) /\ \A t \in Types : x \notin Loose(types[t])
      /\ x \in Intact(all) <=> x \in ByType(types)
  BY DEF Marked, Differing
<1>2. x \notin Loose(all2) /\ (x \in Intact(all2) <=> x \in Intact(all))
  BY <1>1, OthersUnmarked
<1>3. \A t \in Types : x \notin Loose(types2[t]) /\ (x \in Intact(types2[t]) <=> x \in Intact(types[t]))
  <2>1. types[q] \in File /\ q \in Types
    BY DEF Replaced
  <2>2. x \notin Loose(f) /\ (x \in Intact(f) <=> x \in Intact(types[q]))
    BY <1>1, <2>1, OthersUnmarked
  <2>3. types2[q] = f /\ \A t \in Types : t # q => types2[t] = types[t]
    BY DEF Replaced
  <2>4. QED
    BY <1>1, <2>2, <2>3
<1>4. x \in ByType(types2) <=> x \in ByType(types)
  BY <1>3 DEF ByType
<1>5. QED
  BY <1>1, <1>2, <1>3, <1>4 DEF Marked, Differing

(* Nor its own, when it was written to both files or spoilt in both. *)
LEMMA MarkedSame ==
  ASSUME NEW all \in File, NEW all2, NEW types, NEW types2, NEW q, NEW f, NEW s,
         Wrote(all, all2, s), Replaced(types, types2, q, f), Wrote(types[q], f, s),
         all.open = types[q].open, ~all2.open, ~f.open,
         ~all.open => s \in Intact(all2) /\ s \in Intact(f)
  PROVE  Marked(all2, types2) \subseteq Marked(all, types)
<1> SUFFICES ASSUME s \notin Marked(all, types)
             PROVE  s \notin Marked(all2, types2)
  BY MarkedGrows
<1>1. /\ s \notin Loose(all) /\ \A t \in Types : s \notin Loose(types[t])
      /\ s \in Intact(all) <=> s \in ByType(types)
  BY DEF Marked, Differing
<1>2. /\ q \in Types /\ types2[q] = f /\ \A t \in Types : t # q => types2[t] = types[t]
      /\ types[q] \in File
  BY DEF Replaced
<1>3. s \notin Loose(all2) /\ \A t \in Types : s \notin Loose(types2[t])
  BY <1>1, <1>2 DEF Loose
<1>4. s \in Intact(all2) <=> s \in ByType(types2)
  <2>1. CASE ~all.open
    BY <1>2, <2>1 DEF ByType
  <2>2. CASE all.open
    <3>1. s \in Intact(all2) <=> s \in Intact(all)
      BY <1>1, <2>2 DEF Wrote
    <3>2. s \in Intact(f) <=> s \in Intact(types[q])
      BY <1>1, <1>2, <2>2 DEF Wrote
    <3>3. \A t \in Types : s \in Intact(types2[t]) <=> s \in Intact(types[t])
      BY <1>2, <3>2
    <3>4. QED
      BY <1>1, <3>1, <3>3 DEF ByType
  <2>3. QED
    BY <2>1, <2>2 DEF File
<1>5. QED
  BY <1>3, <1>4 DEF Marked, Differing

LEMMA OneMore ==
  ASSUME NEW S, NEW T, NEW x, IsFiniteSet(S), IsFiniteSet(T), T \subseteq S \cup {x}
  PROVE  Cardinality(T) <= Cardinality(S) + 1
<1>1. IsFiniteSet(S \cup {x}) /\ Cardinality(S \cup {x}) <= Cardinality(S) + 1
  <2>1. /\ IsFiniteSet(S \cup {x})
        /\ Cardinality(S \cup {x}) = IF x \in S THEN Cardinality(S) ELSE Cardinality(S) + 1
    BY FS_AddElement
  <2>2. Cardinality(S) \in Nat
    BY FS_CardinalityType
  <2>3. QED
    BY <2>1, <2>2
<1>2. Cardinality(T) <= Cardinality(S \cup {x})
  BY <1>1, FS_Subset
<1>3. Cardinality(S) \in Nat /\ Cardinality(T) \in Nat /\ Cardinality(S \cup {x}) \in Nat
  BY <1>1, FS_CardinalityType
<1>4. QED
  BY <1>1, <1>2, <1>3

(* A sample written to both files leaves no more trouble than there was. *)
LEMMA WrittenTwice ==
  ASSUME NEW all \in File, NEW types \in [Types -> File], NEW s \in Sample,
         OpenEnds(all), OpenEnds(types[s.type])
  PROVE  LET types2 == [types EXCEPT ![s.type] = Appended(@, s)] IN
         /\ types2 \in [Types -> File] /\ OpenEnds(types2[s.type])
         /\ Trouble(Appended(all, s), types2) <= Trouble(all, types)
<1> DEFINE q == s.type
           f == Appended(types[q], s)
           all2 == Appended(all, s)
           types2 == [types EXCEPT ![q] = f]
<1>1. q \in Types /\ types[q] \in File
  BY DEF Sample
<1>2. /\ Wrote(all, all2, s) /\ ~all2.open
      /\ ~all.open => s \in Intact(all2)
  BY AppendedFacts
<1>3. /\ Wrote(types[q], f, s) /\ ~f.open
      /\ ~types[q].open => s \in Intact(f)
  BY <1>1, AppendedFacts
<1> HIDE DEF f, all2, q
<1>0. all2 \in File /\ f \in File /\ OpenEnds(f)
  BY <1>2, <1>3 DEF Wrote
<1>4. Replaced(types, types2, q, f)
  BY <1>0, <1>1, IsReplaced
<1> HIDE DEF types2
<1>5. types2 \in [Types -> File] /\ types2[q] = f
  BY <1>4 DEF Replaced
<1>6. OpenFiles(all2, types2) = OpenFiles(all, types) \ {"all", q}
  BY <1>2, <1>3, <1>4, OpenReplaced
<1>7. /\ "all" \in OpenFiles(all, types) <=> all.open
      /\ q \in OpenFiles(all, types) <=> types[q].open
      /\ q # "all"
  BY <1>1 DEF OpenFiles, Types
<1>8. /\ IsFiniteSet(Marked(all, types)) /\ IsFiniteSet(OpenFiles(all, types))
      /\ IsFiniteSet(Marked(all2, types2)) /\ IsFiniteSet(OpenFiles(all2, types2))
      /\ Cardinality(Marked(all, types)) \in Nat
      /\ Cardinality(OpenFiles(all, types)) \in Nat
      /\ Cardinality(Marked(all2, types2)) \in Nat
      /\ Cardinality(OpenFiles(all2, types2)) \in Nat
  BY <1>0, <1>5, TroubleIsFinite
<1>9. CASE all.open = types[q].open
  <2>1. Marked(all2, types2) \in SUBSET Marked(all, types)
    BY <1>2, <1>3, <1>4, <1>9, MarkedSame
  <2>2. OpenFiles(all2, types2) \in SUBSET OpenFiles(all, types)
    BY <1>6
  <2>3. /\ Cardinality(Marked(all2, types2)) <= Cardinality(Marked(all, types))
        /\ Cardinality(OpenFiles(all2, types2)) <= Cardinality(OpenFiles(all, types))
    BY <1>8, <2>1, <2>2, FS_Subset
  <2>4. QED
    BY <1>5, <1>8, <2>3, <1>0 DEF Trouble, types2, f, all2, q
<1>10. CASE all.open # types[q].open
  <2>1. Marked(all2, types2) \subseteq Marked(all, types) \cup {s}
    BY <1>2, <1>3, <1>4, MarkedGrows
  <2>2. Cardinality(Marked(all2, types2)) <= Cardinality(Marked(all, types)) + 1
    BY <1>8, <2>1, OneMore
  <2>3. PICK x \in {"all", q} : x \in OpenFiles(all, types)
    <3>1. all.open \in BOOLEAN /\ types[q].open \in BOOLEAN
      BY <1>1 DEF File
    <3>2. QED
      BY <1>7, <1>10, <3>1
  <2>4. OpenFiles(all2, types2) \in SUBSET (OpenFiles(all, types) \ {x})
    BY <1>6, <2>3
  <2>5. /\ IsFiniteSet(OpenFiles(all, types) \ {x})
        /\ Cardinality(OpenFiles(all, types) \ {x}) = Cardinality(OpenFiles(all, types)) - 1
    BY <1>8, <2>3, FS_RemoveElement
  <2>6. Cardinality(OpenFiles(all2, types2)) <= Cardinality(OpenFiles(all, types)) - 1
    BY <2>4, <2>5, FS_Subset
  <2>7. QED
    BY <1>0, <1>5, <1>8, <2>2, <2>6 DEF Trouble, types2, f, all2, q
<1>11. QED
  BY <1>9, <1>10

(* A write that is cut short adds its sample and an open end. *)
LEMMA WrittenBadly ==
  ASSUME NEW all \in File, NEW types \in [Types -> File], NEW s, NEW all2,
         Wrote(all, all2, s), NEW q \in Types, NEW f, Wrote(types[q], f, s),
         f = types[q] \/ ~all2.open
  PROVE  LET types2 == [types EXCEPT ![q] = f] IN
         /\ types2 \in [Types -> File]
         /\ Trouble(all2, types2) <= Trouble(all, types) + 2
<1> DEFINE types2 == [types EXCEPT ![q] = f]
           x == IF f = types[q] THEN "all" ELSE q
<1>1. all2 \in File /\ f \in File
  BY DEF Wrote
<1>2. Replaced(types, types2, q, f)
  BY <1>1, IsReplaced
<1> HIDE DEF types2
<1>3. types2 \in [Types -> File]
  BY <1>2 DEF Replaced
<1>4. /\ IsFiniteSet(Marked(all, types)) /\ IsFiniteSet(OpenFiles(all, types))
      /\ IsFiniteSet(Marked(all2, types2)) /\ IsFiniteSet(OpenFiles(all2, types2))
      /\ Cardinality(Marked(all, types)) \in Nat
      /\ Cardinality(OpenFiles(all, types)) \in Nat
      /\ Cardinality(Marked(all2, types2)) \in Nat
      /\ Cardinality(OpenFiles(all2, types2)) \in Nat
  BY <1>1, <1>3, TroubleIsFinite
<1>5. Cardinality(Marked(all2, types2)) <= Cardinality(Marked(all, types)) + 1
  <2>1. Marked(all2, types2) \subseteq Marked(all, types) \cup {s}
    BY <1>2, MarkedGrows
  <2>2. QED
    BY <1>4, <2>1, OneMore
<1>6. Cardinality(OpenFiles(all2, types2)) <= Cardinality(OpenFiles(all, types)) + 1
  <2>1. f = types[q] => (f.open => q \in OpenFiles(all, types))
    BY DEF OpenFiles, Types
  <2>2. OpenFiles(all2, types2) \subseteq OpenFiles(all, types) \cup {x}
    BY <1>2, <2>1, OpenReplaced
  <2> HIDE DEF x
  <2>3. QED
    BY <1>4, <2>2, OneMore
<1>7. Trouble(all2, types2) <= Trouble(all, types) + 2
  BY <1>4, <1>5, <1>6 DEF Trouble
<1>8. QED
  BY <1>3, <1>7 DEF types2

-----------------------------------------------------------------------------
(* Samples: what a model may answer, and what becomes of it. *)

LEMMA MockCriteriaAreKeys ==
  ASSUME NEW type \in Types, NEW n \in OptionCount[type]
  PROVE  MockCriteria(type, n) \in Seq(Key)
<1>1. n \in 2..16 /\ (type = "score" => n \in 2..10)
  BY AnswerAssumption
<1>2. CASE type = "choice"
  <2>1. \A i \in 1..16 : ActionKey[i] \in Key
    BY AnswerAssumption DEF ActionKey, Range
  <2>2. SubSeq(ActionKey, 1, n) \in Seq(Key)
    BY <1>1, <2>1, SubSeqProperties
  <2>3. QED
    BY <1>2, <2>2 DEF MockCriteria
<1>3. CASE type = "score"
  <2>1. \A i \in 1..10 : LevelKey[i] \in Key
    BY AnswerAssumption DEF LevelKey, Range
  <2>2. SubSeq(LevelKey, 1, n) \in Seq(Key)
    BY <1>1, <1>3, <2>1, SubSeqProperties
  <2>3. QED
    BY <1>3, <2>2 DEF MockCriteria
<1>4. CASE type = "noul"
  BY <1>4 DEF MockCriteria
<1>5. QED
  BY <1>2, <1>3, <1>4 DEF Types

LEMMA AnswersAreRaw ==
  ASSUME NEW c \in {"mock", "http", "llm"}, NEW type \in Types, NEW raw \in AnswersOf(c, type),
         raw # Failed
  PROVE  raw \in Raw
<1>1. CASE c = "mock"
  <2>1. PICK n \in OptionCount[type], text \in Text : raw = MockAnswer(type, n, text)
    BY <1>1 DEF AnswersOf
  <2>2. n \in 2..16
    BY AnswerAssumption
  <2>3. MockCriteria(type, n) \in Seq(Key)
    BY MockCriteriaAreKeys
  <2>4. MockAnswer(type, n, text).target \in Key
    <3>1. LevelKey[1 + (IF n - 1 < 2 THEN n - 1 ELSE 2)] \in Range(LevelKey)
      BY <2>2 DEF LevelKey, Range
    <3>2. "action_a" \in Range(ActionKey)
      BY DEF ActionKey, Range
    <3>3. QED
      BY <3>1, <3>2, AnswerAssumption DEF MockAnswer, Types
  <2>5. QED
    BY <2>1, <2>3, <2>4 DEF MockAnswer, Raw
<1>2. CASE c # "mock"
  BY <1>2, AnswerAssumption DEF AnswersOf
<1>3. QED
  BY <1>1, <1>2

LEMMA PassingGivesSample ==
  ASSUME NEW raw \in Raw, PassesGate1(raw), NEW id \in Types \X Nat
  PROVE  /\ SampleOf(id, raw) \in Sample
         /\ SampleOf(id, raw).id = id /\ SampleOf(id, raw).state = raw.state
BY DEF SampleOf, Sample, Raw, PassesGate1, HasShape

-----------------------------------------------------------------------------
(* What the invariant says of a running batch. *)

LEMMA Facts ==
  ASSUME TypeOK
  PROVE  /\ tasks \in Seq(Task) /\ Len(tasks) \in Nat /\ DOMAIN tasks = 1..Len(tasks)
         /\ \A t \in DOMAIN tasks : tasks[t] \in Task /\ tasks[t].id \in Types \X Nat
         /\ allFile \in File /\ typeFile \in [Types -> File]
         /\ base \in Nat /\ seqIdx \in Nat /\ dead \in Nat /\ faults \in Nat /\ target \in Nat
         /\ stats.attempted \in Nat /\ stats.passed \in Nat
<1>1. tasks \in Seq(Task)
  BY DEF TypeOK, Task, Stages
<1>2. Len(tasks) \in Nat /\ DOMAIN tasks = 1..Len(tasks) /\ \A t \in DOMAIN tasks : tasks[t] \in Task
  BY <1>1, LenProperties, ElementOfSeq
<1>3. QED
  BY <1>1, <1>2 DEF TypeOK, Task

(* A task that moves on without a text to speak for keeps what is known. *)
LEMMA MoveKeeps ==
  ASSUME IInv, phase = "running", NEW t, Moved(tasks, tasks', t),
         tasks[t].stage \in Waiting, tasks'[t].stage # "validating",
         UNCHANGED <<phase, existing, seqIdx, index, files, faults>>
  PROVE  Files' /\ Resting' /\ Resuming' /\ Numbered' /\ Known' /\ AllApart'
<1>1. /\ DOMAIN tasks' = DOMAIN tasks /\ Len(tasks') = Len(tasks) /\ t \in DOMAIN tasks
      /\ tasks'[t].id = tasks[t].id
      /\ \A u \in DOMAIN tasks : u # t => tasks'[u] = tasks[u]
  BY DEF Moved
<1>2. Files'
  BY DEF IInv, Files, files
<1>3. Resting' /\ Resuming'
  BY DEF Resting, Resuming, AtWork
<1>4. Numbered'
  BY <1>1 DEF IInv, Running, Numbered
<1>5. /\ StageSet(tasks', Waiting) \subseteq StageSet(tasks, Waiting)
      /\ StageSet(tasks, {"raised"}) \subseteq StageSet(tasks', {"raised"})
      /\ StageSet(tasks', {"validating"}) \subseteq StageSet(tasks, {"validating"}) \ {t}
  BY <1>1 DEF StageSet, Waiting
<1>6. \A u \in DOMAIN tasks : tasks'[u].id = tasks[u].id
  BY <1>1
<1>7. \A u \in StageSet(tasks', {"validating"}) : tasks'[u] = tasks[u]
  BY <1>1, <1>5 DEF StageSet
<1>8. Known'
  <2>1. Known
    BY DEF IInv, Running
  <2>2. \A s \in Intact(allFile) :
          /\ s.state \in index
          /\ s.id \in existing \/ \E u \in StageSet(tasks', {"raised"}) : tasks'[u].id = s.id
    BY <1>5, <1>6, <2>1 DEF Known, StageSet
  <2>3. Broken \in Range(allFile.lines) => StageSet(tasks', {"raised"}) # {}
    BY <1>5, <2>1 DEF Known
  <2>4. \A u \in StageSet(tasks', Waiting) : tasks'[u].id \notin existing
    BY <1>5, <1>6, <2>1 DEF Known, StageSet
  <2>5. \A u \in StageSet(tasks', {"validating"}) :
          /\ tasks'[u].sample \in Sample
          /\ tasks'[u].sample.id = tasks'[u].id
          /\ tasks'[u].sample.state \in index
    BY <1>5, <1>7, <2>1 DEF Known
  <2>6. QED
    BY <2>2, <2>3, <2>4, <2>5 DEF Known, files
<1>9. AllApart'
  <2>1. AllApart
    BY DEF IInv, Running
  <2>2. \A v \in StageSet(tasks', {"validating"}) :
          /\ \A s \in Intact(allFile) : <<tasks'[v].sample.state, s.state>> \notin Similar
          /\ \A u \in StageSet(tasks', {"validating"}) :
               u # v => <<tasks'[v].sample.state, tasks'[u].sample.state>> \notin Similar
    BY <1>5, <1>7, <2>1 DEF AllApart
  <2>3. QED
    BY <2>2 DEF AllApart, files
<1>10. QED
  BY <1>2, <1>3, <1>4, <1>8, <1>9

Explained(ts, st, d) ==
  /\ st.attempted = st.passed + d + Cardinality(StageSet(ts, UnderWay))
  /\ st.gate[1] + st.gate[2] + st.gate[3] <= d
  /\ st.passed = st.count["choice"] + st.count["score"] + st.count["noul"]

LEMMA ExplainedMeans ==
  /\ ExplainsAttempts <=> Explained(tasks, stats, dead)
  /\ ExplainsAttempts' <=> Explained(tasks', stats', dead')
BY DEF ExplainsAttempts, Explained, StageSet, UnderWay

LEMMA EnterStep ==
  ASSUME IInv, NEW t, Enter(t)
  PROVE  IInv'
<1>0. tasks' = Staged(tasks, t, "generating") /\ stats' = [stats EXCEPT !.attempted = @ + 1]
  BY DEF Enter, Staged
<1>1. /\ phase = "running" /\ t \in DOMAIN tasks /\ tasks[t].stage = "queued"
      /\ UNCHANGED <<phase, client, target, loaded, existing, base, seqIdx, index, dead, files, runs, faults>>
  BY DEF Enter, InStage
<1>2. TypeOK
  BY DEF IInv
<1>3. /\ Moved(tasks, tasks', t) /\ tasks'[t].stage = "generating" /\ tasks' \in Seq(Task)
  <2>1. tasks \in Seq(Task) /\ "generating" \in Stages
    BY <1>2, Facts DEF Stages
  <2>2. QED
    BY <1>0, <1>1, <2>1, StageMoves DEF Moved
<1>4. Files' /\ Resting' /\ Resuming' /\ Numbered' /\ Known' /\ AllApart'
  BY <1>1, <1>3, MoveKeeps DEF Waiting
<1>5. /\ Cardinality(StageSet(tasks', UnderWay)) = Cardinality(StageSet(tasks, UnderWay)) + 1
      /\ Cardinality(StageSet(tasks', Unfinished)) = Cardinality(StageSet(tasks, Unfinished))
      /\ Cardinality(StageSet(tasks', {"raised"})) = Cardinality(StageSet(tasks, {"raised"}))
  <2>1. /\ "queued" \notin UnderWay /\ "generating" \in UnderWay
        /\ "queued" \in Unfinished /\ "generating" \in Unfinished
        /\ "queued" \notin {"raised"} /\ "generating" \notin {"raised"}
    BY DEF UnderWay, Unfinished
  <2>2. Cardinality(StageSet(tasks', UnderWay)) = Cardinality(StageSet(tasks, UnderWay)) + 1
    BY <1>1, <1>3, <2>1, MovedCount
  <2>3. Cardinality(StageSet(tasks', Unfinished)) = Cardinality(StageSet(tasks, Unfinished))
    BY <1>1, <1>3, <2>1, MovedCount
  <2>4. Cardinality(StageSet(tasks', {"raised"})) = Cardinality(StageSet(tasks, {"raised"}))
    BY <1>1, <1>3, <2>1, MovedCount
  <2>5. QED
    BY <2>2, <2>3, <2>4
<1>6. /\ stats' \in [attempted : Nat, passed : Nat, gate : [1..3 -> Nat], count : [Types -> Nat]]
      /\ stats'.attempted = stats.attempted + 1 /\ stats'.passed = stats.passed
      /\ stats'.gate = stats.gate /\ stats'.count = stats.count
  <2>1. stats \in [attempted : Nat, passed : Nat, gate : [1..3 -> Nat], count : [Types -> Nat]]
    BY <1>2 DEF TypeOK
  <2>2. QED
    BY <1>0, <2>1
<1>7. TypeOK'
  BY <1>1, <1>2, <1>3, <1>6 DEF TypeOK, Task, Stages, files
<1>8. ExplainsAttempts'
  <2>1. Explained(tasks, stats, dead)
    BY ExplainedMeans DEF IInv
  <2>2. Cardinality(StageSet(tasks, UnderWay)) \in Nat
    BY <1>2, Facts, TasksFinite
  <2>3. stats.passed \in Nat /\ dead \in Nat /\ dead' = dead
    BY <1>1, <1>2, Facts
  <2>4. Explained(tasks', stats', dead')
    BY <1>5, <1>6, <2>1, <2>2, <2>3 DEF Explained
  <2>5. QED
    BY <2>4, ExplainedMeans
<1>9. Budget'
  <2>1. Budget
    BY <1>1 DEF IInv, Running
  <2>2. QED
    BY <1>1, <1>5, <1>6, <2>1 DEF Budget, files
<1>10. QED
  BY <1>4, <1>7, <1>8, <1>9 DEF IInv, Running

(* A rejection: the attempt has its line among the dead letters. *)
LEMMA RejectStep ==
  ASSUME IInv, NEW t, NEW g \in 0..3, Reject(t, g), phase = "running", t \in DOMAIN tasks,
         tasks[t].stage \in {"generating", "validating"},
         UNCHANGED <<phase, client, target, loaded, existing, base, seqIdx, index, files, runs, faults>>
  PROVE  IInv'
<1>0. stats' = IF g = 0 THEN stats ELSE [stats EXCEPT !.gate[g] = @ + 1]
  BY DEF Reject
<1>1. dead' = dead + 1
  BY DEF Reject
<1>2. TypeOK
  BY DEF IInv
<1>3. /\ Moved(tasks, tasks', t) /\ tasks'[t].stage = "done" /\ tasks' \in Seq(Task)
  <2>1. tasks \in Seq(Task) /\ "done" \in Stages /\ NoSample \in Sample \cup {NoSample}
    BY <1>2, Facts DEF Stages
  <2>2. tasks' = Settled(tasks, t, "done", NoSample)
    BY DEF Reject, Settled
  <2>3. QED
    BY <2>1, <2>2, SampleMoves DEF Moved
<1>4. Files' /\ Resting' /\ Resuming' /\ Numbered' /\ Known' /\ AllApart'
  BY <1>3, MoveKeeps DEF Waiting
<1>5. /\ Cardinality(StageSet(tasks', UnderWay)) = Cardinality(StageSet(tasks, UnderWay)) - 1
      /\ Cardinality(StageSet(tasks', Unfinished)) = Cardinality(StageSet(tasks, Unfinished)) - 1
      /\ Cardinality(StageSet(tasks', {"raised"})) = Cardinality(StageSet(tasks, {"raised"}))
  BY <1>3, MovedCount DEF UnderWay, Unfinished
<1>6. /\ stats' \in [attempted : Nat, passed : Nat, gate : [1..3 -> Nat], count : [Types -> Nat]]
      /\ stats'.attempted = stats.attempted /\ stats'.passed = stats.passed
      /\ stats'.count = stats.count
      /\ stats'.gate[1] + stats'.gate[2] + stats'.gate[3] <= (stats.gate[1] + stats.gate[2] + stats.gate[3]) + 1
  <2>1. stats \in [attempted : Nat, passed : Nat, gate : [1..3 -> Nat], count : [Types -> Nat]]
    BY <1>2 DEF TypeOK
  <2>2. CASE g = 0
    BY <1>0, <2>1, <2>2
  <2>3. CASE g # 0
    <3>1. g \in 1..3 /\ stats.gate \in [1..3 -> Nat]
      BY <2>1, <2>3
    <3>2. stats' = [stats EXCEPT !.gate = [stats.gate EXCEPT ![g] = @ + 1]]
      BY <1>0, <2>1, <2>3
    <3>3. [stats.gate EXCEPT ![g] = @ + 1] \in [1..3 -> Nat]
      BY <3>1
    <3>4. stats'.gate = [stats.gate EXCEPT ![g] = @ + 1]
      BY <2>1, <3>2
    <3>5. /\ stats'.gate[g] = stats.gate[g] + 1
          /\ \A h \in 1..3 : h # g => stats'.gate[h] = stats.gate[h]
          /\ \A h \in 1..3 : stats.gate[h] \in Nat
      BY <3>1, <3>4
    <3>6. stats'.gate[1] + stats'.gate[2] + stats'.gate[3] <= (stats.gate[1] + stats.gate[2] + stats.gate[3]) + 1
      BY <3>1, <3>5
    <3>7. QED
      BY <2>1, <3>2, <3>3, <3>6
  <2>4. QED
    BY <2>2, <2>3
<1>7. TypeOK'
  <2>1. dead' \in Nat
    BY <1>1, <1>2, Facts
  <2>2. QED
    BY <1>2, <1>3, <1>6, <2>1 DEF TypeOK, Task, Stages, files
<1>8. ExplainsAttempts'
  <2>1. Explained(tasks, stats, dead)
    BY ExplainedMeans DEF IInv
  <2>2. Cardinality(StageSet(tasks, UnderWay)) \in Nat
    BY <1>2, Facts, TasksFinite
  <2>3. \A h \in 1..3 : stats.gate[h] \in Nat /\ stats'.gate[h] \in Nat
    BY <1>2, <1>6 DEF TypeOK
  <2>4. stats.passed \in Nat /\ dead \in Nat
    BY <1>2, Facts
  <2>5. stats'.attempted = stats'.passed + dead' + Cardinality(StageSet(tasks', UnderWay))
    BY <1>1, <1>5, <1>6, <2>1, <2>2, <2>4 DEF Explained
  <2>6. stats'.gate[1] + stats'.gate[2] + stats'.gate[3] <= dead'
    BY <1>1, <1>6, <2>1, <2>3, <2>4 DEF Explained
  <2>7. QED
    BY <1>6, <2>1, <2>5, <2>6, ExplainedMeans DEF Explained
<1>9. Budget'
  <2>1. Budget
    BY DEF IInv, Running
  <2>2. Cardinality(StageSet(tasks, Unfinished)) \in Nat
    BY <1>2, Facts, TasksFinite
  <2>3. base \in Nat /\ stats.passed \in Nat /\ target \in Nat
    BY <1>2, Facts
  <2>4. base' = base /\ target' = target /\ Intact(allFile') = Intact(allFile)
    BY DEF files
  <2>5. QED
    BY <1>5, <1>6, <2>1, <2>2, <2>3, <2>4 DEF Budget
<1>10. QED
  BY <1>4, <1>7, <1>8, <1>9 DEF IInv, Running

(* Criteria that dict() refuses: the exception leaves the task. *)
LEMMA RaiseStep ==
  ASSUME IInv, NEW t, phase = "running", t \in DOMAIN tasks, tasks[t].stage = "generating",
         tasks' = Staged(tasks, t, "raised"),
         UNCHANGED <<phase, client, target, loaded, existing, base, seqIdx, index, stats, dead, files, runs, faults>>
  PROVE  IInv'
<1>1. TypeOK
  BY DEF IInv
<1>2. /\ Moved(tasks, tasks', t) /\ tasks'[t].stage = "raised" /\ tasks' \in Seq(Task)
  <2>1. tasks \in Seq(Task) /\ "raised" \in Stages
    BY <1>1, Facts DEF Stages
  <2>2. QED
    BY <2>1, StageMoves DEF Moved
<1>3. Files' /\ Resting' /\ Resuming' /\ Numbered' /\ Known' /\ AllApart'
  BY <1>2, MoveKeeps DEF Waiting
<1>4. /\ Cardinality(StageSet(tasks', UnderWay)) = Cardinality(StageSet(tasks, UnderWay))
      /\ Cardinality(StageSet(tasks', Unfinished)) = Cardinality(StageSet(tasks, Unfinished))
      /\ Cardinality(StageSet(tasks', {"raised"})) = Cardinality(StageSet(tasks, {"raised"})) + 1
  BY <1>2, MovedCount DEF UnderWay, Unfinished
<1>5. TypeOK'
  BY <1>1, <1>2 DEF TypeOK, Task, Stages, files
<1>6. ExplainsAttempts'
  <2>1. Explained(tasks, stats, dead)
    BY ExplainedMeans DEF IInv
  <2>2. stats' = stats /\ dead' = dead
    OBVIOUS
  <2>3. Explained(tasks', stats', dead')
    BY <1>4, <2>1, <2>2 DEF Explained
  <2>4. QED
    BY <2>3, ExplainedMeans
<1>7. Budget'
  <2>1. Budget
    BY DEF IInv, Running
  <2>2. /\ base \in Nat /\ stats.passed \in Nat /\ target \in Nat
        /\ Cardinality(Intact(allFile)) \in Nat
        /\ Cardinality(StageSet(tasks, {"raised"})) \in Nat
    BY <1>1, Facts, TasksFinite, IntactFacts
  <2>3. base' = base /\ target' = target /\ Intact(allFile') = Intact(allFile) /\ stats' = stats
    BY DEF files
  <2>4. QED
    BY <1>4, <2>1, <2>2, <2>3 DEF Budget
<1>8. QED
  BY <1>3, <1>5, <1>6, <1>7 DEF IInv, Running

(* A sample that passes the first two gates speaks for its text. *)
LEMMA SpeakStep ==
  ASSUME IInv, NEW t, phase = "running", t \in DOMAIN tasks, tasks[t].stage = "generating",
         NEW raw \in Raw, PassesGate1(raw), ~IsDuplicate(index, raw.state),
         index' = index \cup {raw.state},
         tasks' = Settled(tasks, t, "validating", SampleOf(tasks[t].id, raw)),
         UNCHANGED <<phase, client, target, loaded, existing, base, seqIdx, stats, dead, files, runs, faults>>
  PROVE  IInv'
<1> DEFINE s == SampleOf(tasks[t].id, raw)
<1>1. TypeOK
  BY DEF IInv
<1>2. s \in Sample /\ s.id = tasks[t].id /\ s.state = raw.state
  <2>1. tasks[t].id \in Types \X Nat
    BY <1>1, Facts
  <2>2. QED
    BY <2>1, PassingGivesSample
<1>3. tasks' = Settled(tasks, t, "validating", s)
  OBVIOUS
<1> HIDE DEF s
<1>4. /\ Moved(tasks, tasks', t) /\ tasks' \in Seq(Task)
      /\ tasks'[t].stage = "validating" /\ tasks'[t].sample = s
  <2>1. tasks \in Seq(Task) /\ "validating" \in Stages /\ s \in Sample \cup {NoSample}
    BY <1>1, <1>2, Facts DEF Stages
  <2>2. QED
    BY <1>3, <2>1, SampleMoves DEF Moved
<1>5. /\ DOMAIN tasks' = DOMAIN tasks /\ Len(tasks') = Len(tasks) /\ tasks'[t].id = tasks[t].id
      /\ \A u \in DOMAIN tasks : u # t => tasks'[u] = tasks[u]
  BY <1>4 DEF Moved
<1>6. /\ StageSet(tasks', Waiting) = StageSet(tasks, Waiting)
      /\ StageSet(tasks', {"raised"}) = StageSet(tasks, {"raised"})
      /\ StageSet(tasks', {"validating"}) = StageSet(tasks, {"validating"}) \cup {t}
      /\ t \notin StageSet(tasks, {"validating"}) /\ t \in StageSet(tasks, Waiting)
  BY <1>4, <1>5 DEF StageSet, Waiting
<1>7. \A u \in DOMAIN tasks : tasks'[u].id = tasks[u].id
  BY <1>5
<1>8. \A u \in StageSet(tasks, {"validating"}) : tasks'[u] = tasks[u]
  BY <1>5, <1>6 DEF StageSet
<1>9. Known /\ AllApart
  BY DEF IInv, Running
<1>10. Files' /\ Resting' /\ Resuming'
  BY DEF IInv, Files, Resting, Resuming, AtWork, files
<1>11. Numbered'
  BY <1>5, <1>7 DEF IInv, Running, Numbered
<1>12. Known'
  <2>1. \A o \in Intact(allFile) :
          /\ o.state \in index'
          /\ o.id \in existing \/ \E u \in StageSet(tasks', {"raised"}) : tasks'[u].id = o.id
    BY <1>6, <1>7, <1>9 DEF Known, StageSet
  <2>2. \A u \in StageSet(tasks', Waiting) : tasks'[u].id \notin existing
    BY <1>6, <1>7, <1>9 DEF Known, StageSet
  <2>3. \A u \in StageSet(tasks', {"validating"}) :
          /\ tasks'[u].sample \in Sample
          /\ tasks'[u].sample.id = tasks'[u].id
          /\ tasks'[u].sample.state \in index'
    BY <1>2, <1>4, <1>5, <1>6, <1>8, <1>9 DEF Known
  <2>4. Broken \in Range(allFile.lines) => StageSet(tasks', {"raised"}) # {}
    BY <1>6, <1>9 DEF Known
  <2>5. QED
    BY <2>1, <2>2, <2>3, <2>4 DEF Known, files
<1>13. AllApart'
  <2>1. \A text \in index : <<s.state, text>> \notin Similar /\ <<text, s.state>> \notin Similar
    BY <1>2, TextAssumption DEF IsDuplicate
  <2>2. \A o \in Intact(allFile) : <<s.state, o.state>> \notin Similar
    BY <1>9, <2>1 DEF Known
  <2>3. \A u \in StageSet(tasks, {"validating"}) :
          /\ <<s.state, tasks[u].sample.state>> \notin Similar
          /\ <<tasks[u].sample.state, s.state>> \notin Similar
    BY <1>9, <2>1 DEF Known
  <2>4. ASSUME NEW v \in StageSet(tasks', {"validating"})
        PROVE  /\ \A o \in Intact(allFile) : <<tasks'[v].sample.state, o.state>> \notin Similar
               /\ \A u \in StageSet(tasks', {"validating"}) :
                    u # v => <<tasks'[v].sample.state, tasks'[u].sample.state>> \notin Similar
    <3>1. CASE v = t
      <4>1. tasks'[v].sample = s
        BY <1>4, <3>1
      <4>2. \A u \in StageSet(tasks', {"validating"}) :
              u # v => u \in StageSet(tasks, {"validating"}) /\ tasks'[u] = tasks[u]
        BY <1>6, <1>8, <3>1
      <4>3. QED
        BY <2>2, <2>3, <4>1, <4>2
    <3>2. CASE v # t
      <4>1. v \in StageSet(tasks, {"validating"}) /\ tasks'[v] = tasks[v]
        BY <1>6, <1>8, <3>2
      <4>2. \A u \in StageSet(tasks', {"validating"}) :
              \/ u = t
              \/ u \in StageSet(tasks, {"validating"}) /\ tasks'[u] = tasks[u]
        BY <1>6, <1>8
      <4>3. QED
        BY <1>4, <1>9, <2>3, <4>1, <4>2 DEF AllApart
    <3>3. QED
      BY <3>1, <3>2
  <2>5. QED
    BY <2>4 DEF AllApart, files
<1>14. /\ Cardinality(StageSet(tasks', UnderWay)) = Cardinality(StageSet(tasks, UnderWay))
       /\ Cardinality(StageSet(tasks', Unfinished)) = Cardinality(StageSet(tasks, Unfinished))
       /\ Cardinality(StageSet(tasks', {"raised"})) = Cardinality(StageSet(tasks, {"raised"}))
  BY <1>4, MovedCount DEF UnderWay, Unfinished
<1>15. TypeOK'
  <2>1. index' \subseteq Text
    BY <1>1 DEF TypeOK, Raw
  <2>2. QED
    BY <1>1, <1>4, <2>1 DEF TypeOK, Task, Stages, files
<1>16. ExplainsAttempts'
  <2>1. Explained(tasks, stats, dead)
    BY ExplainedMeans DEF IInv
  <2>2. Explained(tasks', stats', dead')
    BY <1>14, <2>1 DEF Explained
  <2>3. QED
    BY <2>2, ExplainedMeans
<1>17. Budget'
  <2>1. Budget
    BY DEF IInv, Running
  <2>2. base' = base /\ target' = target /\ Intact(allFile') = Intact(allFile) /\ stats' = stats
    BY DEF files
  <2>3. QED
    BY <1>14, <2>1, <2>2 DEF Budget
<1>18. QED
  BY <1>10, <1>11, <1>12, <1>13, <1>15, <1>16, <1>17 DEF IInv, Running

-----------------------------------------------------------------------------
(* Writes of a sample that was under validation.                           *)

StoreMoves == Store!Next \/ UNCHANGED <<Intact(allFile), Loose(allFile)>>

(* It is like none in the common file, so that its line, whole or a piece  *)
(* of it, on its own or stuck to another, is a step of the store.          *)
LEMMA WriteIsFresh ==
  ASSUME IInv, phase = "running", NEW t \in StageSet(tasks, {"validating"}),
         Wrote(allFile, allFile', tasks[t].sample)
  PROVE  /\ tasks[t].sample \in Sample /\ tasks[t].sample.id = tasks[t].id
         /\ allFile' \in File /\ OpenEnds(allFile') /\ Len(allFile'.lines) >= Len(allFile.lines)
         /\ LooseOnce(allFile')
         /\ Intact(allFile') \subseteq Intact(allFile) \cup {tasks[t].sample}
         /\ Cardinality(Intact(allFile')) <= Cardinality(Intact(allFile)) + 1
         /\ \A a \in Intact(allFile'), b \in Intact(allFile') : a # b => Apart(a, b)
         /\ StoreMoves
<1> DEFINE s == tasks[t].sample
<1>1. TypeOK /\ Files /\ Numbered /\ Known /\ AllApart
  BY DEF IInv, Running
<1>2. s \in Sample /\ s.id = tasks[t].id /\ t \in DOMAIN tasks
  BY <1>1 DEF Known, StageSet
<1>3. allFile \in File /\ OpenEnds(allFile) /\ LooseOnce(allFile)
  BY <1>1, Facts DEF Files
<1> HIDE DEF s
<1>4. /\ allFile' \in File /\ OpenEnds(allFile') /\ Len(allFile'.lines) >= Len(allFile.lines)
      /\ Intact(allFile') \subseteq Intact(allFile) \cup {s}
  BY <1>3 DEF Wrote, File, s
<1>5. tasks[t].id \notin existing
  BY <1>1 DEF Known, StageSet, Waiting
<1>6. \A u \in StageSet(tasks, {"raised"}) : tasks[u].id # tasks[t].id
  <2>1. ASSUME NEW u \in StageSet(tasks, {"raised"}), tasks[u].id = tasks[t].id
        PROVE  FALSE
    <3>1. u \in DOMAIN tasks /\ u # t
      BY <2>1 DEF StageSet
    <3>2. u \in Nat /\ t \in Nat /\ seqIdx \in Nat /\ Len(tasks) \in Nat
      BY <1>1, <1>2, <3>1, Facts
    <3>3. /\ tasks[u].id[2] = (seqIdx - Len(tasks)) + (u - 1)
          /\ tasks[t].id[2] = (seqIdx - Len(tasks)) + (t - 1)
      BY <1>1, <1>2, <3>1 DEF Numbered
    <3>4. QED
      BY <2>1, <3>1, <3>2, <3>3
  <2>2. QED
    BY <2>1
<1>7. \A o \in Intact(allFile) : s.id # o.id /\ <<s.state, o.state>> \notin Similar
  BY <1>1, <1>2, <1>5, <1>6 DEF Known, AllApart, s
<1>8. \A p \in Text, q \in Text : <<p, q>> \in Similar => <<q, p>> \in Similar
  BY TextAssumption
<1>9. \A o \in Intact(allFile) : Apart(s, o) /\ Apart(o, s)
  <2>1. \A o \in Intact(allFile) \cup {s} : o.state \in Text
    BY <1>2, <1>3, IntactFacts DEF Sample
  <2>2. QED
    BY <1>7, <1>8, <2>1 DEF Apart
<1>10. \A a \in Intact(allFile'), b \in Intact(allFile') : a # b => Apart(a, b)
  <2>1. \A a \in Intact(allFile), b \in Intact(allFile) : a # b => Apart(a, b)
    BY <1>1 DEF Files
  <2>2. QED
    BY <1>4, <1>9, <2>1
<1>11. Cardinality(Intact(allFile')) <= Cardinality(Intact(allFile)) + 1
  BY <1>3, <1>4, IntactFacts, OneMore
<1>12. LooseOnce(allFile') /\ StoreStep(allFile, allFile', s)
  BY <1>3, <1>7 DEF Wrote, s
<1>13. StoreMoves
  <2>1. CASE Loose(allFile) # {} /\ Intact(allFile') = Intact(allFile) \ Loose(allFile) /\ Loose(allFile') = {}
    <3>1. Store!Spoil
      BY <2>1 DEF Store!Spoil
    <3>2. QED
      BY <3>1 DEF StoreMoves, Store!Next
  <2>2. CASE /\ Loose(allFile) = {} /\ Intact(allFile') = Intact(allFile) \cup {s}
             /\ Loose(allFile') \in {{}, {s}}
    <3>1. s \in Intact(allFile)' \ Intact(allFile) /\ Store!Add(s)
      BY <1>7, <2>2 DEF Store!Add, Store!Fresh
    <3>2. QED
      BY <3>1 DEF StoreMoves, Store!Next
  <2>3. CASE Intact(allFile') = Intact(allFile) /\ Loose(allFile') = Loose(allFile)
    BY <2>3 DEF StoreMoves
  <2>4. QED
    BY <1>12, <2>1, <2>2, <2>3 DEF StoreStep
<1>14. QED
  BY <1>2, <1>4, <1>10, <1>11, <1>12, <1>13 DEF s

(* What is known once its task is over, with its id or an exception. *)
LEMMA WriteKeeps ==
  ASSUME IInv, phase = "running", NEW t \in StageSet(tasks, {"validating"}),
         Moved(tasks, tasks', t), tasks'[t].stage \in {"done", "raised"},
         Intact(allFile') \subseteq Intact(allFile) \cup {tasks[t].sample},
         Broken \in Range(allFile'.lines) => Broken \in Range(allFile.lines) \/ tasks'[t].stage = "raised",
         existing \subseteq existing', existing' \subseteq existing \cup {tasks[t].id},
         tasks'[t].stage = "done" => tasks[t].id \in existing',
         UNCHANGED <<seqIdx, index>>
  PROVE  Numbered' /\ Known' /\ AllApart'
<1>1. /\ DOMAIN tasks' = DOMAIN tasks /\ Len(tasks') = Len(tasks) /\ t \in DOMAIN tasks
      /\ tasks'[t].id = tasks[t].id
      /\ \A u \in DOMAIN tasks : u # t => tasks'[u] = tasks[u]
  BY DEF Moved
<1>2. TypeOK /\ Numbered /\ Known /\ AllApart
  BY DEF IInv, Running
<1>3. Numbered'
  BY <1>1, <1>2 DEF Numbered
<1>4. \A u \in DOMAIN tasks : u # t => tasks[u].id # tasks[t].id
  <2>1. ASSUME NEW u \in DOMAIN tasks, u # t, tasks[u].id = tasks[t].id
        PROVE  FALSE
    <3>1. u \in Nat /\ t \in Nat /\ seqIdx \in Nat /\ Len(tasks) \in Nat
      BY <1>1, <1>2, Facts
    <3>2. /\ tasks[u].id[2] = (seqIdx - Len(tasks)) + (u - 1)
          /\ tasks[t].id[2] = (seqIdx - Len(tasks)) + (t - 1)
      BY <1>1, <1>2 DEF Numbered
    <3>3. QED
      BY <2>1, <3>1, <3>2
  <2>2. QED
    BY <2>1
<1>5. /\ StageSet(tasks', Waiting) \subseteq StageSet(tasks, Waiting) \ {t}
      /\ StageSet(tasks, {"raised"}) \subseteq StageSet(tasks', {"raised"})
      /\ StageSet(tasks', {"validating"}) \subseteq StageSet(tasks, {"validating"}) \ {t}
      /\ tasks'[t].stage = "raised" => t \in StageSet(tasks', {"raised"})
  BY <1>1 DEF StageSet, Waiting
<1>6. \A u \in DOMAIN tasks : tasks'[u].id = tasks[u].id
  BY <1>1
<1>7. \A u \in StageSet(tasks', {"validating"}) : tasks'[u] = tasks[u]
  BY <1>1, <1>5 DEF StageSet
<1>8. Known'
  <2>1. ASSUME NEW o \in Intact(allFile')
        PROVE  /\ o.state \in index
               /\ o.id \in existing' \/ \E u \in StageSet(tasks', {"raised"}) : tasks'[u].id = o.id
    <3>1. CASE o \in Intact(allFile)
      BY <1>2, <1>5, <1>6, <3>1 DEF Known, StageSet
    <3>2. CASE o = tasks[t].sample
      <4>1. o.state \in index /\ o.id = tasks[t].id
        BY <1>2, <3>2 DEF Known
      <4>2. tasks'[t].stage = "raised" => \E u \in StageSet(tasks', {"raised"}) : tasks'[u].id = o.id
        BY <1>1, <1>5, <4>1
      <4>3. QED
        BY <4>1, <4>2
    <3>3. QED
      BY <3>1, <3>2
  <2>2. \A u \in StageSet(tasks', Waiting) : tasks'[u].id \notin existing'
    BY <1>2, <1>4, <1>5, <1>6 DEF Known, StageSet
  <2>3. \A u \in StageSet(tasks', {"validating"}) :
          /\ tasks'[u].sample \in Sample
          /\ tasks'[u].sample.id = tasks'[u].id
          /\ tasks'[u].sample.state \in index
    BY <1>2, <1>5, <1>7 DEF Known
  <2>4. Broken \in Range(allFile'.lines) => StageSet(tasks', {"raised"}) # {}
    BY <1>2, <1>5 DEF Known
  <2>5. QED
    BY <2>1, <2>2, <2>3, <2>4 DEF Known
<1>9. AllApart'
  <2>1. ASSUME NEW v \in StageSet(tasks', {"validating"})
        PROVE  \A o \in Intact(allFile') : <<tasks'[v].sample.state, o.state>> \notin Similar
    <3>1. v \in StageSet(tasks, {"validating"}) /\ v # t /\ tasks'[v] = tasks[v]
      BY <1>5, <1>7, <2>1
    <3>2. QED
      BY <1>2, <3>1 DEF AllApart
  <2>2. ASSUME NEW v \in StageSet(tasks', {"validating"})
        PROVE  \A u \in StageSet(tasks', {"validating"}) :
                 u # v => <<tasks'[v].sample.state, tasks'[u].sample.state>> \notin Similar
    BY <1>2, <1>5, <1>7, <2>2 DEF AllApart
  <2>3. QED
    BY <2>1, <2>2 DEF AllApart
<1>10. QED
  BY <1>3, <1>8, <1>9

Stats == [attempted : Nat, passed : Nat, gate : [1..3 -> Nat], count : [Types -> Nat]]

Counted(st, p, c) == [st EXCEPT !.passed = p, !.count = c]

LEMMA StatsOfAPass ==
  ASSUME NEW st \in Stats, NEW p \in Nat, NEW c \in [Types -> Nat]
  PROVE  /\ Counted(st, p, c) \in Stats
         /\ Counted(st, p, c).passed = p /\ Counted(st, p, c).count = c
         /\ Counted(st, p, c).attempted = st.attempted /\ Counted(st, p, c).gate = st.gate
BY DEF Stats, Counted

LEMMA PassStep ==
  ASSUME IInv, NEW t, phase = "running", t \in DOMAIN tasks, tasks[t].stage = "validating",
         Persist(t), existing' = existing \cup {tasks[t].id},
         tasks' = Settled(tasks, t, "done", NoSample), UNCHANGED dead,
         UNCHANGED <<phase, client, target, loaded, base, seqIdx, index, runs, faults>>
  PROVE  IInv' /\ StoreMoves
<1> DEFINE s == tasks[t].sample
<1>1. TypeOK
  BY DEF IInv
<1>2. t \in StageSet(tasks, {"validating"})
  BY DEF StageSet
<1>3. /\ allFile' = Appended(allFile, s)
      /\ typeFile' = [typeFile EXCEPT ![s.type] = Appended(@, s)]
  BY DEF Persist
<1>4. stats' = [stats EXCEPT !.passed = @ + 1, !.count[s.type] = @ + 1]
  BY DEF Persist
<1>0. /\ s \in Sample /\ allFile \in File /\ OpenEnds(allFile)
      /\ Wrote(allFile, allFile', s)
      /\ Broken \in Range(allFile'.lines) => Broken \in Range(allFile.lines)
  <2>1. s \in Sample /\ allFile \in File /\ OpenEnds(allFile)
    BY <1>1, <1>2, Facts DEF IInv, Files, Running, Known
  <2>2. QED
    BY <1>3, <2>1, AppendedFacts
<1>5. /\ s \in Sample /\ s.id = tasks[t].id
      /\ allFile' \in File /\ OpenEnds(allFile') /\ Len(allFile'.lines) >= Len(allFile.lines)
      /\ LooseOnce(allFile')
      /\ Intact(allFile') \subseteq Intact(allFile) \cup {s}
      /\ Cardinality(Intact(allFile')) <= Cardinality(Intact(allFile)) + 1
      /\ \A a \in Intact(allFile'), b \in Intact(allFile') : a # b => Apart(a, b)
      /\ StoreMoves
  BY <1>0, <1>2, WriteIsFresh
<1>6. s.type \in Types
  BY <1>5 DEF Sample
<1> HIDE DEF s
<1>7. /\ Moved(tasks, tasks', t) /\ tasks' \in Seq(Task) /\ tasks'[t].stage = "done"
  <2>1. tasks \in Seq(Task) /\ "done" \in Stages /\ NoSample \in Sample \cup {NoSample}
    BY <1>1, Facts DEF Stages
  <2>2. QED
    BY <2>1, SampleMoves DEF Moved
<1>8. Numbered' /\ Known' /\ AllApart'
  <2>1. Intact(allFile') \subseteq Intact(allFile) \cup {tasks[t].sample}
    BY <1>5 DEF s
  <2>2. QED
    BY <1>0, <1>2, <1>7, <2>1, WriteKeeps
<1>9. typeFile' \in [Types -> File] /\ \A q \in Types : OpenEnds(typeFile'[q])
  <2>1. typeFile \in [Types -> File] /\ \A q \in Types : OpenEnds(typeFile[q])
    BY <1>1, Facts DEF IInv, Files
  <2>2. Appended(typeFile[s.type], s) \in File /\ OpenEnds(Appended(typeFile[s.type], s))
    BY <1>5, <1>6, <2>1, AppendedFacts DEF Wrote
  <2>3. QED
    BY <1>3, <1>6, <2>1, <2>2
<1>10. Files'
  <2>1. allFile \in File /\ typeFile \in [Types -> File] /\ OpenEnds(allFile) /\ OpenEnds(typeFile[s.type])
    BY <1>1, <1>6, Facts DEF IInv, Files
  <2>2. Trouble(allFile', typeFile') <= Trouble(allFile, typeFile)
    BY <1>3, <1>5, <2>1, WrittenTwice
  <2>3. Trouble(allFile', typeFile') \in Nat /\ Trouble(allFile, typeFile) \in Nat /\ faults \in Nat
    BY <1>1, <1>5, <1>9, <2>1, TroubleIsFinite, Facts
  <2>4. Trouble(allFile, typeFile) <= 2 * faults
    BY DEF IInv, Files
  <2>5. Trouble(allFile', typeFile') <= 2 * faults'
    BY <2>2, <2>3, <2>4
  <2>6. QED
    BY <1>5, <1>9, <2>5 DEF Files
<1>11. Resting' /\ Resuming'
  BY DEF Resting, Resuming, AtWork
<1>12. /\ stats' \in [attempted : Nat, passed : Nat, gate : [1..3 -> Nat], count : [Types -> Nat]]
       /\ stats'.attempted = stats.attempted /\ stats'.gate = stats.gate
       /\ stats'.passed = stats.passed + 1
       /\ stats'.count["choice"] + stats'.count["score"] + stats'.count["noul"] =
            (stats.count["choice"] + stats.count["score"] + stats.count["noul"]) + 1
  <2>1. stats \in [attempted : Nat, passed : Nat, gate : [1..3 -> Nat], count : [Types -> Nat]]
    BY <1>1 DEF TypeOK
  <2> DEFINE counts == [stats.count EXCEPT ![s.type] = @ + 1]
  <2>2. counts \in [Types -> Nat]
    BY <1>6, <2>1
  <2>3. /\ \A q \in Types : stats.count[q] \in Nat
        /\ counts[s.type] = stats.count[s.type] + 1
        /\ \A q \in Types : q # s.type => counts[q] = stats.count[q]
    BY <1>6, <2>1
  <2>4. stats' = [stats EXCEPT !.passed = stats.passed + 1, !.count = counts]
    BY <1>4, <2>1
  <2> HIDE DEF counts
  <2>5. counts["choice"] + counts["score"] + counts["noul"] =
          (stats.count["choice"] + stats.count["score"] + stats.count["noul"]) + 1
    BY <1>6, <2>3 DEF Types
  <2>6. stats'.count = counts
    BY <2>1, <2>4
  <2>7. stats.passed \in Nat
    BY <2>1
  <2>8. /\ stats' \in [attempted : Nat, passed : Nat, gate : [1..3 -> Nat], count : [Types -> Nat]]
        /\ stats'.attempted = stats.attempted /\ stats'.gate = stats.gate
        /\ stats'.passed = stats.passed + 1
    <3>1. stats \in Stats /\ stats.passed + 1 \in Nat
      BY <2>1, <2>7 DEF Stats
    <3> DEFINE p == stats.passed + 1
    <3>2. stats' = Counted(stats, p, counts)
      BY <2>4 DEF Counted
    <3>3. p \in Nat
      BY <3>1
    <3> HIDE DEF p
    <3>4. /\ stats' \in Stats /\ stats'.passed = p
          /\ stats'.attempted = stats.attempted /\ stats'.gate = stats.gate
      BY <2>2, <3>1, <3>2, <3>3, StatsOfAPass
    <3>5. QED
      BY <3>4 DEF Stats, p
  <2>9. QED
    BY <2>5, <2>6, <2>8
<1>13. /\ Cardinality(StageSet(tasks', UnderWay)) = Cardinality(StageSet(tasks, UnderWay)) - 1
       /\ Cardinality(StageSet(tasks', Unfinished)) = Cardinality(StageSet(tasks, Unfinished)) - 1
       /\ Cardinality(StageSet(tasks', {"raised"})) = Cardinality(StageSet(tasks, {"raised"}))
  BY <1>7, MovedCount DEF UnderWay, Unfinished
<1>14. TypeOK'
  <2>1. existing' \subseteq Types \X Nat
    <3>1. existing \subseteq Types \X Nat
      BY <1>1 DEF TypeOK
    <3>2. tasks[t].id \in Types \X Nat
      BY <1>1, Facts
    <3>3. QED
      BY <3>1, <3>2
  <2>2. loaded' \in 0..Len(allFile'.lines)
    <3>1. loaded \in 0..Len(allFile.lines) /\ loaded' = loaded
      BY <1>1 DEF TypeOK
    <3>2. Len(allFile.lines) \in Nat /\ Len(allFile'.lines) \in Nat
      <4>1. allFile \in File
        BY <1>1, Facts
      <4>2. QED
        BY <1>5, <4>1, IntactFacts
    <3>3. Len(allFile'.lines) >= Len(allFile.lines)
      BY <1>5
    <3> HIDE DEF s
    <3>4. QED
      BY <3>1, <3>2, <3>3
  <2>3. QED
    BY <1>1, <1>5, <1>7, <1>9, <1>12, <2>1, <2>2 DEF TypeOK, Task, Stages
<1>15. ExplainsAttempts'
  <2>1. Explained(tasks, stats, dead)
    BY ExplainedMeans DEF IInv
  <2>2. Cardinality(StageSet(tasks, UnderWay)) \in Nat /\ stats.passed \in Nat /\ dead \in Nat
    BY <1>1, Facts, TasksFinite
  <2>3. Explained(tasks', stats', dead')
    BY <1>12, <1>13, <2>1, <2>2 DEF Explained
  <2>4. QED
    BY <2>3, ExplainedMeans
<1>16. Budget'
  <2>1. Budget
    BY DEF IInv, Running
  <2>2. /\ base \in Nat /\ stats.passed \in Nat /\ target \in Nat
        /\ Cardinality(Intact(allFile)) \in Nat /\ Cardinality(Intact(allFile')) \in Nat
        /\ Cardinality(StageSet(tasks, {"raised"})) \in Nat
        /\ Cardinality(StageSet(tasks, Unfinished)) \in Nat
    BY <1>1, <1>5, Facts, TasksFinite, IntactFacts
  <2>3. base' = base /\ target' = target
    OBVIOUS
  <2>4. /\ stats'.passed = stats.passed + 1
        /\ Cardinality(Intact(allFile')) <= Cardinality(Intact(allFile)) + 1
    BY <1>5, <1>12
  <2>5. base' + stats'.passed + Cardinality(StageSet(tasks', Unfinished))
          <= IF base' > target' THEN base' ELSE target'
    BY <1>13, <2>1, <2>2, <2>3, <2>4 DEF Budget
  <2>6. Cardinality(Intact(allFile')) <= base' + stats'.passed + Cardinality(StageSet(tasks', {"raised"}))
    BY <1>13, <2>1, <2>2, <2>3, <2>4 DEF Budget
  <2>7. QED
    BY <2>5, <2>6 DEF Budget
<1>17. QED
  BY <1>5, <1>8, <1>10, <1>11, <1>14, <1>15, <1>16 DEF IInv, Running

LEMMA PersistFailsStep ==
  ASSUME IInv, NEW t, PersistFails(t)
  PROVE  IInv' /\ StoreMoves
<1> DEFINE s == tasks[t].sample
<1>1. TypeOK
  BY DEF IInv
<1>2. /\ phase = "running" /\ t \in DOMAIN tasks /\ tasks[t].stage = "validating"
      /\ t \in StageSet(tasks, {"validating"}) /\ faults' = faults + 1
      /\ UNCHANGED <<phase, client, target, loaded, existing, base, seqIdx, index, stats, dead, runs>>
  BY DEF PersistFails, InStage, StageSet
<1>3. tasks' = Staged(tasks, t, "raised")
  BY DEF PersistFails, Staged
<1>4. \/ allFile' \in Torn(allFile, s) /\ UNCHANGED typeFile
      \/ /\ allFile' = Appended(allFile, s)
         /\ \E file \in Torn(typeFile[s.type], s) : typeFile' = [typeFile EXCEPT ![s.type] = file]
  BY DEF PersistFails
<1>5. s \in Sample /\ s.id = tasks[t].id /\ s.type \in Types
  BY <1>2 DEF IInv, Running, Known, Sample
<1> HIDE DEF s
<1>6. /\ Moved(tasks, tasks', t) /\ tasks' \in Seq(Task) /\ tasks'[t].stage = "raised"
  <2>1. tasks \in Seq(Task) /\ "raised" \in Stages
    BY <1>1, Facts DEF Stages
  <2>2. QED
    BY <1>2, <1>3, <2>1, StageMoves DEF Moved
<1>7. /\ allFile \in File /\ typeFile \in [Types -> File] /\ OpenEnds(allFile)
      /\ \A q \in Types : OpenEnds(typeFile[q])
  BY <1>1, Facts DEF IInv, Files
<1>0. Wrote(allFile, allFile', s)
  BY <1>4, <1>5, <1>7, AppendedFacts, TornFacts
<1>8. /\ allFile' \in File /\ OpenEnds(allFile') /\ Len(allFile'.lines) >= Len(allFile.lines)
      /\ LooseOnce(allFile')
      /\ Intact(allFile') \subseteq Intact(allFile) \cup {s}
      /\ Cardinality(Intact(allFile')) <= Cardinality(Intact(allFile)) + 1
      /\ \A a \in Intact(allFile'), b \in Intact(allFile') : a # b => Apart(a, b)
      /\ StoreMoves
  BY <1>0, <1>2, WriteIsFresh DEF s
<1>9. PICK f : /\ Wrote(typeFile[s.type], f, s) /\ typeFile' = [typeFile EXCEPT ![s.type] = f]
               /\ f = typeFile[s.type] \/ ~allFile'.open
  <2>1. CASE UNCHANGED typeFile
    <3>1. typeFile[s.type] \in Torn(typeFile[s.type], s)
      BY DEF Torn
    <3>2. typeFile' = [typeFile EXCEPT ![s.type] = typeFile[s.type]]
      BY <1>7, <2>1
    <3>3. QED
      BY <1>5, <1>7, <3>1, <3>2, TornFacts
  <2>2. CASE /\ allFile' = Appended(allFile, s)
             /\ \E file \in Torn(typeFile[s.type], s) : typeFile' = [typeFile EXCEPT ![s.type] = file]
    <3>1. ~allFile'.open
      BY <1>5, <1>7, <2>2, AppendedFacts
    <3>2. QED
      BY <1>5, <1>7, <2>2, <3>1, TornFacts
  <2>3. QED
    BY <1>4, <2>1, <2>2
<1>10. /\ Trouble(allFile', typeFile') <= Trouble(allFile, typeFile) + 2
       /\ typeFile' \in [Types -> File] /\ \A q \in Types : OpenEnds(typeFile'[q])
  <2>1. /\ Trouble(allFile', typeFile') <= Trouble(allFile, typeFile) + 2
        /\ typeFile' \in [Types -> File]
    BY <1>0, <1>5, <1>7, <1>9, WrittenBadly
  <2>2. OpenEnds(f)
    BY <1>9 DEF Wrote
  <2>3. QED
    BY <1>5, <1>7, <1>9, <2>1, <2>2
<1>11. Files'
  <2>1. Trouble(allFile', typeFile') \in Nat /\ Trouble(allFile, typeFile) \in Nat /\ faults \in Nat
    BY <1>1, <1>7, <1>8, <1>10, TroubleIsFinite, Facts
  <2>2. Trouble(allFile, typeFile) <= 2 * faults
    BY DEF IInv, Files
  <2>3. Trouble(allFile', typeFile') <= 2 * faults'
    BY <1>2, <1>10, <2>1, <2>2
  <2>4. QED
    BY <1>8, <1>10, <2>3 DEF Files
<1>12. Numbered' /\ Known' /\ AllApart'
  <2>1. Intact(allFile') \subseteq Intact(allFile) \cup {tasks[t].sample}
    BY <1>8 DEF s
  <2>2. QED
    BY <1>2, <1>6, <2>1, WriteKeeps
<1>13. Resting' /\ Resuming'
  BY <1>2 DEF Resting, Resuming, AtWork
<1>14. /\ Cardinality(StageSet(tasks', UnderWay)) = Cardinality(StageSet(tasks, UnderWay))
       /\ Cardinality(StageSet(tasks', Unfinished)) = Cardinality(StageSet(tasks, Unfinished))
       /\ Cardinality(StageSet(tasks', {"raised"})) = Cardinality(StageSet(tasks, {"raised"})) + 1
  BY <1>2, <1>6, MovedCount DEF UnderWay, Unfinished
<1>15. TypeOK'
  <2>1. loaded' \in 0..Len(allFile'.lines) /\ faults' \in Nat
    <3>1. loaded \in 0..Len(allFile.lines) /\ loaded' = loaded /\ faults \in Nat
      BY <1>1, <1>2 DEF TypeOK
    <3>2. Len(allFile.lines) \in Nat /\ Len(allFile'.lines) \in Nat
      BY <1>7, <1>8, IntactFacts
    <3>3. Len(allFile'.lines) >= Len(allFile.lines) /\ faults' = faults + 1
      BY <1>2, <1>8
    <3>4. QED
      BY <3>1, <3>2, <3>3
  <2>2. QED
    BY <1>1, <1>2, <1>6, <1>8, <1>10, <2>1 DEF TypeOK, Task, Stages
<1>16. ExplainsAttempts'
  <2>1. Explained(tasks, stats, dead)
    BY ExplainedMeans DEF IInv
  <2>2. Explained(tasks', stats', dead')
    BY <1>2, <1>14, <2>1 DEF Explained
  <2>3. QED
    BY <2>2, ExplainedMeans
<1>17. Budget'
  <2>1. Budget
    BY <1>2 DEF IInv, Running
  <2>2. /\ base \in Nat /\ stats.passed \in Nat /\ target \in Nat
        /\ Cardinality(Intact(allFile)) \in Nat /\ Cardinality(Intact(allFile')) \in Nat
        /\ Cardinality(StageSet(tasks, {"raised"})) \in Nat
    BY <1>1, <1>8, Facts, TasksFinite, IntactFacts
  <2>3. base' = base /\ target' = target /\ stats' = stats
    BY <1>2
  <2>4. QED
    BY <1>8, <1>14, <2>1, <2>2, <2>3 DEF Budget
<1>18. QED
  BY <1>8, <1>11, <1>12, <1>13, <1>15, <1>16, <1>17 DEF IInv, Running

LEMMA GeneratedStep ==
  ASSUME IInv, NEW t, Generated(t)
  PROVE  IInv'
<1>1. /\ phase = "running" /\ t \in DOMAIN tasks /\ tasks[t].stage = "generating"
      /\ UNCHANGED <<phase, client, target, loaded, existing, base, seqIdx, files, runs, faults>>
  BY DEF Generated, InStage
<1>2. TypeOK
  BY DEF IInv
<1>3. client \in {"mock", "http", "llm"} /\ tasks[t].id[1] \in Types
  <2>1. tasks[t].id \in Types \X Nat
    BY <1>1, <1>2, Facts
  <2>2. QED
    BY <1>2, <2>1 DEF TypeOK
<1>4. PICK raw \in AnswersOf(client, tasks[t].id[1]) :
       \/ raw = Failed /\ Reject(t, 0) /\ UNCHANGED index
       \/ /\ raw # Failed /\ Gate1Raises(raw)
          /\ tasks' = [tasks EXCEPT ![t].stage = "raised"]
          /\ UNCHANGED <<index, stats, dead>>
       \/ /\ raw # Failed /\ ~Gate1Raises(raw) /\ ~PassesGate1(raw)
          /\ Reject(t, 1) /\ UNCHANGED index
       \/ /\ raw # Failed /\ PassesGate1(raw) /\ IsDuplicate(index, raw.state)
          /\ Reject(t, 2) /\ UNCHANGED index
       \/ /\ raw # Failed /\ PassesGate1(raw) /\ ~IsDuplicate(index, raw.state)
          /\ index' = index \cup {raw.state}
          /\ tasks' = [tasks EXCEPT ![t].stage = "validating",
                                    ![t].sample = SampleOf(tasks[t].id, raw)]
          /\ UNCHANGED <<stats, dead>>
  BY DEF Generated
<1>5. CASE \E g \in 0..3 : Reject(t, g) /\ UNCHANGED index
  <2>1. PICK g \in 0..3 : Reject(t, g) /\ UNCHANGED index
    BY <1>5
  <2>2. QED
    BY <1>1, <2>1, RejectStep
<1>6. CASE tasks' = Staged(tasks, t, "raised") /\ UNCHANGED <<index, stats, dead>>
  BY <1>1, <1>6, RaiseStep
<1>7. CASE /\ raw # Failed /\ PassesGate1(raw) /\ ~IsDuplicate(index, raw.state)
           /\ index' = index \cup {raw.state}
           /\ tasks' = Settled(tasks, t, "validating", SampleOf(tasks[t].id, raw))
           /\ UNCHANGED <<stats, dead>>
  <2>1. raw \in Raw
    BY <1>3, <1>4, <1>7, AnswersAreRaw
  <2>2. QED
    BY <1>1, <1>7, <2>1, SpeakStep
<1>8. QED
  BY <1>4, <1>5, <1>6, <1>7 DEF Staged, Settled

LEMMA ValidatedStep ==
  ASSUME IInv, NEW t, Validated(t)
  PROVE  IInv' /\ StoreMoves
<1>1. /\ phase = "running" /\ t \in DOMAIN tasks /\ tasks[t].stage = "validating"
      /\ UNCHANGED <<phase, client, target, loaded, base, seqIdx, index, runs, faults>>
  BY DEF Validated, InStage
<1>2. \/ /\ Persist(t) /\ existing' = existing \cup {tasks[t].id}
         /\ tasks' = [tasks EXCEPT ![t].stage = "done", ![t].sample = NoSample]
         /\ UNCHANGED dead
      \/ Reject(t, 3) /\ UNCHANGED <<existing, files>>
  BY DEF Validated
<1>3. CASE /\ Persist(t) /\ existing' = existing \cup {tasks[t].id}
           /\ tasks' = Settled(tasks, t, "done", NoSample) /\ UNCHANGED dead
  BY <1>1, <1>3, PassStep
<1>4. CASE Reject(t, 3) /\ UNCHANGED <<existing, files>>
  <2>1. IInv'
    <3>1. 3 \in 0..3
      OBVIOUS
    <3>2. QED
      BY <1>1, <1>4, <3>1, RejectStep
  <2>2. QED
    BY <1>4, <2>1 DEF StoreMoves, files
<1>5. QED
  BY <1>2, <1>3, <1>4 DEF Settled

-----------------------------------------------------------------------------
(* A process starts, and reads the common file back. *)

LEMMA StartStep ==
  ASSUME IInv, Start
  PROVE  IInv'
<1>1. /\ phase \notin {"loading", "running"} /\ phase' = "loading" /\ runs' = runs + 1
      /\ client' \in {"mock", "http", "llm"} /\ target' \in Targets
      /\ UNCHANGED <<loaded, existing, base, seqIdx, index, tasks, stats, dead, files, faults>>
  BY DEF Start, AtWork
<1>2. TypeOK /\ Files /\ Resting /\ ExplainsAttempts
  BY DEF IInv
<1>3. TypeOK'
  <2>1. target' \in Nat \ {0}
    BY <1>1, ConfigAssumption
  <2>2. runs' \in Nat
    <3>1. runs \in Nat
      BY <1>2 DEF TypeOK
    <3>2. QED
      BY <1>1, <3>1
  <2>3. QED
    BY <1>1, <1>2, <2>1, <2>2 DEF TypeOK, files
<1>4. Files'
  BY <1>1, <1>2 DEF Files, files
<1>5. Resting'
  BY <1>1, <1>2 DEF Resting, AtWork
<1>6. Resuming'
  <2>1. loaded = 0 /\ existing = {} /\ index = {}
    BY <1>1, <1>2 DEF Resting, AtWork
  <2>2. ReadBack(allFile', loaded') = {}
    BY <1>1, <2>1 DEF ReadBack
  <2>3. QED
    BY <1>1, <2>1, <2>2 DEF Resuming
<1>7. ExplainsAttempts'
  BY <1>1, <1>2 DEF ExplainsAttempts
<1>8. QED
  BY <1>1, <1>3, <1>4, <1>5, <1>6, <1>7 DEF IInv, Running

LEMMA LoadLineStep ==
  ASSUME IInv, LoadLine
  PROVE  IInv'
<1> DEFINE n == loaded + 1
           line == allFile.lines[n]
<1>1. /\ phase = "loading" /\ loaded < Len(allFile.lines) /\ loaded' = n
      /\ UNCHANGED <<phase, client, target, base, seqIdx, tasks, stats, dead, files, runs, faults>>
  BY DEF LoadLine
<1>2. \/ line = Garbled /\ UNCHANGED <<existing, index>>
      \/ /\ line \notin Pieces
         /\ existing' = existing \cup {line.id}
         /\ index' = IF IsDuplicate(index, line.state) THEN index ELSE index \cup {line.state}
  BY DEF LoadLine
<1>3. TypeOK /\ Files /\ Resting /\ Resuming /\ ExplainsAttempts
  BY DEF IInv
<1>4. allFile \in File /\ loaded \in Nat /\ Len(allFile.lines) \in Nat /\ n \in 1..Len(allFile.lines)
  <2>1. allFile \in File /\ loaded \in 0..Len(allFile.lines)
    BY <1>3 DEF TypeOK
  <2>2. Len(allFile.lines) \in Nat
    BY <2>1, IntactFacts
  <2>3. QED
    BY <1>1, <2>1, <2>2
<1>5. line \in Sample \cup Pieces /\ line # Broken /\ (line \in Pieces <=> line = Garbled)
  <2>1. line \in Sample \cup Pieces
    BY <1>4, IntactFacts
  <2>2. Garbled # Broken /\ Garbled \in Pieces /\ Broken \in Pieces
    BY DEF Garbled, Broken, Pieces
  <2>3. QED
    BY <1>2, <2>1, <2>2 DEF Pieces
<1>6. /\ \A i \in 1..loaded : allFile.lines[i] # Broken
      /\ existing = {s.id : s \in ReadBack(allFile, loaded)}
      /\ index = {s.state : s \in ReadBack(allFile, loaded)}
  BY <1>1, <1>3 DEF Resuming
<1>7. ReadBack(allFile, n) = ReadBack(allFile, loaded) \cup ({line} \ Pieces)
  <2>1. 1..n = (1..loaded) \cup {n}
    BY <1>4
  <2>2. {allFile.lines[i] : i \in 1..n} = {allFile.lines[i] : i \in 1..loaded} \cup {line}
    BY <2>1
  <2>3. QED
    BY <2>2 DEF ReadBack
<1>8. ReadBack(allFile, n) \subseteq Intact(allFile)
  BY <1>4, IntactFacts DEF ReadBack
<1> HIDE DEF line, n
<1>10. line \notin Pieces => line \in Sample /\ line.state \in Text /\ line.id \in Types \X Nat
  BY <1>5 DEF Sample
(* A text is taken for one that is there only if it is that one.            *)
<1>11. ASSUME line \notin Pieces
       PROVE  index' = index \cup {line.state}
  <2>0. line # Garbled
    BY <1>5, <1>11
  <2>1. ASSUME IsDuplicate(index, line.state)
        PROVE  line.state \in index
    <3>1. PICK s \in ReadBack(allFile, loaded) : <<line.state, s.state>> \in Similar
      BY <1>6, <2>1 DEF IsDuplicate
    <3>2. line \in Intact(allFile) /\ s \in Intact(allFile)
      BY <1>7, <1>8, <1>11, <3>1
    <3>3. line # s => <<line.state, s.state>> \notin Similar
      BY <1>3, <3>2 DEF Files, Apart
    <3>4. QED
      BY <1>6, <3>1, <3>3
  <2>2. index' = IF IsDuplicate(index, line.state) THEN index ELSE index \cup {line.state}
    BY <1>2, <1>5, <2>0
  <2>3. QED
    BY <2>1, <2>2
<1>12. Resuming'
  <2>1. /\ existing' = {s.id : s \in ReadBack(allFile, n)}
        /\ index' = {s.state : s \in ReadBack(allFile, n)}
    <3>1. CASE line \in Pieces
      BY <1>2, <1>5, <1>6, <1>7, <3>1
    <3>2. CASE line \notin Pieces
      BY <1>2, <1>5, <1>6, <1>7, <1>11, <3>2
    <3>3. QED
      BY <3>1, <3>2
  <2>2. \A i \in 1..n : allFile.lines[i] # Broken
    <3>1. 1..n = (1..loaded) \cup {n}
      BY <1>4 DEF n
    <3>2. QED
      BY <1>5, <1>6, <3>1 DEF line
  <2>3. QED
    BY <1>1, <2>1, <2>2 DEF Resuming, files
<1>13. TypeOK'
  <2>1. loaded' \in 0..Len(allFile'.lines)
    BY <1>1, <1>4 DEF files
  <2>2. existing' \subseteq Types \X Nat /\ index' \subseteq Text
    <3>1. existing \subseteq Types \X Nat /\ index \subseteq Text
      BY <1>3 DEF TypeOK
    <3>2. CASE line \in Pieces
      BY <1>2, <1>5, <3>1, <3>2
    <3>3. CASE line \notin Pieces
      BY <1>2, <1>5, <1>10, <1>11, <3>1, <3>3
    <3>4. QED
      BY <3>2, <3>3
  <2>3. QED
    BY <1>1, <1>3, <2>1, <2>2 DEF TypeOK, files
<1>14. Files' /\ Resting'
  BY <1>1, <1>3 DEF Files, Resting, AtWork, files
<1>15. ExplainsAttempts'
  BY <1>1, <1>3 DEF ExplainsAttempts
<1>16. QED
  BY <1>1, <1>12, <1>13, <1>14, <1>15 DEF IInv, Running

(* A sample is found by its id: no two in a file share one. *)
LEMMA SamplesHaveIds ==
  ASSUME IInv, phase = "loading", loaded = Len(allFile.lines)
  PROVE  /\ existing = {s.id : s \in Intact(allFile)} /\ index = {s.state : s \in Intact(allFile)}
         /\ IsFiniteSet(existing) /\ Cardinality(existing) \in Nat
         /\ Cardinality(Intact(allFile)) <= Cardinality(existing)
         /\ Broken \notin Range(allFile.lines)
<1> DEFINE all == Intact(allFile)
           ids == {s.id : s \in all}
           IdOf == [s \in all |-> s.id]
<1>1. allFile \in File
  BY DEF IInv, TypeOK
<1>2. ReadBack(allFile, Len(allFile.lines)) = all
  BY <1>1, IntactFacts DEF ReadBack
<1>3. existing = ids /\ index = {s.state : s \in all}
  BY <1>2 DEF IInv, Resuming
<1>4. IsFiniteSet(all)
  BY <1>1, IntactFacts
<1>5. \A a \in all, b \in all : a # b => a.id # b.id
  BY DEF IInv, Files, Apart
<1> HIDE DEF all
<1>6. IdOf \in Surjection(all, ids)
  BY DEF Surjection
<1>7. IdOf \in Injection(all, ids)
  BY <1>5 DEF Injection, IsInjective
<1>8. IsFiniteSet(ids) /\ Cardinality(ids) \in Nat
  BY <1>4, <1>6, FS_Surjection, FS_CardinalityType
<1>9. Cardinality(all) <= Cardinality(ids)
  BY <1>7, <1>8, FS_Injection
<1>10. Broken \notin Range(allFile.lines)
  <2>1. \A i \in 1..Len(allFile.lines) : allFile.lines[i] # Broken
    BY DEF IInv, Resuming
  <2>2. Range(allFile.lines) = {allFile.lines[i] : i \in 1..Len(allFile.lines)}
    BY <1>1, IntactFacts
  <2>3. QED
    BY <2>1, <2>2
<1>11. QED
  BY <1>3, <1>8, <1>9, <1>10 DEF all

LEMMA ResumeStep ==
  ASSUME IInv, Resume
  PROVE  IInv'
<1>1. /\ phase = "loading" /\ loaded = Len(allFile.lines) /\ phase' = "running"
      /\ base' = Cardinality(existing) /\ seqIdx' = base'
      /\ UNCHANGED <<client, target, loaded, existing, index, tasks, stats, dead, files, runs, faults>>
  BY DEF Resume
<1>2. TypeOK /\ Files /\ Resting /\ ExplainsAttempts
  BY DEF IInv
<1>3. /\ existing = {s.id : s \in Intact(allFile)} /\ index = {s.state : s \in Intact(allFile)}
      /\ Cardinality(existing) \in Nat
      /\ Cardinality(Intact(allFile)) <= Cardinality(existing)
      /\ Broken \notin Range(allFile.lines)
  BY <1>1, SamplesHaveIds
<1>4. tasks = <<>> /\ stats = NoStats
  BY <1>1, <1>2 DEF Resting
<1>5. TypeOK'
  BY <1>1, <1>2, <1>3 DEF TypeOK, files
<1>6. Files' /\ Resting' /\ Resuming' /\ ExplainsAttempts'
  BY <1>1, <1>2 DEF Files, Resting, Resuming, AtWork, ExplainsAttempts, files
<1>7. DOMAIN tasks' = {} /\ Len(tasks') = 0
  BY <1>1, <1>4
<1>8. \A S : StageSet(tasks', S) = {} /\ Cardinality(StageSet(tasks', S)) = 0
  BY <1>7, FS_EmptySet DEF StageSet
<1>9. Numbered'
  BY <1>1, <1>3, <1>7 DEF Numbered
<1>10. Known' /\ AllApart'
  BY <1>1, <1>3, <1>8 DEF Known, AllApart, files
<1>11. Budget'
  <2>1. stats'.passed = 0 /\ target' \in Nat
    BY <1>1, <1>2, <1>4 DEF NoStats, TypeOK
  <2>2. Cardinality(Intact(allFile')) <= base'
    BY <1>1, <1>3 DEF files
  <2>3. Cardinality(Intact(allFile')) \in Nat
    BY <1>5, IntactFacts DEF TypeOK
  <2>4. /\ Cardinality(StageSet(tasks', Unfinished)) = 0
        /\ Cardinality(StageSet(tasks', {"raised"})) = 0
    BY <1>8
  <2>5. QED
    BY <1>1, <1>3, <2>1, <2>2, <2>3, <2>4 DEF Budget
<1>12. QED
  BY <1>5, <1>6, <1>9, <1>10, <1>11 DEF IInv, Running

-----------------------------------------------------------------------------
(* A batch starts when the one before it is over. *)

LEMMA NextBatchStep ==
  ASSUME IInv, NextBatch
  PROVE  IInv'
<1> DEFINE b == BatchSize
<1>1. /\ phase = "running" /\ MayAttempt /\ seqIdx' = seqIdx + b
      /\ \A t \in DOMAIN tasks : tasks[t].stage = "done"
      /\ UNCHANGED <<phase, client, target, loaded, existing, base, index, stats, dead, files, runs, faults>>
  BY DEF NextBatch, Finished
<1>2. PICK drawn \in [1..b -> SpecTypes] :
        tasks' = [i \in 1..b |->
                   LET id == <<drawn[i], seqIdx + i - 1>> IN
                   [id |-> id, sample |-> NoSample,
                    stage |-> IF id \in existing THEN "done" ELSE "queued"]]
  BY DEF NextBatch
<1>3. TypeOK /\ Files /\ Resting /\ ExplainsAttempts /\ Known /\ Budget
  BY <1>1 DEF IInv, Running
<1>4. /\ base \in Nat /\ seqIdx \in Nat /\ target \in Nat /\ stats.passed \in Nat
      /\ tasks \in Seq(Task)
  BY <1>3, Facts
<1>5. b \in Nat /\ b <= target - (stats.passed + base)
  BY <1>1, <1>4, ConfigAssumption DEF BatchSize, MayAttempt, Wanted
<1> HIDE DEF b
<1>6. /\ DOMAIN tasks' = 1..b
      /\ \A i \in 1..b :
           /\ tasks'[i] \in Task
           /\ tasks'[i].id = <<drawn[i], seqIdx + i - 1>>
           /\ tasks'[i].stage = IF tasks'[i].id \in existing THEN "done" ELSE "queued"
  <2>1. \A i \in 1..b : <<drawn[i], seqIdx + i - 1>> \in Types \X Nat
    <3>1. \A i \in 1..b : drawn[i] \in Types
      BY <1>2, AnswerAssumption
    <3>2. \A i \in 1..b : seqIdx + i - 1 \in Nat
      BY <1>4, <1>5
    <3>3. QED
      BY <3>1, <3>2
  <2>2. QED
    BY <1>2, <2>1 DEF Task, Stages
<1>7. tasks' \in Seq(Task) /\ Len(tasks') = b
  <2>1. tasks' \in [1..b -> Task]
    BY <1>2, <1>6
  <2>2. QED
    BY <1>5, <2>1
<1>8. /\ StageSet(tasks', {"validating"}) = {} /\ StageSet(tasks', {"raised"}) = {}
      /\ StageSet(tasks', UnderWay) = {}
      /\ StageSet(tasks, {"raised"}) = {} /\ StageSet(tasks, UnderWay) = {}
      /\ StageSet(tasks, Unfinished) = {}
  <2>1. \A i \in DOMAIN tasks' : tasks'[i].stage \in {"done", "queued"}
    BY <1>6
  <2>2. QED
    BY <1>1, <2>1 DEF StageSet, UnderWay, Unfinished
<1>9. Cardinality(StageSet(tasks', Unfinished)) \in Nat /\ Cardinality(StageSet(tasks', Unfinished)) <= b
  BY <1>7, TasksFinite
<1>10. TypeOK'
  <2>1. seqIdx' \in Nat
    BY <1>1, <1>4, <1>5
  <2>2. QED
    BY <1>1, <1>3, <1>7, <2>1 DEF TypeOK, Task, Stages, files
<1>11. Files' /\ Resting' /\ Resuming'
  BY <1>1, <1>3 DEF Files, Resting, Resuming, AtWork, files
<1>12. Numbered'
  <2>1. Len(tasks') <= seqIdx'
    BY <1>1, <1>4, <1>5, <1>7
  <2>2. \A i \in 1..b : tasks'[i].id[2] = (seqIdx' - Len(tasks')) + (i - 1)
    <3>1. \A i \in 1..b : tasks'[i].id[2] = seqIdx + i - 1
      BY <1>6
    <3>2. QED
      BY <1>1, <1>4, <1>5, <1>7, <3>1
  <2>3. QED
    BY <1>6, <2>1, <2>2 DEF Numbered
<1>13. Known'
  <2>1. \A s \in Intact(allFile) : s.state \in index /\ s.id \in existing
    BY <1>3, <1>8 DEF Known
  <2>2. \A i \in StageSet(tasks', Waiting) : tasks'[i].id \notin existing
    BY <1>6 DEF StageSet, Waiting
  <2>3. Broken \notin Range(allFile.lines)
    BY <1>3, <1>8 DEF Known
  <2>4. QED
    BY <1>1, <1>8, <2>1, <2>2, <2>3 DEF Known, files
<1>14. AllApart'
  BY <1>8 DEF AllApart
<1>15. ExplainsAttempts'
  <2>1. Explained(tasks, stats, dead)
    BY <1>3, ExplainedMeans
  <2>2. Explained(tasks', stats', dead')
    BY <1>1, <1>8, <2>1 DEF Explained
  <2>3. QED
    BY <2>2, ExplainedMeans
<1>16. Budget'
  <2>1. /\ base' = base /\ stats' = stats /\ target' = target
        /\ Intact(allFile') = Intact(allFile)
    BY <1>1 DEF files
  <2>2. base' + stats'.passed + Cardinality(StageSet(tasks', Unfinished)) <= target'
    BY <1>4, <1>5, <1>9, <2>1
  <2>3. Cardinality(Intact(allFile')) <= base' + stats'.passed + Cardinality(StageSet(tasks', {"raised"}))
    BY <1>3, <1>8, <2>1 DEF Budget
  <2>4. Cardinality(StageSet(tasks', Unfinished)) \in Nat
    BY <1>9
  <2>5. QED
    BY <1>4, <2>1, <2>2, <2>3, <2>4 DEF Budget
<1>17. QED
  BY <1>1, <1>10, <1>11, <1>12, <1>13, <1>14, <1>15, <1>16 DEF IInv, Running

-----------------------------------------------------------------------------
(* A process that ends, one way or another, forgets all but its files. *)

LEMMA IdleStep ==
  ASSUME IInv, NEW p \in {"down", "returned"}, Idle(p), UNCHANGED <<files, runs, faults>>
  PROVE  IInv'
<1>1. /\ phase' = p /\ client' = "mock" /\ target' = 1 /\ loaded' = 0 /\ existing' = {}
      /\ base' = 0 /\ seqIdx' = 0 /\ index' = {} /\ tasks' = <<>> /\ stats' = NoStats /\ dead' = 0
  BY DEF Idle
<1>2. TypeOK /\ Files
  BY DEF IInv
<1>3. TypeOK'
  <2>1. NoStats \in [attempted : Nat, passed : Nat, gate : [1..3 -> Nat], count : [Types -> Nat]]
    BY DEF NoStats
  <2>2. 0 \in 0..Len(allFile'.lines)
    <3>1. Len(allFile'.lines) \in Nat
      BY <1>2, IntactFacts DEF TypeOK, files
    <3>2. QED
      BY <3>1
  <2>3. QED
    BY <1>1, <1>2, <2>1, <2>2 DEF TypeOK, files
<1>4. Files'
  BY <1>2 DEF Files, files
<1>5. Resting' /\ Resuming' /\ Running'
  BY <1>1 DEF Resting, Resuming, Running, AtWork
<1>6. ExplainsAttempts'
  <2>1. StageSet(tasks', UnderWay) = {}
    BY <1>1 DEF StageSet
  <2>2. Explained(tasks', stats', dead')
    BY <1>1, <2>1, FS_EmptySet DEF Explained, NoStats, Types
  <2>3. QED
    BY <2>2, ExplainedMeans
<1>7. QED
  BY <1>3, <1>4, <1>5, <1>6 DEF IInv

LEMMA InitInv ==
  ASSUME Init
  PROVE  IInv
<1>1. TypeOK
  <2>1. NoStats \in [attempted : Nat, passed : Nat, gate : [1..3 -> Nat], count : [Types -> Nat]]
    BY DEF NoStats
  <2>2. EmptyFile \in File /\ Len(EmptyFile.lines) = 0
    BY DEF EmptyFile, File
  <2>3. QED
    BY <2>1, <2>2 DEF Init, TypeOK
<1>2. Files
  <2>1. Intact(EmptyFile) = {} /\ Loose(EmptyFile) = {} /\ ~EmptyFile.open
    BY DEF Intact, Loose, EmptyFile, Range
  <2>2. Marked(allFile, typeFile) = {} /\ OpenFiles(allFile, typeFile) = {}
    BY <2>1 DEF Init, Marked, Differing, ByType, OpenFiles
  <2>3. Trouble(allFile, typeFile) = 0
    <3>1. Cardinality({}) = 0
      BY FS_EmptySet
    <3>2. QED
      BY <2>2, <3>1 DEF Trouble
  <2>4. QED
    BY <2>1, <2>3 DEF Files, OpenEnds, LooseOnce, Init
<1>3. Resting /\ Resuming /\ Running
  BY DEF Init, Resting, Resuming, Running, AtWork
<1>4. ExplainsAttempts
  <2>1. StageSet(tasks, UnderWay) = {}
    BY DEF Init, StageSet
  <2>2. Cardinality(StageSet(tasks, UnderWay)) = 0
    BY <2>1, FS_EmptySet
  <2>3. stats = NoStats /\ dead = 0
    BY DEF Init
  <2>4. Explained(tasks, stats, dead)
    BY <2>2, <2>3 DEF Explained, NoStats, Types
  <2>5. QED
    BY <2>4, ExplainedMeans
<1>5. QED
  BY <1>1, <1>2, <1>3, <1>4 DEF IInv

-----------------------------------------------------------------------------
(* Every step keeps the invariant, and is one of the store or leaves it.   *)

LEMMA StepInv ==
  ASSUME IInv, [Next]_vars
  PROVE  IInv' /\ StoreMoves
<1>1. CASE Start
  BY <1>1, StartStep DEF Start, StoreMoves, files
<1>2. CASE LoadLine
  BY <1>2, LoadLineStep DEF LoadLine, StoreMoves, files
<1>3. CASE Resume
  BY <1>3, ResumeStep DEF Resume, StoreMoves, files
<1>4. CASE NextBatch
  BY <1>4, NextBatchStep DEF NextBatch, StoreMoves, files
<1>5. CASE Return \/ Abort \/ Kill \/ LoadFails
  BY <1>5, IdleStep DEF Return, Abort, Kill, LoadFails, StoreMoves, files
<1>6. CASE UNCHANGED vars
  <2>1. IInv'
    BY <1>6 DEF IInv, TypeOK, Files, Resting, Resuming, ExplainsAttempts, Running, AtWork,
                Numbered, Known, AllApart, Budget, vars, volatile, files
  <2>2. QED
    BY <1>6, <2>1 DEF StoreMoves, vars, files
<1>7. ASSUME NEW t \in Slot, TaskStep(t) \/ PersistFails(t)
      PROVE  IInv' /\ StoreMoves
  <2>1. CASE Enter(t)
    BY <2>1, EnterStep DEF Enter, StoreMoves, files
  <2>2. CASE Generated(t)
    BY <2>2, GeneratedStep DEF Generated, StoreMoves, files
  <2>3. CASE Validated(t)
    BY <2>3, ValidatedStep
  <2>4. CASE PersistFails(t)
    BY <2>4, PersistFailsStep
  <2>5. QED
    BY <1>7, <2>1, <2>2, <2>3, <2>4 DEF TaskStep
<1>8. QED
  BY <1>1, <1>2, <1>3, <1>4, <1>5, <1>6, <1>7 DEF Next, Done

THEOREM Invariance == Spec => []IInv
<1>1. Init => IInv
  BY InitInv
<1>2. IInv /\ [Next]_vars => IInv'
  BY StepInv
<1>3. QED
  BY <1>1, <1>2, PTL DEF Spec

(* The variables have their types: no line of a file is anything but a      *)
(* sample or a piece of one, through kills and torn writes.                 *)
THEOREM TypesHold == Spec => []TypeOK
<1>1. IInv => TypeOK
  BY DEF IInv
<1>2. QED
  BY <1>1, Invariance, PTL

(* The statistics run returns explain every attempt of every batch, and no  *)
(* run leaves more samples than it was asked for or found, however its      *)
(* tasks interleave (pipeline.py, run and process_single_slot).             *)
THEOREM AccountsBalance == Spec => []Accounting
<1>1. ASSUME IInv
      PROVE  Accounting
  <2>1. ASSUME phase = "running"
        PROVE  Cardinality(Intact(allFile)) <= IF base > target THEN base ELSE target
    <3>1. Budget /\ TypeOK
      BY <1>1, <2>1 DEF IInv, Running
    <3>2. tasks \in Seq(Task) /\ allFile \in File /\ base \in Nat /\ target \in Nat /\ stats.passed \in Nat
      BY <3>1, Facts
    <3>3. StageSet(tasks, {"raised"}) \in SUBSET StageSet(tasks, Unfinished)
      BY DEF StageSet, Unfinished
    <3>4. /\ Cardinality(StageSet(tasks, {"raised"})) <= Cardinality(StageSet(tasks, Unfinished))
          /\ Cardinality(StageSet(tasks, {"raised"})) \in Nat
          /\ Cardinality(StageSet(tasks, Unfinished)) \in Nat
      BY <3>2, <3>3, TasksFinite, FS_Subset
    <3>5. Cardinality(Intact(allFile)) \in Nat
      BY <3>2, IntactFacts
    <3>6. QED
      BY <3>1, <3>2, <3>4, <3>5 DEF Budget
  <2>2. NeverOvershoots
    BY <2>1 DEF NeverOvershoots
  <2>3. QED
    BY <1>1, <2>2 DEF Accounting, IInv
<1>2. IInv => Accounting
  BY <1>1
<1>3. QED
  BY <1>2, Invariance, PTL

(* The files by type hold what the common file holds, but for two samples   *)
(* for each write that was cut short (persist_sample appends to both, and   *)
(* repairs neither).                                                        *)
THEOREM FilesAgree == Spec => []TypeFilesAgree
<1>1. ASSUME IInv
      PROVE  TypeFilesAgree
  <2>1. allFile \in File /\ typeFile \in [Types -> File] /\ faults \in Nat
    BY <1>1, Facts DEF IInv
  <2>2. /\ IsFiniteSet(Marked(allFile, typeFile))
        /\ Cardinality(Marked(allFile, typeFile)) \in Nat
        /\ Cardinality(OpenFiles(allFile, typeFile)) \in Nat
    BY <2>1, TroubleIsFinite
  <2>3. Trouble(allFile, typeFile) <= 2 * faults
    BY <1>1 DEF IInv, Files
  <2>4. Cardinality(Differing(allFile, typeFile)) <= 2 * faults
    <3>1. Differing(allFile, typeFile) \in SUBSET Marked(allFile, typeFile)
      BY DEF Marked
    <3>2. /\ Cardinality(Differing(allFile, typeFile)) \in Nat
          /\ Cardinality(Differing(allFile, typeFile)) <= Cardinality(Marked(allFile, typeFile))
      BY <2>2, <3>1, FS_Subset, FS_CardinalityType
    <3>3. QED
      BY <2>1, <2>2, <2>3, <3>2 DEF Trouble
  <2>5. QED
    BY <2>4 DEF TypeFilesAgree, Differing, ByType
<1>2. IInv => TypeFilesAgree
  BY <1>1
<1>3. QED
  BY <1>2, Invariance, PTL

(* A process that runs its batches knows the text and the id of every      *)
(* sample in the file, and the file to its end, however often it was cut    *)
(* short: one that cannot be decoded ends the process instead               *)
(* (load_existing_sample_ids, pipeline.py:117-137).                         *)
THEOREM ResumesWithAll == Spec => []KnowsTheFile
<1>1. ASSUME IInv
      PROVE  KnowsTheFile
  <2> DEFINE raised == {tasks[t].id : t \in {u \in DOMAIN tasks : tasks[u].stage = "raised"}}
  <2>1. ASSUME phase = "running"
        PROVE  /\ \A s \in Intact(allFile) : IsDuplicate(index, s.state) /\ s.id \in existing \cup raised
               /\ Broken \in Range(allFile.lines) => raised # {}
    <3>1. Known /\ allFile \in File
      BY <1>1, <2>1, Facts DEF IInv, Running
    <3>2. \A s \in Intact(allFile) : <<s.state, s.state>> \in Similar
      BY <3>1, IntactFacts, TextAssumption DEF Sample
    <3>3. StageSet(tasks, {"raised"}) = {u \in DOMAIN tasks : tasks[u].stage = "raised"}
      BY DEF StageSet
    <3>4. QED
      BY <3>1, <3>2, <3>3 DEF Known, IsDuplicate
  <2>2. QED
    BY <2>1 DEF KnowsTheFile
<1>2. IInv => KnowsTheFile
  BY <1>1
<1>3. QED
  BY <1>2, Invariance, PTL

(* All runs together, killed, cut short and resumed in any way, are one     *)
(* store of samples that grows by samples with a new id and a text similar  *)
(* to none that is there, and shrinks only by one whose write was cut just  *)
(* before its newline.                                                      *)
THEOREM StoreRefinement == Spec => ImplementsStore
<1>1. Init => Store!Init
  BY DEF Init, Store!Init, Intact, Loose, EmptyFile, Range
<1>2. IInv /\ [Next]_vars => [Store!Next]_<<Intact(allFile), Loose(allFile)>>
  BY StepInv DEF StoreMoves
<1>3. QED
  BY <1>1, <1>2, Invariance, PTL DEF Spec, ImplementsStore, Store!Spec

=============================================================================

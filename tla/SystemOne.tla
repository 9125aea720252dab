------------------------------ MODULE SystemOne ------------------------------
(***************************************************************************)
(* One request to POST /v1/systemone (system_one_handler,                  *)
(* crates/sokuto-server/src/handlers/systemone.rs) from its checks to its  *)
(* reply: labels are cleaned, questions that look like the server's        *)
(* hierarchy go through its router one by one, the others in chunks        *)
(* through the engine, large choices of them over screened candidates      *)
(* only; answers are gated, bimodal scores demoted, labels restored, and   *)
(* the verdict on the reply is drawn from what was made of them.           *)
(*                                                                         *)
(* A question is known by its place in the request.  What the model says   *)
(* of it is a reading, the scores of the screening a set of candidates.    *)
(* Texts, token counts and metrics are left out, and so are the switches   *)
(* of the guardrails and of the early exit, which are on by default.       *)
(***************************************************************************)
EXTENDS Gating, Sequences, FiniteSets, FiniteSetsExt, Functions

CONSTANTS Label,            \* candidate keys and score labels
          EmptyLabel,       \* one of them, ""
          NoLabel,
          NoGating,         \* no configuration given; an answer not gated
          NoSummary,
          IndexLabel,       \* "0", "1", ... as labels
          CleanChoice,      \* what sanitize_text makes of a candidate key
          CleanScore,       \* ... and of a score label, whose prefix is cut off
          Request,          \* the requests the clients send
          ServerGating,     \* AppState::gating_config
          FineKeys,         \* candidates of the hierarchical mapping, {}: no mapping
          FirstFineKey,     \* the first of them
          AutoAbove,        \* with auto_hierarchical, route choices larger than this
          RouteAbove,       \* without it
          ScreenAbove,      \* CoarseToFineConfig::threshold
          CatchAll,         \* candidates that is_negative_candidate takes for a catch-all
          TopM,             \* CoarseToFineConfig::top_m
          ChunkSize,        \* AppState::chunk_size
          MaxQuestions,     \* LimitsConfig::max_questions
          MaxCandidates,    \* 255
          MaxLevels,        \* 10
          BimodalLevels,    \* BimodalConfig::min_categories
          Readings          \* the readings to be met with

\* Uniform over the three types: keys for a choice, levels for a score.
Question == [type : {"choice", "score", "noul"}, keys : SUBSET Label, levels : Seq(Label)]

ASSUME LabelAssumption ==
  /\ CleanChoice \in [Label -> Label]
  /\ CleanScore \in [Label -> Label]
  /\ IndexLabel \in [1..MaxLevels -> Label]
  /\ IsInjective(IndexLabel)
  /\ EmptyLabel \in Label
  /\ FineKeys \subseteq Label
  /\ CatchAll \subseteq Label
  /\ FineKeys # {} => FirstFineKey \in FineKeys
  /\ NoLabel \notin Label
ASSUME RequestAssumption ==
  \A r \in Request :
    /\ r.qs \in Seq(Question)
    /\ r.gating \in GatingConfig \cup {NoGating}
    /\ r.auto \in BOOLEAN
    /\ r.big \in BOOLEAN
ASSUME ServerAssumption ==
  /\ ServerGating \in GatingConfig
  /\ NoGating \notin GatingConfig
  /\ NoGating \notin Metadata
  /\ ChunkSize \in Nat \ {0}
  /\ TopM \in Nat \ {0}
  /\ {AutoAbove, RouteAbove, ScreenAbove, MaxQuestions, MaxCandidates, BimodalLevels}
       \subseteq Nat
  /\ MaxLevels \in Nat \ {0}
ASSUME ReadingsAssumption == Readings \subseteq Reading

VARIABLES
  request,    \* what the client sent
  phase,      \* how far its handling is
  questions,  \* its questions after the guardrails, by place
  processed,  \* those for the engine, with the candidates left by the screening
  answers,    \* the answers so far, by place
  summary,    \* SystemRoutingSummary
  status      \* of the reply, 0 before it

vars == <<request, phase, questions, processed, answers, summary, status>>

Place == 1..Len(request.qs)
Config == IF request.gating = NoGating THEN ServerGating ELSE request.gating

Init ==
  /\ request \in Request
  /\ phase = "received"
  /\ questions = <<>>
  /\ processed = <<>>
  /\ answers = <<>>
  /\ summary = NoSummary
  /\ status = 0

-----------------------------------------------------------------------------
(* Checks and guardrails before the inference.                             *)

ValidQuestion(q) ==
  /\ q.type = "choice" => Cardinality(q.keys) \in 1..MaxCandidates
  /\ q.type = "score" => Len(q.levels) \in 2..MaxLevels

ValidRequest ==
  /\ request.qs # <<>>
  /\ \A i \in Place : ValidQuestion(request.qs[i])
  /\ request.gating # NoGating => ValidConfig(request.gating)

TooLarge == Len(request.qs) > MaxQuestions \/ request.big

\* Candidates are keys of a map: two that are cleaned to one become one.
Normalized(q) ==
  [type |-> q.type,
   keys |-> {CleanChoice[k] : k \in q.keys},
   levels |-> [n \in DOMAIN q.levels |-> CleanScore[q.levels[n]]]]

Reply(code) == phase' = "replied" /\ status' = code

Reject ==
  /\ phase = "received"
  /\ \/ ~ValidRequest /\ Reply(400)
     \/ ValidRequest /\ TooLarge /\ Reply(413)
  /\ UNCHANGED <<request, questions, processed, answers, summary>>

Admit ==
  /\ phase = "received"
  /\ ValidRequest
  /\ ~TooLarge
  /\ questions' = [i \in Place |-> Normalized(request.qs[i])]
  /\ phase' = "routing"
  /\ UNCHANGED <<request, processed, answers, summary, status>>

-----------------------------------------------------------------------------
(* The hierarchical router.                                                *)

IsHierarchical(q) ==
  LET n == Cardinality(q.keys)
  IN  /\ q.type = "choice"
      /\ n > RouteAbove \/ (request.auto /\ n > AutoAbove)
      /\ q.keys \cap FineKeys # {}

Hierarchical == {i \in DOMAIN questions : IsHierarchical(questions[i])}

\* The mark of a candidate in the distribution of a choice.
Excluded == 0
Evaluated == 1

Answer(choice, probs, r, gating) ==
  [choice |-> choice, probs |-> probs, reading |-> r, gating |-> gating]

\* Both of its answers are over all candidates of the mapping.  The early
\* exit has no reading but the confidence in the cluster.  Otherwise the
\* confidence is the probability of the winner, which is not the greatest
\* one when a catch-all wins.
RouterAnswers ==
  LET probs == [k \in FineKeys |-> Evaluated]
      early == {r \in Readings :
                  r.conf < EarlyExitBelow /\ r.margin = 0 /\ r.energy = NoEnergy}
      final == {r \in Readings :
                  /\ r.energy # NoEnergy
                  /\ r.margin <= r.conf \/ r.margin + r.conf <= Unit}
  IN  {Answer(FirstFineKey, probs, r, EarlyExitMetadata(r)) : r \in early}
      \cup {Answer(k, probs, r, RouterMetadata(r, Config)) : k \in FineKeys, r \in final}

RouteQuestion ==
  /\ phase = "routing"
  /\ \E i \in Hierarchical \ DOMAIN answers, a \in RouterAnswers :
       /\ \A j \in Hierarchical \ DOMAIN answers : i <= j
       /\ answers' = [j \in DOMAIN answers \cup {i} |-> IF j = i THEN a ELSE answers[j]]
  /\ UNCHANGED <<request, phase, questions, processed, summary, status>>

-----------------------------------------------------------------------------
(* The batch: screening, chunks, gating.                                   *)

IsScreened(q) == q.type = "choice" /\ Cardinality(q.keys) > ScreenAbove

\* The candidates the screening may leave: the catch-alls and the best of the
\* others, or, when there are too many catch-alls, some of them only.
Screenings(q) ==
  IF IsScreened(q) /\ Cardinality(q.keys) > TopM
  THEN LET pinned == q.keys \cap CatchAll
       IN  {kept \in kSubset(TopM, q.keys) : pinned \subseteq kept \/ kept \subseteq pinned}
  ELSE {q.keys}

OnlyWith(keys, q) == [type |-> q.type, keys |-> keys, levels |-> q.levels]

\* Mutation of Screen: the batch is forgotten when the router had a question.
ScreenUnlessRouted ==
  /\ phase = "routing"
  /\ Hierarchical \subseteq DOMAIN answers
  /\ LET flat == IF Hierarchical = {} THEN DOMAIN questions ELSE {}
     IN  \E kept \in [flat -> UNION {Screenings(questions[i]) : i \in flat}] :
           /\ \A i \in flat : kept[i] \in Screenings(questions[i])
           /\ processed' = [i \in flat |-> OnlyWith(kept[i], questions[i])]
  /\ phase' = "running"
  /\ UNCHANGED <<request, questions, answers, summary, status>>

Screen ==
  /\ phase = "routing"
  /\ Hierarchical \subseteq DOMAIN answers
  /\ LET flat == DOMAIN questions \ Hierarchical
     IN  \E kept \in [flat -> UNION {Screenings(questions[i]) : i \in flat}] :
           /\ \A i \in flat : kept[i] \in Screenings(questions[i])
           /\ processed' = [i \in flat |-> OnlyWith(kept[i], questions[i])]
  /\ phase' = "running"
  /\ UNCHANGED <<request, questions, answers, summary, status>>

\* Mutation of Distribution: labels are keys whether they differ or not.
DistributionByLabel(levels) == AntiFunction(levels)

\* The levels of a score by label, by number when two of them look alike or
\* one has no label.
Distribution(levels) ==
  IF IsInjective(levels) /\ EmptyLabel \notin Range(levels) THEN AntiFunction(levels)
  ELSE AntiFunction([n \in DOMAIN levels |-> IndexLabel[n]])

\* What the engine may say of a question; a single candidate is certain.
EngineAnswers(q) ==
  LET seen == {r \in Readings : Possible(q.type, r)}
      sure == {r \in seen : Cardinality(q.keys) = 1 => r.conf = Unit}
  IN  CASE q.type = "choice" ->
             {Answer(k, [x \in q.keys |-> Evaluated], r, NoGating) : k \in q.keys, r \in sure}
        [] q.type = "score" ->
             {Answer(NoLabel, Distribution(q.levels), r, NoGating) : r \in seen}
        [] q.type = "noul" ->
             {Answer(NoLabel, <<>>, r, NoGating) : r \in seen}

WithGating(a, gating) == Answer(a.choice, a.probs, a.reading, gating)
WithProbs(a, probs) == Answer(a.choice, probs, a.reading, a.gating)

Gated(i, a) ==
  IF Config.enabled
  THEN WithGating(a, Evaluate(questions[i].type, a.reading, Config))
  ELSE a

Left == DOMAIN processed \ DOMAIN answers
Chunk == {i \in Left : Cardinality({j \in Left : j < i}) < ChunkSize}
Screened == {i \in DOMAIN processed : IsScreened(questions[i])}

RunChunk ==
  /\ phase = "running"
  /\ Left # {}
  /\ \E got \in [Chunk -> UNION {EngineAnswers(processed[i]) : i \in Chunk}] :
       /\ \A i \in Chunk : got[i] \in EngineAnswers(processed[i])
       /\ answers' = [i \in DOMAIN answers \cup Chunk |->
                        IF i \in DOMAIN answers THEN answers[i]
                        ELSE IF i \in Screened THEN got[i]
                        ELSE Gated(i, got[i])]
  /\ UNCHANGED <<request, phase, questions, processed, summary, status>>

\* The distribution over all candidates again, 0.0 for the excluded ones.
Widened(a, keys) ==
  WithProbs(a, [k \in keys |-> IF k \in DOMAIN a.probs THEN a.probs[k] ELSE Excluded])

GateScreened ==
  /\ phase = "running"
  /\ Left = {}
  /\ answers' = [i \in DOMAIN answers |->
                   IF i \in Screened THEN Gated(i, Widened(answers[i], questions[i].keys))
                   ELSE answers[i]]
  /\ phase' = "post"
  /\ UNCHANGED <<request, questions, processed, summary, status>>

-----------------------------------------------------------------------------
(* Guardrails after the inference, and the reply.  They look at the        *)
(* questions as the client sent them.                                      *)

IsBimodal(q, a) ==
  q.type = "score" /\ Len(q.levels) >= BimodalLevels /\ a.reading.bimodal

Verified(q, a) ==
  IF IsBimodal(q, a) /\ a.gating # NoGating
  THEN WithGating(a, Demote(a.gating))
  ELSE a

\* The n-th entry goes to the n-th label of the client; a label that comes
\* twice keeps the last of its entries.
Restored(q, a) ==
  IF q.type = "score" /\ Cardinality(DOMAIN a.probs) = Len(q.levels)
  THEN WithProbs(a, [l \in Range(q.levels) |-> Max({n \in DOMAIN q.levels : q.levels[n] = l})])
  ELSE a

PostProcess ==
  /\ phase = "post"
  /\ answers' = [i \in DOMAIN answers |->
                   Restored(request.qs[i], Verified(request.qs[i], answers[i]))]
  /\ phase' = "summary"
  /\ UNCHANGED <<request, questions, processed, summary, status>>

RouteOf(a) == IF a.gating = NoGating THEN UngatedRoute(a.reading.conf) ELSE a.gating.route

Summary ==
  LET count == [route \in Routes |-> Cardinality({i \in DOMAIN answers : RouteOf(answers[i]) = route})]
  IN  [aggregate |-> Aggregate(count), count |-> count,
       escalation |-> count["confirm"] > 0 \/ count["fallback"] > 0]

Summarize ==
  /\ phase = "summary"
  /\ summary' = IF Config.enabled THEN Summary ELSE NoSummary
  /\ Reply(200)
  /\ UNCHANGED <<request, questions, processed, answers>>

\* An error or a panic in the blocking task; the answers so far are dropped.
InferenceFails ==
  /\ phase \in {"routing", "running", "post", "summary"}
  /\ Reply(500)
  /\ UNCHANGED <<request, questions, processed, answers, summary>>

Replied == phase = "replied" /\ UNCHANGED vars

Next ==
  \/ Reject \/ Admit
  \/ RouteQuestion
  \/ Screen \/ RunChunk \/ GateScreened
  \/ PostProcess \/ Summarize
  \/ InferenceFails \/ Replied

\* The handler waits for the blocking task without a deadline, and the task for a
\* session: nothing says that a reply comes.
Spec == Init /\ [][Next]_vars

-----------------------------------------------------------------------------
Phases == {"received", "routing", "running", "post", "summary", "replied"}

IsAnswer(a) ==
  /\ a.choice \in Label \cup {NoLabel}
  /\ DOMAIN a.probs \subseteq Label
  /\ a.probs \in [DOMAIN a.probs -> 0..MaxLevels]
  /\ a.reading \in Reading
  /\ a.gating \in Metadata \cup {NoGating}

\* Type invariant: a request in one of the phases of system_one_handler, its
\* maps keyed by its questions.
TypeOK ==
  /\ request \in Request
  /\ phase \in Phases
  /\ status \in {0, 200, 400, 413, 500}
  /\ phase = "replied" <=> status # 0
  /\ DOMAIN questions \in {{}, Place}
  /\ \A i \in DOMAIN questions : questions[i] \in Question
  /\ DOMAIN processed \subseteq DOMAIN questions
  /\ \A i \in DOMAIN processed :
       processed[i] \in Question /\ processed[i].type = questions[i].type
  /\ DOMAIN answers \subseteq DOMAIN questions
  /\ \A i \in DOMAIN answers : IsAnswer(answers[i])

Delivered == status = 200

\* A successful reply answers every question of the request, whichever way it
\* took, and gates every answer when gating is on: neither the split between
\* the router and the batch nor the chunks lose one (systemone.rs:143-202).
EveryQuestionAnswered ==
  Delivered =>
    /\ DOMAIN answers = Place
    /\ \A i \in Place :
         /\ answers[i].choice # NoLabel <=> request.qs[i].type = "choice"
         /\ Config.enabled => answers[i].gating # NoGating

\* A choice that the engine answered is made among the candidates of its
\* question that were evaluated, and its distribution is over all of them,
\* however many the screening left out (batch.rs:752-768).
ChoiceAmongCandidates ==
  Delivered =>
    \A i \in DOMAIN processed :
      LET a == answers[i]
          keys == {CleanChoice[k] : k \in request.qs[i].keys}
      IN  request.qs[i].type = "choice" =>
            /\ DOMAIN a.probs = keys
            /\ a.choice \in keys
            /\ a.probs[a.choice] = Evaluated
            /\ {k \in keys : a.probs[k] = Evaluated} = processed[i].keys

\* A score whose labels differ is reported under the labels of the client,
\* each with its own level, also when they look alike without their prefixes
\* (guardrails/mod.rs:230-266, decision.rs:129-131).
LabelsRestored ==
  Delivered =>
    \A i \in Place :
      LET q == request.qs[i]
      IN  q.type = "score" /\ IsInjective(q.levels) =>
            answers[i].probs = AntiFunction(q.levels)

\* An answer that may be executed without anyone looking is confident, ahead
\* of its runner-up, no bimodal score, and, if the engine gave it, its input
\* was not out of the distribution: the rules of the gating, of the router
\* and of the guardrail after them agree on that much.
AutoIsJustified ==
  Delivered =>
    \A i \in Place :
      LET a == answers[i]
          q == request.qs[i]
      IN  a.gating # NoGating /\ a.gating.route = "auto" =>
            /\ Reaches(a.reading.conf, Config.high)
            /\ Reaches(a.reading.margin, Config.margin)
            /\ ~IsBimodal(q, a)
            /\ i \in DOMAIN processed => ~IsOod(q.type, a.reading, Config)

\* The verdict on the reply is the worst route that is delivered with it, the
\* demotions of the guardrail included, and the counts add up (gating.rs:662-703,
\* systemone.rs:208-238).
SummaryIsWorst ==
  summary # NoSummary =>
    LET severity(i) == Severity[answers[i].gating.route]
    IN  /\ \A i \in Place : severity(i) <= Severity[summary.aggregate]
        /\ \E i \in Place : severity(i) = Severity[summary.aggregate]
        /\ summary.count["auto"] + summary.count["confirm"] + summary.count["fallback"]
             = Len(request.qs)
        /\ summary.escalation <=> summary.aggregate # "auto"

\* systemone.rs:120-240: the reply answers and gates every question, automatic
\* answers deserve it, and the verdict on the whole is drawn from what is delivered.
ReplyIsRight == EveryQuestionAnswered /\ AutoIsJustified /\ SummaryIsWorst

\* batch.rs:752-768, guardrails/mod.rs:230-266: the answers are put in the terms
\* of the client, whatever screening and cleaning did to its candidates and labels.
AnswersInClientTerms == ChoiceAmongCandidates /\ LabelsRestored

\* Once an answer has a route, no later step makes it more automatic, nor
\* more confident, nor takes the route away (bimodal.rs:161-222).
NeverPromoted ==
  [][\A i \in DOMAIN answers :
       answers[i].gating # NoGating =>
         /\ i \in DOMAIN answers'
         /\ answers'[i].gating # NoGating
         /\ Severity[answers[i].gating.route] <= Severity[answers'[i].gating.route]
         /\ answers'[i].gating.conf <= answers[i].gating.conf]_vars
=============================================================================

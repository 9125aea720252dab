----------------------------- MODULE DagExecutor -----------------------------
(***************************************************************************)
(* InProcessDagExecutor (crates/sokuto-runtime/src/dag/executor.rs):       *)
(* execute validates a definition and walks it under a deadline.           *)
(*                                                                         *)
(* The walk is an async function: it yields only where it awaits the       *)
(* blocking tasks of a step, so a deadline can end it only there.  The     *)
(* tasks run on threads of their own: when the deadline drops the walk,    *)
(* those already started run on.                                           *)
(*                                                                         *)
(* What a question is answered is the model's affair: any Reply.  The      *)
(* ghost field by of an answer names the node whose question was asked.    *)
(***************************************************************************)
EXTENDS DagCondition, DagRequest

CONSTANTS MaxSteps,   \* max_steps (50, or what with_max_steps sets)
          Reply       \* what the engine may answer (answers with by = NoNode)

ASSUME MaxStepsAssumption == MaxSteps \in Nat
ASSUME ReplyAssumption ==
  \A r \in Reply :
    /\ r = [by |-> NoNode, choice |-> r.choice, noul |-> r.noul, score |-> r.score,
            confidence |-> r.confidence, route |-> r.route]
    /\ \A n \in NodeId : [r EXCEPT !.by = n] # NoAnswer

VARIABLES
  pc,            \* "start" | "loop" | "await" | "left" (break) | "done"
  cur,           \* curr_node_id
  step_count,
  path,          \* execution_path
  steps,         \* the StepExecutionResult of each node recorded
  context,       \* the NodeContextValue of each node answered
  final_answer,
  escalation,    \* what the Escalate node left, NoEscalation before
  tasks,         \* the blocking tasks of the current step
  outcome        \* "none", "Ok" or the name of the DagError

vars == <<dag, pc, cur, step_count, path, steps, context, final_answer,
          escalation, tasks, outcome>>
walk == <<cur, step_count, path, steps, context, final_answer, escalation>>

NoEscalation == [escalated |-> FALSE, node |-> NoNode, gating |-> NoNode,
                 prompt |-> "none", question |-> NoNode]

Task(n) == [node |-> n, state |-> "running", answer |-> NoAnswer]
Running == {i \in DOMAIN tasks : tasks[i].state = "running"}
Bad     == {i \in DOMAIN tasks : tasks[i].state \in {"failed", "panicked"}}

\* Mutation of TaskNodes: only the first result of a parallel step is kept.
FirstTaskNode == {tasks[1].node}

TaskNodes == {tasks[i].node : i \in DOMAIN tasks}

Empty == [n \in {} |-> NoNode]

\* A map with the entries of g put into it (IndexMap::insert for each).
Merge(f, g) == [k \in DOMAIN f \union DOMAIN g |-> IF k \in DOMAIN g THEN g[k] ELSE f[k]]

Init ==
  /\ dag \in Dags
  /\ pc = "start"
  /\ cur = dag.entry
  /\ step_count = 0
  /\ path = <<>>
  /\ steps = Empty
  /\ context = Empty
  /\ final_answer = NoAnswer
  /\ escalation = NoEscalation
  /\ tasks = <<>>
  /\ outcome = "none"

-----------------------------------------------------------------------------
Return(result) == pc' = "done" /\ outcome' = result

\* execute: validate_dag(dag)?, then the walk.
Execute ==
  /\ pc = "start"
  /\ IF ValidDag(dag) THEN pc' = "loop" /\ UNCHANGED outcome
     ELSE Return("Validation")
  /\ UNCHANGED <<dag, walk, tasks>>

\* dag.nodes.get(cur), and the question of an Inference node.
Found == cur \in Nodes(dag) /\ (TypeIs(dag, cur, "Inference") => dag.nodes[cur].question)

\* The head of the while loop, up to the match on the type.
Visit(type) ==
  /\ pc = "loop" /\ step_count < MaxSteps
  /\ Found /\ TypeIs(dag, cur, type)
  /\ step_count' = step_count + 1
  /\ path' = Append(path, cur)
  /\ UNCHANGED <<dag, outcome>>

\* match next_node { Some(nxt) => cur = nxt, None => break }
GoTo(next) == IF next = NoNode THEN pc' = "left" /\ UNCHANGED cur
              ELSE pc' = "loop" /\ cur' = next

Step(type, answer, next) == [type |-> type, answer |-> answer, next |-> next]

\* Inference: spawn_blocking(predict_single_question) and await.
InferenceBegin ==
  /\ Visit("Inference")
  /\ tasks' = <<Task(cur)>>
  /\ pc' = "await"
  /\ UNCHANGED <<cur, steps, context, final_answer, escalation>>

InferenceEnd ==
  /\ pc = "await" /\ TypeIs(dag, cur, "Inference")
  /\ Running = {} /\ Bad = {}
  /\ LET answer == tasks[1].answer
         known  == Merge(context, [n \in {cur} |-> ContextValue(answer)])
         next   == EvaluateConditions(dag.nodes[cur].conditions, answer, known)
     IN  /\ context' = known
         /\ final_answer' = answer
         /\ steps' = Merge(steps, [n \in {cur} |-> Step("Inference", answer, next)])
         /\ GoTo(next)
  /\ tasks' = <<>>
  /\ UNCHANGED <<dag, step_count, path, escalation, outcome>>

\* Branch: decided by the last answer and the context, without an await.
BranchStep ==
  /\ Visit("Branch")
  /\ LET next == EvaluateConditions(dag.nodes[cur].conditions, final_answer, context)
     IN  /\ steps' = Merge(steps, [n \in {cur} |-> Step("Branch", NoAnswer, next)])
         /\ GoTo(next)
  /\ UNCHANGED <<context, final_answer, escalation, tasks>>

\* Parallel: one blocking task per listed node, all of them awaited.
ParallelBegin ==
  /\ Visit("Parallel")
  /\ tasks' = [i \in DOMAIN dag.nodes[cur].parallel |-> Task(dag.nodes[cur].parallel[i])]
  /\ pc' = "await"
  /\ UNCHANGED <<cur, steps, context, final_answer, escalation>>

\* The answer recorded for p: that of its last task, when p is listed twice.
LastAnswer(p) ==
  LET mine == {i \in DOMAIN tasks : tasks[i].node = p}
  IN  tasks[CHOOSE i \in mine : \A j \in mine : j <= i].answer

\* The results in the order of the list; final_answer stays as it was.
ParallelEnd ==
  /\ pc = "await" /\ TypeIs(dag, cur, "Parallel")
  /\ Running = {} /\ Bad = {}
  /\ LET join == dag.nodes[cur].join
     IN  /\ context' = Merge(context, [p \in TaskNodes |-> ContextValue(LastAnswer(p))])
         /\ steps' = Merge(steps, [p \in TaskNodes \union {cur} |->
                       IF p = cur THEN Step("Parallel", NoAnswer, join)
                       ELSE Step("Inference", LastAnswer(p), join)])
         /\ GoTo(join)
  /\ tasks' = <<>>
  /\ UNCHANGED <<dag, step_count, path, final_answer, escalation, outcome>>

\* A task failed or panicked: once all have ended, the first error in the order
\* of the list is returned.
StepFails ==
  /\ pc = "await" /\ Running = {} /\ Bad # {}
  /\ LET first == CHOOSE i \in Bad : \A j \in Bad : i <= j
     IN  Return(IF tasks[first].state = "panicked" THEN "ExecutionFailed" ELSE "Runtime")
  /\ tasks' = <<>>
  /\ UNCHANGED <<dag, walk>>

\* execution_path.iter().rev().nth(1), cur being the last element.
Trigger == IF path = <<>> THEN NoNode ELSE path[Len(path)]

\* Mutation of EscalationFor: the flag is not raised.
EscalationForSilent(trigger, answer) ==
  [NoEscalation EXCEPT !.node = trigger,
                       !.gating = IF answer = NoAnswer THEN NoNode ELSE answer.by]

\* What escalates: the node before, the gating of the last answer, and the
\* prompt: the template the gating carries (it has one unless the route is
\* auto_execute), else one built from the trigger's question, else the reason.
EscalationFor(trigger, answer) ==
  LET esc(gating, prompt, question) ==
        [escalated |-> TRUE, node |-> trigger, gating |-> gating,
         prompt |-> prompt, question |-> question]
  IN  IF answer = NoAnswer THEN esc(NoNode, "reason", NoNode)
      ELSE IF answer.route # "auto_execute" THEN esc(answer.by, "template", answer.by)
      ELSE IF trigger # NoNode /\ dag.nodes[trigger].question
             THEN esc(answer.by, "built", trigger)
      ELSE esc(answer.by, "reason", NoNode)

\* Escalate: the walk ends here, whatever conditions the node carries.
EscalateStep ==
  /\ Visit("Escalate")
  /\ escalation' = EscalationFor(Trigger, final_answer)
  /\ steps' = Merge(steps, [n \in {cur} |-> Step("Escalate", NoAnswer, NoNode)])
  /\ GoTo(NoNode)
  /\ UNCHANGED <<context, final_answer, tasks>>

\* After the loop, or an early return from its head.
Leave ==
  /\ \/ pc = "left"
     \/ pc = "loop" /\ (step_count >= MaxSteps \/ ~ Found)
  /\ Return(IF pc = "loop" /\ step_count < MaxSteps THEN "NodeNotFound"
            ELSE IF step_count >= MaxSteps THEN "StepLimitExceeded"
            ELSE "Ok")
  /\ UNCHANGED <<dag, walk, tasks>>

\* A blocking task ends: with an answer, an error or a panic.  Nobody listens
\* any more when the deadline has passed.
TaskEnds(i) ==
  /\ i \in Running
  /\ \E state \in {"answered", "failed", "panicked"}, reply \in Reply :
       tasks' = [tasks EXCEPT ![i].state = state,
                   ![i].answer = IF state = "answered"
                                   THEN [reply EXCEPT !.by = tasks[i].node] ELSE NoAnswer]
  /\ UNCHANGED <<dag, pc, walk, outcome>>

\* Mutation of Timeout: the deadline waits for the tasks to end.
TimeoutJoins ==
  /\ pc = "await" /\ Running = {}
  /\ Return("Timeout")
  /\ UNCHANGED <<dag, walk, tasks>>

\* tokio::time::timeout: polls the walk first, then the timer, so a task that
\* ends in between is too late.
Timeout ==
  /\ pc = "await"
  /\ Return("Timeout")
  /\ UNCHANGED <<dag, walk, tasks>>

Run == \/ Execute \/ InferenceBegin \/ InferenceEnd \/ BranchStep \/ ParallelBegin
       \/ ParallelEnd \/ StepFails \/ EscalateStep \/ Leave

\* execute has returned and its tasks are over.
Over == pc = "done" /\ Running = {} /\ UNCHANGED vars

Next == \/ Execute
        \/ InferenceBegin \/ InferenceEnd
        \/ BranchStep
        \/ ParallelBegin \/ ParallelEnd
        \/ StepFails
        \/ EscalateStep
        \/ Leave
        \/ \E i \in DOMAIN tasks : TaskEnds(i)
        \/ Timeout
        \/ Over

\* The runtime polls the walk whenever it can go on, and the timer fires; a
\* task need not end for that.
Spec == Init /\ [][Next]_vars /\ WF_vars(Run) /\ WF_vars(Timeout)

-----------------------------------------------------------------------------
(* Properties *)

TypeOK ==
  /\ dag \in Dags
  /\ pc \in {"start", "loop", "await", "left", "done"}
  /\ cur \in NodeId
  /\ step_count \in 0..MaxSteps
  /\ path \in Seq(NodeId) /\ Len(path) = step_count
  /\ DOMAIN steps \subseteq NodeId
  /\ DOMAIN context \subseteq NodeId
  /\ escalation.node \in NodeId \union {NoNode}
  /\ \A i \in DOMAIN tasks :
       /\ tasks[i] = [node |-> tasks[i].node, state |-> tasks[i].state,
                      answer |-> tasks[i].answer]
       /\ tasks[i].state \in {"running", "answered", "failed", "panicked"}
  /\ outcome \in {"none", "Ok", "Validation", "NodeNotFound", "StepLimitExceeded",
                  "Timeout", "Runtime", "ExecutionFailed"}

\* executor.rs:147-386: the walk over an accepted definition never comes back
\* to a node, nor reaches one that is missing.
NoNodeRevisited ==
  /\ \A i, j \in DOMAIN path : path[i] = path[j] => i = j
  /\ outcome # "NodeNotFound"

\* schema.rs:117-119,130-133: next_node of the recorded steps and the
\* execution_path tell the same story, and that of the last step is None.
PathFollowsSteps ==
  /\ \A i \in 1..(Len(path) - 1) :
       path[i] \in DOMAIN steps /\ steps[path[i]].next = path[i+1]
  /\ outcome = "Ok" => path # <<>> /\ steps[path[Len(path)]].next = NoNode

\* executor.rs:186-205,274-308: between two steps, and in the result, exactly
\* the visited nodes and the tasks of the visited parallel nodes are recorded,
\* each question with its own answer, and the context holds the answers.
RecordsMatchPath ==
  pc \in {"loop", "left"} \/ outcome = "Ok" =>
    /\ DOMAIN steps = Elems(path) \union
         UNION {Tasks(dag, q) : q \in {n \in Elems(path) : TypeIs(dag, n, "Parallel")}}
    /\ DOMAIN context = {n \in DOMAIN steps : TypeIs(dag, n, "Inference")}
    /\ \A n \in DOMAIN context : /\ steps[n].answer.by = n
                                 /\ context[n] = ContextValue(steps[n].answer)

\* executor.rs:195,282,298,372: no later step overwrites what was recorded of a
\* node: each question counts once, whether asked on the path or as a task.
RecordedOnce ==
  [][\A n \in DOMAIN steps : n \in DOMAIN steps' /\ steps'[n] = steps[n]]_vars

\* executor.rs:321-370: when an Inference node leads to the escalation, the
\* gating and the prompt that are reported are those of its own question.
EscalationExplainsTrigger ==
  escalation.escalated /\ escalation.node # NoNode =>
    (TypeIs(dag, escalation.node, "Inference") =>
       /\ escalation.gating = escalation.node
       /\ escalation.prompt \in {"template", "built"}
       /\ escalation.question = escalation.node)

\* executor.rs:147,388: the step limit never cuts a definition with fewer nodes
\* than the limit.
NoSpuriousStepLimit ==
  Cardinality(Nodes(dag)) < MaxSteps => outcome # "StepLimitExceeded"

\* executor.rs:388: a walk that is answered took fewer steps than the limit, one
\* that is refused took as many: so is one that came to its end in the last of them.
LimitIsReached ==
  /\ outcome = "Ok" => Len(path) < MaxSteps
  /\ outcome = "StepLimitExceeded" => Len(path) = MaxSteps

\* executor.rs:125-405: the result is an account of the walk: its nodes, once
\* each and in order, what they and their tasks answered, why it was escalated,
\* and a step limit that is reported where it was reached and nowhere else.
RunIsAccountedFor ==
  /\ NoNodeRevisited /\ PathFollowsSteps /\ RecordsMatchPath
  /\ EscalationExplainsTrigger /\ NoSpuriousStepLimit /\ LimitIsReached

\* executor.rs:113-122: the caller gets its result although a task never ends.
EventuallyReturns == <>(outcome # "none")

Result == CASE outcome = "none" -> "none"
            [] outcome = "Ok" /\ escalation.escalated -> "escalated"
            [] outcome = "Ok" /\ ~ escalation.escalated -> "completed"
            [] OTHER -> "error"

Abstract == INSTANCE DagWalk WITH visited <- path, result <- Result

\* executor.rs:101-123: execute is a walk as DagWalk describes it.
ImplementsWalk == Abstract!Spec
=============================================================================

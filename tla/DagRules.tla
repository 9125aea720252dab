------------------------------ MODULE DagRules ------------------------------
(***************************************************************************)
(* A node that splits on a rule and its negation: the node is answered, and *)
(* its two rules are evaluated in the order they are written in, and in    *)
(* the other one (evaluate_conditions of crates/sokuto-runtime/src/dag/    *)
(* executor.rs).  The answer is also in the context, where the rules of    *)
(* later nodes find it.                                                    *)
(***************************************************************************)
EXTENDS DagCondition

CONSTANTS Answers,     \* the answers a question may get
          AskedNode,   \* the node that gave the answer
          No           \* the target of the negation of a rule

Negated == [Eq |-> "Neq", Neq |-> "Eq", Gt |-> "Lte", Lte |-> "Gt",
            Gte |-> "Lt", Lt |-> "Gte",
            ConfidenceGte |-> "ConfidenceLt", ConfidenceLt |-> "ConfidenceGte"]
Equality   == {"Eq", "Neq"}
Comparison == Equality \union {"Gt", "Gte", "Lt", "Lte"}

\* The schema has numbers for confidences, scores and thresholds.  An answer is
\* of one kind at most.
ASSUME NumbersAssumption ==
  /\ Half \in Int /\ NoNumber \notin Int
  /\ \A c \in Condition : Tag(c.value) = "num" => Held(c.value) \in Int
  /\ \A a \in Answers : {a.noul, a.score, a.confidence} \subseteq Int \union {NoNumber}
ASSUME AnswersAssumption ==
  /\ NoAnswer \notin Answers
  /\ \A a \in Answers :
       /\ IsChoice(a) => ~ IsNoul(a) /\ ~ IsScore(a)
       /\ IsNoul(a) => ~ IsScore(a)
ASSUME TargetAssumption == No \in NodeId

\* Rules that have a negation: all but those with the operator In.
Splits == {c \in Condition : c.op \in DOMAIN Negated}

Complement(c) == [field |-> c.field, node |-> c.node, op |-> Negated[c.op],
                  value |-> c.value, target |-> No]

VARIABLES answer, rule,
          chosen, swapped,   \* where the two orders lead, NoNode: nowhere
          asked              \* have they been evaluated?
ruleVars == <<answer, rule, chosen, swapped, asked>>

\* The context once the node has answered.
Context(ans) == [n \in {AskedNode} |-> ContextValue(ans)]

RulesInit ==
  /\ answer \in Answers /\ rule \in Splits
  /\ chosen = NoNode /\ swapped = NoNode /\ asked = FALSE

Evaluate ==
  /\ ~ asked
  /\ asked' = TRUE
  /\ chosen' = EvaluateConditions(<<rule, Complement(rule)>>, answer, Context(answer))
  /\ swapped' = EvaluateConditions(<<Complement(rule), rule>>, answer, Context(answer))
  /\ UNCHANGED <<answer, rule>>

RulesNext == Evaluate \/ (asked /\ UNCHANGED ruleVars)
RulesSpec == RulesInit /\ [][RulesNext]_ruleVars

-----------------------------------------------------------------------------
\* A rule whose value and operator suit the answer it is applied to.
Suits(c, ans) ==
  CASE c.field = "confidence" -> Tag(c.value) = "num"
    [] c.field = "route" -> Tag(c.value) = "text" /\ c.op \in Equality
    [] c.field = "node.value" ->
         c.node = AskedNode /\ Tag(c.value) = "text" /\ c.op \in Equality
    [] c.field = "node.confidence" ->
         c.node = AskedNode /\ Tag(c.value) = "num" /\ Plain(c.op) \in {"Gte", "Lt"}
    [] c.field = "answer" ->
         \/ IsChoice(ans) /\ Tag(c.value) = "text" /\ c.op \in Equality
         \/ IsNoul(ans) /\ IsBoolean(c.value) /\ c.op \in Equality
         \/ /\ IsScore(ans) \/ (IsNoul(ans) /\ ~ IsBoolean(c.value))
            /\ Tag(c.value) = "num" /\ c.op \in Comparison
    [] OTHER -> FALSE

\* executor.rs:436-586: a node that splits on a suitable rule and its negation
\* always goes somewhere, and the order in which the two are written does not
\* matter: no number falls between them and none is claimed by both.
SplitIsDecisive ==
  asked /\ Suits(rule, answer) => chosen # NoNode /\ chosen = swapped

\* The rule, asked of the node itself.
Asking(c, field) == [field |-> field, node |-> c.node, op |-> c.op, value |-> c.value,
                     target |-> c.target]

\* The rule of a later node, which has no answer of its own.
LaterDecides == Matches(rule, NoAnswer, Context(answer))

\* executor.rs:408-419,556-583: a later node that refers to the answer by
\* "node.value" or "node.confidence" decides as the node itself did with
\* "answer" and "confidence".
ReferenceAgrees ==
  Suits(rule, answer) =>
    /\ /\ rule.field = "node.value"
       /\ IsChoice(answer) \/ (IsNoul(answer) /\ IsBoolean(rule.value))
       => (LaterDecides <=> Matches(Asking(rule, "answer"), answer, <<>>))
    /\ rule.field = "node.confidence" =>
         (LaterDecides <=> Matches(Asking(rule, "confidence"), answer, <<>>))

\* executor.rs:408-586: a rule decides the same whichever way it is asked: first
\* or second, of the answer at hand or of the record of it.
RulesDecideAlike == SplitIsDecisive /\ ReferenceAgrees
=============================================================================

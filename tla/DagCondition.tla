---------------------------- MODULE DagCondition ----------------------------
(***************************************************************************)
(* The transition rules of a node (crates/sokuto-runtime/src/dag/          *)
(* executor.rs, answer_to_context_value, evaluate_conditions and           *)
(* matches_condition).                                                     *)
(*                                                                         *)
(* Numbers are integers in units of 1e-6, the tolerance of the code, which *)
(* is therefore 1; Half is 0.5.  A text is a word or the decimal rendering *)
(* of a number (format!("{s}")), kept apart by a tag so that each is equal *)
(* only to itself.                                                         *)
(***************************************************************************)
EXTENDS DagGraph, Integers

CONSTANTS Half,       \* 0.5, in the unit of the numbers
          NoNumber,   \* Option::None for a number
          NoText,     \* ... for a text
          NoAnswer    \* ... for an answer

Word(w)    == <<"word", w>>
Decimal(x) == <<"decimal", x>>

\* A JSON value: its tag ("num", "text", "bool", "array", or "null" when the rule
\* has no value) and what it holds.
Json(tag, x) == <<tag, x>>
Tag(v)  == v[1]
Held(v) == v[2]

\* An answer is a record with the fields of Answer: by (the node asked),
\* choice, noul, score, confidence, and route, that of its gating metadata:
\* an answer given to the DAG always has one (predict_single_question takes the
\* GatingConfig of the calibration, which is enabled).

OrZero(x) == IF x = NoNumber THEN 0 ELSE x

\* answer.and_then(|a| a.confidence).unwrap_or(0.0)
ConfidenceOf(ans) == IF ans = NoAnswer THEN 0 ELSE OrZero(ans.confidence)

RouteOf(ans) == IF ans = NoAnswer THEN "auto_execute" ELSE ans.route

IsChoice(ans) == ans.choice # NoText
IsNoul(ans)   == ans.noul # NoNumber
IsScore(ans)  == ans.score # NoNumber
Truth(ans)    == ans.noul >= Half

\* answer_to_context_value
ContextValue(ans) ==
  [text |-> IF IsChoice(ans) THEN ans.choice
            ELSE IF IsNoul(ans) THEN Word(IF Truth(ans) THEN "true" ELSE "false")
            ELSE IF IsScore(ans) THEN Decimal(ans.score)
            ELSE Word("null"),
   confidence |-> OrZero(ans.confidence)]

-----------------------------------------------------------------------------
Near(x, y) == x - y < 1 /\ y - x < 1

\* Mutation of Compare: Gte without the tolerance.
CompareStrict(op, x, t) ==
  CASE op = "Eq"  -> Near(x, t)
    [] op = "Neq" -> ~ Near(x, t)
    [] op = "Gt"  -> x > t + 1
    [] op = "Gte" -> x >= t
    [] op = "Lt"  -> x < t - 1
    [] op = "Lte" -> x <= t + 1
    [] OTHER      -> FALSE

\* The comparison of two numbers, up to the tolerance.
Compare(op, x, t) ==
  CASE op = "Eq"  -> Near(x, t)
    [] op = "Neq" -> ~ Near(x, t)
    [] op = "Gt"  -> x > t + 1
    [] op = "Gte" -> x >= t - 1
    [] op = "Lt"  -> x < t - 1
    [] op = "Lte" -> x <= t + 1
    [] OTHER      -> FALSE

\* ConfidenceGte and ConfidenceLt are Gte and Lt, where a confidence is meant.
Plain(op) == CASE op = "ConfidenceGte" -> "Gte"
               [] op = "ConfidenceLt"  -> "Lt"
               [] OTHER                -> op

SameOrNot(op, x, y) == \/ op = "Eq"  /\ x = y
                       \/ op = "Neq" /\ x # y

\* as_f64 and as_str with their defaults (the empty text equals no other).
NumberOr0(v)   == IF Tag(v) = "num" THEN Held(v) ELSE 0
TextOrEmpty(v) == IF Tag(v) = "text" THEN Held(v) ELSE Word("")

\* The literals that say true or false.
IsBoolean(v) == \/ Tag(v) = "bool"
                \/ Tag(v) = "text" /\ Held(v) \in {Word("true"), Word("false")}

MatchesNoul(cond, noul) ==
  LET literal == IF Tag(cond.value) = "bool" THEN Held(cond.value)
                 ELSE Held(cond.value) = Word("true")
  IN  IF IsBoolean(cond.value) THEN SameOrNot(cond.op, noul >= Half, literal)
      ELSE Tag(cond.value) = "num" /\ Compare(cond.op, noul, Held(cond.value))

MatchesChoice(cond, choice) ==
  \/ SameOrNot(cond.op, choice, TextOrEmpty(cond.value))
  \/ cond.op = "In" /\ Tag(cond.value) = "array" /\ choice \in Held(cond.value)

MatchesScore(cond, score) == Compare(cond.op, score, NumberOr0(cond.value))

\* A reference to an earlier node, "node.value" or "node.confidence".
MatchesContext(cond, ctx) ==
  CASE cond.field = "node.value" ->
         SameOrNot(cond.op, ctx.text, TextOrEmpty(cond.value))
    [] cond.field = "node.confidence" ->
         /\ Plain(cond.op) \in {"Gte", "Lt"}
         /\ Compare(Plain(cond.op), ctx.confidence, NumberOr0(cond.value))
    [] OTHER -> FALSE

\* matches_condition (the fields "answer" and "value" are synonyms, here and
\* after a node; an answer is of one kind); context maps the nodes answered so far to their values.
Matches(cond, ans, context) ==
  CASE cond.field = "confidence" ->
         Compare(Plain(cond.op), ConfidenceOf(ans), NumberOr0(cond.value))
    [] cond.field = "route" ->
         SameOrNot(cond.op, Word(RouteOf(ans)), TextOrEmpty(cond.value))
    [] cond.field = "answer" ->
         /\ ans # NoAnswer
         /\ \/ IsNoul(ans)   /\ MatchesNoul(cond, ans.noul)
            \/ IsChoice(ans) /\ MatchesChoice(cond, ans.choice)
            \/ IsScore(ans)  /\ MatchesScore(cond, ans.score)
    [] OTHER -> cond.node \in DOMAIN context /\ MatchesContext(cond, context[cond.node])

\* evaluate_conditions: the target of the first rule that matches, if any.
EvaluateConditions(conds, ans, context) ==
  LET hits == {i \in DOMAIN conds : Matches(conds[i], ans, context)}
  IN  IF hits = {} THEN NoNode
      ELSE conds[CHOOSE i \in hits : \A j \in hits : i <= j].target
=============================================================================

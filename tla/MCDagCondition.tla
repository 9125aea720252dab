--------------------------- MODULE MCDagCondition ---------------------------
(* Every rule against every answer, over small domains. *)
EXTENDS DagRules

CONSTANTS MaxNumber,    \* the largest number
          Yes           \* the target of the rule

Number == 0..MaxNumber
Choices == {Word("a"), Word("b")}
Routes == {"auto_execute", "fallback"}

Blank == [by |-> AskedNode, choice |-> NoText, noul |-> NoNumber,
          score |-> NoNumber, confidence |-> NoNumber, route |-> "auto_execute"]

MCAnswers ==
  {[Blank EXCEPT !.choice = w, !.confidence = c, !.route = r] :
       w \in Choices, c \in Number, r \in Routes}
  \union {[Blank EXCEPT !.noul = x, !.route = r] : x \in Number, r \in Routes}
  \union {[Blank EXCEPT !.score = x, !.confidence = c] : x \in Number, c \in {0, Half}}

Values == {Json("num", x) : x \in Number}
          \union {Json("bool", b) : b \in BOOLEAN}
          \union {Json("text", Word(w)) : w \in {"a", "true", "false", "fallback"}}
          \union {Json("text", Decimal(x)) : x \in {0, Half}}
          \union {Json("array", {Word("a")}), Json("null", 0)}

Fields == {"confidence", "route", "answer", "node.value", "node.confidence"}
Rules == [field : Fields, node : {AskedNode}, op : DOMAIN Negated \union {"In"}, value : Values,
          target : {Yes}]
=============================================================================

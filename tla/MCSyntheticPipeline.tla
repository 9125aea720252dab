------------------------- MODULE MCSyntheticPipeline -------------------------
(***************************************************************************)
(* Three texts, two of them similar, one target above and one below what a *)
(* batch holds; answers of every kind a gate tells apart.                  *)
(***************************************************************************)
EXTENDS SyntheticPipeline

MCText == {"p", "q", "r", "short"}
MCLength == [t \in MCText |-> IF t = "short" THEN 1 ELSE 3]
MCSimilar == {<<t, t>> : t \in MCText} \cup {<<"p", "q">>, <<"q", "p">>}
MCKey == {"true", "True", "false", "other"} \cup Range(ActionKey) \cup Range(LevelKey)
MCLower == [k \in MCKey |-> IF k = "True" THEN "true" ELSE k]
MCOptionCount == [t \in Types |-> IF t = "choice" THEN {2} ELSE IF t = "score" THEN {3} ELSE {2}]

Noul(text) ==
  [state |-> text, instructions |-> TRUE, type |-> "noul", mapping |-> TRUE,
   criteria |-> <<>>, tooLong |-> FALSE, hardNegative |-> FALSE, target |-> "True"]
MCAnswers ==
  {Failed, Noul("p"), Noul("r"),
   [Noul("q") EXCEPT !.mapping = FALSE],
   [Noul("q") EXCEPT !.type = "choice", !.criteria = <<"action_a", "action_b">>, !.target = "action_a"]}
=============================================================================

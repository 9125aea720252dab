----------------------------- MODULE MCSystemOne -----------------------------
(***************************************************************************)
(* Requests of up to three questions, from a catalog that has one of each  *)
(* kind the handler treats differently; percentages as numbers, the        *)
(* tolerance of the thresholds being one of them.                          *)
(***************************************************************************)
EXTENDS SystemOne

MCNoEnergy == -1000

MCIndexLabel == <<"0", "1", "2">>
MCLabel == {"a", "b", "c", "x", "y", "op", "cleaned op",
            "1 ok", "2 ok", "3 bad", "ok", "bad", "", "0", "1", "2"}
MCCleanChoice == [l \in MCLabel |-> IF l = "op" THEN "cleaned op" ELSE l]
MCCleanScore ==
  [l \in MCLabel |-> CASE l \in {"1 ok", "2 ok"} -> "ok" [] l = "3 bad" -> "bad" [] OTHER -> l]

ChoiceOf(keys) == [type |-> "choice", keys |-> keys, levels |-> <<>>]
ScoreOf(levels) == [type |-> "score", keys |-> {}, levels |-> levels]
Noul == [type |-> "noul", keys |-> {}, levels |-> <<>>]

\* x and y are in the hierarchy of the server; choices of more than two
\* candidates are screened or routed, those of two only with auto_hierarchical.
Routed == ChoiceOf({"a", "b", "y"})
Screened3 == ChoiceOf({"a", "b", "op"})
Graded == ScoreOf(<<"1 ok", "2 ok", "3 bad">>)
Catalog ==
  {ChoiceOf({"a"}), ChoiceOf({"op", "x"}), Routed, Screened3,
   Graded, ScoreOf(<<"1 ok", "3 bad">>), ScoreOf(<<"1 ok", "", "3 bad">>), Noul}

Off == [enabled |-> FALSE, high |-> 70, low |-> 35, margin |-> 15,
        ood |-> TRUE, energy |-> -10, hybrid |-> {}]
On == [Off EXCEPT !.enabled = TRUE]
\* Thresholds of a client that lets more pass, with the hybrid rule.
Lenient == [On EXCEPT !.high = 50, !.energy = 0,
                      !.hybrid = {[loose |-> -15, conf |-> 40, margin |-> 20]}]
Invalid == [On EXCEPT !.high = 30]

Requests(lists, configs, autos) ==
  [qs : lists, gating : configs, auto : autos, big : {FALSE}]

\* One question of every kind; pairs and a triple that mix the three ways;
\* and what the handler refuses.
MCRequest ==
  Requests({<<q>> : q \in Catalog}, {NoGating, On, Lenient}, BOOLEAN)
    \cup Requests({<<Routed, Screened3>>, <<Screened3, Graded>>, <<Noul, Noul>>}, {On}, {TRUE})
    \cup Requests({<<Screened3, Noul, Noul>>}, {On}, {FALSE})
    \cup Requests({<<>>, <<ChoiceOf({})>>, <<Noul, Noul, Noul, Noul>>}, {NoGating}, {FALSE})
    \cup Requests({<<Noul>>}, {Invalid}, {FALSE})
    \cup [qs : {<<Noul>>}, gating : {On}, auto : {FALSE}, big : {TRUE}]

\* A score two of whose levels have the same label.
MCRequestTwins == Requests({<<ScoreOf(<<"ok", "bad", "ok">>)>>}, {NoGating, On}, BOOLEAN)

R(conf, margin, energy, bimodal) ==
  [conf |-> conf, margin |-> margin, energy |-> energy, bimodal |-> bimodal]

\* On both sides of the thresholds, within and without the tolerance: choices
\* with their energy, then the answers without one.
MCReadings ==
  {R(100, 100, -12, FALSE), R(69, 70, -11, FALSE), R(70, 13, -12, FALSE),
   R(69, 69, 5, FALSE), R(33, 34, -12, FALSE), R(49, 60, -9, FALSE),
   R(20, 60, -12, FALSE),
   R(69, 69, NoEnergy, FALSE), R(49, 49, NoEnergy, FALSE), R(20, 0, NoEnergy, FALSE),
   R(70, 13, NoEnergy, FALSE), R(55, 20, NoEnergy, TRUE), R(15, 5, NoEnergy, TRUE)}

=============================================================================

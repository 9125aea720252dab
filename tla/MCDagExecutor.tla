---------------------------- MODULE MCDagExecutor ----------------------------
(***************************************************************************)
(* Instances of DagExecutor.  An accepted definition has no cycle, so its  *)
(* nodes can be numbered along the edges: the definitions here are those   *)
(* whose edges go upwards, plus some with one edge back, that validate_dag *)
(* refuses.                                                                *)
(***************************************************************************)
EXTENDS DagExecutor

Small == 3   \* nodes of the definitions of every shape
Ids   == 1..6

\* A low confidence leads elsewhere; the other rule always matches.
Low(t)    == [field |-> "confidence", node |-> NoNode, op |-> "ConfidenceLt",
              value |-> Json("num", Half), target |-> t]
Always(t) == [Low(t) EXCEPT !.op = "ConfidenceGte", !.value = Json("num", 0)]
\* The first node's answer, referred to from later nodes.
IsA(t)    == [field |-> "node.value", node |-> 1, op |-> "Eq",
              value |-> Json("text", Word("a")), target |-> t]

MCCondition == {Low(t) : t \in Ids} \union {Always(t) : t \in Ids} \union {IsA(t) : t \in Ids}

Blank == [by |-> NoNode, choice |-> NoText, noul |-> NoNumber,
          score |-> NoNumber, confidence |-> NoNumber, route |-> "auto_execute"]

MCReply ==
  {[Blank EXCEPT !.choice = Word("a"), !.confidence = 0, !.route = "fallback"],
   [Blank EXCEPT !.choice = Word("b"), !.confidence = 2 * Half],
   [Blank EXCEPT !.noul = Half]}

RuleLists(up) ==
  {<<>>} \union {<<Always(t)>> : t \in up}
  \union {<<Low(t), Always(u)>> : t, u \in up} \union {<<IsA(t)>> : t \in up}

TaskLists(up) == {<<p>> : p \in up} \union {<<p, q>> : p, q \in up}

NodesAt(n) ==
  LET up == (n+1)..Small
  IN  [type : {"Inference"}, question : {TRUE}, conditions : RuleLists(up),
       parallel : {<<>>}, join : {NoNode}]
      \union [type : {"Branch"}, question : {FALSE}, conditions : RuleLists(up),
              parallel : {<<>>}, join : {NoNode}]
      \union [type : {"Parallel"}, question : {FALSE}, conditions : {<<>>},
              parallel : TaskLists(up), join : up]
      \union [type : {"Escalate"}, question : {FALSE}, conditions : {<<>>},
              parallel : {<<>>}, join : {NoNode}]

\* Every accepted definition of three nodes, and those whose last node leads
\* back to the first.
SmallDags ==
  LET ok == {d \in {[entry |-> 1, nodes |-> <<a, b, c>>] :
                       a \in NodesAt(1), b \in NodesAt(2), c \in NodesAt(3)} : ValidDag(d)}
  IN  ok \union {[d EXCEPT !.nodes[3].conditions = <<Always(1)>>] :
                   d \in {e \in ok : TypeIs(e, 3, "Branch") /\ ~ TypeIs(e, 1, "Branch")}}

-----------------------------------------------------------------------------
(* Longer walks, of six nodes: a question, a fan-out or a branch, a join that
   asks, branches or fans out again, and an escalation or a last question. *)
Rules(t, cs)   == [type |-> t, question |-> t = "Inference", conditions |-> cs,
                   parallel |-> <<>>, join |-> NoNode]
FanOut(ps, j)  == [type |-> "Parallel", question |-> FALSE, conditions |-> <<>>,
                   parallel |-> ps, join |-> j]

First  == {Rules("Inference", cs) : cs \in {<<Always(2)>>, <<Low(6), Always(2)>>}}
Second == {FanOut(ps, 5) : ps \in {<<3>>, <<3, 3>>, <<3, 4>>}}
          \union {Rules("Branch", <<Low(5), Always(6)>>)}
Joins  == {Rules(t, cs) : t \in {"Branch", "Inference"}, cs \in {<<Low(6)>>, <<IsA(6)>>}}
          \union {FanOut(<<4>>, 6)}
Ends   == {Rules("Escalate", <<>>), Rules("Inference", <<>>)}

LongDags ==
  {d \in {[entry |-> 1, nodes |-> <<a, b, Rules("Inference", <<>>), Rules("Inference", <<>>), c, e>>] :
            a \in First, b \in Second, c \in Joins, e \in Ends} : ValidDag(d)}

MCDags == SmallDags \union LongDags
=============================================================================

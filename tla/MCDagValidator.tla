--------------------------- MODULE MCDagValidator ---------------------------
(* Instances of DagValidator: every definition over a few identifiers. *)
EXTENDS DagValidator


Ids == 1..3

MCCondition == [target : Ids]

\* Lists of at most n elements of S.
UpTo(S, n) == UNION {[1..k -> S] : k \in 0..n}

\* At most n conditions, with targets in ids.
Conds(ids, n) == UpTo([target : ids], n)

Rule(type, conds) ==
  [type : {type}, question : {type = "Inference"}, conditions : conds,
   parallel : {<<>>}, join : {NoNode}]

\* Nodes over ids as a client writes them when it makes no slip.
GoodNode(ids) ==
  Rule("Inference", Conds(ids, 1)) \union Rule("Branch", Conds(ids, 2))
  \union Rule("Escalate", {<<>>})
  \union [type : {"Parallel"}, question : {FALSE}, conditions : {<<>>},
          parallel : UpTo(ids, 2) \ {<<>>}, join : ids]

\* The slips: a question, a join node or the tasks forgotten, conditions where
\* they are ignored or refused.
AnyNode(ids) ==
  GoodNode(ids)
  \union [type : {"Inference"}, question : BOOLEAN, conditions : Conds(ids, 1),
          parallel : {<<>>}, join : {NoNode}]
  \union [type : {"Parallel"}, question : {FALSE}, conditions : Conds(ids, 1),
          parallel : UpTo(ids, 1), join : ids \union {NoNode}]
  \union Rule("Escalate", Conds(ids, 1))

\* Two identifiers, of which any may be missing: every slip.
Slips == UNION {[entry : 1..2, nodes : [ids -> AnyNode(1..2)]] : ids \in SUBSET (1..2)}

\* Three nodes and no slip, the entry being the first (any other is the same
\* up to the names).
Shapes == [entry : {1}, nodes : [Ids -> GoodNode(Ids)]]

MCDags == Slips \union Shapes
=============================================================================

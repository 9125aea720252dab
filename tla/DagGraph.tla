------------------------------ MODULE DagGraph ------------------------------
(***************************************************************************)
(* The declarative DAG a client submits (crates/sokuto-runtime/src/dag/    *)
(* schema.rs) and the graph validate_dag builds of it (validator.rs).      *)
(*                                                                         *)
(* A definition is a record: entry is the entry_node, and nodes maps the   *)
(* identifiers of the IndexMap to their nodes.  A node keeps what steers   *)
(* the control: its type, whether it has a question, its conditions (in    *)
(* order), its parallel_nodes (in order) and its join_node.  The texts     *)
(* (questions, reasons, dag_id) are abstracted.                            *)
(***************************************************************************)
EXTENDS Naturals, Sequences, FiniteSets

CONSTANTS NodeId,      \* the identifiers a definition may mention
          NoNode,      \* Option::None for an identifier
          Condition    \* the transition rules, records with a target field

ASSUME NoNodeAssumption == NoNode \notin NodeId
ASSUME ConditionAssumption == \A c \in Condition : c.target \in NodeId

NodeType == {"Inference", "Branch", "Parallel", "Escalate"}

Node == [type       : NodeType,
         question   : BOOLEAN,
         conditions : Seq(Condition),
         parallel   : Seq(NodeId),
         join       : NodeId \union {NoNode}]

\* Any definition the request schema deserializes to: the references it makes
\* may be dangling, the map of nodes may be empty.
IsDag(d) == /\ d = [entry |-> d.entry, nodes |-> d.nodes]
            /\ d.entry \in NodeId
            /\ DOMAIN d.nodes \subseteq NodeId
            /\ IsFiniteSet(DOMAIN d.nodes)
            /\ d.nodes \in [DOMAIN d.nodes -> Node]

Nodes(d) == DOMAIN d.nodes

\* The elements of a list, whatever their order (Range is SequencesExt's).
Elems(s) == {s[i] : i \in DOMAIN s}

Targets(d, n)  == {c.target : c \in Elems(d.nodes[n].conditions)}
Tasks(d, n)    == Elems(d.nodes[n].parallel)
TypeIs(d, n, t) == d.nodes[n].type = t

-----------------------------------------------------------------------------
\* The parallel nodes that fan out to n.
FanOuts(d, n) == {q \in Nodes(d) : TypeIs(d, q, "Parallel") /\ n \in Tasks(d, q)}

\* Mutation of Adj: the edges from the tasks to the join node forgotten.
AdjNoJoin(d, n) ==
  IF d.nodes[n].type \in {"Inference", "Branch"} THEN Targets(d, n)
  ELSE IF TypeIs(d, n, "Parallel") THEN Tasks(d, n)
  ELSE {}

\* The adjacency lists of the validator, as sets.  A parallel node has no edge
\* of its own to its join node: the edge leaves from each of its tasks.
Adj(d, n) ==
  (IF d.nodes[n].type \in {"Inference", "Branch"} THEN Targets(d, n)
   ELSE IF TypeIs(d, n, "Parallel") THEN Tasks(d, n)
   ELSE {})
  \union ({d.nodes[q].join : q \in FanOuts(d, n)} \ {NoNode})

-----------------------------------------------------------------------------
\* The checks on one node, in the order of validate_dag; "ok" when it passes.

TaskSpecOk(d, p) == /\ TypeIs(d, p, "Inference")
                    /\ d.nodes[p].conditions = <<>>
                    /\ d.nodes[p].question

ParallelError(d, n) ==
  LET node == d.nodes[n]
      bad  == {i \in DOMAIN node.parallel :
                 \/ node.parallel[i] \notin Nodes(d)
                 \/ ~ TaskSpecOk(d, node.parallel[i])}
  IN  IF node.parallel = <<>> \/ node.join = NoNode THEN "InvalidNodeSpec"
      ELSE IF node.join \notin Nodes(d) THEN "TargetNodeNotFound"
      ELSE IF bad = {} THEN "ok"
      ELSE LET first == CHOOSE i \in bad : \A j \in bad : i <= j
           IN  IF node.parallel[first] \in Nodes(d)
                 THEN "InvalidNodeSpec" ELSE "TargetNodeNotFound"

TypeError(d, n) ==
  IF TypeIs(d, n, "Inference")
    THEN IF d.nodes[n].question THEN "ok" ELSE "InvalidNodeSpec"
  ELSE IF TypeIs(d, n, "Parallel") THEN ParallelError(d, n)
  ELSE "ok"

NodeError(d, n) ==
  IF TypeError(d, n) # "ok" THEN TypeError(d, n)
  ELSE IF Targets(d, n) \subseteq Nodes(d) THEN "ok"
  ELSE "TargetNodeNotFound"

-----------------------------------------------------------------------------
(* Reference notions: what the rest of the program relies on. *)

\* What the executor may run next, once it has run n: the target of a
\* condition, the tasks and then the join node of a parallel node, and after a
\* task the join node of the parallel node it was run for.
After(d, n) ==
  CASE d.nodes[n].type = "Branch" -> Targets(d, n)
    [] d.nodes[n].type = "Inference" ->
         Targets(d, n) \union {d.nodes[q].join : q \in FanOuts(d, n)}
    [] d.nodes[n].type = "Parallel" -> Tasks(d, n) \union {d.nodes[n].join}
    [] d.nodes[n].type = "Escalate" -> {}

\* Where the walk goes from n: to the target of a condition, or to the join
\* node.
NextNodes(d, n) ==
  CASE d.nodes[n].type \in {"Inference", "Branch"} -> Targets(d, n)
    [] d.nodes[n].type = "Parallel" -> {d.nodes[n].join}
    [] d.nodes[n].type = "Escalate" -> {}

\* Every set of nodes has one whose successors are all outside the set: for a
\* finite graph, that it has no cycle.  Stated this way it needs no recursion.
Acyclic(d) ==
  \A S \in SUBSET Nodes(d) :
     S # {} => \E n \in S : After(d, n) \intersect S = {}

\* Every reference the executor dereferences leads to a node it can run.
WellFormed(d) ==
  /\ d.entry \in Nodes(d)
  /\ \A n \in Nodes(d) :
       /\ Targets(d, n) \subseteq Nodes(d)
       /\ TypeIs(d, n, "Inference") => d.nodes[n].question
       /\ TypeIs(d, n, "Parallel") =>
            /\ d.nodes[n].parallel # <<>>
            /\ d.nodes[n].join \in Nodes(d)
            /\ \A p \in Tasks(d, n) :
                 /\ p \in Nodes(d)
                 /\ TypeIs(d, p, "Inference")
                 /\ d.nodes[p].question /\ d.nodes[p].conditions = <<>>

\* What a definition must be for the executor to run it (validate_dag is Ok).
ValidDag(d) == WellFormed(d) /\ Acyclic(d)

\* The nodes the entry leads to: those in every set that holds the entry and
\* is closed under what may run next.
ReachableFrom(d, entry) ==
  {n \in Nodes(d) :
     \A S \in SUBSET Nodes(d) :
        (entry \in S /\ \A m \in S : After(d, m) \subseteq S) => n \in S}
=============================================================================

------------------------------- MODULE DagWalk -------------------------------
(***************************************************************************)
(* What running a DAG promises its caller, whatever happens to the tasks   *)
(* in between: one walk along the rules of the definition, that visits no  *)
(* node twice, and one result.  The result is an escalation exactly when   *)
(* the walk ended on an Escalate node.                                     *)
(***************************************************************************)
EXTENDS DagGraph

CONSTANT Dags

VARIABLES dag,      \* the definition
          visited,  \* the nodes of the walk, in order
          result    \* "none", "completed", "escalated" or "error"

vars == <<dag, visited, result>>

Last == visited[Len(visited)]

Init == dag \in Dags /\ visited = <<>> /\ result = "none"

Visit(n) ==
  /\ result = "none"
  /\ IF visited = <<>> THEN n = dag.entry ELSE n \in NextNodes(dag, Last)
  /\ n \notin Elems(visited)
  /\ visited' = Append(visited, n)
  /\ UNCHANGED <<dag, result>>

Report ==
  /\ result = "none" /\ visited # <<>>
  /\ result' = IF TypeIs(dag, Last, "Escalate") THEN "escalated" ELSE "completed"
  /\ UNCHANGED <<dag, visited>>

Fail == result = "none" /\ result' = "error" /\ UNCHANGED <<dag, visited>>

Next == (\E n \in NodeId : Visit(n)) \/ Report \/ Fail

Spec == Init /\ [][Next]_vars
=============================================================================

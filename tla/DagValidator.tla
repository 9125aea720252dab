---------------------------- MODULE DagValidator ----------------------------
(***************************************************************************)
(* validate_dag (crates/sokuto-runtime/src/dag/validator.rs): the static   *)
(* check of a submitted definition.  Three passes, each stopping at the    *)
(* first error: the nodes one by one, a depth-first search with three      *)
(* colours for cycles, and a worklist for the nodes the entry cannot       *)
(* reach, which are only logged.                                           *)
(*                                                                         *)
(* The iteration orders of the code (of the node map, of the adjacency     *)
(* lists) depend on the request; here every order is possible.             *)
(***************************************************************************)
EXTENDS DagRequest

VARIABLES
  pass,       \* "nodes" | "dfs" | "reach" | "done"
  unchecked,  \* nodes the first pass has not reached
  color,      \* 0 white, 1 grey (on the stack), 2 black
  stack,      \* path_stack: the recursion of dfs
  cycle,      \* the path CycleDetected reports, <<>> when there is none
  reachable,  \* the third pass: nodes found ...
  queue,      \* ... and those still to expand
  warned,     \* nodes named in the warning
  verdict     \* "pending", "ok" or the name of the DagValidationError

validatorVars == <<dag, pass, unchecked, color, stack, cycle, reachable, queue, warned,
          verdict>>

White == 0
Grey  == 1
Black == 2

Errors == {"EmptyNodes", "EntryNodeNotFound", "InvalidNodeSpec",
           "TargetNodeNotFound", "CycleDetected"}

Colored(c) == {n \in Nodes(dag) : color[n] = c}
Top == stack[Len(stack)]

ValidatorInit ==
  /\ dag \in Dags
  /\ pass = "nodes"
  /\ unchecked = Nodes(dag)
  /\ color = [n \in Nodes(dag) |-> White]
  /\ stack = <<>>
  /\ cycle = <<>>
  /\ reachable = {}
  /\ queue = {}
  /\ warned = {}
  /\ verdict = "pending"

Reject(e) == verdict' = e /\ pass' = "done"

-----------------------------------------------------------------------------
\* The two early returns, before any node is looked at.
CheckShape ==
  /\ pass = "nodes" /\ unchecked = Nodes(dag)
  /\ dag.entry \notin Nodes(dag)
  /\ Reject(IF Nodes(dag) = {} THEN "EmptyNodes" ELSE "EntryNodeNotFound")
  /\ UNCHANGED <<dag, unchecked, color, stack, cycle, reachable, queue, warned>>

\* One turn of the loop over the nodes.
CheckNode(n) ==
  /\ pass = "nodes" /\ n \in unchecked
  /\ dag.entry \in Nodes(dag)
  /\ IF NodeError(dag, n) = "ok"
       THEN /\ unchecked' = unchecked \ {n}
            /\ pass' = IF unchecked' = {} THEN "dfs" ELSE pass
            /\ UNCHANGED verdict
       ELSE Reject(NodeError(dag, n)) /\ UNCHANGED unchecked
  /\ UNCHANGED <<dag, color, stack, cycle, reachable, queue, warned>>

\* dfs(u): colour u grey and push it on path_stack.
Enter(u) ==
  /\ color' = [color EXCEPT ![u] = Grey]
  /\ stack' = Append(stack, u)
  /\ UNCHANGED <<dag, pass, unchecked, cycle, reachable, queue, warned, verdict>>

DfsRoot(u) ==
  /\ pass = "dfs" /\ stack = <<>>
  /\ u \in Colored(White)
  /\ Enter(u)

DfsDescend(v) ==
  /\ pass = "dfs" /\ stack # <<>>
  /\ v \in Adj(dag, Top) /\ color[v] = White
  /\ Enter(v)

\* Where v is on path_stack.
Position(v) == CHOOSE i \in DOMAIN stack : stack[i] = v

\* The part of path_stack from v on, closed by v.
CyclePath(v) == Append(SubSeq(stack, Position(v), Len(stack)), v)

\* A grey neighbour: the search has come back to an open node.
DfsCycle(v) ==
  /\ pass = "dfs" /\ stack # <<>>
  /\ v \in Adj(dag, Top) /\ color[v] = Grey
  /\ cycle' = CyclePath(v)
  /\ Reject("CycleDetected")
  /\ UNCHANGED <<dag, unchecked, color, stack, reachable, queue, warned>>

\* Mutation of DfsLeave: the node is forgotten instead of closed.
DfsLeaveReset ==
  /\ pass = "dfs" /\ stack # <<>>
  /\ \A v \in Adj(dag, Top) : color[v] # Grey
  /\ color' = [color EXCEPT ![Top] = White]
  /\ stack' = SubSeq(stack, 1, Len(stack) - 1)
  /\ UNCHANGED <<dag, pass, unchecked, cycle, reachable, queue, warned, verdict>>

\* All neighbours done: path_stack.pop(), and u is black.
DfsLeave ==
  /\ pass = "dfs" /\ stack # <<>>
  /\ \A v \in Adj(dag, Top) : color[v] = Black
  /\ color' = [color EXCEPT ![Top] = Black]
  /\ stack' = SubSeq(stack, 1, Len(stack) - 1)
  /\ UNCHANGED <<dag, pass, unchecked, cycle, reachable, queue, warned, verdict>>

\* Every node is black: the reachability pass starts from the entry.
DfsDone ==
  /\ pass = "dfs" /\ stack = <<>> /\ Colored(White) = {}
  /\ pass' = "reach"
  /\ reachable' = {dag.entry}
  /\ queue' = {dag.entry}
  /\ UNCHANGED <<dag, unchecked, color, stack, cycle, warned, verdict>>

\* One node taken off the worklist; its new neighbours join it.
Expand(n) ==
  /\ pass = "reach" /\ n \in queue
  /\ reachable' = reachable \union Adj(dag, n)
  /\ queue' = (queue \ {n}) \union (Adj(dag, n) \ reachable)
  /\ UNCHANGED <<dag, pass, unchecked, color, stack, cycle, warned, verdict>>

\* Unreachable nodes are only logged: the definition is accepted all the same.
Accept ==
  /\ pass = "reach" /\ queue = {}
  /\ warned' = Nodes(dag) \ reachable
  /\ verdict' = "ok"
  /\ pass' = "done"
  /\ UNCHANGED <<dag, unchecked, color, stack, cycle, reachable, queue>>

\* validate_dag has returned.
Returned == pass = "done" /\ UNCHANGED validatorVars

ValidatorNext ==
  \/ CheckShape
  \/ \E n \in NodeId : CheckNode(n)
  \/ \E u \in NodeId : DfsRoot(u)
  \/ \E v \in NodeId : DfsDescend(v)
  \/ \E v \in NodeId : DfsCycle(v)
  \/ DfsLeave
  \/ DfsDone
  \/ \E n \in NodeId : Expand(n)
  \/ Accept
  \/ Returned

\* A plain sequential function: it runs on until it returns.
ValidatorSpec == ValidatorInit /\ [][ValidatorNext]_validatorVars /\ WF_validatorVars(ValidatorNext)

-----------------------------------------------------------------------------
(* Properties *)

\* Shape of the state, with the bookkeeping of the recursion: the grey nodes
\* are those on path_stack, each once.
ValidatorTypeOK ==
  /\ dag \in Dags
  /\ pass \in {"nodes", "dfs", "reach", "done"}
  /\ unchecked \subseteq Nodes(dag)
  /\ color \in [Nodes(dag) -> {White, Grey, Black}]
  /\ stack \in Seq(Nodes(dag))
  /\ cycle \in Seq(Nodes(dag))
  /\ reachable \subseteq Nodes(dag)
  /\ queue \subseteq reachable
  /\ warned \subseteq Nodes(dag)
  /\ verdict \in Errors \union {"pending", "ok"}

\* validator.rs:3-4,58: a definition that passes has no cycle, so that the
\* walk of the executor ends: the edges that run from a parallel task to the
\* join node of its parent are what makes this true of joins.
AcceptedIsAcyclic == verdict = "ok" => Acyclic(dag)

\* validator.rs:52-55: a definition that passes holds no dangling reference
\* and no node the executor could not run.
AcceptedIsWellFormed == verdict = "ok" => WellFormed(dag)

\* validator.rs:195-199: the reported cycle is one: it ends where it started
\* and each node may follow the one before (so a definition without a cycle is
\* never rejected for one).
ReportedCycleIsReal ==
  verdict = "CycleDetected" =>
    /\ Len(cycle) >= 2
    /\ cycle[1] = cycle[Len(cycle)]
    /\ \A i \in 1..(Len(cycle) - 1) : cycle[i+1] \in After(dag, cycle[i])

\* validator.rs:182-209: the recursion is never deeper than the definition has
\* nodes, and no node is entered while it is still open.
RecursionBounded ==
  /\ Len(stack) <= Cardinality(Nodes(dag))
  /\ Elems(stack) = Colored(Grey)
  /\ \A i, j \in DOMAIN stack : stack[i] = stack[j] => i = j

\* validator.rs:218-246: the warning names the unreachable nodes, all of them
\* and no other.
WarnsExactlyUnreachable ==
  verdict = "ok" => warned = Nodes(dag) \ ReachableFrom(dag, dag.entry)

\* validator.rs:58-249: the search decides what the executor relies on (ValidDag):
\* no definition that could be walked is refused, and no other is accepted.
DecidesValidDag == pass = "done" => (verdict = "ok" <=> ValidDag(dag))

\* validator.rs:58-249: what the caller is told is true of the definition: accepted,
\* it can be walked to an end and has the unreachable nodes that are named; rejected
\* for a cycle, it has that cycle; and the recursion that found out was bounded.
VerdictIsRight ==
  /\ AcceptedIsAcyclic /\ AcceptedIsWellFormed /\ WarnsExactlyUnreachable
  /\ ReportedCycleIsReal /\ RecursionBounded /\ DecidesValidDag

\* Every definition that is not rejected for its shape gets its answer.
ValidationReturns == <>(pass = "done")
=============================================================================

------------------------------ MODULE DagProofs ------------------------------
(***************************************************************************)
(* Proofs about DagValidator and DagExecutor, for any set of definitions   *)
(* and any limit, and about the rules of DagRules, for any numbers and     *)
(* texts.                                                                  *)
(*                                                                         *)
(* The validator: that an accepted definition has no cycle rests on what   *)
(* the black nodes are: they lead to black nodes only, and they hold no    *)
(* cycle.  A node that turns black has black successors, so it is on none. *)
(*                                                                         *)
(* The walk rests on one fact: every node recorded so far comes before the *)
(* node the walk is at, in the order of an accepted definition.  So the    *)
(* walk never comes back, and no record is ever overwritten.               *)
(***************************************************************************)
EXTENDS DagExecutor, DagRules, DagValidator, FiniteSetTheorems, WellFoundedInduction, TLAPS

-----------------------------------------------------------------------------
(* Lemmas about definitions: what the checks on the nodes amount to, and   *)
(* that the adjacency lists of the search, which leave out the edge from a *)
(* parallel node to its join node, have the cycles and the closed sets of  *)
(* the edges the executor follows.                                         *)

\* Acyclic, for the adjacency lists and the nodes of T.
AdjAcyclic(d, T) ==
  \A S \in SUBSET T : S # {} => \E n \in S : Adj(d, n) \intersect S = {}

AfterClosed(d, S) == \A n \in S : After(d, n) \subseteq S
AdjClosed(d, S)   == \A n \in S : Adj(d, n) \subseteq S

LEMMA NodeFields ==
  ASSUME NEW d, IsDag(d), NEW n \in Nodes(d)
  PROVE  /\ d.nodes[n].type \in NodeType
         /\ d.nodes[n].conditions \in Seq(Condition)
         /\ d.nodes[n].parallel \in Seq(NodeId)
         /\ d.nodes[n].join \in NodeId \union {NoNode}
BY DEF IsDag, Nodes, Node

(* A definition whose nodes pass every check holds no dangling reference. *)
LEMMA ChecksMeanWellFormed ==
  ASSUME NEW d, IsDag(d), d.entry \in Nodes(d),
         \A n \in Nodes(d) : NodeError(d, n) = "ok"
  PROVE  WellFormed(d)
<1>1. ASSUME NEW n \in Nodes(d)
      PROVE  TypeError(d, n) = "ok" /\ Targets(d, n) \subseteq Nodes(d)
  BY DEF NodeError
<1>2. ASSUME NEW n \in Nodes(d), TypeIs(d, n, "Inference")
      PROVE  d.nodes[n].question
  BY <1>1, <1>2 DEF TypeError
<1>3. ASSUME NEW n \in Nodes(d), TypeIs(d, n, "Parallel")
      PROVE  /\ d.nodes[n].parallel # <<>>
             /\ d.nodes[n].join \in Nodes(d)
             /\ \A p \in Tasks(d, n) : p \in Nodes(d) /\ TaskSpecOk(d, p)
  <2>1. ParallelError(d, n) = "ok"
    BY <1>1, <1>3 DEF TypeError, TypeIs
  <2>2. d.nodes[n].parallel # <<>> /\ d.nodes[n].join \in Nodes(d)
    BY <2>1 DEF ParallelError
  <2>3. \A i \in DOMAIN d.nodes[n].parallel :
          d.nodes[n].parallel[i] \in Nodes(d) /\ TaskSpecOk(d, d.nodes[n].parallel[i])
    BY <2>1, Zenon DEF ParallelError
  <2>4. QED
    BY <2>2, <2>3 DEF Tasks, Elems
<1>4. QED
  BY <1>1, <1>2, <1>3 DEF WellFormed, TaskSpecOk

(* Each edge of the adjacency lists is one the executor may follow ... *)
LEMMA AdjIsAfter ==
  ASSUME NEW d, IsDag(d), WellFormed(d), NEW n \in Nodes(d)
  PROVE  Adj(d, n) \subseteq After(d, n) /\ Adj(d, n) \subseteq Nodes(d)
<1>1. d.nodes[n].type \in NodeType
  BY NodeFields
<1>2. \A q \in FanOuts(d, n) : q \in Nodes(d) /\ TypeIs(d, q, "Parallel") /\ n \in Tasks(d, q)
  BY DEF FanOuts
<1>3. FanOuts(d, n) # {} => TypeIs(d, n, "Inference")
  BY <1>2 DEF WellFormed
<1>4. \A q \in FanOuts(d, n) : d.nodes[q].join \in Nodes(d)
  BY <1>2 DEF WellFormed
<1>5. TypeIs(d, n, "Parallel") => Tasks(d, n) \subseteq Nodes(d)
  BY DEF WellFormed
<1>6. Targets(d, n) \subseteq Nodes(d)
  BY DEF WellFormed
<1>7. QED
  BY <1>1, <1>3, <1>4, <1>5, <1>6 DEF Adj, After, NodeType, TypeIs

(* ... and each edge the executor may follow is one of the adjacency lists, *)
(* but those to a join node, which lead through every task.                 *)
LEMMA AfterIsAdj ==
  ASSUME NEW d, IsDag(d), WellFormed(d), NEW n \in Nodes(d)
  PROVE  /\ ~ TypeIs(d, n, "Parallel") => After(d, n) \subseteq Adj(d, n)
         /\ TypeIs(d, n, "Parallel") =>
              /\ After(d, n) = Tasks(d, n) \union {d.nodes[n].join}
              /\ Tasks(d, n) \subseteq Adj(d, n)
              /\ Tasks(d, n) # {}
              /\ \A p \in Tasks(d, n) : p \in Nodes(d) /\ d.nodes[n].join \in Adj(d, p)
<1>1. d.nodes[n].type \in NodeType
  BY NodeFields
<1>2. \A q \in FanOuts(d, n) : d.nodes[q].join # NoNode
  <2>1. \A q \in Nodes(d) : q \in NodeId
    BY DEF IsDag, Nodes
  <2>2. QED
    BY <2>1, NoNodeAssumption DEF FanOuts, WellFormed
<1>3. ~ TypeIs(d, n, "Parallel") => After(d, n) \subseteq Adj(d, n)
  BY <1>1, <1>2 DEF Adj, After, NodeType, TypeIs
<1>4. ASSUME TypeIs(d, n, "Parallel")
      PROVE  /\ After(d, n) = Tasks(d, n) \union {d.nodes[n].join}
             /\ Tasks(d, n) \subseteq Adj(d, n)
             /\ Tasks(d, n) # {}
             /\ \A p \in Tasks(d, n) : p \in Nodes(d) /\ d.nodes[n].join \in Adj(d, p)
  <2>1. /\ After(d, n) = Tasks(d, n) \union {d.nodes[n].join}
        /\ Tasks(d, n) \subseteq Adj(d, n)
    BY <1>4 DEF After, Adj, TypeIs
  <2>2. Tasks(d, n) # {}
    <3>1. d.nodes[n].parallel \in Seq(NodeId) /\ d.nodes[n].parallel # <<>>
      BY <1>4, NodeFields DEF WellFormed
    <3>2. 1 \in DOMAIN d.nodes[n].parallel
      BY <3>1
    <3>3. QED
      BY <3>2 DEF Tasks, Elems
  <2>3. ASSUME NEW p \in Tasks(d, n)
        PROVE  p \in Nodes(d) /\ d.nodes[n].join \in Adj(d, p)
    <3>1. p \in Nodes(d) /\ d.nodes[n].join \in Nodes(d)
      BY <1>4, <2>3 DEF WellFormed
    <3>2. d.nodes[n].join # NoNode /\ n \in FanOuts(d, p)
      BY <1>4, <2>3, <3>1, NoNodeAssumption DEF IsDag, Nodes, FanOuts
    <3>3. QED
      BY <3>1, <3>2 DEF Adj
  <2>4. QED
    BY <2>1, <2>2, <2>3
<1>5. QED
  BY <1>3, <1>4

(* No cycle in the adjacency lists: no cycle in what the executor follows.  *)
(* A set in which every node had a successor would stay one when the tasks  *)
(* between its parallel nodes and their join nodes are put into it.         *)
LEMMA AdjAcyclicMeansAcyclic ==
  ASSUME NEW d, IsDag(d), WellFormed(d), AdjAcyclic(d, Nodes(d))
  PROVE  Acyclic(d)
<1> SUFFICES ASSUME NEW S \in SUBSET Nodes(d), S # {}
             PROVE  \E n \in S : After(d, n) \intersect S = {}
  BY DEF Acyclic
<1> DEFINE between == {p \in Nodes(d) : \E q \in S : /\ TypeIs(d, q, "Parallel")
                                                    /\ p \in Tasks(d, q)
                                                    /\ d.nodes[q].join \in S}
           T == S \union between
<1>1. PICK n \in T : Adj(d, n) \intersect T = {}
  <2>1. T \in SUBSET Nodes(d) /\ T # {}
    OBVIOUS
  <2> HIDE DEF T
  <2>2. QED
    BY <2>1 DEF AdjAcyclic
<1>2. n \in S
  <2>1. SUFFICES ASSUME n \in between PROVE FALSE
    OBVIOUS
  <2>2. PICK q \in S : /\ TypeIs(d, q, "Parallel") /\ n \in Tasks(d, q)
                       /\ d.nodes[q].join \in S
    BY <2>1
  <2>3. d.nodes[q].join \in Adj(d, n)
    BY <2>2, AfterIsAdj
  <2>4. QED
    BY <1>1, <2>2, <2>3
<1>3. CASE ~ TypeIs(d, n, "Parallel")
  BY <1>1, <1>2, <1>3, AfterIsAdj
<1>4. CASE TypeIs(d, n, "Parallel")
  <2>1. /\ After(d, n) = Tasks(d, n) \union {d.nodes[n].join}
        /\ Tasks(d, n) \subseteq Adj(d, n) /\ Tasks(d, n) # {}
        /\ Tasks(d, n) \subseteq Nodes(d)
    BY <1>2, <1>4, AfterIsAdj
  <2>2. d.nodes[n].join \notin S
    <3>1. SUFFICES ASSUME d.nodes[n].join \in S PROVE FALSE
      OBVIOUS
    <3>2. PICK p \in Tasks(d, n) : p \in Adj(d, n) /\ p \in Nodes(d)
      BY <2>1
    <3>3. p \in between
      BY <1>2, <1>4, <3>1, <3>2
    <3>4. QED
      BY <1>1, <3>2, <3>3
  <2>3. QED
    BY <1>1, <1>2, <2>1, <2>2
<1>5. QED
  BY <1>3, <1>4

(* A set of nodes is closed under the one exactly when under the other. *)
LEMMA SameClosedSets ==
  ASSUME NEW d, IsDag(d), WellFormed(d), NEW S \in SUBSET Nodes(d)
  PROVE  AdjClosed(d, S) <=> AfterClosed(d, S)
<1>1. ASSUME AfterClosed(d, S)
      PROVE  AdjClosed(d, S)
  BY <1>1, AdjIsAfter DEF AdjClosed, AfterClosed
<1>2. ASSUME AdjClosed(d, S), NEW n \in S
      PROVE  After(d, n) \subseteq S
  <2>1. CASE ~ TypeIs(d, n, "Parallel")
    BY <1>2, <2>1, AfterIsAdj DEF AdjClosed
  <2>2. CASE TypeIs(d, n, "Parallel")
    <3>1. PICK p \in Tasks(d, n) : p \in S /\ d.nodes[n].join \in Adj(d, p)
      BY <1>2, <2>2, AfterIsAdj DEF AdjClosed
    <3>2. d.nodes[n].join \in S /\ Tasks(d, n) \subseteq S
      BY <1>2, <2>2, <3>1, AfterIsAdj DEF AdjClosed
    <3>3. QED
      BY <2>2, <3>2, AfterIsAdj
  <2>3. QED
    BY <2>1, <2>2
<1>3. QED
  BY <1>1, <1>2 DEF AfterClosed

-----------------------------------------------------------------------------
(* The inductive invariant. *)

\* The nodes looked at passed; the search starts when all of them have.
Checked ==
  /\ \A n \in Nodes(dag) \ unchecked : NodeError(dag, n) = "ok"
  /\ unchecked # Nodes(dag) => dag.entry \in Nodes(dag)
  /\ pass \in {"dfs", "reach"} \/ verdict \in {"ok", "CycleDetected"} =>
       unchecked = {} /\ dag.entry \in Nodes(dag)
  /\ verdict = "pending" <=> pass # "done"

\* path_stack is a path of the grey nodes, and the black nodes are settled.
Search ==
  /\ Elems(stack) = Colored(Grey)
  /\ \A i, j \in DOMAIN stack : stack[i] = stack[j] => i = j
  /\ \A i \in 1..(Len(stack) - 1) : stack[i+1] \in Adj(dag, stack[i])
  /\ \A n \in Colored(Black) : Adj(dag, n) \subseteq Colored(Black)
  /\ AdjAcyclic(dag, Colored(Black))
  /\ pass = "reach" \/ verdict = "ok" => Colored(Black) = Nodes(dag)

\* The reported cycle follows the adjacency lists.
Reported ==
  verdict = "CycleDetected" =>
    /\ Len(cycle) >= 2
    /\ cycle[1] = cycle[Len(cycle)]
    /\ \A i \in 1..(Len(cycle) - 1) : cycle[i+1] \in Adj(dag, cycle[i])

\* What is reachable so far is, and lacks nothing but what the worklist brings.
Reached ==
  /\ pass = "reach" \/ verdict = "ok" => dag.entry \in reachable
  /\ \A n \in reachable \ queue : Adj(dag, n) \subseteq reachable
  /\ \A S \in SUBSET Nodes(dag) :
       dag.entry \in S /\ AdjClosed(dag, S) => reachable \subseteq S
  /\ verdict = "ok" => queue = {} /\ warned = Nodes(dag) \ reachable

ValidatorInv == ValidatorTypeOK /\ Checked /\ Search /\ Reported /\ Reached

-----------------------------------------------------------------------------
LEMMA NodeErrorType ==
  ASSUME NEW d, NEW n
  PROVE  NodeError(d, n) \in {"ok", "InvalidNodeSpec", "TargetNodeNotFound"}
BY Zenon DEF NodeError, TypeError, ParallelError

LEMMA PassedIsWellFormed ==
  ASSUME ValidatorTypeOK, Checked, pass \in {"dfs", "reach"} \/ verdict \in {"ok", "CycleDetected"}
  PROVE  IsDag(dag) /\ WellFormed(dag)
BY ChecksMeanWellFormed, DagsAssumption DEF ValidatorTypeOK, Checked

LEMMA InitValidator == ValidatorInit => ValidatorInv
<1> SUFFICES ASSUME ValidatorInit PROVE ValidatorInv
  OBVIOUS
<1>1. Colored(Black) = {} /\ Colored(Grey) = {}
  BY DEF ValidatorInit, Colored, White, Grey, Black
<1>2. ValidatorTypeOK
  BY DEF ValidatorInit, ValidatorTypeOK, White
<1>3. Checked
  BY DEF ValidatorInit, Checked
<1>4. Search
  BY <1>1 DEF ValidatorInit, Search, AdjAcyclic, Elems
<1>5. Reported /\ Reached
  BY DEF ValidatorInit, Reported, Reached
<1>6. QED
  BY <1>2, <1>3, <1>4, <1>5 DEF ValidatorInv

-----------------------------------------------------------------------------
(* The first pass: nothing is coloured and nothing reached. *)
LEMMA CheckStep ==
  ASSUME ValidatorInv, CheckShape \/ \E n \in NodeId : CheckNode(n)
  PROVE  ValidatorInv'
<1> USE DEF ValidatorInv
<1>1. /\ pass = "nodes" /\ verdict = "pending"
      /\ UNCHANGED <<dag, color, stack, cycle, reachable, queue, warned>>
  BY DEF Checked, CheckShape, CheckNode
<1>2. CASE CheckShape
  <2>1. verdict' \in {"EmptyNodes", "EntryNodeNotFound"} /\ pass' = "done" /\ unchecked' = unchecked
    BY <1>2 DEF CheckShape, Reject
  <2>2. ValidatorTypeOK'
    BY <1>1, <2>1 DEF ValidatorTypeOK, Errors
  <2>3. Checked'
    BY <1>1, <2>1 DEF Checked
  <2>4. Search' /\ Reported' /\ Reached'
    BY <1>1, <2>1 DEF Search, Reported, Reached, Colored
  <2>5. QED
    BY <2>2, <2>3, <2>4
<1>3. ASSUME NEW n \in NodeId, CheckNode(n)
      PROVE  ValidatorInv'
  <2>1. n \in unchecked /\ dag.entry \in Nodes(dag)
    BY <1>3 DEF CheckNode
  <2>2. CASE NodeError(dag, n) = "ok"
    <3>1. /\ unchecked' = unchecked \ {n} /\ verdict' = verdict
          /\ pass' = IF unchecked' = {} THEN "dfs" ELSE pass
      BY <1>3, <2>2 DEF CheckNode
    <3>2. ValidatorTypeOK' /\ Checked'
      BY <1>1, <2>1, <2>2, <3>1 DEF ValidatorTypeOK, Checked
    <3>3. Search' /\ Reported' /\ Reached'
      BY <1>1, <3>1 DEF Search, Reported, Reached, Colored
    <3>4. QED
      BY <3>2, <3>3
  <2>3. CASE NodeError(dag, n) # "ok"
    <3>1. /\ verdict' \in {"InvalidNodeSpec", "TargetNodeNotFound"}
          /\ pass' = "done" /\ unchecked' = unchecked
      BY <1>3, <2>3, NodeErrorType DEF CheckNode, Reject
    <3>2. ValidatorTypeOK'
      BY <1>1, <3>1 DEF ValidatorTypeOK, Errors
    <3>3. Checked'
      BY <1>1, <3>1 DEF Checked
    <3>4. Search' /\ Reported' /\ Reached'
      BY <1>1, <3>1 DEF Search, Reported, Reached, Colored
    <3>5. QED
      BY <3>2, <3>3, <3>4
  <2>4. QED
    BY <2>2, <2>3
<1>4. QED
  BY <1>2, <1>3

(* A node is entered: it was white, and follows the top of path_stack. *)
LEMMA EnterStep ==
  ASSUME ValidatorInv, NEW u \in Nodes(dag), pass = "dfs", color[u] = White,
         stack # <<>> => u \in Adj(dag, Top),
         Enter(u)
  PROVE  ValidatorInv'
<1> USE DEF ValidatorInv
<1>1. /\ color \in [Nodes(dag) -> {White, Grey, Black}] /\ stack \in Seq(Nodes(dag))
      /\ color' = [color EXCEPT ![u] = Grey] /\ stack' = Append(stack, u)
      /\ UNCHANGED <<dag, pass, unchecked, cycle, reachable, queue, warned, verdict>>
  BY DEF ValidatorTypeOK, Enter
<1>2. /\ Colored(Grey)' = Colored(Grey) \union {u}
      /\ Colored(Black)' = Colored(Black)
      /\ u \notin Colored(Grey)
  BY <1>1 DEF Colored, White, Grey, Black
<1>3. /\ stack' \in Seq(Nodes(dag)) /\ Len(stack') = Len(stack) + 1 /\ Len(stack) \in Nat
      /\ \A i \in 1..Len(stack) : stack'[i] = stack[i]
      /\ stack'[Len(stack) + 1] = u
      /\ DOMAIN stack = 1..Len(stack) /\ DOMAIN stack' = 1..(Len(stack) + 1)
  BY <1>1
<1>4. ValidatorTypeOK' /\ Checked' /\ Reported' /\ Reached'
  BY <1>1, <1>3 DEF ValidatorTypeOK, Checked, Reported, Reached, White, Grey, Black
<1>5. Elems(stack)' = Elems(stack) \union {u}
  BY <1>3 DEF Elems
<1>6. \A i, j \in DOMAIN stack' : stack'[i] = stack'[j] => i = j
  <2>1. \A i \in DOMAIN stack : stack[i] # u
    BY <1>2 DEF Search, Elems
  <2>2. QED
    BY <1>3, <2>1 DEF Search
<1>7. \A i \in 1..(Len(stack') - 1) : stack'[i+1] \in Adj(dag, stack'[i])
  <2>1. SUFFICES ASSUME NEW i \in 1..Len(stack)
                 PROVE  stack'[i+1] \in Adj(dag, stack'[i])
    BY <1>3
  <2>2. CASE i = Len(stack)
    <3>1. stack # <<>> /\ stack'[i] = Top /\ stack'[i+1] = u
      BY <1>3, <2>1, <2>2 DEF Top
    <3>2. QED
      BY <3>1
  <2>3. CASE i # Len(stack)
    <3>1. i \in 1..(Len(stack) - 1) /\ i + 1 \in 1..Len(stack)
      <4>1. Len(stack) \in Nat
        BY <1>3
      <4> HIDE DEF ValidatorInv
      <4>2. QED
        BY <2>1, <2>3, <4>1
    <3>2. stack'[i] = stack[i] /\ stack'[i+1] = stack[i+1]
      BY <1>3, <2>1, <3>1
    <3>3. stack[i+1] \in Adj(dag, stack[i])
      BY <3>1 DEF Search
    <3>4. QED
      BY <3>2, <3>3
  <2>4. QED
    BY <2>2, <2>3
<1>8. Search'
  BY <1>1, <1>2, <1>5, <1>6, <1>7 DEF Search, Checked
<1>9. QED
  BY <1>4, <1>8

(* A grey neighbour closes a cycle along path_stack. *)
LEMMA CycleStep ==
  ASSUME ValidatorInv, NEW v, DfsCycle(v)
  PROVE  ValidatorInv'
<1> USE DEF ValidatorInv
<1>1. /\ pass = "dfs" /\ stack # <<>> /\ v \in Adj(dag, Top) /\ color[v] = Grey
      /\ cycle' = CyclePath(v) /\ verdict' = "CycleDetected" /\ pass' = "done"
      /\ UNCHANGED <<dag, unchecked, color, stack, reachable, queue, warned>>
  BY DEF DfsCycle, Reject
<1>2. IsDag(dag) /\ WellFormed(dag)
  BY <1>1, PassedIsWellFormed
<1>3. stack \in Seq(Nodes(dag)) /\ Len(stack) \in Nat \ {0} /\ Top \in Nodes(dag)
  BY <1>1 DEF ValidatorTypeOK, Top
<1>4. v \in Nodes(dag)
  BY <1>1, <1>2, <1>3, AdjIsAfter
<1>5. PICK p \in 1..Len(stack) : p = Position(v) /\ stack[p] = v
  <2>1. v \in Elems(stack)
    BY <1>1, <1>4 DEF Search, Colored
  <2>2. \E i \in DOMAIN stack : stack[i] = v
    BY <2>1 DEF Elems
  <2>3. DOMAIN stack = 1..Len(stack)
    BY <1>3
  <2>4. QED
    BY <2>2, <2>3 DEF Position
<1> DEFINE part == SubSeq(stack, p, Len(stack))
           m    == Len(stack) - p + 1
<1>6. /\ part \in Seq(Nodes(dag)) /\ Len(part) = m /\ m \in Nat \ {0}
      /\ \A i \in 1..m : part[i] = stack[p + i - 1]
  BY <1>3
<1> HIDE DEF part
<1>7. /\ cycle' \in Seq(Nodes(dag)) /\ Len(cycle') = m + 1
      /\ \A i \in 1..m : cycle'[i] = stack[p + i - 1]
      /\ cycle'[m + 1] = v
  <2>1. cycle' = Append(part, v)
    BY <1>1, <1>5 DEF CyclePath, part
  <2> HIDE DEF m, ValidatorInv
  <2>2. Append(part, v) \in Seq(Nodes(dag)) /\ Len(Append(part, v)) = m + 1
    BY <1>4, <1>6
  <2>3. \A i \in 1..m : Append(part, v)[i] = part[i]
    BY <1>4, <1>6
  <2>4. Append(part, v)[m + 1] = v
    BY <1>4, <1>6
  <2>5. QED
    BY <1>6, <2>1, <2>2, <2>3, <2>4
<1> HIDE DEF m
<1>8. Reported'
  <2>1. cycle'[1] = v /\ Len(cycle') >= 2
    <3>1. 1 \in 1..m /\ p + 1 - 1 = p /\ m + 1 >= 2
      BY <1>5, <1>6
    <3>2. cycle'[1] = stack[p + 1 - 1]
      BY <1>7, <3>1
    <3>3. QED
      BY <1>5, <1>7, <3>1, <3>2
  <2>2. ASSUME NEW i \in 1..m
        PROVE  cycle'[i+1] \in Adj(dag, cycle'[i])
    <3>1. CASE i = m
      <4>1. p + i - 1 = Len(stack)
        BY <1>3, <1>5, <3>1 DEF m
      <4>2. cycle'[i] = Top
        BY <1>7, <2>2, <4>1 DEF Top
      <4>3. cycle'[i+1] = v
        BY <1>7, <3>1
      <4>4. QED
        BY <1>1, <4>2, <4>3
    <3>2. CASE i # m
      <4>1. i + 1 \in 1..m /\ p + i - 1 \in 1..(Len(stack) - 1)
            /\ p + (i + 1) - 1 = (p + i - 1) + 1
        <5>1. Len(stack) \in Nat /\ m = Len(stack) - p + 1
          BY <1>3 DEF m
        <5> HIDE DEF ValidatorInv
        <5>2. QED
          BY <1>5, <2>2, <3>2, <5>1
      <4>2. cycle'[i] = stack[p + i - 1] /\ cycle'[i+1] = stack[(p + i - 1) + 1]
        BY <1>7, <4>1
      <4>3. QED
        BY <4>1, <4>2 DEF Search
    <3>3. QED
      BY <3>1, <3>2
  <2>3. QED
    BY <1>1, <1>6, <1>7, <2>1, <2>2 DEF Reported
<1>9. ValidatorTypeOK'
  BY <1>1, <1>7 DEF ValidatorTypeOK, Errors
<1>10. Checked' /\ Reached'
  BY <1>1 DEF Checked, Reached
<1>11. Search'
  BY <1>1 DEF Search, Colored, Checked
<1>12. QED
  BY <1>8, <1>9, <1>10, <1>11

(* The top of path_stack turns black. *)
LEMMA DfsLeaveStep ==
  ASSUME ValidatorInv, DfsLeave
  PROVE  ValidatorInv'
<1> USE DEF ValidatorInv
<1> DEFINE u == Top
           n == Len(stack)
<1>1. /\ pass = "dfs" /\ stack # <<>> /\ \A v \in Adj(dag, u) : color[v] = Black
      /\ color' = [color EXCEPT ![u] = Black] /\ stack' = SubSeq(stack, 1, n - 1)
      /\ UNCHANGED <<dag, pass, unchecked, cycle, reachable, queue, warned, verdict>>
  BY DEF DfsLeave
<1>2. /\ stack \in Seq(Nodes(dag)) /\ n \in Nat \ {0} /\ DOMAIN stack = 1..n
      /\ u = stack[n] /\ u \in Nodes(dag)
      /\ color \in [Nodes(dag) -> {White, Grey, Black}]
  BY <1>1 DEF ValidatorTypeOK, Top
<1>3. Adj(dag, u) \subseteq Nodes(dag)
  BY <1>1, <1>2, PassedIsWellFormed, AdjIsAfter
<1> HIDE DEF u, n
<1>4. u \in Colored(Grey)
  BY <1>2 DEF Search, Elems
<1>5. /\ Colored(Grey)' = Colored(Grey) \ {u}
      /\ Colored(Black)' = Colored(Black) \union {u}
      /\ u \notin Colored(Black)
      /\ Adj(dag, u) \subseteq Colored(Black)
  BY <1>1, <1>2, <1>3, <1>4 DEF Colored, White, Grey, Black
<1>6. /\ stack' \in Seq(Nodes(dag)) /\ Len(stack') = n - 1 /\ DOMAIN stack' = 1..(n-1)
      /\ \A i \in 1..(n-1) : stack'[i] = stack[i]
  BY <1>1, <1>2 DEF n
<1>7. ValidatorTypeOK' /\ Checked' /\ Reported' /\ Reached'
  BY <1>1, <1>2, <1>6 DEF ValidatorTypeOK, Checked, Reported, Reached, White, Grey, Black
<1>8. Elems(stack)' = Elems(stack) \ {u}
  <2>1. \A i \in 1..n : stack[i] = u => i = n
    BY <1>2 DEF Search
  <2>2. \A x : x \in Elems(stack)' <=> \E i \in 1..(n-1) : stack[i] = x
    BY <1>6 DEF Elems
  <2>3. \A x : x \in Elems(stack) <=> \E i \in 1..n : stack[i] = x
    BY <1>2 DEF Elems
  <2>4. \A i : i \in 1..n <=> i \in 1..(n-1) \/ i = n
    BY <1>2
  <2>5. n \notin 1..(n-1)
    BY <1>2
  <2>6. QED
    BY <1>2, <2>1, <2>2, <2>3, <2>4, <2>5
<1>9. \A i, j \in DOMAIN stack' : stack'[i] = stack'[j] => i = j
  BY <1>2, <1>6 DEF Search
<1>10. \A i \in 1..(Len(stack') - 1) : stack'[i+1] \in Adj(dag, stack'[i])
  <2>1. SUFFICES ASSUME NEW i \in 1..(n-2)
                 PROVE  stack'[i+1] \in Adj(dag, stack'[i])
    BY <1>2, <1>6
  <2>2. i \in 1..(n-1) /\ i+1 \in 1..(n-1)
    BY <1>2, <2>1
  <2>3. QED
    BY <1>6, <2>2 DEF Search, n
<1>11. AdjAcyclic(dag, Colored(Black))'
  <2>1. SUFFICES ASSUME NEW S \in SUBSET (Colored(Black) \union {u}), S # {}
                 PROVE  \E x \in S : Adj(dag, x) \intersect S = {}
    BY <1>1, <1>5 DEF AdjAcyclic
  <2>2. CASE S \ {u} = {}
    BY <1>5, <2>1, <2>2
  <2>3. CASE S \ {u} # {}
    <3>1. S \ {u} \in SUBSET Colored(Black)
      BY <2>1
    <3>2. PICK x \in S \ {u} : Adj(dag, x) \intersect (S \ {u}) = {}
      BY <2>3, <3>1 DEF Search, AdjAcyclic
    <3>3. Adj(dag, x) \subseteq Colored(Black)
      BY <3>1, <3>2 DEF Search
    <3>4. QED
      BY <1>5, <3>2, <3>3
  <2>4. QED
    BY <2>2, <2>3
<1>12. Search'
  BY <1>1, <1>5, <1>8, <1>9, <1>10, <1>11 DEF Search, Checked
<1>13. QED
  BY <1>7, <1>12

(* The search is over: nothing is grey, nothing white. *)
LEMMA DoneStep ==
  ASSUME ValidatorInv, DfsDone
  PROVE  ValidatorInv'
<1> USE DEF ValidatorInv
<1>1. /\ pass = "dfs" /\ stack = <<>> /\ Colored(White) = {}
      /\ pass' = "reach" /\ reachable' = {dag.entry} /\ queue' = {dag.entry}
      /\ UNCHANGED <<dag, unchecked, color, stack, cycle, warned, verdict>>
  BY DEF DfsDone
<1>2. Colored(Black) = Nodes(dag)
  <2>1. Colored(Grey) = {}
    BY <1>1 DEF Search, Elems
  <2>2. QED
    BY <1>1, <2>1 DEF Colored, ValidatorTypeOK
<1>3. dag.entry \in Nodes(dag) /\ verdict = "pending"
  BY <1>1 DEF Checked
<1>4. ValidatorTypeOK' /\ Checked' /\ Reported' /\ Reached'
  BY <1>1, <1>3 DEF ValidatorTypeOK, Checked, Reported, Reached
<1>5. Search'
  BY <1>1, <1>2 DEF Search, Colored
<1>6. QED
  BY <1>4, <1>5

LEMMA ExpandStep ==
  ASSUME ValidatorInv, NEW n, Expand(n)
  PROVE  ValidatorInv'
<1> USE DEF ValidatorInv
<1>1. /\ pass = "reach" /\ n \in queue
      /\ reachable' = reachable \union Adj(dag, n)
      /\ queue' = (queue \ {n}) \union (Adj(dag, n) \ reachable)
      /\ UNCHANGED <<dag, pass, unchecked, color, stack, cycle, warned, verdict>>
  BY DEF Expand
<1>2. n \in reachable /\ n \in Nodes(dag) /\ verdict = "pending"
  BY <1>1 DEF ValidatorTypeOK, Checked
<1>3. Adj(dag, n) \subseteq Nodes(dag)
  BY <1>1, <1>2, PassedIsWellFormed, AdjIsAfter
<1>4. ValidatorTypeOK' /\ Checked' /\ Reported'
  BY <1>1, <1>3 DEF ValidatorTypeOK, Checked, Reported
<1>5. Search'
  BY <1>1 DEF Search, Colored
<1>6. Reached'
  <2>1. \A m \in reachable' \ queue' : Adj(dag, m) \subseteq reachable'
    BY <1>1 DEF Reached
  <2>2. ASSUME NEW S \in SUBSET Nodes(dag), dag.entry \in S, AdjClosed(dag, S)
        PROVE  reachable' \subseteq S
    BY <1>1, <1>2, <2>2 DEF Reached, AdjClosed
  <2>3. QED
    BY <1>1, <1>2, <2>1, <2>2 DEF Reached
<1>7. QED
  BY <1>4, <1>5, <1>6

LEMMA AcceptStep ==
  ASSUME ValidatorInv, Accept
  PROVE  ValidatorInv'
<1> USE DEF ValidatorInv
<1>1. /\ pass = "reach" /\ queue = {} /\ warned' = Nodes(dag) \ reachable
      /\ verdict' = "ok" /\ pass' = "done"
      /\ UNCHANGED <<dag, unchecked, color, stack, cycle, reachable, queue>>
  BY DEF Accept
<1>2. ValidatorTypeOK' /\ Checked' /\ Reported' /\ Reached'
  BY <1>1 DEF ValidatorTypeOK, Checked, Reported, Reached
<1>3. Search'
  BY <1>1 DEF Search, Colored
<1>4. QED
  BY <1>2, <1>3

LEMMA StepValidator == ValidatorInv /\ [ValidatorNext]_validatorVars => ValidatorInv'
<1> SUFFICES ASSUME ValidatorInv, [ValidatorNext]_validatorVars PROVE ValidatorInv'
  OBVIOUS
<1>1. CASE CheckShape \/ \E n \in NodeId : CheckNode(n)
  BY <1>1, CheckStep
<1>2. ASSUME NEW u \in NodeId, DfsRoot(u)
      PROVE  ValidatorInv'
  <2>1. /\ pass = "dfs" /\ stack = <<>> /\ u \in Nodes(dag) /\ color[u] = White
        /\ Enter(u)
    BY <1>2 DEF DfsRoot, Colored
  <2>2. QED
    BY <2>1, EnterStep
<1>3. ASSUME NEW v \in NodeId, DfsDescend(v)
      PROVE  ValidatorInv'
  <2>1. /\ pass = "dfs" /\ stack # <<>> /\ v \in Adj(dag, Top) /\ color[v] = White
        /\ Enter(v)
    BY <1>3 DEF DfsDescend
  <2>2. Top \in Nodes(dag)
    BY <2>1 DEF ValidatorInv, ValidatorTypeOK, Top
  <2>3. v \in Nodes(dag)
    BY <2>1, <2>2, PassedIsWellFormed, AdjIsAfter DEF ValidatorInv
  <2>4. QED
    BY <2>1, <2>3, EnterStep
<1>4. ASSUME NEW v \in NodeId, DfsCycle(v)
      PROVE  ValidatorInv'
  BY <1>4, CycleStep
<1>5. CASE DfsLeave
  BY <1>5, DfsLeaveStep
<1>6. CASE DfsDone
  BY <1>6, DoneStep
<1>7. ASSUME NEW n \in NodeId, Expand(n)
      PROVE  ValidatorInv'
  BY <1>7, ExpandStep
<1>8. CASE Accept
  BY <1>8, AcceptStep
<1>9. CASE UNCHANGED validatorVars
  BY <1>9 DEF validatorVars, ValidatorInv, ValidatorTypeOK, Checked, Search, Reported, Reached, Colored
<1>10. QED
  BY <1>1, <1>2, <1>3, <1>4, <1>5, <1>6, <1>7, <1>8, <1>9 DEF ValidatorNext, Returned

LEMMA ValidatorInvariant == ValidatorSpec => []ValidatorInv
BY InitValidator, StepValidator, PTL DEF ValidatorSpec

-----------------------------------------------------------------------------
(* Shape of the state. *)
THEOREM ValidatorTypes == ValidatorSpec => []ValidatorTypeOK
<1>1. ValidatorInv => ValidatorTypeOK
  BY DEF ValidatorInv
<1>2. QED
  BY <1>1, ValidatorInvariant, PTL

(* What passes holds no dangling reference and no node that cannot be run. *)
THEOREM AcceptsWellFormed == ValidatorSpec => []AcceptedIsWellFormed
<1>1. ValidatorInv => AcceptedIsWellFormed
  BY PassedIsWellFormed DEF ValidatorInv, AcceptedIsWellFormed
<1>2. QED
  BY <1>1, ValidatorInvariant, PTL

(* What passes has no cycle, of any of the edges the executor follows. *)
THEOREM AcceptsAcyclic == ValidatorSpec => []AcceptedIsAcyclic
<1>1. ValidatorInv => AcceptedIsAcyclic
  <2>1. SUFFICES ASSUME ValidatorInv, verdict = "ok" PROVE Acyclic(dag)
    BY DEF AcceptedIsAcyclic
  <2>2. AdjAcyclic(dag, Nodes(dag))
    BY <2>1 DEF ValidatorInv, Search
  <2>3. QED
    BY <2>1, <2>2, PassedIsWellFormed, AdjAcyclicMeansAcyclic DEF ValidatorInv
<1>2. QED
  BY <1>1, ValidatorInvariant, PTL

(* A definition is rejected for a cycle only when it has one. *)
THEOREM ReportsRealCycles == ValidatorSpec => []ReportedCycleIsReal
<1>1. ValidatorInv => ReportedCycleIsReal
  <2>1. SUFFICES ASSUME ValidatorInv, verdict = "CycleDetected"
                 PROVE  /\ Len(cycle) >= 2
                        /\ cycle[1] = cycle[Len(cycle)]
                        /\ \A i \in 1..(Len(cycle) - 1) : cycle[i+1] \in After(dag, cycle[i])
    BY DEF ReportedCycleIsReal
  <2>2. \A i \in 1..(Len(cycle) - 1) : cycle[i] \in Nodes(dag)
    BY <2>1 DEF ValidatorInv, ValidatorTypeOK
  <2>3. QED
    BY <2>1, <2>2, PassedIsWellFormed, AdjIsAfter DEF ValidatorInv, Reported
<1>2. QED
  BY <1>1, ValidatorInvariant, PTL

(* The recursion is never deeper than the definition has nodes. *)
THEOREM BoundsRecursion == ValidatorSpec => []RecursionBounded
<1>1. ValidatorInv => RecursionBounded
  <2>1. SUFFICES ASSUME ValidatorInv PROVE Len(stack) <= Cardinality(Nodes(dag))
    BY DEF ValidatorInv, Search, RecursionBounded
  <2>2. /\ stack \in [1..Len(stack) -> Nodes(dag)] /\ Len(stack) \in Nat
        /\ DOMAIN stack = 1..Len(stack)
    BY <2>1 DEF ValidatorInv, ValidatorTypeOK
  <2>3. IsFiniteSet(Nodes(dag)) /\ Cardinality(Nodes(dag)) \in Nat
    BY <2>1, DagsAssumption, FS_CardinalityType DEF ValidatorInv, ValidatorTypeOK, IsDag, Nodes
  <2>4. IsFiniteSet(1..Len(stack)) /\ Cardinality(1..Len(stack)) = Len(stack)
    <3>1. Len(stack) \in Int /\ 1 \in Int
      BY <2>2
    <3>2. /\ IsFiniteSet(1..Len(stack))
          /\ Cardinality(1..Len(stack)) = IF 1 > Len(stack) THEN 0 ELSE Len(stack) - 1 + 1
      BY <3>1, FS_Interval
    <3>3. QED
      BY <2>2, <3>2
  <2>5. \A i, j \in 1..Len(stack) : stack[i] = stack[j] => i = j
    BY <2>1, <2>2 DEF ValidatorInv, Search
  <2>6. ~ (Cardinality(Nodes(dag)) < Cardinality(1..Len(stack)))
    BY <2>2, <2>3, <2>4, <2>5, FS_PigeonHole
  <2>7. QED
    BY <2>2, <2>3, <2>4, <2>6
<1>2. QED
  BY <1>1, ValidatorInvariant, PTL

(* A definition that can be walked passes every check on its nodes. *)
LEMMA WellFormedPasses ==
  ASSUME NEW d, IsDag(d), WellFormed(d), NEW n \in Nodes(d)
  PROVE  NodeError(d, n) = "ok"
<1>1. ASSUME TypeIs(d, n, "Parallel")
      PROVE  ParallelError(d, n) = "ok"
  <2> DEFINE bad == {i \in DOMAIN d.nodes[n].parallel :
                       \/ d.nodes[n].parallel[i] \notin Nodes(d)
                       \/ ~ TaskSpecOk(d, d.nodes[n].parallel[i])}
  <2>1. d.nodes[n].parallel # <<>> /\ d.nodes[n].join \in Nodes(d)
    BY <1>1 DEF WellFormed
  <2>2. d.nodes[n].join # NoNode
    BY <2>1, NoNodeAssumption DEF IsDag, Nodes
  <2>3. \A i \in DOMAIN d.nodes[n].parallel : d.nodes[n].parallel[i] \in Tasks(d, n)
    BY DEF Tasks, Elems
  <2>4. bad = {}
    BY <1>1, <2>3 DEF WellFormed, TaskSpecOk
  <2>5. QED
    BY <2>1, <2>2, <2>4, Zenon DEF ParallelError
<1>2. TypeError(d, n) = "ok"
  BY <1>1 DEF TypeError, WellFormed
<1>3. QED
  BY <1>2 DEF NodeError, WellFormed

(* A path that comes back to where it began lies on a cycle. *)
LEMMA ReportedMeansCyclic ==
  ASSUME ValidatorInv, verdict = "CycleDetected", ReportedCycleIsReal
  PROVE  ~ Acyclic(dag)
<1> DEFINE S == {cycle[i] : i \in DOMAIN cycle}
<1>1. /\ cycle \in Seq(Nodes(dag)) /\ Len(cycle) \in Nat /\ Len(cycle) >= 2
      /\ DOMAIN cycle = 1..Len(cycle) /\ cycle[1] = cycle[Len(cycle)]
  BY DEF ValidatorInv, ValidatorTypeOK, ReportedCycleIsReal
<1>2. \A i \in DOMAIN cycle : cycle[i] \in Nodes(dag)
  BY <1>1
<1>3. S \in SUBSET Nodes(dag) /\ S # {}
  BY <1>1, <1>2
<1>4. ASSUME NEW i \in DOMAIN cycle
      PROVE  \E k \in DOMAIN cycle : cycle[k] \in After(dag, cycle[i])
  <2>1. CASE i \in 1..(Len(cycle) - 1)
    <3>1. i + 1 \in DOMAIN cycle
      BY <1>1, <2>1
    <3>2. QED
      BY <2>1, <3>1 DEF ReportedCycleIsReal
  <2>2. CASE i = Len(cycle)
    <3>1. 1 \in 1..(Len(cycle) - 1) /\ 2 \in DOMAIN cycle /\ 1 + 1 = 2
      BY <1>1
    <3>2. cycle[2] \in After(dag, cycle[1])
      BY <3>1 DEF ReportedCycleIsReal
    <3>3. QED
      BY <1>1, <2>2, <3>1, <3>2
  <2>3. QED
    BY <1>1, <2>1, <2>2
<1>5. \A n \in S : After(dag, n) \intersect S # {}
  BY <1>4
<1> HIDE DEF S
<1>6. QED
  BY <1>3, <1>5 DEF Acyclic

\* What a definition was refused for.
Refused ==
  /\ verdict \in {"EmptyNodes", "EntryNodeNotFound"} => dag.entry \notin Nodes(dag)
  /\ verdict \in {"InvalidNodeSpec", "TargetNodeNotFound"} =>
       \E n \in Nodes(dag) : NodeError(dag, n) # "ok"

LEMMA StepRefused == ValidatorInv /\ Refused /\ [ValidatorNext]_validatorVars => Refused'
<1> SUFFICES ASSUME ValidatorInv, Refused, [ValidatorNext]_validatorVars PROVE Refused'
  OBVIOUS
<1>1. dag' = dag
  BY DEF ValidatorNext, CheckShape, CheckNode, DfsRoot, DfsDescend, Enter, DfsCycle, DfsLeave,
         DfsDone, Expand, Accept, Returned, validatorVars
<1>2. CASE CheckShape
  BY <1>1, <1>2 DEF CheckShape, Reject, Refused
<1>3. ASSUME NEW n \in NodeId, CheckNode(n)
      PROVE  Refused'
  <2>1. n \in Nodes(dag)
    BY <1>3 DEF CheckNode, ValidatorInv, ValidatorTypeOK
  <2>2. CASE NodeError(dag, n) = "ok"
    BY <1>1, <1>3, <2>2 DEF CheckNode, Refused
  <2>3. CASE NodeError(dag, n) # "ok"
    <3>1. verdict' \in {"InvalidNodeSpec", "TargetNodeNotFound"}
      BY <1>3, <2>3, NodeErrorType DEF CheckNode, Reject
    <3>2. QED
      BY <1>1, <2>1, <2>3, <3>1 DEF Refused
  <2>4. QED
    BY <2>2, <2>3
<1>4. CASE verdict' = verdict \/ verdict' \in {"ok", "CycleDetected"}
  BY <1>1, <1>4 DEF Refused
<1>5. QED
  BY <1>2, <1>3, <1>4
  DEF ValidatorNext, DfsRoot, DfsDescend, Enter, DfsCycle, Reject, DfsLeave, DfsDone, Expand,
      Accept, Returned, validatorVars

(* validator.rs:58-249: the search decides ValidDag, which the executor takes *)
(* for its verdict.                                                          *)
THEOREM DecidesWhatCanBeWalked == ValidatorSpec => []DecidesValidDag
<1>1. ValidatorInit => Refused
  BY DEF ValidatorInit, Refused
<1>2. ValidatorSpec => []Refused
  BY <1>1, ValidatorInvariant, StepRefused, PTL DEF ValidatorSpec
<1>3. ValidatorInv /\ Refused /\ AcceptedIsAcyclic /\ AcceptedIsWellFormed /\ ReportedCycleIsReal
        => DecidesValidDag
  <2> SUFFICES ASSUME ValidatorInv, Refused, AcceptedIsAcyclic, AcceptedIsWellFormed,
                      ReportedCycleIsReal, pass = "done"
               PROVE  verdict = "ok" <=> ValidDag(dag)
    BY DEF DecidesValidDag
  <2>1. verdict = "ok" => ValidDag(dag)
    BY DEF AcceptedIsAcyclic, AcceptedIsWellFormed, ValidDag
  <2>2. ASSUME verdict # "ok", ValidDag(dag)
        PROVE  FALSE
    <3>1. verdict \in Errors
      BY <2>2 DEF ValidatorInv, ValidatorTypeOK, Checked
    <3>2. CASE verdict = "CycleDetected"
      BY <2>2, <3>2, ReportedMeansCyclic DEF ValidDag
    <3>3. CASE verdict \in {"EmptyNodes", "EntryNodeNotFound"}
      BY <2>2, <3>3 DEF Refused, ValidDag, WellFormed
    <3>4. CASE verdict \in {"InvalidNodeSpec", "TargetNodeNotFound"}
      BY <2>2, <3>4, DagsAssumption, WellFormedPasses DEF Refused, ValidDag, ValidatorInv, ValidatorTypeOK
    <3>5. QED
      BY <3>1, <3>2, <3>3, <3>4 DEF Errors
  <2>3. QED
    BY <2>1, <2>2
<1>4. QED
  BY <1>2, <1>3, ValidatorInvariant, AcceptsAcyclic, AcceptsWellFormed, ReportsRealCycles, PTL

(* The warning names the unreachable nodes, all of them and no other. *)
THEOREM WarnsUnreachable == ValidatorSpec => []WarnsExactlyUnreachable
<1>1. ValidatorInv => WarnsExactlyUnreachable
  <2>1. SUFFICES ASSUME ValidatorInv, verdict = "ok"
                 PROVE  warned = Nodes(dag) \ ReachableFrom(dag, dag.entry)
    BY DEF WarnsExactlyUnreachable
  <2>2. IsDag(dag) /\ WellFormed(dag)
    BY <2>1, PassedIsWellFormed DEF ValidatorInv
  <2>3. /\ reachable \in SUBSET Nodes(dag) /\ dag.entry \in reachable
        /\ warned = Nodes(dag) \ reachable
        /\ AdjClosed(dag, reachable)
    BY <2>1 DEF ValidatorInv, ValidatorTypeOK, Reached, AdjClosed
  <2>4. \A S \in SUBSET Nodes(dag) : dag.entry \in S /\ AfterClosed(dag, S) => reachable \subseteq S
    BY <2>1, <2>2, SameClosedSets DEF ValidatorInv, Reached
  <2>5. reachable \subseteq ReachableFrom(dag, dag.entry)
    BY <2>3, <2>4 DEF ReachableFrom, AfterClosed
  <2>6. AfterClosed(dag, reachable)
    BY <2>2, <2>3, SameClosedSets
  <2>7. ReachableFrom(dag, dag.entry) \subseteq reachable
    BY <2>3, <2>6 DEF ReachableFrom, AfterClosed
  <2>8. QED
    BY <2>3, <2>5, <2>7
<1>2. QED
  BY <1>1, ValidatorInvariant, PTL

(* The verdict on a definition, of any size, is right in every respect.    *)
THEOREM VerdictsAreRight == ValidatorSpec => []VerdictIsRight
BY AcceptsAcyclic, AcceptsWellFormed, WarnsUnreachable, ReportsRealCycles,
   BoundsRecursion, DecidesWhatCanBeWalked, PTL DEF VerdictIsRight

-----------------------------------------------------------------------------
(* The order in which an accepted definition runs its nodes.               *)

LEMMA AfterIsNodes ==
  ASSUME NEW d, IsDag(d), WellFormed(d), NEW n \in Nodes(d)
  PROVE  After(d, n) \subseteq Nodes(d)
<1>1. d.nodes[n].type \in NodeType /\ Targets(d, n) \subseteq Nodes(d)
  BY NodeFields DEF WellFormed
<1>2. TypeIs(d, n, "Parallel") => Tasks(d, n) \subseteq Nodes(d) /\ d.nodes[n].join \in Nodes(d)
  BY DEF WellFormed
<1>3. \A q \in FanOuts(d, n) : d.nodes[q].join \in Nodes(d)
  BY DEF FanOuts, WellFormed
<1>4. QED
  BY <1>1, <1>2, <1>3 DEF After, NodeType, TypeIs

(* A parallel node leads to its tasks, and each task to the join node. *)
LEMMA TasksLeadToJoin ==
  ASSUME NEW d, IsDag(d), WellFormed(d), NEW n \in Nodes(d), TypeIs(d, n, "Parallel"),
         NEW p \in Tasks(d, n)
  PROVE  p \in After(d, n) /\ d.nodes[n].join \in After(d, p)
<1>1. p \in Nodes(d) /\ TypeIs(d, p, "Inference")
  BY DEF WellFormed
<1>2. n \in FanOuts(d, p)
  BY DEF FanOuts
<1>3. QED
  BY <1>1, <1>2 DEF After, TypeIs

\* y is x or comes after it: it is in every closed set that x is in.
Reaches(d, x, y) == \A S \in SUBSET Nodes(d) : x \in S /\ AfterClosed(d, S) => y \in S

\* What comes after n.
Later(d, n) == {k \in Nodes(d) : \E m \in After(d, n) : Reaches(d, m, k)}

LEMMA AfterIsLater ==
  ASSUME NEW d, IsDag(d), WellFormed(d), NEW n \in Nodes(d)
  PROVE  After(d, n) \subseteq Later(d, n)
BY AfterIsNodes DEF Later, Reaches

(* What may run next after something later is later. *)
LEMMA LaterGoesOn ==
  ASSUME NEW d, IsDag(d), WellFormed(d), NEW n, NEW k \in Later(d, n)
  PROVE  After(d, k) \subseteq Later(d, n)
<1>1. PICK m \in After(d, n) : Reaches(d, m, k)
  BY DEF Later
<1>2. k \in Nodes(d)
  BY DEF Later
<1>3. ASSUME NEW l \in After(d, k)
      PROVE  l \in Nodes(d) /\ Reaches(d, m, l)
  BY <1>1, <1>2, <1>3, AfterIsNodes DEF Reaches, AfterClosed
<1>4. QED
  BY <1>1, <1>3 DEF Later

(* Without a cycle nothing comes after itself: else, of the nodes between   *)
(* the two, each would have a successor among them.                         *)
LEMMA NotLaterThanItself ==
  ASSUME NEW d, IsDag(d), ValidDag(d), NEW n \in Nodes(d)
  PROVE  n \notin Later(d, n)
<1> SUFFICES ASSUME n \in Later(d, n) PROVE FALSE
  OBVIOUS
<1>0. WellFormed(d) /\ Acyclic(d)
  BY DEF ValidDag
<1>1. PICK m \in After(d, n) : Reaches(d, m, n)
  BY DEF Later
<1>2. m \in Nodes(d)
  BY <1>0, <1>1, AfterIsNodes
<1> DEFINE S == {x \in Nodes(d) : Reaches(d, m, x) /\ Reaches(d, x, n)}
<1>3. m \in S
  BY <1>1, <1>2 DEF Reaches
<1>4. PICK x \in S : After(d, x) \intersect S = {}
  <2>1. S \in SUBSET Nodes(d) /\ S # {}
    BY <1>3
  <2> HIDE DEF S
  <2>2. QED
    BY <1>0, <2>1 DEF Acyclic
<1>5. x # n
  BY <1>1, <1>3, <1>4
<1>6. \E y \in After(d, x) : Reaches(d, y, n)
  <2> SUFFICES ASSUME \A y \in After(d, x) : ~ Reaches(d, y, n) PROVE FALSE
    OBVIOUS
  <2> DEFINE T == {x} \union Later(d, x)
  <2>1. T \in SUBSET Nodes(d) /\ x \in T
    BY DEF Later
  <2>2. ASSUME NEW t \in T
        PROVE  After(d, t) \subseteq T
    BY <1>0, <2>2, AfterIsLater, LaterGoesOn
  <2>3. AfterClosed(d, T)
    BY <2>2 DEF AfterClosed
  <2>4. n \in T
    <3> HIDE DEF T
    <3>1. Reaches(d, x, n)
      OBVIOUS
    <3>2. QED
      BY <2>1, <2>3, <3>1 DEF Reaches
  <2>5. QED
    BY <1>5, <2>4 DEF Later
<1>7. PICK y \in After(d, x) : Reaches(d, y, n)
  BY <1>6
<1>8. y \in Nodes(d) /\ Reaches(d, m, y)
  <2>1. y \in Nodes(d)
    BY <1>0, <1>7, AfterIsNodes
  <2>2. Reaches(d, m, x)
    OBVIOUS
  <2>3. QED
    BY <1>7, <2>1, <2>2 DEF Reaches, AfterClosed
<1>9. QED
  BY <1>4, <1>7, <1>8

-----------------------------------------------------------------------------
NatLess == {ss \in Nat \X Nat : ss[1] < ss[2]}

(* The least-number principle, for the first of some positions in a list. *)
LEMMA LeastNumber ==
  ASSUME NEW T \in SUBSET Nat, T # {}
  PROVE  \E x \in T : \A y \in T : x <= y
<1>1. IsWellFoundedOn(NatLess, Nat)
  BY NatLessThanWellFounded DEF OpToRel, NatLess
<1>2. PICK x \in T : \A y \in T : ~ (<<y, x>> \in NatLess)
  BY <1>1, WFMin
<1>3. ASSUME NEW y \in T, ~ (x <= y)
      PROVE  FALSE
  <2>1. <<y, x>> \in Nat \X Nat /\ <<y, x>>[1] = y /\ <<y, x>>[2] = x
    OBVIOUS
  <2>2. y < x
    BY <1>3
  <2>3. <<y, x>> \in NatLess
    BY <2>1, <2>2 DEF NatLess
  <2>4. QED
    BY <1>2, <2>3
<1>4. QED
  BY <1>3

(* ... and for the last one. *)
LEMMA GreatestNumber ==
  ASSUME NEW n \in Nat, NEW T \in SUBSET (1..n), T # {}
  PROVE  \E x \in T : \A y \in T : y <= x
<1> DEFINE U == {n - x : x \in T}
<1>1. U \in SUBSET Nat /\ U # {}
  <2>1. \A x \in T : n - x \in Nat
    OBVIOUS
  <2>2. QED
    BY <2>1
<1> HIDE DEF U
<1>2. PICK u \in U : \A w \in U : u <= w
  BY <1>1, LeastNumber
<1>3. PICK x \in T : u = n - x
  BY <1>2 DEF U
<1>4. ASSUME NEW y \in T
      PROVE  y <= x
  <2>1. n - y \in U
    BY DEF U
  <2>2. n - x <= n - y
    BY <1>2, <1>3, <2>1
  <2>3. QED
    BY <2>2
<1>5. QED
  BY <1>4

-----------------------------------------------------------------------------
(* The inductive invariant. *)

Walking == pc \in {"loop", "await", "left"}
LastNode == path[Len(path)]

\* The nodes the walk is done with: all of the path, but for the one whose
\* tasks are awaited.
DoneNodes == IF pc = "await" THEN {path[i] : i \in 1..(Len(path) - 1)} ELSE Elems(path)

Control ==
  /\ outcome = "none" <=> pc # "done"
  /\ Walking \/ outcome \notin {"none", "Validation"} => ValidDag(dag)
  /\ pc = "start" \/ outcome = "Validation" =>
       path = <<>> /\ steps = Empty /\ context = Empty /\ cur = dag.entry
  /\ pc \in {"start", "loop", "await"} => escalation = NoEscalation
  /\ path \in Seq(Nodes(dag))
  /\ pc \in {"await", "left"} => path # <<>> /\ cur = LastNode
  /\ pc = "loop" /\ path = <<>> => cur = dag.entry

\* What is recorded comes before the node the walk is at.
Ordered ==
  pc \in {"loop", "await"} =>
    /\ cur \in Nodes(dag)
    /\ \A n \in DOMAIN steps : n \in Nodes(dag) /\ cur \in Later(dag, n)

Linked ==
  /\ pc = "loop" /\ path # <<>> =>
       LastNode \in DOMAIN steps /\ steps[LastNode].next = cur
  /\ pc = "left" => LastNode \in DOMAIN steps /\ steps[LastNode].next = NoNode

\* The tasks of the step, and whose answers they bring.
Tasked ==
  pc = "await" =>
    /\ \A i \in DOMAIN tasks :
         tasks[i].state = "answered" =>
           tasks[i].answer # NoAnswer /\ tasks[i].answer.by = tasks[i].node
    /\ \/ TypeIs(dag, cur, "Inference") /\ DOMAIN tasks = {1} /\ tasks[1].node = cur
       \/ /\ TypeIs(dag, cur, "Parallel")
          /\ DOMAIN tasks = DOMAIN dag.nodes[cur].parallel
          /\ \A i \in DOMAIN tasks : tasks[i].node = dag.nodes[cur].parallel[i]

\* RecordsMatchPath, also while tasks are awaited.
Recorded ==
  Walking \/ outcome = "Ok" =>
    /\ DOMAIN steps = DoneNodes \union
         UNION {Tasks(dag, q) : q \in {n \in DoneNodes : TypeIs(dag, n, "Parallel")}}
    /\ DOMAIN context = {n \in DOMAIN steps : TypeIs(dag, n, "Inference")}
    /\ \A n \in DOMAIN context : /\ steps[n].answer.by = n
                                 /\ context[n] = ContextValue(steps[n].answer)

\* The last answer is that of the node before, if it asked.
Answered ==
  pc = "loop" /\ path # <<>> =>
    (TypeIs(dag, LastNode, "Inference") => final_answer # NoAnswer /\ final_answer.by = LastNode)

Escalated ==
  pc = "left" \/ outcome = "Ok" =>
    path # <<>> /\ (escalation.escalated <=> TypeIs(dag, LastNode, "Escalate"))

\* Where the walk is, DagWalk may go.
Follows == pc = "loop" /\ path # <<>> => cur \in NextNodes(dag, LastNode)

IInv == /\ TypeOK /\ Control /\ Ordered /\ Linked /\ Tasked /\ Recorded /\ Answered
        /\ Escalated /\ Follows
        /\ NoNodeRevisited /\ PathFollowsSteps /\ EscalationExplainsTrigger

-----------------------------------------------------------------------------
(* Lemmas about the operators. *)

(* The rules of a node lead to one of their targets, or nowhere. *)
LEMMA ConditionsLead ==
  ASSUME NEW d, IsDag(d), NEW n \in Nodes(d), NEW ans, NEW known
  PROVE  EvaluateConditions(d.nodes[n].conditions, ans, known) \in Targets(d, n) \union {NoNode}
<1> DEFINE conds == d.nodes[n].conditions
           hits  == {i \in DOMAIN conds : Matches(conds[i], ans, known)}
<1>1. conds \in Seq(Condition)
  BY NodeFields
<1>2. hits \in SUBSET Nat /\ hits \subseteq DOMAIN conds
  BY <1>1
<1> HIDE DEF hits
<1>3. CASE hits = {}
  BY <1>3 DEF EvaluateConditions, hits
<1>4. CASE hits # {}
  <2>1. \E i \in hits : \A j \in hits : i <= j
    BY <1>2, <1>4, LeastNumber
  <2>2. PICK i \in hits : i = CHOOSE k \in hits : \A j \in hits : k <= j
    BY <2>1
  <2>3. EvaluateConditions(conds, ans, known) = conds[i].target
    BY <1>4, <2>2 DEF EvaluateConditions, hits
  <2>4. QED
    BY <1>2, <2>2, <2>3 DEF Targets, Elems
<1>5. QED
  BY <1>3, <1>4

(* Another element at the end of a list. *)
LEMMA AppendFacts ==
  ASSUME NEW S, NEW s \in Seq(S), NEW x \in S
  PROVE  /\ Append(s, x) \in Seq(S) /\ Append(s, x) # <<>>
         /\ Len(Append(s, x)) = Len(s) + 1 /\ Len(s) \in Nat
         /\ DOMAIN s = 1..Len(s) /\ DOMAIN Append(s, x) = 1..(Len(s) + 1)
         /\ \A i \in 1..Len(s) : Append(s, x)[i] = s[i]
         /\ Append(s, x)[Len(s) + 1] = x
         /\ Elems(Append(s, x)) = Elems(s) \union {x}
BY DEF Elems

(* Where the walk may go is what may run next. *)
LEMMA NextIsAfter ==
  ASSUME IsDag(dag), WellFormed(dag), NEW n \in Nodes(dag)
  PROVE  NextNodes(dag, n) \subseteq After(dag, n)
<1>1. dag.nodes[n].type \in NodeType
  BY NodeFields
<1>2. QED
  BY <1>1 DEF NextNodes, After, NodeType

(* Neither the node the walk is at nor one of its tasks is recorded yet. *)
LEMMA Fresh ==
  ASSUME IInv, pc \in {"loop", "await"}
  PROVE  /\ IsDag(dag) /\ ValidDag(dag) /\ WellFormed(dag)
         /\ cur \in Nodes(dag) /\ cur \notin DOMAIN steps
         /\ TypeIs(dag, cur, "Parallel") =>
              /\ Tasks(dag, cur) \subseteq Nodes(dag)
              /\ \A p \in Tasks(dag, cur) :
                   /\ p \notin DOMAIN steps /\ TypeIs(dag, p, "Inference")
                   /\ dag.nodes[cur].join \in After(dag, p)
<1>1. IsDag(dag) /\ ValidDag(dag) /\ WellFormed(dag)
  BY DagsAssumption DEF IInv, TypeOK, Control, Walking, ValidDag
<1>2. cur \in Nodes(dag) /\ \A n \in DOMAIN steps : n \in Nodes(dag) /\ cur \in Later(dag, n)
  BY DEF IInv, Ordered
<1>3. cur \notin DOMAIN steps
  BY <1>1, <1>2, NotLaterThanItself
<1>4. ASSUME TypeIs(dag, cur, "Parallel"), NEW p \in Tasks(dag, cur)
      PROVE  /\ p \in Nodes(dag) /\ p \notin DOMAIN steps /\ TypeIs(dag, p, "Inference")
             /\ dag.nodes[cur].join \in After(dag, p)
  <2>1. p \in Nodes(dag) /\ TypeIs(dag, p, "Inference") /\ p \in After(dag, cur)
    BY <1>1, <1>2, <1>4, TasksLeadToJoin DEF WellFormed
  <2>2. dag.nodes[cur].join \in After(dag, p)
    BY <1>1, <1>2, <1>4, TasksLeadToJoin
  <2>3. p \notin DOMAIN steps
    BY <1>1, <1>2, <2>1, LaterGoesOn, NotLaterThanItself
  <2>4. QED
    BY <2>1, <2>2, <2>3
<1>5. QED
  BY <1>1, <1>2, <1>3, <1>4

\* p is the path up to the node the walk is at.
Led(p) ==
  /\ p \in Seq(Nodes(dag)) /\ p # <<>> /\ Len(p) \in Nat \ {0} /\ DOMAIN p = 1..Len(p)
  /\ p[Len(p)] = cur
  /\ Elems(p) = DoneNodes \union {cur}
  /\ \A i, j \in DOMAIN p : p[i] = p[j] => i = j
  /\ \A i \in 1..(Len(p) - 1) : p[i] \in DOMAIN steps /\ steps[p[i]].next = p[i+1]

(* Visiting a node extends the path by a new node. *)
LEMMA VisitLeads ==
  ASSUME IInv, NEW type, Visit(type)
  PROVE  /\ pc = "loop" /\ TypeIs(dag, cur, type) /\ Led(path')
         /\ step_count' = Len(path') /\ step_count' \in 0..MaxSteps
         /\ dag' = dag /\ outcome' = outcome /\ outcome = "none"
<1>1. /\ pc = "loop" /\ TypeIs(dag, cur, type) /\ step_count < MaxSteps
      /\ step_count' = step_count + 1 /\ path' = Append(path, cur)
      /\ dag' = dag /\ outcome' = outcome
  BY DEF Visit
<1>2. cur \in Nodes(dag) /\ cur \notin DOMAIN steps
  BY <1>1, Fresh
<1>3. path \in Seq(Nodes(dag)) /\ step_count = Len(path) /\ DoneNodes = Elems(path)
  BY <1>1 DEF IInv, TypeOK, Control, DoneNodes
<1>4. Elems(path) \subseteq DOMAIN steps
  BY <1>1, <1>3 DEF IInv, Recorded, Walking
<1>5. /\ path' \in Seq(Nodes(dag)) /\ path' # <<>>
      /\ Len(path') = Len(path) + 1 /\ Len(path) \in Nat
      /\ DOMAIN path = 1..Len(path) /\ DOMAIN path' = 1..(Len(path) + 1)
      /\ \A i \in 1..Len(path) : path'[i] = path[i]
      /\ path'[Len(path) + 1] = cur
      /\ Elems(path') = Elems(path) \union {cur}
  BY <1>1, <1>2, <1>3, AppendFacts
<1>6. \A i, j \in DOMAIN path' : path'[i] = path'[j] => i = j
  <2>1. \A i \in 1..Len(path) : path[i] # cur
    BY <1>2, <1>4, <1>5 DEF Elems
  <2>2. \A i, j \in 1..Len(path) : path[i] = path[j] => i = j
    BY <1>5 DEF IInv, NoNodeRevisited
  <2>3. QED
    BY <1>5, <2>1, <2>2
<1>7. ASSUME NEW i \in 1..Len(path)
      PROVE  path'[i] \in DOMAIN steps /\ steps[path'[i]].next = path'[i+1]
  <2>1. CASE i = Len(path)
    <3>1. path # <<>> /\ path'[i] = LastNode /\ path'[i+1] = cur
      BY <1>5, <2>1 DEF LastNode
    <3>2. QED
      BY <1>1, <3>1 DEF IInv, Linked
  <2>2. CASE i # Len(path)
    <3>1. Len(path) \in Nat /\ i \in 1..Len(path)
      BY <1>5
    <3>2. i \in 1..(Len(path) - 1) /\ i + 1 \in 1..Len(path)
      BY <2>2, <3>1
    <3>3. QED
      BY <1>5, <3>2 DEF IInv, PathFollowsSteps
  <2>3. QED
    BY <2>1, <2>2
<1>8. Led(path')
  BY <1>3, <1>5, <1>6, <1>7 DEF Led
<1>9. step_count' = Len(path') /\ step_count' \in 0..MaxSteps
  BY <1>1, <1>3, <1>5, MaxStepsAssumption DEF IInv, TypeOK
<1>10. QED
  BY <1>1, <1>8, <1>9 DEF IInv, Control

(* While tasks are awaited the path already leads up to the node. *)
LEMMA AwaitLeads ==
  ASSUME IInv, pc = "await"
  PROVE  Led(path)
<1>1. /\ path \in Seq(Nodes(dag)) /\ path # <<>> /\ cur = path[Len(path)]
      /\ Len(path) \in Nat \ {0} /\ DOMAIN path = 1..Len(path)
  BY DEF IInv, Control, LastNode
<1>2. Elems(path) = {path[i] : i \in 1..(Len(path) - 1)} \union {cur}
  BY <1>1 DEF Elems
<1>3. QED
  BY <1>1, <1>2 DEF IInv, Led, DoneNodes, NoNodeRevisited, PathFollowsSteps

(* The end of every step of the walk: the node, and its tasks if it has     *)
(* any, are recorded, and the walk goes on to a node after them or leaves.  *)
LEMMA RecordStep ==
  ASSUME IInv, pc \in {"loop", "await"}, Led(path'),
         NEW g, NEW next, GoTo(next), next \in NextNodes(dag, cur) \union {NoNode},
         steps' = Merge(steps, g),
         DOMAIN g = {cur} \union (IF TypeIs(dag, cur, "Parallel") THEN Tasks(dag, cur) ELSE {}),
         g[cur].next = next,
         DOMAIN context' = DOMAIN context \union {k \in DOMAIN g : TypeIs(dag, k, "Inference")},
         \A n \in DOMAIN context : context'[n] = context[n],
         \A k \in DOMAIN g : TypeIs(dag, k, "Inference") =>
            g[k].answer.by = k /\ context'[k] = ContextValue(g[k].answer),
         dag' = dag, outcome' = outcome
  PROVE  /\ \A n \in DOMAIN steps : n \in DOMAIN steps' /\ steps'[n] = steps[n]
         /\ DOMAIN steps' \subseteq NodeId /\ DOMAIN context' \subseteq NodeId
         /\ cur' \in NodeId
         /\ next = NoNode \/ escalation' = escalation => Control'
         /\ Ordered' /\ Linked' /\ Tasked' /\ Recorded' /\ Follows'
         /\ NoNodeRevisited' /\ PathFollowsSteps'
<1>1. /\ IsDag(dag) /\ ValidDag(dag) /\ WellFormed(dag)
      /\ cur \in Nodes(dag) /\ Nodes(dag) \subseteq NodeId
      /\ DOMAIN g \subseteq Nodes(dag)
      /\ DOMAIN steps \intersect DOMAIN g = {}
  BY Fresh DEF IsDag, Nodes
<1>2. /\ DOMAIN steps' = DOMAIN steps \union DOMAIN g
      /\ \A n \in DOMAIN steps : steps'[n] = steps[n]
      /\ \A n \in DOMAIN g : steps'[n] = g[n]
  <2>1. DOMAIN steps \intersect DOMAIN g = {}
    BY <1>1
  <2>2. steps' = [k \in DOMAIN steps \union DOMAIN g |->
                   IF k \in DOMAIN g THEN g[k] ELSE steps[k]]
    BY DEF Merge
  <2>3. QED
    BY <2>1, <2>2
<1>3. /\ \A n \in DOMAIN steps : n \in Nodes(dag)
      /\ \A n \in DOMAIN steps : cur \in Later(dag, n)
  BY DEF IInv, Ordered
<1>4. outcome = "none" /\ outcome' = "none"
  BY DEF IInv, Control
<1>5. IF next = NoNode THEN pc' = "left" /\ cur' = cur ELSE pc' = "loop" /\ cur' = next
  BY DEF GoTo
<1>6. next # NoNode => next \in NextNodes(dag, cur) /\ next \in After(dag, cur) /\ next \in Nodes(dag)
  BY <1>1, NextIsAfter, AfterIsNodes
<1>7. path' \in Seq(Nodes(dag)) /\ path' # <<>> /\ LastNode' = cur /\ cur \in DOMAIN g
  BY DEF Led, LastNode
<1>8. DoneNodes' = DoneNodes \union {cur}
  <2>1. pc' # "await"
    BY <1>5
  <2>2. DoneNodes' = Elems(path')
    BY <2>1 DEF DoneNodes
  <2>3. QED
    BY <2>2 DEF Led
<1>9. Ordered'
  <2>1. SUFFICES ASSUME next # NoNode, NEW n \in DOMAIN steps \union DOMAIN g
                 PROVE  cur' \in Nodes(dag) /\ n \in Nodes(dag) /\ next \in Later(dag, n)
    BY <1>2, <1>5, <1>6 DEF Ordered
  <2>2. cur' \in Nodes(dag) /\ n \in Nodes(dag)
    BY <1>1, <1>3, <1>5, <1>6, <2>1
  <2>3. CASE n \in DOMAIN steps
    BY <1>1, <1>3, <1>6, <2>1, <2>2, <2>3, LaterGoesOn
  <2>4. CASE n = cur
    BY <1>1, <1>6, <2>1, <2>2, <2>4, AfterIsLater
  <2>5. CASE n \in DOMAIN g /\ n # cur
    <3>1. TypeIs(dag, cur, "Parallel") /\ n \in Tasks(dag, cur)
      BY <2>5
    <3>2. next = dag.nodes[cur].join
      BY <1>6, <2>1, <3>1 DEF NextNodes, TypeIs
    <3>3. QED
      BY <1>1, <2>2, <3>1, <3>2, Fresh, AfterIsLater
  <2>6. QED
    BY <2>1, <2>2, <2>3, <2>4, <2>5
<1>10. Linked'
  BY <1>2, <1>5, <1>7 DEF Linked
<1>11. Tasked'
  BY <1>5 DEF Tasked
<1>12. Recorded'
  <2>1. /\ DOMAIN steps = DoneNodes \union
               UNION {Tasks(dag, q) : q \in {n \in DoneNodes : TypeIs(dag, n, "Parallel")}}
        /\ DOMAIN context = {n \in DOMAIN steps : TypeIs(dag, n, "Inference")}
        /\ \A n \in DOMAIN context : /\ steps[n].answer.by = n
                                     /\ context[n] = ContextValue(steps[n].answer)
    BY DEF IInv, Recorded, Walking
  <2>2. DOMAIN steps' = DoneNodes' \union
               UNION {Tasks(dag, q) : q \in {n \in DoneNodes' : TypeIs(dag, n, "Parallel")}}
    BY <1>2, <1>8, <2>1
  <2>3. DOMAIN context' = {n \in DOMAIN steps' : TypeIs(dag, n, "Inference")}
    BY <1>2, <2>1
  <2>4. \A n \in DOMAIN context' : /\ steps'[n].answer.by = n
                                  /\ context'[n] = ContextValue(steps'[n].answer)
    BY <1>2, <2>1
  <2>5. QED
    BY <2>2, <2>3, <2>4 DEF Recorded
<1>13. Follows'
  BY <1>5, <1>6, <1>7 DEF Follows
<1>14. NoNodeRevisited'
  BY <1>4 DEF Led, NoNodeRevisited
<1>15. PathFollowsSteps'
  BY <1>2, <1>4 DEF Led, PathFollowsSteps
<1>16. next = NoNode \/ escalation' = escalation => Control'
  <2>1. escalation = NoEscalation /\ NoEscalation' = NoEscalation
    BY DEF IInv, Control, NoEscalation
  <2>2. QED
    BY <1>1, <1>4, <1>5, <1>7, <2>1 DEF Control, Walking, LastNode
<1>17. QED
  BY <1>1, <1>2, <1>3, <1>5, <1>6, <1>9, <1>10, <1>11, <1>12, <1>13, <1>14, <1>15, <1>16
     DEF IInv, TypeOK

-----------------------------------------------------------------------------
LEMMA InitIInv == Init => IInv
<1> SUFFICES ASSUME Init PROVE IInv
  OBVIOUS
<1>1. IsDag(dag) /\ cur \in NodeId /\ MaxSteps \in Nat
  BY DagsAssumption, MaxStepsAssumption DEF Init, IsDag
<1>2. TypeOK
  BY <1>1 DEF Init, TypeOK, Empty, NoEscalation
<1>3. Control /\ Ordered /\ Linked /\ Tasked /\ Recorded /\ Answered /\ Escalated /\ Follows
  BY DEF Init, Control, Walking, Ordered, Linked, Tasked, Recorded, Answered, Escalated, Follows
<1>4. NoNodeRevisited /\ PathFollowsSteps /\ EscalationExplainsTrigger
  BY DEF Init, NoNodeRevisited, PathFollowsSteps, EscalationExplainsTrigger, NoEscalation
<1>5. QED
  BY <1>2, <1>3, <1>4 DEF IInv

LEMMA ExecuteStep ==
  ASSUME IInv, Execute
  PROVE  IInv'
<1> USE DEF IInv
<1>1. /\ pc = "start" /\ UNCHANGED <<dag, cur, step_count, path, steps, context, final_answer,
                                     escalation, tasks>>
      /\ \/ ValidDag(dag) /\ pc' = "loop" /\ outcome' = outcome
         \/ pc' = "done" /\ outcome' = "Validation"
  BY DEF Execute, Return, walk
<1>2. path = <<>> /\ steps = Empty /\ context = Empty /\ cur = dag.entry /\ outcome = "none"
  BY <1>1 DEF Control
<1>3. TypeOK'
  BY <1>1 DEF TypeOK
<1>4. Control'
  BY <1>1, <1>2 DEF Control, Walking, NoEscalation, Empty
<1>5. Ordered'
  BY <1>1, <1>2 DEF Ordered, Empty, ValidDag, WellFormed
<1>6. Linked' /\ Tasked' /\ Answered' /\ Escalated' /\ Follows'
  BY <1>1, <1>2 DEF Linked, Tasked, Answered, Escalated, Follows
<1>7. Recorded'
  BY <1>1, <1>2 DEF Recorded, Walking, DoneNodes, Elems, Empty
<1>8. NoNodeRevisited' /\ PathFollowsSteps' /\ EscalationExplainsTrigger'
  BY <1>1, <1>2 DEF NoNodeRevisited, PathFollowsSteps, EscalationExplainsTrigger
<1>9. QED
  BY <1>3, <1>4, <1>5, <1>6, <1>7, <1>8

(* A node is visited and its tasks are spawned. *)
LEMMA BeginStep ==
  ASSUME IInv, NEW type, type \in {"Inference", "Parallel"}, Visit(type), pc' = "await",
         UNCHANGED <<cur, steps, context, final_answer, escalation>>,
         Tasked', \A i \in DOMAIN tasks' : tasks'[i] = Task(tasks'[i].node)
  PROVE  IInv'
<1> USE DEF IInv
<1>1. /\ pc = "loop" /\ TypeIs(dag, cur, type) /\ Led(path')
      /\ step_count' = Len(path') /\ step_count' \in 0..MaxSteps
      /\ dag' = dag /\ outcome' = outcome /\ outcome = "none"
  BY VisitLeads
<1>2. /\ ValidDag(dag) /\ cur \in Nodes(dag) /\ Nodes(dag) \subseteq NodeId
      /\ cur \notin DOMAIN steps
  BY <1>1, Fresh DEF IsDag, Nodes
<1>3. DoneNodes' = DoneNodes
  <2>1. path' = Append(path, cur) /\ path \in Seq(Nodes(dag))
    BY DEF Visit, Control
  <2>2. \A i \in 1..Len(path) : path'[i] = path[i]
    BY <1>2, <2>1, AppendFacts
  <2>3. Len(path') - 1 = Len(path) /\ DOMAIN path = 1..Len(path)
    BY <1>2, <2>1, AppendFacts
  <2>4. DoneNodes' = {path'[i] : i \in 1..(Len(path') - 1)} /\ DoneNodes = Elems(path)
    BY <1>1 DEF DoneNodes
  <2>5. QED
    BY <2>2, <2>3, <2>4 DEF Elems
<1>4. TypeOK'
  BY <1>1, <1>2 DEF TypeOK, Led, Task
<1>5. Control'
  BY <1>1, <1>2 DEF Control, Walking, Led, LastNode, NoEscalation
<1>6. Ordered'
  BY <1>1 DEF Ordered
<1>7. Linked' /\ Answered' /\ Escalated' /\ Follows'
  BY <1>1 DEF Linked, Answered, Escalated, Follows
<1>8. Recorded'
  BY <1>1, <1>3 DEF Recorded, Walking
<1>9. NoNodeRevisited' /\ PathFollowsSteps' /\ EscalationExplainsTrigger'
  BY <1>1 DEF NoNodeRevisited, PathFollowsSteps, EscalationExplainsTrigger, Led
<1>10. QED
  BY <1>4, <1>5, <1>6, <1>7, <1>8, <1>9

LEMMA InferenceBeginStep ==
  ASSUME IInv, InferenceBegin
  PROVE  IInv'
<1>1. /\ Visit("Inference") /\ pc' = "await" /\ tasks' = <<Task(cur)>>
      /\ UNCHANGED <<cur, steps, context, final_answer, escalation>>
  BY DEF InferenceBegin
<1>2. TypeIs(dag, cur, "Inference") /\ dag' = dag
  BY <1>1 DEF Visit
<1>3. Tasked' /\ \A i \in DOMAIN tasks' : tasks'[i] = Task(tasks'[i].node)
  BY <1>1, <1>2 DEF Tasked, Task
<1>4. QED
  BY <1>1, <1>3, BeginStep

LEMMA ParallelBeginStep ==
  ASSUME IInv, ParallelBegin
  PROVE  IInv'
<1>1. /\ Visit("Parallel") /\ pc' = "await"
      /\ tasks' = [i \in DOMAIN dag.nodes[cur].parallel |-> Task(dag.nodes[cur].parallel[i])]
      /\ UNCHANGED <<cur, steps, context, final_answer, escalation>>
  BY DEF ParallelBegin
<1>2. TypeIs(dag, cur, "Parallel") /\ dag' = dag
  BY <1>1 DEF Visit
<1>3. Tasked' /\ \A i \in DOMAIN tasks' : tasks'[i] = Task(tasks'[i].node)
  BY <1>1, <1>2 DEF Tasked, Task
<1>4. QED
  BY <1>1, <1>3, BeginStep

-----------------------------------------------------------------------------
\* No step changes what was recorded.
Grows == \A n \in DOMAIN steps : n \in DOMAIN steps' /\ steps'[n] = steps[n]

(* Once every task has ended without an error, each has its own answer. *)
LEMMA AllAnswered ==
  ASSUME IInv, pc = "await", Running = {}, Bad = {}, NEW i \in DOMAIN tasks
  PROVE  tasks[i].answer # NoAnswer /\ tasks[i].answer.by = tasks[i].node
<1>1. tasks[i].state = "answered"
  BY DEF IInv, TypeOK, Running, Bad
<1>2. QED
  BY <1>1 DEF IInv, Tasked

LEMMA InferenceEndStep ==
  ASSUME IInv, InferenceEnd
  PROVE  IInv' /\ Grows
<1> USE DEF IInv
<1> DEFINE given == tasks[1].answer
           known == Merge(context, [n \in {cur} |-> ContextValue(given)])
           next  == EvaluateConditions(dag.nodes[cur].conditions, given, known)
           g     == [n \in {cur} |-> Step("Inference", given, next)]
<1>1. /\ pc = "await" /\ TypeIs(dag, cur, "Inference") /\ Running = {} /\ Bad = {}
      /\ context' = known /\ final_answer' = given /\ steps' = Merge(steps, g)
      /\ GoTo(next) /\ tasks' = <<>>
      /\ UNCHANGED <<dag, step_count, path, escalation, outcome>>
  BY DEF InferenceEnd
<1>2. IsDag(dag) /\ cur \in Nodes(dag) /\ cur \notin DOMAIN steps
  BY <1>1, Fresh
<1>3. given # NoAnswer /\ given.by = cur
  <2>1. 1 \in DOMAIN tasks /\ tasks[1].node = cur
    BY <1>1 DEF Tasked, TypeIs
  <2>2. QED
    BY <1>1, <2>1, AllAnswered
<1>4. next \in NextNodes(dag, cur) \union {NoNode}
  <2>1. next \in Targets(dag, cur) \union {NoNode}
    BY <1>2, ConditionsLead
  <2> HIDE DEF next
  <2>2. NextNodes(dag, cur) = Targets(dag, cur)
    BY <1>1 DEF NextNodes, TypeIs
  <2>3. QED
    BY <2>1, <2>2
<1> HIDE DEF next
<1>5. /\ DOMAIN g = {cur} \union (IF TypeIs(dag, cur, "Parallel") THEN Tasks(dag, cur) ELSE {})
      /\ g[cur].next = next /\ g[cur].answer = given
  BY <1>1 DEF Step, TypeIs
<1>6. /\ DOMAIN context' = DOMAIN context \union {k \in DOMAIN g : TypeIs(dag, k, "Inference")}
      /\ \A n \in DOMAIN context : context'[n] = context[n]
      /\ \A k \in DOMAIN g : TypeIs(dag, k, "Inference") =>
            g[k].answer.by = k /\ context'[k] = ContextValue(g[k].answer)
  <2>1. cur \notin DOMAIN context
    BY <1>1, <1>2 DEF Recorded, Walking
  <2>2. context' = [k \in DOMAIN context \union {cur} |->
                      IF k \in {cur} THEN ContextValue(given) ELSE context[k]]
    BY <1>1 DEF Merge
  <2>3. QED
    BY <1>1, <1>3, <1>5, <2>1, <2>2
<1>7. Led(path')
  BY <1>1, AwaitLeads
<1> HIDE DEF g, given, known
<1>8. /\ Grows /\ DOMAIN steps' \subseteq NodeId /\ DOMAIN context' \subseteq NodeId
      /\ cur' \in NodeId /\ Control'
      /\ Ordered' /\ Linked' /\ Tasked' /\ Recorded' /\ Follows'
      /\ NoNodeRevisited' /\ PathFollowsSteps'
  BY <1>1, <1>4, <1>5, <1>6, <1>7, RecordStep DEF Grows
<1>9. /\ escalation = NoEscalation /\ LastNode' = cur /\ path # <<>> /\ pc' \in {"loop", "left"}
      /\ outcome = "none"
  BY <1>1 DEF Control, LastNode, GoTo
<1>10. TypeOK'
  BY <1>1, <1>8, <1>9 DEF TypeOK
<1>11. Answered' /\ Escalated' /\ EscalationExplainsTrigger'
  BY <1>1, <1>3, <1>9 DEF Answered, Escalated, EscalationExplainsTrigger, NoEscalation, TypeIs
<1>12. QED
  BY <1>8, <1>10, <1>11

LEMMA BranchStepStep ==
  ASSUME IInv, BranchStep
  PROVE  IInv' /\ Grows
<1> USE DEF IInv
<1> DEFINE next == EvaluateConditions(dag.nodes[cur].conditions, final_answer, context)
           g    == [n \in {cur} |-> Step("Branch", NoAnswer, next)]
<1>1. /\ pc = "loop" /\ TypeIs(dag, cur, "Branch") /\ Led(path')
      /\ step_count' = Len(path') /\ step_count' \in 0..MaxSteps
      /\ dag' = dag /\ outcome' = outcome /\ outcome = "none"
      /\ steps' = Merge(steps, g) /\ GoTo(next)
      /\ UNCHANGED <<context, final_answer, escalation, tasks>>
  BY VisitLeads DEF BranchStep
<1>2. IsDag(dag) /\ cur \in Nodes(dag) /\ Nodes(dag) \subseteq NodeId
  BY <1>1, Fresh DEF IsDag, Nodes
<1>3. next \in NextNodes(dag, cur) \union {NoNode}
  <2>1. next \in Targets(dag, cur) \union {NoNode}
    BY <1>2, ConditionsLead
  <2> HIDE DEF next
  <2>2. NextNodes(dag, cur) = Targets(dag, cur)
    BY <1>1 DEF NextNodes, TypeIs
  <2>3. QED
    BY <2>1, <2>2
<1> HIDE DEF next
<1>4. /\ DOMAIN g = {cur} \union (IF TypeIs(dag, cur, "Parallel") THEN Tasks(dag, cur) ELSE {})
      /\ g[cur].next = next
      /\ \A k \in DOMAIN g : ~ TypeIs(dag, k, "Inference")
  BY <1>1 DEF Step, TypeIs
<1> HIDE DEF g
<1>5. /\ Grows /\ DOMAIN steps' \subseteq NodeId /\ DOMAIN context' \subseteq NodeId
      /\ cur' \in NodeId /\ Control'
      /\ Ordered' /\ Linked' /\ Tasked' /\ Recorded' /\ Follows'
      /\ NoNodeRevisited' /\ PathFollowsSteps'
  BY <1>1, <1>3, <1>4, RecordStep DEF Grows
<1>6. escalation = NoEscalation /\ LastNode' = cur /\ path' # <<>> /\ pc' \in {"loop", "left"}
  BY <1>1 DEF Control, LastNode, GoTo, Led
<1>7. TypeOK'
  BY <1>1, <1>2, <1>5, <1>6 DEF TypeOK, Led
<1>8. Answered' /\ Escalated' /\ EscalationExplainsTrigger'
  BY <1>1, <1>6 DEF Answered, Escalated, EscalationExplainsTrigger, NoEscalation, TypeIs
<1>9. QED
  BY <1>5, <1>7, <1>8

LEMMA ParallelEndStep ==
  ASSUME IInv, ParallelEnd
  PROVE  IInv' /\ Grows
<1> USE DEF IInv
<1> DEFINE join == dag.nodes[cur].join
           g    == [p \in TaskNodes \union {cur} |->
                      IF p = cur THEN Step("Parallel", NoAnswer, join)
                      ELSE Step("Inference", LastAnswer(p), join)]
<1>1. /\ pc = "await" /\ TypeIs(dag, cur, "Parallel") /\ Running = {} /\ Bad = {}
      /\ context' = Merge(context, [p \in TaskNodes |-> ContextValue(LastAnswer(p))])
      /\ steps' = Merge(steps, g)
      /\ GoTo(join) /\ tasks' = <<>>
      /\ UNCHANGED <<dag, step_count, path, final_answer, escalation, outcome>>
  BY DEF ParallelEnd
<1>2. /\ IsDag(dag) /\ cur \in Nodes(dag) /\ cur \notin DOMAIN steps
      /\ \A p \in Tasks(dag, cur) : p \notin DOMAIN steps /\ TypeIs(dag, p, "Inference")
  BY <1>1, Fresh
<1>3. /\ DOMAIN tasks = DOMAIN dag.nodes[cur].parallel
      /\ \A i \in DOMAIN tasks : tasks[i].node = dag.nodes[cur].parallel[i]
      /\ TaskNodes = Tasks(dag, cur)
  BY <1>1 DEF Tasked, TypeIs, TaskNodes, Tasks, Elems
<1>4. ASSUME NEW p \in TaskNodes
      PROVE  LastAnswer(p).by = p
  <2> DEFINE mine == {i \in DOMAIN tasks : tasks[i].node = p}
             n    == Len(dag.nodes[cur].parallel)
  <2>1. n \in Nat /\ DOMAIN tasks = 1..n
    BY <1>2, <1>3, NodeFields
  <2>2. mine \in SUBSET (1..n) /\ mine # {}
    BY <1>4, <2>1 DEF TaskNodes
  <2> HIDE DEF mine, n
  <2>3. \E i \in mine : \A j \in mine : j <= i
    BY <2>1, <2>2, GreatestNumber
  <2>4. PICK i \in mine : i = CHOOSE k \in mine : \A j \in mine : j <= k
    BY <2>3
  <2>5. LastAnswer(p) = tasks[i].answer
    BY <2>4 DEF LastAnswer, mine
  <2>6. i \in DOMAIN tasks /\ tasks[i].node = p
    BY <2>4 DEF mine
  <2>7. QED
    BY <1>1, <2>5, <2>6, AllAnswered
<1>5. join \in NextNodes(dag, cur) \union {NoNode}
  BY <1>1 DEF NextNodes, TypeIs
<1>6. cur \notin TaskNodes
  BY <1>1, <1>2, <1>3 DEF TypeIs
<1>7. /\ DOMAIN g = {cur} \union (IF TypeIs(dag, cur, "Parallel") THEN Tasks(dag, cur) ELSE {})
      /\ g[cur].next = join
      /\ \A p \in TaskNodes : g[p].answer = LastAnswer(p)
  BY <1>1, <1>3, <1>6 DEF Step
<1>8. /\ DOMAIN context' = DOMAIN context \union {k \in DOMAIN g : TypeIs(dag, k, "Inference")}
      /\ \A n \in DOMAIN context : context'[n] = context[n]
      /\ \A k \in DOMAIN g : TypeIs(dag, k, "Inference") =>
            g[k].answer.by = k /\ context'[k] = ContextValue(g[k].answer)
  <2>1. DOMAIN context \intersect TaskNodes = {}
    BY <1>1, <1>2, <1>3 DEF Recorded, Walking
  <2>2. context' = [k \in DOMAIN context \union TaskNodes |->
                      IF k \in TaskNodes THEN ContextValue(LastAnswer(k)) ELSE context[k]]
    BY <1>1 DEF Merge
  <2>3. {k \in DOMAIN g : TypeIs(dag, k, "Inference")} = TaskNodes
    BY <1>1, <1>2, <1>3, <1>7 DEF TypeIs
  <2> HIDE DEF g
  <2>4. QED
    BY <1>4, <1>7, <2>1, <2>2, <2>3
<1>9. Led(path')
  BY <1>1, AwaitLeads
<1> HIDE DEF g, join
<1>10. /\ Grows /\ DOMAIN steps' \subseteq NodeId /\ DOMAIN context' \subseteq NodeId
       /\ cur' \in NodeId /\ Control'
       /\ Ordered' /\ Linked' /\ Tasked' /\ Recorded' /\ Follows'
       /\ NoNodeRevisited' /\ PathFollowsSteps'
  BY <1>1, <1>5, <1>7, <1>8, <1>9, RecordStep DEF Grows
<1>11. /\ escalation = NoEscalation /\ LastNode' = cur /\ path # <<>> /\ pc' \in {"loop", "left"}
       /\ outcome = "none"
  BY <1>1 DEF Control, LastNode, GoTo
<1>12. TypeOK'
  BY <1>1, <1>10, <1>11 DEF TypeOK
<1>13. Answered' /\ Escalated' /\ EscalationExplainsTrigger'
  BY <1>1, <1>11 DEF Answered, Escalated, EscalationExplainsTrigger, NoEscalation, TypeIs
<1>14. QED
  BY <1>10, <1>12, <1>13

LEMMA EscalateStepStep ==
  ASSUME IInv, EscalateStep
  PROVE  IInv' /\ Grows
<1> USE DEF IInv
<1> DEFINE g == [n \in {cur} |-> Step("Escalate", NoAnswer, NoNode)]
<1>1. /\ pc = "loop" /\ TypeIs(dag, cur, "Escalate") /\ Led(path')
      /\ step_count' = Len(path') /\ step_count' \in 0..MaxSteps
      /\ dag' = dag /\ outcome' = outcome /\ outcome = "none"
      /\ escalation' = EscalationFor(Trigger, final_answer)
      /\ steps' = Merge(steps, g) /\ GoTo(NoNode)
      /\ UNCHANGED <<context, final_answer, tasks>>
  BY VisitLeads DEF EscalateStep
<1>2. WellFormed(dag) /\ cur \in Nodes(dag) /\ Nodes(dag) \subseteq NodeId
  BY <1>1, Fresh DEF IsDag, Nodes
<1>3. /\ DOMAIN g = {cur} \union (IF TypeIs(dag, cur, "Parallel") THEN Tasks(dag, cur) ELSE {})
      /\ g[cur].next = NoNode
      /\ \A k \in DOMAIN g : ~ TypeIs(dag, k, "Inference")
  BY <1>1 DEF Step, TypeIs
<1> HIDE DEF g
<1>4. /\ Grows /\ DOMAIN steps' \subseteq NodeId /\ DOMAIN context' \subseteq NodeId
      /\ cur' \in NodeId /\ Control'
      /\ Ordered' /\ Linked' /\ Tasked' /\ Recorded' /\ Follows'
      /\ NoNodeRevisited' /\ PathFollowsSteps'
  BY <1>1, <1>3, RecordStep DEF Grows
<1>5. LastNode' = cur /\ path' # <<>> /\ pc' = "left"
  BY <1>1 DEF LastNode, GoTo, Led
<1>6. escalation'.escalated /\ escalation'.node = Trigger
  BY <1>1 DEF EscalationFor
<1>7. Trigger = NoNode \/ (Trigger \in Nodes(dag) /\ path # <<>> /\ Trigger = LastNode)
  <2>1. path \in Seq(Nodes(dag))
    BY <1>1 DEF Control
  <2>2. path # <<>> => path[Len(path)] \in Nodes(dag)
    BY <2>1
  <2>3. QED
    BY <2>2 DEF Trigger, LastNode
<1>8. TypeOK'
  BY <1>1, <1>2, <1>4, <1>5, <1>6, <1>7 DEF TypeOK, Led
<1>9. EscalationExplainsTrigger'
  <2>1. SUFFICES ASSUME Trigger # NoNode, TypeIs(dag, Trigger, "Inference")
                 PROVE  /\ escalation'.gating = Trigger
                        /\ escalation'.prompt \in {"template", "built"}
                        /\ escalation'.question = Trigger
    BY <1>1, <1>6 DEF EscalationExplainsTrigger, TypeIs
  <2>2. final_answer # NoAnswer /\ final_answer.by = Trigger
    BY <1>1, <1>7, <2>1 DEF Answered
  <2>3. dag.nodes[Trigger].question
    BY <1>2, <1>7, <2>1 DEF WellFormed
  <2>4. QED
    BY <1>1, <2>1, <2>2, <2>3 DEF EscalationFor
<1>10. Answered' /\ Escalated'
  BY <1>1, <1>5, <1>6 DEF Answered, Escalated, TypeIs
<1>11. QED
  BY <1>4, <1>8, <1>9, <1>10

-----------------------------------------------------------------------------
(* execute returns an error: nothing is claimed of it any more. *)
LEMMA ErrorStep ==
  ASSUME IInv, pc \in {"loop", "await"}, pc' = "done", UNCHANGED <<dag, walk>>,
         outcome' \in {"StepLimitExceeded", "Timeout", "Runtime", "ExecutionFailed"},
         tasks' \in {tasks, <<>>}
  PROVE  IInv'
<1> USE DEF IInv, walk
<1>1. outcome = "none" /\ ValidDag(dag)
  BY DEF Control, Walking
<1>2. TypeOK'
  BY DEF TypeOK
<1>3. Control'
  BY <1>1 DEF Control, Walking
<1>4. Ordered' /\ Linked' /\ Tasked' /\ Recorded' /\ Answered' /\ Escalated' /\ Follows'
  BY DEF Ordered, Linked, Tasked, Recorded, Walking, Answered, Escalated, Follows
<1>5. NoNodeRevisited' /\ PathFollowsSteps' /\ EscalationExplainsTrigger'
  BY <1>1 DEF NoNodeRevisited, PathFollowsSteps, EscalationExplainsTrigger, TypeIs
<1>6. QED
  BY <1>2, <1>3, <1>4, <1>5

LEMMA StepFailsStep ==
  ASSUME IInv, StepFails
  PROVE  IInv'
<1>1. /\ pc = "await" /\ pc' = "done" /\ outcome' \in {"ExecutionFailed", "Runtime"}
      /\ tasks' = <<>> /\ UNCHANGED <<dag, walk>>
  BY DEF StepFails, Return
<1>2. QED
  BY <1>1, ErrorStep

LEMMA TimeoutStep ==
  ASSUME IInv, Timeout
  PROVE  IInv'
<1>1. pc = "await" /\ pc' = "done" /\ outcome' = "Timeout" /\ UNCHANGED <<dag, walk, tasks>>
  BY DEF Timeout, Return
<1>2. QED
  BY <1>1, ErrorStep

(* A node the walk is at is there to be found. *)
LEMMA LeaveReturns ==
  ASSUME IInv, Leave
  PROVE  /\ pc' = "done" /\ UNCHANGED <<dag, walk, tasks>>
         /\ \/ outcome' = "StepLimitExceeded" /\ step_count >= MaxSteps /\ pc \in {"loop", "left"}
            \/ outcome' = "Ok" /\ pc = "left" /\ step_count < MaxSteps
<1>1. pc = "loop" => Found
  BY Fresh DEF Found, WellFormed
<1>2. step_count \in Nat /\ MaxSteps \in Nat
  BY MaxStepsAssumption DEF IInv, TypeOK
<1>3. ~ (pc = "loop" /\ step_count < MaxSteps)
  BY <1>1, <1>2 DEF Leave
<1>4. QED
  BY <1>2, <1>3 DEF Leave, Return

LEMMA LeaveStep ==
  ASSUME IInv, Leave
  PROVE  IInv'
<1> USE DEF IInv
<1>1. /\ pc \in {"loop", "left"} /\ pc' = "done" /\ UNCHANGED <<dag, walk, tasks>>
      /\ \/ outcome' = "StepLimitExceeded"
         \/ outcome' = "Ok" /\ pc = "left"
  BY LeaveReturns
<1>2. TypeOK'
  BY <1>1 DEF TypeOK, walk
<1>3. Control'
  BY <1>1 DEF Control, Walking, walk
<1>4. Ordered' /\ Linked' /\ Tasked' /\ Answered' /\ Follows'
  BY <1>1 DEF Ordered, Linked, Tasked, Answered, Follows
<1>5. Recorded'
  <2>1. SUFFICES ASSUME pc = "left"
                 PROVE  Recorded'
    BY <1>1 DEF Recorded, Walking
  <2>2. DoneNodes' = DoneNodes
    BY <1>1 DEF DoneNodes, walk
  <2>3. QED
    BY <1>1, <2>1, <2>2 DEF Recorded, Walking, walk
<1>6. Escalated' /\ NoNodeRevisited' /\ EscalationExplainsTrigger'
  BY <1>1 DEF Escalated, NoNodeRevisited, EscalationExplainsTrigger, walk, LastNode, TypeIs
<1>7. PathFollowsSteps'
  BY <1>1 DEF PathFollowsSteps, walk, Linked, Control, LastNode
<1>8. QED
  BY <1>2, <1>3, <1>4, <1>5, <1>6, <1>7

(* A task that ends changes nothing of the walk. *)
LEMMA TaskEndsStep ==
  ASSUME IInv, NEW i \in DOMAIN tasks, TaskEnds(i)
  PROVE  IInv'
<1> USE DEF IInv
<1>1. PICK state \in {"answered", "failed", "panicked"}, reply \in Reply :
        tasks' = [tasks EXCEPT ![i].state = state,
                    ![i].answer = IF state = "answered"
                                    THEN [reply EXCEPT !.by = tasks[i].node] ELSE NoAnswer]
  BY DEF TaskEnds
<1>2. UNCHANGED <<dag, pc, cur, step_count, path, steps, context, final_answer, escalation, outcome>>
  BY DEF TaskEnds, walk
<1>3. /\ DOMAIN tasks' = DOMAIN tasks
      /\ \A j \in DOMAIN tasks : j # i => tasks'[j] = tasks[j]
  BY <1>1
<1>4. TypeOK'
  <2>1. ASSUME NEW j \in DOMAIN tasks
        PROVE  /\ tasks'[j] = [node |-> tasks'[j].node, state |-> tasks'[j].state,
                               answer |-> tasks'[j].answer]
               /\ tasks'[j].state \in {"running", "answered", "failed", "panicked"}
    <3>1. CASE j # i
      BY <1>3, <3>1 DEF TypeOK
    <3>2. CASE j = i
      <4>1. tasks[i] = [node |-> tasks[i].node, state |-> tasks[i].state,
                        answer |-> tasks[i].answer]
        BY DEF TypeOK
      <4>2. QED
        BY <1>1, <3>2, <4>1
    <3>3. QED
      BY <3>1, <3>2
  <2>2. QED
    BY <1>2, <1>3, <2>1 DEF TypeOK
<1>5. Control'
  BY <1>2 DEF Control, Walking, LastNode, NoEscalation, Empty
<1>6. Ordered' /\ Linked' /\ Answered' /\ Escalated' /\ Follows'
  BY <1>2 DEF Ordered, Linked, Answered, Escalated, Follows, LastNode, TypeIs
<1>7. Tasked'
  <2>1. SUFFICES ASSUME pc = "await"
                 PROVE  Tasked'
    BY <1>2 DEF Tasked
  <2>2. tasks[i] = [node |-> tasks[i].node, state |-> tasks[i].state, answer |-> tasks[i].answer]
    BY DEF TypeOK
  <2>3. \A j \in DOMAIN tasks : tasks'[j].node = tasks[j].node
    BY <1>1, <1>3, <2>2
  <2>4. tasks[i].node \in NodeId
    <3>1. cur \in Nodes(dag) /\ IsDag(dag)
      BY <2>1, Fresh
    <3>2. dag.nodes[cur].parallel \in Seq(NodeId) /\ cur \in NodeId
      BY <3>1, NodeFields DEF IsDag, Nodes
    <3>3. QED
      BY <2>1, <3>2 DEF Tasked
  <2>5. ASSUME NEW j \in DOMAIN tasks
        PROVE  tasks'[j].state = "answered" =>
                 tasks'[j].answer # NoAnswer /\ tasks'[j].answer.by = tasks'[j].node
    <3>1. CASE j # i
      BY <1>3, <2>1, <3>1 DEF Tasked
    <3>2. CASE j = i
      <4> DEFINE new == [reply EXCEPT !.by = tasks[i].node]
      <4>1. reply = [by |-> NoNode, choice |-> reply.choice, noul |-> reply.noul,
                     score |-> reply.score, confidence |-> reply.confidence,
                     route |-> reply.route]
        BY ReplyAssumption
      <4>2. new.by = tasks[i].node
        BY <4>1
      <4>3. new # NoAnswer
        BY <2>4, ReplyAssumption
      <4>4. tasks' = [tasks EXCEPT ![i].state = state,
                        ![i].answer = IF state = "answered" THEN new ELSE NoAnswer]
        BY <1>1
      <4> HIDE DEF new
      <4>5. /\ tasks'[i].state = state /\ tasks'[i].node = tasks[i].node
            /\ tasks'[i].answer = IF state = "answered" THEN new ELSE NoAnswer
        BY <2>2, <4>4
      <4>6. QED
        BY <3>2, <4>2, <4>3, <4>5
    <3>3. QED
      BY <3>1, <3>2
  <2>6. QED
    BY <1>2, <1>3, <2>1, <2>3, <2>5 DEF Tasked, TypeIs
<1>8. Recorded'
  BY <1>2 DEF Recorded, Walking, DoneNodes, TypeIs
<1>9. NoNodeRevisited' /\ PathFollowsSteps' /\ EscalationExplainsTrigger'
  BY <1>2 DEF NoNodeRevisited, PathFollowsSteps, EscalationExplainsTrigger, TypeIs
<1>10. QED
  BY <1>4, <1>5, <1>6, <1>7, <1>8, <1>9

LEMMA StutterStep ==
  ASSUME IInv, UNCHANGED vars
  PROVE  IInv'
<1> USE DEF IInv, vars
<1>1. TypeOK'
  BY DEF TypeOK
<1>2. Control'
  BY DEF Control, Walking, LastNode, NoEscalation, Empty
<1>3. Ordered' /\ Linked' /\ Answered' /\ Escalated' /\ Follows'
  BY DEF Ordered, Linked, Answered, Escalated, Follows, LastNode, TypeIs
<1>4. Tasked'
  BY DEF Tasked, TypeIs
<1>5. Recorded'
  BY DEF Recorded, Walking, DoneNodes, TypeIs
<1>6. NoNodeRevisited' /\ PathFollowsSteps' /\ EscalationExplainsTrigger'
  BY DEF NoNodeRevisited, PathFollowsSteps, EscalationExplainsTrigger, TypeIs
<1>7. QED
  BY <1>1, <1>2, <1>3, <1>4, <1>5, <1>6

(* The invariant is inductive. *)
LEMMA StepIInv == IInv /\ [Next]_vars => IInv'
<1> SUFFICES ASSUME IInv, [Next]_vars PROVE IInv'
  OBVIOUS
<1>1. CASE Execute
  BY <1>1, ExecuteStep
<1>2. CASE InferenceBegin
  BY <1>2, InferenceBeginStep
<1>3. CASE InferenceEnd
  BY <1>3, InferenceEndStep
<1>4. CASE BranchStep
  BY <1>4, BranchStepStep
<1>5. CASE ParallelBegin
  BY <1>5, ParallelBeginStep
<1>6. CASE ParallelEnd
  BY <1>6, ParallelEndStep
<1>7. CASE StepFails
  BY <1>7, StepFailsStep
<1>8. CASE EscalateStep
  BY <1>8, EscalateStepStep
<1>9. CASE Leave
  BY <1>9, LeaveStep
<1>10. ASSUME NEW i \in DOMAIN tasks, TaskEnds(i)
       PROVE  IInv'
  BY <1>10, TaskEndsStep
<1>11. CASE Timeout
  BY <1>11, TimeoutStep
<1>12. CASE UNCHANGED vars
  BY <1>12, StutterStep
<1>13. QED
  BY <1>1, <1>2, <1>3, <1>4, <1>5, <1>6, <1>7, <1>8, <1>9, <1>10, <1>11, <1>12 DEF Next, Over

(* The invariant holds of every run. *)
LEMMA Invariant == Spec => []IInv
<1>1. QED
  BY InitIInv, StepIInv, PTL DEF Spec

-----------------------------------------------------------------------------
(* The theorems. *)

(* The type invariant of DagExecutor holds for any definitions, limit and   *)
(* answers.                                                                 *)
THEOREM ExecutorTypeOK == Spec => []TypeOK
BY Invariant, PTL DEF IInv

(* executor.rs:147-386: the walk over an accepted definition never comes    *)
(* back to a node, nor reaches one that is missing.                         *)
THEOREM NeverRevisits == Spec => []NoNodeRevisited
BY Invariant, PTL DEF IInv

(* schema.rs:117-119,130-133: next_node of the recorded steps and the       *)
(* execution_path tell the same story.                                      *)
THEOREM PathIsFollowed == Spec => []PathFollowsSteps
BY Invariant, PTL DEF IInv

(* executor.rs:321-370: the gating and the prompt an escalation reports are *)
(* those of the Inference node that led to it.                              *)
THEOREM EscalationIsExplained == Spec => []EscalationExplainsTrigger
BY Invariant, PTL DEF IInv

(* executor.rs:186-205,274-308: exactly the visited nodes and their tasks   *)
(* are recorded, each with its own answer.                                  *)
THEOREM RecordsAreThePath == Spec => []RecordsMatchPath
<1>1. IInv => RecordsMatchPath
  <2>1. SUFFICES ASSUME IInv, pc \in {"loop", "left"} \/ outcome = "Ok"
                 PROVE  RecordsMatchPath
    BY DEF RecordsMatchPath
  <2>2. DoneNodes = Elems(path)
    BY <2>1 DEF IInv, Control, DoneNodes
  <2>3. Recorded
    BY <2>1 DEF IInv
  <2>4. QED
    BY <2>1, <2>2, <2>3 DEF Recorded, Walking, RecordsMatchPath
<1>2. QED
  BY <1>1, Invariant, PTL

(* executor.rs:195,282,298,372: no step of the walk overwrites what an      *)
(* earlier one recorded.                                                    *)
THEOREM NeverOverwrites == Spec => RecordedOnce
<1>1. IInv /\ [Next]_vars => [Grows]_vars
  <2>1. SUFFICES ASSUME IInv, Next PROVE Grows
    OBVIOUS
  <2>2. CASE InferenceEnd \/ BranchStep \/ ParallelEnd \/ EscalateStep
    BY <2>1, <2>2, InferenceEndStep, BranchStepStep, ParallelEndStep, EscalateStepStep
  <2>3. CASE steps' = steps
    BY <2>3 DEF Grows
  <2>4. QED
    BY <2>1, <2>2, <2>3 DEF Next, Over, Execute, InferenceBegin, ParallelBegin, StepFails,
                            Leave, TaskEnds, Timeout, vars, walk
<1>2. QED
  BY <1>1, Invariant, PTL DEF Spec, RecordedOnce, Grows

\* The limit is reported when as many nodes have been visited, and only then.
Limited == /\ outcome = "StepLimitExceeded" => step_count >= MaxSteps
           /\ outcome = "Ok" => step_count < MaxSteps

LEMMA InitLimited == Init => Limited
BY DEF Init, Limited

LEMMA StepLimited == IInv /\ Limited /\ [Next]_vars => Limited'
<1>1. SUFFICES ASSUME IInv, Limited, [Next]_vars, outcome' \in {"StepLimitExceeded", "Ok"}
             PROVE  Limited'
  BY DEF Limited
<1>2. CASE Leave
  BY <1>1, <1>2, LeaveReturns DEF walk, Limited
<1>3. CASE UNCHANGED <<outcome, step_count>>
  BY <1>1, <1>3 DEF Limited
<1>4. ASSUME NEW type, Visit(type)
      PROVE  FALSE
  BY <1>1, <1>4, VisitLeads
<1>5. QED
  BY <1>1, <1>2, <1>3, <1>4
     DEF Next, Over, Execute, InferenceBegin, InferenceEnd, BranchStep, ParallelBegin,
         ParallelEnd, StepFails, EscalateStep, TaskEnds, Timeout, Return, vars, walk

(* executor.rs:388: an answered walk took fewer steps than the limit, one   *)
(* that is refused for it took exactly as many.                             *)
THEOREM LimitIsExact == Spec => []LimitIsReached
<1>1. IInv /\ Limited => LimitIsReached
  BY MaxStepsAssumption DEF IInv, TypeOK, Limited, LimitIsReached
<1>2. QED
  BY <1>1, InitLimited, StepLimited, Invariant, PTL DEF Spec

(* executor.rs:147,388: the step limit never cuts the walk over a definition *)
(* that has fewer nodes than the limit.                                      *)
THEOREM LimitIsNotSpurious == Spec => []NoSpuriousStepLimit
<1>1. IInv /\ Limited => NoSpuriousStepLimit
  <2>1. SUFFICES ASSUME IInv, Limited, outcome = "StepLimitExceeded",
                        Cardinality(Nodes(dag)) < MaxSteps
                 PROVE  FALSE
    BY DEF NoSpuriousStepLimit
  <2>2. /\ step_count = Len(path) /\ step_count \in Nat /\ step_count >= MaxSteps
        /\ path \in Seq(Nodes(dag)) /\ \A i, j \in DOMAIN path : path[i] = path[j] => i = j
        /\ IsFiniteSet(Nodes(dag)) /\ MaxSteps \in Nat
    BY <2>1, DagsAssumption, MaxStepsAssumption
       DEF IInv, TypeOK, Control, NoNodeRevisited, Limited, IsDag, Nodes
  <2>3. /\ Cardinality(Nodes(dag)) \in Nat
        /\ IsFiniteSet(1..step_count) /\ Cardinality(1..step_count) = step_count
    <3>1. Cardinality(Nodes(dag)) \in Nat
      BY <2>2, FS_CardinalityType
    <3>2. step_count \in Int /\ 1 \in Int
      BY <2>2
    <3>3. /\ IsFiniteSet(1..step_count)
          /\ Cardinality(1..step_count) = IF 1 > step_count THEN 0 ELSE step_count - 1 + 1
      BY <3>2, FS_Interval
    <3>4. QED
      BY <2>2, <3>1, <3>3
  <2>4. Cardinality(1..step_count) > Cardinality(Nodes(dag))
    BY <2>1, <2>2, <2>3
  <2>5. path \in [1..step_count -> Nodes(dag)]
    BY <2>2
  <2>6. \E i, j \in 1..step_count : i # j /\ path[i] = path[j]
    BY <2>2, <2>3, <2>4, <2>5, FS_PigeonHole
  <2>7. QED
    BY <2>2, <2>6
<1>2. QED
  BY <1>1, InitLimited, StepLimited, Invariant, PTL DEF Spec

(* DagWalk allows every step that visits a node. *)
LEMMA VisitIsAllowed ==
  ASSUME IInv, NEW type, Visit(type)
  PROVE  Abstract!Next
<1>1. /\ pc = "loop" /\ path' = Append(path, cur) /\ cur \in Nodes(dag)
      /\ cur \notin DOMAIN steps /\ IsDag(dag)
      /\ UNCHANGED <<dag, outcome>> /\ outcome = "none"
  BY Fresh DEF Visit, IInv, Control
<1>2. cur \notin Abstract!Elems(path)
  <2>1. Elems(path) \subseteq DOMAIN steps
    BY <1>1 DEF IInv, Recorded, Walking, DoneNodes
  <2>2. QED
    BY <1>1, <2>1 DEF Elems, Abstract!Elems
<1>3. IF path = <<>> THEN cur = dag.entry ELSE cur \in Abstract!NextNodes(dag, Abstract!Last)
  <2>1. CASE path = <<>>
    BY <1>1, <2>1 DEF IInv, Control
  <2>2. CASE path # <<>>
    <3>1. cur \in NextNodes(dag, LastNode) /\ Abstract!Last = LastNode
      BY <1>1, <2>2 DEF IInv, Follows, Abstract!Last, LastNode
    <3>2. NextNodes(dag, LastNode) = Abstract!NextNodes(dag, LastNode)
      BY DEF NextNodes, Abstract!NextNodes, Targets, Abstract!Targets, Elems, Abstract!Elems
    <3>3. QED
      BY <2>2, <3>1, <3>2
  <2>3. QED
    BY <2>1, <2>2
<1>4. Result = "none" /\ Result' = "none"
  BY <1>1 DEF Result
<1>5. cur \in NodeId
  BY <1>1 DEF IsDag, Nodes
<1>6. Abstract!Visit(cur)
  BY <1>1, <1>2, <1>3, <1>4 DEF Abstract!Visit
<1>7. QED
  BY <1>5, <1>6 DEF Abstract!Next

(* Every step is one that DagWalk allows, or changes nothing of what it     *)
(* sees.                                                                    *)
LEMMA StepIsAllowed == IInv /\ IInv' /\ [Next]_vars => [Abstract!Next]_(Abstract!vars)
<1> SUFFICES ASSUME IInv, IInv', [Next]_vars
             PROVE  Abstract!Next \/ UNCHANGED <<dag, path, Result>>
  BY DEF Abstract!vars
<1>1. CASE InferenceBegin \/ ParallelBegin \/ BranchStep \/ EscalateStep
  BY <1>1, VisitIsAllowed DEF InferenceBegin, ParallelBegin, BranchStep, EscalateStep
<1>2. ASSUME outcome = "none", UNCHANGED <<dag, path>>,
             outcome' \in {"Validation", "StepLimitExceeded", "Timeout", "Runtime",
                           "ExecutionFailed"}
      PROVE  Abstract!Next
  <2>1. Result = "none" /\ Result' = "error"
    BY <1>2 DEF Result
  <2>2. QED
    BY <1>2, <2>1 DEF Abstract!Next, Abstract!Fail
<1>3. CASE Execute \/ StepFails \/ Timeout
  BY <1>2, <1>3 DEF Execute, StepFails, Timeout, Return, walk, IInv, Control, Result
<1>4. CASE Leave
  <2>1. /\ outcome = "none" /\ UNCHANGED <<dag, path, escalation>>
        /\ \/ outcome' = "StepLimitExceeded"
           \/ outcome' = "Ok" /\ pc = "left"
    BY <1>4, LeaveReturns DEF walk, IInv, Control, Leave
  <2>2. CASE outcome' = "StepLimitExceeded"
    BY <1>2, <2>1, <2>2
  <2>3. CASE outcome' = "Ok" /\ pc = "left"
    <3>1. path # <<>> /\ (escalation.escalated <=> TypeIs(dag, LastNode, "Escalate"))
      BY <2>3 DEF IInv, Escalated
    <3>2. /\ Result = "none"
          /\ Result' = IF escalation.escalated THEN "escalated" ELSE "completed"
      BY <2>1, <2>3 DEF Result
    <3>3. Abstract!TypeIs(dag, Abstract!Last, "Escalate") <=> TypeIs(dag, LastNode, "Escalate")
      BY DEF Abstract!TypeIs, TypeIs, Abstract!Last, LastNode
    <3>4. Abstract!Report
      BY <2>1, <3>1, <3>2, <3>3 DEF Abstract!Report
    <3>5. QED
      BY <3>4 DEF Abstract!Next
  <2>4. QED
    BY <2>1, <2>2, <2>3
<1>5. CASE InferenceEnd \/ ParallelEnd \/ UNCHANGED vars
  BY <1>5 DEF InferenceEnd, ParallelEnd, vars, Result
<1>6. ASSUME NEW i \in DOMAIN tasks, TaskEnds(i)
      PROVE  UNCHANGED <<dag, path, Result>>
  BY <1>6 DEF TaskEnds, walk, Result
<1>7. QED
  BY <1>1, <1>3, <1>4, <1>5, <1>6 DEF Next, Over

(* executor.rs:101-123: execute is a walk as DagWalk describes it.          *)
THEOREM ExecutorImplementsWalk == Spec => ImplementsWalk
<1>1. Init => Abstract!Init
  BY DEF Init, Abstract!Init, Result
<1>2. QED
  BY <1>1, StepIsAllowed, Invariant, PTL DEF Spec, ImplementsWalk, Abstract!Spec

(* executor.rs:125-405: a result is a true account of the walk, for any     *)
(* definition and any answers.                                              *)
THEOREM RunsAreAccountedFor == Spec => []RunIsAccountedFor
BY NeverRevisits, PathIsFollowed, RecordsAreThePath, EscalationIsExplained,
   LimitIsNotSpurious, LimitIsExact, PTL DEF RunIsAccountedFor

-----------------------------------------------------------------------------
(* Rules and their negations.                                              *)

LEMMA CompareNegated ==
  ASSUME NEW op \in Comparison, NEW x \in Int, NEW t \in Int
  PROVE  Compare(Negated[op], x, t) <=> ~ Compare(op, x, t)
BY DEF Compare, Near, Negated, Comparison, Equality

LEMMA SameNegated ==
  ASSUME NEW op \in Equality, NEW x, NEW y
  PROVE  SameOrNot(Negated[op], x, y) <=> ~ SameOrNot(op, x, y)
BY DEF SameOrNot, Negated, Equality

LEMMA PlainNegated ==
  ASSUME NEW op \in DOMAIN Negated
  PROVE  Plain(op) \in Comparison /\ Plain(Negated[op]) = Negated[Plain(op)]
BY DEF Plain, Negated, Comparison, Equality

LEMMA AnswerFacts ==
  ASSUME NEW a \in Answers
  PROVE  /\ a # NoAnswer
         /\ IsNoul(a) => a.noul \in Int
         /\ IsScore(a) => a.score \in Int
         /\ ConfidenceOf(a) \in Int /\ ConfidenceOf(a) = OrZero(a.confidence)
BY NumbersAssumption, AnswersAssumption DEF IsNoul, IsScore, ConfidenceOf, OrZero

LEMMA ContextFacts ==
  ASSUME NEW a
  PROVE  /\ DOMAIN Context(a) = {AskedNode}
         /\ Context(a)[AskedNode] = ContextValue(a)
         /\ ContextValue(a).confidence = OrZero(a.confidence)
         /\ IsChoice(a) => ContextValue(a).text = a.choice
         /\ ~ IsChoice(a) /\ IsNoul(a) =>
              ContextValue(a).text = Word(IF Truth(a) THEN "true" ELSE "false")
BY DEF Context, ContextValue

LEMMA NumberFacts ==
  ASSUME NEW c \in Splits, Tag(c.value) = "num"
  PROVE  NumberOr0(c.value) = Held(c.value) /\ Held(c.value) \in Int
BY NumbersAssumption DEF NumberOr0, Splits

(* The negation of a suitable rule matches where the rule does not.        *)
LEMMA NegationDecides ==
  ASSUME NEW c \in Splits, NEW a \in Answers, Suits(c, a)
  PROVE  Matches(Complement(c), a, Context(a)) <=> ~ Matches(c, a, Context(a))
<1> DEFINE n == Complement(c)
           ctx == Context(a)
<1>1. /\ c.op \in DOMAIN Negated
      /\ n.field = c.field /\ n.node = c.node /\ n.value = c.value /\ n.op = Negated[c.op]
  BY DEF Splits, Complement
<1>2. Equality \subseteq DOMAIN Negated /\ Comparison \subseteq DOMAIN Negated
  BY DEF Equality, Comparison, Negated
<1> SUFFICES Matches(n, a, ctx) <=> ~ Matches(c, a, ctx)
  OBVIOUS
<1> HIDE DEF n, ctx
<1>3. CASE c.field = "confidence"
  <2>1. Tag(c.value) = "num"
    BY <1>3 DEF Suits
  <2>2. Compare(Plain(n.op), ConfidenceOf(a), NumberOr0(c.value))
          <=> ~ Compare(Plain(c.op), ConfidenceOf(a), NumberOr0(c.value))
    BY <1>1, <2>1, CompareNegated, PlainNegated, AnswerFacts, NumberFacts
  <2>3. QED
    BY <1>1, <1>3, <2>2 DEF Matches
<1>4. CASE c.field = "route"
  <2>1. c.op \in Equality
    BY <1>4 DEF Suits
  <2>2. QED
    BY <1>1, <1>4, <2>1, SameNegated DEF Matches
<1>5. CASE c.field = "node.value"
  <2>1. c.op \in Equality /\ c.node = AskedNode
    BY <1>5 DEF Suits
  <2>2. MatchesContext(n, ContextValue(a)) <=> ~ MatchesContext(c, ContextValue(a))
    BY <1>1, <1>5, <2>1, SameNegated DEF MatchesContext
  <2>3. \A r : r.field = "node.value" /\ r.node = AskedNode =>
                 (Matches(r, a, ctx) <=> MatchesContext(r, ContextValue(a)))
    BY ContextFacts DEF Matches, ctx
  <2>4. QED
    BY <1>1, <1>5, <2>1, <2>2, <2>3
<1>6. CASE c.field = "node.confidence"
  <2>1. c.node = AskedNode /\ Tag(c.value) = "num" /\ Plain(c.op) \in {"Gte", "Lt"}
    BY <1>6 DEF Suits
  <2>2. Plain(n.op) = Negated[Plain(c.op)] /\ Plain(n.op) \in {"Gte", "Lt"}
    BY <1>1, <2>1, PlainNegated DEF Negated
  <2>3. Compare(Plain(n.op), OrZero(a.confidence), NumberOr0(c.value))
          <=> ~ Compare(Plain(c.op), OrZero(a.confidence), NumberOr0(c.value))
    BY <1>1, <2>1, <2>2, CompareNegated, PlainNegated, AnswerFacts, NumberFacts
  <2>4. MatchesContext(n, ContextValue(a)) <=> ~ MatchesContext(c, ContextValue(a))
    BY <1>1, <1>6, <2>1, <2>2, <2>3, ContextFacts DEF MatchesContext
  <2>5. \A r : r.field = "node.confidence" /\ r.node = AskedNode =>
                 (Matches(r, a, ctx) <=> MatchesContext(r, ContextValue(a)))
    BY ContextFacts DEF Matches, ctx
  <2>6. QED
    BY <1>1, <1>6, <2>1, <2>4, <2>5
<1>7. CASE c.field = "answer"
  <2>1. \A r : r.field = "answer" =>
          (Matches(r, a, ctx) <=>
             \/ IsNoul(a)   /\ MatchesNoul(r, a.noul)
             \/ IsChoice(a) /\ MatchesChoice(r, a.choice)
             \/ IsScore(a)  /\ MatchesScore(r, a.score))
    BY AnswerFacts DEF Matches
  <2>2. CASE IsChoice(a) /\ Tag(c.value) = "text" /\ c.op \in Equality
    <3>1. ~ IsNoul(a) /\ ~ IsScore(a)
      BY <2>2, AnswersAssumption
    <3>2. MatchesChoice(n, a.choice) <=> ~ MatchesChoice(c, a.choice)
      BY <1>1, <2>2, SameNegated DEF MatchesChoice, Negated, Equality
    <3>3. QED
      BY <1>1, <1>7, <2>1, <2>2, <3>1, <3>2
  <2>3. CASE IsNoul(a) /\ IsBoolean(c.value) /\ c.op \in Equality
    <3>1. ~ IsChoice(a) /\ ~ IsScore(a)
      BY <2>3, AnswersAssumption
    <3>2. MatchesNoul(n, a.noul) <=> ~ MatchesNoul(c, a.noul)
      <4>1. IsBoolean(n.value)
        BY <1>1, <2>3
      <4>2. QED
        BY <1>1, <2>3, <4>1, SameNegated DEF MatchesNoul
    <3>3. QED
      BY <1>1, <1>7, <2>1, <2>3, <3>1, <3>2
  <2>4. CASE IsNoul(a) /\ ~ IsBoolean(c.value) /\ Tag(c.value) = "num" /\ c.op \in Comparison
    <3>1. ~ IsChoice(a) /\ ~ IsScore(a)
      BY <2>4, AnswersAssumption
    <3>2. Compare(n.op, a.noul, Held(c.value)) <=> ~ Compare(c.op, a.noul, Held(c.value))
      BY <1>1, <2>4, CompareNegated, AnswerFacts, NumberFacts
    <3>3. MatchesNoul(n, a.noul) <=> ~ MatchesNoul(c, a.noul)
      BY <1>1, <2>4, <3>2 DEF MatchesNoul
    <3>4. QED
      BY <1>1, <1>7, <2>1, <2>4, <3>1, <3>3
  <2>5. CASE IsScore(a) /\ Tag(c.value) = "num" /\ c.op \in Comparison
    <3>1. ~ IsChoice(a) /\ ~ IsNoul(a)
      BY <2>5, AnswersAssumption
    <3>2. MatchesScore(n, a.score) <=> ~ MatchesScore(c, a.score)
      BY <1>1, <2>5, CompareNegated, AnswerFacts, NumberFacts DEF MatchesScore
    <3>3. QED
      BY <1>1, <1>7, <2>1, <2>5, <3>1, <3>2
  <2>6. QED
    BY <1>7, <2>2, <2>3, <2>4, <2>5 DEF Suits
<1>8. QED
  BY <1>3, <1>4, <1>5, <1>6, <1>7 DEF Suits

(* The first of two rules that match.                                      *)
LEMMA TwoRules ==
  ASSUME NEW p, NEW q, NEW a, NEW ctx
  PROVE  EvaluateConditions(<<p, q>>, a, ctx) =
           IF Matches(p, a, ctx) THEN p.target
           ELSE IF Matches(q, a, ctx) THEN q.target ELSE NoNode
<1> DEFINE conds == <<p, q>>
           hits == {i \in DOMAIN conds : Matches(conds[i], a, ctx)}
           first == CHOOSE i \in hits : \A j \in hits : i <= j
<1>1. DOMAIN conds = {1, 2} /\ conds[1] = p /\ conds[2] = q
  OBVIOUS
<1>2. EvaluateConditions(conds, a, ctx) = IF hits = {} THEN NoNode ELSE conds[first].target
  BY DEF EvaluateConditions
<1>3. /\ hits \subseteq {1, 2}
      /\ 1 \in hits <=> Matches(p, a, ctx)
      /\ 2 \in hits <=> Matches(q, a, ctx)
  BY <1>1
<1> SUFFICES EvaluateConditions(conds, a, ctx) =
               IF Matches(p, a, ctx) THEN p.target
               ELSE IF Matches(q, a, ctx) THEN q.target ELSE NoNode
  OBVIOUS
<1> HIDE DEF hits, conds
<1>4. CASE 1 \in hits
  <2>1. \A j \in hits : 1 <= j
    BY <1>3
  <2>2. \A i \in hits : (\A j \in hits : i <= j) => i = 1
    BY <1>3, <1>4
  <2>3. first = 1
    BY <1>4, <2>1, <2>2
  <2>4. QED
    BY <1>1, <1>2, <1>3, <1>4, <2>3
<1>5. CASE 1 \notin hits /\ 2 \in hits
  <2>1. hits = {2}
    BY <1>3, <1>5
  <2>2. \A j \in hits : 2 <= j
    BY <2>1
  <2>3. first = 2
    BY <2>1, <2>2
  <2>4. QED
    BY <1>1, <1>2, <1>3, <1>5, <2>3
<1>6. CASE hits = {}
  BY <1>2, <1>3, <1>6
<1>7. QED
  BY <1>3, <1>4, <1>5, <1>6

LEMMA SplitGoesOneWay ==
  ASSUME NEW c \in Splits, NEW a \in Answers, Suits(c, a)
  PROVE  LET n == Complement(c)
             way == EvaluateConditions(<<c, n>>, a, Context(a))
         IN  way # NoNode /\ way = EvaluateConditions(<<n, c>>, a, Context(a))
<1>1. c.target # NoNode /\ Complement(c).target # NoNode
  BY ConditionAssumption, TargetAssumption, NoNodeAssumption DEF Splits, Complement
<1>2. QED
  BY <1>1, NegationDecides, TwoRules

(* What a later node sees of an answer is what the node itself decides on. *)
LEMMA RecordAgrees ==
  ASSUME NEW c \in Splits, NEW a \in Answers, Suits(c, a)
  PROVE  /\ /\ c.field = "node.value"
            /\ IsChoice(a) \/ (IsNoul(a) /\ IsBoolean(c.value))
            => (Matches(c, NoAnswer, Context(a)) <=> Matches(Asking(c, "answer"), a, <<>>))
         /\ c.field = "node.confidence" =>
              (Matches(c, NoAnswer, Context(a)) <=> Matches(Asking(c, "confidence"), a, <<>>))
<1>1. ASSUME NEW f \in {"answer", "confidence"}
      PROVE  LET r == Asking(c, f) IN
             r.field = f /\ r.node = c.node /\ r.op = c.op /\ r.value = c.value
  BY DEF Asking
<1>2. ASSUME c.field \in {"node.value", "node.confidence"}
      PROVE  /\ c.node = AskedNode
             /\ Matches(c, NoAnswer, Context(a)) <=> MatchesContext(c, ContextValue(a))
  <2>1. c.node = AskedNode
    BY <1>2 DEF Suits
  <2>2. QED
    BY <1>2, <2>1, ContextFacts DEF Matches
<1>3. ASSUME c.field = "node.value", IsChoice(a) \/ (IsNoul(a) /\ IsBoolean(c.value))
      PROVE  Matches(c, NoAnswer, Context(a)) <=> Matches(Asking(c, "answer"), a, <<>>)
  <2> DEFINE r == Asking(c, "answer")
  <2>1. r.field = "answer" /\ r.op = c.op /\ r.value = c.value
    BY <1>1
  <2> HIDE DEF r
  <2>2. Tag(c.value) = "text" /\ c.op \in Equality
    BY <1>3 DEF Suits
  <2>3. MatchesContext(c, ContextValue(a)) <=> SameOrNot(c.op, ContextValue(a).text, Held(c.value))
    BY <1>3, <2>2 DEF MatchesContext, TextOrEmpty
  <2>4. CASE IsChoice(a)
    <3>1. ~ IsNoul(a) /\ ~ IsScore(a) /\ ContextValue(a).text = a.choice
      BY <2>4, AnswersAssumption, ContextFacts
    <3>2. MatchesChoice(r, a.choice) <=> SameOrNot(c.op, a.choice, Held(c.value))
      BY <2>1, <2>2 DEF MatchesChoice, TextOrEmpty, Equality
    <3>3. Matches(r, a, <<>>) <=> MatchesChoice(r, a.choice)
      BY <2>1, <2>4, <3>1, AnswerFacts DEF Matches
    <3>4. QED
      BY <1>2, <1>3, <2>3, <3>1, <3>2, <3>3 DEF r
  <2>5. CASE IsNoul(a) /\ IsBoolean(c.value)
    <3>1. ~ IsChoice(a) /\ ~ IsScore(a)
      BY <2>5, AnswersAssumption
    <3>2. ContextValue(a).text = Word(IF Truth(a) THEN "true" ELSE "false")
      BY <2>5, <3>1, ContextFacts
    <3>3. Held(c.value) \in {Word("true"), Word("false")}
      BY <2>2, <2>5 DEF IsBoolean
    <3>4. Word("true") # Word("false")
      BY DEF Word
    <3>5. (ContextValue(a).text = Held(c.value)) <=> (Truth(a) <=> Held(c.value) = Word("true"))
      BY <3>2, <3>3, <3>4
    <3>6. MatchesNoul(r, a.noul) <=>
            \/ c.op = "Eq"  /\ (Truth(a) <=> Held(c.value) = Word("true"))
            \/ c.op = "Neq" /\ ~ (Truth(a) <=> Held(c.value) = Word("true"))
      BY <2>1, <2>2, <2>5, AnswerFacts, NumbersAssumption DEF MatchesNoul, SameOrNot, Truth
    <3>7. Matches(r, a, <<>>) <=> MatchesNoul(r, a.noul)
      BY <2>1, <2>5, <3>1, AnswerFacts DEF Matches
    <3>8. QED
      BY <1>2, <1>3, <2>3, <3>5, <3>6, <3>7 DEF r, SameOrNot
  <2>6. QED
    BY <1>3, <2>4, <2>5 DEF r
<1>4. ASSUME c.field = "node.confidence"
      PROVE  Matches(c, NoAnswer, Context(a)) <=> Matches(Asking(c, "confidence"), a, <<>>)
  <2>1. Plain(c.op) \in {"Gte", "Lt"}
    BY <1>4 DEF Suits
  <2>2. MatchesContext(c, ContextValue(a)) <=>
          Compare(Plain(c.op), ConfidenceOf(a), NumberOr0(c.value))
    BY <1>4, <2>1, ContextFacts, AnswerFacts DEF MatchesContext
  <2>3. QED
    BY <1>1, <1>2, <1>4, <2>2 DEF Matches
<1>5. QED
  BY <1>3, <1>4

RulesIInv ==
  /\ answer \in Answers /\ rule \in Splits
  /\ asked => /\ chosen = EvaluateConditions(<<rule, Complement(rule)>>, answer, Context(answer))
              /\ swapped = EvaluateConditions(<<Complement(rule), rule>>, answer, Context(answer))

(* executor.rs:408-586: for all numbers, texts and targets, a rule and its  *)
(* negation are decisive in either order, and a later node that refers to   *)
(* the answer decides as the node itself did.                               *)
THEOREM RulesAreDecisive == RulesSpec => []RulesDecideAlike
<1>1. RulesInit => RulesIInv
  BY DEF RulesInit, RulesIInv
<1>2. RulesIInv /\ [RulesNext]_ruleVars => RulesIInv'
  BY DEF RulesIInv, RulesNext, Evaluate, ruleVars
<1>3. RulesIInv => RulesDecideAlike
  <2>1. RulesIInv => SplitIsDecisive
    BY SplitGoesOneWay DEF RulesIInv, SplitIsDecisive
  <2>2. RulesIInv => ReferenceAgrees
    BY RecordAgrees DEF RulesIInv, ReferenceAgrees, LaterDecides
  <2>3. QED
    BY <2>1, <2>2 DEF RulesDecideAlike
<1>4. QED
  BY <1>1, <1>2, <1>3, PTL DEF RulesSpec
=============================================================================

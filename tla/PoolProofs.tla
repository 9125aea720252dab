----------------------------- MODULE PoolProofs ------------------------------
(***************************************************************************)
(* Proofs about the two pools, for any finite sets of clients and items    *)
(* and for any callers and any number of sessions.                         *)
(*                                                                         *)
(* ResourcePool: the queue and the semaphore are never equal in size, so   *)
(* that one item waits for each permit is not inductive.  What is: the     *)
(* items in the queue are as many as the free permits and the clients that *)
(* were given a permit but no item, or gave back their item but not their  *)
(* permit.                                                                 *)
(*                                                                         *)
(* SessionPool: a mutex and a guard are two sides of the same thing, kept  *)
(* in two places.  The inductive invariant says that they agree: a mutex   *)
(* is locked exactly while one caller has its guard, and only callers that *)
(* work have one.                                                          *)
(***************************************************************************)
EXTENDS ResourcePool, SessionPool, FiniteSetTheorems, TLAPS

PCs == {"idle", "waiting", "granted", "popping", "empty", "holding", "pushed"}

\* The clients with a permit and no item.
Owe(where) == {c \in Client : where[c] \in {"granted", "popping", "pushed"}}

Once == \A i, j \in DOMAIN waiters : waiters[i] = waiters[j] => i = j

Guarded == \A c \in Client : item[c] # NoItem <=> pc[c] = "holding"

Counted == stock # {} => Cardinality(queue) = permits + Cardinality(Owe(pc))

\* What the semaphore does: it keeps no permit while a client waits.
NoBarging == permits > 0 => waiters = <<>>

IInv == /\ TypeOK /\ Once /\ Guarded /\ NothingLost
        /\ Counted /\ NoQueueEmpty /\ NoBarging

-----------------------------------------------------------------------------
(* A client that had a permit and no item no longer does: one fewer. *)
LEMMA OneLess ==
  ASSUME NEW f \in [Client -> PCs], NEW c \in Client, NEW to \in PCs,
         f[c] \in {"granted", "popping", "pushed"},
         to \notin {"granted", "popping", "pushed"}
  PROVE  /\ Cardinality(Owe([f EXCEPT ![c] = to])) = Cardinality(Owe(f)) - 1
         /\ Cardinality(Owe(f)) \in Nat \ {0}
<1>1. Owe([f EXCEPT ![c] = to]) = Owe(f) \ {c}
  BY DEF Owe
<1>2. c \in Owe(f) /\ IsFiniteSet(Owe(f))
  BY ClientAssumption, FS_Subset DEF Owe
<1>3. QED
  BY <1>1, <1>2, FS_RemoveElement, FS_CardinalityType, FS_EmptySet

(* ... and one that now does: one more. *)
LEMMA OneMore ==
  ASSUME NEW f \in [Client -> PCs], NEW c \in Client, NEW to \in PCs,
         f[c] \notin {"granted", "popping", "pushed"},
         to \in {"granted", "popping", "pushed"}
  PROVE  /\ Cardinality(Owe([f EXCEPT ![c] = to])) = Cardinality(Owe(f)) + 1
         /\ Cardinality(Owe(f)) \in Nat
<1>1. Owe([f EXCEPT ![c] = to]) = Owe(f) \union {c}
  BY DEF Owe
<1>2. c \notin Owe(f) /\ IsFiniteSet(Owe(f))
  BY ClientAssumption, FS_Subset DEF Owe
<1>3. QED
  BY <1>1, <1>2, FS_AddElement, FS_CardinalityType

(* A move that does not concern the count. *)
LEMMA NoChange ==
  ASSUME NEW f \in [Client -> PCs], NEW c \in Client, NEW to \in PCs,
         f[c] \in {"granted", "popping", "pushed"}
           <=> to \in {"granted", "popping", "pushed"}
  PROVE  Owe([f EXCEPT ![c] = to]) = Owe(f)
BY DEF Owe

(* What a pool is created with is a finite set of items. *)
LEMMA StockFacts ==
  ASSUME stock \subseteq Items
  PROVE  /\ IsFiniteSet(stock) /\ NoItem \notin stock /\ Cardinality(stock) \in Nat
         /\ Capacity \in Nat /\ (stock # {} => Capacity = Cardinality(stock))
BY ItemsAssumption, FS_Subset, FS_CardinalityType DEF Capacity

(* The queue holds at most Capacity items, and fewer while an item is out. *)
LEMMA QueueSize ==
  ASSUME stock \subseteq Items, queue \subseteq stock
  PROVE  /\ IsFiniteSet(queue) /\ Cardinality(queue) \in Nat
         /\ \A i \in stock \ queue : Cardinality(queue) < Capacity
<1>1. IsFiniteSet(queue) /\ Cardinality(queue) \in Nat /\ Cardinality(stock) \in Nat
  BY StockFacts, FS_Subset, FS_CardinalityType
<1>2. ASSUME NEW i \in stock \ queue
      PROVE  Cardinality(queue) < Capacity
  <2>1. Cardinality(queue) < Cardinality(stock)
    BY StockFacts, FS_Subset, <1>1
  <2>2. QED
    BY <2>1, <1>1 DEF Capacity
<1>3. QED
  BY <1>1, <1>2

(* A permit released by a client that is done with it: it is handed to the *)
(* client that waited longest, or becomes free.                            *)
LEMMA ReleaseKeeps ==
  ASSUME TypeOK, Once, Guarded, NoBarging,
         NEW c \in Client, pc[c] \in {"granted", "empty", "pushed"},
         Release(Move(c, "idle")), UNCHANGED <<stock, queue, item>>
  PROVE  /\ TypeOK' /\ Once' /\ Guarded' /\ NoBarging'
         /\ pc[c] # "empty" =>
              permits' + Cardinality(Owe(pc')) = permits + Cardinality(Owe(pc))
         /\ \A d \in Client : pc'[d] = "empty" => pc[d] = "empty"
<1> DEFINE idle == [pc EXCEPT ![c] = "idle"]
<1>1. /\ pc \in [Client -> PCs] /\ idle \in [Client -> PCs]
      /\ permits \in Nat /\ waiters \in Seq(Client)
  BY DEF TypeOK, PCs
<1>0. pc[c] # "empty" => /\ Cardinality(Owe(idle)) = Cardinality(Owe(pc)) - 1
                         /\ Cardinality(Owe(pc)) \in Nat
  <2>1. SUFFICES ASSUME pc[c] # "empty"
                 PROVE  /\ Cardinality(Owe(idle)) = Cardinality(Owe(pc)) - 1
                        /\ Cardinality(Owe(pc)) \in Nat
    OBVIOUS
  <2>2. pc[c] \in {"granted", "popping", "pushed"} /\ "idle" \in PCs
    BY <2>1 DEF PCs
  <2>3. QED
    BY <1>1, <2>2, OneLess
<1>2. CASE waiters = <<>>
  <2>1. permits' = permits + 1 /\ pc' = idle /\ waiters' = waiters
    BY <1>2 DEF Release, Move
  <2>2. pc[c] # "empty" => permits' + Cardinality(Owe(pc')) = permits + Cardinality(Owe(pc))
    BY <1>0, <1>1, <2>1
  <2>3. TypeOK'
    <3>1. \A d \in Client : pc'[d] = "waiting" <=> pc[d] = "waiting"
      BY <1>1, <2>1
    <3>2. QED
      BY <1>1, <2>1, <3>1 DEF TypeOK, PCs
  <2>4. QED
    BY <1>1, <1>2, <2>1, <2>2, <2>3 DEF TypeOK, Once, Guarded, NoBarging
<1>3. CASE waiters # <<>>
  <2> DEFINE h == Head(waiters)
  <2>1. pc' = [idle EXCEPT ![h] = "granted"] /\ waiters' = Tail(waiters) /\ permits' = permits
    BY <1>3 DEF Release, Move
  <2>2. h = waiters[1] /\ 1 \in DOMAIN waiters /\ h \in Client
    BY <1>1, <1>3
  <2>3. pc[h] = "waiting" /\ h # c
    BY <2>2 DEF TypeOK
  <2>4. pc[c] # "empty" => Cardinality(Owe(pc')) = Cardinality(Owe(pc))
    <3>1. Cardinality(Owe(pc')) = Cardinality(Owe(idle)) + 1 /\ Cardinality(Owe(idle)) \in Nat
      <4>1. idle[h] = "waiting"
        BY <1>1, <2>2, <2>3
      <4>2. QED
        BY <1>1, <2>1, <2>2, <4>1, OneMore DEF PCs
    <3>2. QED
      BY <1>0, <3>1
  <2>5. /\ waiters' \in Seq(Client)
        /\ Len(waiters') = Len(waiters) - 1
        /\ \A i \in 1..Len(waiters') : waiters'[i] = waiters[i+1]
    BY <1>1, <1>3, <2>1
  <2>6. Once'
    BY <1>1, <2>5 DEF Once
  <2>7. \A d \in Client : pc'[d] = "waiting" <=> \E i \in DOMAIN waiters' : waiters'[i] = d
    <3> TAKE d \in Client
    <3>1. pc[d] = "waiting" <=> \E i \in DOMAIN waiters : waiters[i] = d
      BY DEF TypeOK
    <3>2. (\E i \in DOMAIN waiters' : waiters'[i] = d)
             <=> (\E i \in DOMAIN waiters : waiters[i] = d) /\ d # h
      <4>1. DOMAIN waiters = 1..Len(waiters) /\ DOMAIN waiters' = 1..Len(waiters')
            /\ Len(waiters) \in Nat
        BY <1>1, <2>5
      <4>2. ASSUME NEW i \in DOMAIN waiters', waiters'[i] = d
            PROVE  (\E k \in DOMAIN waiters : waiters[k] = d) /\ d # h
        <5>1. i + 1 \in DOMAIN waiters /\ waiters[i+1] = d /\ i + 1 # 1
          BY <2>5, <4>1, <4>2
        <5>2. QED
          BY <2>2, <5>1 DEF Once
      <4>3. ASSUME NEW i \in DOMAIN waiters, waiters[i] = d, d # h
            PROVE  \E k \in DOMAIN waiters' : waiters'[k] = d
        <5>1. i - 1 \in DOMAIN waiters' /\ waiters'[i-1] = d
          BY <2>2, <2>5, <4>1, <4>3
        <5>2. QED
          BY <5>1
      <4>4. QED
        BY <4>2, <4>3
    <3>3. pc'[d] = "waiting" <=> pc[d] = "waiting" /\ d # h
      BY <1>1, <2>1, <2>2, <2>3
    <3>4. QED
      BY <3>1, <3>2, <3>3
  <2>8. TypeOK'
    BY <1>1, <2>1, <2>2, <2>5, <2>7 DEF TypeOK, PCs
  <2>9. Guarded' /\ \A d \in Client : pc'[d] = "empty" => pc[d] = "empty"
    BY <1>1, <2>1, <2>2, <2>3 DEF Guarded
  <2>10. NoBarging'
    BY <1>1, <1>3, <2>1 DEF NoBarging
  <2>11. QED
    BY <2>1, <2>4, <2>6, <2>8, <2>9, <2>10
<1>4. QED
  BY <1>2, <1>3
-----------------------------------------------------------------------------
LEMMA InitIInv == Init => IInv
<1> SUFFICES ASSUME Init PROVE IInv
  OBVIOUS
<1>1. /\ stock \subseteq Items /\ NoItem \notin stock
      /\ Capacity \in Nat /\ (stock # {} => Capacity = Cardinality(stock))
  BY StockFacts DEF Init
<1>2. Owe(pc) = {}
  BY DEF Init, Owe
<1>3. TypeOK
  BY <1>1 DEF Init, TypeOK
<1>4. Counted
  <2>1. Cardinality(Owe(pc)) = 0
    BY <1>2, FS_EmptySet
  <2>2. stock # {} => permits = Cardinality(queue) /\ permits \in Nat
    BY <1>1 DEF Init
  <2>3. QED
    BY <2>1, <2>2 DEF Counted
<1>5. QED
  BY <1>1, <1>3, <1>4
     DEF Init, IInv, Once, Guarded, NothingLost, NoQueueEmpty, NoBarging

(* The waiting clients without c. *)
LEMMA WithoutKeeps ==
  ASSUME NEW c \in Client, waiters \in Seq(Client), Once,
         \E i \in DOMAIN waiters : waiters[i] = c,
         waiters' = Without(c)
  PROVE  /\ waiters' \in Seq(Client) /\ Once'
         /\ \A d \in Client : (\E i \in DOMAIN waiters' : waiters'[i] = d)
                             <=> (\E i \in DOMAIN waiters : waiters[i] = d) /\ d # c
<1> DEFINE at == CHOOSE i \in DOMAIN waiters : waiters[i] = c
           n  == Len(waiters)
<1>1. /\ at \in 1..n /\ waiters[at] = c
      /\ n \in Nat /\ DOMAIN waiters = 1..n
      /\ \A i \in 1..n : waiters[i] \in Client
  OBVIOUS
<1>2. waiters' = [i \in 1..(n-1) |-> IF i < at THEN waiters[i] ELSE waiters[i+1]]
  BY DEF Without
<1> HIDE DEF at, n
<1>3. DOMAIN waiters' = 1..(n-1) /\ waiters' \in Seq(Client)
  BY <1>1, <1>2
<1>4. Once'
  <2>1. SUFFICES ASSUME NEW i \in 1..(n-1), NEW j \in 1..(n-1), waiters'[i] = waiters'[j]
                 PROVE  i = j
    BY <1>3 DEF Once
  <2> DEFINE src(k) == IF k < at THEN k ELSE k + 1
  <2>2. ASSUME NEW k \in 1..(n-1)
        PROVE  src(k) \in DOMAIN waiters /\ waiters'[k] = waiters[src(k)]
    BY <1>1, <1>2
  <2>3. waiters[src(i)] = waiters[src(j)] /\ src(i) \in DOMAIN waiters /\ src(j) \in DOMAIN waiters
    BY <2>1, <2>2
  <2>4. src(i) = src(j)
    <3> HIDE DEF src
    <3>1. QED
      BY <2>3 DEF Once
  <2>5. QED
    BY <1>1, <2>4
<1>5. ASSUME NEW d \in Client, NEW i \in DOMAIN waiters', waiters'[i] = d
      PROVE  (\E k \in DOMAIN waiters : waiters[k] = d) /\ d # c
  <2>1. PICK k \in 1..n : k # at /\ waiters[k] = d
    BY <1>1, <1>2, <1>3, <1>5
  <2>2. QED
    BY <1>1, <2>1 DEF Once
<1>6. ASSUME NEW d \in Client, NEW i \in DOMAIN waiters, waiters[i] = d, d # c
      PROVE  \E k \in DOMAIN waiters' : waiters'[k] = d
  <2>1. i \in 1..n /\ i # at
    BY <1>1, <1>6
  <2>2. CASE i < at
    <3>1. i \in 1..(n-1) /\ waiters'[i] = d
      BY <1>1, <1>2, <1>6, <2>1, <2>2
    <3>2. QED
      BY <1>3, <3>1
  <2>3. CASE i > at
    <3>1. i - 1 \in 1..(n-1) /\ waiters'[i-1] = d
      BY <1>1, <1>2, <1>6, <2>1, <2>3
    <3>2. QED
      BY <1>3, <3>1
  <2>4. QED
    BY <1>1, <2>1, <2>2, <2>3
<1>7. QED
  BY <1>3, <1>4, <1>5, <1>6

-----------------------------------------------------------------------------
LEMMA StepIInv == IInv /\ [Next]_vars => IInv'
<1> SUFFICES ASSUME IInv, [Next]_vars PROVE IInv'
  OBVIOUS
<1> USE DEF IInv
<1>0. /\ pc \in [Client -> PCs] /\ permits \in Nat /\ waiters \in Seq(Client)
      /\ stock \subseteq Items /\ NoItem \notin stock /\ queue \subseteq stock /\ item \in [Client -> stock \union {NoItem}]
  BY StockFacts DEF TypeOK, PCs
<1>1. ASSUME NEW c \in Client, Acquire(c)
      PROVE  IInv'
  <2>1. CASE permits > 0
    <3>1. /\ permits' = permits - 1 /\ pc' = [pc EXCEPT ![c] = "popping"]
          /\ pc[c] = "idle" /\ UNCHANGED <<stock, waiters, queue, item>>
      BY <1>1, <2>1 DEF Acquire, Move
    <3>2. TypeOK' /\ Once' /\ Guarded' /\ NothingLost' /\ NoQueueEmpty' /\ NoBarging'
      BY <1>0, <2>1, <3>1
         DEF TypeOK, Once, Guarded, NothingLost, NoQueueEmpty, NoBarging
    <3>3. Cardinality(Owe(pc')) = Cardinality(Owe(pc)) + 1 /\ Cardinality(Owe(pc)) \in Nat
      BY <1>0, <3>1, OneMore DEF PCs
    <3>4. Counted'
      BY <1>0, <3>1, <3>3, QueueSize DEF Counted
    <3>5. QED
      BY <3>2, <3>4
  <2>2. CASE ~ (permits > 0)
    <3>1. /\ waiters' = Append(waiters, c) /\ pc' = [pc EXCEPT ![c] = "waiting"]
          /\ pc[c] = "idle" /\ UNCHANGED <<stock, permits, queue, item>>
      BY <1>1, <2>2 DEF Acquire, Move
    <3>2. \A i \in DOMAIN waiters : waiters[i] # c
      BY <3>1 DEF TypeOK
    <3>3. /\ waiters' \in Seq(Client) /\ DOMAIN waiters' = 1..(Len(waiters) + 1)
          /\ DOMAIN waiters = 1..Len(waiters) /\ Len(waiters) \in Nat
          /\ \A i \in DOMAIN waiters : waiters'[i] = waiters[i]
          /\ waiters'[Len(waiters) + 1] = c
      BY <1>0, <3>1
    <3>4. Once'
      BY <3>2, <3>3 DEF Once
    <3>5. \A d \in Client : pc'[d] = "waiting" <=> \E i \in DOMAIN waiters' : waiters'[i] = d
      <4> TAKE d \in Client
      <4>1. pc[d] = "waiting" <=> \E i \in DOMAIN waiters : waiters[i] = d
        BY DEF TypeOK
      <4>2. (\E i \in DOMAIN waiters' : waiters'[i] = d)
              <=> (\E i \in DOMAIN waiters : waiters[i] = d) \/ d = c
        BY <3>3
      <4>3. QED
        BY <1>0, <3>1, <4>1, <4>2
    <3>6. TypeOK'
      BY <1>0, <3>1, <3>3, <3>5 DEF TypeOK, PCs
    <3>7. Guarded' /\ NothingLost' /\ NoQueueEmpty' /\ NoBarging'
      BY <1>0, <2>2, <3>1 DEF Guarded, NothingLost, NoQueueEmpty, NoBarging
    <3>8. Counted'
      BY <1>0, <3>1, NoChange DEF Counted, PCs
    <3>9. QED
      BY <3>4, <3>6, <3>7, <3>8
  <2>3. QED
    BY <2>1, <2>2
<1>2. ASSUME NEW c \in Client, Wake(c)
      PROVE  IInv'
  <2>1. /\ pc' = [pc EXCEPT ![c] = "popping"] /\ pc[c] = "granted"
        /\ UNCHANGED <<stock, permits, waiters, queue, item>>
    BY <1>2 DEF Wake, Move
  <2>2. TypeOK' /\ Once' /\ Guarded' /\ NothingLost' /\ NoQueueEmpty' /\ NoBarging'
    BY <1>0, <2>1 DEF TypeOK, Once, Guarded, NothingLost, NoQueueEmpty, NoBarging
  <2>3. Counted'
    BY <1>0, <2>1, NoChange DEF Counted, PCs
  <2>4. QED
    BY <2>2, <2>3
\* A step that ends with Release, by a client that has no item.
<1>3. ASSUME NEW c \in Client, pc[c] \in {"granted", "empty", "pushed"},
             Release(Move(c, "idle")), UNCHANGED <<stock, queue, item>>
      PROVE  IInv'
  <2>1. /\ TypeOK' /\ Once' /\ Guarded' /\ NoBarging'
        /\ pc[c] # "empty" =>
             permits' + Cardinality(Owe(pc')) = permits + Cardinality(Owe(pc))
        /\ \A d \in Client : pc'[d] = "empty" => pc[d] = "empty"
    BY <1>3, ReleaseKeeps
  <2>2. Counted' /\ NoQueueEmpty'
    BY <1>3, <2>1 DEF Counted, NoQueueEmpty
  <2>3. NothingLost'
    BY <1>3 DEF NothingLost
  <2>4. QED
    BY <2>1, <2>2, <2>3
<1>4. ASSUME NEW c \in Client, GiveUp(c)
      PROVE  IInv'
  <2>1. CASE pc[c] = "waiting"
    <3>1. /\ waiters' = Without(c) /\ pc' = [pc EXCEPT ![c] = "idle"]
          /\ UNCHANGED <<stock, permits, queue, item>>
      BY <1>4, <2>1 DEF GiveUp, Move
    <3>2. \E i \in DOMAIN waiters : waiters[i] = c
      BY <2>1 DEF TypeOK
    <3>3. /\ waiters' \in Seq(Client) /\ Once'
          /\ \A d \in Client : (\E i \in DOMAIN waiters' : waiters'[i] = d)
                              <=> (\E i \in DOMAIN waiters : waiters[i] = d) /\ d # c
      BY <1>0, <3>1, <3>2, WithoutKeeps
    <3>4. \A d \in Client : pc'[d] = "waiting" <=> \E i \in DOMAIN waiters' : waiters'[i] = d
      <4> TAKE d \in Client
      <4>1. pc[d] = "waiting" <=> \E i \in DOMAIN waiters : waiters[i] = d
        BY DEF TypeOK
      <4>2. QED
        BY <1>0, <3>1, <3>3, <4>1
    <3>5. TypeOK'
      BY <1>0, <3>1, <3>3, <3>4 DEF TypeOK, PCs
    <3>6. NoBarging'
      BY <1>0, <3>1, <3>2 DEF NoBarging
    <3>7. Guarded' /\ NothingLost' /\ NoQueueEmpty'
      BY <1>0, <2>1, <3>1 DEF Guarded, NothingLost, NoQueueEmpty
    <3>8. Counted'
      BY <1>0, <2>1, <3>1, NoChange DEF Counted, PCs
    <3>9. QED
      BY <3>3, <3>5, <3>6, <3>7, <3>8
  <2>2. CASE pc[c] # "waiting"
    BY <1>3, <1>4, <2>2 DEF GiveUp
  <2>3. QED
    BY <2>1, <2>2
<1>5. ASSUME NEW c \in Client, Pop(c)
      PROVE  IInv'
  <2>1. PICK i \in queue : queue' = queue \ {i} /\ item' = [item EXCEPT ![c] = i]
    BY <1>5 DEF Pop
  <2>2. /\ pc[c] = "popping" /\ pc' = [pc EXCEPT ![c] = "holding"]
        /\ UNCHANGED <<stock, permits, waiters>>
    BY <1>5 DEF Pop, Move
  <2>3. i \in stock /\ i # NoItem /\ item[c] = NoItem
    BY <1>0, <2>2 DEF Guarded
  <2>4. TypeOK' /\ Once' /\ Guarded' /\ NoQueueEmpty' /\ NoBarging'
    BY <1>0, <2>1, <2>2, <2>3 DEF TypeOK, Once, Guarded, NoQueueEmpty, NoBarging
  <2>5. NothingLost'
    <3>1. \A d \in Client : item'[d] = IF d = c THEN i ELSE item[d]
      BY <1>0, <2>1
    <3>2. \A d \in Client : item[d] # i
      BY <2>1, <2>3 DEF NothingLost
    <3>3. ASSUME NEW k \in stock, k \notin queue'
          PROVE  \E d \in Client : item'[d] = k
      <4>1. CASE k = i
        BY <3>1, <4>1
      <4>2. CASE k # i
        <5>1. PICK d \in Client : item[d] = k
          BY <2>1, <3>3, <4>2 DEF NothingLost
        <5>2. d # c
          BY <2>3, <3>3, <5>1, <1>0
        <5>3. QED
          BY <3>1, <5>1, <5>2
      <4>3. QED
        BY <4>1, <4>2
    <3>4. \A d \in Client : item'[d] # NoItem =>
            item'[d] \notin queue' /\ \A e \in Client : item'[e] = item'[d] => e = d
      BY <2>1, <3>1, <3>2 DEF NothingLost
    <3>5. QED
      BY <2>2, <3>3, <3>4 DEF NothingLost
  <2>6. Counted'
    <3>1. Cardinality(Owe(pc')) = Cardinality(Owe(pc)) - 1 /\ Cardinality(Owe(pc)) \in Nat
      BY <1>0, <2>2, OneLess DEF PCs
    <3>2. Cardinality(queue') = Cardinality(queue) - 1 /\ Cardinality(queue) \in Nat
      BY <1>0, <2>1, QueueSize, FS_RemoveElement
    <3>3. QED
      BY <1>0, <2>2, <3>1, <3>2 DEF Counted
  <2>7. QED
    BY <2>4, <2>5, <2>6
<1>6. ASSUME NEW c \in Client, PopEmpty(c)
      PROVE  IInv'
  <2>1. /\ pc[c] = "popping" /\ queue = {} /\ pc' = [pc EXCEPT ![c] = "empty"]
        /\ UNCHANGED <<stock, queue, permits, waiters, item>>
    BY <1>6 DEF PopEmpty, Move
  <2>2. stock = {}
    <3>1. Cardinality(Owe(pc)) \in Nat \ {0}
      BY <1>0, <2>1, OneLess DEF PCs
    <3>2. QED
      BY <1>0, <2>1, <3>1, FS_EmptySet DEF Counted
  <2>3. TypeOK' /\ Once' /\ Guarded' /\ NothingLost' /\ NoBarging'
    BY <1>0, <2>1 DEF TypeOK, Once, Guarded, NothingLost, NoBarging
  <2>4. QED
    BY <2>1, <2>2, <2>3 DEF Counted, NoQueueEmpty
<1>7. ASSUME NEW c \in Client, FailEmpty(c)
      PROVE  IInv'
  BY <1>3, <1>7 DEF FailEmpty
<1>8. ASSUME NEW c \in Client, DropPush(c)
      PROVE  IInv'
  <2>1. /\ pc[c] = "holding" /\ pc' = [pc EXCEPT ![c] = "pushed"]
        /\ item' = [item EXCEPT ![c] = NoItem]
        /\ UNCHANGED <<stock, permits, waiters>>
    BY <1>8 DEF DropPush, Move
  <2>2. item[c] \in stock \ queue
    BY <1>0, <2>1 DEF Guarded, NothingLost
  <2>3. queue' = queue \union {item[c]}
    BY <1>0, <1>8, <2>2, QueueSize DEF DropPush
  <2>4. TypeOK' /\ Once' /\ Guarded' /\ NoQueueEmpty' /\ NoBarging'
    BY <1>0, <2>1, <2>2, <2>3 DEF TypeOK, Once, Guarded, NoQueueEmpty, NoBarging
  <2>5. NothingLost'
    <3>1. \A d \in Client : item'[d] = IF d = c THEN NoItem ELSE item[d]
      BY <1>0, <2>1
    <3>2. \A d \in Client : item'[d] # NoItem => item[d] # item[c]
      BY <1>0, <2>2, <3>1 DEF NothingLost
    <3>3. ASSUME NEW k \in stock, k \notin queue'
          PROVE  \E d \in Client : item'[d] = k
      <4>1. PICK d \in Client : item[d] = k
        BY <2>3, <3>3 DEF NothingLost
      <4>2. d # c
        BY <2>3, <3>3, <4>1
      <4>3. QED
        BY <3>1, <4>1, <4>2
    <3>4. \A d \in Client : item'[d] # NoItem =>
            item'[d] \notin queue' /\ \A e \in Client : item'[e] = item'[d] => e = d
      BY <2>3, <3>1, <3>2 DEF NothingLost
    <3>5. QED
      BY <2>1, <3>3, <3>4 DEF NothingLost
  <2>6. Counted'
    <3>1. Cardinality(Owe(pc')) = Cardinality(Owe(pc)) + 1 /\ Cardinality(Owe(pc)) \in Nat
      BY <1>0, <2>1, OneMore DEF PCs
    <3>2. Cardinality(queue') = Cardinality(queue) + 1 /\ Cardinality(queue) \in Nat
      BY <1>0, <2>2, <2>3, QueueSize, FS_AddElement
    <3>3. QED
      BY <1>0, <2>1, <3>1, <3>2 DEF Counted
  <2>7. QED
    BY <2>4, <2>5, <2>6
<1>9. ASSUME NEW c \in Client, DropRelease(c)
      PROVE  IInv'
  BY <1>3, <1>9 DEF DropRelease
<1>10. CASE UNCHANGED vars
  BY <1>10 DEF vars, TypeOK, Once, Guarded, NothingLost, Counted, NoQueueEmpty, NoBarging, Owe
<1>11. QED
  BY <1>1, <1>2, <1>4, <1>5, <1>6, <1>7, <1>8, <1>9, <1>10 DEF Next

(* The strengthened invariant holds throughout, and with it its parts. *)
LEMMA PoolInvariant == Spec => []IInv
BY InitIInv, StepIInv, PTL DEF Spec

(* TypeOK: the semaphore's queue is exactly the clients that wait. *)
THEOREM PoolTypeOK == Spec => []TypeOK
<1>1. IInv => TypeOK
  BY DEF IInv
<1>2. QED
  BY <1>1, PoolInvariant, PTL

(* No item is ever lost or in two places. *)
THEOREM PoolLosesNothing == Spec => []NothingLost
<1>1. IInv => NothingLost
  BY DEF IInv
<1>2. QED
  BY <1>1, PoolInvariant, PTL

(* A client with a permit finds an item, in a pool that was given one. *)
THEOREM PermitMeansItem == Spec => []NoQueueEmpty
<1>1. IInv => NoQueueEmpty
  BY DEF IInv
<1>2. QED
  BY <1>1, PoolInvariant, PTL

-----------------------------------------------------------------------------
(* Every step of the pool lends an item, takes one back, or does neither. *)
LEMMA StepLoans == IInv /\ [Next]_vars => [Loans!Next]_item
<1> SUFFICES ASSUME IInv, [Next]_vars PROVE [Loans!Next]_item
  OBVIOUS
<1> USE DEF IInv
<1>1. ASSUME NEW c \in Client, Pop(c)
      PROVE  Loans!Lend(c)
  <2>1. PICK i \in queue : item' = [item EXCEPT ![c] = i]
    BY <1>1 DEF Pop
  <2>2. i \in stock /\ i \in Items /\ i # NoItem /\ item[c] = NoItem
    BY <1>1, ItemsAssumption DEF Pop, TypeOK, Guarded
  <2>3. \A d \in Client : item[d] # i
    BY <2>2 DEF NothingLost
  <2>4. QED
    BY <2>1, <2>2, <2>3 DEF Loans!Lend
<1>2. ASSUME NEW c \in Client, DropPush(c)
      PROVE  Loans!GiveBack(c)
  BY <1>2 DEF DropPush, Loans!GiveBack, Guarded
<1>3. ASSUME NEW c \in Client,
             Acquire(c) \/ GiveUp(c) \/ Wake(c) \/ PopEmpty(c) \/ FailEmpty(c) \/ DropRelease(c)
      PROVE  UNCHANGED item
  BY <1>3 DEF Acquire, GiveUp, Wake, PopEmpty, FailEmpty, DropRelease
<1>4. CASE UNCHANGED vars
  BY <1>4 DEF vars
<1>5. QED
  BY <1>1, <1>2, <1>3, <1>4 DEF Next, Loans!Next

(* The queue and the semaphore implement the pool of PoolLoans. *)
THEOREM PoolImplementsLoans == Spec => ImplementsLoans
<1>1. Init => Loans!Init
  BY DEF Init, Loans!Init
<1>2. QED
  BY <1>1, StepLoans, PoolInvariant, PTL DEF Spec, ImplementsLoans, Loans!Spec

(* Permits and items stay in step, however many clients and items.         *)
THEOREM PermitsMatchItems == Spec => []PermitsStandForItems
BY PoolLosesNothing, PermitMeansItem, PTL DEF PermitsStandForItems

-----------------------------------------------------------------------------
(* The sessions of the engine. *)

Working(c) == stage[c] \in {"running", "refused"}

HasGuard == \A c \in Caller : session[c] # NoSession <=> Working(c)

Held == \A s \in Session : locked[s] <=> \E c \in Caller : session[c] = s

Alone == \A c, d \in Caller :
           session[c] # NoSession /\ session[c] = session[d] => c = d

SessionInv == SessionTypeOK /\ HasGuard /\ Held /\ Alone /\ PoisonedIsNotRun

-----------------------------------------------------------------------------
(* A remainder is an index of the pool, or a value of the counter. *)
LEMMA Remainders ==
  ASSUME NEW x \in Nat
  PROVE  x % N \in Session /\ x % Width \in 0..(Width - 1)
<1>1. N \in Nat /\ N > 0 /\ Width \in Nat /\ Width > 0
  BY PoolSizeAssumption, WidthAssumption DEF N
<1>2. \A n \in Nat : n > 0 => x % n \in 0..(n - 1)
  BY Z3
<1>3. QED
  BY <1>1, <1>2 DEF Session

(* The index a scan looks at is one of the pool. *)
LEMMA CandidateIsSession ==
  ASSUME SessionTypeOK, NEW c \in Caller
  PROVE  Candidate(c) \in Session
<1>1. start[c] \in Nat /\ offset[c] \in Nat
  BY DEF SessionTypeOK, Session
<1>2. QED
  BY <1>1, Remainders DEF Candidate

(* A caller with no guard takes a session that is not locked. *)
LEMMA TakeKeeps ==
  ASSUME SessionInv, NEW c \in Caller, NEW s \in Session, NEW to \in {"running", "refused"},
         ~Working(c), ~locked[s], to = "running" => ~poisoned[s],
         Take(c, s), MoveOn(c, to), UNCHANGED <<counter, poisoned, start, offset>>
  PROVE  SessionInv'
<1> USE NoSessionAssumption
<1>1. /\ session' = [session EXCEPT ![c] = s] /\ locked' = [locked EXCEPT ![s] = TRUE]
      /\ stage' = [stage EXCEPT ![c] = to]
  BY DEF Take, MoveOn
<1>2. SessionTypeOK'
  BY <1>1 DEF SessionInv, SessionTypeOK
<1>3. HasGuard'
  BY <1>1 DEF SessionInv, SessionTypeOK, HasGuard, Working
<1>4. \A d \in Caller : session[d] # s
  BY DEF SessionInv, Held
<1>5. Held'
  <2> SUFFICES ASSUME NEW t \in Session
               PROVE  locked'[t] <=> \E d \in Caller : session'[d] = t
    BY DEF Held
  <2>1. CASE t = s
    BY <1>1, <2>1 DEF SessionInv, SessionTypeOK
  <2>2. CASE t # s
    <3>1. locked'[t] <=> locked[t]
      BY <1>1, <2>2 DEF SessionInv, SessionTypeOK
    <3>2. session[c] = NoSession
      BY DEF SessionInv, HasGuard
    <3>3. \A d \in Caller : session'[d] = t <=> session[d] = t
      BY <1>1, <2>2, <3>2 DEF SessionInv, SessionTypeOK
    <3>4. QED
      BY <3>1, <3>3 DEF SessionInv, Held
  <2>3. QED
    BY <2>1, <2>2
<1>6. Alone'
  BY <1>1, <1>4 DEF SessionInv, SessionTypeOK, Alone
<1>7. PoisonedIsNotRun'
  BY <1>1 DEF SessionInv, SessionTypeOK, PoisonedIsNotRun
<1>8. QED
  BY <1>2, <1>3, <1>5, <1>6, <1>7 DEF SessionInv

(* A caller gives its session back, perhaps poisoned. *)
LEMMA GiveBackKeeps ==
  ASSUME SessionInv, NEW c \in Caller, Working(c),
         GiveBack(c), MoveOn(c, "idle"), UNCHANGED <<counter, start, offset>>,
         poisoned' \in {poisoned, [poisoned EXCEPT ![session[c]] = TRUE]}
  PROVE  SessionInv'
<1> USE NoSessionAssumption
<1> DEFINE s == session[c]
<1>1. /\ session' = [session EXCEPT ![c] = NoSession]
      /\ locked' = [locked EXCEPT ![s] = FALSE]
      /\ stage' = [stage EXCEPT ![c] = "idle"]
  BY DEF GiveBack, MoveOn
<1>2. s \in Session
  BY DEF SessionInv, SessionTypeOK, HasGuard
<1>3. SessionTypeOK'
  <2>1. poisoned' \in [Session -> BOOLEAN]
    BY <1>2 DEF SessionInv, SessionTypeOK
  <2>2. QED
    BY <1>1, <2>1 DEF SessionInv, SessionTypeOK
<1>4. HasGuard'
  BY <1>1 DEF SessionInv, SessionTypeOK, HasGuard, Working
<1>5. \A d \in Caller \ {c} : session[d] # s
  BY <1>2 DEF SessionInv, Alone
<1>6. Held'
  <2> SUFFICES ASSUME NEW t \in Session
               PROVE  locked'[t] <=> \E d \in Caller : session'[d] = t
    BY DEF Held
  <2>1. CASE t = s
    BY <1>1, <1>5, <2>1 DEF SessionInv, SessionTypeOK
  <2>2. CASE t # s
    <3>1. locked'[t] <=> locked[t]
      BY <1>1, <2>2 DEF SessionInv, SessionTypeOK
    <3>2. \A d \in Caller : session'[d] = t <=> session[d] = t
      BY <1>1, <2>2 DEF SessionInv, SessionTypeOK
    <3>3. QED
      BY <3>1, <3>2 DEF SessionInv, Held
  <2>3. QED
    BY <2>1, <2>2
<1>7. Alone'
  BY <1>1 DEF SessionInv, SessionTypeOK, Alone
<1>8. PoisonedIsNotRun'
  <2> SUFFICES ASSUME NEW d \in Caller, stage'[d] = "running"
               PROVE  ~poisoned'[session'[d]]
    BY DEF PoisonedIsNotRun
  <2>1. d # c /\ stage[d] = "running" /\ session'[d] = session[d]
    BY <1>1 DEF SessionInv, SessionTypeOK
  <2>2. ~poisoned[session[d]] /\ session[d] # s /\ session[d] \in Session
    BY <1>5, <2>1 DEF SessionInv, SessionTypeOK, PoisonedIsNotRun, HasGuard, Working
  <2>3. QED
    BY <1>2, <2>1, <2>2 DEF SessionInv, SessionTypeOK
<1>9. QED
  BY <1>3, <1>4, <1>6, <1>7, <1>8 DEF SessionInv

(* A caller that has no guard moves on without one. *)
LEMMA MoveKeeps ==
  ASSUME SessionInv, SessionTypeOK', NEW c \in Caller, NEW to \in {"scanning", "blocked"},
         ~Working(c), stage' = stage \/ stage' = [stage EXCEPT ![c] = to],
         UNCHANGED <<locked, poisoned, session>>
  PROVE  SessionInv'
<1>1. \A d \in Caller : /\ Working(d)' <=> Working(d)
                        /\ stage'[d] = "running" => stage[d] = "running"
  BY DEF SessionInv, SessionTypeOK, Working
<1>2. QED
  BY <1>1 DEF SessionInv, HasGuard, Held, Alone, PoisonedIsNotRun

-----------------------------------------------------------------------------
LEMMA InitSessionInv == SessionInit => SessionInv
<1> SUFFICES ASSUME SessionInit PROVE SessionInv
  OBVIOUS
<1>1. 0 \in Session
  BY PoolSizeAssumption DEF Session, N
<1>2. SessionTypeOK
  BY <1>1, WidthAssumption DEF SessionInit, SessionTypeOK
<1>3. QED
  BY <1>2, NoSessionAssumption
  DEF SessionInit, SessionInv, HasGuard, Working, Held, Alone, PoisonedIsNotRun

LEMMA StepSessionInv == SessionInv /\ [SessionNext]_sessionVars => SessionInv'
<1> SUFFICES ASSUME SessionInv, [SessionNext]_sessionVars PROVE SessionInv'
  OBVIOUS
<1>1. CASE UNCHANGED sessionVars
  BY <1>1 DEF sessionVars, SessionInv, SessionTypeOK, HasGuard, Working, Held, Alone, PoisonedIsNotRun
<1>2. ASSUME NEW c \in Caller, Begin(c) PROVE SessionInv'
  <2>1. counter \in Nat /\ 0 \in Session
    BY PoolSizeAssumption, WidthAssumption DEF SessionInv, SessionTypeOK, Session, N
  <2>2. counter % N \in Session /\ (counter + 1) % Width \in 0..(Width - 1)
    BY <2>1, Remainders
  <2>3. SessionTypeOK'
    BY <1>2, <2>1, <2>2 DEF SessionInv, SessionTypeOK, Begin, MoveOn
  <2>4. QED
    BY <1>2, <2>3, MoveKeeps DEF Begin, MoveOn, Working
<1>3. ASSUME NEW c \in Caller, TryHit(c) PROVE SessionInv'
  <2>1. Candidate(c) \in Session
    BY CandidateIsSession DEF SessionInv
  <2>2. QED
    BY <1>3, <2>1, TakeKeeps DEF TryHit, Working
<1>4. ASSUME NEW c \in Caller, TryMiss(c) PROVE SessionInv'
  <2>1. SessionTypeOK'
    <3>1. offset[c] \in Session
      BY DEF SessionInv, SessionTypeOK
    <3>2. N \in Nat
      BY PoolSizeAssumption DEF N
    <3>3. offset[c] + 1 < N => offset[c] + 1 \in Session
      BY <3>1, <3>2 DEF Session
    <3>4. QED
      BY <1>4, <3>3 DEF SessionInv, SessionTypeOK, TryMiss, MoveOn
  <2>2. stage' = stage \/ stage' = [stage EXCEPT ![c] = "blocked"]
    BY <1>4 DEF TryMiss, MoveOn
  <2>3. QED
    BY <1>4, <2>1, <2>2, MoveKeeps DEF TryMiss, Working
<1>5. ASSUME NEW c \in Caller, Lock(c) PROVE SessionInv'
  <2>1. start[c] \in Session
    BY DEF SessionInv, SessionTypeOK
  <2>2. CASE poisoned[start[c]]
    BY <1>5, <2>1, <2>2, TakeKeeps DEF Lock, Working
  <2>3. CASE ~poisoned[start[c]]
    BY <1>5, <2>1, <2>3, TakeKeeps DEF Lock, Working
  <2>4. QED
    BY <2>2, <2>3
<1>6. ASSUME NEW c \in Caller, Finish(c) PROVE SessionInv'
  BY <1>6, GiveBackKeeps DEF Finish, Working
<1>7. ASSUME NEW c \in Caller, Panic(c) PROVE SessionInv'
  BY <1>7, GiveBackKeeps DEF Panic, Working
<1>8. QED
  BY <1>1, <1>2, <1>3, <1>4, <1>5, <1>6, <1>7 DEF SessionNext

LEMMA SessionInvariance == SessionSpec => []SessionInv
BY InitSessionInv, StepSessionInv, PTL DEF SessionSpec

-----------------------------------------------------------------------------
(* Every index the engine computes is one of its pool, however the counter *)
(* wraps around.                                                           *)
THEOREM SessionIndices == SessionSpec => []SessionTypeOK
<1>1. SessionInv => SessionTypeOK
  BY DEF SessionInv
<1>2. QED
  BY SessionInvariance, <1>1, PTL

(* A locked session belongs to a caller that works on it: none is lost, and *)
(* nobody waits for somebody who waits.                                     *)
THEOREM NoSessionIsLost == SessionSpec => []LockedByAWorker
<1>1. SessionInv => LockedByAWorker
  BY NoSessionAssumption DEF SessionInv, Held, HasGuard, Working, LockedByAWorker
<1>2. QED
  BY SessionInvariance, <1>1, PTL

(* A session on which a run panicked never runs again. *)
THEOREM PoisonedNeverRuns == SessionSpec => []PoisonedIsNotRun
<1>1. SessionInv => PoisonedIsNotRun
  BY DEF SessionInv
<1>2. QED
  BY SessionInvariance, <1>1, PTL

(* The mutexes lend each session to one caller at a time. *)
THEOREM SessionPoolImplementsLoans == SessionSpec => SessionsAreLent
<1>1. SessionInit => SessionLoans!Init
  BY DEF SessionInit, SessionLoans!Init
<1>2. ASSUME SessionInv, [SessionNext]_sessionVars PROVE [SessionLoans!Next]_session
  <2> SUFFICES ASSUME session' # session PROVE SessionLoans!Next
    OBVIOUS
  <2>1. ASSUME NEW c \in Caller, NEW s \in Session, ~Working(c), ~locked[s], Take(c, s)
        PROVE  SessionLoans!Next
    <3>1. session[c] = NoSession
      BY <1>2, <2>1 DEF SessionInv, HasGuard
    <3>2. \A d \in Caller : session[d] # s
      BY <1>2, <2>1 DEF SessionInv, Held
    <3>3. session' = [session EXCEPT ![c] = s]
      BY <2>1 DEF Take
    <3>4. SessionLoans!Lend(c)
      BY <3>1, <3>2, <3>3 DEF SessionLoans!Lend
    <3>5. QED
      BY <3>4 DEF SessionLoans!Next
  <2>2. ASSUME NEW c \in Caller, Working(c), GiveBack(c) PROVE SessionLoans!Next
    BY <1>2, <2>2 DEF SessionInv, HasGuard, GiveBack, SessionLoans!GiveBack, SessionLoans!Next
  <2>3. ASSUME NEW c \in Caller, TryHit(c) PROVE SessionLoans!Next
    <3>1. Candidate(c) \in Session
      BY CandidateIsSession, <1>2 DEF SessionInv
    <3>2. QED
      BY <2>1, <2>3, <3>1 DEF TryHit, Working
  <2>4. ASSUME NEW c \in Caller, Lock(c) PROVE SessionLoans!Next
    <3>1. start[c] \in Session
      BY <1>2 DEF SessionInv, SessionTypeOK
    <3>2. QED
      BY <2>1, <2>4, <3>1 DEF Lock, Working
  <2>5. ASSUME NEW c \in Caller, Finish(c) \/ Panic(c) PROVE SessionLoans!Next
    BY <2>2, <2>5 DEF Finish, Panic, Working
  <2>6. QED
    BY <1>2, <2>3, <2>4, <2>5 DEF SessionNext, sessionVars, Begin, TryMiss
<1>3. QED
  BY <1>1, <1>2, SessionInvariance, PTL DEF SessionSpec, SessionsAreLent, SessionLoans!Spec

(* Guards are held by callers at work, on sessions that still work.        *)
THEOREM NoGuardIsIdle == SessionSpec => []GuardsAreInUse
BY NoSessionIsLost, PoisonedNeverRuns, PTL DEF GuardsAreInUse
=============================================================================

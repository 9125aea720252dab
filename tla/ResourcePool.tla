---------------------------- MODULE ResourcePool ----------------------------
(***************************************************************************)
(* LowLatencyResourcePool (crates/sokuto-runtime/src/dag/pool.rs): items   *)
(* in a lock-free queue, guarded by a semaphore with one permit per item.  *)
(* Queue and semaphore are two structures: every client passes them one    *)
(* after the other, and other clients run in between.                      *)
(*                                                                         *)
(* External: tokio's Semaphore is fair (a permit released while clients    *)
(* wait is handed to the first of them, and becomes available to others    *)
(* only when none waits); dropping an acquire that was already handed a    *)
(* permit releases it.  crossbeam's ArrayQueue refuses a push when it is   *)
(* full.  Which item a client gets does not matter: the queue is a set.    *)
(***************************************************************************)
EXTENDS Naturals, Sequences, FiniteSets

CONSTANTS Client,   \* the tasks that borrow
          Items,    \* the resources a pool may be created with
          NoItem

ASSUME ItemsAssumption == IsFiniteSet(Items) /\ NoItem \notin Items
ASSUME ClientAssumption == IsFiniteSet(Client)

VARIABLES
  stock,     \* the items given to new
  queue,     \* resources: the items in the ArrayQueue
  permits,   \* permits the semaphore has left
  waiters,   \* clients in the semaphore's queue, in order
  pc,        \* where each client is:
             \*   "idle"     not borrowing
             \*   "waiting"  acquire awaits a permit
             \*   "granted"  ... which was assigned, but it was not polled yet
             \*   "popping"  has its permit, about to pop
             \*   "empty"    pop found nothing, QueueEmpty is being returned
             \*   "holding"  has the guard
             \*   "pushed"   dropping the guard: item returned, permit not yet
  item       \* the resource in the guard of each client

vars == <<stock, queue, permits, waiters, pc, item>>

\* items.len().max(1)
Capacity == IF stock = {} THEN 1 ELSE Cardinality(stock)

Init ==
  /\ stock \in SUBSET Items
  /\ queue = stock
  /\ permits = Capacity
  /\ waiters = <<>>
  /\ pc = [c \in Client |-> "idle"]
  /\ item = [c \in Client |-> NoItem]

-----------------------------------------------------------------------------
Move(c, to) == [pc EXCEPT ![c] = to]

\* A permit is released, when the clients are where next says.
Release(next) ==
  IF waiters = <<>>
    THEN /\ permits' = permits + 1
         /\ pc' = next
         /\ UNCHANGED waiters
    ELSE /\ pc' = [next EXCEPT ![Head(waiters)] = "granted"]
         /\ waiters' = Tail(waiters)
         /\ UNCHANGED permits

\* Mutation of Acquire: the last to come is the first to be served.
AcquireLifo(c) ==
  /\ pc[c] = "idle"
  /\ IF permits > 0
       THEN permits' = permits - 1 /\ pc' = Move(c, "popping") /\ UNCHANGED waiters
       ELSE waiters' = <<c>> \o waiters /\ pc' = Move(c, "waiting") /\ UNCHANGED permits
  /\ UNCHANGED <<stock, queue, item>>

\* acquire is called: acquire_owned polled for the first time.
Acquire(c) ==
  /\ pc[c] = "idle"
  /\ IF permits > 0
       THEN permits' = permits - 1 /\ pc' = Move(c, "popping") /\ UNCHANGED waiters
       ELSE waiters' = Append(waiters, c) /\ pc' = Move(c, "waiting") /\ UNCHANGED permits
  /\ UNCHANGED <<stock, queue, item>>

\* The waiting client is polled and finds its permit (even past the deadline:
\* the timer is looked at second).
Wake(c) ==
  /\ pc[c] = "granted"
  /\ pc' = Move(c, "popping")
  /\ UNCHANGED <<stock, queue, permits, waiters, item>>

\* waiters without c, which is there once.
Without(c) ==
  LET at == CHOOSE i \in DOMAIN waiters : waiters[i] = c
  IN  [i \in 1..(Len(waiters) - 1) |-> IF i < at THEN waiters[i] ELSE waiters[i+1]]

\* The deadline passes, or the caller drops the future: acquire ends without a
\* guard.  A permit assigned since the last poll goes to the next client.
GiveUp(c) ==
  /\ \/ /\ pc[c] = "waiting"
        /\ waiters' = Without(c)
        /\ pc' = Move(c, "idle")
        /\ UNCHANGED permits
     \/ pc[c] = "granted" /\ Release(Move(c, "idle"))
  /\ UNCHANGED <<stock, queue, item>>

\* Mutation of Pop: the item stays in the queue.
PopPeek(c) ==
  /\ pc[c] = "popping"
  /\ \E i \in queue : item' = [item EXCEPT ![c] = i]
  /\ pc' = Move(c, "holding")
  /\ UNCHANGED <<stock, queue, permits, waiters>>

\* The item is popped and the guard returned.
Pop(c) ==
  /\ pc[c] = "popping"
  /\ \E i \in queue :
       /\ queue' = queue \ {i}
       /\ item' = [item EXCEPT ![c] = i]
  /\ pc' = Move(c, "holding")
  /\ UNCHANGED <<stock, permits, waiters>>

PopEmpty(c) ==
  /\ pc[c] = "popping" /\ queue = {}
  /\ pc' = Move(c, "empty")
  /\ UNCHANGED <<stock, queue, permits, waiters, item>>

\* Returning QueueEmpty drops the permit.
FailEmpty(c) ==
  /\ pc[c] = "empty"
  /\ Release(Move(c, "idle"))
  /\ UNCHANGED <<stock, queue, item>>

\* Mutation of DropPush: the item is not put back.
DropPushForgotten(c) ==
  /\ pc[c] = "holding"
  /\ item' = [item EXCEPT ![c] = NoItem]
  /\ pc' = Move(c, "pushed")
  /\ UNCHANGED <<stock, queue, permits, waiters>>

\* The guard is dropped, at the end of its scope or by a panic: first Drop::drop,
\* which pushes the item (a full queue would lose it) ...
DropPush(c) ==
  /\ pc[c] = "holding"
  /\ queue' = IF Cardinality(queue) < Capacity THEN queue \union {item[c]} ELSE queue
  /\ item' = [item EXCEPT ![c] = NoItem]
  /\ pc' = Move(c, "pushed")
  /\ UNCHANGED <<stock, permits, waiters>>

\* ... then the fields, and with them the permit.
DropRelease(c) ==
  /\ pc[c] = "pushed"
  /\ Release(Move(c, "idle"))
  /\ UNCHANGED <<stock, queue, item>>

\* What a client that has been given a permit goes on to do.
Proceed(c) == Wake(c) \/ Pop(c) \/ PopEmpty(c) \/ FailEmpty(c) \/ DropPush(c) \/ DropRelease(c)

Next == \E c \in Client : \/ Acquire(c)
                          \/ GiveUp(c)
                          \/ Wake(c)
                          \/ Pop(c)
                          \/ PopEmpty(c)
                          \/ FailEmpty(c)
                          \/ DropPush(c)
                          \/ DropRelease(c)

\* Woken clients are polled, and guards are dropped in the end.  Nobody need
\* call acquire, and no deadline need pass.
Spec == Init /\ [][Next]_vars /\ \A c \in Client : WF_vars(Proceed(c))

-----------------------------------------------------------------------------
(* Properties *)

TypeOK ==
  /\ stock \subseteq Items /\ queue \subseteq stock
  /\ permits \in Nat
  /\ waiters \in Seq(Client)
  /\ pc \in [Client -> {"idle", "waiting", "granted", "popping", "empty",
                        "holding", "pushed"}]
  /\ item \in [Client -> stock \union {NoItem}]
  /\ \A c \in Client : pc[c] = "waiting" <=> c \in {waiters[i] : i \in DOMAIN waiters}

\* pool.rs:85-91,123-129: however clients time out, cancel or panic, no item is
\* lost and none is in two places: each is in the queue or in one guard.
NothingLost ==
  /\ \A i \in stock : i \in queue \/ \E c \in Client : item[c] = i
  /\ \A c \in Client : item[c] # NoItem =>
       /\ item[c] \notin queue
       /\ \A d \in Client : item[d] = item[c] => d = c

\* pool.rs:24-26,85: a client with a permit finds an item, if there are any:
\* the item goes back before its permit does.
NoQueueEmpty == stock # {} => \A c \in Client : pc[c] # "empty"

\* pool.rs:75-92,123-129: permits and items, two structures that no lock ties
\* together, stay in step.
PermitsStandForItems == NothingLost /\ NoQueueEmpty

\* pool.rs:75-92: a waiting client gets its turn or gives up, although others
\* keep coming.
EveryWaiterServed == \A c \in Client : pc[c] = "waiting" ~> pc[c] # "waiting"

Loans == INSTANCE PoolLoans WITH loan <- item

\* pool.rs:3-4: the two structures together lend each item to one client.
ImplementsLoans == Loans!Spec

=============================================================================

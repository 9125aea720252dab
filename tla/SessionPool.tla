----------------------------- MODULE SessionPool -----------------------------
(***************************************************************************)
(* How callers of the inference engine share its ONNX Runtime sessions     *)
(* (forward_raw_into, crates/sokuto-runtime/src/engine/session.rs): each   *)
(* looks for a free session with try_lock, from a place that rotates, and  *)
(* when it found none blocks on the session it began with.                 *)
(*                                                                         *)
(* External: std's Mutex is not fair, a guard dropped by a panic poisons   *)
(* it, lock and try_lock hand out a poisoned mutex as an error that holds  *)
(* the guard.  try_lock drops that error at once (not modelled: whoever    *)
(* meets it in between skips the session all the same), lock formats it    *)
(* first.  ort's run takes as long as it takes, and fails or panics.       *)
(***************************************************************************)
EXTENDS Naturals

CONSTANTS Caller,     \* the threads that call the engine
          PoolSize,   \* SessionConfig::pool_size
          Width,      \* values of an AtomicUsize
          NoSession

\* pool_size.max(1)
N == IF PoolSize = 0 THEN 1 ELSE PoolSize
Session == 0..(N - 1)

ASSUME PoolSizeAssumption == PoolSize \in Nat
ASSUME WidthAssumption == Width \in Nat \ {0}
ASSUME NoSessionAssumption == NoSession \notin Session

VARIABLES
  counter,   \* next_session_idx
  locked,    \* is the mutex of a session locked?
  poisoned,  \* is it poisoned?
  stage,     \* where each caller is:
             \*   "idle"      not in forward_raw_into
             \*   "scanning"  about to try the next session
             \*   "blocked"   in lock, on the session the scan began with
             \*   "running"   has a session
             \*   "refused"   has a poisoned one, about to return the error
  start,     \* start_idx of each caller
  offset,    \* offset of its scan
  session    \* the session whose guard it has, or NoSession

sessionVars == <<counter, locked, poisoned, stage, start, offset, session>>

SessionInit ==
  /\ counter = 0
  /\ locked = [s \in Session |-> FALSE]
  /\ poisoned = [s \in Session |-> FALSE]
  /\ stage = [c \in Caller |-> "idle"]
  /\ start = [c \in Caller |-> 0]
  /\ offset = [c \in Caller |-> 0]
  /\ session = [c \in Caller |-> NoSession]

-----------------------------------------------------------------------------
MoveOn(c, to) == stage' = [stage EXCEPT ![c] = to]

\* Caller c gets the guard of session s.
Take(c, s) ==
  /\ locked' = [locked EXCEPT ![s] = TRUE]
  /\ session' = [session EXCEPT ![c] = s]

\* The guard of caller c is dropped.
GiveBack(c) ==
  /\ locked' = [locked EXCEPT ![session[c]] = FALSE]
  /\ session' = [session EXCEPT ![c] = NoSession]

\* A call whose tensors have the right dimensions.  (Any other returns here.)
Begin(c) ==
  /\ stage[c] = "idle"
  /\ start' = [start EXCEPT ![c] = counter % N]
  /\ counter' = (counter + 1) % Width
  /\ offset' = [offset EXCEPT ![c] = 0]
  /\ MoveOn(c, "scanning")
  /\ UNCHANGED <<locked, poisoned, session>>

Candidate(c) == (start[c] + offset[c]) % N

\* Mutation of TryHit: a session in use is taken as well.
TryHitShared(c) ==
  /\ stage[c] = "scanning" /\ ~poisoned[Candidate(c)]
  /\ Take(c, Candidate(c)) /\ MoveOn(c, "running")
  /\ UNCHANGED <<counter, poisoned, start, offset>>

\* try_lock gets the session ...
TryHit(c) ==
  /\ stage[c] = "scanning" /\ ~locked[Candidate(c)] /\ ~poisoned[Candidate(c)]
  /\ Take(c, Candidate(c)) /\ MoveOn(c, "running")
  /\ UNCHANGED <<counter, poisoned, start, offset>>

\* Mutation of TryMiss: the scan starts again.
TryMissForever(c) ==
  /\ stage[c] = "scanning" /\ (locked[Candidate(c)] \/ poisoned[Candidate(c)])
  /\ offset' = [offset EXCEPT ![c] = (@ + 1) % N]
  /\ UNCHANGED <<counter, locked, poisoned, stage, start, session>>

\* ... or not, and the next one is tried, if there is one.
TryMiss(c) ==
  /\ stage[c] = "scanning" /\ (locked[Candidate(c)] \/ poisoned[Candidate(c)])
  /\ IF offset[c] + 1 < N
       THEN offset' = [offset EXCEPT ![c] = @ + 1] /\ UNCHANGED stage
       ELSE MoveOn(c, "blocked") /\ UNCHANGED offset
  /\ UNCHANGED <<counter, locked, poisoned, start, session>>

\* Mutation of Lock: the guard is taken out of the error.
LockRecovered(c) ==
  /\ stage[c] = "blocked" /\ ~locked[start[c]]
  /\ Take(c, start[c]) /\ MoveOn(c, "running")
  /\ UNCHANGED <<counter, poisoned, start, offset>>

\* lock returns, with the guard or with an error.
Lock(c) ==
  /\ stage[c] = "blocked" /\ ~locked[start[c]]
  /\ Take(c, start[c])
  /\ MoveOn(c, IF poisoned[start[c]] THEN "refused" ELSE "running")
  /\ UNCHANGED <<counter, poisoned, start, offset>>

\* The call returns: with its logits, with an error of the run or of what it
\* returned, or with ModelContractViolation.  The guard is dropped with the
\* frame, or with the error of lock.
Finish(c) ==
  /\ stage[c] \in {"running", "refused"}
  /\ GiveBack(c) /\ MoveOn(c, "idle")
  /\ UNCHANGED <<counter, poisoned, start, offset>>

\* The run panics; the thread goes back to the pool it came from.
Panic(c) ==
  /\ stage[c] = "running"
  /\ poisoned' = [poisoned EXCEPT ![session[c]] = TRUE]
  /\ GiveBack(c) /\ MoveOn(c, "idle")
  /\ UNCHANGED <<counter, start, offset>>

\* What a caller does once it has begun.
GoOn(c) == TryHit(c) \/ TryMiss(c) \/ Lock(c) \/ Finish(c)

SessionNext ==
  \E c \in Caller : \/ Begin(c)
                    \/ TryHit(c)
                    \/ TryMiss(c)
                    \/ Lock(c)
                    \/ Finish(c)
                    \/ Panic(c)

\* Threads are scheduled and runs end.  Mutexes are not fair: a caller in lock
\* gets its session only if it is free for long enough.
SessionSpec ==
  /\ SessionInit
  /\ [][SessionNext]_sessionVars
  /\ \A c \in Caller : WF_sessionVars(GoOn(c))

-----------------------------------------------------------------------------
(* Properties *)

\* The indices computed modulo the pool's length are indices of the pool.
SessionTypeOK ==
  /\ counter \in 0..(Width - 1)
  /\ locked \in [Session -> BOOLEAN]
  /\ poisoned \in [Session -> BOOLEAN]
  /\ stage \in [Caller -> {"idle", "scanning", "blocked", "running", "refused"}]
  /\ start \in [Caller -> Session]
  /\ offset \in [Caller -> Session]
  /\ session \in [Caller -> Session \union {NoSession}]

\* session.rs:332-339,381: a locked session belongs to a caller that works on
\* it and will return, on every path out of the function: nobody in lock waits
\* for somebody who waits, and no session is lost to the pool.
LockedByAWorker ==
  \A s \in Session : locked[s] =>
    \E c \in Caller : session[c] = s /\ stage[c] \in {"running", "refused"}

\* session.rs:327,336: a session on which a run panicked never runs again,
\* neither found by the scan nor waited for, whoever waited when it panicked.
PoisonedIsNotRun ==
  \A c \in Caller : stage[c] = "running" => ~poisoned[session[c]]

\* session.rs:319-381: each guard is held by a caller at work, on a session that
\* no run has poisoned.
GuardsAreInUse == LockedByAWorker /\ PoisonedIsNotRun

SessionLoans == INSTANCE PoolLoans
                  WITH Client <- Caller, Items <- Session,
                       NoItem <- NoSession, loan <- session

\* session.rs:40-43: however scans, waits and panics interleave, a session is
\* lent to one caller at a time, and a caller has one at most.
SessionsAreLent == SessionLoans!Spec

\* session.rs:319-339: once no new calls come, every call returns, even when all
\* sessions are poisoned.
QuietPoolDrains ==
  <>[][\A c \in Caller : ~Begin(c)]_sessionVars =>
    \A c \in Caller : <>[](stage[c] = "idle")
=============================================================================

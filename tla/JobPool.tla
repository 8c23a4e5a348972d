------------------------------ MODULE JobPool ------------------------------
(***************************************************************************)
(* What include src/threadpool.h promises of a thread pool, without its    *)
(* threads, condition variables or counters: an accepted job is started at *)
(* most once, jobs start in the order they were accepted, no more than     *)
(* MaxRunning of them run at a time, none starts once the pool is closed,  *)
(* and threadpool_wait returns to a caller only when every job that was    *)
(* accepted before its call is done.                                       *)
(***************************************************************************)
EXTENDS Naturals, Sequences, FiniteSets, Functions

CONSTANTS Jobs,        \* the jobs callers submit, each one a fresh allocation
          Callers,     \* the threads that use the pool
          MaxRunning   \* how many jobs may run at once

VARIABLES pending,     \* accepted and not started, in order of acceptance
          running,     \* started, callback not finished
          done,        \* callback finished
          closed,      \* threadpool_delete has begun
          waiting,     \* waiting[c]: c is inside threadpool_wait
          owed         \* owed[c]: the jobs accepted before that call

poolVars == <<pending, running, done, closed, waiting, owed>>

Pending == Range(pending)

Init ==
    /\ pending = <<>>
    /\ running = {}
    /\ done = {}
    /\ closed = FALSE
    /\ waiting = [c \in Callers |-> FALSE]
    /\ owed = [c \in Callers |-> {}]

Submit(j) ==
    /\ ~closed
    /\ j \notin Pending \cup running \cup done
    /\ pending' = Append(pending, j)
    /\ UNCHANGED <<running, done, closed, waiting, owed>>

Start ==
    /\ ~closed
    /\ pending # <<>>
    /\ Cardinality(running) < MaxRunning
    /\ pending' = Tail(pending)
    /\ running' = running \cup {Head(pending)}
    /\ UNCHANGED <<done, closed, waiting, owed>>

Finish(j) ==
    /\ j \in running
    /\ running' = running \ {j}
    /\ done' = done \cup {j}
    /\ UNCHANGED <<pending, closed, waiting, owed>>

BeginWait(c) ==
    /\ ~closed
    /\ ~waiting[c]
    /\ waiting' = [waiting EXCEPT ![c] = TRUE]
    /\ owed' = [owed EXCEPT ![c] = Pending \cup running \cup done]
    /\ UNCHANGED <<pending, running, done, closed>>

EndWait(c) ==
    /\ waiting[c]
    /\ owed[c] \subseteq done
    /\ waiting' = [waiting EXCEPT ![c] = FALSE]
    /\ UNCHANGED <<pending, running, done, closed, owed>>

\* Deleting the pool forbids new starts, lets running callbacks finish and
\* then forgets the jobs that never started.
Close ==
    /\ ~closed
    /\ closed' = TRUE
    /\ UNCHANGED <<pending, running, done, waiting, owed>>

Discard ==
    /\ closed
    /\ running = {}
    /\ pending' = <<>>
    /\ UNCHANGED <<running, done, closed, waiting, owed>>

Next ==
    \/ \E j \in Jobs : Submit(j) \/ Finish(j)
    \/ Start
    \/ \E c \in Callers : BeginWait(c) \/ EndWait(c)
    \/ Close
    \/ Discard

Spec == Init /\ [][Next]_poolVars
=============================================================================

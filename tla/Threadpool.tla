----------------------------- MODULE Threadpool -----------------------------
(***************************************************************************)
(* src/threadpool_pthread.c: a queue of jobs, worker threads created on    *)
(* demand, and two condition variables over one mutex.  wakeup_cond wakes  *)
(* workers, lazy_cond wakes threads inside threadpool_wait.                *)
(*                                                                         *)
(* Every access to the fields of threadpool_s happens between a lock and   *)
(* an unlock (or cond_wait) of queue_mutex, except those of                *)
(* threadpool_delete after its workers were told to stop.  A critical      *)
(* section is therefore one action, and what happens outside one           *)
(* (callbacks, the broadcasts after the unlock, the joins) is a step of    *)
(* its own.  A worker or waiter that pthread_cond_wait returned to (woken, *)
(* or spuriously) competes for the mutex again and re-evaluates its loop   *)
(* condition, which is why it goes back to the place of the test.          *)
(*                                                                         *)
(* Callers use the pool within its contract: no call is in progress when   *)
(* threadpool_delete begins, none begins afterwards.                       *)
(***************************************************************************)
EXTENDS Naturals, Sequences, FiniteSets, Functions

CONSTANTS Jobs,           \* jobs, each enqueued at most once (a fresh calloc)
          Callers,        \* threads that call threadpool_enqueue and _wait
          Workers,        \* identities pthread_create may hand out
          Waiters,        \* the callers that may call threadpool_wait
          MaxThreads,     \* max_threads of threadpool_create
          CreateMayFail,  \* whether pthread_create may fail
          NoJob           \* the NULL job

ASSUME ThreadpoolAssumption ==
    /\ MaxThreads \in Nat
    /\ IsFiniteSet(Workers)
    /\ Cardinality(Workers) >= MaxThreads
    /\ Waiters \subseteq Callers
    /\ CreateMayFail \in BOOLEAN
    /\ NoJob \notin Jobs

VARIABLES
    stop, num_threads, busy_threads, queue_count,   \* fields of threadpool_s
    queue,      \* the list from queue_first to queue_last
    threads,    \* the list of thread handles, newest first
    wpc,        \* where each worker is, see WorkerPlaces
    wjob,       \* the job a worker holds
    cpc,        \* where each caller is, see CallerPlaces
    owed,       \* owed[c]: jobs accepted when c last called threadpool_wait
    accepted,   \* history: every job threadpool_enqueue returned true for
    finished,   \* history: every job whose callback returned
    del         \* progress of threadpool_delete, see DeletePlaces

poolFields == <<stop, num_threads, busy_threads, queue_count, queue, threads>>
vars == <<stop, num_threads, busy_threads, queue_count, queue, threads,
          wpc, wjob, cpc, owed, accepted, finished, del>>

\* "none" before pthread_create; "top" about to lock and test; "wait" in the
\* wait set of wakeup_cond; "run" in the callback; "done" about to lock again;
\* "exited" returned from do_work; "joined" reaped.
WorkerPlaces == {"none", "top", "wait", "run", "done", "exited", "joined"}
\* "cast" owes wakeup_cond a broadcast; "check" about to lock and test in
\* threadpool_wait; "lazy" in the wait set of lazy_cond.
CallerPlaces == {"idle", "cast", "check", "lazy"}
\* "stopped" owes wakeup_cond a broadcast; "joining" in delete_threads.
DeletePlaces == {"open", "stopped", "joining", "freed"}

Queued == Range(queue)
Busy == {w \in Workers : wpc[w] \in {"run", "done"}}
Running == {w \in Workers : wpc[w] = "run"}
Asleep == {w \in Workers : wpc[w] = "wait"}
Live == {w \in Workers : wpc[w] \notin {"none", "joined"}}

-----------------------------------------------------------------------------
Init ==
    /\ stop = FALSE
    /\ num_threads = 0
    /\ busy_threads = 0
    /\ queue_count = 0
    /\ queue = <<>>
    /\ threads = <<>>
    /\ wpc = [w \in Workers |-> "none"]
    /\ wjob = [w \in Workers |-> NoJob]
    /\ cpc = [c \in Callers |-> "idle"]
    /\ owed = [c \in Callers |-> {}]
    /\ accepted = {}
    /\ finished = {}
    /\ del = "open"

-----------------------------------------------------------------------------
(* Condition variables.                                                    *)

\* Mutant: pthread_cond_signal instead of pthread_cond_broadcast.
WakeOne ==
    \/ Asleep = {} /\ UNCHANGED wpc
    \/ \E w \in Asleep : wpc' = [wpc EXCEPT ![w] = "top"]

\* pthread_cond_broadcast of wakeup_cond: every sleeping worker resumes.
WakeAll == wpc' = [w \in Workers |-> IF w \in Asleep THEN "top" ELSE wpc[w]]

\* pthread_cond_signal of lazy_cond: one waiter resumes, if there is one.
SignalLazy ==
    LET lazy == {c \in Callers : cpc[c] = "lazy"}
    IN  IF lazy = {} THEN UNCHANGED cpc
        ELSE \E c \in lazy : cpc' = [cpc EXCEPT ![c] = "check"]

\* pthread_cond_wait may return without a signal.
SpuriousWakeup(w) ==
    /\ wpc[w] = "wait"
    /\ wpc' = [wpc EXCEPT ![w] = "top"]
    /\ UNCHANGED <<poolFields, wjob, cpc, owed, accepted, finished, del>>

SpuriousLazyWakeup(c) ==
    /\ cpc[c] = "lazy"
    /\ cpc' = [cpc EXCEPT ![c] = "check"]
    /\ UNCHANGED <<poolFields, wpc, wjob, owed, accepted, finished, del>>

-----------------------------------------------------------------------------
(* threadpool_enqueue.                                                     *)

NeedsThread ==
    /\ busy_threads = num_threads
    /\ num_threads < MaxThreads

\* threadpool_create_thread_on_demand.
CreateThread ==
    \E w \in Workers :
        /\ wpc[w] = "none"
        /\ wpc' = [wpc EXCEPT ![w] = "top"]
        /\ threads' = <<w>> \o threads
        /\ num_threads' = num_threads + 1

NoThreadCreated == UNCHANGED <<wpc, threads, num_threads>>

\* threadpool_enqueue up to the unlock.  Where the job cannot be allocated it
\* returns false before it touches the pool: a stuttering step.
Enqueue(c, j) ==
    /\ del = "open"
    /\ cpc[c] = "idle"
    /\ j \notin accepted
    /\ queue' = Append(queue, j)
    /\ queue_count' = queue_count + 1
    /\ \/ NeedsThread /\ CreateThread
       \/ NeedsThread /\ CreateMayFail /\ NoThreadCreated
       \/ ~NeedsThread /\ NoThreadCreated
    /\ accepted' = accepted \cup {j}
    /\ cpc' = [cpc EXCEPT ![c] = "cast"]
    /\ UNCHANGED <<stop, busy_threads, wjob, owed, finished, del>>

\* Mutant: no broadcast.
Broadcast_None(c) ==
    /\ cpc[c] = "cast"
    /\ cpc' = [cpc EXCEPT ![c] = "idle"]
    /\ UNCHANGED <<poolFields, wpc, wjob, owed, accepted, finished, del>>

\* The broadcast that follows the unlock.
Broadcast(c) ==
    /\ cpc[c] = "cast"
    /\ WakeAll
    /\ cpc' = [cpc EXCEPT ![c] = "idle"]
    /\ UNCHANGED <<poolFields, wjob, owed, accepted, finished, del>>

-----------------------------------------------------------------------------
(* threadpool_do_work.                                                     *)

Sleep(w) ==
    /\ wpc[w] = "top"
    /\ ~stop /\ queue = <<>>
    /\ wpc' = [wpc EXCEPT ![w] = "wait"]
    /\ UNCHANGED <<poolFields, wjob, cpc, owed, accepted, finished, del>>

\* What every form of Dequeue does besides the guard and the queue.
TakeJob(w, job, rest, busy) ==
    /\ wjob' = [wjob EXCEPT ![w] = job]
    /\ queue' = rest
    /\ queue_count' = queue_count - 1
    /\ busy_threads' = busy
    /\ wpc' = [wpc EXCEPT ![w] = "run"]
    /\ UNCHANGED <<stop, num_threads, threads, cpc, owed, accepted, finished, del>>

AtWork(w) == wpc[w] = "top" /\ ~stop /\ queue # <<>>
Front == SubSeq(queue, 1, Len(queue) - 1)

\* Mutants: busy_threads is not incremented; the wrong end of the list is
\* unlinked; the newest job is taken first.
Dequeue_NotBusy(w) == AtWork(w) /\ TakeJob(w, Head(queue), Tail(queue), busy_threads)
Dequeue_Unlink(w) == AtWork(w) /\ TakeJob(w, Head(queue), Front, busy_threads + 1)
Dequeue_Newest(w) ==
    AtWork(w) /\ TakeJob(w, queue[Len(queue)], Front, busy_threads + 1)

Dequeue(w) == AtWork(w) /\ TakeJob(w, Head(queue), Tail(queue), busy_threads + 1)

\* The callback returns and the job is freed.
Finish(w) ==
    /\ wpc[w] = "run"
    /\ finished' = finished \cup {wjob[w]}
    /\ wjob' = [wjob EXCEPT ![w] = NoJob]
    /\ wpc' = [wpc EXCEPT ![w] = "done"]
    /\ UNCHANGED <<poolFields, cpc, owed, accepted, del>>

\* Mutants: the count is not taken down; the signal is decided on the count
\* from before the decrement.
Retire_Forgets(w) ==
    /\ wpc[w] = "done"
    /\ IF busy_threads = 1 /\ queue = <<>> THEN SignalLazy ELSE UNCHANGED cpc
    /\ wpc' = [wpc EXCEPT ![w] = "top"]
    /\ UNCHANGED <<poolFields, wjob, owed, accepted, finished, del>>
Retire_LateCount(w) ==
    /\ wpc[w] = "done"
    /\ IF busy_threads = 0 /\ queue = <<>> THEN SignalLazy ELSE UNCHANGED cpc
    /\ busy_threads' = busy_threads - 1
    /\ wpc' = [wpc EXCEPT ![w] = "top"]
    /\ UNCHANGED <<stop, num_threads, queue_count, queue, threads,
                   wjob, owed, accepted, finished, del>>

Retire(w) ==
    /\ wpc[w] = "done"
    /\ busy_threads' = busy_threads - 1
    /\ IF busy_threads' = 0 /\ queue = <<>> THEN SignalLazy ELSE UNCHANGED cpc
    /\ wpc' = [wpc EXCEPT ![w] = "top"]
    /\ UNCHANGED <<stop, num_threads, queue_count, queue, threads,
                   wjob, owed, accepted, finished, del>>

Exit(w) ==
    /\ wpc[w] = "top"
    /\ stop
    /\ SignalLazy
    /\ wpc' = [wpc EXCEPT ![w] = "exited"]
    /\ UNCHANGED <<poolFields, wjob, owed, accepted, finished, del>>

-----------------------------------------------------------------------------
(* threadpool_wait.                                                        *)

MustWait ==
    \/ ~stop /\ (busy_threads # 0 \/ queue_count # 0)
    \/ stop /\ num_threads # 0

CallWait(c) ==
    /\ del = "open"
    /\ cpc[c] = "idle"
    /\ cpc' = [cpc EXCEPT ![c] = "check"]
    /\ owed' = [owed EXCEPT ![c] = accepted]
    /\ UNCHANGED <<poolFields, wpc, wjob, accepted, finished, del>>

KeepWaiting(c) ==
    /\ cpc[c] = "check"
    /\ MustWait
    /\ cpc' = [cpc EXCEPT ![c] = "lazy"]
    /\ UNCHANGED <<poolFields, wpc, wjob, owed, accepted, finished, del>>

ReturnFromWait(c) ==
    /\ cpc[c] = "check"
    /\ ~MustWait
    /\ cpc' = [cpc EXCEPT ![c] = "idle"]
    /\ UNCHANGED <<poolFields, wpc, wjob, owed, accepted, finished, del>>

-----------------------------------------------------------------------------
(* threadpool_delete.                                                      *)

\* threadpool_stop_threads, up to the unlock.
Stop ==
    /\ del = "open"
    /\ \A c \in Callers : cpc[c] = "idle"
    /\ stop' = TRUE
    /\ del' = "stopped"
    /\ UNCHANGED <<num_threads, busy_threads, queue_count, queue, threads,
                   wpc, wjob, cpc, owed, accepted, finished>>

\* Mutant: nobody is woken to see the stop flag.
StopBroadcast_None ==
    /\ del = "stopped"
    /\ del' = "joining"
    /\ UNCHANGED <<poolFields, wpc, wjob, cpc, owed, accepted, finished>>

\* The broadcast of threadpool_stop_threads.
StopBroadcast ==
    /\ del = "stopped"
    /\ WakeAll
    /\ del' = "joining"
    /\ UNCHANGED <<poolFields, wjob, cpc, owed, accepted, finished>>

\* One turn of the loop of threadpool_delete_threads.
Join ==
    /\ del = "joining"
    /\ threads # <<>>
    /\ wpc[Head(threads)] = "exited"
    /\ wpc' = [wpc EXCEPT ![Head(threads)] = "joined"]
    /\ threads' = Tail(threads)
    /\ UNCHANGED <<stop, num_threads, busy_threads, queue_count, queue,
                   wjob, cpc, owed, accepted, finished, del>>

\* Mutant: the pool is freed without joining every thread.
Free_Early ==
    /\ del = "joining"
    /\ num_threads' = 0
    /\ queue' = <<>>
    /\ del' = "freed"
    /\ UNCHANGED <<stop, busy_threads, queue_count, threads,
                   wpc, wjob, cpc, owed, accepted, finished>>

\* num_threads = 0, threadpool_delete_jobs (which leaves queue_count alone)
\* and free.
Free ==
    /\ del = "joining"
    /\ threads = <<>>
    /\ num_threads' = 0
    /\ queue' = <<>>
    /\ del' = "freed"
    /\ UNCHANGED <<stop, busy_threads, queue_count, threads,
                   wpc, wjob, cpc, owed, accepted, finished>>

-----------------------------------------------------------------------------
WorkerStep(w) == Sleep(w) \/ Dequeue(w) \/ Finish(w) \/ Retire(w) \/ Exit(w)
CallStep(c) == Broadcast(c) \/ KeepWaiting(c) \/ ReturnFromWait(c)
DeleteStep == StopBroadcast \/ Join \/ Free

Next ==
    \/ \E w \in Workers : WorkerStep(w) \/ SpuriousWakeup(w)
    \/ \E c \in Callers : CallStep(c) \/ SpuriousLazyWakeup(c)
    \/ \E c \in Callers, j \in Jobs : Enqueue(c, j)
    \/ \E c \in Waiters : CallWait(c)
    \/ Stop
    \/ DeleteStep

Spec == Init /\ [][Next]_vars

\* Threads are scheduled, the mutex is granted to whoever keeps asking for it
\* and callbacks return.  Nobody has to call the pool, and spurious wakeups
\* need not happen.
Fairness ==
    /\ \A w \in Workers : WF_vars(WorkerStep(w))
    /\ \A c \in Callers : WF_vars(CallStep(c))
    /\ WF_vars(DeleteStep)

FairSpec == Spec /\ Fairness

-----------------------------------------------------------------------------
(* Invariants.                                                             *)

TypeOK ==
    /\ stop \in BOOLEAN
    /\ num_threads \in Nat
    /\ busy_threads \in Nat
    /\ queue_count \in Nat
    /\ queue \in Seq(Jobs)
    /\ threads \in Seq(Workers)
    /\ wpc \in [Workers -> WorkerPlaces]
    /\ wjob \in [Workers -> Jobs \cup {NoJob}]
    /\ cpc \in [Callers -> CallerPlaces]
    /\ owed \in [Callers -> SUBSET Jobs]
    /\ accepted \in SUBSET Jobs
    /\ finished \in SUBSET Jobs
    /\ del \in DeletePlaces

\* The two counters threadpool_wait and threadpool_enqueue decide on agree
\* with what they count: a worker is counted busy from its dequeue to its
\* second critical section, and queue_count is the length of the list.
CountersAgree ==
    /\ busy_threads = Cardinality(Busy)
    /\ del # "freed" => queue_count = Len(queue)

\* No lost wakeup: while a job is queued no worker sleeps on wakeup_cond,
\* unless the enqueue that owes the broadcast has not issued it yet.  The
\* broadcast comes after the unlock, so a worker may see the queue first.
NoLostWakeup ==
    queue # <<>> /\ del = "open" =>
        \/ Asleep = {}
        \/ \E c \in Callers : cpc[c] = "cast"

\* No job is lost or run twice: a job that was accepted is in exactly one
\* place, queued, held by one worker or finished, until threadpool_delete
\* drops what is still queued.
NoJobLostOrDuplicated ==
    /\ \A w \in Running : wjob[w] \notin Queued \cup finished
    /\ \A v, w \in Running : wjob[v] = wjob[w] => v = w
    /\ Queued \cap finished = {}
    /\ IsInjective(queue)
    /\ del # "freed" =>
          accepted = Queued \cup finished \cup {wjob[w] : w \in Running}

\* threadpool_delete frees the pool only when no thread can touch it again:
\* every worker it ever created was joined and no callback runs.
FreedPoolUntouched ==
    del = "freed" =>
        /\ Live = {}
        /\ \A c \in Callers : cpc[c] = "idle"

\* The pool never has more threads than max_threads, and every thread that
\* exists is in the list threadpool_delete joins.
ThreadsBounded ==
    /\ Cardinality(Live) <= MaxThreads
    /\ Live = Range(threads)

\* threadpool_wait returns only when every job enqueued before the call has
\* finished its callback (threadpool.h: "Wait for thread pool to finish all
\* jobs"), however late the jobs enqueued meanwhile are.
WaitMeansFinished ==
    [][\A c \in Callers :
          cpc[c] = "check" /\ cpc'[c] = "idle" => owed[c] \subseteq finished]_vars

\* No callback begins after threadpool_delete set stop, whatever is queued.
NoStartAfterStop ==
    [][\A w \in Workers : wpc[w] # "run" /\ wpc'[w] = "run" => ~stop]_vars

-----------------------------------------------------------------------------
(* Liveness.                                                               *)

\* Every pthread_create so far failed: nobody will run the queued jobs until
\* a later enqueue creates a thread.
Stranded == num_threads = 0 /\ queue # <<>>

\* An accepted job is run, unless the pool is stopped first or no thread
\* could be created.
JobsRun ==
    \A j \in Jobs : j \in accepted ~> (j \in finished \/ stop \/ Stranded)

\* A thread inside threadpool_wait gets out once the callers stop feeding the
\* pool, which they do when every job has been enqueued.
WaitReturns ==
    \A c \in Waiters : cpc[c] \in {"check", "lazy"} ~> (cpc[c] = "idle" \/ Stranded)

\* The same for a caller that is the only one to call threadpool_wait.
LoneWaitReturns ==
    \A c \in Waiters :
        [](\A d \in Waiters \ {c} : cpc[d] \notin {"check", "lazy"})
            => (cpc[c] \in {"check", "lazy"} ~> (cpc[c] = "idle" \/ Stranded))

\* threadpool_delete terminates: the broadcast reaches every sleeping worker
\* and each of them exits and is joined.
DeleteTerminates == stop ~> del = "freed"

-----------------------------------------------------------------------------
(* The pool implements JobPool.                                            *)

RunningJobs == {wjob[w] : w \in Running}
InWait == [c \in Callers |-> cpc[c] \in {"check", "lazy"}]

Abstract == INSTANCE JobPool WITH
    MaxRunning <- MaxThreads,
    pending <- queue,
    running <- RunningJobs,
    done <- finished,
    closed <- stop,
    waiting <- InWait

\* A pool of threads behaves as threadpool.h promises.
ImplementsJobPool == Abstract!Spec
=============================================================================

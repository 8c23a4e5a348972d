--------------------------- MODULE ThreadpoolWinxp ---------------------------
(***************************************************************************)
(* src/threadpool_winxp.c: the pool of src/threadpool_pthread.c over the   *)
(* auto-reset events of src/event_win.c, which have no mutex of their own. *)
(* A thread that waits for one unlocks queue_lock first and looks again at *)
(* the pool after 250 ms at the latest, so that an event somebody else     *)
(* consumed delays it but is not needed.                                   *)
(*                                                                         *)
(* As in Threadpool, a critical section of queue_lock is one action,       *)
(* queue_count is the length of the queue, and no call is in progress when *)
(* threadpool_delete begins.                                               *)
(***************************************************************************)
EXTENDS Naturals, Sequences, FiniteSets, Functions

CONSTANTS Jobs,           \* jobs, each enqueued at most once
          Callers,        \* threads that call threadpool_enqueue and _wait
          Workers,        \* identities _beginthread may hand out
          MaxThreads,     \* max_threads of threadpool_create
          NoJob           \* the NULL job

VARIABLES
    stop, num_threads, busy_threads, queue, threads,   \* fields of threadpool_s
    wakeup_cond, lazy_cond,   \* the events: set or not
    wpc,        \* "none", "top" about to lock and test, "wait" for wakeup_cond,
                \* "run" the callback, "done" about to lock again, "exited", "joined"
    wjob,       \* the job a worker holds
    cpc,        \* "idle", "signal" owes wakeup_cond an event_set, "check" about
                \* to lock and test, "lazy" waits for lazy_cond
    owed,       \* owed[c]: jobs accepted when c last called threadpool_wait
    accepted,   \* history: every job threadpool_enqueue returned true for
    finished,   \* history: every job whose callback returned
    del         \* "open", "stopped", "joining", "reaping", "freed"

events == <<wakeup_cond, lazy_cond>>
fields == <<stop, num_threads, busy_threads, queue, threads>>
history == <<owed, accepted, finished>>
vars == <<fields, events, wpc, wjob, cpc, history, del>>

Init ==
    /\ stop = FALSE /\ num_threads = 0 /\ busy_threads = 0
    /\ queue = <<>> /\ threads = <<>>
    /\ wakeup_cond = FALSE /\ lazy_cond = FALSE
    /\ wpc = [w \in Workers |-> "none"]
    /\ wjob = [w \in Workers |-> NoJob]
    /\ cpc = [c \in Callers |-> "idle"]
    /\ owed = [c \in Callers |-> {}]
    /\ accepted = {} /\ finished = {}
    /\ del = "open"

GotoW(w, place) == wpc' = [wpc EXCEPT ![w] = place]
GotoC(c, place) == cpc' = [cpc EXCEPT ![c] = place]

-----------------------------------------------------------------------------
NeedsThread == busy_threads = num_threads /\ num_threads < MaxThreads

\* threadpool_create_thread_on_demand; _beginthread may fail.
CreateThread ==
    \/ \E w \in Workers :
          /\ wpc[w] = "none"
          /\ GotoW(w, "top")
          /\ threads' = <<w>> \o threads
          /\ num_threads' = num_threads + 1
    \/ UNCHANGED <<wpc, threads, num_threads>>

Enqueue(c, j) ==
    /\ del = "open" /\ cpc[c] = "idle" /\ j \notin accepted
    /\ queue' = Append(queue, j)
    /\ IF NeedsThread THEN CreateThread ELSE UNCHANGED <<wpc, threads, num_threads>>
    /\ accepted' = accepted \cup {j}
    /\ GotoC(c, "signal")
    /\ UNCHANGED <<stop, busy_threads, events, wjob, owed, finished, del>>

Signal(c) ==
    /\ cpc[c] = "signal"
    /\ wakeup_cond' = TRUE
    /\ GotoC(c, "idle")
    /\ UNCHANGED <<fields, lazy_cond, wpc, wjob, history, del>>

\* threadpool_do_work, to event_wait(wakeup_cond, 250), and out of it.
Sleep(w) ==
    /\ wpc[w] = "top" /\ ~stop /\ queue = <<>>
    /\ GotoW(w, "wait")
    /\ UNCHANGED <<fields, events, wjob, cpc, history, del>>

Wake(w) ==
    /\ wpc[w] = "wait"
    /\ wakeup_cond' = FALSE
    /\ GotoW(w, "top")
    /\ UNCHANGED <<fields, lazy_cond, wjob, cpc, history, del>>

Dequeue(w) ==
    /\ wpc[w] = "top" /\ ~stop /\ queue # <<>>
    /\ wjob' = [wjob EXCEPT ![w] = Head(queue)]
    /\ queue' = Tail(queue)
    /\ busy_threads' = busy_threads + 1
    /\ GotoW(w, "run")
    /\ UNCHANGED <<stop, num_threads, threads, events, cpc, history, del>>

Finish(w) ==
    /\ wpc[w] = "run"
    /\ finished' = finished \cup {wjob[w]}
    /\ wjob' = [wjob EXCEPT ![w] = NoJob]
    /\ GotoW(w, "done")
    /\ UNCHANGED <<fields, events, cpc, owed, accepted, del>>

Retire(w) ==
    /\ wpc[w] = "done"
    /\ busy_threads' = busy_threads - 1
    /\ lazy_cond' = (lazy_cond \/ (busy_threads' = 0 /\ queue = <<>>))
    /\ GotoW(w, "top")
    /\ UNCHANGED <<stop, num_threads, queue, threads, wakeup_cond, wjob, cpc, history, del>>

Exit(w) ==
    /\ wpc[w] = "top" /\ stop
    /\ lazy_cond' = TRUE
    /\ GotoW(w, "exited")
    /\ UNCHANGED <<fields, wakeup_cond, wjob, cpc, history, del>>

-----------------------------------------------------------------------------
\* Mutant: threadpool_wait forgets the jobs that are being run.
MustWait_QueueOnly ==
    \/ ~stop /\ Len(queue) # 0
    \/ stop /\ num_threads # 0

MustWait ==
    \/ ~stop /\ (busy_threads # 0 \/ Len(queue) # 0)
    \/ stop /\ num_threads # 0

CallWait(c) ==
    /\ del = "open" /\ cpc[c] = "idle"
    /\ GotoC(c, "check")
    /\ owed' = [owed EXCEPT ![c] = accepted]
    /\ UNCHANGED <<fields, events, wpc, wjob, accepted, finished, del>>

KeepWaiting(c) ==
    /\ cpc[c] = "check" /\ MustWait
    /\ GotoC(c, "lazy")
    /\ UNCHANGED <<fields, events, wpc, wjob, history, del>>

\* Mutant: event_wait(lazy_cond, 0), which event_win.c turns into INFINITE.
LazyWake_NoLimit(c) ==
    /\ cpc[c] = "lazy" /\ lazy_cond
    /\ lazy_cond' = FALSE
    /\ GotoC(c, "check")
    /\ UNCHANGED <<fields, wakeup_cond, wpc, wjob, history, del>>

\* The event, which is consumed, or the 250 ms.
LazyWake(c) ==
    /\ cpc[c] = "lazy"
    /\ lazy_cond' = FALSE
    /\ GotoC(c, "check")
    /\ UNCHANGED <<fields, wakeup_cond, wpc, wjob, history, del>>

ReturnFromWait(c) ==
    /\ cpc[c] = "check" /\ ~MustWait
    /\ GotoC(c, "idle")
    /\ UNCHANGED <<fields, events, wpc, wjob, history, del>>

-----------------------------------------------------------------------------
\* threadpool_stop_threads, up to the unlock, and its event_set.
Stop ==
    /\ del = "open" /\ \A c \in Callers : cpc[c] = "idle"
    /\ stop' = TRUE
    /\ del' = "stopped"
    /\ UNCHANGED <<num_threads, busy_threads, queue, threads, events, wpc, wjob, cpc, history>>

StopSignal ==
    /\ del = "stopped"
    /\ wakeup_cond' = TRUE
    /\ del' = "joining"
    /\ UNCHANGED <<fields, lazy_cond, wpc, wjob, cpc, history>>

\* threadpool_delete_threads: one turn of its inner loop is Nudge and then
\* either Reap or the 250 ms of WaitForSingleObject.
Nudge ==
    /\ del = "joining" /\ threads # <<>>
    /\ wakeup_cond' = TRUE
    /\ del' = "reaping"
    /\ UNCHANGED <<fields, lazy_cond, wpc, wjob, cpc, history>>

\* Mutant: a wait that timed out ends the loop.
Reap_TimedOut ==
    /\ del = "reaping"
    /\ threads' = Tail(threads)
    /\ del' = "joining"
    /\ UNCHANGED <<stop, num_threads, busy_threads, queue, events, wpc, wjob, cpc, history>>

Reap ==
    /\ del = "reaping" /\ wpc[Head(threads)] = "exited"
    /\ GotoW(Head(threads), "joined")
    /\ threads' = Tail(threads)
    /\ del' = "joining"
    /\ UNCHANGED <<stop, num_threads, busy_threads, queue, events, wjob, cpc, history>>

NotYet ==
    /\ del = "reaping" /\ wpc[Head(threads)] # "exited"
    /\ del' = "joining"
    /\ UNCHANGED <<fields, events, wpc, wjob, cpc, history>>

\* num_threads = 0, threadpool_delete_jobs, the deletion of lock and events
\* and free.
Free ==
    /\ del = "joining" /\ threads = <<>>
    /\ num_threads' = 0
    /\ queue' = <<>>
    /\ del' = "freed"
    /\ UNCHANGED <<stop, busy_threads, threads, events, wpc, wjob, cpc, history>>

-----------------------------------------------------------------------------
WorkerStep(w) == Sleep(w) \/ Wake(w) \/ Dequeue(w) \/ Finish(w) \/ Retire(w) \/ Exit(w)
CallStep(c) == Signal(c) \/ KeepWaiting(c) \/ LazyWake(c) \/ ReturnFromWait(c)
DeleteStep == StopSignal \/ Nudge \/ Reap \/ NotYet \/ Free

Next ==
    \/ \E w \in Workers : WorkerStep(w)
    \/ \E c \in Callers : CallStep(c) \/ CallWait(c) \/ \E j \in Jobs : Enqueue(c, j)
    \/ Stop
    \/ DeleteStep

\* Threads are scheduled, waits time out and callbacks return.
Fairness ==
    /\ \A w \in Workers : WF_vars(WorkerStep(w))
    /\ \A c \in Callers : WF_vars(CallStep(c))
    /\ WF_vars(DeleteStep)

-----------------------------------------------------------------------------
TypeOK ==
    /\ stop \in BOOLEAN /\ wakeup_cond \in BOOLEAN /\ lazy_cond \in BOOLEAN
    /\ num_threads \in 0 .. MaxThreads /\ busy_threads \in 0 .. MaxThreads
    /\ queue \in Seq(Jobs) /\ threads \in Seq(Workers)
    /\ wpc \in [Workers -> {"none", "top", "wait", "run", "done", "exited", "joined"}]
    /\ wjob \in [Workers -> Jobs \cup {NoJob}]
    /\ cpc \in [Callers -> {"idle", "signal", "check", "lazy"}]
    /\ del \in {"open", "stopped", "joining", "reaping", "freed"}

\* Nobody created a thread for the queued jobs yet.
Stranded == num_threads = 0 /\ queue # <<>>

\* Although one event_set wakes one thread and is forgotten by everybody else,
\* an accepted job is run, ...
JobsRun == \A j \in Jobs : j \in accepted ~> (j \in finished \/ stop \/ Stranded)

\* every thread inside threadpool_wait gets out, however many there are, ...
WaitReturns ==
    \A c \in Callers : cpc[c] \in {"check", "lazy"} ~> (cpc[c] = "idle" \/ Stranded)

\* and the pool is deleted ...
DeleteTerminates == stop ~> del = "freed"

\* when none of its threads can touch it any more.
FreedPoolUntouched ==
    del = "freed" => \A w \in Workers : wpc[w] \in {"none", "joined"}

Running == {w \in Workers : wpc[w] = "run"}
RunningJobs == {wjob[w] : w \in Running}
InWait == [c \in Callers |-> cpc[c] \in {"check", "lazy"}]

Abstract == INSTANCE JobPool WITH
    MaxRunning <- MaxThreads,
    pending <- queue,
    running <- RunningJobs,
    done <- finished,
    closed <- stop,
    waiting <- InWait

\* The Windows pool keeps the promises of threadpool.h as the pthread pool does.
ImplementsJobPool == Abstract!Spec
=============================================================================

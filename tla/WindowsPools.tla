---------------------------- MODULE WindowsPools ----------------------------
(***************************************************************************)
(* The two thread pools of a Windows build: CMakeLists.txt takes           *)
(* src/threadpool_winvista.c or src/threadpool_winxp.c by the version of   *)
(* Windows the library is built for, so a behaviour is one of the one or   *)
(* one of the other.                                                       *)
(***************************************************************************)
EXTENDS Naturals, Sequences

CONSTANTS Jobs,       \* the jobs of the Vista pool
          Polled,     \* those of the pool that polls, a smaller set
          Callers, Workers, MaxThreads, NoJob

VARIABLES
    version,
    stop, num_threads, busy_threads, queue, threads, wakeup_cond, lazy_cond,
    wpc, wjob, cpc, owed, accepted, finished, del,
    first, last, count, next, prev, place, call, subject, added, freed

Winxp == INSTANCE ThreadpoolWinxp WITH Jobs <- Polled
Vista == INSTANCE ThreadpoolVista
winxpVars == <<stop, num_threads, busy_threads, queue, threads, wakeup_cond, lazy_cond,
               wpc, wjob, cpc, owed, accepted, finished, del>>
vistaVars == <<first, last, count, next, prev, place, call, subject, added, freed>>
vars == <<version, winxpVars, vistaVars>>

Init == version \in {"winxp", "vista"} /\ Winxp!Init /\ Vista!Init

Next ==
    /\ UNCHANGED version
    /\ \/ version = "winxp" /\ Winxp!Next /\ UNCHANGED vistaVars
       \/ version = "vista" /\ Vista!Next /\ UNCHANGED winxpVars

\* The steps of the pool that is not there are never enabled.
Fairness == Winxp!Fairness /\ Vista!Fairness

TypeOK == version \in {"winxp", "vista"} /\ Winxp!TypeOK

\* threadpool_delete frees a pool that no thread and no callback will touch.
FreedPoolUntouched == TypeOK /\ Winxp!FreedPoolUntouched /\ Vista!WaitDrains

\* The list of jobs of the pool of Windows is whole in whatever order they end.
ListIntact == Vista!ListIntact

\* The pool that polls is one that threadpool.h promises.
ImplementsJobPool == Winxp!ImplementsJobPool

\* Every job that threadpool_enqueue accepted runs.
JobsRun == Winxp!JobsRun /\ Vista!AddedJobsRun

\* threadpool_wait returns, however many threads are in it, and so does
\* threadpool_delete.
CallsReturn == Winxp!WaitReturns /\ Vista!WaitEnds /\ Winxp!DeleteTerminates
=============================================================================

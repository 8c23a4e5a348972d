--------------------------- MODULE ThreadpoolVista ---------------------------
(***************************************************************************)
(* src/threadpool_winvista.c: jobs on the thread pool of Windows.  The     *)
(* library keeps a doubly linked list of the jobs that were not finished   *)
(* yet, from which the callback of a job unlinks it, and waits for the job *)
(* at its head.  Windows runs submitted jobs on at most MaxThreads threads *)
(* in no particular order.                                                 *)
(*                                                                         *)
(* threadpool_delete does not wait for callbacks, which use the pool to    *)
(* unlink their job.  Its caller has to come from threadpool_wait, as the  *)
(* tests do, with nobody else in a call.                                   *)
(***************************************************************************)
EXTENDS Naturals, Sequences, FiniteSets

CONSTANTS Jobs,        \* jobs, each enqueued at most once
          Callers,     \* threads that call threadpool_enqueue and _wait
          MaxThreads,  \* max_threads of threadpool_create
          NoJob        \* NULL

VARIABLES
    first, last,   \* queue_first, queue_last
    count,         \* queue_count
    next, prev,    \* the links of a job
    place,         \* place[j]: "new", "added" to the list, "submitted", "running",
                   \* "ran" but still to be unlinked, "gone"
    call,          \* call[c]: "idle", "submit" the job it added, "look" at the head
                   \* of the list, "blocked" on a job, "waited" when it returned
                   \* from threadpool_wait and nothing was enqueued since
    subject,       \* subject[c]: the job it has to submit or waits for
    added,         \* history: the jobs in the order they were added
    freed          \* threadpool_delete freed the pool

links == <<first, last, count, next, prev>>
vars == <<links, place, call, subject, added, freed>>

Init ==
    /\ first = NoJob /\ last = NoJob /\ count = 0
    /\ next = [j \in Jobs |-> NoJob] /\ prev = [j \in Jobs |-> NoJob]
    /\ place = [j \in Jobs |-> "new"]
    /\ call = [c \in Callers |-> "idle"]
    /\ subject = [c \in Callers |-> NoJob]
    /\ added = <<>>
    /\ freed = FALSE

Goto(c, p) == call' = [call EXCEPT ![c] = p]
Free(c) == call[c] \in {"idle", "waited"}

-----------------------------------------------------------------------------
\* threadpool_enqueue up to the unlock: threadpool_add_job.  Where the job or
\* its work cannot be allocated it returns false before it touches the pool,
\* and the job remains "new": a stuttering step.
Enqueue(c, j) ==
    /\ ~freed /\ Free(c) /\ place[j] = "new"
    /\ first' = IF last = NoJob THEN j ELSE first
    /\ last' = j
    /\ next' = IF last = NoJob THEN next ELSE [next EXCEPT ![last] = j]
    /\ prev' = [prev EXCEPT ![j] = last]
    /\ count' = count + 1
    /\ place' = [place EXCEPT ![j] = "added"]
    /\ call' = [d \in Callers |->
                  IF d = c THEN "submit" ELSE IF call[d] = "waited" THEN "idle" ELSE call[d]]
    /\ subject' = [subject EXCEPT ![c] = j]
    /\ added' = Append(added, j)
    /\ UNCHANGED freed

\* SubmitThreadpoolWork.
Submit(c) ==
    /\ call[c] = "submit"
    /\ place' = [place EXCEPT ![subject[c]] = "submitted"]
    /\ Goto(c, "idle")
    /\ UNCHANGED <<links, subject, added, freed>>

\* A thread of Windows' pool enters threadpool_job_callback.
Start(j) ==
    /\ place[j] = "submitted"
    /\ Cardinality({k \in Jobs : place[k] \in {"running", "ran"}}) < MaxThreads
    /\ place' = [place EXCEPT ![j] = "running"]
    /\ UNCHANGED <<links, call, subject, added, freed>>

Finish(j) ==
    /\ place[j] = "running"
    /\ place' = [place EXCEPT ![j] = "ran"]
    /\ UNCHANGED <<links, call, subject, added, freed>>

\* Mutant: the link back to the job that was the first stays.
Unlink_KeepsPrev(j) ==
    /\ IF j = first
       THEN first' = next[j] /\ UNCHANGED <<next, prev>>
       ELSE /\ next' = [next EXCEPT ![prev[j]] = next[j]]
            /\ prev' = IF next[j] = NoJob THEN prev ELSE [prev EXCEPT ![next[j]] = prev[j]]
            /\ UNCHANGED first
    /\ last' = IF j = last THEN prev[j] ELSE last
    /\ count' = count - 1

\* threadpool_remove_job.
Unlink(j) ==
    /\ IF j = first
       THEN /\ first' = next[j]
            /\ prev' = IF next[j] = NoJob THEN prev ELSE [prev EXCEPT ![next[j]] = NoJob]
            /\ UNCHANGED next
       ELSE /\ next' = [next EXCEPT ![prev[j]] = next[j]]
            /\ prev' = IF next[j] = NoJob THEN prev ELSE [prev EXCEPT ![next[j]] = prev[j]]
            /\ UNCHANGED first
    /\ last' = IF j = last THEN prev[j] ELSE last
    /\ count' = count - 1

Remove(j) ==
    /\ place[j] = "ran"
    /\ Unlink(j)
    /\ place' = [place EXCEPT ![j] = "gone"]
    /\ UNCHANGED <<call, subject, added, freed>>

-----------------------------------------------------------------------------
CallWait(c) ==
    /\ ~freed /\ Free(c)
    /\ Goto(c, "look")
    /\ UNCHANGED <<links, place, subject, added, freed>>

\* One turn of the loop of threadpool_wait, up to the unlock.
Look(c) ==
    /\ call[c] = "look"
    /\ Goto(c, IF first = NoJob THEN "waited" ELSE "blocked")
    /\ subject' = [subject EXCEPT ![c] = first]
    /\ UNCHANGED <<links, place, added, freed>>

\* WaitForThreadpoolWorkCallbacks returns, at once for a job that was not
\* submitted yet.
Unblock(c) ==
    /\ call[c] = "blocked"
    /\ place[subject[c]] \notin {"submitted", "running", "ran"}
    /\ Goto(c, "look")
    /\ UNCHANGED <<links, place, subject, added, freed>>

Delete(c) ==
    /\ ~freed
    /\ call[c] = "waited" /\ \A d \in Callers : Free(d)
    /\ freed' = TRUE
    /\ UNCHANGED <<links, place, call, subject, added>>

JobStep(j) == Start(j) \/ Finish(j) \/ Remove(j)
CallStep(c) == Submit(c) \/ Look(c) \/ Unblock(c)

Next ==
    \/ \E j \in Jobs : JobStep(j)
    \/ \E c \in Callers : CallStep(c) \/ CallWait(c) \/ Delete(c) \/ \E j \in Jobs : Enqueue(c, j)

\* Callbacks return and Windows runs what was submitted.
Fairness ==
    /\ \A j \in Jobs : WF_vars(JobStep(j))
    /\ \A c \in Callers : WF_vars(CallStep(c))

-----------------------------------------------------------------------------
\* Where the unfinished jobs are in added, with the places before the first and
\* behind the last job that was added, ...
Unfinished == {i \in 1 .. Len(added) : place[added[i]] # "gone"}
Positions == Unfinished \cup {0, Len(added) + 1}
At(i) == IF i \in 1 .. Len(added) THEN added[i] ELSE NoJob

\* ... and those of them that have no other between them.
Adjacent(i, k) == i < k /\ \A m \in Unfinished : m <= i \/ k <= m

\* In whatever order the jobs in the middle of it end, the list holds exactly
\* the unfinished jobs in the order they were added, both ways.
ListIntact ==
    /\ count = Cardinality(Unfinished)
    /\ \A i, k \in Positions : Adjacent(i, k) =>
          /\ At(k) = IF i = 0 THEN first ELSE next[added[i]]
          /\ At(i) = IF k = Len(added) + 1 THEN last ELSE prev[added[k]]

\* Every job that was added is run.
AddedJobsRun == \A j \in Jobs : place[j] = "added" ~> place[j] = "gone"

\* threadpool_wait returns although it waits for one job at a time and those
\* that follow may end before it.
WaitEnds == \A c \in Callers : call[c] \in {"look", "blocked"} ~> call[c] \notin {"look", "blocked"}

\* When threadpool_wait has returned and nothing was added since, no callback
\* is left that would use the pool.
WaitDrains == (\E c \in Callers : call[c] = "waited") \/ freed =>
                  \A j \in Jobs : place[j] \in {"new", "gone"}
=============================================================================

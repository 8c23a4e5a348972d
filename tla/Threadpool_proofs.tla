-------------------------- MODULE Threadpool_proofs --------------------------
(***************************************************************************)
(* Proofs about Threadpool, for any number of jobs, callers and workers.   *)
(*                                                                         *)
(* The properties of Threadpool are not inductive one by one: that a job   *)
(* is never lost needs the workers' places, that the counters stay natural *)
(* needs that they agree with what they count, and that a freed pool has   *)
(* no live worker needs the list of threads.  IInv joins them with the     *)
(* facts that relate threadpool_delete to its callers (DeleteInv), the     *)
(* thread list to the workers (ThreadInv) and a waiter's debt to the jobs  *)
(* accepted (OwedInv).                                                     *)
(***************************************************************************)
EXTENDS Threadpool, SequenceLemmas, FiniteSetTheorems

-----------------------------------------------------------------------------
(* The inductive invariant.                                                *)

DeleteInv ==
    /\ stop <=> del # "open"
    /\ del # "open" => \A c \in Callers : cpc[c] = "idle"

ThreadInv ==
    /\ Live = Range(threads)
    /\ IsInjective(threads)
    /\ del = "freed" => threads = <<>>
    /\ num_threads <= MaxThreads
    /\ del # "freed" => Cardinality(Live) <= num_threads

HeldJobs == \A w \in Running : wjob[w] \in Jobs

OwedInv == \A c \in Callers : owed[c] \subseteq accepted

IInv ==
    /\ TypeOK
    /\ CountersAgree
    /\ DeleteInv
    /\ ThreadInv
    /\ HeldJobs
    /\ NoJobLostOrDuplicated
    /\ OwedInv

-----------------------------------------------------------------------------
(* The steps of the pool and each part of the invariant.                   *)

\* The actions of Next, with their parameters bound: the case split of every
\* lemma about a step.
LEMMA NextCases ==
    ASSUME [Next]_vars
    PROVE  \/ \E w \in Workers : Sleep(w)
           \/ \E w \in Workers : Dequeue(w)
           \/ \E w \in Workers : Finish(w)
           \/ \E w \in Workers : Retire(w)
           \/ \E w \in Workers : Exit(w)
           \/ \E w \in Workers : SpuriousWakeup(w)
           \/ \E c \in Callers : Broadcast(c)
           \/ \E c \in Callers : KeepWaiting(c)
           \/ \E c \in Callers : ReturnFromWait(c)
           \/ \E c \in Callers : SpuriousLazyWakeup(c)
           \/ \E c \in Callers, j \in Jobs : Enqueue(c, j)
           \/ \E c \in Callers : CallWait(c)
           \/ Stop
           \/ StopBroadcast
           \/ Join
           \/ Free
           \/ UNCHANGED vars
  BY ThreadpoolAssumption DEF Next, WorkerStep, CallStep, DeleteStep

\* SignalLazy moves at most one caller, from "lazy" to "check".
LEMMA SignalMoves ==
    ASSUME TypeOK, SignalLazy
    PROVE  /\ cpc' \in [Callers -> CallerPlaces]
           /\ \A c \in Callers : cpc'[c] = cpc[c] \/ (cpc[c] = "lazy" /\ cpc'[c] = "check")
  BY DEF TypeOK, SignalLazy, CallerPlaces

\* Every step keeps the types.
LEMMA TypeStep ==
    ASSUME IInv, [Next]_vars
    PROVE  TypeOK'
<1> USE DEF IInv, TypeOK, poolFields, WorkerPlaces, CallerPlaces, DeletePlaces
<1>0. IsFiniteSet(Busy)
  BY ThreadpoolAssumption, FS_Subset DEF Busy
<1>1. ASSUME NEW w \in Workers, Sleep(w) PROVE TypeOK'
  BY <1>1 DEF Sleep
<1>2. ASSUME NEW w \in Workers, Dequeue(w) PROVE TypeOK'
  <2>1. /\ Head(queue) \in Jobs /\ Tail(queue) \in Seq(Jobs)
        /\ Len(queue) \in Nat /\ Len(queue) # 0
    BY <1>2, TailRange, EmptySeq, LenProperties DEF Dequeue, AtWork, TakeJob
  <2>2. del # "freed"  BY <1>2 DEF Dequeue, AtWork, TakeJob, DeleteInv
  <2>3. queue_count - 1 \in Nat  BY <2>1, <2>2 DEF CountersAgree
  <2> QED BY <1>2, <2>1, <2>3 DEF Dequeue, AtWork, TakeJob
<1>3. ASSUME NEW w \in Workers, Finish(w) PROVE TypeOK'
  BY <1>3 DEF Finish, HeldJobs, Running
<1>4. ASSUME NEW w \in Workers, Retire(w) PROVE TypeOK'
  <2>1. w \in Busy  BY <1>4 DEF Retire, Busy
  <2>2. busy_threads - 1 \in Nat
    BY <1>0, <2>1, FS_EmptySet, FS_CardinalityType DEF CountersAgree
  <2>3. cpc' \in [Callers -> CallerPlaces]
    BY <1>4, SignalMoves DEF Retire
  <2> QED BY <1>4, <2>2, <2>3 DEF Retire
<1>5. ASSUME NEW w \in Workers, Exit(w) PROVE TypeOK'
  BY <1>5, SignalMoves DEF Exit
<1>6. ASSUME NEW w \in Workers, SpuriousWakeup(w) PROVE TypeOK'
  BY <1>6 DEF SpuriousWakeup
<1>7. ASSUME NEW c \in Callers, Broadcast(c) PROVE TypeOK'
  BY <1>7 DEF Broadcast, WakeAll, Asleep
<1>8. ASSUME NEW c \in Callers, KeepWaiting(c) PROVE TypeOK'
  BY <1>8 DEF KeepWaiting
<1>9. ASSUME NEW c \in Callers, ReturnFromWait(c) PROVE TypeOK'
  BY <1>9 DEF ReturnFromWait
<1>10. ASSUME NEW c \in Callers, SpuriousLazyWakeup(c) PROVE TypeOK'
  BY <1>10 DEF SpuriousLazyWakeup
<1>11. ASSUME NEW c \in Callers, NEW j \in Jobs, Enqueue(c, j) PROVE TypeOK'
  <2>1. Append(queue, j) \in Seq(Jobs)  BY AppendRange
  <2>2. /\ wpc' \in [Workers -> WorkerPlaces]
        /\ threads' \in Seq(Workers)
        /\ num_threads' \in Nat
    <3>1. CASE CreateThread
      <4>1. PICK w \in Workers :
               /\ wpc' = [wpc EXCEPT ![w] = "top"]
               /\ threads' = <<w>> \o threads
               /\ num_threads' = num_threads + 1
        BY <3>1 DEF CreateThread
      <4>2. <<w>> \o threads \in Seq(Workers)  BY ConsRange
      <4> QED BY <4>1, <4>2
    <3>2. CASE NoThreadCreated
      BY <3>2 DEF NoThreadCreated
    <3> QED BY <1>11, <3>1, <3>2 DEF Enqueue
  <2> QED BY <1>11, <2>1, <2>2 DEF Enqueue
<1>12. ASSUME NEW c \in Callers, CallWait(c) PROVE TypeOK'
  BY <1>12 DEF CallWait
<1>13. CASE Stop
  BY <1>13 DEF Stop
<1>14. CASE StopBroadcast
  BY <1>14 DEF StopBroadcast, WakeAll, Asleep
<1>15. CASE Join
  BY <1>15, TailRange DEF Join
<1>16. CASE Free
  BY <1>16 DEF Free
<1>17. CASE UNCHANGED vars
  BY <1>17 DEF vars
<1> QED
  BY NextCases, <1>1, <1>2, <1>3, <1>4, <1>5, <1>6, <1>7, <1>8, <1>9, <1>10,
     <1>11, <1>12, <1>13, <1>14, <1>15, <1>16, <1>17

\* Every step keeps the counters in agreement with what they count.
LEMMA CountersStep ==
    ASSUME IInv, [Next]_vars
    PROVE  CountersAgree'
<1> USE DEF IInv, TypeOK, poolFields, CountersAgree
<1>0. IsFiniteSet(Busy)
  BY ThreadpoolAssumption, FS_Subset DEF Busy
<1>1. ASSUME UNCHANGED <<busy_threads, queue_count, queue>>, del' = del, Busy' = Busy
      PROVE  CountersAgree'
  BY <1>1
<1>2. ASSUME NEW w \in Workers, Dequeue(w) PROVE CountersAgree'
  <2>1. w \notin Busy /\ Busy' = Busy \cup {w}
    BY <1>2 DEF Dequeue, AtWork, TakeJob, Busy
  <2>2. Cardinality(Busy') = Cardinality(Busy) + 1
    BY <1>0, <2>1, FS_AddElement
  <2>3. Len(Tail(queue)) = Len(queue) - 1
    BY <1>2, TailRange DEF Dequeue, AtWork, TakeJob
  <2> QED BY <1>2, <2>2, <2>3 DEF Dequeue, AtWork, TakeJob
<1>3. ASSUME NEW w \in Workers, Retire(w) PROVE CountersAgree'
  <2>1. w \in Busy /\ Busy' = Busy \ {w}
    BY <1>3 DEF Retire, Busy
  <2>2. Cardinality(Busy') = Cardinality(Busy) - 1
    BY <1>0, <2>1, FS_RemoveElement
  <2> QED BY <1>3, <2>2 DEF Retire
<1>4. ASSUME NEW c \in Callers, NEW j \in Jobs, Enqueue(c, j) PROVE CountersAgree'
  <2>1. Busy' = Busy
    BY <1>4 DEF Enqueue, CreateThread, NoThreadCreated, Busy
  <2>2. Len(Append(queue, j)) = Len(queue) + 1  BY AppendRange
  <2> QED BY <1>4, <2>1, <2>2 DEF Enqueue
<1>5. ASSUME NEW w \in Workers, Sleep(w) \/ Finish(w) \/ Exit(w) \/ SpuriousWakeup(w)
      PROVE  CountersAgree'
  <2>1. Busy' = Busy
    BY <1>5 DEF Sleep, Finish, Exit, SpuriousWakeup, Busy
  <2> QED BY <1>1, <1>5, <2>1 DEF Sleep, Finish, Exit, SpuriousWakeup
<1>6. ASSUME NEW c \in Callers, Broadcast(c) PROVE CountersAgree'
  <2>1. Busy' = Busy
    BY <1>6 DEF Broadcast, WakeAll, Asleep, Busy
  <2> QED BY <1>1, <1>6, <2>1 DEF Broadcast
<1>7. ASSUME NEW c \in Callers,
             KeepWaiting(c) \/ ReturnFromWait(c) \/ SpuriousLazyWakeup(c) \/ CallWait(c)
      PROVE  CountersAgree'
  BY <1>7 DEF KeepWaiting, ReturnFromWait, SpuriousLazyWakeup, CallWait, Busy
<1>8. CASE Stop
  BY <1>8 DEF Stop, Busy
<1>9. CASE StopBroadcast
  <2>1. Busy' = Busy
    BY <1>9 DEF StopBroadcast, WakeAll, Asleep, Busy
  <2> QED BY <1>9, <2>1 DEF StopBroadcast
<1>10. CASE Join
  <2>1. Busy' = Busy
    BY <1>10, TailRange DEF Join, Busy
  <2> QED BY <1>10, <2>1 DEF Join
<1>11. CASE Free
  BY <1>11 DEF Free, Busy
<1>12. CASE UNCHANGED vars
  BY <1>12 DEF vars, Busy
<1> QED
  BY NextCases, <1>2, <1>3, <1>4, <1>5, <1>6, <1>7, <1>8, <1>9, <1>10, <1>11, <1>12

\* Every step keeps the link between stop, threadpool_delete and its callers.
LEMMA DeleteStepInv ==
    ASSUME IInv, [Next]_vars
    PROVE  DeleteInv'
<1> USE DEF IInv, DeleteInv, poolFields
<1>1. ASSUME NEW w \in Workers, Retire(w) PROVE DeleteInv'
  <2>1. \A c \in Callers : cpc[c] = "idle" => cpc'[c] = "idle"
    BY <1>1, SignalMoves DEF Retire
  <2> QED BY <1>1, <2>1 DEF Retire
<1>2. ASSUME NEW w \in Workers, Exit(w) PROVE DeleteInv'
  <2>1. \A c \in Callers : cpc[c] = "idle" => cpc'[c] = "idle"
    BY <1>2, SignalMoves DEF Exit
  <2> QED BY <1>2, <2>1 DEF Exit
<1>3. ASSUME NEW w \in Workers, Sleep(w) \/ Dequeue(w) \/ Finish(w) \/ SpuriousWakeup(w)
      PROVE  DeleteInv'
  BY <1>3 DEF Sleep, Dequeue, AtWork, TakeJob, Finish, SpuriousWakeup
<1>4. ASSUME NEW c \in Callers,
             Broadcast(c) \/ KeepWaiting(c) \/ ReturnFromWait(c) \/ SpuriousLazyWakeup(c)
      PROVE  DeleteInv'
  BY <1>4 DEF Broadcast, KeepWaiting, ReturnFromWait, SpuriousLazyWakeup, TypeOK
<1>5. ASSUME NEW c \in Callers, NEW j \in Jobs, Enqueue(c, j) PROVE DeleteInv'
  BY <1>5 DEF Enqueue
<1>6. ASSUME NEW c \in Callers, CallWait(c) PROVE DeleteInv'
  BY <1>6 DEF CallWait
<1>7. CASE Stop \/ StopBroadcast \/ Join \/ Free
  BY <1>7 DEF Stop, StopBroadcast, Join, Free
<1>8. CASE UNCHANGED vars
  BY <1>8 DEF vars
<1> QED BY NextCases, <1>1, <1>2, <1>3, <1>4, <1>5, <1>6, <1>7, <1>8

\* Every step keeps the list of threads equal to the live workers.
LEMMA ThreadStep ==
    ASSUME IInv, [Next]_vars
    PROVE  ThreadInv'
<1> USE DEF IInv, TypeOK, ThreadInv, poolFields
<1>0. IsFiniteSet(Live)
  BY ThreadpoolAssumption, FS_Subset DEF Live
<1>1. ASSUME UNCHANGED <<threads, num_threads>>, Live' = Live,
             del' = "freed" <=> del = "freed"
      PROVE  ThreadInv'
  BY <1>1
<1>2. ASSUME NEW w \in Workers,
             Sleep(w) \/ Dequeue(w) \/ Finish(w) \/ Retire(w) \/ Exit(w) \/ SpuriousWakeup(w)
      PROVE  ThreadInv'
  <2>1. Live' = Live
    BY <1>2 DEF Sleep, Dequeue, AtWork, TakeJob, Finish, Retire, Exit, SpuriousWakeup, Live
  <2> QED BY <1>1, <1>2, <2>1 DEF Sleep, Dequeue, AtWork, TakeJob, Finish, Retire, Exit, SpuriousWakeup
<1>3. ASSUME NEW c \in Callers, Broadcast(c) PROVE ThreadInv'
  <2>1. Live' = Live
    BY <1>3 DEF Broadcast, WakeAll, Asleep, Live
  <2> QED BY <1>1, <1>3, <2>1 DEF Broadcast
<1>4. ASSUME NEW c \in Callers,
             KeepWaiting(c) \/ ReturnFromWait(c) \/ SpuriousLazyWakeup(c) \/ CallWait(c)
      PROVE  ThreadInv'
  <2>1. /\ UNCHANGED <<threads, num_threads, wpc>>
        /\ del' = del
    BY <1>4 DEF KeepWaiting, ReturnFromWait, SpuriousLazyWakeup, CallWait
  <2>2. Live' = Live  BY <2>1 DEF Live
  <2> QED BY <1>1, <2>1, <2>2
<1>5. ASSUME NEW c \in Callers, NEW j \in Jobs, Enqueue(c, j) PROVE ThreadInv'
  <2>1. CASE NoThreadCreated
    BY <1>1, <1>5, <2>1 DEF Enqueue, NoThreadCreated, Live
  <2>2. CASE NeedsThread /\ CreateThread
    <3>1. PICK w \in Workers :
             /\ wpc[w] = "none"
             /\ wpc' = [wpc EXCEPT ![w] = "top"]
             /\ threads' = <<w>> \o threads
             /\ num_threads' = num_threads + 1
      BY <2>2 DEF CreateThread
    <3>2. w \notin Live /\ Live' = Live \cup {w}
      BY <3>1 DEF Live
    <3>3. Range(threads') = Range(threads) \cup {w} /\ IsInjective(threads')
      BY <3>1, <3>2, ConsRange
    <3>4. Cardinality(Live') = Cardinality(Live) + 1
      BY <1>0, <3>2, FS_AddElement
    <3>5. Cardinality(Live) \in Nat  BY <1>0, FS_CardinalityType
    <3>6. num_threads' <= MaxThreads
      BY <2>2, <3>1, ThreadpoolAssumption DEF NeedsThread
    <3> QED BY <1>5, <3>1, <3>2, <3>3, <3>4, <3>5, <3>6 DEF Enqueue
  <2> QED BY <1>5, <2>1, <2>2 DEF Enqueue
<1>6. CASE Stop
  BY <1>6 DEF Stop, Live
<1>7. CASE StopBroadcast
  <2>1. Live' = Live
    BY <1>7 DEF StopBroadcast, WakeAll, Asleep, Live
  <2> QED BY <1>1, <1>7, <2>1 DEF StopBroadcast
<1>8. CASE Join
  <2>1. /\ Head(threads) \in Workers
        /\ Range(threads) = Range(Tail(threads)) \cup {Head(threads)}
        /\ IsInjective(Tail(threads))
        /\ Head(threads) \notin Range(Tail(threads))
    BY <1>8, TailRange DEF Join
  <2>2. Live' = Live \ {Head(threads)}
    BY <1>8, <2>1 DEF Join, Live
  <2>3. Cardinality(Live') <= Cardinality(Live)
    BY <1>0, <2>2, FS_Subset
  <2>4. Cardinality(Live) \in Nat /\ Cardinality(Live') \in Nat
    BY <1>0, <2>2, FS_Subset, FS_CardinalityType
  <2>5. Live' = Range(threads')
    BY <1>8, <2>1, <2>2 DEF Join
  <2>6. del # "freed" /\ del' = del  BY <1>8 DEF Join
  <2> QED BY <1>8, <2>1, <2>3, <2>4, <2>5, <2>6 DEF Join
<1>9. CASE Free
  BY <1>9, ThreadpoolAssumption DEF Free, Live
<1>10. CASE UNCHANGED vars
  BY <1>10 DEF vars, Live
<1> QED
  BY NextCases, <1>2, <1>3, <1>4, <1>5, <1>6, <1>7, <1>8, <1>9, <1>10

\* Every step keeps a job in the hands of each running worker.
LEMMA HeldStep ==
    ASSUME IInv, [Next]_vars
    PROVE  HeldJobs'
<1> USE DEF IInv, TypeOK, HeldJobs, Running, poolFields
<1>1. ASSUME NEW w \in Workers, Dequeue(w) PROVE HeldJobs'
  <2>1. Head(queue) \in Jobs  BY <1>1, TailRange DEF Dequeue, AtWork, TakeJob
  <2> QED BY <1>1, <2>1 DEF Dequeue, AtWork, TakeJob
<1>2. ASSUME NEW w \in Workers,
             Sleep(w) \/ Finish(w) \/ Retire(w) \/ Exit(w) \/ SpuriousWakeup(w)
      PROVE  HeldJobs'
  BY <1>2 DEF Sleep, Finish, Retire, Exit, SpuriousWakeup
<1>3. ASSUME NEW c \in Callers, Broadcast(c) PROVE HeldJobs'
  BY <1>3 DEF Broadcast, WakeAll, Asleep
<1>4. ASSUME NEW c \in Callers,
             KeepWaiting(c) \/ ReturnFromWait(c) \/ SpuriousLazyWakeup(c) \/ CallWait(c)
      PROVE  HeldJobs'
  BY <1>4 DEF KeepWaiting, ReturnFromWait, SpuriousLazyWakeup, CallWait
<1>5. ASSUME NEW c \in Callers, NEW j \in Jobs, Enqueue(c, j) PROVE HeldJobs'
  BY <1>5 DEF Enqueue, CreateThread, NoThreadCreated
<1>6. CASE Stop \/ StopBroadcast \/ Join \/ Free
  BY <1>6, TailRange DEF Stop, StopBroadcast, Join, Free, WakeAll, Asleep
<1>7. CASE UNCHANGED vars
  BY <1>7 DEF vars
<1> QED BY NextCases, <1>1, <1>2, <1>3, <1>4, <1>5, <1>6, <1>7

\* Every step keeps a waiter's debt among the jobs accepted.
LEMMA OwedStep ==
    ASSUME IInv, [Next]_vars
    PROVE  OwedInv'
<1> USE DEF IInv, TypeOK, OwedInv, poolFields
<1>1. ASSUME NEW w \in Workers,
             Sleep(w) \/ Dequeue(w) \/ Finish(w) \/ Retire(w) \/ Exit(w) \/ SpuriousWakeup(w)
      PROVE  OwedInv'
  BY <1>1 DEF Sleep, Dequeue, AtWork, TakeJob, Finish, Retire, Exit, SpuriousWakeup
<1>2. ASSUME NEW c \in Callers,
             Broadcast(c) \/ KeepWaiting(c) \/ ReturnFromWait(c) \/ SpuriousLazyWakeup(c)
      PROVE  OwedInv'
  BY <1>2 DEF Broadcast, KeepWaiting, ReturnFromWait, SpuriousLazyWakeup
<1>3. ASSUME NEW c \in Callers, CallWait(c) PROVE OwedInv'
  BY <1>3 DEF CallWait
<1>4. ASSUME NEW c \in Callers, NEW j \in Jobs, Enqueue(c, j) PROVE OwedInv'
  BY <1>4 DEF Enqueue
<1>5. CASE Stop \/ StopBroadcast \/ Join \/ Free
  BY <1>5 DEF Stop, StopBroadcast, Join, Free
<1>6. CASE UNCHANGED vars
  BY <1>6 DEF vars
<1> QED BY NextCases, <1>1, <1>2, <1>3, <1>4, <1>5, <1>6

\* Every step keeps each job in exactly one place.
LEMMA JobStep ==
    ASSUME IInv, [Next]_vars
    PROVE  NoJobLostOrDuplicated'
<1> DEFINE Held == {wjob[w] : w \in Running}
<1> USE DEF IInv, TypeOK, HeldJobs, NoJobLostOrDuplicated, poolFields
<1>1. ASSUME UNCHANGED <<queue, wjob, accepted, finished>>, Running' = Running,
             del' = "freed" <=> del = "freed"
      PROVE  NoJobLostOrDuplicated'
  BY <1>1 DEF Queued
<1>2. ASSUME NEW w \in Workers, Dequeue(w) PROVE NoJobLostOrDuplicated'
  <2>1. /\ Range(queue) = Range(Tail(queue)) \cup {Head(queue)}
        /\ IsInjective(Tail(queue))
        /\ Head(queue) \notin Range(Tail(queue))
    BY <1>2, TailRange DEF Dequeue, AtWork, TakeJob
  <2>2. /\ w \notin Running /\ Running' = Running \cup {w}
        /\ wjob'[w] = Head(queue)
        /\ \A v \in Running : wjob'[v] = wjob[v]
    BY <1>2 DEF Dequeue, AtWork, TakeJob, Running
  <2>3. Queued = Queued' \cup {Head(queue)} /\ Head(queue) \notin Queued'
    BY <1>2, <2>1 DEF Dequeue, AtWork, TakeJob, Queued
  <2>4. Held' = Held \cup {Head(queue)}
    BY <2>2
  <2>5. Head(queue) \notin finished /\ \A v \in Running : wjob[v] # Head(queue)
    BY <2>3
  <2>6. del' = del /\ UNCHANGED <<accepted, finished>> /\ IsInjective(queue')
    BY <1>2, <2>1 DEF Dequeue, AtWork, TakeJob
  <2> QED BY <2>2, <2>3, <2>4, <2>5, <2>6
<1>3. ASSUME NEW w \in Workers, Finish(w) PROVE NoJobLostOrDuplicated'
  <2>1. /\ w \in Running /\ Running' = Running \ {w}
        /\ \A v \in Running' : wjob'[v] = wjob[v]
    BY <1>3 DEF Finish, Running
  <2>2. /\ finished' = finished \cup {wjob[w]}
        /\ UNCHANGED <<queue, accepted, del>>
    BY <1>3 DEF Finish
  <2>3. Held \cup finished = Held' \cup finished'
    BY <2>1, <2>2
  <2>4. \A v \in Running' : wjob[v] # wjob[w]
    BY <2>1
  <2>5. Queued' = Queued  BY <2>2 DEF Queued
  <2>6. \A v \in Running' : wjob'[v] \notin Queued' \cup finished'
    BY <2>1, <2>2, <2>4, <2>5
  <2>7. \A u, v \in Running' : wjob'[u] = wjob'[v] => u = v
    BY <2>1
  <2>8. Queued' \cap finished' = {}
    BY <2>1, <2>2, <2>5
  <2>9. del' # "freed" => accepted' = Queued' \cup finished' \cup Held'
    BY <2>2, <2>3, <2>5
  <2> QED BY <2>2, <2>6, <2>7, <2>8, <2>9
<1>4. ASSUME NEW w \in Workers, Sleep(w) \/ Retire(w) \/ Exit(w) \/ SpuriousWakeup(w)
      PROVE  NoJobLostOrDuplicated'
  <2>1. /\ UNCHANGED <<queue, wjob, accepted, finished, del>>
        /\ Running' = Running
    BY <1>4 DEF Sleep, Retire, Exit, SpuriousWakeup, Running
  <2> QED BY <1>1, <2>1
<1>5. ASSUME NEW c \in Callers, Broadcast(c) PROVE NoJobLostOrDuplicated'
  <2>1. Running' = Running
    BY <1>5 DEF Broadcast, WakeAll, Asleep, Running
  <2> QED BY <1>1, <1>5, <2>1 DEF Broadcast
<1>6. ASSUME NEW c \in Callers,
             KeepWaiting(c) \/ ReturnFromWait(c) \/ SpuriousLazyWakeup(c) \/ CallWait(c)
      PROVE  NoJobLostOrDuplicated'
  <2>1. UNCHANGED <<queue, wjob, accepted, finished, del, wpc>>
    BY <1>6 DEF KeepWaiting, ReturnFromWait, SpuriousLazyWakeup, CallWait
  <2>2. Running' = Running  BY <2>1 DEF Running
  <2> QED BY <1>1, <2>1, <2>2
<1>7. ASSUME NEW c \in Callers, NEW j \in Jobs, Enqueue(c, j)
      PROVE  NoJobLostOrDuplicated'
  <2>1. Running' = Running
    BY <1>7 DEF Enqueue, CreateThread, NoThreadCreated, Running
  <2>2. j \notin Queued \cup finished \cup Held
    BY <1>7 DEF Enqueue
  <2>3. Queued' = Queued \cup {j} /\ IsInjective(queue')
    BY <1>7, <2>2, AppendRange DEF Enqueue, Queued
  <2>4. UNCHANGED <<wjob, finished, del>> /\ accepted' = accepted \cup {j}
    BY <1>7 DEF Enqueue
  <2>5. Held' = Held  BY <2>1, <2>4
  <2> QED BY <2>1, <2>2, <2>3, <2>4, <2>5
<1>8. CASE Stop
  <2>1. UNCHANGED <<queue, wjob, accepted, finished, wpc>>
        /\ del # "freed" /\ del' # "freed"
    BY <1>8 DEF Stop
  <2>2. Running' = Running  BY <2>1 DEF Running
  <2> QED BY <1>1, <2>1, <2>2
<1>9. CASE StopBroadcast
  <2>1. Running' = Running
    BY <1>9 DEF StopBroadcast, WakeAll, Asleep, Running
  <2> QED BY <1>1, <1>9, <2>1 DEF StopBroadcast
<1>10. CASE Join
  <2>1. Running' = Running
    BY <1>10, TailRange DEF Join, Running
  <2> QED BY <1>1, <1>10, <2>1 DEF Join
<1>11. CASE Free
  <2>1. Running = {}
    <3>1. threads = <<>> /\ Live = {}
      BY <1>11 DEF Free, ThreadInv, Range
    <3> QED BY <3>1 DEF Live, Running
  <2>2. Running' = {} /\ Queued' = {} /\ IsInjective(queue') /\ del' = "freed"
    BY <1>11, <2>1 DEF Free, Running, Queued, Range, IsInjective
  <2> QED BY <1>11, <2>2
<1>12. CASE UNCHANGED vars
  <2>1. Running' = Running  BY <1>12 DEF vars, Running
  <2> QED BY <1>1, <1>12, <2>1 DEF vars
<1> QED
  BY NextCases, <1>2, <1>3, <1>4, <1>5, <1>6, <1>7, <1>8, <1>9, <1>10, <1>11, <1>12

-----------------------------------------------------------------------------
(* The theorems.                                                           *)

\* IInv holds in every reachable state of the pool.
THEOREM Invariance == Spec => []IInv
<1>1. Init => IInv
  <2> SUFFICES ASSUME Init PROVE IInv  OBVIOUS
  <2> USE DEF Init
  <2>1. Live = {} /\ Busy = {} /\ Running = {} /\ Range(threads) = {} /\ Queued = {}
    BY DEF Live, Busy, Running, Queued, Range
  <2>2. TypeOK
    <3>1. wpc \in [Workers -> WorkerPlaces]  BY DEF WorkerPlaces
    <3>2. wjob \in [Workers -> Jobs \cup {NoJob}]  OBVIOUS
    <3>3. cpc \in [Callers -> CallerPlaces]  BY DEF CallerPlaces
    <3>4. owed \in [Callers -> SUBSET Jobs]  OBVIOUS
    <3>5. queue \in Seq(Jobs) /\ threads \in Seq(Workers)  BY EmptySeq
    <3> QED BY <3>1, <3>2, <3>3, <3>4, <3>5 DEF TypeOK, DeletePlaces
  <2>3. CountersAgree
    BY <2>1, FS_EmptySet DEF CountersAgree
  <2>4. DeleteInv  BY DEF DeleteInv
  <2>5. ThreadInv
    BY <2>1, FS_EmptySet, ThreadpoolAssumption DEF ThreadInv, IsInjective
  <2>6. HeldJobs /\ OwedInv  BY <2>1 DEF HeldJobs, OwedInv
  <2>7. NoJobLostOrDuplicated
    BY <2>1 DEF NoJobLostOrDuplicated, IsInjective
  <2> QED BY <2>2, <2>3, <2>4, <2>5, <2>6, <2>7 DEF IInv
<1>2. IInv /\ [Next]_vars => IInv'
  <2> SUFFICES ASSUME IInv, [Next]_vars PROVE IInv'  OBVIOUS
  <2> QED
    BY TypeStep, CountersStep, DeleteStepInv, ThreadStep, HeldStep, JobStep, OwedStep
    DEF IInv
<1> QED BY <1>1, <1>2, PTL DEF Spec

\* The variables keep their types: in particular neither counter ever goes
\* below zero.
THEOREM TypeCorrect == Spec => []TypeOK
<1>1. IInv => TypeOK  BY DEF IInv
<1> QED BY <1>1, Invariance, PTL

\* busy_threads counts the busy workers and queue_count the queued jobs.
THEOREM CountersCorrect == Spec => []CountersAgree
<1>1. IInv => CountersAgree  BY DEF IInv
<1> QED BY <1>1, Invariance, PTL

\* No accepted job is lost, duplicated or run twice.
THEOREM JobsCorrect == Spec => []NoJobLostOrDuplicated
<1>1. IInv => NoJobLostOrDuplicated  BY DEF IInv
<1> QED BY <1>1, Invariance, PTL

\* Once threadpool_delete freed the pool, no worker and no caller is inside.
THEOREM FreeIsSafe == Spec => []FreedPoolUntouched
<1>1. IInv => FreedPoolUntouched
  <2> SUFFICES ASSUME IInv, del = "freed" PROVE FreedPoolUntouched
    BY DEF FreedPoolUntouched
  <2>1. Live = {}  BY DEF IInv, ThreadInv, Range
  <2>2. \A c \in Callers : cpc[c] = "idle"  BY DEF IInv, DeleteInv
  <2> QED BY <2>1, <2>2 DEF FreedPoolUntouched
<1> QED BY <1>1, Invariance, PTL

\* The pool never exceeds max_threads, and threadpool_delete knows every
\* thread there is to join.
THEOREM ThreadsCorrect == Spec => []ThreadsBounded
<1>1. IInv => ThreadsBounded
  <2> SUFFICES ASSUME IInv PROVE ThreadsBounded  OBVIOUS
  <2> USE DEF IInv, ThreadInv
  <2>1. IsFiniteSet(Live)
    BY ThreadpoolAssumption, FS_Subset DEF Live
  <2>2. Cardinality(Live) \in Nat  BY <2>1, FS_CardinalityType
  <2>3. CASE del = "freed"
    <3>1. Live = {}  BY <2>3 DEF Range
    <3> QED BY <3>1, FS_EmptySet, ThreadpoolAssumption DEF ThreadsBounded
  <2>4. CASE del # "freed"
    BY <2>2, <2>4, ThreadpoolAssumption DEF ThreadsBounded, TypeOK
  <2> QED BY <2>3, <2>4
<1> QED BY <1>1, Invariance, PTL

\* Every step keeps NoLostWakeup: a worker goes to sleep only on an empty
\* queue, a queue grows only with a broadcast owed, and that broadcast leaves
\* no worker asleep.
THEOREM WakeupsCorrect == Spec => []NoLostWakeup
<1>1. Init => NoLostWakeup
  BY DEF Init, NoLostWakeup
<1>2. IInv /\ NoLostWakeup /\ [Next]_vars => NoLostWakeup'
  <2> SUFFICES ASSUME IInv, NoLostWakeup, [Next]_vars PROVE NoLostWakeup'
    OBVIOUS
  <2> USE DEF NoLostWakeup, IInv, TypeOK, poolFields
  <2>1. ASSUME NEW w \in Workers, Sleep(w) PROVE NoLostWakeup'
    BY <2>1 DEF Sleep
  <2>2. ASSUME NEW w \in Workers, Dequeue(w) PROVE NoLostWakeup'
    <3>1. Asleep' \subseteq Asleep  BY <2>2 DEF Dequeue, AtWork, TakeJob, Asleep
    <3> QED BY <2>2, <3>1 DEF Dequeue, AtWork, TakeJob
  <2>3. ASSUME NEW w \in Workers, Finish(w) \/ SpuriousWakeup(w) PROVE NoLostWakeup'
    <3>1. Asleep' \subseteq Asleep  BY <2>3 DEF Finish, SpuriousWakeup, Asleep
    <3> QED BY <2>3, <3>1 DEF Finish, SpuriousWakeup
  <2>4. ASSUME NEW w \in Workers, Retire(w) \/ Exit(w) PROVE NoLostWakeup'
    <3>1. Asleep' \subseteq Asleep  BY <2>4 DEF Retire, Exit, Asleep
    <3>2. \A c \in Callers : cpc[c] = "cast" => cpc'[c] = "cast"
      BY <2>4, SignalMoves DEF Retire, Exit
    <3> QED BY <2>4, <3>1, <3>2 DEF Retire, Exit
  <2>5. ASSUME NEW c \in Callers, Broadcast(c) PROVE NoLostWakeup'
    <3>1. Asleep' = {}  BY <2>5 DEF Broadcast, WakeAll, Asleep
    <3> QED BY <3>1
  <2>6. ASSUME NEW c \in Callers,
               KeepWaiting(c) \/ ReturnFromWait(c) \/ SpuriousLazyWakeup(c) \/ CallWait(c)
        PROVE  NoLostWakeup'
    <3>1. UNCHANGED <<queue, del, wpc>>
      BY <2>6 DEF KeepWaiting, ReturnFromWait, SpuriousLazyWakeup, CallWait
    <3>2. \A b \in Callers : cpc[b] = "cast" => cpc'[b] = "cast"
      BY <2>6 DEF KeepWaiting, ReturnFromWait, SpuriousLazyWakeup, CallWait
    <3>3. Asleep' = Asleep  BY <3>1 DEF Asleep
    <3> QED BY <3>1, <3>2, <3>3
  <2>7. ASSUME NEW c \in Callers, NEW j \in Jobs, Enqueue(c, j) PROVE NoLostWakeup'
    <3>1. cpc'[c] = "cast"  BY <2>7 DEF Enqueue
    <3> QED BY <3>1
  <2>8. CASE Stop \/ StopBroadcast \/ Join \/ Free
    BY <2>8 DEF Stop, StopBroadcast, Join, Free
  <2>9. CASE UNCHANGED vars
    BY <2>9 DEF vars, Asleep
  <2> QED
    BY NextCases, <2>1, <2>2, <2>3, <2>4, <2>5, <2>6, <2>7, <2>8, <2>9
<1> QED BY <1>1, <1>2, Invariance, PTL DEF Spec

\* When threadpool_wait returns both counters are zero, so no job is queued or
\* busy and the jobs accepted are exactly the finished ones.
LEMMA ReturnPaid ==
    ASSUME IInv, NEW c \in Callers, ReturnFromWait(c)
    PROVE  owed[c] \subseteq finished
<1> USE DEF IInv, TypeOK
<1>1. cpc[c] = "check" /\ ~MustWait  BY DEF ReturnFromWait
<1>2. ~stop /\ del # "freed"
  BY <1>1 DEF DeleteInv
<1>3. busy_threads = 0 /\ queue_count = 0
  BY <1>1, <1>2 DEF MustWait
<1>4. Busy = {}
  <2>1. IsFiniteSet(Busy)  BY ThreadpoolAssumption, FS_Subset DEF Busy
  <2> QED BY <1>3, <2>1, FS_EmptySet DEF CountersAgree
<1>5. Running = {}  BY <1>4 DEF Running, Busy
<1>6. Queued = {}
  <2>1. queue = <<>>  BY <1>2, <1>3, EmptySeq DEF CountersAgree
  <2> QED BY <2>1 DEF Queued, Range
<1>7. accepted = finished
  <2>1. {wjob[w] : w \in Running} = {}  BY <1>5
  <2> QED BY <1>2, <1>6, <2>1 DEF NoJobLostOrDuplicated
<1> QED BY <1>7 DEF OwedInv

\* threadpool_wait returns only when every job accepted before the call has
\* finished: with both counters at zero there is no queued and no busy job, so
\* the jobs accepted are exactly the finished ones.
THEOREM WaitCorrect == Spec => WaitMeansFinished
<1>1. IInv /\ [Next]_vars =>
        [\A c \in Callers :
           cpc[c] = "check" /\ cpc'[c] = "idle" => owed[c] \subseteq finished]_vars
  <2> SUFFICES ASSUME IInv, [Next]_vars, NEW c \in Callers,
                      cpc[c] = "check", cpc'[c] = "idle"
               PROVE  owed[c] \subseteq finished
    OBVIOUS
  <2> USE DEF IInv, TypeOK, poolFields
  <2>1. ReturnFromWait(c)
    <3>1. ASSUME NEW w \in Workers, Retire(w) \/ Exit(w) PROVE FALSE
      BY <3>1, SignalMoves DEF Retire, Exit
    <3>2. ASSUME NEW w \in Workers,
                 Sleep(w) \/ Dequeue(w) \/ Finish(w) \/ SpuriousWakeup(w)
          PROVE  FALSE
      BY <3>2 DEF Sleep, Dequeue, AtWork, TakeJob, Finish, SpuriousWakeup
    <3>3. ASSUME NEW b \in Callers,
                 Broadcast(b) \/ KeepWaiting(b) \/ SpuriousLazyWakeup(b) \/ CallWait(b)
          PROVE  FALSE
      BY <3>3 DEF Broadcast, KeepWaiting, SpuriousLazyWakeup, CallWait
    <3>4. ASSUME NEW b \in Callers, NEW j \in Jobs, Enqueue(b, j) PROVE FALSE
      BY <3>4 DEF Enqueue
    <3>5. ASSUME NEW b \in Callers, ReturnFromWait(b) PROVE b = c
      BY <3>5 DEF ReturnFromWait
    <3>6. ~Stop /\ ~StopBroadcast /\ ~Join /\ ~Free /\ ~UNCHANGED vars
      BY DEF Stop, StopBroadcast, Join, Free, vars
    <3> QED BY NextCases, <3>1, <3>2, <3>3, <3>4, <3>5, <3>6
  <2> QED BY <2>1, ReturnPaid
<1> QED BY <1>1, Invariance, PTL DEF Spec, WaitMeansFinished

\* No callback begins once the pool is stopped.
THEOREM StopCorrect == Spec => NoStartAfterStop
<1>1. IInv /\ [Next]_vars =>
        [\A w \in Workers : wpc[w] # "run" /\ wpc'[w] = "run" => ~stop]_vars
  <2> SUFFICES ASSUME IInv, [Next]_vars, NEW w \in Workers,
                      wpc[w] # "run", wpc'[w] = "run"
               PROVE  ~stop
    OBVIOUS
  <2> USE DEF IInv, TypeOK, poolFields
  <2>1. ASSUME NEW v \in Workers,
               Sleep(v) \/ Finish(v) \/ Retire(v) \/ Exit(v) \/ SpuriousWakeup(v)
        PROVE  FALSE
    BY <2>1 DEF Sleep, Finish, Retire, Exit, SpuriousWakeup
  <2>2. ASSUME NEW v \in Workers, Dequeue(v) PROVE ~stop
    BY <2>2 DEF Dequeue, AtWork, TakeJob
  <2>3. ASSUME NEW c \in Callers, Broadcast(c) PROVE FALSE
    BY <2>3 DEF Broadcast, WakeAll
  <2>4. ASSUME NEW c \in Callers,
               KeepWaiting(c) \/ ReturnFromWait(c) \/ SpuriousLazyWakeup(c) \/ CallWait(c)
        PROVE  FALSE
    BY <2>4 DEF KeepWaiting, ReturnFromWait, SpuriousLazyWakeup, CallWait
  <2>5. ASSUME NEW c \in Callers, NEW j \in Jobs, Enqueue(c, j) PROVE FALSE
    BY <2>5 DEF Enqueue, CreateThread, NoThreadCreated
  <2>6. ~Stop /\ ~StopBroadcast /\ ~Join /\ ~Free /\ ~UNCHANGED vars
    BY TailRange DEF Stop, StopBroadcast, Join, Free, vars, WakeAll
  <2> QED BY NextCases, <2>1, <2>2, <2>3, <2>4, <2>5, <2>6
<1> QED BY <1>1, Invariance, PTL DEF Spec, NoStartAfterStop

-----------------------------------------------------------------------------
(* The pool implements JobPool.                                            *)

\* The abstract running jobs number no more than the workers that run them.
LEMMA RunningBound ==
    ASSUME NEW R \in SUBSET Workers, NEW f \in [Workers -> Jobs \cup {NoJob}]
    PROVE  /\ IsFiniteSet(R) /\ IsFiniteSet({f[w] : w \in R})
           /\ Cardinality({f[w] : w \in R}) <= Cardinality(R)
<1> DEFINE T == {f[w] : w \in R}
           g == [w \in R |-> f[w]]
<1>1. IsFiniteSet(R)  BY ThreadpoolAssumption, FS_Subset
<1>2. g \in Surjection(R, T)
  BY DEF Surjection
<1>3. IsFiniteSet(T) /\ Cardinality(T) <= Cardinality(R)
  BY <1>1, <1>2, FS_Surjection
<1> QED BY <1>1, <1>3

\* A dequeue is a start that JobPool allows: the worker at the top of its loop
\* is live and not running, so fewer than MaxThreads workers run.
LEMMA DequeueStarts ==
    ASSUME IInv, NEW w \in Workers, Dequeue(w)
    PROVE  Abstract!Start
<1> USE DEF IInv, TypeOK, poolFields
<1> DEFINE Held == RunningJobs
<1>1. /\ w \in Live \ Running /\ Running \subseteq Live
      /\ Running' = Running \cup {w}
      /\ wjob'[w] = Head(queue)
      /\ \A v \in Running : wjob'[v] = wjob[v]
  BY DEF Dequeue, AtWork, TakeJob, Live, Running
<1>2. Held' = Held \cup {Head(queue)}
  BY <1>1 DEF RunningJobs
<1>3. IsFiniteSet(Live) /\ Cardinality(Live) \in Nat
  BY ThreadpoolAssumption, FS_Subset, FS_CardinalityType DEF Live
<1>4. Cardinality(Running) <= Cardinality(Live \ {w})
  <2>1. IsFiniteSet(Live \ {w})  BY <1>3, FS_RemoveElement
  <2> QED BY <1>1, <2>1, FS_Subset
<1>5. Cardinality(Live \ {w}) = Cardinality(Live) - 1
  BY <1>1, <1>3, FS_RemoveElement
<1>6. Cardinality(Live) <= MaxThreads
  <2>1. del # "freed"  BY DEF Dequeue, AtWork, TakeJob, DeleteInv
  <2> QED BY <2>1, <1>3, ThreadpoolAssumption DEF ThreadInv
<1>7. /\ Cardinality(Held) <= Cardinality(Running)
      /\ Cardinality(Held) \in Nat /\ Cardinality(Running) \in Nat
  <2>1. Running \in SUBSET Workers  BY DEF Running
  <2> QED BY <2>1, RunningBound, FS_CardinalityType DEF RunningJobs
<1>8. Cardinality(Held) < MaxThreads
  BY <1>3, <1>4, <1>5, <1>6, <1>7, ThreadpoolAssumption
<1>9. UNCHANGED <<finished, stop, owed, cpc>> /\ queue # <<>> /\ ~stop
      /\ queue' = Tail(queue)
  BY DEF Dequeue, AtWork, TakeJob
<1>10. UNCHANGED InWait
  BY <1>9 DEF InWait
<1>11. Abstract!Cardinality(RunningJobs) = Cardinality(RunningJobs)
  BY DEF Abstract!Cardinality, Cardinality
<1> HIDE DEF IInv, TypeOK, poolFields
<1> QED BY <1>2, <1>8, <1>9, <1>10, <1>11 DEF Abstract!Start

\* Every step of the pool is a step JobPool allows, or changes nothing that
\* JobPool can see.
LEMMA StepImplements ==
    ASSUME IInv, [Next]_vars
    PROVE  [Abstract!Next]_Abstract!poolVars
<1> USE DEF IInv, TypeOK, poolFields
<1>1. ASSUME UNCHANGED <<queue, finished, stop, owed>>, UNCHANGED RunningJobs,
             UNCHANGED InWait
      PROVE  UNCHANGED Abstract!poolVars
  BY <1>1 DEF Abstract!poolVars
<1>2. ASSUME Running' = Running, wjob' = wjob
      PROVE  UNCHANGED RunningJobs
  BY <1>2 DEF RunningJobs
<1>3. Abstract!Pending = Queued
  BY DEF Abstract!Pending, Abstract!Range, Queued, Range
<1>4. ASSUME NEW w \in Workers, Dequeue(w) PROVE Abstract!Next
  BY <1>4, DequeueStarts DEF Abstract!Next
<1>5. ASSUME NEW w \in Workers, Finish(w) PROVE Abstract!Next
  <2>1. /\ w \in Running /\ Running' = Running \ {w}
        /\ \A v \in Running' : wjob'[v] = wjob[v]
    BY <1>5 DEF Finish, Running
  <2>2. \A v \in Running : v # w => wjob[v] # wjob[w]
    BY <2>1 DEF NoJobLostOrDuplicated
  <2>3. RunningJobs' = RunningJobs \ {wjob[w]} /\ wjob[w] \in RunningJobs
    BY <2>1, <2>2 DEF RunningJobs
  <2>4. finished' = finished \cup {wjob[w]} /\ UNCHANGED <<queue, stop, owed, cpc>>
    BY <1>5 DEF Finish
  <2>5. UNCHANGED InWait  BY <2>4 DEF InWait
  <2>6. Abstract!Finish(wjob[w])
    BY <2>3, <2>4, <2>5 DEF Abstract!Finish
  <2>7. wjob[w] \in Jobs  BY <2>1 DEF HeldJobs
  <2> QED BY <2>6, <2>7 DEF Abstract!Next
<1>6. ASSUME NEW w \in Workers, Sleep(w) \/ SpuriousWakeup(w)
      PROVE  UNCHANGED Abstract!poolVars
  <2>1. Running' = Running /\ UNCHANGED <<wjob, cpc, queue, finished, stop, owed>>
    BY <1>6 DEF Sleep, SpuriousWakeup, Running
  <2>2. UNCHANGED InWait  BY <2>1 DEF InWait
  <2> QED BY <1>1, <1>2, <2>1, <2>2
<1>7. ASSUME NEW w \in Workers, Retire(w) \/ Exit(w)
      PROVE  UNCHANGED Abstract!poolVars
  <2>1. Running' = Running /\ UNCHANGED <<wjob, queue, finished, stop, owed>>
    BY <1>7 DEF Retire, Exit, Running
  <2>2. \A c \in Callers : cpc'[c] = cpc[c] \/ (cpc[c] = "lazy" /\ cpc'[c] = "check")
    BY <1>7, SignalMoves DEF Retire, Exit
  <2>3. UNCHANGED InWait  BY <2>2 DEF InWait
  <2> QED BY <1>1, <1>2, <2>1, <2>3
<1>8. ASSUME NEW c \in Callers, Broadcast(c)
      PROVE  UNCHANGED Abstract!poolVars
  <2>1. Running' = Running
    BY <1>8 DEF Broadcast, WakeAll, Asleep, Running
  <2>2. UNCHANGED <<wjob, queue, finished, stop, owed>>
    BY <1>8 DEF Broadcast
  <2>3. UNCHANGED InWait  BY <1>8 DEF Broadcast, InWait
  <2> QED BY <1>1, <1>2, <2>1, <2>2, <2>3
<1>9. ASSUME NEW c \in Callers, KeepWaiting(c) \/ SpuriousLazyWakeup(c)
      PROVE  UNCHANGED Abstract!poolVars
  <2>1. UNCHANGED <<wpc, wjob, queue, finished, stop, owed>>
    BY <1>9 DEF KeepWaiting, SpuriousLazyWakeup
  <2>2. Running' = Running  BY <2>1 DEF Running
  <2>3. UNCHANGED InWait  BY <1>9 DEF KeepWaiting, SpuriousLazyWakeup, InWait
  <2> QED BY <1>1, <1>2, <2>1, <2>2, <2>3
<1>10. ASSUME NEW c \in Callers, ReturnFromWait(c) PROVE Abstract!Next
  <2>1. UNCHANGED <<wpc, wjob, queue, finished, stop, owed>>
    BY <1>10 DEF ReturnFromWait
  <2>2. Running' = Running  BY <2>1 DEF Running
  <2>3. InWait[c] /\ InWait' = [InWait EXCEPT ![c] = FALSE]
    <3>1. cpc[c] = "check" /\ cpc' = [cpc EXCEPT ![c] = "idle"]
      BY <1>10 DEF ReturnFromWait
    <3>2. /\ \A b \in Callers : b # c => cpc'[b] = cpc[b]
          /\ (cpc'[c] \in {"check", "lazy"}) = FALSE
      BY <3>1
    <3>3. InWait[c]  BY <3>1 DEF InWait
    <3>4. InWait' = [InWait EXCEPT ![c] = FALSE]
      BY <3>2, Zenon DEF InWait
    <3> QED BY <3>3, <3>4
  <2>4. owed[c] \subseteq finished  BY <1>10, ReturnPaid
  <2>5. UNCHANGED RunningJobs  BY <1>2, <2>1, <2>2
  <2>6. Abstract!EndWait(c)
    BY <2>1, <2>3, <2>4, <2>5 DEF Abstract!EndWait
  <2> QED BY <2>6 DEF Abstract!Next
<1>11. ASSUME NEW c \in Callers, CallWait(c) PROVE Abstract!Next
  <2>1. UNCHANGED <<wpc, wjob, queue, finished, stop>> /\ del = "open"
        /\ owed' = [owed EXCEPT ![c] = accepted]
    BY <1>11 DEF CallWait
  <2>2. Running' = Running  BY <2>1 DEF Running
  <2>3. ~InWait[c] /\ InWait' = [InWait EXCEPT ![c] = TRUE]
    BY <1>11 DEF CallWait, InWait
  <2>4. accepted = Queued \cup RunningJobs \cup finished
    BY <2>1 DEF NoJobLostOrDuplicated, RunningJobs
  <2>5. UNCHANGED RunningJobs  BY <1>2, <2>1, <2>2
  <2>6. ~stop  BY <2>1 DEF DeleteInv
  <2>7. Abstract!BeginWait(c)
    BY <1>3, <2>1, <2>3, <2>4, <2>5, <2>6 DEF Abstract!BeginWait
  <2> QED BY <2>7 DEF Abstract!Next
<1>12. ASSUME NEW c \in Callers, NEW j \in Jobs, Enqueue(c, j) PROVE Abstract!Next
  <2>1. Running' = Running
    BY <1>12 DEF Enqueue, CreateThread, NoThreadCreated, Running
  <2>2. UNCHANGED <<wjob, finished, stop, owed>> /\ queue' = Append(queue, j)
        /\ del = "open" /\ j \notin accepted
    BY <1>12 DEF Enqueue
  <2>3. UNCHANGED InWait  BY <1>12 DEF Enqueue, InWait
  <2>4. accepted = Queued \cup RunningJobs \cup finished
    BY <2>2 DEF NoJobLostOrDuplicated, RunningJobs
  <2>5. UNCHANGED RunningJobs  BY <1>2, <2>1, <2>2
  <2>6. ~stop  BY <2>2 DEF DeleteInv
  <2>7. Abstract!Submit(j)
    BY <1>3, <2>2, <2>3, <2>4, <2>5, <2>6 DEF Abstract!Submit
  <2> QED BY <2>7 DEF Abstract!Next
<1>13. CASE Stop
  <2>1. UNCHANGED <<wpc, wjob, cpc, queue, finished, owed>> /\ stop' = TRUE
        /\ del = "open"
    BY <1>13 DEF Stop
  <2>2. Running' = Running  BY <2>1 DEF Running
  <2>3. UNCHANGED InWait  BY <2>1 DEF InWait
  <2>4. UNCHANGED RunningJobs  BY <1>2, <2>1, <2>2
  <2>5. ~stop  BY <2>1 DEF DeleteInv
  <2>6. Abstract!Close  BY <2>1, <2>3, <2>4, <2>5 DEF Abstract!Close
  <2> QED BY <2>6 DEF Abstract!Next
<1>14. CASE StopBroadcast \/ Join
  <2>1. UNCHANGED <<wjob, cpc, queue, finished, stop, owed>>
    BY <1>14 DEF StopBroadcast, Join
  <2>2. Running' = Running
    BY <1>14, TailRange DEF StopBroadcast, Join, WakeAll, Asleep, Running
  <2>3. UNCHANGED InWait  BY <2>1 DEF InWait
  <2> QED BY <1>1, <1>2, <2>1, <2>2, <2>3
<1>15. CASE Free
  <2>1. UNCHANGED <<wpc, wjob, cpc, finished, stop, owed>> /\ queue' = <<>>
        /\ del = "joining" /\ threads = <<>>
    BY <1>15 DEF Free
  <2>2. stop  BY <2>1 DEF DeleteInv
  <2>3. Live = {}  BY <2>1 DEF ThreadInv, Range
  <2>4. Running = {} /\ Running' = {}  BY <2>1, <2>3 DEF Live, Running
  <2>5. RunningJobs = {} /\ RunningJobs' = {}  BY <2>4 DEF RunningJobs
  <2>6. UNCHANGED InWait  BY <2>1 DEF InWait
  <2>7. Abstract!Discard
    BY <2>1, <2>2, <2>5, <2>6 DEF Abstract!Discard
  <2> QED BY <2>7 DEF Abstract!Next
<1>16. CASE UNCHANGED vars
  <2>1. UNCHANGED <<wpc, wjob, cpc, queue, finished, stop, owed>>
    BY <1>16 DEF vars
  <2>2. Running' = Running  BY <2>1 DEF Running
  <2>3. UNCHANGED InWait  BY <2>1 DEF InWait
  <2> QED BY <1>1, <1>2, <2>1, <2>2, <2>3
<1> HIDE DEF IInv, TypeOK, poolFields
<1> QED
  BY NextCases, <1>4, <1>5, <1>6, <1>7, <1>8, <1>9, <1>10, <1>11, <1>12,
     <1>13, <1>14, <1>15, <1>16

\* threadpool_pthread.c implements what threadpool.h promises: at most
\* max_threads jobs at a time, started once and in order of acceptance, none
\* after the pool was stopped, and a wait that ends only when its jobs did.
THEOREM Refinement == Spec => ImplementsJobPool
<1>1. Init => Abstract!Init
  <2> SUFFICES ASSUME Init PROVE Abstract!Init  OBVIOUS
  <2>1. RunningJobs = {}
    BY DEF Init, RunningJobs, Running
  <2>2. InWait = [c \in Callers |-> FALSE]
    <3>1. \A c \in Callers : (cpc[c] \in {"check", "lazy"}) = FALSE
      BY DEF Init
    <3> QED BY <3>1, Zenon DEF InWait
  <2> QED BY <2>1, <2>2 DEF Init, Abstract!Init
<1>2. IInv /\ [Next]_vars => [Abstract!Next]_Abstract!poolVars
  BY StepImplements
<1> QED BY <1>1, <1>2, Invariance, PTL DEF Spec, ImplementsJobPool, Abstract!Spec

=============================================================================

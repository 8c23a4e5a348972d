----------------------------- MODULE Ports_proofs -----------------------------
(***************************************************************************)
(* Proofs about Ports, for any number of threads, jobs and requests.       *)
(*                                                                         *)
(* A step of Ports belongs to one part, so that each part has an invariant *)
(* of its own.  The pool that polls needs what the pthread pool needs: its *)
(* list of threads, its count of the busy ones and the place of each job   *)
(* (XpInv).  The pool of Windows needs that no two callers submit the same *)
(* job and that each job was added once (VistaInv).  The resolvers need    *)
(* that a thread works for a request only until it sets the event, which   *)
(* is what keeps a deleted instance out of its reach (RequestInv), and     *)
(* that of WinRT who has a reference to its handler (RefsInv).             *)
(***************************************************************************)
EXTENDS Ports, SequenceLemmas, FiniteSetTheorems, WellFoundedInduction

-----------------------------------------------------------------------------
(* The event.                                                              *)

\* Nothing else about an event is needed to see that its flag stays up.
EventInv == ev \in Events!EventStates(Threads) /\ sets \in Nat /\ Events!SetIsNotLost

\* Every step of the event keeps EventInv, if one thread waits.
LEMMA EventStep ==
    ASSUME EventInv, Events!Next \/ UNCHANGED events, \A s, t \in Threads : s = t
    PROVE  EventInv'
<1> USE DEF EventInv, Events!EventStates, Events!SetIsNotLost
<1>1. CASE Events!Tick
  BY <1>1 DEF Events!Tick
<1>2. CASE Events!Set
  <2>1. PICK s \in IF ev.asleep = {} THEN {ev} ELSE {Events!Awaken(ev, t) : t \in ev.asleep} :
           ev' = [s EXCEPT !.signalled = TRUE]
    BY <1>2 DEF Events!Set, Events!EventSet
  <2>2. s \in Events!EventStates(Threads) /\ s.asleep = {}
    <3>1. CASE ev.asleep = {}
      BY <2>1, <3>1
    <3>2. CASE ev.asleep # {}
      <4>1. PICK t \in ev.asleep : s = Events!Awaken(ev, t)
        BY <2>1, <3>2
      <4>2. t \in Threads /\ ev.asleep \ {t} = {}
        OBVIOUS
      <4>3. s = [signalled |-> ev.signalled, asleep |-> {}, woken |-> ev.woken \cup {t}]
        BY <4>1, <4>2 DEF Events!Awaken
      <4> QED BY <4>2, <4>3
    <3> QED BY <3>1, <3>2
  <2>3. ev' = [signalled |-> TRUE, asleep |-> s.asleep, woken |-> s.woken]
    BY <2>1, <2>2
  <2>4. ev' \in Events!EventStates(Threads) /\ ev'.signalled /\ ev'.asleep = {}
    BY <2>2, <2>3
  <2> QED BY <1>2, <2>4 DEF Events!Set
<1>3. ASSUME NEW t \in Threads, NEW timeout \in Timeouts,
             Events!WaitSignalled(t, timeout) \/ Events!WaitSleep(t, timeout)
      PROVE  EventInv'
  <2>1. CASE Events!WaitSignalled(t, timeout)
    BY <2>1 DEF Events!WaitSignalled
  <2>2. CASE Events!WaitSleep(t, timeout)
    <3>1. ev' = [ev EXCEPT !.asleep = @ \cup {t}] /\ sets' = sets /\ ~ev.signalled
      BY <2>2 DEF Events!WaitSleep, Events!EventSleep
    <3>2. ev' = [signalled |-> ev.signalled, asleep |-> ev.asleep \cup {t}, woken |-> ev.woken]
      BY <3>1
    <3> QED BY <3>1, <3>2
  <2> QED BY <1>3, <2>1, <2>2
<1>4. ASSUME NEW t \in Threads, Events!Resume(t) PROVE EventInv'
  BY <1>4 DEF Events!Resume, Events!EventResume
<1>5. ASSUME NEW t \in Threads, Events!Expire(t) PROVE EventInv'
  BY <1>5 DEF Events!Expire, Events!EventExpire
<1>6. ASSUME NEW t \in Threads, Events!SpuriousWakeup(t) PROVE EventInv'
  BY <1>6 DEF Events!SpuriousWakeup, Events!Awaken
<1>7. CASE UNCHANGED events
  BY <1>7 DEF events
<1> QED BY <1>1, <1>2, <1>3, <1>4, <1>5, <1>6, <1>7 DEF Events!Next

\* A set is not lost to the thread it was meant for, however often the clock
\* ticks, the thread waits and somebody sets the event, if no other thread waits:
\* the client of a request is one thread (a second one would sleep on).
THEOREM SetsReachTheirThread ==
    ASSUME \A s, t \in Threads : s = t
    PROVE  Spec => []SetIsNotLost
<1>1. Init => EventInv
  BY DEF Init, Events!Init, Events!NewEvent, EventInv, Events!EventStates, Events!SetIsNotLost
<1>2. EventInv /\ [Next]_vars => EventInv'
  BY EventStep DEF Next, vars
<1>3. EventInv => SetIsNotLost
  BY DEF EventInv, SetIsNotLost
<1> QED BY <1>1, <1>2, <1>3, PTL DEF Spec

-----------------------------------------------------------------------------
(* The pool of Windows that polls.                                         *)

\* Threads that run a job or have yet to count it as done; threads that threadpool_delete
\* has to join; the jobs being run.
XpBusy == {w \in Workers : wpc[w] \in {"run", "done"}}
XpLive == {w \in Workers : wpc[w] \notin {"none", "joined"}}
XpHeld == Pools!Winxp!RunningJobs

\* The types, and those of the histories.
XpTypes ==
    /\ Pools!Winxp!TypeOK
    /\ owed \in [Callers -> SUBSET Polled]
    /\ accepted \subseteq Polled /\ finished \subseteq Polled
    /\ \A w \in Pools!Winxp!Running : wjob[w] \in Polled

\* threadpool_delete has every other call behind it, ...
XpDeleteInv ==
    /\ stop <=> del # "open"
    /\ del # "open" => \A c \in Callers : cpc[c] = "idle"
    /\ del = "reaping" => threads # <<>>

\* ... the list of threads holds the live ones, which num_threads bounds, ...
XpThreadInv ==
    /\ XpLive = Range(threads) /\ IsInjective(threads) /\ IsFiniteSet(XpLive)
    /\ IF del = "freed" THEN threads = <<>> ELSE Cardinality(XpLive) <= num_threads
    /\ busy_threads = Cardinality(XpBusy)

\* ... and a job is in one place.
XpJobInv ==
    /\ \A w \in Pools!Winxp!Running : wjob[w] \notin Range(queue) \cup finished
    /\ \A v, w \in Pools!Winxp!Running : wjob[v] = wjob[w] => v = w
    /\ Range(queue) \cap finished = {} /\ IsInjective(queue)
    /\ del # "freed" => accepted = Range(queue) \cup finished \cup XpHeld
    /\ \A c \in Callers : owed[c] \subseteq accepted

\* The inductive invariant of the pool that polls.
XpInv == XpTypes /\ XpDeleteInv /\ XpThreadInv /\ XpJobInv

\* The actions of the pool, one by one.
LEMMA XpNextCases ==
    ASSUME Pools!Winxp!Next
    PROVE  \/ \E w \in Workers : Pools!Winxp!Sleep(w)
           \/ \E w \in Workers : Pools!Winxp!Wake(w)
           \/ \E w \in Workers : Pools!Winxp!Dequeue(w)
           \/ \E w \in Workers : Pools!Winxp!Finish(w)
           \/ \E w \in Workers : Pools!Winxp!Retire(w)
           \/ \E w \in Workers : Pools!Winxp!Exit(w)
           \/ \E c \in Callers : Pools!Winxp!CallStep(c)
           \/ \E c \in Callers : Pools!Winxp!CallWait(c)
           \/ \E c \in Callers, j \in Polled : Pools!Winxp!Enqueue(c, j)
           \/ Pools!Winxp!Stop
           \/ Pools!Winxp!StopSignal \/ Pools!Winxp!Nudge \/ Pools!Winxp!NotYet
           \/ Pools!Winxp!Reap
           \/ Pools!Winxp!Free
  BY DEF Pools!Winxp!Next, Pools!Winxp!WorkerStep, Pools!Winxp!DeleteStep

\* The busy workers are live, and there are at most num_threads of those.
LEMMA XpBounds ==
    ASSUME XpInv
    PROVE  /\ XpBusy \subseteq XpLive /\ IsFiniteSet(XpBusy)
           /\ Cardinality(XpBusy) \in Nat /\ Cardinality(XpLive) \in Nat
           /\ Cardinality(XpBusy) <= Cardinality(XpLive)
           /\ Cardinality(XpLive) <= MaxThreads
           /\ \A w \in XpLive \ XpBusy : Cardinality(XpBusy) < Cardinality(XpLive)
<1> USE DEF XpInv, XpThreadInv
<1>1. XpBusy \subseteq XpLive
  BY DEF XpBusy, XpLive
<1>2. /\ IsFiniteSet(XpBusy) /\ Cardinality(XpBusy) \in Nat /\ Cardinality(XpLive) \in Nat
      /\ Cardinality(XpBusy) <= Cardinality(XpLive)
  BY <1>1, FS_Subset, FS_CardinalityType
<1>3. Cardinality(XpLive) <= MaxThreads
  <2>1. CASE del = "freed"
    <3>1. XpLive = {}
      BY <2>1 DEF Range
    <3> QED BY <3>1, FS_EmptySet, PortsAssumption
  <2>2. CASE del # "freed"
    BY <1>2, <2>2, PortsAssumption DEF XpTypes, Pools!Winxp!TypeOK
  <2> QED BY <2>1, <2>2
<1>4. ASSUME NEW w \in XpLive \ XpBusy
      PROVE  Cardinality(XpBusy) < Cardinality(XpLive)
  <2>1. /\ Cardinality(XpLive \ {w}) = Cardinality(XpLive) - 1
        /\ IsFiniteSet(XpLive \ {w})
    BY <1>4, FS_RemoveElement
  <2>2. Cardinality(XpBusy) <= Cardinality(XpLive \ {w})
    BY <1>1, <1>4, <2>1, FS_Subset
  <2> QED BY <1>2, <2>1, <2>2
<1> QED BY <1>1, <1>2, <1>3, <1>4

\* A step that moves no job and no thread in or out.
LEMMA XpQuiet ==
    ASSUME XpInv, UNCHANGED <<num_threads, busy_threads, queue, threads, wjob, accepted, finished>>,
           del = "freed" <=> del' = "freed",
           XpTypes', XpDeleteInv',
           XpBusy' = XpBusy, XpLive' = XpLive, Pools!Winxp!Running' = Pools!Winxp!Running,
           \A c \in Callers : owed'[c] \subseteq accepted
    PROVE  XpInv'
<1> USE DEF XpInv
<1>1. XpHeld' = XpHeld
  BY DEF XpHeld, Pools!Winxp!RunningJobs
<1>2. XpThreadInv'
  BY DEF XpThreadInv
<1>3. XpJobInv'
  BY <1>1 DEF XpJobInv
<1> QED BY <1>2, <1>3

\* Every step of the pool that polls keeps XpInv.
LEMMA XpStep ==
    ASSUME XpInv, Pools!Winxp!Next
    PROVE  XpInv'
<1> USE DEF Pools!Winxp!fields, Pools!Winxp!events, Pools!Winxp!history, Pools!Winxp!GotoW,
            Pools!Winxp!GotoC
<1>1. ASSUME NEW w \in Workers, Pools!Winxp!Sleep(w) PROVE XpInv'
  <2> USE <1>1 DEF Pools!Winxp!Sleep
  <2>1. XpTypes' /\ XpDeleteInv'
    BY DEF XpInv, XpTypes, Pools!Winxp!TypeOK, XpDeleteInv, Pools!Winxp!Running
  <2>2. XpBusy' = XpBusy /\ XpLive' = XpLive /\ Pools!Winxp!Running' = Pools!Winxp!Running
    BY DEF XpInv, XpTypes, Pools!Winxp!TypeOK, XpBusy, XpLive, Pools!Winxp!Running
  <2> QED BY <2>1, <2>2, XpQuiet DEF XpInv, XpJobInv
<1>2. ASSUME NEW w \in Workers, Pools!Winxp!Wake(w) PROVE XpInv'
  <2> USE <1>2 DEF Pools!Winxp!Wake
  <2>1. wakeup_cond' \in BOOLEAN
    OBVIOUS
  <2>2. XpTypes' /\ XpDeleteInv'
    BY <2>1 DEF XpInv, XpTypes, Pools!Winxp!TypeOK, XpDeleteInv, Pools!Winxp!Running
  <2>3. XpBusy' = XpBusy /\ XpLive' = XpLive /\ Pools!Winxp!Running' = Pools!Winxp!Running
    BY DEF XpInv, XpTypes, Pools!Winxp!TypeOK, XpBusy, XpLive, Pools!Winxp!Running
  <2> QED BY <2>2, <2>3, XpQuiet DEF XpInv, XpJobInv
<1>3. ASSUME NEW w \in Workers, Pools!Winxp!Dequeue(w) PROVE XpInv'
  <2> USE <1>3 DEF Pools!Winxp!Dequeue
  <2>1. /\ Head(queue) \in Polled /\ Tail(queue) \in Seq(Polled)
        /\ Range(queue) = Range(Tail(queue)) \cup {Head(queue)}
        /\ IsInjective(Tail(queue)) /\ Head(queue) \notin Range(Tail(queue))
    BY TailRange DEF XpInv, XpTypes, Pools!Winxp!TypeOK, XpJobInv
  <2>2. /\ w \in XpLive \ XpBusy /\ w \notin Pools!Winxp!Running
        /\ XpBusy' = XpBusy \cup {w} /\ XpLive' = XpLive
           /\ Pools!Winxp!Running' = Pools!Winxp!Running \cup {w}
    BY DEF XpInv, XpTypes, Pools!Winxp!TypeOK, XpBusy, XpLive, Pools!Winxp!Running
  <2>3. wjob'[w] = Head(queue) /\ \A v \in Pools!Winxp!Running : wjob'[v] = wjob[v]
    BY <2>2 DEF XpInv, XpTypes, Pools!Winxp!TypeOK, Pools!Winxp!Running
  <2>4. del # "freed" /\ del' = del
    BY DEF XpInv, XpDeleteInv
  <2>5. busy_threads' \in 0 .. MaxThreads
    BY <2>2, XpBounds, PortsAssumption DEF XpInv, XpThreadInv
  <2>6. XpTypes'
    BY <2>1, <2>2, <2>3, <2>5 DEF XpInv, XpTypes, Pools!Winxp!TypeOK
  <2>7. XpDeleteInv'
    BY DEF XpInv, XpDeleteInv
  <2>8. XpThreadInv'
    <3>1. Cardinality(XpBusy') = Cardinality(XpBusy) + 1
      BY <2>2, XpBounds, FS_AddElement
    <3> QED BY <2>2, <2>4, <3>1 DEF XpInv, XpThreadInv
  <2>9. XpJobInv'
    <3>1. XpHeld' = XpHeld \cup {Head(queue)}
      BY <2>2, <2>3 DEF XpHeld, Pools!Winxp!RunningJobs
    <3>2. Head(queue) \notin finished /\ \A v \in Pools!Winxp!Running : wjob[v] # Head(queue)
      BY <2>1 DEF XpInv, XpJobInv
    <3>3. UNCHANGED <<accepted, finished, owed>> /\ queue' = Tail(queue)
      OBVIOUS
    <3>4. accepted' = Range(queue') \cup finished' \cup XpHeld'
      BY <2>1, <2>4, <3>1, <3>3 DEF XpInv, XpJobInv
    <3>5. \A v \in Pools!Winxp!Running' : wjob'[v] \notin Range(queue') \cup finished'
      BY <2>1, <2>2, <2>3, <3>2, <3>3 DEF XpInv, XpJobInv
    <3>6. \A u, v \in Pools!Winxp!Running' : wjob'[u] = wjob'[v] => u = v
      BY <2>2, <2>3, <3>2 DEF XpInv, XpJobInv
    <3> QED BY <2>1, <3>3, <3>4, <3>5, <3>6 DEF XpInv, XpJobInv
  <2> QED BY <2>6, <2>7, <2>8, <2>9 DEF XpInv
<1>4. ASSUME NEW w \in Workers, Pools!Winxp!Finish(w) PROVE XpInv'
  <2> USE <1>4 DEF Pools!Winxp!Finish
  <2>1. /\ w \in Pools!Winxp!Running /\ Pools!Winxp!Running' = Pools!Winxp!Running \ {w}
        /\ XpBusy' = XpBusy /\ XpLive' = XpLive
        /\ \A v \in Pools!Winxp!Running' : wjob'[v] = wjob[v]
    BY DEF XpInv, XpTypes, Pools!Winxp!TypeOK, XpBusy, XpLive, Pools!Winxp!Running
  <2>2. XpTypes'
    BY <2>1 DEF XpInv, XpTypes, Pools!Winxp!TypeOK
  <2>3. XpDeleteInv'
    BY DEF XpInv, XpDeleteInv
  <2>4. XpThreadInv'
    BY <2>1 DEF XpInv, XpThreadInv
  <2>5. XpJobInv'
    <3>1. finished' = finished \cup {wjob[w]} /\ UNCHANGED <<queue, accepted, owed, del>>
      OBVIOUS
    <3>2. XpHeld \cup finished = XpHeld' \cup finished'
      BY <2>1, <3>1 DEF XpHeld, Pools!Winxp!RunningJobs
    <3>3. \A v \in Pools!Winxp!Running' : wjob[v] # wjob[w]
      BY <2>1 DEF XpInv, XpJobInv
    <3>4. \A v \in Pools!Winxp!Running' : wjob'[v] \notin Range(queue') \cup finished'
      BY <2>1, <3>1, <3>3 DEF XpInv, XpJobInv
    <3>5. \A u, v \in Pools!Winxp!Running' : wjob'[u] = wjob'[v] => u = v
      BY <2>1 DEF XpInv, XpJobInv
    <3>6. Range(queue') \cap finished' = {}
      BY <2>1, <3>1 DEF XpInv, XpJobInv
    <3>7. del' # "freed" => accepted' = Range(queue') \cup finished' \cup XpHeld'
      BY <3>1, <3>2 DEF XpInv, XpJobInv
    <3> QED BY <3>1, <3>4, <3>5, <3>6, <3>7 DEF XpInv, XpJobInv
  <2> QED BY <2>2, <2>3, <2>4, <2>5 DEF XpInv
<1>5. ASSUME NEW w \in Workers, Pools!Winxp!Retire(w) PROVE XpInv'
  <2> USE <1>5 DEF Pools!Winxp!Retire
  <2>1. /\ w \in XpBusy /\ XpBusy' = XpBusy \ {w} /\ XpLive' = XpLive
        /\ Pools!Winxp!Running' = Pools!Winxp!Running
    BY DEF XpInv, XpTypes, Pools!Winxp!TypeOK, XpBusy, XpLive, Pools!Winxp!Running
  <2>2. /\ Cardinality(XpBusy') = Cardinality(XpBusy) - 1
        /\ Cardinality(XpBusy') \in Nat
    BY <2>1, XpBounds, FS_RemoveElement, FS_CardinalityType
  <2>3. busy_threads' \in 0 .. MaxThreads
    BY <2>2, XpBounds, PortsAssumption DEF XpInv, XpThreadInv
  <2>4. lazy_cond' \in BOOLEAN
    BY DEF XpInv, XpTypes, Pools!Winxp!TypeOK
  <2>5. XpTypes'
    BY <2>1, <2>3, <2>4 DEF XpInv, XpTypes, Pools!Winxp!TypeOK
  <2>6. XpDeleteInv'
    BY DEF XpInv, XpDeleteInv
  <2>7. XpThreadInv'
    BY <2>1, <2>2 DEF XpInv, XpThreadInv
  <2>8. XpHeld' = XpHeld
    BY <2>1 DEF XpHeld, Pools!Winxp!RunningJobs
  <2>9. XpJobInv'
    BY <2>1, <2>8 DEF XpInv, XpJobInv
  <2> QED BY <2>5, <2>6, <2>7, <2>9 DEF XpInv
<1>6. ASSUME NEW w \in Workers, Pools!Winxp!Exit(w) PROVE XpInv'
  <2> USE <1>6 DEF Pools!Winxp!Exit
  <2>1. lazy_cond' \in BOOLEAN
    OBVIOUS
  <2>2. XpTypes' /\ XpDeleteInv'
    BY <2>1 DEF XpInv, XpTypes, Pools!Winxp!TypeOK, XpDeleteInv, Pools!Winxp!Running
  <2>3. XpBusy' = XpBusy /\ XpLive' = XpLive /\ Pools!Winxp!Running' = Pools!Winxp!Running
    BY DEF XpInv, XpTypes, Pools!Winxp!TypeOK, XpBusy, XpLive, Pools!Winxp!Running
  <2> QED BY <2>2, <2>3, XpQuiet DEF XpInv, XpJobInv
<1>7. ASSUME NEW c \in Callers, Pools!Winxp!CallStep(c) PROVE XpInv'
  <2> USE <1>7 DEF Pools!Winxp!CallStep, Pools!Winxp!Signal, Pools!Winxp!KeepWaiting,
                   Pools!Winxp!LazyWake, Pools!Winxp!ReturnFromWait
  <2>1. /\ UNCHANGED <<Pools!Winxp!fields, wpc, wjob, Pools!Winxp!history, del>>
        /\ \E p \in {"idle", "check", "lazy"} : cpc' = [cpc EXCEPT ![c] = p]
        /\ cpc[c] # "idle"
    OBVIOUS
  <2>2. wakeup_cond' \in BOOLEAN /\ lazy_cond' \in BOOLEAN
    BY DEF XpInv, XpTypes, Pools!Winxp!TypeOK
  <2> HIDE <1>7 DEF Pools!Winxp!CallStep, Pools!Winxp!Signal, Pools!Winxp!KeepWaiting,
                    Pools!Winxp!LazyWake, Pools!Winxp!ReturnFromWait
  <2>3. XpTypes' /\ XpDeleteInv'
    BY <2>1, <2>2 DEF XpInv, XpTypes, Pools!Winxp!TypeOK, XpDeleteInv, Pools!Winxp!Running
  <2>4. XpBusy' = XpBusy /\ XpLive' = XpLive /\ Pools!Winxp!Running' = Pools!Winxp!Running
    BY <2>1 DEF XpBusy, XpLive, Pools!Winxp!Running
  <2> QED BY <2>1, <2>3, <2>4, XpQuiet DEF XpInv, XpJobInv
<1>8. ASSUME NEW c \in Callers, Pools!Winxp!CallWait(c) PROVE XpInv'
  <2> USE <1>8 DEF Pools!Winxp!CallWait
  <2>1. XpTypes' /\ XpDeleteInv'
    BY DEF XpInv, XpTypes, Pools!Winxp!TypeOK, XpDeleteInv, Pools!Winxp!Running
  <2>2. XpBusy' = XpBusy /\ XpLive' = XpLive /\ Pools!Winxp!Running' = Pools!Winxp!Running
    BY DEF XpBusy, XpLive, Pools!Winxp!Running
  <2>3. \A d \in Callers : owed'[d] \subseteq accepted
    BY DEF XpInv, XpTypes, XpJobInv
  <2> QED BY <2>1, <2>2, <2>3, XpQuiet
<1>9. ASSUME NEW c \in Callers, NEW j \in Polled, Pools!Winxp!Enqueue(c, j) PROVE XpInv'
  <2> USE DEF XpInv
  <2>1. /\ del = "open" /\ del' = del /\ cpc[c] = "idle" /\ j \notin accepted
        /\ queue' = Append(queue, j) /\ accepted' = accepted \cup {j}
        /\ cpc' = [cpc EXCEPT ![c] = "signal"]
        /\ UNCHANGED <<stop, busy_threads, wakeup_cond, lazy_cond, wjob, owed, finished>>
    BY <1>9 DEF Pools!Winxp!Enqueue
  <2>2. \/ UNCHANGED <<wpc, threads, num_threads>>
        \/ /\ Pools!Winxp!NeedsThread
           /\ \E w \in Workers : /\ wpc[w] = "none" /\ wpc' = [wpc EXCEPT ![w] = "top"]
                                 /\ threads' = <<w>> \o threads /\ num_threads' = num_threads + 1
    BY <1>9 DEF Pools!Winxp!Enqueue, Pools!Winxp!CreateThread
  <2>3. /\ Append(queue, j) \in Seq(Polled)
        /\ Range(Append(queue, j)) = Range(queue) \cup {j}
        /\ IsInjective(queue) /\ j \notin Range(queue) => IsInjective(Append(queue, j))
    BY AppendRange DEF XpTypes, Pools!Winxp!TypeOK
  <2>4. XpBusy' = XpBusy /\ Pools!Winxp!Running' = Pools!Winxp!Running
    BY <2>2 DEF XpTypes, Pools!Winxp!TypeOK, XpBusy, Pools!Winxp!Running
  <2>5. /\ wpc' \in [Workers -> {"none", "top", "wait", "run", "done", "exited", "joined"}]
        /\ threads' \in Seq(Workers) /\ num_threads' \in 0 .. MaxThreads
        /\ XpThreadInv'
    <3>1. CASE UNCHANGED <<wpc, threads, num_threads>>
      <4>1. XpLive' = XpLive
        BY <3>1 DEF XpLive
      <4> QED BY <2>1, <2>4, <3>1, <4>1 DEF XpTypes, Pools!Winxp!TypeOK, XpThreadInv
    <3>2. CASE /\ Pools!Winxp!NeedsThread
               /\ \E w \in Workers : /\ wpc[w] = "none" /\ wpc' = [wpc EXCEPT ![w] = "top"]
                                     /\ threads' = <<w>> \o threads
                                     /\ num_threads' = num_threads + 1
      <4>1. PICK w \in Workers : /\ wpc[w] = "none" /\ wpc' = [wpc EXCEPT ![w] = "top"]
                                 /\ threads' = <<w>> \o threads /\ num_threads' = num_threads + 1
        BY <3>2
      <4>2. w \notin XpLive /\ XpLive' = XpLive \cup {w}
        BY <4>1 DEF XpTypes, Pools!Winxp!TypeOK, XpLive
      <4>3. /\ threads' \in Seq(Workers)
            /\ Range(threads') = Range(threads) \cup {w} /\ IsInjective(threads')
        BY <4>1, <4>2, ConsRange DEF XpTypes, Pools!Winxp!TypeOK, XpThreadInv
      <4>4. IsFiniteSet(XpLive') /\ Cardinality(XpLive') = Cardinality(XpLive) + 1
        BY <4>2, FS_AddElement DEF XpThreadInv
      <4>5. num_threads' \in 0 .. MaxThreads
        BY <3>2, <4>1, PortsAssumption DEF Pools!Winxp!NeedsThread, XpTypes, Pools!Winxp!TypeOK
      <4>6. Cardinality(XpLive') <= num_threads'
        BY <2>1, <4>1, <4>4, XpBounds DEF XpThreadInv, XpTypes, Pools!Winxp!TypeOK
      <4>7. XpThreadInv'
        BY <2>1, <2>4, <4>2, <4>3, <4>4, <4>6 DEF XpThreadInv
      <4>8. wpc' \in [Workers -> {"none", "top", "wait", "run", "done", "exited", "joined"}]
        BY <4>1 DEF XpTypes, Pools!Winxp!TypeOK
      <4> QED BY <4>3, <4>5, <4>7, <4>8
    <3> QED BY <2>2, <3>1, <3>2
  <2>6. XpTypes'
    BY <2>1, <2>3, <2>4, <2>5 DEF XpTypes, Pools!Winxp!TypeOK
  <2>7. XpDeleteInv'
    BY <2>1 DEF XpDeleteInv
  <2>8. XpHeld' = XpHeld
    BY <2>1, <2>4 DEF XpHeld, Pools!Winxp!RunningJobs
  <2>9. j \notin Range(queue) \cup finished \cup XpHeld
    BY <2>1 DEF XpJobInv
  <2>10. \A w \in Pools!Winxp!Running : wjob[w] # j
    BY <2>9 DEF XpHeld, Pools!Winxp!RunningJobs
  <2>11. XpJobInv'
    BY <2>1, <2>3, <2>4, <2>8, <2>9, <2>10 DEF XpJobInv
  <2> QED BY <2>5, <2>6, <2>7, <2>11
<1>10. CASE Pools!Winxp!Stop \/ Pools!Winxp!StopSignal \/ Pools!Winxp!Nudge \/ Pools!Winxp!NotYet
  <2> USE <1>10 DEF Pools!Winxp!Stop, Pools!Winxp!StopSignal, Pools!Winxp!Nudge, Pools!Winxp!NotYet
  <2>1. UNCHANGED <<num_threads, busy_threads, queue, threads, wpc, wjob, cpc,
                    accepted, finished, owed, lazy_cond>>
        /\ del # "freed" /\ del' # "freed"
    OBVIOUS
  <2>2. stop' \in BOOLEAN /\ wakeup_cond' \in BOOLEAN
    BY DEF XpInv, XpTypes, Pools!Winxp!TypeOK
  <2>3. del' \in {"open", "stopped", "joining", "reaping", "freed"}
    OBVIOUS
  <2>4. XpDeleteInv'
    BY DEF XpInv, XpDeleteInv
  <2> HIDE <1>10 DEF Pools!Winxp!Stop, Pools!Winxp!StopSignal, Pools!Winxp!Nudge, Pools!Winxp!NotYet
  <2>5. XpTypes'
    BY <2>1, <2>2, <2>3 DEF XpInv, XpTypes, Pools!Winxp!TypeOK, Pools!Winxp!Running
  <2>6. XpBusy' = XpBusy /\ XpLive' = XpLive /\ Pools!Winxp!Running' = Pools!Winxp!Running
    BY <2>1 DEF XpBusy, XpLive, Pools!Winxp!Running
  <2> QED BY <2>1, <2>4, <2>5, <2>6, XpQuiet DEF XpInv, XpJobInv
<1>11. CASE Pools!Winxp!Reap
  <2> USE <1>11 DEF Pools!Winxp!Reap, XpInv
  <2>1. threads # <<>> /\ del # "freed" /\ del' # "freed"
    BY DEF XpDeleteInv
  <2>2. /\ Head(threads) \in Workers /\ Tail(threads) \in Seq(Workers)
        /\ Range(threads) = Range(Tail(threads)) \cup {Head(threads)}
        /\ IsInjective(Tail(threads)) /\ Head(threads) \notin Range(Tail(threads))
    BY <2>1, TailRange DEF XpTypes, Pools!Winxp!TypeOK, XpThreadInv
  <2>3. /\ Head(threads) \in XpLive /\ XpLive' = XpLive \ {Head(threads)}
        /\ XpBusy' = XpBusy /\ Pools!Winxp!Running' = Pools!Winxp!Running
    BY <2>2 DEF XpTypes, Pools!Winxp!TypeOK, XpLive, XpBusy, Pools!Winxp!Running
  <2>4. XpTypes'
    BY <2>2, <2>3 DEF XpTypes, Pools!Winxp!TypeOK
  <2>5. XpDeleteInv'
    BY DEF XpDeleteInv
  <2>6. XpThreadInv'
    <3>1. IsFiniteSet(XpLive') /\ Cardinality(XpLive') = Cardinality(XpLive) - 1
      BY <2>3, FS_RemoveElement DEF XpThreadInv
    <3>2. Cardinality(XpLive') <= num_threads'
      BY <2>1, <3>1, XpBounds DEF XpThreadInv, XpTypes, Pools!Winxp!TypeOK
    <3> QED BY <2>1, <2>2, <2>3, <3>1, <3>2 DEF XpThreadInv
  <2>7. XpHeld' = XpHeld
    BY <2>3 DEF XpHeld, Pools!Winxp!RunningJobs
  <2>8. XpJobInv'
    BY <2>1, <2>3, <2>7 DEF XpJobInv
  <2> QED BY <2>4, <2>5, <2>6, <2>8
<1>12. CASE Pools!Winxp!Free
  <2> USE <1>12 DEF Pools!Winxp!Free, XpInv
  <2>1. XpLive = {} /\ XpLive' = {}
    BY DEF XpThreadInv, Range, XpLive
  <2>2. Pools!Winxp!Running = {} /\ Pools!Winxp!Running' = {} /\ XpBusy = {} /\ XpBusy' = {}
    BY <2>1 DEF XpLive, XpBusy, Pools!Winxp!Running
  <2>3. Range(queue') = {} /\ IsInjective(queue') /\ queue' \in Seq(Polled)
    BY DEF Range, IsInjective
  <2>4. XpTypes'
    BY <2>2, <2>3, PortsAssumption DEF XpTypes, Pools!Winxp!TypeOK
  <2>5. XpDeleteInv'
    BY DEF XpDeleteInv
  <2>6. XpThreadInv'
    BY <2>1, <2>2 DEF XpThreadInv
  <2>7. XpJobInv'
    BY <2>2, <2>3 DEF XpJobInv
  <2> QED BY <2>4, <2>5, <2>6, <2>7
<1> QED
  BY XpNextCases, <1>1, <1>2, <1>3, <1>4, <1>5, <1>6, <1>7, <1>8, <1>9, <1>10, <1>11, <1>12

\* The pool that polls begins in XpInv, and as JobPool does.
LEMMA XpInit ==
    ASSUME Pools!Winxp!Init
    PROVE  XpInv /\ Pools!Winxp!Abstract!Init
<1> USE DEF Pools!Winxp!Init
<1>1. XpLive = {} /\ XpBusy = {} /\ Pools!Winxp!Running = {} /\ Range(threads) = {}
      /\ Range(queue) = {}
  BY DEF XpLive, XpBusy, Pools!Winxp!Running, Range
<1>2. XpHeld = {}
  BY <1>1 DEF XpHeld, Pools!Winxp!RunningJobs
<1>3. stop \in BOOLEAN /\ wakeup_cond \in BOOLEAN /\ lazy_cond \in BOOLEAN
  OBVIOUS
<1>4. num_threads \in 0 .. MaxThreads /\ busy_threads \in 0 .. MaxThreads
  BY PortsAssumption
<1>5. XpTypes
  BY <1>1, <1>3, <1>4 DEF XpTypes, Pools!Winxp!TypeOK
<1>6. XpDeleteInv
  BY DEF XpDeleteInv
<1>7. XpThreadInv
  BY <1>1, FS_EmptySet DEF XpThreadInv, IsInjective
<1>8. XpJobInv
  BY <1>1, <1>2 DEF XpJobInv, IsInjective
<1>9. Pools!Winxp!Abstract!Init
  <2>1. \A c \in Callers : (cpc[c] \in {"check", "lazy"}) = FALSE
    OBVIOUS
  <2>2. Pools!Winxp!InWait = [c \in Callers |-> FALSE]
    BY <2>1, Zenon DEF Pools!Winxp!InWait
  <2> QED BY <1>2, <2>2 DEF Pools!Winxp!Abstract!Init, XpHeld
<1> QED BY <1>5, <1>6, <1>7, <1>8, <1>9 DEF XpInv

\* When threadpool_wait returns, no job is queued and none is being run.
LEMMA XpReturnPaid ==
    ASSUME XpInv, NEW c \in Callers, Pools!Winxp!ReturnFromWait(c)
    PROVE  owed[c] \subseteq finished
<1> USE DEF XpInv
<1>1. cpc[c] = "check" /\ ~Pools!Winxp!MustWait
  BY DEF Pools!Winxp!ReturnFromWait
<1>2. ~stop /\ del # "freed"
  BY <1>1 DEF XpDeleteInv
<1>3. busy_threads = 0 /\ Len(queue) = 0
  BY <1>1, <1>2 DEF Pools!Winxp!MustWait
<1>4. XpBusy = {}
  BY <1>3, XpBounds, FS_EmptySet DEF XpThreadInv
<1>5. Pools!Winxp!Running = {}
  BY <1>4 DEF Pools!Winxp!Running, XpBusy
<1>6. XpHeld = {}
  BY <1>5 DEF XpHeld, Pools!Winxp!RunningJobs
<1>7. Range(queue) = {}
  <2>1. queue = <<>>
    BY <1>3, EmptySeq DEF XpTypes, Pools!Winxp!TypeOK
  <2> QED BY <2>1 DEF Range
<1> QED BY <1>2, <1>6, <1>7 DEF XpJobInv

\* A dequeue is a start that JobPool allows: the thread that takes the job is
\* live and not busy, so that fewer than MaxThreads run one.
LEMMA XpDequeueStarts ==
    ASSUME XpInv, NEW w \in Workers, Pools!Winxp!Dequeue(w)
    PROVE  Pools!Winxp!Abstract!Start
<1>1. /\ UNCHANGED <<finished, stop, owed, cpc>> /\ ~stop /\ queue # <<>>
      /\ queue' = Tail(queue)
      /\ wpc[w] = "top" /\ wpc' = [wpc EXCEPT ![w] = "run"]
      /\ wjob' = [wjob EXCEPT ![w] = Head(queue)]
  BY DEF Pools!Winxp!Dequeue, Pools!Winxp!GotoW, Pools!Winxp!history
<1>2. /\ w \in XpLive \ XpBusy /\ w \notin Pools!Winxp!Running
         /\ Pools!Winxp!Running \subseteq XpBusy
      /\ Pools!Winxp!Running' = Pools!Winxp!Running \cup {w}
      /\ wjob'[w] = Head(queue) /\ \A v \in Pools!Winxp!Running : wjob'[v] = wjob[v]
  BY <1>1 DEF XpInv, XpTypes, Pools!Winxp!TypeOK, XpLive, XpBusy, Pools!Winxp!Running
<1>3. Pools!Winxp!RunningJobs' = Pools!Winxp!RunningJobs \cup {Head(queue)}
  BY <1>2 DEF Pools!Winxp!RunningJobs
<1>4. /\ IsFiniteSet(Pools!Winxp!Running) /\ Cardinality(Pools!Winxp!Running) \in Nat
      /\ Cardinality(Pools!Winxp!Running) <= Cardinality(XpBusy)
  BY <1>2, XpBounds, FS_Subset, FS_CardinalityType
<1>5. Cardinality(Pools!Winxp!RunningJobs) <= Cardinality(Pools!Winxp!Running)
      /\ Cardinality(Pools!Winxp!RunningJobs) \in Nat
  <2> DEFINE job == [v \in Pools!Winxp!Running |-> wjob[v]]
  <2>1. job \in Surjection(Pools!Winxp!Running, Pools!Winxp!RunningJobs)
    BY DEF Surjection, Pools!Winxp!RunningJobs
  <2> QED BY <1>4, <2>1, FS_Surjection, FS_CardinalityType
<1>6. Cardinality(Pools!Winxp!RunningJobs) < MaxThreads
  BY <1>2, <1>4, <1>5, XpBounds, PortsAssumption
<1>7. Pools!Winxp!Abstract!Cardinality(Pools!Winxp!RunningJobs) =
        Cardinality(Pools!Winxp!RunningJobs)
  BY DEF Pools!Winxp!Abstract!Cardinality, Cardinality
<1>8. UNCHANGED Pools!Winxp!InWait
  BY <1>1 DEF Pools!Winxp!InWait
<1> QED BY <1>1, <1>3, <1>6, <1>7, <1>8 DEF Pools!Winxp!Abstract!Start

\* Every step of the pool that polls is one of JobPool, or changes nothing that
\* JobPool can see.
LEMMA XpImplements ==
    ASSUME XpInv, Pools!Winxp!Next \/ UNCHANGED Pools!Winxp!vars
    PROVE  [Pools!Winxp!Abstract!Next]_(Pools!Winxp!Abstract!poolVars)
<1> USE DEF Pools!Winxp!fields, Pools!Winxp!events, Pools!Winxp!history, Pools!Winxp!GotoW,
            Pools!Winxp!GotoC
<1>1. ASSUME UNCHANGED <<queue, finished, stop, owed, wjob>>,
             Pools!Winxp!Running' = Pools!Winxp!Running,
             UNCHANGED Pools!Winxp!InWait
      PROVE  UNCHANGED Pools!Winxp!Abstract!poolVars
  BY <1>1 DEF Pools!Winxp!Abstract!poolVars, Pools!Winxp!RunningJobs
<1>2. Pools!Winxp!Abstract!Pending = Range(queue)
  BY DEF Pools!Winxp!Abstract!Pending, Pools!Winxp!Abstract!Range, Range
<1>3. ASSUME NEW w \in Workers, Pools!Winxp!Dequeue(w) PROVE Pools!Winxp!Abstract!Next
  BY <1>3, XpDequeueStarts DEF Pools!Winxp!Abstract!Next
<1>4. ASSUME NEW w \in Workers, Pools!Winxp!Finish(w) PROVE Pools!Winxp!Abstract!Next
  <2>1. /\ w \in Pools!Winxp!Running /\ Pools!Winxp!Running' = Pools!Winxp!Running \ {w}
        /\ \A v \in Pools!Winxp!Running' : wjob'[v] = wjob[v]
    BY <1>4 DEF Pools!Winxp!Finish, XpInv, XpTypes, Pools!Winxp!TypeOK, Pools!Winxp!Running
  <2>2. \A v \in Pools!Winxp!Running : v # w => wjob[v] # wjob[w]
    BY <2>1 DEF XpInv, XpJobInv
  <2>3. Pools!Winxp!RunningJobs' = Pools!Winxp!RunningJobs \ {wjob[w]}
        /\ wjob[w] \in Pools!Winxp!RunningJobs
    BY <2>1, <2>2 DEF Pools!Winxp!RunningJobs
  <2>4. finished' = finished \cup {wjob[w]} /\ UNCHANGED <<queue, stop, owed, cpc>>
    BY <1>4 DEF Pools!Winxp!Finish
  <2>5. UNCHANGED Pools!Winxp!InWait
    BY <2>4 DEF Pools!Winxp!InWait
  <2>6. Pools!Winxp!Abstract!Finish(wjob[w])
    BY <2>3, <2>4, <2>5 DEF Pools!Winxp!Abstract!Finish
  <2>7. wjob[w] \in Polled
    BY <2>1 DEF XpInv, XpTypes
  <2> QED BY <2>6, <2>7 DEF Pools!Winxp!Abstract!Next
<1>5. ASSUME NEW w \in Workers, Pools!Winxp!Sleep(w) \/ Pools!Winxp!Wake(w)
             \/ Pools!Winxp!Retire(w) \/ Pools!Winxp!Exit(w)
      PROVE  UNCHANGED Pools!Winxp!Abstract!poolVars
  <2>1. UNCHANGED <<wjob, cpc, queue, finished, stop, owed>>
    BY <1>5 DEF Pools!Winxp!Sleep, Pools!Winxp!Wake, Pools!Winxp!Retire, Pools!Winxp!Exit
  <2>2. Pools!Winxp!Running' = Pools!Winxp!Running
    BY <1>5
    DEF Pools!Winxp!Sleep, Pools!Winxp!Wake, Pools!Winxp!Retire, Pools!Winxp!Exit, XpInv, XpTypes,
        Pools!Winxp!TypeOK, Pools!Winxp!Running
  <2>3. UNCHANGED Pools!Winxp!InWait
    BY <2>1 DEF Pools!Winxp!InWait
  <2> QED BY <1>1, <2>1, <2>2, <2>3
<1>6. ASSUME NEW c \in Callers, Pools!Winxp!CallStep(c) \/ Pools!Winxp!CallWait(c)
      PROVE  /\ UNCHANGED <<wjob, queue, finished, stop, accepted>>
             /\ Pools!Winxp!Running' = Pools!Winxp!Running
             /\ Pools!Winxp!RunningJobs' = Pools!Winxp!RunningJobs
  <2>1. UNCHANGED <<wpc, wjob, queue, finished, stop, accepted>>
    BY <1>6
    DEF Pools!Winxp!CallStep, Pools!Winxp!Signal, Pools!Winxp!KeepWaiting, Pools!Winxp!LazyWake,
        Pools!Winxp!ReturnFromWait, Pools!Winxp!CallWait
  <2> QED BY <2>1 DEF Pools!Winxp!Running, Pools!Winxp!RunningJobs
<1>7. ASSUME NEW c \in Callers, Pools!Winxp!Signal(c) \/ Pools!Winxp!KeepWaiting(c)
             \/ Pools!Winxp!LazyWake(c)
      PROVE  UNCHANGED Pools!Winxp!Abstract!poolVars
  <2>1. owed' = owed
    BY <1>7 DEF Pools!Winxp!Signal, Pools!Winxp!KeepWaiting, Pools!Winxp!LazyWake
  <2>2. \A b \in Callers : cpc'[b] \in {"check", "lazy"} <=> cpc[b] \in {"check", "lazy"}
    BY <1>7
    DEF Pools!Winxp!Signal, Pools!Winxp!KeepWaiting, Pools!Winxp!LazyWake, XpInv, XpTypes,
        Pools!Winxp!TypeOK
  <2>3. UNCHANGED Pools!Winxp!InWait
    BY <2>2 DEF Pools!Winxp!InWait
  <2> QED BY <1>1, <1>6, <1>7, <2>1, <2>3 DEF Pools!Winxp!CallStep
<1>8. ASSUME NEW c \in Callers, Pools!Winxp!ReturnFromWait(c) PROVE Pools!Winxp!Abstract!Next
  <2>1. UNCHANGED <<queue, finished, stop, owed>> /\ UNCHANGED Pools!Winxp!RunningJobs
    BY <1>6, <1>8 DEF Pools!Winxp!CallStep, Pools!Winxp!ReturnFromWait
  <2>2. cpc[c] = "check" /\ cpc' = [cpc EXCEPT ![c] = "idle"]
    BY <1>8 DEF Pools!Winxp!ReturnFromWait
  <2>3. /\ \A b \in Callers : b # c => cpc'[b] = cpc[b]
        /\ (cpc'[c] \in {"check", "lazy"}) = FALSE
    BY <2>2 DEF XpInv, XpTypes, Pools!Winxp!TypeOK
  <2>4. Pools!Winxp!InWait[c]
    BY <2>2 DEF Pools!Winxp!InWait
  <2>5. Pools!Winxp!InWait' = [Pools!Winxp!InWait EXCEPT ![c] = FALSE]
    BY <2>3, Zenon DEF Pools!Winxp!InWait
  <2>6. owed[c] \subseteq finished
    BY <1>8, XpReturnPaid
  <2>7. Pools!Winxp!Abstract!EndWait(c)
    BY <2>1, <2>4, <2>5, <2>6 DEF Pools!Winxp!Abstract!EndWait
  <2> QED BY <2>7 DEF Pools!Winxp!Abstract!Next
<1>9. ASSUME NEW c \in Callers, Pools!Winxp!CallWait(c) PROVE Pools!Winxp!Abstract!Next
  <2>1. UNCHANGED <<queue, finished, stop>> /\ UNCHANGED Pools!Winxp!RunningJobs
    BY <1>6, <1>9
  <2>2. /\ del = "open" /\ owed' = [owed EXCEPT ![c] = accepted]
        /\ cpc[c] = "idle" /\ cpc' = [cpc EXCEPT ![c] = "check"]
    BY <1>9 DEF Pools!Winxp!CallWait
  <2>3. ~Pools!Winxp!InWait[c] /\ Pools!Winxp!InWait' = [Pools!Winxp!InWait EXCEPT ![c] = TRUE]
    BY <2>2 DEF Pools!Winxp!InWait, XpInv, XpTypes, Pools!Winxp!TypeOK
  <2>4. accepted = Range(queue) \cup Pools!Winxp!RunningJobs \cup finished /\ ~stop
    BY <2>2 DEF XpInv, XpJobInv, XpHeld, XpDeleteInv
  <2>5. Pools!Winxp!Abstract!BeginWait(c)
    BY <1>2, <2>1, <2>2, <2>3, <2>4 DEF Pools!Winxp!Abstract!BeginWait
  <2> QED BY <2>5 DEF Pools!Winxp!Abstract!Next
<1>10. ASSUME NEW c \in Callers, NEW j \in Polled, Pools!Winxp!Enqueue(c, j)
       PROVE Pools!Winxp!Abstract!Next
  <2>1. /\ UNCHANGED <<wjob, finished, stop, owed>> /\ queue' = Append(queue, j)
        /\ del = "open" /\ j \notin accepted
        /\ cpc[c] = "idle" /\ cpc' = [cpc EXCEPT ![c] = "signal"]
    BY <1>10 DEF Pools!Winxp!Enqueue
  <2>2. Pools!Winxp!Running' = Pools!Winxp!Running
    BY <1>10
    DEF Pools!Winxp!Enqueue, Pools!Winxp!CreateThread, XpInv, XpTypes, Pools!Winxp!TypeOK,
        Pools!Winxp!Running
  <2>3. \A b \in Callers : cpc'[b] \in {"check", "lazy"} <=> cpc[b] \in {"check", "lazy"}
    BY <2>1 DEF XpInv, XpTypes, Pools!Winxp!TypeOK
  <2>4. UNCHANGED Pools!Winxp!InWait
    BY <2>3 DEF Pools!Winxp!InWait
  <2>5. accepted = Range(queue) \cup Pools!Winxp!RunningJobs \cup finished /\ ~stop
    BY <2>1 DEF XpInv, XpJobInv, XpHeld, XpDeleteInv
  <2>6. UNCHANGED Pools!Winxp!RunningJobs
    BY <2>1, <2>2 DEF Pools!Winxp!RunningJobs
  <2>7. Pools!Winxp!Abstract!Submit(j)
    BY <1>2, <2>1, <2>4, <2>5, <2>6 DEF Pools!Winxp!Abstract!Submit
  <2> QED BY <2>7 DEF Pools!Winxp!Abstract!Next
<1>11. CASE Pools!Winxp!Stop
  <2>1. UNCHANGED <<wpc, wjob, cpc, queue, finished, owed>> /\ stop' = TRUE /\ del = "open"
    BY <1>11 DEF Pools!Winxp!Stop
  <2>2. UNCHANGED Pools!Winxp!RunningJobs /\ UNCHANGED Pools!Winxp!InWait /\ ~stop
    BY <2>1 DEF Pools!Winxp!RunningJobs, Pools!Winxp!Running, Pools!Winxp!InWait, XpInv, XpDeleteInv
  <2>3. Pools!Winxp!Abstract!Close
    BY <2>1, <2>2 DEF Pools!Winxp!Abstract!Close
  <2> QED BY <2>3 DEF Pools!Winxp!Abstract!Next
<1>12. CASE Pools!Winxp!StopSignal \/ Pools!Winxp!Nudge \/ Pools!Winxp!NotYet
            \/ UNCHANGED Pools!Winxp!vars
  <2>1. UNCHANGED <<wpc, wjob, cpc, queue, finished, stop, owed>>
    BY <1>12 DEF Pools!Winxp!StopSignal, Pools!Winxp!Nudge, Pools!Winxp!NotYet, Pools!Winxp!vars
  <2> QED BY <1>1, <2>1 DEF Pools!Winxp!Running, Pools!Winxp!InWait
<1>13. CASE Pools!Winxp!Reap
  <2>1. UNCHANGED <<wjob, cpc, queue, finished, stop, owed>>
    BY <1>13 DEF Pools!Winxp!Reap
  <2>2. Pools!Winxp!Running' = Pools!Winxp!Running
    BY <1>13 DEF Pools!Winxp!Reap, Pools!Winxp!Running, XpInv, XpTypes, Pools!Winxp!TypeOK
  <2> QED BY <1>1, <2>1, <2>2 DEF Pools!Winxp!InWait
<1>14. CASE Pools!Winxp!Free
  <2>1. UNCHANGED <<wpc, wjob, cpc, finished, stop, owed>> /\ queue' = <<>>
        /\ del = "joining" /\ threads = <<>>
    BY <1>14 DEF Pools!Winxp!Free
  <2>2. XpLive = {} /\ stop
    BY <2>1 DEF XpInv, XpThreadInv, XpDeleteInv, Range
  <2>3. Pools!Winxp!Running = {} /\ Pools!Winxp!Running' = {}
    BY <2>1, <2>2 DEF XpLive, Pools!Winxp!Running
  <2>4. Pools!Winxp!RunningJobs = {} /\ Pools!Winxp!RunningJobs' = {}
        /\ UNCHANGED Pools!Winxp!InWait
    BY <2>1, <2>3 DEF Pools!Winxp!RunningJobs, Pools!Winxp!InWait
  <2>5. Pools!Winxp!Abstract!Discard
    BY <2>1, <2>2, <2>4 DEF Pools!Winxp!Abstract!Discard
  <2> QED BY <2>5 DEF Pools!Winxp!Abstract!Next
<1> QED
  BY XpNextCases, <1>3, <1>4, <1>5, <1>7, <1>8, <1>9, <1>10, <1>11, <1>12, <1>13, <1>14
  DEF Pools!Winxp!CallStep

-----------------------------------------------------------------------------
(* The thread pool of Windows.                                             *)

\* The types.
VistaTypes ==
    /\ first \in Jobs \cup {NoJob} /\ last \in Jobs \cup {NoJob}
    /\ next \in [Jobs -> Jobs \cup {NoJob}] /\ prev \in [Jobs -> Jobs \cup {NoJob}]
    /\ place \in [Jobs -> {"new", "added", "submitted", "running", "ran", "gone"}]
    /\ call \in [Callers -> {"idle", "submit", "look", "blocked", "waited"}]
    /\ subject \in [Callers -> Jobs \cup {NoJob}]
    /\ added \in Seq(Jobs) /\ freed \in BOOLEAN

\* The jobs in added are those that are not new, each of them once; a new one
\* has no successor yet.
AddedInv ==
    /\ IsInjective(added) /\ Range(added) = {j \in Jobs : place[j] # "new"}
    /\ \A j \in Jobs : place[j] = "new" => next[j] = NoJob

\* A caller has a job of its own to submit.
SubmitInv ==
    /\ \A c \in Callers : call[c] = "submit" => subject[c] \in Jobs /\ place[subject[c]] = "added"
    /\ \A c, d \in Callers :
          call[c] = "submit" /\ call[d] = "submit" /\ subject[c] = subject[d] => c = d

\* The inductive invariant: with the list whole, a head that is NULL means that
\* no job is left, which is what threadpool_wait returns on.
VistaInv == VistaTypes /\ AddedInv /\ SubmitInv /\ Pools!Vista!ListIntact /\ Pools!Vista!WaitDrains

\* Whatever jobs are unfinished, a place in added has a next one behind it and
\* one before it.
LEMMA Neighbours ==
    ASSUME NEW n \in Nat, NEW L \in SUBSET (1 .. n), NEW i \in 0 .. n + 1
    PROVE  /\ i <= n => \E k \in L \cup {n + 1} : i < k /\ \A m \in L : m <= i \/ k <= m
           /\ i >= 1 => \E k \in L \cup {0} : k < i /\ \A m \in L : m <= k \/ i <= m
<1>1. ASSUME i <= n
      PROVE  \E k \in L \cup {n + 1} : i < k /\ \A m \in L : m <= i \/ k <= m
  <2> DEFINE S == {k \in L \cup {n + 1} : i < k}
  <2>1. S \in SUBSET Nat
    <3>1. \A k \in S : k \in Nat
      OBVIOUS
    <3> QED BY <3>1
  <2>2. n + 1 \in S
    BY <1>1
  <2>3. PICK k \in S : \A m \in S : k <= m
    BY <2>1, <2>2, Least
  <2>4. \A m \in L : m <= i \/ k <= m
    BY <2>3
  <2> QED BY <2>4
<1>2. ASSUME i >= 1
      PROVE  \E k \in L \cup {0} : k < i /\ \A m \in L : m <= k \/ i <= m
  <2> DEFINE S == {d \in 0 .. n + 1 : \E k \in L \cup {0} : k < i /\ d = i - k}
  <2>1. S \in SUBSET Nat /\ i \in S
    BY <1>2
  <2>2. PICK d \in S : \A e \in S : d <= e
    BY <2>1, Least
  <2>3. PICK k \in L \cup {0} : k < i /\ d = i - k
    OBVIOUS
  <2>4. ASSUME NEW m \in L, m < i PROVE m <= k
    <3>1. i - m \in S
      BY <2>4
    <3> QED BY <2>2, <2>3, <3>1
  <2> QED BY <2>3, <2>4
<1> QED BY <1>1, <1>2

\* Where the places are, and which job is in one.
LEMMA Places ==
    ASSUME VistaInv
    PROVE  /\ Len(added) \in Nat /\ Pools!Vista!Unfinished \in SUBSET (1 .. Len(added))
           /\ \A i \in 1 .. Len(added) : added[i] \in Jobs /\ Pools!Vista!At(i) = added[i]
              /\ Pools!Vista!At(i) # NoJob
           /\ Pools!Vista!At(0) = NoJob /\ Pools!Vista!At(Len(added) + 1) = NoJob
           /\ \A i, k \in 1 .. Len(added) : added[i] = added[k] => i = k
           /\ \A j \in Jobs : place[j] # "new" => \E i \in 1 .. Len(added) : added[i] = j
           /\ \A i \in 1 .. Len(added) : place[added[i]] # "new"
           /\ IsFiniteSet(Pools!Vista!Unfinished)
<1>1. /\ Len(added) \in Nat /\ DOMAIN added = 1 .. Len(added)
      /\ \A i \in 1 .. Len(added) : added[i] \in Jobs
  BY DEF VistaInv, VistaTypes
<1>2. Pools!Vista!Unfinished \in SUBSET (1 .. Len(added))
  BY DEF Pools!Vista!Unfinished
<1>3. \A i \in 1 .. Len(added) : Pools!Vista!At(i) = added[i] /\ Pools!Vista!At(i) # NoJob
  BY <1>1, PortsAssumption DEF Pools!Vista!At
<1>4. Pools!Vista!At(0) = NoJob /\ Pools!Vista!At(Len(added) + 1) = NoJob
  BY <1>1 DEF Pools!Vista!At
<1>5. \A i, k \in 1 .. Len(added) : added[i] = added[k] => i = k
  BY <1>1 DEF VistaInv, AddedInv, IsInjective
<1>6. \A j \in Jobs : place[j] # "new" <=> \E i \in 1 .. Len(added) : added[i] = j
  BY <1>1 DEF VistaInv, AddedInv, Range
<1>7. IsFiniteSet(Pools!Vista!Unfinished)
  <2>1. IsFiniteSet(1 .. Len(added))
    BY <1>1, FS_Interval
  <2> QED BY <1>2, <2>1, FS_Subset
<1> QED BY <1>1, <1>2, <1>3, <1>4, <1>5, <1>6, <1>7

\* The module of the pool and this one count alike.
LEMMA SameCardinality == \A S : Pools!Vista!Cardinality(S) = Cardinality(S)
  BY DEF Pools!Vista!Cardinality, Cardinality

\* So a place in the list has its neighbours.
LEMMA ListNeighbours ==
    ASSUME VistaInv, NEW i \in 0 .. Len(added) + 1
    PROVE  /\ i <= Len(added) =>
                 \E k \in Pools!Vista!Unfinished \cup {Len(added) + 1} :
                    i < k /\ \A m \in Pools!Vista!Unfinished : m <= i \/ k <= m
           /\ i >= 1 =>
                 \E k \in Pools!Vista!Unfinished \cup {0} :
                    k < i /\ \A m \in Pools!Vista!Unfinished : m <= k \/ i <= m
<1>1. Len(added) \in Nat /\ Pools!Vista!Unfinished \in SUBSET (1 .. Len(added))
  BY Places
<1> QED BY <1>1, Neighbours

\* A step that neither links nor finishes a job leaves the list as it was.
LEMMA ListQuiet ==
    ASSUME Pools!Vista!ListIntact, UNCHANGED <<first, last, count, next, prev, added>>,
           Pools!Vista!Unfinished' = Pools!Vista!Unfinished
    PROVE  Pools!Vista!ListIntact'
<1>1. Pools!Vista!Positions' = Pools!Vista!Positions
  BY DEF Pools!Vista!Positions
<1>2. \A i, k \in Pools!Vista!Positions : Pools!Vista!Adjacent(i, k)' <=> Pools!Vista!Adjacent(i, k)
  BY DEF Pools!Vista!Adjacent
<1>3. \A i : Pools!Vista!At(i)' = Pools!Vista!At(i)
  BY DEF Pools!Vista!At
<1> QED BY <1>1, <1>2, <1>3 DEF Pools!Vista!ListIntact

\* Adding a job to the list.
LEMMA ListEnqueue ==
    ASSUME VistaInv, NEW c \in Callers, NEW j \in Jobs, Pools!Vista!Enqueue(c, j)
    PROVE  Pools!Vista!ListIntact'
<1> DEFINE n == Len(added)
           L == Pools!Vista!Unfinished
<1>1. /\ place[j] = "new" /\ place' = [place EXCEPT ![j] = "added"]
      /\ first' = IF last = NoJob THEN j ELSE first
      /\ last' = j /\ count' = count + 1 /\ added' = Append(added, j)
      /\ next' = IF last = NoJob THEN next ELSE [next EXCEPT ![last] = j]
      /\ prev' = [prev EXCEPT ![j] = last]
  BY DEF Pools!Vista!Enqueue
<1>2. /\ n \in Nat /\ L \in SUBSET (1 .. n) /\ IsFiniteSet(L)
      /\ \A i \in 1 .. n : added[i] \in Jobs /\ added[i] # j /\ added[i] # NoJob
      /\ \A i, k \in 1 .. n : added[i] = added[k] => i = k
  BY <1>1, Places
<1>3. Len(added') = n + 1 /\ added'[n + 1] = j /\ \A i \in 1 .. n : added'[i] = added[i]
  BY <1>1, <1>2, AppendProperties DEF VistaInv, VistaTypes
<1>4. /\ next \in [Jobs -> Jobs \cup {NoJob}] /\ prev \in [Jobs -> Jobs \cup {NoJob}]
      /\ place \in [Jobs -> {"new", "added", "submitted", "running", "ran", "gone"}]
      /\ next[j] = NoJob /\ j # NoJob
  BY <1>1, PortsAssumption DEF VistaInv, VistaTypes, AddedInv
<1>5. Pools!Vista!Unfinished' = L \cup {n + 1}
  <2>1. \A i \in 1 .. n : place'[added'[i]] = place[added[i]]
    BY <1>1, <1>2, <1>3, <1>4
  <2>2. place'[added'[n + 1]] # "gone"
    BY <1>1, <1>3, <1>4
  <2> QED BY <1>2, <1>3, <2>1, <2>2 DEF Pools!Vista!Unfinished
<1>6. Pools!Vista!Positions = L \cup {0, n + 1} /\ Pools!Vista!Positions' = L \cup {0, n + 1, n + 2}
  BY <1>2, <1>3, <1>5 DEF Pools!Vista!Positions
<1>7. /\ Pools!Vista!At(0)' = NoJob
      /\ \A i \in L : Pools!Vista!At(i)' = added[i] /\ Pools!Vista!At(i) = added[i]
      /\ Pools!Vista!At(0) = NoJob /\ Pools!Vista!At(n + 1) = NoJob
  <2>1. \A i \in 1 .. n : Pools!Vista!At(i)' = added[i] /\ Pools!Vista!At(i) = added[i]
    BY <1>2, <1>3 DEF Pools!Vista!At
  <2>2. Pools!Vista!At(0)' = NoJob
    BY <1>2, <1>3 DEF Pools!Vista!At
  <2> QED BY <1>2, <2>1, <2>2, Places
<1>8. count' = Cardinality(Pools!Vista!Unfinished')
  <2>1. n + 1 \notin L
    BY <1>2
  <2>2. Cardinality(L \cup {n + 1}) = Cardinality(L) + 1
    BY <1>2, <2>1, FS_AddElement
  <2>3. count = Cardinality(L)
    BY SameCardinality DEF VistaInv, Pools!Vista!ListIntact
  <2> QED BY <1>1, <1>5, <2>2, <2>3
<1>9. PICK a \in L \cup {0} : a < n + 1 /\ \A m \in L : m <= a \/ n + 1 <= m
  BY <1>2, ListNeighbours
<1>10. a \in Pools!Vista!Positions /\ n + 1 \in Pools!Vista!Positions
       /\ Pools!Vista!Adjacent(a, n + 1) /\ \A m \in L : m <= a
  BY <1>2, <1>6, <1>9 DEF Pools!Vista!Adjacent
<1>11. Pools!Vista!At(a) = last /\ (last = NoJob <=> a = 0) /\ (a # 0 => last = added[a])
  <2>1. Pools!Vista!At(a) = last
    BY <1>10 DEF VistaInv, Pools!Vista!ListIntact
  <2> QED BY <1>2, <1>7, <2>1
<1>12. ASSUME NEW i \in Pools!Vista!Positions', NEW k \in Pools!Vista!Positions',
              Pools!Vista!Adjacent(i, k)'
       PROVE  /\ Pools!Vista!At(k)' = IF i = 0 THEN first' ELSE next'[added'[i]]
              /\ Pools!Vista!At(i)' = IF k = Len(added') + 1 THEN last' ELSE prev'[added'[k]]
  <2>1. i < k /\ \A m \in L \cup {n + 1} : m <= i \/ k <= m
    BY <1>5, <1>12 DEF Pools!Vista!Adjacent
  <2>2. CASE k = n + 2
    <3>1. i = n + 1
      BY <1>2, <1>6, <2>1, <2>2
    <3>2. next'[j] = NoJob
      BY <1>1, <1>2, <1>4, <1>10, <1>11
    <3>3. /\ Pools!Vista!At(k)' = NoJob /\ Pools!Vista!At(i)' = j /\ i # 0 /\ k = Len(added') + 1
          /\ added'[i] = j
      BY <1>2, <1>3, <2>2, <3>1 DEF Pools!Vista!At
    <3> QED BY <1>1, <3>2, <3>3
  <2>3. CASE k = n + 1
    <3>1. i = a
      BY <1>2, <1>6, <1>9, <1>10, <2>1, <2>3
    <3>2. Pools!Vista!At(a)' = last
      BY <1>7, <1>9, <1>11
    <3>3. prev'[j] = last
      BY <1>1, <1>4
    <3>4. a = 0 => first' = j
      BY <1>1, <1>11
    <3>5. a # 0 => next'[added'[a]] = j
      BY <1>1, <1>2, <1>3, <1>4, <1>9, <1>11
    <3>6. Pools!Vista!At(k)' = j /\ k # Len(added') + 1 /\ added'[k] = j
      BY <1>2, <1>3, <2>3 DEF Pools!Vista!At
    <3>7. Pools!Vista!At(i)' = last
      BY <3>1, <3>2
    <3> QED BY <3>1, <3>3, <3>4, <3>5, <3>6, <3>7
  <2>4. CASE k \in L
    <3>1. i \in L \cup {0} /\ i \in Pools!Vista!Positions /\ k \in Pools!Vista!Positions
          /\ Pools!Vista!Adjacent(i, k)
      BY <1>2, <1>6, <2>1, <2>4 DEF Pools!Vista!Adjacent
    <3>2. i # a
      BY <1>10, <2>1, <2>4, <1>2
    <3>3. a # 0
      BY <1>2, <1>10, <2>4
    <3>4. first' = first
      BY <1>1, <1>11, <3>3
    <3>5. i # 0 => next'[added'[i]] = next[added[i]]
      BY <1>1, <1>2, <1>3, <1>4, <1>9, <1>11, <3>1, <3>2, <3>3
    <3>6. prev'[added'[k]] = prev[added[k]]
      BY <1>1, <1>2, <1>3, <1>4, <2>4
    <3>7. /\ Pools!Vista!At(k) = IF i = 0 THEN first ELSE next[added[i]]
          /\ Pools!Vista!At(i) = prev[added[k]]
      BY <1>2, <2>4, <3>1 DEF VistaInv, Pools!Vista!ListIntact
    <3> QED BY <1>2, <1>3, <1>7, <2>4, <3>1, <3>4, <3>5, <3>6, <3>7
  <2> QED BY <1>6, <2>1, <2>2, <2>3, <2>4, <1>2
<1> QED BY <1>8, <1>12, SameCardinality DEF Pools!Vista!ListIntact

\* Taking a job out of the list, wherever in it the job is.
LEMMA ListRemove ==
    ASSUME VistaInv, NEW j \in Jobs, Pools!Vista!Remove(j)
    PROVE  /\ Pools!Vista!ListIntact'
           /\ first' \in Jobs \cup {NoJob} /\ last' \in Jobs \cup {NoJob}
           /\ next' \in [Jobs -> Jobs \cup {NoJob}] /\ prev' \in [Jobs -> Jobs \cup {NoJob}]
           /\ \A k \in Jobs : place[k] = "new" => next'[k] = next[k]
<1> DEFINE n == Len(added)
           L == Pools!Vista!Unfinished
<1>1. /\ place[j] = "ran" /\ place' = [place EXCEPT ![j] = "gone"] /\ added' = added
      /\ Pools!Vista!Unlink(j) /\ count' = count - 1
      /\ last' = IF j = last THEN prev[j] ELSE last
  BY DEF Pools!Vista!Remove, Pools!Vista!Unlink
<1>2. /\ n \in Nat /\ L \in SUBSET (1 .. n) /\ IsFiniteSet(L)
      /\ \A i \in 1 .. n : added[i] \in Jobs /\ added[i] # NoJob /\ place[added[i]] # "new"
      /\ \A i, k \in 1 .. n : added[i] = added[k] => i = k
  BY Places
<1>3. PICK i \in 1 .. n : added[i] = j
  BY <1>1, Places
<1>4. /\ next \in [Jobs -> Jobs \cup {NoJob}] /\ prev \in [Jobs -> Jobs \cup {NoJob}]
      /\ place \in [Jobs -> {"new", "added", "submitted", "running", "ran", "gone"}]
      /\ first \in Jobs \cup {NoJob} /\ last \in Jobs \cup {NoJob}
  BY DEF VistaInv, VistaTypes
<1>5. i \in L /\ Pools!Vista!Unfinished' = L \ {i}
  <2>1. \A k \in 1 .. n : k # i => place'[added[k]] = place[added[k]]
    BY <1>1, <1>2, <1>3, <1>4
  <2>2. place'[added[i]] = "gone" /\ place[added[i]] # "gone"
    BY <1>1, <1>3, <1>4
  <2> QED BY <1>1, <1>2, <2>1, <2>2 DEF Pools!Vista!Unfinished
<1>6. Pools!Vista!Positions = L \cup {0, n + 1}
      /\ Pools!Vista!Positions' = (L \ {i}) \cup {0, n + 1}
  BY <1>1, <1>5 DEF Pools!Vista!Positions
<1>7. /\ \A k : Pools!Vista!At(k)' = Pools!Vista!At(k)
      /\ Pools!Vista!At(0) = NoJob /\ Pools!Vista!At(n + 1) = NoJob
      /\ \A k \in L : Pools!Vista!At(k) = added[k]
  BY <1>1, <1>2 DEF Pools!Vista!At
<1>8. count' = Cardinality(Pools!Vista!Unfinished')
  <2>1. Cardinality(L \ {i}) = Cardinality(L) - 1
    BY <1>2, <1>5, FS_RemoveElement
  <2>2. count = Cardinality(L)
    BY SameCardinality DEF VistaInv, Pools!Vista!ListIntact
  <2> QED BY <1>1, <1>5, <2>1, <2>2
<1>9. PICK a \in L \cup {0} : a < i /\ \A m \in L : m <= a \/ i <= m
  <2>1. i \in 0 .. n + 1 /\ i >= 1
    BY <1>2
  <2> QED BY <2>1, ListNeighbours
<1>10. PICK b \in L \cup {n + 1} : i < b /\ \A m \in L : m <= i \/ b <= m
  <2>1. i \in 0 .. n + 1 /\ i <= n
    BY <1>2
  <2> QED BY <2>1, ListNeighbours
<1>11. /\ prev[j] = Pools!Vista!At(a) /\ next[j] = Pools!Vista!At(b)
       /\ IF a = 0 THEN first = j ELSE next[added[a]] = j
       /\ IF b = n + 1 THEN last = j ELSE prev[added[b]] = j
  <2>1. /\ a \in Pools!Vista!Positions /\ i \in Pools!Vista!Positions /\ b \in Pools!Vista!Positions
        /\ Pools!Vista!Adjacent(a, i) /\ Pools!Vista!Adjacent(i, b)
    BY <1>5, <1>6, <1>9, <1>10 DEF Pools!Vista!Adjacent
  <2>2. i # 0 /\ i # n + 1 /\ Pools!Vista!At(i) = j
    BY <1>2, <1>3, <1>5, <1>7
  <2> QED BY <1>3, <2>1, <2>2 DEF VistaInv, Pools!Vista!ListIntact
<1>12. j = first <=> a = 0
  <2>1. PICK f \in L \cup {n + 1} : 0 < f /\ \A m \in L : m <= 0 \/ f <= m
    <3>1. 0 \in 0 .. n + 1 /\ 0 <= n
      BY <1>2
    <3> QED BY <3>1, ListNeighbours
  <2>2. f \in L /\ f <= i /\ (a # 0 => f <= a)
    BY <1>2, <1>5, <1>9, <2>1
  <2>3. first = added[f]
    <3>1. 0 \in Pools!Vista!Positions /\ f \in Pools!Vista!Positions /\ Pools!Vista!Adjacent(0, f)
      BY <1>6, <2>1 DEF Pools!Vista!Adjacent
    <3>2. Pools!Vista!At(f) = first
      BY <3>1 DEF VistaInv, Pools!Vista!ListIntact
    <3> QED BY <1>7, <2>2, <3>2
  <2> QED BY <1>2, <1>3, <1>9, <1>11, <2>2, <2>3
<1>13. j = last <=> b = n + 1
  <2>1. PICK g \in L \cup {0} : g < n + 1 /\ \A m \in L : m <= g \/ n + 1 <= m
    <3>1. n + 1 \in 0 .. n + 1 /\ n + 1 >= 1
      BY <1>2
    <3> QED BY <3>1, ListNeighbours
  <2>2. g \in L /\ i <= g /\ (b # n + 1 => b <= g)
    BY <1>2, <1>5, <1>10, <2>1
  <2>3. last = added[g]
    <3>1. n + 1 \in Pools!Vista!Positions /\ g \in Pools!Vista!Positions
          /\ Pools!Vista!Adjacent(g, n + 1)
      BY <1>6, <2>1 DEF Pools!Vista!Adjacent
    <3>2. Pools!Vista!At(g) = last
      BY <3>1 DEF VistaInv, Pools!Vista!ListIntact
    <3> QED BY <1>7, <2>2, <3>2
  <2> QED BY <1>2, <1>3, <1>10, <1>11, <2>2, <2>3
<1>14. next[j] = NoJob <=> b = n + 1
  BY <1>2, <1>7, <1>10, <1>11
<1>15. a # 0 => Pools!Vista!At(a) = added[a] /\ a \in 1 .. n
  BY <1>2, <1>7, <1>9
<1>16. b # n + 1 => Pools!Vista!At(b) = added[b] /\ b \in 1 .. n
  BY <1>2, <1>7, <1>10
<1>17. /\ first' = IF a = 0 THEN Pools!Vista!At(b) ELSE first
       /\ last' = IF b = n + 1 THEN Pools!Vista!At(a) ELSE last
       /\ next' = IF a = 0 THEN next ELSE [next EXCEPT ![added[a]] = Pools!Vista!At(b)]
       /\ prev' = IF b = n + 1 THEN prev ELSE [prev EXCEPT ![added[b]] = Pools!Vista!At(a)]
  <2>1. last' = IF b = n + 1 THEN Pools!Vista!At(a) ELSE last
    BY <1>1, <1>11, <1>13
  <2>2. CASE a = 0
    BY <1>1, <1>7, <1>11, <1>12, <1>14, <1>16, <2>1, <2>2 DEF Pools!Vista!Unlink
  <2>3. CASE a # 0
    BY <1>1, <1>11, <1>12, <1>14, <1>15, <1>16, <2>1, <2>3 DEF Pools!Vista!Unlink
  <2> QED BY <2>2, <2>3
<1>18. Pools!Vista!At(a) \in Jobs \cup {NoJob} /\ Pools!Vista!At(b) \in Jobs \cup {NoJob}
  BY <1>2, <1>7, <1>15, <1>16
<1>19. /\ first' \in Jobs \cup {NoJob} /\ last' \in Jobs \cup {NoJob}
       /\ next' \in [Jobs -> Jobs \cup {NoJob}] /\ prev' \in [Jobs -> Jobs \cup {NoJob}]
  BY <1>4, <1>17, <1>18
<1>20. \A k \in Jobs : place[k] = "new" => next'[k] = next[k]
  BY <1>2, <1>4, <1>15, <1>17
<1>21. ASSUME NEW c \in Pools!Vista!Positions', NEW d \in Pools!Vista!Positions',
              Pools!Vista!Adjacent(c, d)'
       PROVE  /\ Pools!Vista!At(d)' = IF c = 0 THEN first' ELSE next'[added'[c]]
              /\ Pools!Vista!At(c)' = IF d = Len(added') + 1 THEN last' ELSE prev'[added'[d]]
  <2>1. c < d /\ \A m \in L \ {i} : m <= c \/ d <= m
    BY <1>5, <1>21 DEF Pools!Vista!Adjacent
  <2>2. /\ c \in L \cup {0} /\ d \in L \cup {n + 1} /\ c # i /\ d # i
        /\ c \in Pools!Vista!Positions /\ d \in Pools!Vista!Positions
    BY <1>2, <1>5, <1>6, <2>1
  <2>3. /\ c # 0 => c \in 1 .. n /\ added[c] \in Jobs
        /\ d # n + 1 => d \in 1 .. n /\ added[d] \in Jobs
    BY <1>2, <2>2
  <2>4. CASE c < i /\ i < d
    <3>1. c = a /\ d = b
      BY <1>2, <1>5, <1>9, <1>10, <2>1, <2>2, <2>4
    <3>2. Pools!Vista!At(b) = IF a = 0 THEN first' ELSE next'[added[a]]
      BY <1>2, <1>4, <1>15, <1>17
    <3>3. Pools!Vista!At(a) = IF b = n + 1 THEN last' ELSE prev'[added[b]]
      BY <1>2, <1>4, <1>16, <1>17
    <3> QED BY <1>1, <1>7, <3>1, <3>2, <3>3
  <2>5. CASE ~(c < i /\ i < d)
    <3>1. Pools!Vista!Adjacent(c, d)
      BY <1>2, <2>1, <2>2, <2>5 DEF Pools!Vista!Adjacent
    <3>2. /\ Pools!Vista!At(d) = IF c = 0 THEN first ELSE next[added[c]]
          /\ Pools!Vista!At(c) = IF d = n + 1 THEN last ELSE prev[added[d]]
      BY <2>2, <3>1 DEF VistaInv, Pools!Vista!ListIntact
    <3>3. c # a /\ d # b
      BY <1>2, <1>5, <1>9, <1>10, <2>1, <2>2, <2>5
    <3>4. IF c = 0 THEN first' = first ELSE next'[added[c]] = next[added[c]]
      BY <1>2, <1>4, <1>15, <1>17, <2>3, <3>3
    <3>5. IF d = n + 1 THEN last' = last ELSE prev'[added[d]] = prev[added[d]]
      BY <1>2, <1>4, <1>16, <1>17, <2>3, <3>3
    <3> QED BY <1>1, <1>7, <3>2, <3>4, <3>5
  <2> QED BY <2>4, <2>5
<1> QED BY <1>8, <1>19, <1>20, <1>21, SameCardinality DEF Pools!Vista!ListIntact

\* Every step of the pool of Windows keeps VistaInv.
LEMMA VistaStep ==
    ASSUME VistaInv, Pools!Vista!Next
    PROVE  VistaInv'
<1> USE DEF Pools!Vista!links, Pools!Vista!Goto, Pools!Vista!Free
<1>1. ASSUME NEW c \in Callers, NEW j \in Jobs, Pools!Vista!Enqueue(c, j) PROVE VistaInv'
  <2>1. /\ ~freed /\ freed' = freed /\ place[j] = "new" /\ call[c] \in {"idle", "waited"}
        /\ first' = IF last = NoJob THEN j ELSE first
        /\ last' = j /\ added' = Append(added, j)
        /\ next' = IF last = NoJob THEN next ELSE [next EXCEPT ![last] = j]
        /\ prev' = [prev EXCEPT ![j] = last]
        /\ place' = [place EXCEPT ![j] = "added"]
        /\ call' = [d \in Callers |->
              IF d = c THEN "submit" ELSE IF call[d] = "waited" THEN "idle" ELSE call[d]]
        /\ subject' = [subject EXCEPT ![c] = j]
    BY <1>1 DEF Pools!Vista!Enqueue
  <2>2. /\ added' \in Seq(Jobs) /\ Range(added') = Range(added) \cup {j}
        /\ IsInjective(added')
    BY <2>1, AppendRange DEF VistaInv, VistaTypes, AddedInv
  <2>3. VistaTypes'
    BY <2>1, <2>2 DEF VistaInv, VistaTypes
  <2>4. AddedInv'
    <3>1. {k \in Jobs : place'[k] # "new"} = {k \in Jobs : place[k] # "new"} \cup {j}
      BY <2>1 DEF VistaInv, VistaTypes
    <3>2. last # NoJob => last \in Jobs /\ place[last] # "new"
      <4>1. PICK g \in Pools!Vista!Unfinished \cup {0} :
               g < Len(added) + 1 /\ \A m \in Pools!Vista!Unfinished : m <= g \/ Len(added) + 1 <= m
        <5>1. Len(added) + 1 \in 0 .. Len(added) + 1 /\ Len(added) + 1 >= 1
          BY Places
        <5> QED BY <5>1, ListNeighbours
      <4>2. Pools!Vista!At(g) = last
        <5>1. g \in Pools!Vista!Positions /\ Len(added) + 1 \in Pools!Vista!Positions
              /\ Pools!Vista!Adjacent(g, Len(added) + 1)
          BY <4>1 DEF Pools!Vista!Positions, Pools!Vista!Adjacent
        <5> QED BY <5>1 DEF VistaInv, Pools!Vista!ListIntact
      <4> QED BY <4>1, <4>2, Places
    <3>3. \A k \in Jobs : place'[k] = "new" => next'[k] = NoJob
      BY <2>1, <3>2 DEF VistaInv, VistaTypes, AddedInv
    <3> QED BY <2>2, <3>1, <3>3 DEF VistaInv, AddedInv
  <2>5. SubmitInv'
    <3>1. \A d \in Callers : d # c /\ call'[d] = "submit" =>
             call[d] = "submit" /\ subject'[d] = subject[d] /\ subject[d] # j
      BY <2>1 DEF VistaInv, VistaTypes, SubmitInv
    <3>2. subject'[c] = j /\ place'[j] = "added"
      BY <2>1 DEF VistaInv, VistaTypes
    <3>3. \A d \in Callers : call'[d] = "submit" =>
             subject'[d] \in Jobs /\ place'[subject'[d]] = "added"
      BY <2>1, <3>1, <3>2 DEF VistaInv, VistaTypes, SubmitInv
    <3>4. \A d, e \in Callers :
             call'[d] = "submit" /\ call'[e] = "submit" /\ subject'[d] = subject'[e] => d = e
      BY <3>1, <3>2 DEF VistaInv, SubmitInv
    <3> QED BY <3>3, <3>4 DEF SubmitInv
  <2>6. Pools!Vista!ListIntact'
    BY <1>1, ListEnqueue
  <2>7. Pools!Vista!WaitDrains'
    BY <2>1 DEF Pools!Vista!WaitDrains
  <2> QED BY <2>3, <2>4, <2>5, <2>6, <2>7 DEF VistaInv
<1>2. ASSUME NEW j \in Jobs, Pools!Vista!Remove(j) PROVE VistaInv'
  <2>1. /\ place[j] = "ran" /\ place' = [place EXCEPT ![j] = "gone"]
        /\ UNCHANGED <<call, subject, added, freed>>
    BY <1>2 DEF Pools!Vista!Remove
  <2>2. VistaTypes'
    BY <1>2, <2>1, ListRemove DEF VistaInv, VistaTypes
  <2>3. AddedInv'
    <3>1. {k \in Jobs : place'[k] # "new"} = {k \in Jobs : place[k] # "new"}
      BY <2>1 DEF VistaInv, VistaTypes
    <3>2. \A k \in Jobs : place'[k] = "new" => next'[k] = NoJob
      BY <1>2, <2>1, ListRemove DEF VistaInv, VistaTypes, AddedInv
    <3> QED BY <2>1, <3>1, <3>2 DEF VistaInv, AddedInv
  <2>4. SubmitInv'
    BY <2>1 DEF VistaInv, VistaTypes, SubmitInv
  <2>5. Pools!Vista!ListIntact'
    BY <1>2, ListRemove
  <2>6. Pools!Vista!WaitDrains'
    BY <2>1 DEF VistaInv, VistaTypes, Pools!Vista!WaitDrains
  <2> QED BY <2>2, <2>3, <2>4, <2>5, <2>6 DEF VistaInv
<1>3. ASSUME UNCHANGED <<first, last, count, next, prev, added>>, VistaTypes',
             \A j \in Jobs : place[j] = "new" <=> place'[j] = "new",
             \A j \in Jobs : place[j] = "gone" <=> place'[j] = "gone",
             SubmitInv', Pools!Vista!WaitDrains'
      PROVE  VistaInv'
  <2>1. AddedInv'
    BY <1>3 DEF VistaInv, AddedInv
  <2>2. Pools!Vista!Unfinished' = Pools!Vista!Unfinished
    BY <1>3, Places DEF Pools!Vista!Unfinished
  <2>3. Pools!Vista!ListIntact'
    BY <1>3, <2>2, ListQuiet DEF VistaInv
  <2> QED BY <1>3, <2>1, <2>3 DEF VistaInv
<1>4. ASSUME NEW c \in Callers, Pools!Vista!Submit(c) PROVE VistaInv'
  <2>1. /\ call[c] = "submit" /\ place' = [place EXCEPT ![subject[c]] = "submitted"]
        /\ call' = [call EXCEPT ![c] = "idle"]
        /\ UNCHANGED <<first, last, count, next, prev, subject, added, freed>>
    BY <1>4 DEF Pools!Vista!Submit
  <2>2. subject[c] \in Jobs /\ place[subject[c]] = "added"
    BY <2>1 DEF VistaInv, SubmitInv
  <2>3. VistaTypes'
    BY <2>1, <2>2 DEF VistaInv, VistaTypes
  <2>4. SubmitInv'
    BY <2>1, <2>2 DEF VistaInv, VistaTypes, SubmitInv
  <2>5. Pools!Vista!WaitDrains'
    BY <2>1, <2>2 DEF VistaInv, VistaTypes, Pools!Vista!WaitDrains
  <2> QED BY <1>3, <2>1, <2>2, <2>3, <2>4, <2>5 DEF VistaInv, VistaTypes
<1>5. ASSUME NEW j \in Jobs, Pools!Vista!Start(j) \/ Pools!Vista!Finish(j) PROVE VistaInv'
  <2>1. /\ place[j] \in {"submitted", "running"}
        /\ \E p \in {"running", "ran"} : place' = [place EXCEPT ![j] = p]
        /\ UNCHANGED <<first, last, count, next, prev, call, subject, added, freed>>
    BY <1>5 DEF Pools!Vista!Start, Pools!Vista!Finish
  <2>2. VistaTypes'
    BY <2>1 DEF VistaInv, VistaTypes
  <2>3. SubmitInv'
    BY <2>1 DEF VistaInv, VistaTypes, SubmitInv
  <2>4. Pools!Vista!WaitDrains'
    BY <2>1 DEF VistaInv, VistaTypes, Pools!Vista!WaitDrains
  <2> QED BY <1>3, <2>1, <2>2, <2>3, <2>4 DEF VistaInv, VistaTypes
<1>6. ASSUME NEW c \in Callers, Pools!Vista!CallWait(c) \/ Pools!Vista!Unblock(c) PROVE VistaInv'
  <2>1. /\ call' = [call EXCEPT ![c] = "look"]
        /\ UNCHANGED <<first, last, count, next, prev, place, subject, added, freed>>
    BY <1>6 DEF Pools!Vista!CallWait, Pools!Vista!Unblock
  <2>2. VistaTypes'
    BY <2>1 DEF VistaInv, VistaTypes
  <2>3. SubmitInv'
    BY <2>1 DEF VistaInv, VistaTypes, SubmitInv
  <2>4. Pools!Vista!WaitDrains'
    BY <2>1 DEF VistaInv, VistaTypes, Pools!Vista!WaitDrains
  <2> QED BY <1>3, <2>1, <2>2, <2>3, <2>4
<1>7. ASSUME NEW c \in Callers, Pools!Vista!Look(c) PROVE VistaInv'
  <2>1. /\ call' = [call EXCEPT ![c] = IF first = NoJob THEN "waited" ELSE "blocked"]
        /\ subject' = [subject EXCEPT ![c] = first] /\ call[c] = "look"
        /\ UNCHANGED <<first, last, count, next, prev, place, added, freed>>
    BY <1>7 DEF Pools!Vista!Look
  <2>2. VistaTypes'
    BY <2>1 DEF VistaInv, VistaTypes
  <2>3. SubmitInv'
    BY <2>1 DEF VistaInv, VistaTypes, SubmitInv
  <2>4. Pools!Vista!WaitDrains'
    <3>1. CASE first = NoJob
      <4>1. PICK f \in Pools!Vista!Unfinished \cup {Len(added) + 1} :
               0 < f /\ \A m \in Pools!Vista!Unfinished : m <= 0 \/ f <= m
        <5>1. 0 \in 0 .. Len(added) + 1 /\ 0 <= Len(added)
          BY Places
        <5> QED BY <5>1, ListNeighbours
      <4>2. Pools!Vista!At(f) = NoJob
        <5>1. 0 \in Pools!Vista!Positions /\ f \in Pools!Vista!Positions
              /\ Pools!Vista!Adjacent(0, f)
          BY <4>1 DEF Pools!Vista!Positions, Pools!Vista!Adjacent
        <5> QED BY <3>1, <5>1 DEF VistaInv, Pools!Vista!ListIntact
      <4>3. f = Len(added) + 1
        BY <4>2, Places
      <4>4. Pools!Vista!Unfinished = {}
        BY <4>1, <4>3, Places
      <4>5. \A j \in Jobs : place[j] \in {"new", "gone"}
        BY <4>4, Places DEF Pools!Vista!Unfinished
      <4> QED BY <2>1, <4>5 DEF Pools!Vista!WaitDrains
    <3>2. CASE first # NoJob
      BY <2>1, <3>2 DEF VistaInv, VistaTypes, Pools!Vista!WaitDrains
    <3> QED BY <3>1, <3>2
  <2> QED BY <1>3, <2>1, <2>2, <2>3, <2>4
<1>8. ASSUME NEW c \in Callers, Pools!Vista!Delete(c) PROVE VistaInv'
  <2>1. /\ call[c] = "waited" /\ freed' = TRUE
        /\ UNCHANGED <<first, last, count, next, prev, place, call, subject, added>>
    BY <1>8 DEF Pools!Vista!Delete
  <2>2. freed' \in BOOLEAN
    BY <2>1
  <2>3. VistaTypes'
    BY <2>1, <2>2 DEF VistaInv, VistaTypes
  <2>4. SubmitInv' /\ Pools!Vista!WaitDrains'
    BY <2>1 DEF VistaInv, SubmitInv, Pools!Vista!WaitDrains
  <2> QED BY <1>3, <2>1, <2>3, <2>4
<1> QED BY <1>1, <1>2, <1>4, <1>5, <1>6, <1>7, <1>8
    DEF Pools!Vista!Next, Pools!Vista!JobStep, Pools!Vista!CallStep

\* The pool of Windows begins in VistaInv.
LEMMA VistaInit ==
    ASSUME Pools!Vista!Init
    PROVE  VistaInv
<1> USE DEF Pools!Vista!Init
<1>1. freed \in BOOLEAN
  OBVIOUS
<1>2. VistaTypes
  BY <1>1 DEF VistaTypes
<1>3. AddedInv
  BY DEF AddedInv, Range, IsInjective
<1>4. Pools!Vista!Unfinished = {} /\ Pools!Vista!Positions = {0, 1} /\ Len(added) = 0
  BY DEF Pools!Vista!Unfinished, Pools!Vista!Positions
<1>5. Pools!Vista!ListIntact
  <2>1. Cardinality(Pools!Vista!Unfinished) = 0
    BY <1>4, FS_EmptySet
  <2>2. Pools!Vista!At(0) = NoJob /\ Pools!Vista!At(1) = NoJob
    BY <1>4 DEF Pools!Vista!At
  <2>3. \A i, k \in Pools!Vista!Positions : Pools!Vista!Adjacent(i, k) => i = 0 /\ k = 1
    BY <1>4 DEF Pools!Vista!Adjacent
  <2> QED BY <1>4, <2>1, <2>2, <2>3, SameCardinality DEF Pools!Vista!ListIntact
<1> QED BY <1>2, <1>3, <1>5 DEF VistaInv, SubmitInv, Pools!Vista!WaitDrains

-----------------------------------------------------------------------------
(* Both pools of Windows.                                                  *)

\* A behaviour has one of the pools; the other stays as it was initially.
PoolsInv == version \in {"winxp", "vista"} /\ XpInv /\ VistaInv

\* No step of Ports disturbs PoolsInv.
LEMMA PoolsInvariance == Spec => []PoolsInv
<1>1. Init => PoolsInv
  BY XpInit, VistaInit DEF Init, Pools!Init, PoolsInv
<1>2. ASSUME PoolsInv, UNCHANGED Pools!Winxp!vars PROVE XpInv'
  <2> USE <1>2 DEF PoolsInv, Pools!Winxp!vars, Pools!Winxp!fields, Pools!Winxp!events,
                   Pools!Winxp!history
  <2>1. XpBusy' = XpBusy /\ XpLive' = XpLive /\ Pools!Winxp!Running' = Pools!Winxp!Running
    BY DEF XpBusy, XpLive, Pools!Winxp!Running
  <2>2. XpTypes' /\ XpDeleteInv'
    BY <2>1 DEF XpInv, XpTypes, Pools!Winxp!TypeOK, XpDeleteInv
  <2> QED BY <2>1, <2>2, XpQuiet DEF XpInv, XpJobInv
<1>3. ASSUME PoolsInv, UNCHANGED Pools!Vista!vars PROVE VistaInv'
  <2> USE <1>3 DEF PoolsInv, Pools!Vista!vars, Pools!Vista!links
  <2>1. Pools!Vista!ListIntact'
    <3>1. Pools!Vista!Unfinished' = Pools!Vista!Unfinished
      BY DEF Pools!Vista!Unfinished
    <3> QED BY <3>1, ListQuiet DEF VistaInv
  <2>2. VistaTypes' /\ AddedInv' /\ SubmitInv' /\ Pools!Vista!WaitDrains'
    BY DEF VistaInv, VistaTypes, AddedInv, SubmitInv, Pools!Vista!WaitDrains
  <2> QED BY <2>1, <2>2 DEF VistaInv
<1>4. ASSUME PoolsInv, [Next]_vars PROVE PoolsInv'
  <2>1. CASE Pools!Next
    <3>1. version' = version
      BY <2>1 DEF Pools!Next
    <3>2. CASE Pools!Winxp!Next /\ UNCHANGED Pools!vistaVars
      BY <1>3, <1>4, <3>1, <3>2, XpStep
      DEF PoolsInv, Pools!vistaVars, Pools!Vista!vars, Pools!Vista!links
    <3>3. CASE Pools!Vista!Next /\ UNCHANGED Pools!winxpVars
      BY <1>2, <1>4, <3>1, <3>3, VistaStep
      DEF PoolsInv, Pools!winxpVars, Pools!Winxp!vars, Pools!Winxp!fields, Pools!Winxp!events,
          Pools!Winxp!history
    <3> QED BY <2>1, <3>2, <3>3 DEF Pools!Next
  <2>2. CASE UNCHANGED pools
    <3>1. UNCHANGED Pools!Winxp!vars /\ UNCHANGED Pools!Vista!vars /\ version' = version
      BY <2>2
      DEF pools, Pools!Winxp!vars, Pools!Winxp!fields, Pools!Winxp!events, Pools!Winxp!history,
          Pools!Vista!vars, Pools!Vista!links
    <3> QED BY <1>2, <1>3, <1>4, <3>1 DEF PoolsInv
  <2> QED BY <1>4, <2>1, <2>2 DEF Next, vars
<1> QED BY <1>1, <1>4, PTL DEF Spec

\* threadpool_delete frees a pool that none of its threads and no callback of it
\* will touch: in the one that polls every thread was joined, in that of Windows
\* the client waited and every job was finished.
THEOREM FreedPoolsSafe == Spec => []FreedPoolUntouched
<1>1. PoolsInv => FreedPoolUntouched
  <2> SUFFICES ASSUME PoolsInv PROVE FreedPoolUntouched
    OBVIOUS
  <2>1. Pools!TypeOK /\ Pools!Vista!WaitDrains
    BY DEF PoolsInv, XpInv, XpTypes, VistaInv, Pools!TypeOK
  <2>2. ASSUME del = "freed" PROVE \A w \in Workers : wpc[w] \in {"none", "joined"}
    <3>1. XpLive = {}
      BY <2>2 DEF PoolsInv, XpInv, XpThreadInv, Range
    <3> QED BY <3>1 DEF XpLive
  <2>3. Pools!Winxp!FreedPoolUntouched
    BY <2>2 DEF Pools!Winxp!FreedPoolUntouched
  <2> QED BY <2>1, <2>3 DEF FreedPoolUntouched, Pools!FreedPoolUntouched
<1> QED BY <1>1, PoolsInvariance, PTL

\* The list of the pool of Windows holds exactly the unfinished jobs in the order
\* they were added, in whatever order they end.
THEOREM ListCorrect == Spec => []ListIntact
<1>1. PoolsInv => ListIntact
  BY DEF PoolsInv, VistaInv, ListIntact, Pools!ListIntact
<1> QED BY <1>1, PoolsInvariance, PTL

\* The pool that polls implements JobPool: although an event of Windows wakes one
\* thread at most, jobs start in order, on at most MaxThreads threads, and
\* threadpool_wait returns when those that were accepted before it are done.
THEOREM PollingPoolImplementsJobPool == Spec => ImplementsJobPool
<1>1. Init => Pools!Winxp!Abstract!Init
  BY XpInit DEF Init, Pools!Init
<1>2. PoolsInv /\ [Next]_vars => [Pools!Winxp!Abstract!Next]_(Pools!Winxp!Abstract!poolVars)
  <2> SUFFICES ASSUME PoolsInv, [Next]_vars
               PROVE  [Pools!Winxp!Abstract!Next]_(Pools!Winxp!Abstract!poolVars)
    OBVIOUS
  <2>1. Pools!Winxp!Next \/ UNCHANGED Pools!Winxp!vars
    BY
    DEF Next, vars, pools, Pools!Next, Pools!winxpVars, Pools!Winxp!vars, Pools!Winxp!fields,
        Pools!Winxp!events,
           Pools!Winxp!history
  <2> QED BY <2>1, XpImplements DEF PoolsInv
<1> QED BY <1>1, <1>2, PoolsInvariance, PTL
        DEF Spec, ImplementsJobPool, Pools!ImplementsJobPool, Pools!Winxp!ImplementsJobPool,
            Pools!Winxp!Abstract!Spec

-----------------------------------------------------------------------------
(* The platform resolvers.                                                 *)

\* The types.
ResolverTypes ==
    /\ system \in Systems /\ resolver \in {"none"} \cup Resolvers!Candidates[system]
    /\ loaded \in BOOLEAN /\ memory \in {"none", "live", "freed"}
    /\ list \in {Proxies, Direct, NoList} /\ error \in {"none", "failed"}
    /\ signalled \in BOOLEAN /\ phase \in {"idle", "asked", "answered"}
    /\ requests \in 0 .. MaxRequests /\ silent \in BOOLEAN
    /\ handle \in BOOLEAN /\ request \in {"none", "pending", "stored"}
    /\ operation \in {"none", "unstarted", "pending", "invoked", "stored", "over"}
    /\ handler \in {"none", "live", "freed"} /\ refs \in 0 .. 2
    /\ attached \in BOOLEAN /\ seen \in BOOLEAN /\ broken \in BOOLEAN
    /\ xpJob \in {"none", "queued", "stored"}
    /\ macJob \in {"none", "queued", "loop", "stored"}

\* The resolvers that were not chosen are as they were initially.
Chosen ==
    /\ resolver = "none" => memory = "none" /\ ~loaded
    /\ resolver # "win8" => request = "none"
    /\ resolver # "winrt" => operation = "none" /\ handler = "none" /\ refs = 0 /\ ~broken
    /\ resolver # "winxp" => xpJob = "none"
    /\ resolver # "mac" => macJob = "none"

\* A list, an error, or one of the silent failures that AnswerExplained excepts.
Explained == list # NoList \/ error # "none" \/ silent

\* A thread works for a request only until the event is set, and what it leaves there
\* explains itself.
RequestInv ==
    /\ memory = "none" => phase = "idle"
    /\ memory = "live" => loaded
    /\ phase = "idle" => requests = 0 /\ ~signalled
    /\ phase = "answered" /\ resolver \in {"win8", "winrt", "winxp"} => ~signalled
    /\ Resolvers!UnderWay => phase = "asked" /\ ~signalled
    /\ signalled \/ phase = "answered" => Explained
    /\ request = "stored" \/ xpJob = "stored" \/ macJob = "stored" => Explained

\* The handler has a reference for each of instance and operation that is there, ...
RefsInv ==
    /\ phase = "idle" => operation = "none" /\ handler = "none"
    /\ handler = "none" => operation \in {"none", "unstarted"}
    /\ handler = "live" <=> refs > 0
    /\ handler # "none" /\ operation # "unstarted" =>
          refs = (IF memory = "live" THEN 1 ELSE 0) + (IF operation # "none" THEN 1 ELSE 0)

\* ... and finds the instance while it is there.
AttachedInv ==
    /\ operation = "pending" /\ memory = "live" => attached
    /\ operation \in {"invoked", "stored"} /\ memory = "live" => seen
    /\ operation = "stored" /\ memory = "live" => Explained
    /\ broken => memory = "freed" /\ phase = "asked"

\* The inductive invariant of the platform resolvers.
ResolversInv == ResolverTypes /\ Chosen /\ RequestInv /\ RefsInv /\ AttachedInv

\* What a step of any resolver does that the client can see: it asks, it works
\* on the answer before the event is set, it ends with the event, it lets the
\* client out of the wait, or it does none of that.
Asks == phase # "asked" /\ phase' = "asked" /\ requests' = requests + 1
Works == phase = "asked" /\ ~signalled /\ UNCHANGED <<phase, requests, signalled>>
Ends == phase = "asked" /\ ~signalled /\ signalled' /\ UNCHANGED <<phase, requests>>
Waits == /\ phase = "asked" /\ signalled /\ phase' = "answered"
         /\ UNCHANGED <<list, error, requests>>
Keeps == UNCHANGED <<phase, requests, signalled, list, error>>
ClientStep == Asks \/ Works \/ Ends \/ Waits \/ Keeps

\* Each of those is a step of NativeRequest or changes nothing that it can see.
LEMMA ClientStepImplements ==
    ASSUME ResolversInv, ResolversInv', ClientStep
    PROVE  [Resolvers!Abstract!Next]_Resolvers!Abstract!vars
<1>1. /\ Resolvers!Completed <=> (phase = "answered" \/ (phase = "asked" /\ signalled))
      /\ Resolvers!Completed' <=> (phase' = "answered" \/ (phase' = "asked" /\ signalled'))
      /\ Resolvers!Phase = IF Resolvers!Completed THEN "complete" ELSE phase
      /\ Resolvers!Phase' = IF Resolvers!Completed' THEN "complete" ELSE phase'
      /\ ~Resolvers!Completed => Resolvers!Answer = NoList
      /\ ~Resolvers!Completed' => Resolvers!Answer' = NoList
  BY DEF Resolvers!Completed, Resolvers!Phase, Resolvers!Answer
<1>2. Resolvers!Completed' => Resolvers!Answer' \in Resolvers!Answers
  BY DEF ResolversInv, ResolverTypes, Resolvers!Answer, Resolvers!Answers
<1>3. CASE Asks
  BY <1>1, <1>2, <1>3 DEF Asks, Resolvers!Abstract!Next, Resolvers!Abstract!Ask,
                          Resolvers!Abstract!AskAndFinish
<1>4. CASE Works
  BY <1>1, <1>4 DEF Works, Resolvers!Abstract!vars
<1>5. CASE Ends
  BY <1>1, <1>2, <1>5 DEF Ends, Resolvers!Abstract!Next, Resolvers!Abstract!Finish
<1>6. CASE Waits
  <2>1. Resolvers!Completed /\ Resolvers!Completed'
    BY <1>1, <1>6 DEF Waits
  <2>2. Resolvers!Answer' = Resolvers!Answer
    BY <1>6, <2>1 DEF Waits, Resolvers!Answer
  <2> QED BY <1>1, <1>6, <2>1, <2>2 DEF Waits, Resolvers!Abstract!vars
<1>7. CASE Keeps
  <2>1. Resolvers!Answer' = Resolvers!Answer /\ Resolvers!Phase' = Resolvers!Phase
    BY <1>7 DEF Keeps, Resolvers!Answer, Resolvers!Phase, Resolvers!Completed
  <2> QED BY <1>7, <2>1 DEF Keeps, Resolvers!Abstract!vars
<1> QED BY <1>3, <1>4, <1>5, <1>6, <1>7 DEF ClientStep

\* The steps of src/resolver_win8.c, whose thread is the callback of WinHTTP.
LEMMA Win8Step ==
    ASSUME ResolversInv, resolver = "win8", Resolvers!Win8!Next,
           UNCHANGED <<system, resolver, Resolvers!winrt, xpJob, macJob>>
    PROVE  ResolversInv' /\ ClientStep
<1> USE PortsAssumption
    DEF ResolversInv, ResolverTypes, Chosen, RequestInv, RefsInv, AttachedInv, Explained,
        Resolvers!UnderWay, ClientStep, Asks, Works, Ends, Waits, Keeps,
        Resolvers!win8, Resolvers!winrt,
        Resolvers!Win8!instance, Resolvers!Win8!client, Resolvers!Win8!win8
<1>1. CASE (Resolvers!Win8!Create /\ UNCHANGED Resolvers!Win8!win8)
  BY <1>1 DEF Resolvers!Win8!Create
<1>2. CASE (Resolvers!Win8!Wait(TRUE) /\ UNCHANGED Resolvers!Win8!win8)
  BY <1>2 DEF Resolvers!Win8!Wait
<1>3. CASE Resolvers!Win8!AskFails
  <2>1. ResolverTypes'
    <3>1. handle' \in BOOLEAN
      BY <1>3 DEF Resolvers!Win8!AskFails, Resolvers!Win8!Ask, Resolvers!Win8!Fails
    <3> QED BY <1>3, <3>1 DEF Resolvers!Win8!AskFails, Resolvers!Win8!Ask, Resolvers!Win8!Fails
  <2>2. Chosen' /\ RequestInv' /\ RefsInv' /\ AttachedInv' /\ ClientStep
    BY <1>3, <2>1 DEF Resolvers!Win8!AskFails, Resolvers!Win8!Ask, Resolvers!Win8!Fails
  <2> QED BY <2>1, <2>2
<1>4. CASE Resolvers!Win8!AskStarts
  BY <1>4 DEF Resolvers!Win8!AskStarts, Resolvers!Win8!Ask
<1>5. CASE Resolvers!Win8!CallbackStores
  BY <1>5
  DEF Resolvers!Win8!CallbackStores, Resolvers!Win8!Gives, Resolvers!Win8!Result,
      Resolvers!Win8!Fails
<1>6. CASE Resolvers!Win8!CallbackSignals
  <2>1. ResolverTypes'
    BY <1>6 DEF Resolvers!Win8!CallbackSignals
  <2>2. Chosen' /\ RequestInv' /\ RefsInv' /\ AttachedInv' /\ ClientStep
    BY <1>6, <2>1 DEF Resolvers!Win8!CallbackSignals
  <2> QED BY <2>1, <2>2
<1>7. CASE Resolvers!Win8!Cancel
  <2>1. ResolverTypes'
    <3>1. handle' \in BOOLEAN
      BY <1>7 DEF Resolvers!Win8!Cancel
    <3> QED BY <1>7, <3>1 DEF Resolvers!Win8!Cancel
  <2>2. Chosen' /\ RequestInv' /\ RefsInv' /\ AttachedInv' /\ ClientStep
    BY <1>7, <2>1 DEF Resolvers!Win8!Cancel
  <2> QED BY <2>1, <2>2
<1>8. CASE Resolvers!Win8!Delete
  BY <1>8 DEF Resolvers!Win8!Delete, Resolvers!Win8!FreeInstance
<1> QED BY <1>1, <1>2, <1>3, <1>4, <1>5, <1>6, <1>7, <1>8 DEF Resolvers!Win8!Next

\* The steps of src/resolver_winxp.c, whose thread is one of the pool.
LEMMA WinxpStep ==
    ASSUME ResolversInv, resolver = "winxp", Resolvers!Winxp!Next,
           UNCHANGED <<system, resolver, Resolvers!win8, Resolvers!winrt, macJob>>
    PROVE  ResolversInv' /\ ClientStep
<1> USE PortsAssumption
    DEF ResolversInv, ResolverTypes, Chosen, RequestInv, RefsInv, AttachedInv, Explained,
        Resolvers!UnderWay, ClientStep, Asks, Works, Ends, Waits, Keeps,
        Resolvers!win8, Resolvers!winrt,
        Resolvers!Winxp!instance, Resolvers!Winxp!client
<1>1. CASE (Resolvers!Winxp!Create /\ UNCHANGED xpJob)
  BY <1>1 DEF Resolvers!Winxp!Create
<1>2. CASE (Resolvers!Winxp!Wait(TRUE) /\ UNCHANGED xpJob)
  BY <1>2 DEF Resolvers!Winxp!Wait
<1>3. CASE Resolvers!Winxp!Spool
  BY <1>3 DEF Resolvers!Winxp!Spool, Resolvers!Winxp!Ask
<1>4. CASE Resolvers!Winxp!Evaluate
  BY <1>4
  DEF Resolvers!Winxp!Evaluate, Resolvers!Winxp!Gives, Resolvers!Winxp!NamedProxy,
      Resolvers!Winxp!Fails
<1>5. CASE Resolvers!Winxp!Signal
  <2>1. ResolverTypes'
    BY <1>5 DEF Resolvers!Winxp!Signal
  <2>2. Chosen' /\ RequestInv' /\ RefsInv' /\ AttachedInv' /\ ClientStep
    BY <1>5, <2>1 DEF Resolvers!Winxp!Signal
  <2> QED BY <2>1, <2>2
<1>6. CASE Resolvers!Winxp!Delete
  BY <1>6 DEF Resolvers!Winxp!Delete, Resolvers!Winxp!FreeInstance
<1> QED BY <1>1, <1>2, <1>3, <1>4, <1>5, <1>6 DEF Resolvers!Winxp!Next

\* The steps of src/resolver_mac.c, whose thread of the pool has a run loop.
LEMMA MacStep ==
    ASSUME ResolversInv, resolver = "mac", Resolvers!Mac!Next,
           UNCHANGED <<system, resolver, Resolvers!win8, Resolvers!winrt, xpJob>>
    PROVE  ResolversInv' /\ ClientStep
<1> USE PortsAssumption
    DEF ResolversInv, ResolverTypes, Chosen, RequestInv, RefsInv, AttachedInv, Explained,
        Resolvers!UnderWay, ClientStep, Asks, Works, Ends, Waits, Keeps,
        Resolvers!win8, Resolvers!winrt,
        Resolvers!Mac!instance, Resolvers!Mac!client
<1>1. CASE (Resolvers!Mac!Create /\ UNCHANGED macJob)
  BY <1>1 DEF Resolvers!Mac!Create
<1>2. CASE (Resolvers!Mac!Wait(FALSE) /\ UNCHANGED macJob)
  BY <1>2 DEF Resolvers!Mac!Wait
<1>3. CASE Resolvers!Mac!Spool
  BY <1>3 DEF Resolvers!Mac!Spool, Resolvers!Mac!Ask
<1>4. CASE Resolvers!Mac!StartScript
  BY <1>4 DEF Resolvers!Mac!StartScript, Resolvers!Mac!Fails
<1>5. CASE Resolvers!Mac!Callback
  BY <1>5 DEF Resolvers!Mac!Callback, Resolvers!Mac!Gives, Resolvers!Mac!Fails
<1>6. CASE Resolvers!Mac!LoopExpires
  BY <1>6 DEF Resolvers!Mac!LoopExpires
<1>7. CASE Resolvers!Mac!Signal
  <2>1. ResolverTypes'
    BY <1>7 DEF Resolvers!Mac!Signal
  <2>2. Chosen' /\ RequestInv' /\ RefsInv' /\ AttachedInv' /\ ClientStep
    BY <1>7, <2>1 DEF Resolvers!Mac!Signal
  <2> QED BY <2>1, <2>2
<1>8. CASE Resolvers!Mac!Delete
  BY <1>8 DEF Resolvers!Mac!Delete, Resolvers!Mac!FreeInstance
<1> QED BY <1>1, <1>2, <1>3, <1>4, <1>5, <1>6, <1>7, <1>8 DEF Resolvers!Mac!Next

\* The steps of src/resolver_winrt.c, whose handler and operation outlive the instance.
LEMMA WinrtStep ==
    ASSUME ResolversInv, resolver = "winrt", Resolvers!Winrt!Next,
           UNCHANGED <<system, resolver, Resolvers!win8, xpJob, macJob>>
    PROVE  ResolversInv' /\ ClientStep
<1> USE PortsAssumption
    DEF ResolversInv, ResolverTypes, Chosen, RequestInv, RefsInv, AttachedInv, Explained,
        Resolvers!UnderWay, ClientStep, Asks, Works, Ends, Waits, Keeps,
        Resolvers!win8, Resolvers!winrt,
        Resolvers!Winrt!instance, Resolvers!Winrt!client, Resolvers!Winrt!winrt
<1>1. CASE (Resolvers!Winrt!Create /\ UNCHANGED Resolvers!Winrt!winrt)
  <2>1. ResolverTypes'
    BY <1>1 DEF Resolvers!Winrt!Create
  <2>2. Chosen' /\ RequestInv'
    BY <1>1, <2>1 DEF Resolvers!Winrt!Create
  <2>3. RefsInv'
    BY <1>1, <2>1 DEF Resolvers!Winrt!Create
  <2>4. AttachedInv'
    BY <1>1, <2>1 DEF Resolvers!Winrt!Create
  <2>5. ClientStep
    BY <1>1 DEF Resolvers!Winrt!Create
  <2> QED BY <2>1, <2>2, <2>3, <2>4, <2>5
<1>2. CASE (Resolvers!Winrt!Wait(TRUE) /\ UNCHANGED Resolvers!Winrt!winrt)
  <2>1. ResolverTypes'
    BY <1>2 DEF Resolvers!Winrt!Wait
  <2>2. Chosen' /\ RequestInv'
    BY <1>2, <2>1 DEF Resolvers!Winrt!Wait
  <2>3. RefsInv'
    BY <1>2, <2>1 DEF Resolvers!Winrt!Wait
  <2>4. AttachedInv'
    BY <1>2, <2>1 DEF Resolvers!Winrt!Wait
  <2>5. ClientStep
    BY <1>2 DEF Resolvers!Winrt!Wait
  <2> QED BY <2>1, <2>2, <2>3, <2>4, <2>5
<1>3. CASE Resolvers!Winrt!AskFails
  <2>1. ResolverTypes'
    BY <1>3 DEF Resolvers!Winrt!AskFails, Resolvers!Winrt!Ask
  <2>2. Chosen' /\ RequestInv'
    BY <1>3, <2>1 DEF Resolvers!Winrt!AskFails, Resolvers!Winrt!Ask
  <2>3. RefsInv'
    BY <1>3, <2>1 DEF Resolvers!Winrt!AskFails, Resolvers!Winrt!Ask
  <2>4. AttachedInv'
    BY <1>3, <2>1 DEF Resolvers!Winrt!AskFails, Resolvers!Winrt!Ask
  <2>5. ClientStep
    BY <1>3 DEF Resolvers!Winrt!AskFails, Resolvers!Winrt!Ask
  <2> QED BY <2>1, <2>2, <2>3, <2>4, <2>5
<1>4. CASE Resolvers!Winrt!AskStartsNothing
  <2>1. ResolverTypes'
    <3>1. attached' \in BOOLEAN
      BY <1>4 DEF Resolvers!Winrt!AskStartsNothing, Resolvers!Winrt!Ask
    <3> QED BY <1>4, <3>1 DEF Resolvers!Winrt!AskStartsNothing, Resolvers!Winrt!Ask
  <2>2. Chosen' /\ RequestInv'
    BY <1>4, <2>1 DEF Resolvers!Winrt!AskStartsNothing, Resolvers!Winrt!Ask
  <2>3. RefsInv'
    BY <1>4, <2>1 DEF Resolvers!Winrt!AskStartsNothing, Resolvers!Winrt!Ask
  <2>4. AttachedInv'
    BY <1>4, <2>1 DEF Resolvers!Winrt!AskStartsNothing, Resolvers!Winrt!Ask
  <2>5. ClientStep
    BY <1>4 DEF Resolvers!Winrt!AskStartsNothing, Resolvers!Winrt!Ask
  <2> QED BY <2>1, <2>2, <2>3, <2>4, <2>5
<1>5. CASE Resolvers!Winrt!AskStarts
  <2>1. ResolverTypes'
    BY <1>5 DEF Resolvers!Winrt!AskStarts, Resolvers!Winrt!Ask
  <2>2. Chosen' /\ RequestInv'
    BY <1>5, <2>1 DEF Resolvers!Winrt!AskStarts, Resolvers!Winrt!Ask
  <2>3. RefsInv'
    BY <1>5, <2>1 DEF Resolvers!Winrt!AskStarts, Resolvers!Winrt!Ask
  <2>4. AttachedInv'
    BY <1>5, <2>1 DEF Resolvers!Winrt!AskStarts, Resolvers!Winrt!Ask
  <2>5. ClientStep
    BY <1>5 DEF Resolvers!Winrt!AskStarts, Resolvers!Winrt!Ask
  <2> QED BY <2>1, <2>2, <2>3, <2>4, <2>5
<1>6. CASE Resolvers!Winrt!Invoke
  <2>1. ResolverTypes'
    BY <1>6 DEF Resolvers!Winrt!Invoke
  <2>2. Chosen' /\ RequestInv'
    BY <1>6, <2>1 DEF Resolvers!Winrt!Invoke
  <2>3. RefsInv'
    BY <1>6, <2>1 DEF Resolvers!Winrt!Invoke
  <2>4. AttachedInv'
    BY <1>6, <2>1 DEF Resolvers!Winrt!Invoke
  <2>5. ClientStep
    BY <1>6 DEF Resolvers!Winrt!Invoke
  <2> QED BY <2>1, <2>2, <2>3, <2>4, <2>5
<1>7. CASE Resolvers!Winrt!Store
  <2>1. ResolverTypes'
    <3>1. silent' \in BOOLEAN /\ broken' \in BOOLEAN
      BY <1>7 DEF Resolvers!Winrt!Store, Resolvers!Winrt!Fails
    <3> QED BY <1>7, <3>1 DEF Resolvers!Winrt!Store, Resolvers!Winrt!Fails
  <2>2. Chosen' /\ RequestInv'
    BY <1>7, <2>1 DEF Resolvers!Winrt!Store, Resolvers!Winrt!Fails
  <2>3. RefsInv'
    BY <1>7, <2>1 DEF Resolvers!Winrt!Store, Resolvers!Winrt!Fails
  <2>4. AttachedInv'
    BY <1>7, <2>1 DEF Resolvers!Winrt!Store, Resolvers!Winrt!Fails
  <2>5. ClientStep
    BY <1>7 DEF Resolvers!Winrt!Store, Resolvers!Winrt!Fails
  <2> QED BY <2>1, <2>2, <2>3, <2>4, <2>5
<1>8. CASE Resolvers!Winrt!Signal
  <2>1. ResolverTypes'
    <3>1. broken' \in BOOLEAN /\ signalled' \in BOOLEAN
      BY <1>8 DEF Resolvers!Winrt!Signal
    <3> QED BY <1>8, <3>1 DEF Resolvers!Winrt!Signal
  <2>2. Chosen' /\ RequestInv'
    BY <1>8, <2>1 DEF Resolvers!Winrt!Signal
  <2>3. RefsInv'
    BY <1>8, <2>1 DEF Resolvers!Winrt!Signal
  <2>4. AttachedInv'
    BY <1>8, <2>1 DEF Resolvers!Winrt!Signal
  <2>5. ClientStep
    BY <1>8 DEF Resolvers!Winrt!Signal
  <2> QED BY <2>1, <2>2, <2>3, <2>4, <2>5
<1>9. CASE Resolvers!Winrt!OperationReleases
  <2>1. ResolverTypes'
    BY <1>9 DEF Resolvers!Winrt!OperationReleases, Resolvers!Winrt!Release
  <2>2. Chosen' /\ RequestInv'
    BY <1>9, <2>1 DEF Resolvers!Winrt!OperationReleases, Resolvers!Winrt!Release
  <2>3. RefsInv'
    BY <1>9, <2>1 DEF Resolvers!Winrt!OperationReleases, Resolvers!Winrt!Release
  <2>4. AttachedInv'
    BY <1>9, <2>1 DEF Resolvers!Winrt!OperationReleases, Resolvers!Winrt!Release
  <2>5. ClientStep
    BY <1>9 DEF Resolvers!Winrt!OperationReleases, Resolvers!Winrt!Release
  <2> QED BY <2>1, <2>2, <2>3, <2>4, <2>5
<1>10. CASE Resolvers!Winrt!Delete
  <2>1. ResolverTypes'
    <3>1. attached' \in BOOLEAN
      BY <1>10 DEF Resolvers!Winrt!Delete, Resolvers!Winrt!FreeInstance, Resolvers!Winrt!Release
    <3> QED BY <1>10, <3>1
        DEF Resolvers!Winrt!Delete, Resolvers!Winrt!FreeInstance, Resolvers!Winrt!Release
  <2>2. Chosen' /\ RequestInv'
    BY <1>10, <2>1 DEF Resolvers!Winrt!Delete, Resolvers!Winrt!FreeInstance, Resolvers!Winrt!Release
  <2>3. RefsInv'
    BY <1>10, <2>1 DEF Resolvers!Winrt!Delete, Resolvers!Winrt!FreeInstance, Resolvers!Winrt!Release
  <2>4. AttachedInv'
    BY <1>10, <2>1 DEF Resolvers!Winrt!Delete, Resolvers!Winrt!FreeInstance, Resolvers!Winrt!Release
  <2>5. ClientStep
    BY <1>10 DEF Resolvers!Winrt!Delete, Resolvers!Winrt!FreeInstance, Resolvers!Winrt!Release
  <2> QED BY <2>1, <2>2, <2>3, <2>4, <2>5
<1> QED BY <1>1, <1>2, <1>3, <1>4, <1>5, <1>6, <1>7, <1>8, <1>9, <1>10 DEF Resolvers!Winrt!Next

\* Every step of the resolvers keeps ResolversInv and is one the client may see.
LEMMA ResolversStep ==
    ASSUME ResolversInv, Resolvers!Next \/ UNCHANGED resolvers
    PROVE  ResolversInv' /\ ClientStep
<1> USE DEF ResolversInv, ResolverTypes, Chosen, RequestInv, RefsInv, AttachedInv, Explained,
            Resolvers!UnderWay, ClientStep, Keeps, Resolvers!client, Resolvers!win8,
            Resolvers!winrt
<1>1. CASE Resolvers!GlobalInit
  <2>1. /\ loaded' = TRUE /\ resolver = "none" /\ resolver' \in Resolvers!Candidates[system]
        /\ UNCHANGED <<system, memory, list, error, signalled, phase, requests, silent>>
        /\ UNCHANGED <<handle, request, operation, handler, refs, attached, seen, broken>>
        /\ UNCHANGED <<xpJob, macJob>>
    BY <1>1 DEF Resolvers!GlobalInit
  <2>2. loaded' \in BOOLEAN
    BY <2>1
  <2>3. ResolverTypes'
    BY <2>1, <2>2
  <2>4. Chosen'
    BY <2>1, PortsAssumption DEF Resolvers!Candidates
  <2>5. memory = "none" /\ phase = "idle"
    BY <2>1
  <2>6. RequestInv'
    BY <2>1, <2>5
  <2>7. RefsInv'
    BY <2>1
  <2>8. AttachedInv'
    BY <2>1
  <2>9. ClientStep
    BY <2>1
  <2> QED BY <2>3, <2>4, <2>6, <2>7, <2>8, <2>9
<1>2. CASE Resolvers!GlobalCleanup
  <2>1. loaded' \in BOOLEAN
    BY <1>2 DEF Resolvers!GlobalCleanup
  <2> QED BY <1>2, <2>1 DEF Resolvers!GlobalCleanup
<1>3. CASE UNCHANGED resolvers
  BY <1>3 DEF resolvers
<1> HIDE DEF ResolversInv, ResolverTypes, Chosen, RequestInv, RefsInv, AttachedInv, ClientStep,
             Resolvers!win8, Resolvers!winrt
<1>4. CASE Resolvers!Next
  BY <1>1, <1>2, <1>4, Win8Step, WinrtStep, WinxpStep, MacStep DEF Resolvers!Next
<1> QED BY <1>3, <1>4

\* The resolvers begin in ResolversInv, and as NativeRequest does.
LEMMA ResolversInit ==
    ASSUME Resolvers!Init
    PROVE  ResolversInv /\ Resolvers!Abstract!Init
<1>1. /\ system \in Systems /\ resolver = "none" /\ loaded = FALSE
      /\ memory = "none" /\ list = NoList /\ error = "none" /\ signalled = FALSE
      /\ phase = "idle" /\ requests = 0 /\ silent = FALSE
      /\ handle = FALSE /\ request = "none"
      /\ operation = "none" /\ handler = "none" /\ refs = 0
      /\ attached = FALSE /\ seen = FALSE /\ broken = FALSE
      /\ xpJob = "none" /\ macJob = "none"
  BY DEF Resolvers!Init, Resolvers!Win8!Init, Resolvers!Win8!InstanceInit, Resolvers!Winrt!Init,
         Resolvers!Winxp!Init, Resolvers!Mac!Init
<1>2. ResolverTypes
  <2>1. /\ loaded \in BOOLEAN /\ signalled \in BOOLEAN /\ silent \in BOOLEAN
        /\ handle \in BOOLEAN /\ attached \in BOOLEAN /\ seen \in BOOLEAN
        /\ broken \in BOOLEAN
    BY <1>1
  <2>2. requests \in 0 .. MaxRequests
    BY <1>1, PortsAssumption
  <2> QED BY <1>1, <2>1, <2>2 DEF ResolverTypes
<1>3. Chosen /\ RequestInv /\ RefsInv /\ AttachedInv
  BY <1>1 DEF Chosen, RequestInv, RefsInv, AttachedInv, Resolvers!UnderWay
<1>4. Resolvers!Abstract!Init
  BY <1>1 DEF Resolvers!Abstract!Init, Resolvers!Phase, Resolvers!Answer, Resolvers!Completed
<1> QED BY <1>2, <1>3, <1>4 DEF ResolversInv

\* ResolversInv holds in every reachable state.
LEMMA ResolversInvariance == Spec => []ResolversInv
<1>1. Init => ResolversInv
  BY ResolversInit DEF Init
<1>2. ResolversInv /\ [Next]_vars => ResolversInv'
  BY ResolversStep DEF Next, vars
<1> QED BY <1>1, <1>2, PTL DEF Spec

\* An application that has its answer before it deletes the instance and cleans up
\* takes neither from the thread that works for it, whatever the system.
THEOREM InstanceSafe == Spec => []InstanceOutlivesRequest
<1>1. ResolversInv => InstanceOutlivesRequest
  <2> SUFFICES ASSUME ResolversInv
               PROVE  InstanceOutlivesRequest
    OBVIOUS
  <2>1. Resolvers!TypeOK
    BY DEF ResolversInv, ResolverTypes, Resolvers!TypeOK,
           Resolvers!Win8!TypeOK, Resolvers!Win8!InstanceTypeOK,
           Resolvers!Winrt!TypeOK, Resolvers!Winrt!InstanceTypeOK,
           Resolvers!Winxp!TypeOK, Resolvers!Winxp!InstanceTypeOK,
           Resolvers!Mac!TypeOK, Resolvers!Mac!InstanceTypeOK
  <2>2. ~Resolvers!DeletedEarly => (Resolvers!UnderWay => memory = "live" /\ loaded) /\ ~broken
    BY DEF ResolversInv, ResolverTypes, RequestInv, AttachedInv, Resolvers!DeletedEarly
  <2> QED BY <2>1, <2>2 DEF InstanceOutlivesRequest, Resolvers!InstanceOutlivesRequest
<1> QED BY <1>1, ResolversInvariance, PTL

\* The handler of WinRT lives exactly as long as the instance or the operation
\* refers to it, whenever the instance is deleted.
THEOREM HandlerSafe == Spec => []HandlerLifetime
<1>1. ResolversInv => HandlerLifetime
  BY DEF ResolversInv, ResolverTypes, RefsInv, HandlerLifetime, Resolvers!HandlerLifetime
<1> QED BY <1>1, ResolversInvariance, PTL

\* A request that was answered has a list or an error, or failed in one of the two
\* ways of which the resolvers keep no trace.
THEOREM AnswersExplained == Spec => []AnswerExplained
<1>1. ResolversInv => AnswerExplained
  BY DEF ResolversInv, RequestInv, Explained, AnswerExplained, Resolvers!AnswerExplained
<1> QED BY <1>1, ResolversInvariance, PTL

\* Every native resolver is what src/resolver.c takes it for: a request completes
\* once, and its list and error stay until the next one.
THEOREM NativeRefinement == Spec => ImplementsNativeRequest
<1>1. Init => Resolvers!Abstract!Init
  BY ResolversInit DEF Init
<1>2. ResolversInv /\ [Next]_vars => [Resolvers!Abstract!Next]_Resolvers!Abstract!vars
  <2> SUFFICES ASSUME ResolversInv, [Next]_vars
               PROVE  [Resolvers!Abstract!Next]_Resolvers!Abstract!vars
    OBVIOUS
  <2>1. ResolversInv' /\ ClientStep
    BY ResolversStep DEF Next, vars
  <2> QED BY <2>1, ClientStepImplements
<1> QED BY <1>1, <1>2, ResolversInvariance, PTL
        DEF Spec, ImplementsNativeRequest, Resolvers!ImplementsNativeRequest,
            Resolvers!Abstract!Spec
===============================================================================

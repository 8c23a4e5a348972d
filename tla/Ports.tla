-------------------------------- MODULE Ports --------------------------------
(***************************************************************************)
(* What the library takes from the system it is built for, beside the      *)
(* thread pool of POSIX: an event, a thread pool of Windows, a native      *)
(* resolver.  The parts share no state and call nothing of one another     *)
(* except as the module of each says, so that a behaviour studies one of   *)
(* them, on its own, and the others stay as they are initially.            *)
(***************************************************************************)
EXTENDS Integers

CONSTANTS Parts,                                            \* the parts to study
          Threads, Timeouts, FirstClock, LastClock,         \* the event
          Spurious, MaxSets,
          Jobs, Polled, Callers, Workers, MaxThreads, NoJob, \* the pools
          Proxies, Direct, NoList, MaxRequests, Systems     \* the resolvers

ASSUME PortsAssumption ==
    /\ Parts \subseteq {"event", "pool", "resolver"}
    /\ Timeouts \subseteq Int /\ FirstClock \in Nat /\ LastClock \in Nat
    /\ Spurious \in BOOLEAN /\ MaxSets \in Nat
    /\ Polled \subseteq Jobs /\ NoJob \notin Jobs /\ MaxThreads \in Nat \ {0}
    /\ MaxRequests \in Nat \ {0}
    /\ Proxies # Direct /\ NoList \notin {Proxies, Direct}
    /\ Systems \subseteq {"desktop", "uwp", "macos"}

VARIABLES
    part,
    \* Event
    ev, now, wait, sets,
    \* WindowsPools
    version,
    stop, num_threads, busy_threads, queue, threads, wakeup_cond, lazy_cond,
    wpc, wjob, cpc, owed, accepted, finished, del,
    first, last, count, next, prev, place, call, subject, added, freed,
    \* PlatformResolvers
    system, resolver,
    loaded, memory, list, error, signalled, phase, requests, silent,
    handle, request, operation, handler, refs, attached, seen, broken,
    xpJob, macJob

Events == INSTANCE Event
Pools == INSTANCE WindowsPools
Resolvers == INSTANCE PlatformResolvers

events == <<ev, now, wait, sets>>
pools == <<version, stop, num_threads, busy_threads, queue, threads, wakeup_cond, lazy_cond,
           wpc, wjob, cpc, owed, accepted, finished, del,
           first, last, count, next, prev, place, call, subject, added, freed>>
resolvers == <<system, resolver, loaded, memory, list, error, signalled, phase, requests, silent,
               handle, request, operation, handler, refs, attached, seen, broken,
               xpJob, macJob>>
vars == <<part, events, pools, resolvers>>

Init ==
    /\ part \in Parts
    /\ Events!Init /\ Pools!Init /\ Resolvers!Init
    \* The choices of the other parts make no difference.
    /\ part # "pool" => version = "vista"
    /\ part # "resolver" => system = CHOOSE s \in Systems : TRUE

Next ==
    /\ UNCHANGED part
    /\ \/ part = "event" /\ Events!Next /\ UNCHANGED <<pools, resolvers>>
       \/ part = "pool" /\ Pools!Next /\ UNCHANGED <<events, resolvers>>
       \/ part = "resolver" /\ Resolvers!Next /\ UNCHANGED <<events, pools>>

\* The threads of every part run; no step of theirs is enabled in a part that is
\* as it was initially.  Time passes where the event is studied.
Spec ==
    /\ Init /\ [][Next]_vars
    /\ WF_events(part = "event" /\ Events!Tick)
    /\ Events!Fairness /\ Pools!Fairness /\ Resolvers!Fairness

-----------------------------------------------------------------------------
\* A set is not lost to the thread it was meant for (src/event_pthread.c).
SetIsNotLost == Events!SetIsNotLost

\* Waits end that were set or have a limit (src/event_pthread.c).
WaitsEnd == Events!WaitsEnd

\* Nothing touches a pool of Windows after it was freed.
FreedPoolUntouched == Pools!FreedPoolUntouched

\* The list of jobs of the Vista pool is whole.
ListIntact == Pools!ListIntact

\* The pool that polls is one that threadpool.h promises.
ImplementsJobPool == Pools!ImplementsJobPool

\* Every job that a pool of Windows accepted runs, threadpool_wait returns and
\* so does threadpool_delete.
CallsReturn == Pools!JobsRun /\ Pools!CallsReturn

\* The thread that works for a native resolver finds its instance.
InstanceOutlivesRequest == Resolvers!InstanceOutlivesRequest

\* The handler of WinRT lives as long as the runtime may invoke it.
HandlerLifetime == Resolvers!HandlerLifetime

\* An answer of a native resolver is a list, or an error explains it.
AnswerExplained == Resolvers!AnswerExplained

\* Every native resolver is one of NativeRequest.
ImplementsNativeRequest == Resolvers!ImplementsNativeRequest

\* Requests to a native resolver end.
RequestsEnd == Resolvers!RequestsEnd
=============================================================================

------------------------------- MODULE Event -------------------------------
(***************************************************************************)
(* One event of src/event_pthread.c, the threads that wait on it and a     *)
(* clock, in milliseconds since 1970 divided by an arbitrary unit.         *)
(*                                                                         *)
(* event_wait builds the deadline it hands to pthread_cond_timedwait from  *)
(* timeout_ms alone.  pthread_cond_timedwait takes an absolute time, so    *)
(* the deadline is timeout_ms after 1970: the model compares it with the   *)
(* clock as the library function does.                                     *)
(***************************************************************************)
EXTENDS Integers, FiniteSets, EventState

CONSTANTS Threads,     \* threads that call event_wait
          Timeouts,    \* the values of timeout_ms they pass; negative: no limit
          FirstClock,  \* the clock when the event is created
          LastClock,   \* bound on the clock
          Spurious,    \* whether a condition variable may wake spuriously
          MaxSets      \* bound on the calls of event_set

VARIABLES ev,       \* the event
          now,      \* the clock
          wait,     \* wait[t]: the call of event_wait t is in, or its result
          sets      \* history: how often event_set was called

vars == <<ev, now, wait, sets>>

\* What a thread is doing: nothing yet, waiting with a timeout since some
\* time, or done with a result.
Idle == [at |-> "idle"]
Waiting(timeout, since) == [at |-> "waiting", timeout |-> timeout, since |-> since]
Done(call, result) ==
    [at |-> "done", timeout |-> call.timeout, since |-> call.since, result |-> result]

Init ==
    /\ ev = NewEvent
    /\ now = FirstClock
    /\ wait = [t \in Threads |-> Idle]
    /\ sets = 0

Tick ==
    /\ now < LastClock
    /\ now' = now + 1
    /\ UNCHANGED <<ev, wait, sets>>

Set ==
    /\ sets < MaxSets
    /\ ev' \in EventSet(ev)
    /\ sets' = sets + 1
    /\ UNCHANGED <<now, wait>>

\* event_wait, up to the return or to pthread_cond_wait.
WaitSignalled(t, timeout) ==
    /\ wait[t].at # "waiting"
    /\ ev.signalled
    /\ wait' = [wait EXCEPT ![t] = Done(Waiting(timeout, now), TRUE)]
    /\ UNCHANGED <<ev, now, sets>>

WaitSleep(t, timeout) ==
    /\ wait[t].at # "waiting"
    /\ ~ev.signalled
    /\ ev' = EventSleep(ev, t)
    /\ wait' = [wait EXCEPT ![t] = Waiting(timeout, now)]
    /\ UNCHANGED <<now, sets>>

\* event_wait, from the return of pthread_cond_wait to its own.
Resume(t) ==
    /\ t \in ev.woken
    /\ ev' = EventResume(ev, t)
    /\ wait' = [wait EXCEPT ![t] = Done(wait[t], TRUE)]
    /\ UNCHANGED <<now, sets>>

\* timeout_ms, split into seconds and nanoseconds, is the absolute deadline.
Deadline(call) == call.timeout

Expire(t) ==
    /\ t \in ev.asleep
    /\ wait[t].timeout >= 0
    /\ now >= Deadline(wait[t])
    /\ ev' = EventExpire(ev, t)
    /\ wait' = [wait EXCEPT ![t] = Done(wait[t], FALSE)]
    /\ UNCHANGED <<now, sets>>

SpuriousWakeup(t) ==
    /\ Spurious
    /\ t \in ev.asleep
    /\ ev' = Awaken(ev, t)
    /\ UNCHANGED <<now, wait, sets>>

Next ==
    \/ Tick
    \/ Set
    \/ \E t \in Threads :
          \/ \E timeout \in Timeouts : WaitSignalled(t, timeout) \/ WaitSleep(t, timeout)
          \/ Resume(t)
          \/ Expire(t)
          \/ SpuriousWakeup(t)

Spec == Init /\ [][Next]_vars

\* The threads run; nobody has to set the event or to wait.
Fairness == \A t \in Threads : WF_vars(Resume(t)) /\ WF_vars(Expire(t))

-----------------------------------------------------------------------------
\* A set is not lost to the thread it was meant for: once event_set was called,
\* the one thread that waits is neither asleep nor can it fall asleep, whether
\* it came before or after the set.
SetIsNotLost == sets > 0 => ev.asleep = {} /\ ev.signalled

\* A thread gets out of event_wait once the event was set, and out of a wait with
\* a limit whether it was set or not.
WaitsEnd ==
    \A t \in Threads :
        (wait[t].at = "waiting" /\ (sets > 0 \/ wait[t].timeout >= 0)) ~> wait[t].at = "done"

\* proxy_resolver_wait gives up only when the milliseconds it was given passed.
FalseMeansElapsed ==
    [][\A t \in Threads :
          wait[t].at = "waiting" /\ wait'[t].at = "done" /\ ~wait'[t].result
             => now - wait[t].since >= wait[t].timeout]_vars
=============================================================================

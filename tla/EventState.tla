----------------------------- MODULE EventState -----------------------------
(***************************************************************************)
(* The completion event of src/event_pthread.c as a value: the flag and    *)
(* the threads inside pthread_cond_wait or pthread_cond_timedwait.  A      *)
(* thread in "asleep" is in the wait set, one in "woken" was taken out of  *)
(* it, by a signal or spuriously, and has yet to lock the mutex again.     *)
(* Each operator is one critical section of the event's mutex and returns  *)
(* the set of states it may lead to.                                       *)
(***************************************************************************)
EXTENDS Naturals

EventStates(threads) ==
    [signalled : BOOLEAN, asleep : SUBSET threads, woken : SUBSET threads]

\* event_create.
NewEvent == [signalled |-> FALSE, asleep |-> {}, woken |-> {}]

\* Taking t out of the wait set of event e.
Awaken(e, t) == [e EXCEPT !.asleep = @ \ {t}, !.woken = @ \cup {t}]

\* Mutant: an event that only signals, so that a set nobody waits for is lost.
EventSet_Lost(e) ==
    IF e.asleep = {} THEN {e} ELSE {Awaken(e, t) : t \in e.asleep}

\* Mutant: the flag is raised but nobody is signalled.
EventSet_FlagOnly(e) == {[e EXCEPT !.signalled = TRUE]}

\* event_set: pthread_cond_signal wakes one thread if there is one, then the
\* flag is raised.  Nothing in the code ever lowers it.
EventSet(e) ==
    LET signal == IF e.asleep = {} THEN {e} ELSE {Awaken(e, t) : t \in e.asleep}
    IN  {[s EXCEPT !.signalled = TRUE] : s \in signal}

\* event_wait on an event that is not signalled: the thread goes to sleep.
EventSleep(e, t) == [e EXCEPT !.asleep = @ \cup {t}]

\* pthread_cond_wait returns 0, whatever woke it.  There is no loop around it:
\* the event counts as signalled from then on and event_wait returns true.
EventResume(e, t) == [e EXCEPT !.woken = @ \ {t}, !.signalled = TRUE]

\* pthread_cond_timedwait returns ETIMEDOUT: event_wait returns false.
EventExpire(e, t) == [e EXCEPT !.asleep = @ \ {t}]
=============================================================================

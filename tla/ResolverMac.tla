----------------------------- MODULE ResolverMac -----------------------------
(***************************************************************************)
(* src/resolver_mac.c: CFNetwork evaluates the script from a run loop that *)
(* the thread of the pool runs for at most ten seconds; its callback       *)
(* stores the result on that same thread.                                  *)
(***************************************************************************)
EXTENDS NativeInstance

VARIABLE job   \* "none", "queued", "loop" in the run loop, "stored" when the event is next

vars == <<instance, client, job>>

Init == InstanceInit /\ job = "none"

-----------------------------------------------------------------------------
Spool ==
    /\ Ask(FALSE)
    /\ job' = "queued"
    /\ UNCHANGED <<instance, silent>>

\* No automatic configuration url, no memory for a url, or CFNetwork refuses;
\* else its source is added to the run loop.
StartScript ==
    /\ job = "queued"
    /\ \/ job' = "stored" /\ Fails
       \/ job' = "loop" /\ UNCHANGED <<list, error>>
    /\ UNCHANGED <<loaded, memory, signalled, client>>

\* proxy_resolver_mac_auto_config_result_callback: the proxies, or an error for
\* the script, for a list that is too long and for no memory; the loop stops.
Callback ==
    /\ job = "loop"
    /\ job' = "stored"
    /\ \/ \E l \in {Proxies, Direct} : Gives(l)
       \/ Fails
       \/ list' = NoList /\ error' = "failed"
    /\ UNCHANGED <<loaded, memory, signalled, client>>

\* The ten seconds are over and the source is taken out: no list, no error.
LoopExpires ==
    /\ job = "loop"
    /\ job' = "stored"
    /\ silent' = TRUE
    /\ UNCHANGED <<instance, phase, requests>>

Signal ==
    /\ job = "stored"
    /\ job' = "none"
    /\ signalled' = TRUE
    /\ UNCHANGED <<loaded, memory, list, error, client>>

Delete == FreeInstance /\ UNCHANGED job

Next ==
    \/ (Create \/ Wait(FALSE)) /\ UNCHANGED job
    \/ Spool \/ StartScript \/ Callback \/ LoopExpires \/ Signal
    \/ Delete

\* The run loop has a limit, so it ends.
Fairness == WF_vars(StartScript) /\ WF_vars(Callback \/ LoopExpires) /\ WF_vars(Signal)

TypeOK == InstanceTypeOK /\ job \in {"none", "queued", "loop", "stored"}
=============================================================================

---------------------------- MODULE ResolverWinxp ----------------------------
(***************************************************************************)
(* src/resolver_winxp.c: WinHttpGetProxyForUrl on a thread of the pool,    *)
(* to which src/resolver.c hands the request.                              *)
(***************************************************************************)
EXTENDS NativeInstance

VARIABLE job   \* "none", "queued", or "stored" when the event is next

vars == <<instance, client, job>>

Init == InstanceInit /\ job = "none"

-----------------------------------------------------------------------------
Spool ==
    /\ Ask(TRUE)
    /\ job' = "queued"
    /\ UNCHANGED <<instance, silent>>

\* Mutant: the list is not needed when the url is not bypassed, and no error
\* reported instead.
NamedProxy_Silent(bypassed) ==
    LET first == IF bypassed THEN Direct ELSE list
    IN  IF first = NoList
        THEN list' = NoList /\ error' = error
        ELSE (list' = Proxies /\ error' = error) \/ (list' = NoList /\ error' = "failed")

\* A named proxy.  A bypassed url gets a direct connection first, but the proxy
\* is converted to a list exactly when there is a list already; without one the
\* request fails.
NamedProxy(bypassed) ==
    LET first == IF bypassed THEN Direct ELSE list
    IN  IF first = NoList
        THEN Fails
        ELSE (list' = Proxies /\ error' = error) \/ (list' = NoList /\ error' = "failed")

\* No memory, or an error of WinHTTP, logged on or not; no proxy, which is also
\* what failed autodetection stands for; a named proxy.
Evaluate ==
    /\ job = "queued"
    /\ job' = "stored"
    /\ Fails \/ Gives(Direct) \/ \E bypassed \in BOOLEAN : NamedProxy(bypassed)
    /\ UNCHANGED <<loaded, memory, signalled, client>>

\* Mutant: the instance is used after the event.
Signal_Early ==
    /\ job = "stored" /\ ~signalled
    /\ signalled' = TRUE
    /\ UNCHANGED <<loaded, memory, list, error, client, job>>

Signal ==
    /\ job = "stored"
    /\ job' = "none"
    /\ signalled' = TRUE
    /\ UNCHANGED <<loaded, memory, list, error, client>>

\* Cancel has nothing to close: the handle of the instance is never opened.
Delete == FreeInstance /\ UNCHANGED job

Next ==
    \/ (Create \/ Wait(TRUE)) /\ UNCHANGED job
    \/ Spool \/ Evaluate \/ Signal
    \/ Delete

Fairness == WF_vars(Evaluate) /\ WF_vars(Signal)

TypeOK == InstanceTypeOK /\ job \in {"none", "queued", "stored"}
=============================================================================

---------------------------- MODULE ResolverWin8 ----------------------------
(***************************************************************************)
(* src/resolver_win8.c: WinHttpGetProxyForUrlEx runs the request on a      *)
(* thread of WinHTTP, which ends it with the status callback.              *)
(***************************************************************************)
EXTENDS NativeInstance

VARIABLES
    handle,     \* proxy_resolver->resolver is open
    operation   \* "none", "pending" in WinHTTP, or "stored" in the callback

win8 == <<handle, operation>>
vars == <<instance, client, win8>>

Init == InstanceInit /\ handle = FALSE /\ operation = "none"

-----------------------------------------------------------------------------
\* get_proxies_for_url gives up: no memory, no handle for the request or no
\* callback on it, or WinHTTP refuses, logging on or not.
AskFails ==
    /\ Ask(TRUE)
    /\ Fails
    /\ handle' \in {handle, TRUE}
    /\ signalled' = TRUE
    /\ UNCHANGED <<loaded, memory, silent, operation>>

\* ERROR_IO_PENDING, at the second attempt if the first asks for a logon.
AskStarts ==
    /\ Ask(TRUE)
    /\ handle' = TRUE
    /\ operation' = "pending"
    /\ UNCHANGED <<loaded, memory, list, error, signalled, silent>>

\* WinHttpGetProxyResult and what is built from it.
Result ==
    \/ handle /\ list' \in {Proxies, Direct} /\ error' = "none"
    \/ handle /\ list' = NoList /\ error' = "failed"
    \/ Fails

\* Mutant: the event is set before the list is there.
CallbackStores_Late ==
    /\ \/ /\ operation = "pending" /\ operation' = "stored"
          /\ signalled' = TRUE
          /\ UNCHANGED <<list, error>>
       \/ /\ operation = "stored" /\ operation' = "none"
          /\ Gives(Direct) \/ Result
          /\ UNCHANGED signalled
    /\ UNCHANGED <<loaded, memory, handle, client>>

\* The status callback up to the event: autodetection that fails is no error.
CallbackStores ==
    /\ operation = "pending"
    /\ operation' = "stored"
    /\ Gives(Direct) \/ Result
    /\ UNCHANGED <<loaded, memory, signalled, handle, client>>

\* Mutant: only a request that succeeds is reported.
CallbackSignals_OnSuccess ==
    /\ operation = "stored"
    /\ operation' = "none"
    /\ signalled' = (error = "none")
    /\ UNCHANGED <<loaded, memory, list, error, handle, client>>

CallbackSignals ==
    /\ operation = "stored"
    /\ operation' = "none"
    /\ signalled' = TRUE
    /\ UNCHANGED <<loaded, memory, list, error, handle, client>>

\* WinHTTP ends a request whose handle is closed with the callback, too.
Cancel ==
    /\ memory = "live" /\ handle
    /\ handle' = FALSE
    /\ UNCHANGED <<instance, client, operation>>

\* delete passes cancel the address of its argument, not the instance: the
\* handle stays open, and nothing waits for the callback.
Delete == FreeInstance /\ UNCHANGED win8

Next ==
    \/ (Create \/ Wait(TRUE)) /\ UNCHANGED win8
    \/ AskFails \/ AskStarts
    \/ CallbackStores \/ CallbackSignals
    \/ Cancel \/ Delete

Fairness ==
    WF_vars(CallbackStores) /\ WF_vars(CallbackSignals)

TypeOK == InstanceTypeOK /\ handle \in BOOLEAN /\ operation \in {"none", "pending", "stored"}
=============================================================================

---------------------------- MODULE ResolverWinrt ----------------------------
(***************************************************************************)
(* src/resolver_winrt.c: an asynchronous operation of the Windows runtime, *)
(* whose end invokes a handler.  The handler is an object of its own, with *)
(* a reference of the instance and one of the operation, and points back   *)
(* to the instance until that is deleted.                                  *)
(***************************************************************************)
EXTENDS NativeInstance

VARIABLES
    operation,  \* "none", "unstarted" when it will never be, "pending", then in
                \* the handler "invoked" and "stored", and "over"
    handler,    \* complete_handler: "none", "live" or "freed"
    refs,       \* its ref_count
    attached,   \* its proxy_resolver is the instance
    seen,       \* what the handler that was invoked read there
    broken      \* history: the handler went to an instance that is not there

winrt == <<operation, handler, refs, attached, seen, broken>>
vars == <<instance, client, winrt>>

Init ==
    /\ InstanceInit
    /\ operation = "none" /\ handler = "none" /\ refs = 0
    /\ attached = FALSE /\ seen = FALSE /\ broken = FALSE

-----------------------------------------------------------------------------
\* No memory for the uri or the handler: the error that is set is replaced by
\* the result of the call before, which was a success.
AskFails ==
    /\ Ask(FALSE)
    /\ error' = "none" /\ silent' = TRUE
    /\ signalled' = TRUE
    /\ UNCHANGED <<loaded, memory, list, winrt>>

\* The factory, the operation or its handler cannot be had: get_proxies_for_url
\* returns true all the same, and nothing will set the event.
AskStartsNothing ==
    /\ Ask(FALSE)
    /\ operation' = "unstarted"
    /\ \/ UNCHANGED <<handler, refs, attached>>
       \/ handler' = "live" /\ refs' = 1 /\ attached' = TRUE
    /\ UNCHANGED <<loaded, memory, list, error, signalled, silent, seen, broken>>

\* put_Completed adds the reference of the operation.
AskStarts ==
    /\ Ask(FALSE)
    /\ operation' = "pending"
    /\ handler' = "live" /\ refs' = 2 /\ attached' = TRUE
    /\ UNCHANGED <<loaded, memory, list, error, signalled, silent, seen, broken>>

\* async_complete_handler_invoke reads the instance of the handler, ...
Invoke ==
    /\ operation = "pending"
    /\ operation' = "invoked"
    /\ seen' = attached
    /\ UNCHANGED <<instance, client, handler, refs, attached, broken>>

\* ... stores list and error in it, ...  The error is the result of the last call,
\* of a proxy that could not be had or of a success before memory ran out.
Store ==
    /\ operation = "invoked"
    /\ operation' = "stored"
    /\ IF seen /\ memory = "live"
       THEN /\ \/ list' \in {Proxies, Direct} /\ error' = "none" /\ UNCHANGED silent
               \/ list' = Proxies /\ error' = "failed" /\ UNCHANGED silent
               \/ Fails /\ UNCHANGED silent
               \/ list' = NoList /\ error' = "none" /\ silent' = TRUE
            /\ UNCHANGED broken
       ELSE broken' = TRUE /\ UNCHANGED <<list, error, silent>>
    /\ UNCHANGED <<loaded, memory, signalled, phase, requests, handler, refs, attached, seen>>

\* ... and sets its event.
Signal ==
    /\ operation = "stored"
    /\ operation' = "over"
    /\ IF seen /\ memory = "live"
       THEN signalled' = TRUE /\ UNCHANGED broken
       ELSE broken' = TRUE /\ UNCHANGED signalled
    /\ UNCHANGED <<loaded, memory, list, error, client, handler, refs, attached, seen>>

\* async_complete_handler_release.
Release ==
    /\ refs' = refs - 1
    /\ handler' = IF refs = 1 THEN "freed" ELSE handler

\* The runtime drops its reference once the handler returned.
OperationReleases ==
    /\ operation = "over" /\ refs > 0
    /\ operation' = "none"
    /\ Release
    /\ UNCHANGED <<instance, client, attached, seen, broken>>

\* Mutant: the reference of the instance is never given back.
Delete_KeepsReference ==
    /\ FreeInstance
    /\ attached' = FALSE
    /\ UNCHANGED <<operation, handler, refs, seen, broken>>

\* Delete detaches the handler.  Its reference is given back if the field async
\* is not NULL, which is uninitialized when the operation was not created.
Delete ==
    /\ FreeInstance
    /\ attached' = FALSE
    /\ IF handler = "live"
       THEN Release \/ (operation = "unstarted" /\ UNCHANGED <<refs, handler>>)
       ELSE UNCHANGED <<refs, handler>>
    /\ UNCHANGED <<operation, seen, broken>>

Next ==
    \/ (Create \/ Wait(TRUE)) /\ UNCHANGED winrt
    \/ AskFails \/ AskStartsNothing \/ AskStarts
    \/ Invoke \/ Store \/ Signal \/ OperationReleases
    \/ Delete

Fairness ==
    /\ WF_vars(Invoke) /\ WF_vars(Store) /\ WF_vars(Signal)
    /\ WF_vars(OperationReleases)

TypeOK ==
    /\ InstanceTypeOK
    /\ operation \in {"none", "unstarted", "pending", "invoked", "stored", "over"}
    /\ handler \in {"none", "live", "freed"} /\ refs \in 0 .. 2
    /\ attached \in BOOLEAN /\ seen \in BOOLEAN /\ broken \in BOOLEAN
=============================================================================

--------------------------- MODULE NativeInstance ---------------------------
(***************************************************************************)
(* What the resolvers of src/resolver_win8.c, _winrt.c, _winxp.c and       *)
(* _mac.c have in common: an instance with a list, an error and a          *)
(* completion event, and the functions create, wait, get_list and delete,  *)
(* which are the same code in each.  One application thread uses the       *)
(* instance and may delete it at any time. strdup("direct://") has its     *)
(* memory; other allocations may fail.                                     *)
(***************************************************************************)
EXTENDS Naturals

CONSTANTS Proxies,      \* the list of proxies that the system gives
          Direct,       \* the list "direct://"
          NoList,       \* NULL
          MaxRequests   \* bound on the requests of the instance

VARIABLES
    loaded,     \* the session or the libraries of the global structure are there
    memory,     \* the instance: "none", "live" or "freed"
    list, error,
    signalled,  \* the event
    phase,      \* "idle", "asked", or "answered" once wait returned true
    requests,   \* history: how many times the instance was asked
    silent      \* history: the code dropped the error of the request

instance == <<loaded, memory, list, error, signalled>>
client == <<phase, requests, silent>>

InstanceInit ==
    /\ memory = "none" /\ list = NoList /\ error = "none" /\ signalled = FALSE
    /\ phase = "idle" /\ requests = 0 /\ silent = FALSE

Create ==
    /\ loaded /\ memory = "none"
    /\ memory' = "live"
    /\ UNCHANGED <<loaded, list, error, signalled, client>>

\* The next request; again is whether an instance may be asked again.
Ask(again) ==
    /\ memory = "live"
    /\ phase = "idle" \/ (again /\ phase = "answered")
    /\ requests < MaxRequests
    /\ phase' = "asked" /\ requests' = requests + 1

\* The outcome of a request: its list, or an error beside the list there was.
Gives(l) == list' = l /\ error' = error
Fails == list' = list /\ error' = "failed"

\* event_wait returns true; the event of Windows resets itself, the one of
\* src/event_pthread.c stays.
Wait(resets) ==
    /\ memory = "live" /\ phase = "asked" /\ signalled
    /\ phase' = "answered"
    /\ signalled' = ~resets
    /\ UNCHANGED <<loaded, memory, list, error, requests, silent>>

\* Delete looks at no request: it frees the instance, answered or not.  What
\* the request does afterwards goes to memory that is not there any more.
FreeInstance ==
    /\ memory = "live" /\ memory' = "freed"
    /\ UNCHANGED <<loaded, list, error, signalled, client>>

\* The application did not wait for the answer.
DeletedEarly == memory = "freed" /\ phase = "asked"

InstanceTypeOK ==
    /\ loaded \in BOOLEAN
    /\ memory \in {"none", "live", "freed"}
    /\ list \in {Proxies, Direct, NoList} /\ error \in {"none", "failed"}
    /\ signalled \in BOOLEAN
    /\ phase \in {"idle", "asked", "answered"}
    /\ requests \in 0 .. MaxRequests /\ silent \in BOOLEAN
=============================================================================

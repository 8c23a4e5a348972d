-------------------------- MODULE PlatformResolvers --------------------------
(***************************************************************************)
(* The native resolver that proxy_resolver_global_init of src/resolver.c   *)
(* takes for the system it runs on, with one instance of it and the        *)
(* application that owns the instance.                                     *)
(***************************************************************************)
EXTENDS NativeInstance

CONSTANT Systems   \* systems: "desktop" and "uwp" of Windows, "macos"

VARIABLES
    system, resolver,
    handle, request,                                       \* win8
    operation, handler, refs, attached, seen, broken,      \* winrt
    xpJob,                                                 \* winxp
    macJob                                                 \* mac

Win8 == INSTANCE ResolverWin8 WITH operation <- request
Winrt == INSTANCE ResolverWinrt
Winxp == INSTANCE ResolverWinxp WITH job <- xpJob
Mac == INSTANCE ResolverMac WITH job <- macJob

win8 == <<handle, request>>
winrt == <<operation, handler, refs, attached, seen, broken>>
vars == <<system, resolver, instance, client, win8, winrt, xpJob, macJob>>

Init ==
    /\ system \in Systems
    /\ resolver = "none" /\ loaded = FALSE
    /\ Win8!Init /\ Winrt!Init /\ Winxp!Init /\ Mac!Init

\* The resolvers that the build for a system has, one of which initializes: on
\* the desktop, that for Windows XP when the library lacks what Windows 8 brought.
\* Linux has none: the one of GNOME 3 is commented out and posix takes its place.
Candidates ==
    [desktop |-> {"win8", "winxp"}, uwp |-> {"winrt"}, macos |-> {"mac"}]

GlobalInit ==
    /\ resolver = "none"
    /\ resolver' \in Candidates[system]
    /\ loaded' = TRUE
    /\ UNCHANGED <<system, memory, list, error, signalled, client, win8, winrt, xpJob, macJob>>

\* The application is through with its instance.
GlobalCleanup ==
    /\ loaded /\ memory # "live"
    /\ loaded' = FALSE
    /\ UNCHANGED <<system, resolver, memory, list, error, signalled, client, win8, winrt, xpJob, macJob>>

Next ==
    \/ GlobalInit \/ GlobalCleanup
    \/ /\ resolver = "win8" /\ Win8!Next
       /\ UNCHANGED <<system, resolver, winrt, xpJob, macJob>>
    \/ /\ resolver = "winrt" /\ Winrt!Next
       /\ UNCHANGED <<system, resolver, win8, xpJob, macJob>>
    \/ /\ resolver = "winxp" /\ Winxp!Next
       /\ UNCHANGED <<system, resolver, win8, winrt, macJob>>
    \/ /\ resolver = "mac" /\ Mac!Next
       /\ UNCHANGED <<system, resolver, win8, winrt, xpJob>>

\* The threads of WinHTTP, of the runtime and of the pool run.
Fairness ==
    /\ Win8!Fairness /\ Winrt!Fairness /\ Winxp!Fairness /\ Mac!Fairness

-----------------------------------------------------------------------------
TypeOK ==
    /\ system \in Systems /\ resolver \in {"none"} \cup Candidates[system]
    /\ Win8!TypeOK /\ Winrt!TypeOK /\ Winxp!TypeOK /\ Mac!TypeOK

Answers == [list : {Proxies, Direct, NoList}, error : {"none", "failed"}]
Completed == phase = "answered" \/ (phase = "asked" /\ signalled)

Phase == IF Completed THEN "complete" ELSE phase
Answer == IF Completed THEN [list |-> list, error |-> error] ELSE NoList

Abstract ==
    INSTANCE NativeRequest WITH NoAnswer <- NoList, phase <- Phase, answer <- Answer

\* Each native resolver is what src/resolver.c takes it for: once a request has
\* completed, list and error do not change until the next one.
ImplementsNativeRequest == Abstract!Spec

\* Some thread other than the application's is on its way to the instance.
UnderWay ==
    \/ request # "none" \/ operation \in {"pending", "invoked", "stored"}
    \/ xpJob # "none" \/ macJob # "none"

\* An application that has its answer before it deletes and cleans up does not
\* take the instance or the session from the thread that works for it.
InstanceOutlivesRequest ==
    TypeOK /\ (~DeletedEarly => (UnderWay => memory = "live" /\ loaded) /\ ~broken)

\* The handler of WinRT lives as long as the runtime may invoke it, and no
\* longer than instance and operation do, whenever the instance is deleted.
HandlerLifetime ==
    operation # "unstarted" /\ requests > 0 /\ handler # "none" =>
        (handler = "live" <=> memory = "live" \/ operation # "none")

\* A client that waited has a list or an error, unless WinRT dropped the error
\* or the run loop of macOS reached its limit.
AnswerExplained == phase = "answered" => list # NoList \/ error # "none" \/ silent

\* Every request completes, cancelled or not, unless WinRT never started it or
\* its instance is deleted.
RequestsEnd ==
    phase = "asked" ~> (phase # "asked" \/ signalled \/ operation = "unstarted" \/ memory = "freed")
=============================================================================

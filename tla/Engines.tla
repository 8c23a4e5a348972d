------------------------------ MODULE Engines ------------------------------
(***************************************************************************)
(* The engines that evaluate PAC scripts, src/execute_jsc.c and            *)
(* src/execute_jscore.c, under the reference counts of Lifecycle: a shared *)
(* library that the first evaluation loads, and the values that an         *)
(* evaluation makes and releases.  Evaluations run on threads of their     *)
(* own, those of the resolver's pool or of users of proxy_execute, and     *)
(* nothing keeps them from running at the same time.                       *)
(*                                                                         *)
(* A step is what an evaluation does between two accesses to what the      *)
(* evaluations share.  That is the table of native functions of            *)
(* execute_jsc.c, a static variable of its get_proxies_for_url, whose      *)
(* values stay there when the evaluation is over.  What a function of the  *)
(* engine's library returns, or whether it fails, is a choice; a value is  *)
(* the evaluation that made it and what it is.  A process has more that    *)
(* matters here:                                                           *)
(*    engine       the one it was built with                               *)
(*    installed    whether there is a library                              *)
(*    offers       how many of the functions are found until one is not    *)
(*    evaluations  those that it makes                                     *)
(*    failures     a function of the library may fail                      *)
(***************************************************************************)
EXTENDS Lifecycle

CONSTANTS Evaluations,
          Owner,     \* Owner[e]: the user for whom e runs
          Needed,    \* the number of functions that an engine looks up
          Hooks,     \* the number of native functions that a script may call
          NoValue    \* NULL

Value(e, what) == [by |-> e, what |-> what]
Global(e) == Value(e, <<"global", 0>>)
Function(e, k) == Value(e, <<"function", k>>)
Result(e, n) == Value(e, <<"result", n>>)
Values == [by : Evaluations,
           what : {<<"global", 0>>} \cup ({"function"} \X (1 .. Hooks)) \cup ({"result"} \X (1 .. 3))]

ASSUME EnginesAssumption ==
    /\ Owner \in [Evaluations -> {u \in Users : Kind[u] # "config"}]
    /\ Needed \in Nat \ {0} /\ Hooks \in Nat \ {0}
    /\ NoValue \notin Values
    /\ \A p \in Processes :
          /\ p.engine \in {"jsc", "jscore"} /\ p.offers \in 0 .. Needed
          /\ p.evaluations \subseteq Evaluations
          /\ {p.installed, p.failures} \subseteq BOOLEAN

VARIABLES
    library,  \* g_proxy_execute_jsc or g_proxy_execute_jscore, and its pthread_once_t
    table,    \* the static functions[].value of execute_jsc.c
    pc,       \* the next step of an evaluation
    hook,     \* its loop variable
    result,   \* the script whose result it holds, 0 for NULL
    made,     \* the values that the library made
    released, \* how often each was released
    failed,   \* history: an initialization failed, or a part of one
    disturbed \* history: the evaluations that shared the table of execute_jsc.c

values == <<made, released>>
run == <<table, hook, result, values>>
history == <<failed, disturbed>>
engineVars == <<vars, library, pc, run, history>>

Unloaded == [module |-> FALSE, found |-> 0, once |-> "fresh"]

EnginesInit ==
    /\ Init
    /\ library = Unloaded
    /\ table = [k \in 1 .. Hooks |-> NoValue]
    /\ pc = [e \in Evaluations |-> IF e \in process.evaluations THEN "create" ELSE "done"]
    /\ hook = [e \in Evaluations |-> 1]
    /\ result = [e \in Evaluations |-> 0]
    /\ made = {}
    /\ released = [v \in Values |-> 0]
    /\ failed = FALSE
    /\ disturbed = {}

Running == {e \in Evaluations : pc[e] \notin {"create", "done"}}
Jsc == process.engine = "jsc"

-----------------------------------------------------------------------------
\* Whoever gives away the last count unloads the library: that of JSCore is closed,
\* that of JSC stays as it is.
TakesEngine ==
    library' = IF ~Jsc /\ g.executeI /\ ~g'.executeI THEN Unloaded ELSE library

InitializeUser(u) ==
    /\ Initialize(u) /\ TakesEngine
    /\ failed' = (failed \/ g' # CallInit(Kind[u], g, AllSucceed).globals)
    /\ UNCHANGED <<pc, run, disturbed>>

\* Nobody cleans up while an evaluation of its own runs, as the resolver joins the
\* threads of its pool before.
CleanupUser(u) ==
    /\ \A e \in Running : Owner[e] # u
    /\ Cleanup(u) /\ TakesEngine
    /\ UNCHANGED <<pc, run, history>>

OverrideConfig(o) == Override(o) /\ UNCHANGED <<library, pc, run, history>>

\* The delayed initialization.  If a function is missing, JSC keeps the library and
\* the functions that it found before; ...
JscLoaded == {[module |-> TRUE, found |-> process.offers, once |-> "done"]}

\* ... JSCore closes the library and resets the flag within the pthread_once that may
\* set it afterwards.
JscoreLoaded ==
    IF process.offers = Needed
    THEN {[module |-> TRUE, found |-> Needed, once |-> "done"]}
    ELSE {[Unloaded EXCEPT !.once = flag] : flag \in {"fresh", "done"}}

Loaded ==
    CASE ~process.installed -> {[Unloaded EXCEPT !.once = "done"]}
      [] process.installed /\ Jsc -> JscLoaded
      [] process.installed /\ ~Jsc -> JscoreLoaded

\* Evaluations of JSC that run at the same time share the table.
Overlaps(e) ==
    disturbed' = IF Jsc /\ Running # {} THEN disturbed \cup Running \cup {e} ELSE disturbed

\* proxy_execute_create, which has no interface to call if somebody else's failing
\* initialization gave away the count of the engine.
Create(e) ==
    /\ pc[e] = "create" /\ Owner[e] \in holding
    /\ library' \in IF g.executeI /\ library.once = "fresh" THEN Loaded ELSE {library}
    /\ IF g.executeI /\ library'.module
       THEN pc' = [pc EXCEPT ![e] = "global"] /\ Overlaps(e)
       ELSE pc' = [pc EXCEPT ![e] = "done"] /\ UNCHANGED disturbed
    /\ UNCHANGED <<vars, run, failed>>

-----------------------------------------------------------------------------
Goto(e, step) == pc' = [pc EXCEPT ![e] = step]
Make(v) == made' = made \cup {v}
Release(v) == released' = [released EXCEPT ![v] = @ + 1]

\* Steps of an evaluation; a call of a function that was not found is its last.
At(e, step) ==
    /\ pc[e] = step /\ library.found = Needed
    /\ UNCHANGED <<vars, library, failed>>

\* An evaluation that fails cleans up.
Fails(e) == Goto(e, "clean") /\ hook' = [hook EXCEPT ![e] = 1]

\* On JSC that releases what an evaluation before left in the table from the k-th on.
Stale(k) == {table[i].by : i \in {i \in k .. Hooks : table[i] # NoValue}}
FailsEarly(e, k) ==
    /\ Fails(e)
    /\ disturbed' = IF Jsc THEN disturbed \cup Stale(k) ELSE disturbed

\* The global context.
NewGlobal(e) ==
    /\ At(e, "global")
    /\ Make(Global(e)) /\ Goto(e, "hook")
    /\ UNCHANGED <<table, hook, result, released, disturbed>>

NoGlobal(e) ==
    /\ At(e, "global") /\ process.failures
    /\ FailsEarly(e, 1)
    /\ UNCHANGED <<table, result, values>>

\* The native functions, one after the other.  JSC makes one and stores it in the
\* table, from where it is taken to be registered; those of JSCore belong to the
\* global context.
NextHook(e) ==
    /\ hook' = [hook EXCEPT ![e] = IF @ < Hooks THEN @ + 1 ELSE 1]
    /\ Goto(e, IF hook[e] < Hooks THEN "hook" ELSE "utils")

NewFunction(e) ==
    /\ At(e, "hook") /\ Jsc
    /\ Make(Function(e, hook[e]))
    /\ table' = [table EXCEPT ![hook[e]] = Function(e, hook[e])]
    /\ Goto(e, "register")
    /\ UNCHANGED <<hook, result, released, disturbed>>

RegisterFunction(e) ==
    /\ \/ At(e, "register")
       \/ At(e, "hook") /\ ~Jsc
    /\ NextHook(e)
    /\ UNCHANGED <<table, result, values, disturbed>>

NoFunction(e) ==
    /\ At(e, "hook") /\ process.failures
    /\ table' = IF Jsc THEN [table EXCEPT ![hook[e]] = NoValue] ELSE table
    /\ FailsEarly(e, hook[e] + 1)
    /\ UNCHANGED <<result, values>>

\* The utilities, the script and the call of FindProxyForURL: JSC has a result of each
\* to release before the next one.  Each may throw, and the last may not be a string.
Evaluate(e, n) ==
    /\ At(e, <<"utils", "script", "call">>[n])
    /\ IF Jsc
       THEN /\ Make(Result(e, n))
            /\ result' = [result EXCEPT ![e] = n]
            /\ IF result[e] # 0 THEN Release(Result(e, result[e])) ELSE UNCHANGED released
       ELSE UNCHANGED <<result, values>>
    /\ UNCHANGED <<table, disturbed>>

Succeeds(e, n) == Evaluate(e, n) /\ Goto(e, <<"script", "call", "clean">>[n]) /\ UNCHANGED hook
Throws(e, n) == Evaluate(e, n) /\ Fails(e)

\* The end of every evaluation: JSC releases the result and whatever is in the table,
\* both engines the global context.
ReleaseResult(e) ==
    /\ At(e, "clean")
    /\ result' = [result EXCEPT ![e] = 0]
    /\ IF result[e] # 0 THEN Release(Result(e, result[e])) ELSE UNCHANGED released
    /\ Goto(e, IF Jsc THEN "functions" ELSE "end")
    /\ UNCHANGED <<table, hook, made, disturbed>>

\* Mutant: the loop stops one function too early.
ReleaseFunction_SkipsLast(e) ==
    /\ At(e, "functions")
    /\ IF table[hook[e]] # NoValue /\ hook[e] < Hooks THEN Release(table[hook[e]]) ELSE UNCHANGED released
    /\ hook' = [hook EXCEPT ![e] = IF @ < Hooks THEN @ + 1 ELSE @]
    /\ Goto(e, IF hook[e] < Hooks THEN "functions" ELSE "end")
    /\ UNCHANGED <<table, result, made, disturbed>>

ReleaseFunction(e) ==
    /\ At(e, "functions")
    /\ IF table[hook[e]] # NoValue THEN Release(table[hook[e]]) ELSE UNCHANGED released
    /\ hook' = [hook EXCEPT ![e] = IF @ < Hooks THEN @ + 1 ELSE @]
    /\ Goto(e, IF hook[e] < Hooks THEN "functions" ELSE "end")
    /\ UNCHANGED <<table, result, made, disturbed>>

ReleaseGlobal(e) ==
    /\ At(e, "end")
    /\ IF Global(e) \in made THEN Release(Global(e)) ELSE UNCHANGED released
    /\ Goto(e, "done")
    /\ UNCHANGED <<table, hook, result, made, disturbed>>

EnginesNext ==
    \/ \E u \in Users : InitializeUser(u) \/ CleanupUser(u)
    \/ \E o \in Overrides : OverrideConfig(o)
    \/ \E e \in Evaluations :
          \/ Create(e)
          \/ NewGlobal(e) \/ NoGlobal(e)
          \/ NewFunction(e) \/ RegisterFunction(e) \/ NoFunction(e)
          \/ \E n \in 1 .. 3 : Succeeds(e, n) \/ Throws(e, n)
          \/ ReleaseResult(e) \/ ReleaseFunction(e) \/ ReleaseGlobal(e)

EnginesSpec == EnginesInit /\ [][EnginesNext]_engineVars

-----------------------------------------------------------------------------
\* An evaluation that runs has the library to its end, whoever else initializes or
\* cleans up: on JSC with the functions that were found, all of them or not, for
\* proxy_execute_jsc_create hands out an instance also where one is missing, and on
\* JSCore with all of them.  JSCore loses it only where an initialization failed, which
\* gives away a count of the engine that it may not have taken.
EngineKept ==
    \A e \in Running :
        \/ library.module /\ library.found = IF Jsc THEN process.offers ELSE Needed
        \/ ~Jsc /\ failed

\* Every evaluation releases what it made, once and on every path, and registers the
\* functions that it made.  That goes for its functions on JSC only if it shared the table
\* with nobody, who ran at the same time or failed later before it had filled the table.
Shared(v) == v.what[1] = "function" /\ v.by \in disturbed
ValuesBalanced ==
    /\ \A v \in Values : ~Shared(v) =>
          /\ released[v] <= IF v \in made THEN 1 ELSE 0
          /\ v \in made /\ pc[v.by] = "done" => released[v] = 1
    /\ \A e \in Evaluations \ disturbed :
          pc[e] = "register" => table[hook[e]] = Function(e, hook[e])

\* Evaluations neither lose the engine nor each other's values.
EvaluationsSafe == EngineKept /\ ValuesBalanced
=============================================================================

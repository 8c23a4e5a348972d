----------------------------- MODULE Lifecycle -----------------------------
(***************************************************************************)
(* Initialization and cleanup of the library: the reference counts of      *)
(* src/config.c, src/execute.c and src/resolver.c, what each of them sets  *)
(* up and tears down, how src/proxyres.c and src/resolver_posix.c call     *)
(* them, and the overrides of src/config.c, which live as long.            *)
(*                                                                         *)
(* The functions are operators from the globals, and from what succeeds in *)
(* the environment, to the globals they leave and the value they return.   *)
(* Calls are not concurrent: nothing here is synchronized in the code.     *)
(***************************************************************************)
EXTENDS Integers, FiniteSets

CONSTANTS Users,         \* parts of a process that use the library
          Kind,          \* Kind[u]: what u initializes
          Processes,     \* which users a process has and what may succeed in a
                         \* call of theirs: engine, pool, mutex, fetch
          Overrides      \* the calls of the override functions

Kinds == {"config", "execute", "resolver", "proxyres"}
AllSucceed == [engine |-> TRUE, pool |-> TRUE, mutex |-> TRUE, fetch |-> TRUE]

ASSUME LifecycleAssumption ==
    /\ Kind \in [Users -> Kinds]
    /\ \A p \in Processes :
          /\ p.users \subseteq Users
          /\ p.environments \subseteq
                [engine : BOOLEAN, pool : BOOLEAN, mutex : BOOLEAN, fetch : BOOLEAN]
    /\ Overrides \subseteq [what : {"url", "proxy", "bypass"}, set : BOOLEAN]

VARIABLES
    process,  \* the process, a constant of every behaviour
    g,        \* the globals
    holding   \* the users whose initialization returned true, until their cleanup

vars == <<process, g, holding>>

\* The globals of config.c, execute.c, resolver.c and resolver_posix.c; an
\* interface, the pool and the mutex are there or not.
ConfigFields == [config |-> 0, configI |-> FALSE, urlOverride |-> FALSE,
                 proxyOverride |-> FALSE, bypassOverride |-> FALSE,
                 autoDiscoverDisable |-> FALSE]
ExecuteFields == [execute |-> 0, executeI |-> FALSE]
ResolverFields == [resolver |-> 0, resolverI |-> FALSE, threadpool |-> FALSE]
PosixFields == [mutex |-> FALSE]

\* memset: the fields of r in s take the values they have in r.
With(s, r) == [f \in DOMAIN s |-> IF f \in DOMAIN r THEN r[f] ELSE s[f]]

Fresh == [f \in UNION {DOMAIN ConfigFields, DOMAIN ExecuteFields,
                       DOMAIN ResolverFields, DOMAIN PosixFields} |->
              CASE f \in DOMAIN ConfigFields -> ConfigFields[f]
                [] f \in DOMAIN ExecuteFields -> ExecuteFields[f]
                [] f \in DOMAIN ResolverFields -> ResolverFields[f]
                [] f \in DOMAIN PosixFields -> PosixFields[f]]

Returns(s, ok) == [globals |-> s, ok |-> ok]

-----------------------------------------------------------------------------
\* proxy_config_global_init; on Linux there is always an interface.
ConfigInit(s) ==
    IF s.config > 0
    THEN Returns([s EXCEPT !.config = @ + 1], TRUE)
    ELSE Returns([With(s, ConfigFields) EXCEPT !.config = 1, !.configI = TRUE], TRUE)

\* Mutant: any cleanup is the last one.
ConfigCleanup_Always(s) == Returns(With(s, ConfigFields), FALSE)

\* proxy_config_global_cleanup.
ConfigCleanup(s) ==
    IF s.config - 1 > 0
    THEN Returns([s EXCEPT !.config = @ - 1], TRUE)
    ELSE Returns(With(s, ConfigFields), FALSE)

\* proxy_execute_global_init.
ExecuteInit(s, env) ==
    IF s.execute > 0
    THEN Returns([s EXCEPT !.execute = @ + 1], TRUE)
    ELSE IF env.engine
         THEN Returns([s EXCEPT !.execute = 1, !.executeI = TRUE], TRUE)
         ELSE Returns(With(s, ExecuteFields), FALSE)

\* proxy_execute_global_cleanup.
ExecuteCleanup(s) ==
    IF s.execute - 1 > 0
    THEN Returns([s EXCEPT !.execute = @ - 1], TRUE)
    ELSE Returns(With(s, ExecuteFields), TRUE)

\* proxy_resolver_posix_global_cleanup.
PosixCleanup(s) == ExecuteCleanup(With(s, PosixFields))

\* proxy_resolver_posix_init_ex; without fetch or an engine it returns what its cleanup
\* returns.
PosixInit(s, env) ==
    IF ~env.mutex
    THEN Returns(With(s, PosixFields), FALSE)
    ELSE LET locked == [s EXCEPT !.mutex = TRUE]
             engine == ExecuteInit(locked, env)
         IN  CASE ~env.fetch -> PosixCleanup(locked)
               [] env.fetch /\ engine.ok -> engine
               [] env.fetch /\ ~engine.ok -> PosixCleanup(engine.globals)

\* Mutant: the configuration the resolver holds is not given back.
ResolverCleanup_KeepsConfig(s) ==
    IF s.resolver - 1 > 0
    THEN Returns([s EXCEPT !.resolver = @ - 1], TRUE)
    ELSE LET posix == IF s.resolverI THEN PosixCleanup(s).globals ELSE s
         IN  Returns(With(posix, ResolverFields), TRUE)

\* proxy_resolver_global_cleanup.
ResolverCleanup(s) ==
    IF s.resolver - 1 > 0
    THEN Returns([s EXCEPT !.resolver = @ - 1], TRUE)
    ELSE LET posix == IF s.resolverI THEN PosixCleanup(s).globals ELSE s
         IN  ConfigCleanup(With(posix, ResolverFields))

\* proxy_resolver_global_init, the only one that cleans up when it fails.
ResolverInit(s, env) ==
    IF s.resolver > 0
    THEN Returns([s EXCEPT !.resolver = @ + 1], TRUE)
    ELSE LET config == ConfigInit(With(s, ResolverFields)).globals
             chosen == [config EXCEPT !.resolverI = TRUE]
             pooled == [chosen EXCEPT !.threadpool = TRUE]
             posix == PosixInit(pooled, env)
         IN  CASE ~env.pool -> Returns(ResolverCleanup(chosen).globals, FALSE)
               [] env.pool /\ ~posix.ok ->
                     Returns(ResolverCleanup(posix.globals).globals, FALSE)
               [] env.pool /\ posix.ok ->
                     Returns([posix.globals EXCEPT !.resolver = @ + 1], TRUE)

\* proxyres_global_init, which only warns of failures.
ProxyresInit(s, env) ==
    Returns(ResolverInit(ExecuteInit(ConfigInit(s).globals, env).globals, env).globals, TRUE)

\* proxyres_global_cleanup.
ProxyresCleanup(s) ==
    Returns(ConfigCleanup(ExecuteCleanup(ResolverCleanup(s).globals).globals).globals, TRUE)

CallInit(kind, s, env) ==
    CASE kind = "config"   -> ConfigInit(s)
      [] kind = "execute"  -> ExecuteInit(s, env)
      [] kind = "resolver" -> ResolverInit(s, env)
      [] kind = "proxyres" -> ProxyresInit(s, env)

CallCleanup(kind, s) ==
    CASE kind = "config"   -> ConfigCleanup(s)
      [] kind = "execute"  -> ExecuteCleanup(s)
      [] kind = "resolver" -> ResolverCleanup(s)
      [] kind = "proxyres" -> ProxyresCleanup(s)

-----------------------------------------------------------------------------
Init ==
    /\ process \in Processes
    /\ g = Fresh
    /\ holding = {}

Initialize(u) ==
    /\ u \in process.users \ holding
    /\ UNCHANGED process
    /\ \E env \in process.environments :
          LET r == CallInit(Kind[u], g, env)
          IN  /\ g' = r.globals
              /\ holding' = IF r.ok THEN holding \cup {u} ELSE holding

Cleanup(u) ==
    /\ u \in holding
    /\ g' = CallCleanup(Kind[u], g).globals
    /\ holding' = holding \ {u}
    /\ UNCHANGED process

\* proxy_config_set_auto_config_url_override, proxy_config_set_proxy_override and
\* proxy_config_set_bypass_list_override, with a value or with NULL, while the
\* configuration is initialized.
Override(o) ==
    /\ holding # {} /\ g.config > 0
    /\ \/ /\ o.what = "url"
          /\ g' = [g EXCEPT !.urlOverride = o.set, !.autoDiscoverDisable = o.set]
       \/ /\ o.what = "proxy"
          /\ g' = [g EXCEPT !.proxyOverride = o.set, !.autoDiscoverDisable = o.set]
       \/ /\ o.what = "bypass"
          /\ g' = [g EXCEPT !.bypassOverride = o.set]
    /\ UNCHANGED <<process, holding>>

Next ==
    \/ \E u \in Users : Initialize(u) \/ Cleanup(u)
    \/ \E o \in Overrides : Override(o)

Spec == Init /\ [][Next]_vars

-----------------------------------------------------------------------------
TypeOK ==
    /\ process \in Processes
    /\ DOMAIN g = DOMAIN Fresh
    /\ \A f \in {"config", "execute", "resolver"} : g[f] \in Nat
    /\ \A f \in DOMAIN g \ {"config", "execute", "resolver"} : g[f] \in BOOLEAN
    /\ holding \subseteq Users

Holders(kinds) == {u \in holding : Kind[u] \in kinds}

\* What a user initialized is there until it cleans up, whatever the other
\* users do.  proxyres_global_init reports no failure, so that this holds of the
\* configuration where each user looks at the result of its own initialization
\* or nothing fails, ...
NothingFails == process.environments = {AllSucceed}
ResultsAreSeen == \A u \in process.users : Kind[u] # "proxyres"

ConfigReady ==
    NothingFails \/ ResultsAreSeen =>
        (Holders({"config", "resolver", "proxyres"}) # {} => g.configI)

\* and, as a resolver that fails gives away an engine that it never counted, of
\* the engine, the pool and the mutex where nothing fails.
EngineReady == NothingFails => (Holders({"execute", "proxyres"}) # {} => g.executeI)
ResolverReady ==
    NothingFails =>
        (Holders({"resolver", "proxyres"}) # {} =>
            g.resolverI /\ g.threadpool /\ g.mutex /\ g.executeI)

\* So what a user initialized is there while it holds it, and no count is ever
\* below zero.
HeldIsReady == TypeOK /\ ConfigReady /\ EngineReady /\ ResolverReady

\* When the last user has cleaned up, nothing is left behind.
NothingLeft == holding = {} => g = Fresh
=============================================================================

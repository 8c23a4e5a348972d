------------------------------ MODULE PacCache ------------------------------
(***************************************************************************)
(* The jobs of src/resolver_posix.c and the globals they share: the url    *)
(* that WPAD discovered, the PAC script, the times of the last discovery   *)
(* and of the last fetch, and the mutex around them.  A job is a request   *)
(* (proxy_resolver_posix_get_proxies_for_url) or the discovery that        *)
(* proxy_resolver_posix_init_ex starts (proxy_resolver_posix_wpad_startup).*)
(*                                                                         *)
(* A step is what a job does between two points where another job can get  *)
(* in between: a network exchange, the mutex, an access to the globals.    *)
(* A request that does no discovery takes no lock, so the free and the     *)
(* store of a script are two steps.  A script is the allocation that holds *)
(* it: the job that fetched it, where from, and when it was put into the   *)
(* cache.  Time may pass between any two steps.                            *)
(***************************************************************************)
EXTENDS Naturals

CONSTANTS Requests,      \* requests that reached the thread pool
          Startup,       \* the discovery job of proxy_resolver_posix_init_ex
          Urls,          \* urls of PAC scripts
          NoUrl,         \* NULL
          Dns,           \* the origin of a script that wpad_dns returned
          NoScript,      \* NULL
          NoJob,         \* the owner of a free mutex
          Settings,      \* the sets of configurations a process may go through
          Expire,        \* WPAD_EXPIRE_SECONDS
          MaxTime        \* bound on the clock

Jobs == Requests \cup {Startup}
Scripts == [by : Jobs, from : Urls \cup {Dns}, at : 0 .. MaxTime]
Steps == {"queued", "lock", "discover", "wpad", "choose", "check", "fetch",
          "free", "store", "unlock", "execute", "evaluate", "finish", "done"}
NoList == "none"
Direct == "direct"

ASSUME PacCacheAssumption ==
    /\ Startup \notin Requests
    /\ NoJob \notin Jobs
    /\ NoUrl \notin Urls \cup {Dns} /\ Dns \notin Urls
    /\ NoScript \notin Scripts
    /\ \A configs \in Settings : configs \subseteq [auto : BOOLEAN, manual : Urls \cup {NoUrl}]
    /\ Expire \in Nat /\ MaxTime \in Nat \ {0}

VARIABLES
    configs,         \* what config.c may answer in this process
    config,          \* what it answers now
    now,             \* time(NULL)
    autoConfigUrl,   \* g_proxy_resolver_posix.auto_config_url
    script,          \* g_proxy_resolver_posix.script
    lastWpadTime,    \* g_proxy_resolver_posix.last_wpad_time
    lastFetchTime,   \* g_proxy_resolver_posix.last_fetch_time
    mutex,           \* the owner of g_proxy_resolver_posix.mutex
    freed,           \* the scripts handed to free
    pc,              \* the next step of a job
    url,             \* its auto_config_url
    local,           \* its script, and the one it hands to the engine
    locked,          \* its locked
    error,           \* its proxy_resolver->error
    list,            \* its proxy_resolver->list
    discoveredAt,    \* history: the end of the last discovery, 0 before it
    lookedAt         \* history: when a job last looked at the age of the script

settings == <<configs, config>>
cache == <<autoConfigUrl, script, lastWpadTime, lastFetchTime>>
job == <<pc, url, local, locked, error, list>>
history == <<discoveredAt, lookedAt>>
vars == <<settings, now, cache, mutex, freed, job, history>>

Init ==
    /\ configs \in Settings
    /\ config \in configs
    /\ now = 1
    /\ autoConfigUrl = NoUrl
    /\ script = NoScript
    /\ lastWpadTime = 0
    /\ lastFetchTime = 0
    /\ mutex = NoJob
    /\ freed = {}
    /\ pc = [j \in Jobs |-> IF j = Startup /\ ~config.auto THEN "done" ELSE "queued"]
    /\ url = [j \in Jobs |-> NoUrl]
    /\ local = [j \in Jobs |-> NoScript]
    /\ locked = [j \in Jobs |-> FALSE]
    /\ error = [j \in Jobs |-> 0]
    /\ list = [j \in Jobs |-> NoList]
    /\ discoveredAt = 0
    /\ lookedAt = [j \in Jobs |-> 0]

Goto(j, step) == pc' = [pc EXCEPT ![j] = step]
SetLocal(j, s) == local' = [local EXCEPT ![j] = s]
SetUrl(j, u) == url' = [url EXCEPT ![j] = u]
Expired(time) == ~(time > 0 /\ time + Expire >= now)

-----------------------------------------------------------------------------
\* The configuration is read where the code reads it.
Begin(j) ==
    /\ pc[j] = "queued"
    /\ Goto(j, IF j = Startup \/ config.auto THEN "lock" ELSE "choose")
    /\ UNCHANGED <<settings, now, cache, mutex, freed, url, local, locked, error, list, history>>

\* Mutant: the discovery is not guarded by the mutex.
Lock_None(j) ==
    /\ pc[j] = "lock"
    /\ Goto(j, "discover")
    /\ UNCHANGED <<settings, now, cache, mutex, freed, url, local, locked, error, list, history>>

Lock(j) ==
    /\ pc[j] = "lock"
    /\ mutex = NoJob
    /\ mutex' = j
    /\ locked' = [locked EXCEPT ![j] = TRUE]
    /\ Goto(j, "discover")
    /\ UNCHANGED <<settings, now, cache, freed, url, local, error, list, history>>

\* proxy_resolver_posix_wpad_discover, up to the first packet.
Discover(j) ==
    /\ pc[j] = "discover"
    /\ IF Expired(lastWpadTime)
       THEN /\ autoConfigUrl' = NoUrl
            /\ Goto(j, "wpad")
            /\ UNCHANGED url
       ELSE /\ SetUrl(j, autoConfigUrl)
            /\ Goto(j, "choose")
            /\ UNCHANGED autoConfigUrl
    /\ UNCHANGED <<settings, now, script, lastWpadTime, lastFetchTime, mutex, freed, local,
                   locked, error, list, history>>

\* The url u, or none, is what discovery ended with.
Discovered(j, u) ==
    /\ autoConfigUrl' = u
    /\ lastWpadTime' = now
    /\ discoveredAt' = now
    /\ SetUrl(j, u)
    /\ Goto(j, "choose")
    /\ UNCHANGED <<settings, now, mutex, local, locked, error, list, lookedAt>>

\* Mutant: a discovery that finds nothing is not remembered.
NothingFound_Forgets(j) ==
    /\ pc[j] = "wpad"
    /\ discoveredAt' = now
    /\ Goto(j, "choose")
    /\ UNCHANGED <<settings, now, cache, mutex, freed, url, local, locked, error, list, lookedAt>>

DhcpAnswers(j) ==
    /\ pc[j] = "wpad"
    /\ \E u \in Urls : Discovered(j, u)
    /\ UNCHANGED <<script, lastFetchTime, freed>>

\* wpad_dns fetches the script itself; the one it replaces is not freed.
DnsAnswers(j) ==
    /\ pc[j] = "wpad"
    /\ script' = [by |-> j, from |-> Dns, at |-> now]
    /\ lastFetchTime' = now
    /\ Discovered(j, NoUrl)
    /\ UNCHANGED freed

NothingFound(j) ==
    /\ pc[j] = "wpad"
    /\ Discovered(j, NoUrl)
    /\ UNCHANGED <<script, lastFetchTime, freed>>

\* A request falls back on the configured url and then on a direct connection.
Choose(j) ==
    /\ pc[j] = "choose"
    /\ LET chosen == IF url[j] = NoUrl /\ j # Startup THEN config.manual ELSE url[j]
       IN  /\ SetUrl(j, chosen)
           /\ Goto(j, IF chosen = NoUrl THEN "finish" ELSE "check")
           /\ list' = [list EXCEPT ![j] = IF chosen = NoUrl /\ j # Startup THEN Direct ELSE @]
    /\ UNCHANGED <<settings, now, cache, mutex, freed, local, locked, error, history>>

\* What a job does once it has its script.
AfterFetch(j) ==
    /\ Goto(j, IF j = Startup THEN "finish" ELSE "unlock")
    /\ lookedAt' = [lookedAt EXCEPT ![j] = now]
    /\ UNCHANGED discoveredAt

\* Mutant: a script never gets too old.
Check_NeverExpires(j) ==
    /\ pc[j] = "check"
    /\ IF lastFetchTime = 0 \/ url[j] # autoConfigUrl
       THEN Goto(j, "fetch") /\ UNCHANGED <<local, history>>
       ELSE AfterFetch(j) /\ SetLocal(j, script)
    /\ UNCHANGED <<settings, now, cache, mutex, freed, url, locked, error, list>>

\* proxy_resolver_posix_fetch_pac, up to the first packet.
Check(j) ==
    /\ pc[j] = "check"
    /\ IF Expired(lastFetchTime) \/ url[j] # autoConfigUrl
       THEN Goto(j, "fetch") /\ UNCHANGED <<local, history>>
       ELSE AfterFetch(j) /\ SetLocal(j, script)
    /\ UNCHANGED <<settings, now, cache, mutex, freed, url, locked, error, list>>

\* fetch_get.
Fetch(j) ==
    /\ pc[j] = "fetch"
    /\ \/ /\ SetLocal(j, [by |-> j, from |-> url[j], at |-> 0])
          /\ error' = [error EXCEPT ![j] = 0]
       \/ /\ SetLocal(j, NoScript)
          /\ error' = [error EXCEPT ![j] = 1]
    /\ Goto(j, "free")
    /\ UNCHANGED <<settings, now, cache, mutex, freed, url, locked, list, history>>

FreeOld(j) ==
    /\ pc[j] = "free"
    /\ freed' = freed \cup ({script} \ {NoScript})
    /\ Goto(j, "store")
    /\ UNCHANGED <<settings, now, cache, mutex, url, local, locked, error, list, history>>

Store(j) ==
    /\ pc[j] = "store"
    /\ script' = IF local[j] = NoScript THEN NoScript ELSE [local[j] EXCEPT !.at = now]
    /\ SetLocal(j, script')
    /\ lastFetchTime' = now
    /\ AfterFetch(j)
    /\ UNCHANGED <<settings, now, autoConfigUrl, lastWpadTime, mutex, freed, url, locked,
                   error, list>>

\* Mutant: the flag survives a successful unlock.
Unlock_KeepsFlag(j) ==
    /\ pc[j] = "unlock"
    /\ mutex' = IF locked[j] THEN NoJob ELSE mutex
    /\ Goto(j, IF local[j] = NoScript THEN "finish" ELSE "execute")
    /\ UNCHANGED <<settings, now, cache, freed, url, local, locked, error, list, history>>

Unlock(j) ==
    /\ pc[j] = "unlock"
    /\ mutex' = IF locked[j] THEN NoJob ELSE mutex
    /\ locked' = [locked EXCEPT ![j] = FALSE]
    /\ Goto(j, IF local[j] = NoScript THEN "finish" ELSE "execute")
    /\ UNCHANGED <<settings, now, cache, freed, url, local, error, list, history>>

\* The engine gets the script of the globals, not the one that was fetched.
Execute(j) ==
    /\ pc[j] = "execute"
    /\ SetLocal(j, script)
    /\ Goto(j, "evaluate")
    /\ UNCHANGED <<settings, now, cache, mutex, freed, url, locked, error, list, history>>

\* proxy_execute_create returns NULL.
NoEngine(j) ==
    /\ pc[j] = "execute"
    /\ error' = [error EXCEPT ![j] = 1]
    /\ Goto(j, "finish")
    /\ UNCHANGED <<settings, now, cache, mutex, freed, url, local, locked, list, history>>

Evaluate(j) ==
    /\ pc[j] = "evaluate"
    /\ local[j] # NoScript
    /\ list' = [list EXCEPT ![j] = local[j].from]
    /\ Goto(j, "finish")
    /\ UNCHANGED <<settings, now, cache, mutex, freed, url, local, locked, error, history>>

\* The engines of execute_jsc.c and execute_jscore.c report 0.
EvaluationFails(j) ==
    /\ pc[j] = "evaluate"
    /\ error' = [error EXCEPT ![j] = 0]
    /\ Goto(j, "finish")
    /\ UNCHANGED <<settings, now, cache, mutex, freed, url, local, locked, list, history>>

\* posix_done, and the end of the local variables.
Finish(j) ==
    /\ pc[j] = "finish"
    /\ mutex' = IF locked[j] THEN NoJob ELSE mutex
    /\ locked' = [locked EXCEPT ![j] = FALSE]
    /\ lookedAt' = [lookedAt EXCEPT ![j] = 0]
    /\ SetUrl(j, NoUrl) /\ SetLocal(j, NoScript)
    /\ Goto(j, "done")
    /\ UNCHANGED <<settings, now, cache, freed, error, list, discoveredAt>>

\* The settings change or an override of config.c is set.
Configure ==
    /\ config' \in configs \ {config}
    /\ UNCHANGED <<configs, now, cache, mutex, freed, job, history>>

Tick ==
    /\ now < MaxTime
    /\ now' = now + 1
    /\ UNCHANGED <<settings, cache, mutex, freed, job, history>>

JobStep(j) ==
    \/ Begin(j) \/ Lock(j)
    \/ Discover(j) \/ DhcpAnswers(j) \/ DnsAnswers(j) \/ NothingFound(j)
    \/ Choose(j) \/ Check(j) \/ Fetch(j) \/ FreeOld(j) \/ Store(j) \/ Unlock(j)
    \/ Execute(j) \/ NoEngine(j) \/ Evaluate(j) \/ EvaluationFails(j)
    \/ Finish(j)

Next ==
    \/ \E j \in Jobs : JobStep(j)
    \/ Configure
    \/ Tick

Spec == Init /\ [][Next]_vars

-----------------------------------------------------------------------------
TypeOK ==
    /\ configs \in Settings /\ config \in configs
    /\ now \in 1 .. MaxTime
    /\ autoConfigUrl \in Urls \cup {NoUrl}
    /\ script \in Scripts \cup {NoScript}
    /\ lastWpadTime \in 0 .. MaxTime
    /\ lastFetchTime \in 0 .. MaxTime
    /\ mutex \in Jobs \cup {NoJob}
    /\ freed \subseteq Scripts
    /\ pc \in [Jobs -> Steps]
    /\ url \in [Jobs -> Urls \cup {NoUrl}]
    /\ local \in [Jobs -> Scripts \cup {NoScript}]
    /\ locked \in [Jobs -> BOOLEAN]
    /\ error \in [Jobs -> {0, 1}]
    /\ list \in [Jobs -> Urls \cup {Dns, Direct, NoList}]
    /\ discoveredAt \in 0 .. MaxTime
    /\ lookedAt \in [Jobs -> 0 .. MaxTime]

\* A job's flag says whether it owns the mutex, through both unlocks of the
\* code, so that no job releases the mutex of another and none ends with it.
LockDiscipline ==
    /\ TypeOK
    /\ \A j \in Jobs : locked[j] <=> mutex = j
    /\ mutex # NoJob => pc[mutex] \notin {"queued", "lock", "execute", "evaluate", "done"}

\* Requests that arrive together share one discovery: no job starts one while
\* another is at it, nor before the result of the last one has expired, even
\* if that result was that there is nothing.
DiscoveryIsShared ==
    [][\A j \in Jobs : pc[j] = "discover" /\ pc'[j] = "wpad" =>
          /\ \A k \in Jobs : pc[k] # "wpad"
          /\ discoveredAt = 0 \/ now > discoveredAt + Expire]_vars

\* Every request discovers: there is nothing but automatic discovery.
AllDiscover == \A c \in configs : c.auto /\ c.manual = NoUrl

\* Then no job is about to free a script that another one freed and has yet to replace, and
\* a script is freed under its evaluation, which the mutex does not cover, by one thing only:
\* it expired meanwhile and another request replaced it.
ScriptAlive ==
    AllDiscover => \A j \in Jobs :
        /\ pc[j] = "free" => script \notin freed
        /\ pc[j] = "evaluate" /\ local[j] \in freed => now > local[j].at + Expire

\* What the engine gets, which is what the cache holds by then and not what the request
\* looked at, had not expired at that look; it is nothing only if a fetch failed since, and
\* so never at the time of the look.
ScriptFresh ==
    AllDiscover => \A j \in Jobs : pc[j] = "evaluate" =>
        IF local[j] = NoScript THEN now > lookedAt[j] ELSE lookedAt[j] <= local[j].at + Expire

\* No script is evaluated or freed after it was freed, however requests find
\* its url.
ScriptNeverDangles ==
    \A j \in Jobs :
        /\ pc[j] = "evaluate" => local[j] \notin freed
        /\ pc[j] = "free" => script \notin freed
=============================================================================

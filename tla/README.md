# Verification of proxyres

TLA+ specifications of the proxy resolution library in `src/`, TLC configurations that check them on small instances, and
TLAPS proofs of what holds for instances of any size. Every definition is translated from the C code; comments in the modules name the
functions they stand for, and `PROJECT.json` gives the lines.

    tlc -workers 2 -config Threadpool_pool.cfg MCThreadpool.tla     # one run
    tlapm Threadpool_proofs.tla                                     # the proofs

## 1. The system

proxyres answers one question, "through which proxies is this url to be reached?", for an application that owns
*instances* of a resolver. `resolver.c` is the front end. It answers from the configuration of the user if that is enough,
and else asks the resolver of the platform, which works on another thread and sets an *event* when it has the answer.

| Component | State it keeps | Operations | Interacts with | What is hard |
| --- | --- | --- | --- | --- |
| Thread pool, pthread (`threadpool_pthread.c`) | queue, counters, thread list, `stop`, two condition variables, one mutex | create, enqueue, wait, delete; worker loop | callbacks of its users | lost wakeups, signal vs. broadcast, deletion under running jobs, failing `pthread_create` |
| Thread pools of Windows (`threadpool_winxp.c`, `threadpool_winvista.c`) | the same with auto-reset events; a doubly linked list of jobs beside the pool of the system | the same | WinAPI thread pool | one `SetEvent` for many sleepers; callbacks that end in any order; deletion that waits for nobody |
| Event (`event_pthread.c`, `event_win.c`) | flag, condition variable | set, wait with or without limit | instance owner and worker | set before, between, after the steps of a wait; spurious wakeups; deadline |
| Front end (`resolver.c`) | instance: url, list, position, base instance; globals: counter, interface, pool | get_proxies_for_url, wait, get_list, get_next_proxy, create, delete, global init and cleanup | configuration, pool, platform resolver | the instance is shared with its job; a second request; cleanup under jobs |
| Posix resolver (`resolver_posix.c`) | cached url, script and their times, a mutex | one job per request, one discovery job at start | WPAD, fetch, engine, event | a cache filled by several jobs that lock only sometimes; expiry; the early job |
| Asynchronous platform resolvers (`resolver_win8.c`, `resolver_winrt.c`) | handle or operation, handler with a reference count, list, error, event | request, callback, cancel, delete | WinHTTP, Windows Runtime | callbacks on foreign threads after cancel or delete |
| Synchronous platform resolvers (`resolver_winxp.c`, `resolver_mac.c`) | list, error, event | request on a thread of the pool, cancel, wait, delete | WinHTTP, CFNetwork run loop | run loop limit; every end needs list or error |
| Resolver of GNOME 3 (`resolver_gnome3.c`) | | | | disabled: its only use, `resolver.c:256-258`, is commented out |
| WPAD (`wpad_dhcp*.c`, `wpad_dns.c`) | one request at a time | adapters, DHCP request and reply, hosts | network, fetch | loss, delay, reordering, refusals; one adapter failing |
| Fetch (`fetch_posix.c`) | one response | get | network | pieces of any size across a fixed buffer; a server that closes early or sends more than it announced |
| Configuration front end (`config.c`), execute front end (`execute.c`), library entry (`proxyres.c`) | reference counts, interfaces, overrides | init, cleanup, overrides, getters | each other | counters that nest, failures in the middle |
| Bypass rules and proxy lists (`util.c`, `util_win.c`, `net_util.c`) | none, but local buffers that live through a loop | bypass rules, wildcards, CIDR ranges, proxy lists | front end, platform resolvers | a buffer of fixed size carried from rule to rule; prefixes at the edge of a byte; room counted before the schemes are known, lists that outgrow it |
| Platform configuration (`config_env.c`, `_kde`, `_gnome2`, `_gnome3`, `_mac`, `_win`, `util_linux.c`) | handles of libraries, the file of KDE | getters: script url, proxy, bypass list, discovery | desktop settings | settings that change between two reads; keys with the same name in other sections; missing or empty values |
| JavaScript engines (`execute_jsc.c`, `execute_jscore.c`) | a library loaded once and its functions, a static table of native functions, the values of an evaluation | delayed init, create, evaluate, cleanup | execute front end, posix resolver | evaluations in parallel, incomplete libraries, failures in the middle, unloading |
| Windows Script Host (`execute_wsh.c`) | COM objects of an evaluation | evaluate a script | posix resolver on Windows | none of its own: one path out |
| Network adapters (`net_adapter*.c`), `mozilla_js.h`, command line tools | none | enumeration | operating system | pure I/O or third-party |

The property that matters for each of them, and where in the code it could go wrong, is in the `hazards` of
`PROJECT.json`; section 3 says which run looks at which.

## 2. Modules and code

| Module | Models | State and actions |
| --- | --- | --- |
| `JobPool` | `threadpool.h`, what any pool promises | jobs pending in order, running, done; submit, start, finish, wait, close, discard |
| `Threadpool`, `MCThreadpool`, `Threadpool_proofs` | `threadpool_pthread.c` | the fields of `threadpool_s`; a place for every worker, caller and for the deletion. A critical section is one action; callbacks, broadcasts after the unlock and joins are steps of their own |
| `ThreadpoolWinxp`, `ThreadpoolVista`, `WindowsPools` | the two Windows pools with `event_win.c`, `mutex_win.c` | the first over auto-reset events polled every 250 ms, the second over the linked list of jobs and the pool of the system; `WindowsPools` is either, as `CMakeLists.txt` chooses |
| `EventState`, `Event`, `MCEvent` | `event_pthread.c` | `EventState` has the functions as operators on a record, for any module that owns events; `Event` has threads that call them, and time. `MCEvent` is for the run with the wrong deadline |
| `PacCache`, `MCPacCache`, `PacCache_proofs` | `resolver_posix.c` | the globals, and per job the local variables and the next step; a step ends where another job can get in: network, mutex, access to the globals |
| `Resolver`, `MCResolver`, `Resolver_proofs` | `resolver.c` over the posix resolver | instances, their jobs and the client of each; composes `JobPool` for the pool, `EventState` for the event, and takes `PacCache` as one step with any of its outcomes |
| `Lifecycle` | `config.c`, `execute.c`, `resolver.c`, `resolver_posix.c`, `proxyres.c`: init, cleanup, overrides | the globals as one record; each C function is an operator from globals and environment to globals and result, so that their calls nest as in the code |
| `Engines` (extends `Lifecycle`), `MCLibrary`, `Library_proofs` | `execute_jsc.c`, `execute_jscore.c` under the counts of `Lifecycle` | the library with the `pthread_once_t` that guards its loading, the static table, and per evaluation its next step, loop variable and result; a value is the evaluation that made it and what it is, `released` counts how often it was given back. A step ends where another evaluation can get at the table |
| `NativeRequest` | what `resolver.c` relies on in a platform's resolver | ask, finish |
| `NativeInstance` | what the four platform resolvers share | instance, event, client; create, wait, delete |
| `ResolverWin8`, `ResolverWinrt`, `ResolverWinxp`, `ResolverMac` | the file of that name | the request, its callbacks, cancel |
| `PlatformResolvers` | the choice in `proxy_resolver_global_init` | one system, one of its resolvers |
| `Ports`, `MCPorts`, `Ports_proofs` | what the library takes from the system it is built for | one of the event, the Windows pools and the platform resolvers per behaviour, under the fairness of each |
| `BypassRules` | `should_bypass_proxy` of `util.c`, with `str_wildcard_match`, `strip_host_port`, the CIDR ranges of `net_util.c` | pure operators over texts as sequences of symbols; a turn of the loop is an operator from the local variables to the local variables; an address, a byte or a mask is the set of its bits that are one, so that a shift moves the set and an `&` is an intersection. The buffer of a rule has `HostMax` symbols: rules are cut as they are copied, may run past its end together, and may then be answered in any way. At its end, what a rule means by its form (`RuleSays`, `OfForm`), written apart from the code, and the two named departures of the code from that (`Departs`) |
| `ProxyLists` | the conversions of `util.c` and `util_win.c` | pure; a text is the sequence of its uris with how much of each part was kept, and whether it ran past the room allocated: once the count has passed it, nothing limits what is appended |
| `ConfigSources` (extends `BypassRules`) | the getters of `config_*.c`, `get_desktop_env`, `get_config_value`, `get_winhttp_proxy_by_scheme` | pure operators from settings, or the file of KDE, to what the getter returns |
| `SystemConfig` (extends `ConfigSources`, `ProxyLists`), `MCSystemConfig`, `SystemConfig_proofs` | `proxy_resolver_get_proxies_for_url_from_system_config` of `resolver.c` and the getters of `config.c` | one action per read of a setting, and the user who changes settings in between, any of them and several at once; `past` has the settings of each moment of the request. At its end, what a desktop and its user do, which the theorems take as hypotheses |
| `Fetch` | `fetch_get` of `fetch_posix.c` | header and body counted in units; the two loops of `recv`; a server sends as much as it likes, whatever it announced |
| `Wpad` (extends `Fetch`), `Wpad_proofs` | `wpad_dhcp.c`, `wpad_dhcp_posix.c`, `wpad_dns.c`, the discovery of `resolver_posix.c` | adapters, datagrams under way, transaction id, hosts; a reply without a type ends the process (`wpad_dhcp_posix.c:261-263`) |
| `SequenceLemmas` | nothing: facts about queues, lists and loops that the proofs share | what `Append`, `Tail` and a new head do to the elements of a sequence and to its freedom from repetitions; that a loop defined by the turn before has a value at every turn (`LoopExists`) and keeps what each turn keeps (`EveryTurn`) |

Operators named `Name_What` are changed forms of `Name`, one plausible bug each, that show that a property can fail.

What is abstracted: texts (a url, a list, a script is a model value or the name of where it came from), logging, the layout
of messages, memory that is not shared (an allocation that fails is an outcome of its function where the code handles it).
What is external and modelled from its use: pthread condition variables, `SetEvent`, the thread pool of Windows, WinHTTP,
WinRT, CFNetwork, DHCP servers and UDP.

## 3. Runs

| Run | Instance | Distinct states | What it shows |
| --- | --- | --- | --- |
| `threadpool_pool` | 3 jobs, 2 callers that both enqueue and wait, 3 thread identities, at most 2 threads, creation may fail | 178 thousand | the counters agree with what they count, no wakeup is lost, no job is lost or run twice, the freed pool is left alone, the pool implements `JobPool`; accepted jobs run, a lone waiter gets out, deletion ends |
| `threadpool_two_waiters` | the same | violation of `WaitReturns` | two callers in `threadpool_wait`: one never returns |
| `event_false` | 1 waiter, limits, 2 sets, no spurious wakeups | violation of `FalseMeansElapsed` | a wait with a limit gives up at once |
| `paccache_jobs` | 2 requests and the early job, 2 urls, time 1 to 3 with expiry after 1; settings fixed to discovery, or changing at any time between discovery, a configured url and both | 3.3 million | the mutex is given back by its owner and discoveries are shared. Time passes between any two steps, also between the unlock and the evaluation. Where all requests discover, no script is freed twice, one is freed under its evaluation only if it expired meanwhile, and what the engine gets had not expired when its request looked |
| `paccache_manual` | a configured url | violation of `ScriptNeverDangles` | nothing is locked: a script is freed during its evaluation |
| `resolver_requests` | 2 instances with one request each for the pool and any from the configuration, 2 urls (one bypassed), lists of one and two proxies, every configuration, one worker, an enqueue that may fail | 680 thousand | no job uses what was freed, the answer is that of the last url, stays, and is handed out whole; requests complete, sleepers wake |
| `resolver_reuse` | 1 instance, two requests for the pool, no spurious wakeups | violation of `WaitMeansComplete` | the wait for the second request returns at once |
| `library` | counts: 8 users of 4 kinds where nothing fails, 6 that look at results where anything may. Evaluations: 3 users, two evaluations, either engine, a library that is missing, lacks a function or is whole, calls and initializations that fail or not, evaluations that overlap at any step | 674 thousand | what a user initialized is there until it cleans up; the last cleanup leaves nothing, also after an initialization that failed in the middle; an evaluation has its engine to the end and gives back what it made, once and on every path. Apart are the functions that two evaluations of JSC have in the shared table, and the engine of JSCore after a failed initialization |
| `ports` | the event: 1 waiter, no limit, limit 0 and 3, spurious wakeups, 2 sets. The pools: 3 jobs (2 on the polling pool), 2 callers, 2 workers. The resolvers: any of the four, one instance, up to 3 requests, deletion at any time | 73 thousand | a set is never lost, a wait that was set or has a limit ends; the polling pool implements `JobPool`, all jobs run, all calls return, the linked list stays whole, nobody touches a freed pool; each resolver implements `NativeRequest`, its requests end with a list or an error, the handler outlives its use, and so does the instance if its client waited |
| `system_config` | every interface with settings that change up to twice, between any two reads, to others that differ in several keys; each environment of a Linux session; each override; every rule of up to 3 symbols, and of 4 that begins with a star, against every host of up to 3, with ports, addresses and ranges; rules that are cut or run past their buffer; lists of proxies that fit, are cut, or run past the room for them | 166 thousand | the answer is the one that the settings give at moments that follow each other; a single rule that fits decides as it means, but for two named departures; a list is converted whole where it fits, and for WinHTTP only there |
| `bypass_rules` | lists of two rules | violation of `EachRuleCounts` | the second rule is compared with the first one in front of it |
| `wpad_discovery` | 2 discoveries, 2 adapters, 1 host, replies without a type; a header of up to 4 units against a buffer of 3, an announced body of up to 2, up to 4 units sent | 1.5 million | an answer is of its own discovery, every adapter is asked, a script is what was announced unless the server closed or the rest came with the header, discovery ends |

**Bounds.** Two callers and two workers are what every race of the pools needs (somebody asleep, somebody about to sleep), and
three jobs leave one queued while two run. Two requests are what a race for the cache needs, the early job is the third party;
times up to 3 with an expiry of 1 give before, at and after expiry for both clocks. One worker and two instances make one request
wait for the other; `MaxSpooled` is 1 in `resolver_requests` because no property of an answer survives a second spooled request,
and 2 in `resolver_reuse`. The header may be shorter than the buffer, fill it, or exceed it, the body may lie in the buffer,
across its end, or behind it, and the server may send less, as much as or more than it announced (`MaxSends`). Eight users are two
of each kind, so that for every counter one goes and one stays; two evaluations are what the table has to be shared, and two
native functions are one that a failure comes after and one that it comes before. The parts of `ports` share no state, so that a
behaviour studies one of them: their state spaces add up instead of multiplying, and no step of one could disturb another.
`MaxChanges` is 2, so that a setting may change and change back, and the mode, host and port of one answer may be of three
moments. A rule of four symbols has a star at either end and in the middle, and two in a row; the buffer of a rule (`HostMax`) has
6, so that rules of one list fit, are cut, and run past it together; addresses have 5 bits (IPv4) and 8 bits in bytes of 4 (IPv6),
with prefixes of 0, 3, 4, 5 and 8: nothing, inside a byte, a whole one, beyond, and all or too many. Lists of proxies have up to
65 entries, on either side of where they begin to be cut and to run over. Bounds appear as constants: `MaxTime`, `LastClock`,
`MaxSets`, `MaxSpooled`, `MaxRequests`, `MaxRounds`, `MaxSeconds`, `MaxHeader`, `MaxBody`, `MaxSends`, `MaxChanges`.
`CHECK_DEADLOCK FALSE` stands where the system stops for good: after a deletion or a cleanup, or at the bound of a clock, and
after the answer of a request.

**Fairness.** Only what runs by itself is fair: scheduled threads that hold or ask for a mutex, callbacks that return,
waits with a limit, the threads of the operating system. Nothing makes an application call the library, wakes a
condition variable spuriously or delivers a datagram. `recv` in `fetch_get` has no limit in the code, so the end of a
discovery rests on servers that go on or close; `getaddrinfo` and `connect` return. The polling pool needs its limit of
250 ms, which is why `LazyWake` is fair for a waiter nobody signals.

**Assumptions on the client**, stated in the modules: no call of the pool is in progress when it is deleted; an application of
`Resolver` waits before it asks again or deletes an instance (the library frees instances whose job is on its way), and in
`resolver_requests` it asks each instance once for what goes to the pool, for `resolver_reuse` shows that the wait means nothing
afterwards; settings are not torn while they are copied; nobody cleans up while an evaluation of its own runs, as `resolver.c`
joins its threads first. A request that `threadpool_enqueue` refused (`SpoolFails`) is not waited for: its caller was told that it
failed. An enqueue whose allocation fails returns before it touches the pool and is a stuttering step. Settings with an empty host
before others in the list of GNOME 3, environment variables that are set but empty and urls with an `@` in the path are not among
the inputs.

**Exceptions that properties name**, because the code does what they leave out: `ScriptAlive` a script that expired before its
evaluation, `ScriptWhole` a body that runs over its buffer, `ValuesBalanced` the functions of JSC evaluations that shared the table,
`EngineKept` JSCore after a failed initialization, `HeldIsReady` processes in which an initialization fails, `RuleDecides` the two
departures and rules that do not fit, `ConfigExplained` a WinHTTP list without an entry for the scheme (`NotListed`), `AnswerExplained` the
errors that WinRT drops and the limit on macOS, `RequestsEnd` an operation of WinRT that never started, `InstanceOutlivesRequest`
clients that delete before they waited, and the properties of an instance in `Resolver` one that a spurious wakeup let go. Section 5
lists each with its line.

## 4. Proofs

Every theorem is one of the specification that the runs check, for every value of the constants that the assumption of its module
allows: any sets of jobs, callers, threads, requests, instances, users, evaluations and urls, any number of adapters and hosts, any
clock. Where a theorem has a condition, the table says which.

| Module | Theorem | Says | Property |
| --- | --- | --- | --- |
| `Threadpool_proofs` | `TypeCorrect` | every variable keeps its type; neither counter goes below zero | `TypeOK` |
| | `CountersCorrect` | `busy_threads` and `queue_count` are what they count | `CountersAgree` |
| | `JobsCorrect` | an accepted job is queued, held by one worker or finished | `NoJobLostOrDuplicated` |
| | `FreeIsSafe` | the pool is freed when every worker was joined and nobody is in a call | `FreedPoolUntouched` |
| | `ThreadsCorrect` | never more threads than `max_threads`, and all of them in the list that is joined | |
| | `WakeupsCorrect` | no worker sleeps while a job is queued, unless its broadcast is still to come | `NoLostWakeup` |
| | `WaitCorrect` | `threadpool_wait` returns only when all jobs accepted before the call are finished | |
| | `StopCorrect` | no callback begins after the stop | |
| | `Refinement` | `Threadpool` implements `JobPool` | `ImplementsJobPool` |
| `PacCache_proofs` | `Disciplined` | the mutex is unlocked by the job that locked it, on every path | `LockDiscipline` |
| | `Shared` | requests that find the cache expired together make one discovery | `DiscoveryIsShared` |
| | `Alive` | where every request discovers, no script is freed twice, and none under its evaluation unless it expired since it was stored | `ScriptAlive` |
| | `Fresh` | there, what the engine gets had not expired when its request looked at its age, and is missing only if a fetch failed since | `ScriptFresh` |
| `Resolver_proofs` | `TypeCorrect` | types, and the pool's discipline, for any number of requests | |
| | `MemorySafe` | no job uses a deleted instance or the globals after cleanup; if `MaxSpooled = 1`, as all below | `NoUseAfterFree` |
| | `RightAnswer` | the list is one for the url asked last | `AnswerMatches` |
| | `Final` | it does not change before the next request | `AnswerIsFinal` |
| | `AllAttempted` | `get_next_proxy` hands out every proxy once, in order, for lists of any length | `EveryProxyAttempted` |
| | `WaitCompletes` | a wait that returns true means a job that is done, without spurious wakeups | |
| `Wpad_proofs` | `Fresh` | no delayed reply is taken for an answer of this discovery | `AnswerFresh` |
| | `AllAsked` | DNS is tried only after every adapter in use was asked | `EveryAdapterAsked` |
| | `Whole` | a script is as long as announced, shorter where the server closed, longer by what came with the header; for pieces and buffers of any size | `ScriptWhole` |
| `Library_proofs` | `Ready` | what a user initialized is there until it cleans up | `HeldIsReady` |
| | `LeavesNothing` | the last cleanup leaves the globals as the process found them | `NothingLeft` |
| | `EnginesReady` | both hold in `Engines` too, which implements `Lifecycle` (`LifecycleRefined`) | |
| | `ValuesReleased` | every evaluation releases each value it made once and on every path, whatever fails and however evaluations overlap; but for the functions of JSC evaluations that shared the table | |
| | `EnginesSafe` | it also keeps its engine to the end, whoever initializes, fails and cleans up meanwhile; JSCore's until an initialization failed | `EvaluationsSafe` |
| `Ports_proofs` | `SetsReachTheirThread` | a set of the event is not lost, if only one thread waits | `SetIsNotLost` |
| | `FreedPoolsSafe` | nobody touches a pool of Windows that was freed | `FreedPoolUntouched` |
| | `ListCorrect` | the linked list holds the unfinished jobs, in order | `ListIntact` |
| | `PollingPoolImplementsJobPool` | `ThreadpoolWinxp` implements `JobPool` | `ImplementsJobPool` |
| | `InstanceSafe` | who deletes after a wait takes the instance from no thread of the system | `InstanceOutlivesRequest` |
| | `HandlerSafe` | the handler of WinRT lives while instance or operation refers to it | `HandlerLifetime` |
| | `AnswersExplained` | a request whose client waited left a list or an error, but for every error that WinRT drops and the limit on macOS | `AnswerExplained` |
| | `NativeRefinement` | each of the four platform resolvers implements `NativeRequest` | `ImplementsNativeRequest` |
| `SystemConfig_proofs` | `WildcardCorrect` | `str_wildcard_match` finds the texts that the form of a pattern allows (`OfForm`) and those that end where a star of it begins (`EndsEarly`), for texts and patterns of any length | |
| | `RuleDecided` | the loop over a list of one rule that fits its buffer does what the rule means: wildcards, ports, names in brackets, ranges of addresses of any width; but for the departures of `Departs` | |
| | `RulesDecide` | so does the answer of a request, wherever the list came from; if `HostsListed`, `KdeFilesRecord`, `RulesWritten` | `RuleDecides` |
| | `UriListsWhole` | a list of proxies of any length is converted whole where its uris fit the room for them, with schemes counted twice for a script's; if `ListsTyped` | `UriListWhole` |
| | `ConfigCorrect` | an answer is that of the settings at moments that follow each other, however often any of them change; if `HostsListed`, `KdeFilesRecord` | `ConfigExplained` |

**Conditions.** Each one says something about the code, not about the provers.

- `AllDiscover`, in `ScriptAlive` and `ScriptFresh` themselves: every request discovers. `paccache_manual` shows what happens
  elsewhere.
- `MaxSpooled = 1`: an instance goes to the pool once. The event of a second request is set from the first one, which
  `resolver_reuse` shows, and nothing about an answer survives that. Requests that the configuration answers are not limited, nor
  are instances.
- No spurious wakeups, in `WaitCompletes`, `Final`, `AllAttempted` and the part of `MemorySafe` about instances (there in the
  properties themselves): `event_wait` has no loop.
- One waiting thread, in `SetsReachTheirThread`: `event_set` wakes one of several sleepers, and no caller of the library has
  several.
- `HostsListed`, `RulesWritten`: hosts to ignore are texts of symbols and, outside GNOME 2, not empty (GNOME 3 miscounts its
  buffer at an empty one); a name in angle brackets is a rule by itself and no part of a host.
- `KdeFilesRecord`: the file of KDE has the settings that are in force when the library is initialized, in one line for each key
  in the section of the proxy; the same keys may be in sections whose names do not begin that one's (`get_config_value` compares
  prefixes).
- `FitsBuffer`, in `RuleDecides` itself: the rule, and the star put before a dot, fit into `HOST_MAX`. A longer one is cut, or
  runs past the end.
- `ListsTyped`: a list has one entry or more, each with a port and a length; there is no limit to either.

`MCSystemConfig` states `HostsListed`, `KdeFilesRecord`, `RulesWritten` and `ListsTyped` of its own instance as an `ASSUME`, which
TLC evaluates on every run of it: the settings, files, rules and lists of `system_config` are among those the theorems are about.

**Inductive invariants.** None of the properties is inductive by itself; each module says what has to be added, and has a lemma
per action or per conjunct that shows it kept.

- `Threadpool_proofs`: that `busy_threads` stays natural needs that it counts the workers in a job (`CountersAgree`); that a job
  is not lost when `threadpool_delete` drops the queue needs that nothing but the deletion is under way by then (`DeleteInv`);
  that nobody touches the freed pool needs that the list of handles is without repetition and holds every live worker
  (`ThreadInv`), for `pthread_join` goes by that list; that a waiter is owed only accepted jobs (`OwedInv`) and running workers
  hold jobs (`HeldJobs`) type the rest. `StepImplements` maps each action to the one of `JobPool` it is (dequeue to `Start`, the
  end of the callback to `Finish`, the end of a wait to `EndWait`, which needs `ReturnPaid`: with both counters at zero everything
  owed is finished) or to a stutter.
- `PacCache_proofs`: `LockInv` says where the owner of the mutex may be and that the time in the cache is that of the last
  discovery. `CacheInv` adds that the mutex covers everything from discovery to the unlock (`Covered`), that the url found is the
  one in the cache (`SameUrl`), that the times of the cache only grow and a request went on from a look at them (`Looked`), that a
  script is replaced only when it has expired, and so expired if it was freed (`ReplacedExpired`), that a new script is not among
  the freed ones (`FetchedNew`), that the cache holds a freed script only until the next one is stored (`StoredAlive`), and what
  the engine gets (`Handed`). Nothing in it bounds how long a step takes.
- `Resolver_proofs`: `JobInv` is the heart: while a job is queued or runs its instance is live, unanswered, without a list, and
  its event is unset with nobody woken, so that the client can neither delete it nor ask again. `AskInv` says where an answer may
  come from; `PoolInv`, that a job is in one place.
- `Wpad_proofs`: the transaction id is a second; `ReplyInv` says that what was sent in the present second tells what the server
  offers now. `TriedInv` says which adapters were asked up to the present one, `FetchInv` how much of a reply has been received.
- `Library_proofs`, counts: one lemma per C function says what it does to the counts (the `...Effect` lemmas). `IInv` bounds the
  counts by the numbers of users that hold a module: from above whatever fails (`Upper`, hence `LeavesNothing`), from below where
  callers see the failures (`Lower`, `LowerEngine`, hence `Ready`). Cardinalities of the sets of users carry the induction.
- `Library_proofs`, evaluations: every step is one of `Lifecycle` or a stutter of it, so that its theorems carry over.
  `RunningInv` ties an evaluation to the count its user holds and `LibraryInv` says what of the library is loaded. `ValuesInv`
  follows each value from its making to its release, for every evaluation (`EveryEvaluationInv`); the functions go through the
  static table (`TableInv`), and those of an evaluation that ran alone (`AloneInv`) stay there until they are released (`OwnInv`).
- `Ports_proofs`: one invariant per part. `XpInv` is that of the pthread pool without the condition variables: `JobPool` is
  implemented whatever an auto-reset event swallows. `VistaInv` needs that no job is added twice and that no two callers submit
  the same one. `RequestInv` says that a thread works for a request only until it sets the event, `RefsInv` that the handler's
  count is that of the references to it, `AttachedInv` that it finds an instance that is there. In `ClientStepImplements` a step
  of any of the four resolvers is a request, work, or an answer, and so a step of `NativeRequest`.
- `SystemConfig_proofs`: `ConfigInv`. That an answer is explained by some moments of `past` is not inductive, for the reads before
  it must have been explained by moments that came before. `Stage` says what the reads up to the present step brought, as reads of
  settings at moments of `past` in the order of the steps; each step adds the present moment, which is the last. `Answered` says
  it of the answer. A change adds a moment and leaves the earlier ones in place, so that what was seen stays seen (`SeenStays`).
  `Place` and `PastIs` tie the step to the interface and `past` to the settings.

The loops and the recursion of the configuration's code (`str_wildcard_match`, the split of a list into rules, the loop of
`should_bypass_proxy`, the sums of a list's lengths, the joining of ignored hosts) are functions defined by their own values. The
provers take nothing of such a function for granted: `SystemConfig_proofs` first shows that one exists (`LoopExists`: from a
function that is right up to some turn one is made that is right up to the next), then what holds after each turn (`EveryTurn`, an
induction over the set of turns at which it holds, which the provers can instantiate where they cannot take an operator).
`WildcardCorrect` goes backwards over the pattern in this way, against a reference that cuts the text into stretches (`OfForm`),
with the early end of the code as a disjunct of its own (`EndsEarly`); `InRange4Says` and `InRange6Says` show that the masks
compare the leading bits of two addresses and no more, for prefixes that end in a byte, at its edge, and at none or all of the
bits.

The attempt at `RuleDecided` found a flaw in the reference: in `RuleSays`, two cases of a `CASE` overlapped (a pattern that does not match,
with no port or with the url's), and TLA+ leaves open which one counts, though TLC takes the first. The cases now exclude each other.

`ListIntact` is stated over the positions of jobs in the order of adding, with neighbours as positions that have no unfinished job
between them; that neighbours exist is the well-foundedness of `<`. A filtered sequence (`SelectSeq`) would say the same and is defined
by recursion, which the provers cannot unfold for every length. The assumption of `Resolver` says that lists are sequences of proxies,
none of them empty, and that `NoList` is none of their ends, which is what a pointer into a list that may be NULL needs.

`WaitMeansFinished`, `NoStartAfterStop` and `ThreadsBounded` of `Threadpool` are proved and have no place of their own in a
configuration: the first two are part of what `ImplementsJobPool` checks. `WaitCompletes` states `WaitMeansComplete` for one
spooled request; as a property of `resolver_reuse` it is violated, by a second one.

**Only model-checked.** Liveness, because fairness and `ENABLED` are out of the provers' reach: `JobsRun`, `LoneWaitReturns` and
`DeleteTerminates` of the pool, `WaitsEnd`, `CallsReturn` and `RequestsEnd` of `Ports`, `RequestsComplete` and `SleepersWake` of
`Resolver`, `DiscoveryEnds` of `Wpad`. Every invariant and every other action property of a passing run is a theorem. Lists of
several rules stay with TLC as well: `bypass_rules` shows what the code makes of them.

## 5. Where code and documentation disagree

Shown by a run:

- `threadpool_pthread.c:153` signals `lazy_cond` once. With two threads in `threadpool_wait` one stays there
  (`threadpool_two_waiters`). One waiter alone always gets out (`LoneWaitReturns`).
- `event_pthread.c:42` gives a duration where an absolute time is due, so `proxy_resolver_wait` with a limit returns false at once
  (`event_false`).
- `resolver_posix.c:126` locks only where discovery is on. With a configured url `autoConfigUrl` is NULL, each request counts the
  url as new, and frees the script that another one evaluates (`paccache_manual`).
- `resolver.c:146` spools a request without resetting the completion event. The wait for the second spooled request of an instance
  returns true at once, with the list of the first, while the job is queued or runs (`resolver_reuse`).
- `util.c:530` appends each rule to a buffer that nothing clears. With the list `b,a` the second rule is compared as `ba`, so the
  host `a` goes through the proxy (`bypass_rules`); a list of one rule that fits the buffer decides as the rule means, but for two
  departures named below (`RuleDecides`).

Met while modelling and part of the models, with no run of their own:

- Event: `pthread_cond_wait` is not in a loop, so a spurious wakeup ends a wait; `resolver_requests` states what holds without one
  where it matters.
- Posix resolver: the mutex is given back at 138 and the script evaluated at 151, for as long as that takes. A script that expires
  in between is freed and replaced by another request (107) under its evaluation: `ScriptAlive` allows that and nothing else. A
  script that DNS found has no url and the request that found it goes direct (line 72); the url is compared with the one that
  replaced it (90); a failed fetch is cached as no script (97); a failed evaluation has error 0 (152).
- Initialization: `proxyres_global_init` ignores the results of its parts; a failed `proxy_resolver_global_init` gives away an
  engine it never counted; `proxy_resolver_posix_init_ex` returns the result of its own cleanup (270);
  `proxy_config_global_cleanup` returns false, so the last cleanup does; clearing one override turns discovery on although the
  other one is set.
- Platform resolvers: deletion waits for no request on any of them. WinRT detaches its handler, which notices (155) and goes on to
  use the instance (235, 242) all the same: `InstanceOutlivesRequest` is for clients that waited. On macOS the event stays set as
  on posix, and the model asks once.
- WinRT takes one request per instance (a second drops the first handler), overwrites errors (235, 337) and never sets the event
  when the operation cannot start (331): `RequestsEnd` excepts that. On Windows 8 and XP, delete passes the address of the pointer
  to cancel, so the handle is not closed; on XP a proxy that is not bypassed gives an error and a bypassed one the list (127). On
  macOS the limit of the run loop leaves neither list nor error.
- Windows pools: `threadpool_delete` of the Vista pool waits for no callback; the models have the caller wait first, as
  `threadpool.h` and the tests do.
- Discovery: a reply without the option for its type crashes (`wpad_dhcp_posix.c:261-263` look at the option that is not there).
  One datagram is read per request, so a stray one ends the attempt; without the right to port 68 no reply comes;
  `wpad_dhcp_adapter` drops the url that the platform's own function found (`wpad_dhcp.c:24`).
- Fetch: what came with the header is copied to a buffer of the announced length, all of it (`fetch_posix.c:159-161`), so that a
  reply that is longer than announced and comes within 1024 bytes runs past the end; `ScriptWhole` names that case. The status
  line is not read, the part of a script that came before an early close is a result, and nothing limits the time.
- Configuration: with settings that change between two reads the mode, host, port and ignored hosts of GNOME are of different
  times, and the answer one that no settings ever gave: `ConfigExplained` says only that the times follow each other in the order
  of the reads. What the other interfaces read for one getter is of one time; KDE is read once, at initialization.
  `get_config_value` takes a line whose key is a prefix of the key, under a section whose name is a prefix of the section, and
  every line before the first header. The ignored hosts of KDE, macOS and the environment count whether or not a proxy is switched
  on. GNOME 3 stops counting the size of its list at an empty host and goes on copying (`config_gnome3.c:117`). `config_env.c` frees what
  `getenv` owns if the variable is set but empty (23, 40).
- Lists: `get_winhttp_proxy_by_scheme` returns the whole list if no entry is for the scheme, where `doc/proxy_config.md:49,59`
  promise `host:port`, or NULL if none is configured: in `ConfigExplained` that is a case of its own (`NotListed`), apart from
  what the settings mean (`ProxyFor`). `get_url_from_host` is passed a name where it expects a url, so that the scheme of the
  request never counts. `convert_proxy_list_to_uri_list` counts the scheme of an entry twice (`util.c:454`); a list of more than
  14 entries, or of more than 10 without a type, may be cut, and once the count has passed the room, `strncat` gets a size that
  wrapped around (447-458): nothing limits what follows, which runs past the end. The function for WinHTTP counts right and runs
  past the end of longer lists too (`util_win.c:160-176`). Windows XP converts a list only if the proxy was bypassed before.
- Rules: a rule is cut to its buffer, which nothing clears, and appended with its own length as the limit (`util.c:522-530`), so
  that the rules of a list together run past `HOST_MAX` bytes. A text that ends where a star of the pattern begins matches,
  whatever follows the star, so that `a*b` matches `a` (`util.c:171`); and `<local>` covers literals of IPv6, which have no dot
  (504), against the rules of Chromium cited at `util.c:480`. These two are no part of the reference of `RuleDecides` but named
  departures from it (`Departs`).
- Engines: `proxy_execute_jsc_create` returns an instance of a library that lacks a function, where `doc/proxy_execute.md`
  promises NULL upon failure: the cleanup in its `jsc_init_error` does nothing. Overlapping evaluations on JSC overwrite each
  other's functions in the static table, and `resolver_posix.c` evaluates in parallel, for it gives back the mutex before; an
  evaluation that fails early releases what the one before left there. `execute_jscore.c` resets its `pthread_once_t` from within
  the `pthread_once` (518): whether the library is looked for again is not defined.
- Names: the loop of `dns_resolve_filter` does not advance when `getnameinfo` fails (`net_util.c:160`).

## 6. What is not modelled, and the plan

Done: the core (pool, event, cache, front end, lifecycle), the Windows pools, the platform resolvers, discovery and fetch,
the configuration with its rules and lists, the engines, and the proofs of the safety properties.

Every safety property of a passing run is proved. What is left to prove: what `JobPool` promises of the
Vista pool, whose order of starts is that of the system, and that a list of rules decides as its rules do, which needs the buffer of
`util.c:530` cleared first.

Not modelled: `resolver_gnome3.c`, which is disabled (`resolver.c:256-258` is commented out, and `doc/proxy_resolver.md` says so);
`dns_resolve` and `my_ip_address` of `net_util.c` and the native functions of the engines that call them (one call
of the system's resolver and a copy of its result), `fetch_curl.c` (libcurl does the transfer), `wpad_dhcp_win.c` and
`wpad_dhcp_mac.c` (one library call each), `execute_wsh.c` (straight-line COM over interfaces this repository does not
define), `net_adapter*.c` (enumeration without state), `mozilla_js.h` (third-party), and the command line tools and
tests, which are the clients that `Resolver` models.

------------------------------ MODULE Resolver ------------------------------
(***************************************************************************)
(* src/resolver.c over the resolver of src/resolver_posix.c: instances     *)
(* that applications create, ask, wait for, iterate and delete, and the    *)
(* jobs that answer them on the thread pool.  The pool is what JobPool     *)
(* promises, the completion event is that of EventState, and what a job    *)
(* does with the PAC script (module PacCache) is one step: the list for    *)
(* the url or none.                                                        *)
(*                                                                         *)
(* Each instance belongs to one application thread, which waits until the  *)
(* request is complete before it asks again and before it deletes the      *)
(* instance: the library frees an instance whose job is still on its way,  *)
(* so this is what it demands of them.  It also demands that no more than  *)
(* one request of an instance goes to the pool, MaxSpooled = 1: the event  *)
(* is never reset, see WaitMeansComplete.                                  *)
(***************************************************************************)
EXTENDS Naturals, Sequences, FiniteSets, EventState

CONSTANTS Instances,     \* instances of proxy_resolver_s
          Startup,       \* the discovery job of proxy_resolver_posix_init_ex
          Urls,          \* the urls to resolve
          Answers,       \* Answers[u]: the proxies the PAC script gives for u
          Manual,        \* the list for the manually configured proxy
          DirectList,    \* the list "direct://"
          NoList,        \* NULL, for a list and for listp
          NoUrl,         \* NULL, for a url
          Bypassed,      \* the urls on the bypass list
          Configs,       \* what config.c may answer: autoUrl, proxy, autoDiscover
          MaxRunning,    \* threads of the pool
          MaxSpooled,    \* bound on the requests of one instance that are spooled
          Spurious       \* whether condition variables wake spuriously: the cases

Lists == {Answers[u] : u \in Urls} \cup {Manual, DirectList}
Spooled == Instances \X (1 .. MaxSpooled)
Jobs == Spooled \cup {Startup}
Proxies == UNION {{l[i] : i \in DOMAIN l} : l \in Lists}
Suffixes == UNION {{SubSeq(l, i, Len(l)) : i \in DOMAIN l} : l \in Lists}

\* A string that is not NULL has at least one token for str_sep_dup.
ASSUME ResolverAssumption ==
    /\ Startup \notin Spooled
    /\ Lists \subseteq Seq(Proxies) \ {<<>>}
    /\ NoList \notin Suffixes /\ NoUrl \notin Urls
    /\ Bypassed \subseteq Urls
    /\ Configs \subseteq [autoUrl : BOOLEAN, proxy : BOOLEAN, autoDiscover : BOOLEAN]
    /\ MaxRunning \in Nat \ {0} /\ MaxSpooled \in Nat \ {0}
    /\ Spurious \subseteq BOOLEAN

VARIABLES
    initialized,  \* g_proxy_resolver and g_proxy_resolver_posix are set up
    pending, running, done, closed,  \* g_proxy_resolver.threadpool
    memory,       \* memory[r]: "none", "live" or "freed"
    url,          \* url[r]: proxy_resolver->url
    list,         \* list[r]: proxy_resolver->list
    listp,        \* listp[r]: what is left from proxy_resolver->listp on
    baseList,     \* baseList[r]: the list of the posix instance
    complete,     \* complete[r]: its event
    step,         \* step[j]: what a running job does next
    spurious,     \* the condition variables of this process wake spuriously
    asked,        \* history: the url of the last request of r
    answered,     \* history: proxy_resolver_wait returned true for it
    spooled,      \* history: how many requests of r went to the pool
    attempted     \* history: the proxies handed out since

pool == <<pending, running, done, closed>>
instance == <<memory, url, list, listp, baseList, complete>>
history == <<asked, answered, spooled, attempted>>
vars == <<initialized, pool, instance, step, spurious, history>>

Pool == INSTANCE JobPool WITH Callers <- {}, waiting <- <<>>, owed <- <<>>

Init ==
    /\ spurious \in Spurious
    /\ initialized = TRUE
    /\ Pool!Init \/ (pending = <<Startup>> /\ running = {} /\ done = {} /\ closed = FALSE)
    /\ memory = [r \in Instances |-> "none"]
    /\ url = [r \in Instances |-> NoUrl]
    /\ list = [r \in Instances |-> NoList]
    /\ listp = [r \in Instances |-> NoList]
    /\ baseList = [r \in Instances |-> NoList]
    /\ complete = [r \in Instances |-> NewEvent]
    /\ step = [j \in Jobs |-> "none"]
    /\ asked = [r \in Instances |-> NoUrl]
    /\ answered = [r \in Instances |-> FALSE]
    /\ spooled = [r \in Instances |-> 0]
    /\ attempted = [r \in Instances |-> <<>>]

\* r is inside proxy_resolver_wait.
InWait(r) == r \in complete[r].asleep \cup complete[r].woken
Idle(r) == memory[r] = "live" /\ ~InWait(r)

-----------------------------------------------------------------------------
Create(r) ==
    /\ initialized /\ ~closed
    /\ memory[r] = "none"
    /\ memory' = [memory EXCEPT ![r] = "live"]
    /\ UNCHANGED <<spurious, initialized, pool, url, list, listp, baseList, complete, step, history>>

\* proxy_resolver_get_proxies_for_url_from_system_config.
SystemList(config, u) ==
    CASE config.autoUrl      -> NoList
      [] ~config.autoUrl /\ config.proxy ->
            IF u \in Bypassed THEN DirectList ELSE Manual
      [] ~config.autoUrl /\ ~config.proxy ->
            IF config.autoDiscover THEN NoList ELSE DirectList

\* proxy_resolver_get_proxies_for_url, answered from the configuration or
\* spooled to the pool.
Ask(r, u) ==
    /\ Idle(r)
    /\ asked[r] = NoUrl \/ answered[r]
    /\ listp' = [listp EXCEPT ![r] = NoList]
    /\ asked' = [asked EXCEPT ![r] = u]
    /\ answered' = [answered EXCEPT ![r] = FALSE]
    /\ attempted' = [attempted EXCEPT ![r] = <<>>]
    /\ UNCHANGED <<spurious, initialized, memory, baseList, complete, step>>

\* Mutant: the list of the previous request is kept.
Spool_KeepsList(r, u) ==
    /\ Ask(r, u)
    /\ \E config \in Configs : SystemList(config, u) = NoList
    /\ url' = [url EXCEPT ![r] = u]
    /\ spooled[r] < MaxSpooled
    /\ spooled' = [spooled EXCEPT ![r] = @ + 1]
    /\ Pool!Submit(<<r, spooled[r] + 1>>)
    /\ UNCHANGED list

Spool(r, u) ==
    /\ Ask(r, u)
    /\ \E config \in Configs : SystemList(config, u) = NoList
    /\ list' = [list EXCEPT ![r] = NoList]
    /\ url' = [url EXCEPT ![r] = u]
    /\ spooled[r] < MaxSpooled
    /\ spooled' = [spooled EXCEPT ![r] = @ + 1]
    /\ Pool!Submit(<<r, spooled[r] + 1>>)

\* threadpool_enqueue fails for want of memory and get_proxies_for_url returns
\* false: the old list and url are gone, and there is no request to wait for.
SpoolFails(r, u) ==
    /\ Idle(r)
    /\ asked[r] = NoUrl \/ answered[r]
    /\ spooled[r] < MaxSpooled
    /\ \E config \in Configs : SystemList(config, u) = NoList
    /\ list' = [list EXCEPT ![r] = NoList]
    /\ listp' = [listp EXCEPT ![r] = NoList]
    /\ url' = [url EXCEPT ![r] = u]
    /\ asked' = [asked EXCEPT ![r] = NoUrl]
    /\ answered' = [answered EXCEPT ![r] = FALSE]
    /\ attempted' = [attempted EXCEPT ![r] = <<>>]
    /\ UNCHANGED <<spurious, initialized, pool, memory, baseList, complete, step, spooled>>

AnswerFromConfig(r, u) ==
    /\ Ask(r, u)
    /\ \E config \in Configs :
          /\ SystemList(config, u) # NoList
          /\ list' = [list EXCEPT ![r] = SystemList(config, u)]
    /\ UNCHANGED <<url, spooled, pool>>

\* proxy_resolver_get_list.
Got(r) == IF list[r] # NoList THEN list[r] ELSE baseList[r]

\* proxy_resolver_wait returns true.
Complete(r) ==
    /\ listp' = [listp EXCEPT ![r] = Got(r)]
    /\ answered' = [answered EXCEPT ![r] = TRUE]
    /\ attempted' = [attempted EXCEPT ![r] = <<>>]
    /\ UNCHANGED <<spurious, initialized, pool, memory, url, list, baseList, step, asked, spooled>>

WaitReturns(r) ==
    /\ Idle(r)
    /\ asked[r] # NoUrl
    /\ list[r] # NoList \/ complete[r].signalled
    /\ Complete(r)
    /\ UNCHANGED complete

\* Mutant: proxy_resolver_wait looks at the event of the request only, and
\* sleeps although the list came from the configuration.
WaitSleeps_OnList(r) ==
    /\ Idle(r)
    /\ asked[r] # NoUrl
    /\ ~complete[r].signalled
    /\ complete' = [complete EXCEPT ![r] = EventSleep(@, r)]
    /\ UNCHANGED <<spurious, initialized, pool, memory, url, list, listp, baseList, step, history>>

WaitSleeps(r) ==
    /\ Idle(r)
    /\ asked[r] # NoUrl
    /\ list[r] = NoList /\ ~complete[r].signalled
    /\ complete' = [complete EXCEPT ![r] = EventSleep(@, r)]
    /\ UNCHANGED <<spurious, initialized, pool, memory, url, list, listp, baseList, step, history>>

WaitResumes(r) ==
    /\ r \in complete[r].woken
    /\ complete' = [complete EXCEPT ![r] = EventResume(@, r)]
    /\ Complete(r)

\* A wait with a limit may give up at any time.
WaitExpires(r) ==
    /\ r \in complete[r].asleep
    /\ complete' = [complete EXCEPT ![r] = EventExpire(@, r)]
    /\ UNCHANGED <<spurious, initialized, pool, memory, url, list, listp, baseList, step, history>>

SpuriousWakeup(r) ==
    /\ spurious
    /\ r \in complete[r].asleep
    /\ complete' = [complete EXCEPT ![r] = Awaken(@, r)]
    /\ UNCHANGED <<spurious, initialized, pool, memory, url, list, listp, baseList, step, history>>

\* Mutant: the last token is taken for the end of the list.
AfterToken_NoLast(l) == IF Len(l) <= 2 THEN NoList ELSE Tail(l)

\* str_sep_dup: where listp points once it handed out the first token of l.
AfterToken(l) == IF Len(l) = 1 THEN NoList ELSE Tail(l)

\* proxy_resolver_get_next_proxy.
NextProxy(r) ==
    /\ Idle(r)
    /\ listp[r] # NoList
    /\ attempted' = [attempted EXCEPT ![r] = Append(@, Head(listp[r]))]
    /\ listp' = [listp EXCEPT ![r] = AfterToken(listp[r])]
    /\ UNCHANGED <<spurious, initialized, pool, memory, url, list, baseList, complete, step, asked,
                   answered, spooled>>

\* proxy_resolver_delete; nothing in it waits for a job.
Delete(r) ==
    /\ Idle(r)
    /\ asked[r] = NoUrl \/ answered[r]
    /\ memory' = [memory EXCEPT ![r] = "freed"]
    /\ UNCHANGED <<spurious, initialized, pool, url, list, listp, baseList, complete, step, history>>

-----------------------------------------------------------------------------
Client(j) == j[1]

\* A worker calls the job.
JobStarts ==
    /\ Pool!Start
    /\ step' = [step EXCEPT ![Head(pending)] =
                       IF Head(pending) = Startup THEN "finish" ELSE "evaluate"]
    /\ UNCHANGED <<spurious, initialized, instance, history>>

\* Mutant: the event is set before the list is there.
JobStores_Late(j) ==
    \/ /\ step[j] = "evaluate"
       /\ step' = [step EXCEPT ![j] = "store"]
       /\ \E e \in EventSet(complete[Client(j)]) : complete' = [complete EXCEPT ![Client(j)] = e]
       /\ UNCHANGED <<spurious, initialized, pool, memory, url, list, listp, baseList, history>>
    \/ /\ step[j] = "store"
       /\ step' = [step EXCEPT ![j] = "signal"]
       /\ baseList' = [baseList EXCEPT ![Client(j)] = Answers[url[Client(j)]]]
       /\ UNCHANGED <<spurious, initialized, pool, memory, url, list, listp, complete, history>>

\* The url is evaluated and its list, if any, stored in the instance.
JobStores(j) ==
    /\ step[j] = "evaluate"
    /\ \E l \in {Answers[url[Client(j)]], DirectList, baseList[Client(j)]} :
          baseList' = [baseList EXCEPT ![Client(j)] = l]
    /\ step' = [step EXCEPT ![j] = "signal"]
    /\ UNCHANGED <<spurious, initialized, pool, memory, url, list, listp, complete, history>>

\* Mutant: the event is set and the instance is still used.
JobSignals_Early(j) ==
    /\ step[j] = "signal"
    /\ \E e \in EventSet(complete[Client(j)]) : complete' = [complete EXCEPT ![Client(j)] = e]
    /\ UNCHANGED <<spurious, initialized, pool, memory, url, list, listp, baseList, step, history>>

\* Mutant: only a request that has a list completes.
JobSignals_OnlyWithList(j) ==
    /\ step[j] = "signal"
    /\ step' = [step EXCEPT ![j] = "finish"]
    /\ IF baseList[Client(j)] = NoList
       THEN UNCHANGED complete
       ELSE \E e \in EventSet(complete[Client(j)]) : complete' = [complete EXCEPT ![Client(j)] = e]
    /\ UNCHANGED <<spurious, initialized, pool, memory, url, list, listp, baseList, history>>

\* event_set, the job's last access to the instance.
JobSignals(j) ==
    /\ step[j] = "signal"
    /\ step' = [step EXCEPT ![j] = "finish"]
    /\ \E e \in EventSet(complete[Client(j)]) : complete' = [complete EXCEPT ![Client(j)] = e]
    /\ UNCHANGED <<spurious, initialized, pool, memory, url, list, listp, baseList, history>>

JobFinishes(j) ==
    /\ step[j] = "finish"
    /\ Pool!Finish(j)
    /\ step' = [step EXCEPT ![j] = "none"]
    /\ UNCHANGED <<spurious, initialized, instance, history>>

\* proxy_resolver_global_cleanup, once every instance is deleted: the pool is
\* deleted first, which lets the running jobs end, and then the globals.
BeginCleanup ==
    /\ initialized
    /\ \A r \in Instances : memory[r] # "live"
    /\ Pool!Close
    /\ UNCHANGED <<spurious, initialized, instance, step, history>>

EndCleanup ==
    /\ initialized
    /\ Pool!Discard
    /\ initialized' = FALSE
    /\ UNCHANGED <<spurious, instance, step, history>>

Next ==
    \/ \E r \in Instances :
          \/ Create(r) \/ Delete(r)
          \/ \E u \in Urls : Spool(r, u) \/ SpoolFails(r, u) \/ AnswerFromConfig(r, u)
          \/ WaitReturns(r) \/ WaitSleeps(r) \/ WaitResumes(r) \/ WaitExpires(r)
          \/ SpuriousWakeup(r)
          \/ NextProxy(r)
    \/ JobStarts
    \/ \E j \in Spooled : JobStores(j) \/ JobSignals(j)
    \/ \E j \in Jobs : JobFinishes(j)
    \/ BeginCleanup \/ EndCleanup

Spec == Init /\ [][Next]_vars

\* The workers run.  A client that was woken returns from its wait.
FairSpec ==
    /\ Spec
    /\ WF_vars(JobStarts)
    /\ \A j \in Spooled : WF_vars(JobStores(j)) /\ WF_vars(JobSignals(j))
    /\ \A j \in Jobs : WF_vars(JobFinishes(j))
    /\ \A r \in Instances : WF_vars(WaitResumes(r))

-----------------------------------------------------------------------------
NullableLists == Lists \cup {NoList}

TypeOK ==
    /\ spurious \in Spurious /\ initialized \in BOOLEAN
    /\ pending \in Seq(Jobs)
    /\ running \subseteq Jobs /\ done \subseteq Jobs /\ closed \in BOOLEAN
    /\ memory \in [Instances -> {"none", "live", "freed"}]
    /\ url \in [Instances -> Urls \cup {NoUrl}]
    /\ list \in [Instances -> NullableLists]
    /\ listp \in [Instances -> Suffixes \cup {NoList}]
    /\ baseList \in [Instances -> NullableLists]
    /\ complete \in [Instances -> EventStates(Instances)]
    /\ \A r \in Instances : complete[r] \in EventStates({r})
    /\ step \in [Jobs -> {"none", "evaluate", "store", "signal", "finish"}]
    /\ asked \in [Instances -> Urls \cup {NoUrl}]
    /\ answered \in [Instances -> BOOLEAN]
    /\ spooled \in [Instances -> 0 .. MaxSpooled]
    /\ attempted \in [Instances -> Seq(Proxies)]

\* A spurious wakeup makes proxy_resolver_wait return true too early, so what
\* follows on the answer holds where condition variables do not do that.
\*
\* A job that may still use its instance, queued or running, has one to use,
\* and the globals outlive every job.
NoUseAfterFree ==
    /\ TypeOK
    /\ ~spurious => \A j \in Spooled :
          j \in Pool!Pending \/ step[j] \in {"evaluate", "store", "signal"}
              => memory[Client(j)] = "live"
    /\ ~initialized => running = {} /\ pending = <<>>

\* Once proxy_resolver_wait returned true, the list is one for the url that was
\* asked last: from the configuration, from the PAC script, direct or none.
AnswerMatches ==
    \A r \in Instances : answered[r] =>
        Got(r) \in {Answers[asked[r]], DirectList, NoList} \cup {SystemList(c, asked[r]) : c \in Configs}

\* proxy_resolver_wait "waits for the proxy resolution process to complete": once
\* it returned true, no job of the instance is still to come or at work on it.
WaitMeansComplete ==
    \A j \in Spooled : answered[Client(j)] =>
        j \notin Pool!Pending /\ step[j] \notin {"evaluate", "store", "signal"}

\* That list does not change before the next request.
AnswerIsFinal ==
    [][~spurious => \A r \in Instances : answered[r] /\ answered'[r] => Got(r)' = Got(r)]_vars

\* Each proxy in the list is attempted, in its order: what was handed out and
\* what is left make up the list.
EveryProxyAttempted ==
    ~spurious => \A r \in Instances : answered[r] /\ Got(r) # NoList =>
        Got(r) = attempted[r] \o (IF listp[r] = NoList THEN <<>> ELSE listp[r])

\* A request that went to the pool completes, unless its instance is deleted.
RequestsComplete ==
    \A j \in Spooled : j \in Pool!Pending ~>
        complete[Client(j)].signalled \/ memory[Client(j)] = "freed"

\* A client asleep in proxy_resolver_wait without a limit is woken.
SleepersWake ==
    \A r \in Instances : r \in complete[r].asleep ~> r \notin complete[r].asleep
=============================================================================

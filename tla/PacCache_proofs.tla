--------------------------- MODULE PacCache_proofs ---------------------------
(***************************************************************************)
(* Proofs about PacCache, for any set of requests, any urls, settings and  *)
(* expiry, and a clock of any range.                                       *)
(*                                                                         *)
(* That the mutex is given back by its owner is inductive once it is said  *)
(* where its owner may be.  That discoveries are shared needs beside it    *)
(* that a job discovers as the owner, and that the history agrees with the *)
(* time in the cache.  What the engine gets rests on more: CacheInv.       *)
(***************************************************************************)
EXTENDS PacCache, TLAPS

-----------------------------------------------------------------------------
(* The inductive invariants.                                               *)

\* A job that gets a script has a url to get it from.
UrlInv == \A j \in Jobs : pc[j] \in {"check", "fetch"} => url[j] # NoUrl

\* Discovery goes on under the mutex, and the cache holds the time of the last one.
DiscoverInv ==
    /\ \A j \in Jobs : pc[j] \in {"discover", "wpad"} => mutex = j
    /\ lastWpadTime = discoveredAt

LockInv == LockDiscipline /\ DiscoverInv
TypeInv == TypeOK /\ UrlInv

\* The steps after which a script is evaluated with no other look at its age, and those
\* that replace it.
Uses == {"unlock", "execute", "evaluate"}
Replaces == {"fetch", "free", "store"}

\* A job has yet to get the script that bears its name.
Before(j) ==
    \/ pc[j] \in {"queued", "lock", "discover", "wpad", "check"} \cup Replaces
    \/ pc[j] = "choose" /\ url[j] # NoUrl

\* The mutex covers all from discovery to the unlock, ...
Covered ==
    \A j \in Jobs :
        pc[j] \in {"discover", "wpad", "choose", "check", "unlock"} \cup Replaces => mutex = j

\* ... so that the url found is the one of the cache, ...
SameUrl == \A j \in Jobs : pc[j] \in {"choose", "check", "fetch"} => url[j] = autoConfigUrl

\* ... the times of the cache only grow, and a request went on from a look at them, ...
Looked ==
    /\ lastFetchTime <= now
    /\ \A j \in Jobs : pc[j] \in Uses =>
          lastFetchTime > 0 /\ lookedAt[j] <= lastFetchTime + Expire

\* ... a script is replaced only when it expired, and so expired if it was freed, ...
ReplacedExpired ==
    /\ \A j \in Jobs : pc[j] \in Replaces => Expired(lastFetchTime)
    /\ \A s \in freed : now > s.at + Expire

\* ... a job's script is new when it is stored and not freed before, ...
FetchedNew ==
    \A j \in Jobs :
        /\ Before(j) => \A s \in freed \cup ({script} \ {NoScript}) : s.by # j
        /\ pc[j] \in {"free", "store"} /\ local[j] # NoScript => local[j].by = j

\* ... the cache holds a freed script only until the next one is stored, ...
StoredAlive ==
    /\ script \in freed => \E j \in Jobs : pc[j] = "store"
    /\ script # NoScript => script.at = lastFetchTime /\ script.at > 0

\* ... and what the engine gets is what the cache held since the look, or newer.
Handed ==
    \A j \in Jobs :
        /\ pc[j] = "unlock" => script = local[j]
        /\ pc[j] = "execute" /\ script = NoScript => now > lookedAt[j]
        /\ pc[j] = "evaluate" =>
              IF local[j] = NoScript THEN now > lookedAt[j] ELSE lookedAt[j] <= local[j].at + Expire

CacheInv == Covered /\ SameUrl /\ Looked /\ ReplacedExpired /\ FetchedNew /\ StoredAlive /\ Handed

-----------------------------------------------------------------------------
(* Types and the mutex.                                                    *)

\* What the configuration answers has the type of a configuration.
LEMMA ConfigType ==
    ASSUME TypeOK
    PROVE  config.auto \in BOOLEAN /\ config.manual \in Urls \cup {NoUrl}
BY PacCacheAssumption DEF TypeOK

\* The initial states have the types, and nobody owns the mutex in them.
LEMMA InitLock == Init => TypeInv /\ LockInv
<1> SUFFICES ASSUME Init PROVE TypeInv /\ LockInv
  OBVIOUS
<1> USE PacCacheAssumption DEF Init
<1>1. TypeOK
  <2>1. now \in 1 .. MaxTime /\ 0 \in 0 .. MaxTime  OBVIOUS
  <2>2. pc \in [Jobs -> Steps]  BY DEF Steps
  <2> QED BY <2>1, <2>2 DEF TypeOK
<1>2. \A j \in Jobs : ~locked[j] /\ mutex # j /\ pc[j] \in {"queued", "done"}
  OBVIOUS
<1>3. UrlInv  BY <1>2 DEF UrlInv
<1>4. LockDiscipline  BY <1>1, <1>2 DEF LockDiscipline
<1>5. DiscoverInv  BY <1>2 DEF DiscoverInv
<1> QED BY <1>1, <1>3, <1>4, <1>5 DEF TypeInv, LockInv

\* What is stored is what the job fetched, with the time of the store.
LEMMA StoredScript ==
    ASSUME TypeOK, NEW j \in Jobs, Store(j)
    PROVE  /\ script' \in Scripts \cup {NoScript}
           /\ script' = NoScript <=> local[j] = NoScript
           /\ local[j] # NoScript => script'.by = local[j].by /\ script'.at = now
<1>1. CASE local[j] = NoScript  BY <1>1 DEF Store
<1>2. CASE local[j] # NoScript
  <2>1. local[j] \in Scripts /\ now \in 0 .. MaxTime  BY <1>2 DEF TypeOK
  <2>2. script' = [local[j] EXCEPT !.at = now]  BY <1>2 DEF Store
  <2>3. script' \in Scripts /\ script'.by = local[j].by /\ script'.at = now
    BY <2>1, <2>2 DEF Scripts
  <2> QED BY <1>2, <2>3, PacCacheAssumption
<1> QED BY <1>1, <1>2

\* Every step keeps the types.
LEMMA TypeStep == TypeInv /\ [Next]_vars => TypeInv'
<1> SUFFICES ASSUME TypeInv, [Next]_vars PROVE TypeInv'
  OBVIOUS
<1> USE PacCacheAssumption, ConfigType
    DEF TypeInv, TypeOK, UrlInv, Goto, SetLocal, SetUrl, settings, cache, job, history
<1>1. ASSUME NEW j \in Jobs, JobStep(j) PROVE TypeInv'
  <2> USE DEF Steps
  <2>1. CASE Begin(j)  BY <2>1 DEF Begin
  <2>2. CASE Lock(j)  BY <2>2 DEF Lock
  <2>3. CASE Discover(j)  BY <2>3 DEF Discover
  <2>4. CASE DhcpAnswers(j)  BY <2>4 DEF DhcpAnswers, Discovered
  <2>5. CASE DnsAnswers(j)  BY <2>5 DEF DnsAnswers, Discovered, Scripts
  <2>6. CASE NothingFound(j)  BY <2>6 DEF NothingFound, Discovered
  <2>7. CASE Choose(j)  BY <2>7 DEF Choose
  <2>8. CASE Check(j)  BY <2>8 DEF Check, AfterFetch
  <2>9. CASE Fetch(j)
    <3>1. [by |-> j, from |-> url[j], at |-> 0] \in Scripts  BY <2>9 DEF Fetch, Scripts
    <3> QED BY <2>9, <3>1 DEF Fetch
  <2>10. CASE FreeOld(j)  BY <2>10 DEF FreeOld
  <2>11. CASE Store(j)
    <3>1. script' \in Scripts \cup {NoScript}  BY <2>11, StoredScript
    <3> QED BY <2>11, <3>1 DEF Store, AfterFetch
  <2>12. CASE Unlock(j)  BY <2>12 DEF Unlock
  <2>13. CASE Execute(j)  BY <2>13 DEF Execute
  <2>14. CASE NoEngine(j)  BY <2>14 DEF NoEngine
  <2>15. CASE Evaluate(j)  BY <2>15 DEF Evaluate, Scripts
  <2>16. CASE EvaluationFails(j)  BY <2>16 DEF EvaluationFails
  <2>17. CASE Finish(j)  BY <2>17 DEF Finish
  <2> QED BY <1>1, <2>1, <2>2, <2>3, <2>4, <2>5, <2>6, <2>7, <2>8, <2>9, <2>10, <2>11,
             <2>12, <2>13, <2>14, <2>15, <2>16, <2>17 DEF JobStep
<1>2. CASE Configure  BY <1>2 DEF Configure
<1>3. CASE Tick  BY <1>3 DEF Tick
<1>4. CASE UNCHANGED vars  BY <1>4 DEF vars
<1> QED BY <1>1, <1>2, <1>3, <1>4 DEF Next

\* Every step keeps who owns the mutex and where.
LEMMA LockStep == TypeInv /\ LockInv /\ [Next]_vars => LockInv'
<1> SUFFICES ASSUME TypeInv, LockInv, [Next]_vars PROVE LockInv'
  OBVIOUS
<1>1. TypeOK'  BY TypeStep DEF TypeInv
<1> USE <1>1, PacCacheAssumption
    DEF TypeInv, TypeOK, LockInv, LockDiscipline, DiscoverInv, Goto, SetLocal, SetUrl,
        settings, cache, job, history
<1>2. ASSUME NEW j \in Jobs, JobStep(j) PROVE LockInv'
  <2>1. CASE Begin(j)  BY <2>1 DEF Begin
  <2>2. CASE Lock(j)  BY <2>2 DEF Lock
  <2>3. CASE Discover(j)  BY <2>3 DEF Discover
  <2>4. CASE DhcpAnswers(j)  BY <2>4 DEF DhcpAnswers, Discovered
  <2>5. CASE DnsAnswers(j)  BY <2>5 DEF DnsAnswers, Discovered
  <2>6. CASE NothingFound(j)  BY <2>6 DEF NothingFound, Discovered
  <2>7. CASE Choose(j)  BY <2>7 DEF Choose
  <2>8. CASE Check(j)  BY <2>8 DEF Check, AfterFetch
  <2>9. CASE Fetch(j)  BY <2>9 DEF Fetch
  <2>10. CASE FreeOld(j)  BY <2>10 DEF FreeOld
  <2>11. CASE Store(j)  BY <2>11 DEF Store, AfterFetch
  <2>12. CASE Unlock(j)  BY <2>12 DEF Unlock
  <2>13. CASE Execute(j)  BY <2>13 DEF Execute
  <2>14. CASE NoEngine(j)  BY <2>14 DEF NoEngine
  <2>15. CASE Evaluate(j)  BY <2>15 DEF Evaluate
  <2>16. CASE EvaluationFails(j)  BY <2>16 DEF EvaluationFails
  <2>17. CASE Finish(j)  BY <2>17 DEF Finish
  <2> QED BY <1>2, <2>1, <2>2, <2>3, <2>4, <2>5, <2>6, <2>7, <2>8, <2>9, <2>10, <2>11,
             <2>12, <2>13, <2>14, <2>15, <2>16, <2>17 DEF JobStep
<1>3. CASE Configure  BY <1>3 DEF Configure
<1>4. CASE Tick  BY <1>4 DEF Tick
<1>5. CASE UNCHANGED vars  BY <1>5 DEF vars
<1> QED BY <1>2, <1>3, <1>4, <1>5 DEF Next

-----------------------------------------------------------------------------
(* Discoveries are shared.                                                 *)

\* Types, the owner of the mutex and the place of every job are invariant, for
\* every set of requests.
THEOREM LockSafe == Spec => [](TypeInv /\ LockInv)
<1>1. TypeInv /\ LockInv /\ [Next]_vars => (TypeInv /\ LockInv)'
  BY TypeStep, LockStep
<1> QED BY <1>1, InitLock, PTL DEF Spec

\* The mutex is unlocked by the job that locked it, and by nobody who waits for it,
\* evaluates a script or is done (the two unlocks of resolver_posix.c).
THEOREM Disciplined == Spec => []LockDiscipline
BY LockSafe, PTL DEF LockInv

\* A step that starts a discovery does so alone, and only once the last result
\* expired.
LEMMA SharedStep ==
    ASSUME TypeInv, LockInv, [Next]_vars, NEW j \in Jobs, pc[j] = "discover", pc'[j] = "wpad"
    PROVE  /\ \A k \in Jobs : pc[k] # "wpad"
           /\ discoveredAt = 0 \/ now > discoveredAt + Expire
<1> USE DEF TypeInv, TypeOK, LockInv, DiscoverInv, Goto, SetLocal, SetUrl, settings, cache, job, history
<1>1. \A k \in Jobs : pc[k] # "wpad"  OBVIOUS
<1>2. Expired(lastWpadTime)
  <2>1. PICK k \in Jobs : JobStep(k)  BY DEF Next, Configure, Tick, vars
  <2>2. k = j
    <3> SUFFICES ASSUME k # j PROVE FALSE
      OBVIOUS
    <3> QED BY <2>1 DEF JobStep, Begin, Lock, Discover, DhcpAnswers, DnsAnswers, NothingFound,
          Discovered, Choose, Check, AfterFetch, Fetch, FreeOld, Store, Unlock, Execute,
          NoEngine, Evaluate, EvaluationFails, Finish
  <2>3. Discover(j)
    BY <2>1, <2>2 DEF JobStep, Begin, Lock, DhcpAnswers, DnsAnswers, NothingFound, Choose,
          Check, Fetch, FreeOld, Store, Unlock, Execute, NoEngine, Evaluate, EvaluationFails,
          Finish
  <2> QED BY <2>3 DEF Discover
<1>3. lastWpadTime \in Nat /\ now \in Nat /\ Expire \in Nat  BY PacCacheAssumption
<1>4. discoveredAt = 0 \/ now > discoveredAt + Expire  BY <1>2, <1>3 DEF Expired
<1> QED BY <1>1, <1>4

\* Requests that arrive together share one discovery, however many they are.
THEOREM Shared == Spec => DiscoveryIsShared
<1>1. TypeInv /\ LockInv /\ [Next]_vars =>
         [\A j \in Jobs : pc[j] = "discover" /\ pc'[j] = "wpad" =>
             /\ \A k \in Jobs : pc[k] # "wpad"
             /\ discoveredAt = 0 \/ now > discoveredAt + Expire]_vars
  BY SharedStep
<1> QED BY <1>1, LockSafe, PTL DEF Spec, DiscoveryIsShared

-----------------------------------------------------------------------------
(* The script that is evaluated.                                           *)

\* No script is held before the first job.
LEMMA InitCache == ASSUME Init, AllDiscover PROVE CacheInv
<1> USE PacCacheAssumption DEF Init
<1>1. \A j \in Jobs : pc[j] \in {"queued", "done"}  OBVIOUS
<1>2. Covered /\ SameUrl /\ Looked /\ ReplacedExpired /\ Handed
  BY <1>1 DEF Covered, SameUrl, Looked, ReplacedExpired, Handed, Uses, Replaces
<1>3. FetchedNew  BY <1>1 DEF FetchedNew
<1>4. StoredAlive  BY DEF StoredAlive
<1> QED BY <1>2, <1>3, <1>4 DEF CacheInv

\* Where every request discovers, every step keeps what makes the script safe to evaluate.
LEMMA CacheStep ==
    ASSUME AllDiscover, TypeInv, LockInv, CacheInv, [Next]_vars
    PROVE  CacheInv'
<1>1. TypeOK' /\ LockInv'  BY TypeStep, LockStep DEF TypeInv
<1> USE <1>1, PacCacheAssumption
    DEF TypeInv, TypeOK, UrlInv, LockInv, LockDiscipline, AllDiscover, CacheInv, Before, Uses, Replaces,
        Goto, SetLocal, SetUrl, settings, cache, job, history
<1> USE DEF Covered, SameUrl, Looked, ReplacedExpired, FetchedNew, StoredAlive, Handed, Expired
<1>2. ASSUME NEW j \in Jobs, JobStep(j) PROVE CacheInv'
  <2>1. CASE Begin(j)  BY <2>1 DEF Begin
  <2>2. CASE Lock(j)  BY <2>2 DEF Lock
  <2>3. CASE Discover(j)  BY <2>3 DEF Discover
  <2>4. CASE DhcpAnswers(j)  BY <2>4 DEF DhcpAnswers, Discovered
  <2>5. CASE DnsAnswers(j)
    <3>1. Covered'  BY <2>5 DEF DnsAnswers, Discovered
    <3>2. SameUrl'  BY <2>5 DEF DnsAnswers, Discovered
    <3>3. Looked'  BY <2>5 DEF DnsAnswers, Discovered
    <3>4. ReplacedExpired'  BY <2>5 DEF DnsAnswers, Discovered
    <3>5. FetchedNew'  BY <2>5 DEF DnsAnswers, Discovered
    <3>6. StoredAlive'  BY <2>5 DEF DnsAnswers, Discovered
    <3>7. Handed'  BY <2>5 DEF DnsAnswers, Discovered, Scripts
    <3> QED BY <3>1, <3>2, <3>3, <3>4, <3>5, <3>6, <3>7
  <2>6. CASE NothingFound(j)  BY <2>6 DEF NothingFound, Discovered
  <2>7. CASE Choose(j)  BY <2>7 DEF Choose
  <2>8. CASE Check(j)
    <3>1. Covered'  BY <2>8 DEF Check, AfterFetch
    <3>2. SameUrl'  BY <2>8 DEF Check, AfterFetch
    <3>3. Looked'  BY <2>8 DEF Check, AfterFetch
    <3>4. ReplacedExpired'  BY <2>8 DEF Check, AfterFetch
    <3>5. FetchedNew'  BY <2>8 DEF Check, AfterFetch
    <3>6. StoredAlive'  BY <2>8 DEF Check, AfterFetch
    <3>7. Handed'  BY <2>8 DEF Check, AfterFetch
    <3> QED BY <3>1, <3>2, <3>3, <3>4, <3>5, <3>6, <3>7
  <2>9. CASE Fetch(j)  BY <2>9 DEF Fetch
  <2>10. CASE FreeOld(j)
    <3>1. Covered'  BY <2>10 DEF FreeOld
    <3>2. SameUrl'  BY <2>10 DEF FreeOld
    <3>3. Looked'  BY <2>10 DEF FreeOld
    <3>4. ReplacedExpired'  BY <2>10 DEF FreeOld
    <3>5. FetchedNew'  BY <2>10 DEF FreeOld
    <3>6. StoredAlive'  BY <2>10 DEF FreeOld
    <3>7. Handed'  BY <2>10 DEF FreeOld
    <3> QED BY <3>1, <3>2, <3>3, <3>4, <3>5, <3>6, <3>7
  <2>11. CASE Store(j)
    <3>1. Covered'  BY <2>11 DEF Store, AfterFetch
    <3>2. SameUrl'  BY <2>11 DEF Store, AfterFetch
    <3>3. Looked'  BY <2>11 DEF Store, AfterFetch
    <3>4. ReplacedExpired'  BY <2>11 DEF Store, AfterFetch
    <3>5. FetchedNew'
      <4>1. ASSUME NEW k \in Jobs, Before(k)' PROVE \A s \in freed \cup ({script'} \ {NoScript}) : s.by # k
        <5>1. Before(k) /\ k # j  BY <2>11, <4>1 DEF Store, AfterFetch
        <5>2. local[j] # NoScript => script'.by = j  BY <2>11, StoredScript DEF Store
        <5>3. script' # NoScript => script'.by # k  BY <2>11, <5>1, <5>2, StoredScript
        <5> QED BY <5>1, <5>3
      <4> QED BY <2>11, <4>1 DEF Store, AfterFetch
    <3>6. StoredAlive'
      <4>1. script' \notin freed
        <5>1. local[j] # NoScript => script'.by = j  BY <2>11, StoredScript DEF Store
        <5>2. \A s \in freed : s.by # j  BY <2>11 DEF Store
        <5>3. NoScript \notin freed  OBVIOUS
        <5> QED BY <2>11, <5>1, <5>2, <5>3, StoredScript
      <4> QED BY <2>11, <4>1, StoredScript DEF Store
    <3>7. Handed'  BY <2>11 DEF Store, AfterFetch
    <3> QED BY <3>1, <3>2, <3>3, <3>4, <3>5, <3>6, <3>7
  <2>12. CASE Unlock(j)  BY <2>12 DEF Unlock
  <2>13. CASE Execute(j)
    <3>1. Covered'  BY <2>13 DEF Execute
    <3>2. SameUrl'  BY <2>13 DEF Execute
    <3>3. Looked'  BY <2>13 DEF Execute
    <3>4. ReplacedExpired'  BY <2>13 DEF Execute
    <3>5. FetchedNew'  BY <2>13 DEF Execute
    <3>6. StoredAlive'  BY <2>13 DEF Execute
    <3>7. Handed'  BY <2>13 DEF Execute
    <3> QED BY <3>1, <3>2, <3>3, <3>4, <3>5, <3>6, <3>7
  <2>14. CASE NoEngine(j)  BY <2>14 DEF NoEngine
  <2>15. CASE Evaluate(j)  BY <2>15 DEF Evaluate
  <2>16. CASE EvaluationFails(j)  BY <2>16 DEF EvaluationFails
  <2>17. CASE Finish(j)  BY <2>17 DEF Finish
  <2> QED BY <1>2, <2>1, <2>2, <2>3, <2>4, <2>5, <2>6, <2>7, <2>8, <2>9, <2>10, <2>11,
             <2>12, <2>13, <2>14, <2>15, <2>16, <2>17 DEF JobStep
<1>3. CASE Configure
  BY <1>3 DEF Configure
<1>4. CASE Tick
  <2>1. \A s \in freed : s.at \in Nat  BY DEF Scripts
  <2>2. ReplacedExpired'  BY <1>4, <2>1 DEF Tick
  <2> QED BY <1>4, <2>2 DEF Tick
<1>5. CASE UNCHANGED vars
  BY <1>5 DEF vars
<1> QED BY <1>2, <1>3, <1>4, <1>5 DEF Next

\* In a process where every request discovers the cache is safe in every state.
THEOREM CacheSafe == Spec => [](TypeInv /\ LockInv /\ (AllDiscover => CacheInv))
<1> DEFINE Safe == TypeInv /\ LockInv /\ (AllDiscover => CacheInv)
<1>1. Init => Safe  BY InitLock, InitCache
<1>2. Safe /\ [Next]_vars => Safe'
  <2> SUFFICES ASSUME Safe, [Next]_vars PROVE Safe'
    OBVIOUS
  <2>1. configs' = configs
    BY DEF Next, Configure, Tick, vars, settings, JobStep, Begin, Lock, Discover, DhcpAnswers,
          DnsAnswers, NothingFound, Discovered, Choose, Check, Fetch, FreeOld, Store, Unlock,
          Execute, NoEngine, Evaluate, EvaluationFails, Finish
  <2>2. TypeInv' /\ LockInv'  BY TypeStep, LockStep
  <2>3. AllDiscover' => CacheInv'  BY <2>1, CacheStep DEF AllDiscover
  <2> QED BY <2>2, <2>3
<1> QED
  <2>1. Spec => []Safe  BY <1>1, <1>2, PTL DEF Spec
  <2> QED BY <2>1

\* Where every request discovers no script is freed twice, and none is freed while the engine
\* evaluates it unless it expired meanwhile, for any number of requests and however long an
\* evaluation takes (proxy_resolver_posix_get_proxies_for_url, which unlocks before it).
THEOREM Alive == Spec => []ScriptAlive
<1>1. TypeInv /\ LockInv /\ (AllDiscover => CacheInv) => ScriptAlive
  <2> SUFFICES ASSUME LockInv, CacheInv, NEW j \in Jobs
               PROVE  /\ pc[j] = "free" => script \notin freed
                      /\ pc[j] = "evaluate" /\ local[j] \in freed => now > local[j].at + Expire
    BY DEF ScriptAlive
  <2>1. pc[j] = "evaluate" /\ local[j] \in freed => now > local[j].at + Expire
    BY DEF CacheInv, ReplacedExpired
  <2>2. pc[j] = "free" => script \notin freed
    BY DEF CacheInv, StoredAlive, Covered, Replaces
  <2> QED BY <2>1, <2>2
<1> QED BY <1>1, CacheSafe, PTL

\* What the engine gets had not expired when its request looked at the age of the script, and
\* is a script unless a fetch failed since.
THEOREM Fresh == Spec => []ScriptFresh
<1>1. TypeInv /\ LockInv /\ (AllDiscover => CacheInv) => ScriptFresh
  BY DEF CacheInv, Handed, ScriptFresh
<1> QED BY <1>1, CacheSafe, PTL
=============================================================================

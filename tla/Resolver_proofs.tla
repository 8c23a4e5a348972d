--------------------------- MODULE Resolver_proofs ---------------------------
(***************************************************************************)
(* Proofs about Resolver, for any instances, urls, lists, configurations   *)
(* and sizes of the pool.  What is promised to a client holds when its     *)
(* instance goes to the pool once, MaxSpooled = 1, and most of it where    *)
(* condition variables do not wake spuriously; TLC shows both to be        *)
(* needed.                                                                 *)
(*                                                                         *)
(* None of it is inductive by itself.  That a job has an instance to use   *)
(* rests on a client that neither asks again nor deletes before it is      *)
(* answered, so JobInv says what holds of an instance while a job is on    *)
(* its way to it: it is live, not answered, has no list and its event is   *)
(* not set and has woken nobody.  The answer rests on that and on the url  *)
(* of the instance being the one asked whenever the pool is to answer      *)
(* (AskInv).                                                               *)
(***************************************************************************)
EXTENDS Resolver, SequenceLemmas

-----------------------------------------------------------------------------
(* The inductive invariants.                                               *)

\* A job that may still use its instance, queued or running.
Active(j) == j \in Range(pending) \/ step[j] \in {"evaluate", "store", "signal"}

\* A job is in the queue once, runs or neither, and the globals outlive all of them.
PoolInv ==
    /\ IsInjective(pending)
    /\ Range(pending) \cap (running \cup done) = {}
    /\ \A j \in Jobs : step[j] # "none" <=> j \in running
    /\ ~initialized => closed /\ running = {} /\ pending = <<>>

\* A job was spooled with the url of its instance.
UrlInv ==
    /\ \A j \in Spooled : Active(j) => j[2] <= spooled[Client(j)]
    /\ \A r \in Instances : spooled[r] # 0 => url[r] # NoUrl

TypeInv == TypeOK /\ PoolInv /\ UrlInv

\* Where an answer may come from.
AskInv ==
    \A r \in Instances :
        /\ answered[r] \/ InWait(r) => asked[r] # NoUrl
        /\ asked[r] # NoUrl /\ list[r] # NoList =>
              list[r] \in {SystemList(c, asked[r]) : c \in Configs}
        /\ asked[r] # NoUrl /\ list[r] = NoList => url[r] = asked[r] /\ spooled[r] = 1
        /\ spooled[r] = 0 => baseList[r] = NoList
        /\ baseList[r] # NoList => baseList[r] \in {Answers[url[r]], DirectList}

\* Nothing tells the client of r that it is answered.
Silent(r) == ~complete[r].signalled /\ complete[r].woken = {}

\* The instance of a job that is on its way.
Waiting(r) ==
    /\ memory[r] = "live"
    /\ asked[r] # NoUrl /\ ~answered[r]
    /\ list[r] = NoList
    /\ Silent(r)

JobInv ==
    ~spurious => /\ \A r \in Instances : spooled[r] = 0 => Silent(r)
                 /\ \A j \in Spooled : Active(j) => Waiting(Client(j))

-----------------------------------------------------------------------------
(* Lists, events and jobs.                                                 *)

\* The jobs in the queue of the pool.
LEMMA PendingRange == Pool!Pending = Range(pending)
BY DEF Pool!Pending, Pool!Range, Range

\* A configured answer is one of the lists, or none.
LEMMA SystemListType ==
    ASSUME NEW c \in Configs, NEW u
    PROVE  SystemList(c, u) \in Lists \cup {NoList}
<1>1. c.autoUrl \in BOOLEAN /\ c.proxy \in BOOLEAN /\ c.autoDiscover \in BOOLEAN
  BY ResolverAssumption
<1> QED BY <1>1 DEF SystemList, Lists

\* A list is a suffix of itself: what proxy_resolver_wait leaves to hand out is all of it.
LEMMA WholeList ==
    ASSUME NEW l \in Lists
    PROVE  l \in Suffixes /\ l \in Seq(Proxies) /\ l # <<>> /\ l # NoList
<1>1. l \in Seq(Proxies) /\ l # <<>>  BY ResolverAssumption
<1>2. SubSeq(l, 1, Len(l)) = l  BY <1>1, SubSeqFull
<1>3. 1 \in DOMAIN l  BY <1>1, LenProperties, EmptySeq
<1>4. l \in Suffixes
  <2>1. l \in {SubSeq(l, i, Len(l)) : i \in DOMAIN l}  BY <1>2, <1>3, Zenon
  <2> QED BY <2>1 DEF Suffixes
<1> QED BY <1>1, <1>4, ResolverAssumption

\* str_sep_dup hands out the first token and leaves the others, in their order.
LEMMA NextToken ==
    ASSUME NEW s \in Suffixes
    PROVE  /\ Head(s) \in Proxies
           /\ AfterToken(s) \in Suffixes \cup {NoList}
           /\ \A a \in Seq(Proxies) :
                 a \o s = Append(a, Head(s))
                             \o (IF AfterToken(s) = NoList THEN <<>> ELSE AfterToken(s))
<1>1. PICK l \in Lists : \E i \in DOMAIN l : s = SubSeq(l, i, Len(l))  BY DEF Suffixes
<1>2. PICK i \in DOMAIN l : s = SubSeq(l, i, Len(l))  BY <1>1
<1>3. l \in Seq(Proxies) /\ i \in 1 .. Len(l) /\ Len(l) \in Nat  BY <1>2, WholeList, LenProperties
<1>4. /\ s \in Seq(Proxies)
      /\ Len(s) = Len(l) - i + 1
  BY <1>2, <1>3, SubSeqProperties, ElementOfSeq
<1>5. s # <<>>  BY <1>3, <1>4
<1>6. Head(s) = l[i] /\ Tail(s) = SubSeq(l, i + 1, Len(l))
  <2>1. Len(l) \in i .. Len(l)  BY <1>3
  <2> QED BY <1>2, <1>3, <2>1, HeadTailOfSubSeq
<1>7. Head(s) \in Proxies /\ Tail(s) \in Seq(Proxies) /\ Len(Tail(s)) = Len(s) - 1
  BY <1>4, <1>5, HeadTailProperties
<1>8. Len(s) # 1 => Tail(s) \in Suffixes
  <2> SUFFICES ASSUME Len(s) # 1 PROVE Tail(s) \in Suffixes
    OBVIOUS
  <2>1. i + 1 \in DOMAIN l  BY <1>3, <1>4
  <2>2. Tail(s) \in {SubSeq(l, k, Len(l)) : k \in DOMAIN l}  BY <1>6, <2>1
  <2> QED BY <2>2 DEF Suffixes
<1>9. AfterToken(s) = IF Len(s) = 1 THEN NoList ELSE Tail(s)  BY DEF AfterToken
<1>10. ASSUME NEW a \in Seq(Proxies)
       PROVE  a \o s = Append(a, Head(s)) \o (IF AfterToken(s) = NoList THEN <<>> ELSE AfterToken(s))
  <2>1. s = <<Head(s)>> \o Tail(s)
    BY <1>4, <1>5
  <2>2. (IF AfterToken(s) = NoList THEN <<>> ELSE AfterToken(s)) = Tail(s)
    <3>1. CASE Len(s) = 1
      <4>1. Tail(s) # <<>> => Len(Tail(s)) # 0  BY <1>7, EmptySeq
      <4>2. Len(Tail(s)) = 0  BY <1>7, <3>1
      <4> QED BY <1>9, <3>1, <4>1, <4>2
    <3>2. CASE Len(s) # 1  BY <1>8, <1>9, <3>2, ResolverAssumption
    <3> QED BY <3>1, <3>2
  <2>3. a \o (<<Head(s)>> \o Tail(s)) = (a \o <<Head(s)>>) \o Tail(s)
    <3>1. <<Head(s)>> \in Seq(Proxies)  BY <1>7
    <3> QED BY <1>7, <3>1, ConcatAssociative
  <2>4. Append(a, Head(s)) = a \o <<Head(s)>>  BY <1>7, AppendIsConcat
  <2> QED BY <2>1, <2>2, <2>3, <2>4
<1> QED BY <1>7, <1>8, <1>9, <1>10

\* event_set raises the flag, and wakes nobody but the sleepers.
LEMMA EventSetType ==
    ASSUME NEW r, NEW e \in EventStates({r}), NEW s \in EventSet(e)
    PROVE  /\ s \in EventStates({r}) /\ s.signalled
           /\ s.asleep \cup s.woken = e.asleep \cup e.woken
<1>1. CASE e.asleep = {}
  <2>1. s = [e EXCEPT !.signalled = TRUE]  BY <1>1 DEF EventSet
  <2> QED BY <2>1 DEF EventStates
<1>2. CASE e.asleep # {}
  <2>1. PICK t \in e.asleep : s = [Awaken(e, t) EXCEPT !.signalled = TRUE]  BY <1>2 DEF EventSet
  <2> QED BY <2>1 DEF EventStates, Awaken
<1> QED BY <1>1, <1>2

\* The other operations of an event of r.
LEMMA EventOperations ==
    ASSUME NEW r, NEW e \in EventStates({r})
    PROVE  /\ EventSleep(e, r) \in EventStates({r})
           /\ EventResume(e, r) \in EventStates({r})
           /\ EventExpire(e, r) \in EventStates({r})
           /\ Awaken(e, r) \in EventStates({r})
BY DEF EventSleep, EventResume, EventExpire, Awaken, EventStates

\* Changing the event of one instance keeps the type of all of them.
LEMMA EventUpdate ==
    ASSUME TypeOK, NEW r \in Instances, NEW e \in EventStates({r}),
           complete' = [complete EXCEPT ![r] = e]
    PROVE  /\ complete' \in [Instances -> EventStates(Instances)]
           /\ \A q \in Instances : complete'[q] \in EventStates({q})
<1>1. e \in EventStates(Instances)  BY DEF EventStates
<1> QED BY <1>1 DEF TypeOK

\* A job's client is its instance.
LEMMA ClientType ==
    ASSUME NEW j \in Spooled
    PROVE  /\ Client(j) \in Instances /\ j[2] \in 1 .. MaxSpooled
           /\ j \in Jobs /\ j # Startup
BY ResolverAssumption DEF Client, Spooled, Jobs

-----------------------------------------------------------------------------
(* Types and the pool.                                                     *)

\* The list of an instance is left whole to hand out.
LEMMA GotType ==
    ASSUME TypeOK, NEW r \in Instances
    PROVE  Got(r) \in NullableLists /\ Got(r) \in Suffixes \cup {NoList}
BY WholeList DEF TypeOK, Got, NullableLists

\* Every step keeps the types.
LEMMA TypeStep ==
    ASSUME TypeInv, [Next]_vars
    PROVE  TypeOK'
<1> USE ResolverAssumption DEF TypeInv, TypeOK, NullableLists, pool, instance, history
<1>1. ASSUME NEW r \in Instances, Create(r) PROVE TypeOK'
  BY <1>1 DEF Create
<1>2. ASSUME NEW r \in Instances, Delete(r) PROVE TypeOK'
  BY <1>2 DEF Delete
<1>3. ASSUME NEW r \in Instances, NEW u \in Urls, Spool(r, u) PROVE TypeOK'
  <2>1. <<r, spooled[r] + 1>> \in Jobs /\ spooled[r] + 1 \in 1 .. MaxSpooled
    BY <1>3 DEF Spool, Jobs, Spooled
  <2>2. pending' \in Seq(Jobs)  BY <1>3, <2>1, AppendRange DEF Spool, Pool!Submit
  <2> QED BY <1>3, <2>1, <2>2 DEF Spool, Ask, Pool!Submit
<1>4. ASSUME NEW r \in Instances, NEW u \in Urls, AnswerFromConfig(r, u) PROVE TypeOK'
  <2>1. list' \in [Instances -> Lists \cup {NoList}]  BY <1>4, SystemListType DEF AnswerFromConfig
  <2> QED BY <1>4, <2>1 DEF AnswerFromConfig, Ask
<1>5. ASSUME NEW r \in Instances, WaitReturns(r) PROVE TypeOK'
  BY <1>5, GotType DEF WaitReturns, Complete
<1>6. ASSUME NEW r \in Instances, WaitSleeps(r) PROVE TypeOK'
  <2>1. complete[r] \in EventStates({r})  OBVIOUS
  <2>2. PICK e \in EventStates({r}) : complete' = [complete EXCEPT ![r] = e]
    BY <1>6, <2>1, EventOperations DEF WaitSleeps
  <2>3. /\ complete' \in [Instances -> EventStates(Instances)]
        /\ \A q \in Instances : complete'[q] \in EventStates({q})
    BY <2>2, EventUpdate
  <2> QED BY <1>6, <2>3 DEF WaitSleeps
<1>7. ASSUME NEW r \in Instances, WaitResumes(r) PROVE TypeOK'
  <2>1. complete[r] \in EventStates({r})  OBVIOUS
  <2>2. PICK e \in EventStates({r}) : complete' = [complete EXCEPT ![r] = e]
    BY <1>7, <2>1, EventOperations DEF WaitResumes
  <2>3. /\ complete' \in [Instances -> EventStates(Instances)]
        /\ \A q \in Instances : complete'[q] \in EventStates({q})
    BY <2>2, EventUpdate
  <2>4. Got(r) \in Suffixes \cup {NoList}  BY GotType
  <2>5. /\ listp' \in [Instances -> Suffixes \cup {NoList}]
        /\ answered' \in [Instances -> BOOLEAN]
        /\ attempted' \in [Instances -> Seq(Proxies)]
    BY <1>7, <2>4 DEF WaitResumes, Complete
  <2> QED BY <1>7, <2>3, <2>5 DEF WaitResumes, Complete
<1>8. ASSUME NEW r \in Instances, WaitExpires(r) PROVE TypeOK'
  <2>1. complete[r] \in EventStates({r})  OBVIOUS
  <2>2. PICK e \in EventStates({r}) : complete' = [complete EXCEPT ![r] = e]
    BY <1>8, <2>1, EventOperations DEF WaitExpires
  <2>3. /\ complete' \in [Instances -> EventStates(Instances)]
        /\ \A q \in Instances : complete'[q] \in EventStates({q})
    BY <2>2, EventUpdate
  <2> QED BY <1>8, <2>3 DEF WaitExpires
<1>9. ASSUME NEW r \in Instances, SpuriousWakeup(r) PROVE TypeOK'
  <2>1. complete[r] \in EventStates({r})  OBVIOUS
  <2>2. PICK e \in EventStates({r}) : complete' = [complete EXCEPT ![r] = e]
    BY <1>9, <2>1, EventOperations DEF SpuriousWakeup
  <2>3. /\ complete' \in [Instances -> EventStates(Instances)]
        /\ \A q \in Instances : complete'[q] \in EventStates({q})
    BY <2>2, EventUpdate
  <2> QED BY <1>9, <2>3 DEF SpuriousWakeup
<1>10. ASSUME NEW r \in Instances, NextProxy(r) PROVE TypeOK'
  <2>1. listp[r] \in Suffixes  BY <1>10 DEF NextProxy
  <2>2. Head(listp[r]) \in Proxies /\ AfterToken(listp[r]) \in Suffixes \cup {NoList}
    BY <2>1, NextToken
  <2>3. Append(attempted[r], Head(listp[r])) \in Seq(Proxies)  BY <2>2, AppendProperties
  <2> QED BY <1>10, <2>2, <2>3 DEF NextProxy
<1>11. ASSUME JobStarts PROVE TypeOK'
  <2>1. Head(pending) \in Jobs /\ pending' \in Seq(Jobs)
    BY <1>11, TailRange DEF JobStarts, Pool!Start
  <2> QED BY <1>11, <2>1 DEF JobStarts, Pool!Start
<1>12. ASSUME NEW j \in Spooled, JobStores(j) PROVE TypeOK'
  <2>1. Client(j) \in Instances /\ j \in Jobs  BY ClientType
  <2>2. url[Client(j)] \in Urls
    <3>1. j[2] <= spooled[Client(j)]  BY <1>12 DEF JobStores, UrlInv, Active
    <3>2. spooled[Client(j)] # 0  BY <2>1, <3>1, ClientType
    <3> QED BY <2>1, <3>2 DEF UrlInv
  <2>3. Answers[url[Client(j)]] \in Lists /\ DirectList \in Lists  BY <2>2 DEF Lists
  <2> QED BY <1>12, <2>1, <2>3 DEF JobStores
<1>13. ASSUME NEW j \in Spooled, JobSignals(j) PROVE TypeOK'
  <2>1. Client(j) \in Instances /\ j \in Jobs  BY ClientType
  <2>2. PICK e \in EventSet(complete[Client(j)]) : complete' = [complete EXCEPT ![Client(j)] = e]
    BY <1>13 DEF JobSignals
  <2>3. /\ complete' \in [Instances -> EventStates(Instances)]
        /\ \A q \in Instances : complete'[q] \in EventStates({q})
    BY <2>1, <2>2, EventSetType, EventUpdate
  <2> QED BY <1>13, <2>1, <2>3 DEF JobSignals
<1>14. ASSUME NEW j \in Jobs, JobFinishes(j) PROVE TypeOK'
  BY <1>14 DEF JobFinishes, Pool!Finish
<1>15. ASSUME BeginCleanup PROVE TypeOK'
  BY <1>15 DEF BeginCleanup, Pool!Close
<1>16. ASSUME EndCleanup PROVE TypeOK'
  BY <1>16, EmptySeq DEF EndCleanup, Pool!Discard
<1>17. ASSUME UNCHANGED vars PROVE TypeOK'
  BY <1>17 DEF vars
<1>18. ASSUME NEW r \in Instances, NEW u \in Urls, SpoolFails(r, u) PROVE TypeOK'
  BY <1>18 DEF SpoolFails
<1> QED BY <1>1, <1>2, <1>3, <1>4, <1>5, <1>6, <1>7, <1>8, <1>9, <1>10, <1>11, <1>12,
       <1>13, <1>14, <1>15, <1>16, <1>17, <1>18 DEF Next


\* Every step keeps a job in one place, and no job outlives the globals.
LEMMA PoolStep ==
    ASSUME TypeInv, [Next]_vars
    PROVE  PoolInv'
<1> USE DEF TypeInv, TypeOK, PoolInv, pool
<1>1. ASSUME NEW r \in Instances, Create(r) PROVE PoolInv'
  BY <1>1 DEF Create
<1>2. ASSUME NEW r \in Instances, Delete(r) PROVE PoolInv'
  BY <1>2 DEF Delete
<1>3. ASSUME NEW r \in Instances, NEW u \in Urls, Spool(r, u) PROVE PoolInv'
  <2>1. <<r, spooled[r] + 1>> \in Jobs  BY <1>3, ResolverAssumption DEF Spool, Jobs, Spooled
  <2>2. <<r, spooled[r] + 1>> \notin Range(pending) \cup running \cup done
    BY <1>3, PendingRange DEF Spool, Pool!Submit
  <2>3. /\ Range(pending') = Range(pending) \cup {<<r, spooled[r] + 1>>}
        /\ IsInjective(pending')
    <3>1. pending' = Append(pending, <<r, spooled[r] + 1>>)  BY <1>3 DEF Spool, Pool!Submit
    <3>2. pending \in Seq(Jobs) /\ IsInjective(pending)  OBVIOUS
    <3> HIDE DEF TypeInv, TypeOK, PoolInv
    <3> QED BY <2>1, <2>2, <3>1, <3>2, AppendRange
  <2>4. UNCHANGED <<running, done, closed, step, initialized>> /\ initialized
    BY <1>3 DEF Spool, Ask, Pool!Submit
  <2>5. Range(pending') \cap (running \cup done)' = {}  BY <2>2, <2>3, <2>4
  <2> QED BY <2>3, <2>4, <2>5
<1>4. ASSUME NEW r \in Instances, NEW u \in Urls, AnswerFromConfig(r, u) PROVE PoolInv'
  BY <1>4 DEF AnswerFromConfig, Ask
<1>5. ASSUME NEW r \in Instances, WaitReturns(r) PROVE PoolInv'
  BY <1>5 DEF WaitReturns, Complete
<1>6. ASSUME NEW r \in Instances, WaitSleeps(r) PROVE PoolInv'
  BY <1>6 DEF WaitSleeps
<1>7. ASSUME NEW r \in Instances, WaitResumes(r) PROVE PoolInv'
  BY <1>7 DEF WaitResumes, Complete
<1>8. ASSUME NEW r \in Instances, WaitExpires(r) PROVE PoolInv'
  BY <1>8 DEF WaitExpires
<1>9. ASSUME NEW r \in Instances, SpuriousWakeup(r) PROVE PoolInv'
  BY <1>9 DEF SpuriousWakeup
<1>10. ASSUME NEW r \in Instances, NextProxy(r) PROVE PoolInv'
  BY <1>10 DEF NextProxy
<1>11. ASSUME JobStarts PROVE PoolInv'
  <2>1. /\ Head(pending) \in Jobs /\ Head(pending) \notin Range(pending')
        /\ Range(pending) = Range(pending') \cup {Head(pending)} /\ IsInjective(pending')
    BY <1>11, TailRange DEF JobStarts, Pool!Start
  <2> QED BY <1>11, <2>1 DEF JobStarts, Pool!Start
<1>12. ASSUME NEW j \in Spooled, JobStores(j) PROVE PoolInv'
  BY <1>12, ClientType DEF JobStores
<1>13. ASSUME NEW j \in Spooled, JobSignals(j) PROVE PoolInv'
  BY <1>13, ClientType DEF JobSignals
<1>14. ASSUME NEW j \in Jobs, JobFinishes(j) PROVE PoolInv'
  BY <1>14 DEF JobFinishes, Pool!Finish
<1>15. ASSUME BeginCleanup PROVE PoolInv'
  BY <1>15 DEF BeginCleanup, Pool!Close
<1>16. ASSUME EndCleanup PROVE PoolInv'
  <2>1. pending' = <<>> /\ Range(pending') = {}  BY <1>16 DEF EndCleanup, Pool!Discard, Range
  <2>2. IsInjective(pending')  BY <2>1 DEF IsInjective
  <2> QED BY <1>16, <2>1, <2>2 DEF EndCleanup, Pool!Discard
<1>17. ASSUME UNCHANGED vars PROVE PoolInv'
  BY <1>17 DEF vars
<1>18. ASSUME NEW r \in Instances, NEW u \in Urls, SpoolFails(r, u) PROVE PoolInv'
  BY <1>18 DEF SpoolFails
<1> QED BY <1>1, <1>2, <1>3, <1>4, <1>5, <1>6, <1>7, <1>8, <1>9, <1>10, <1>11, <1>12,
       <1>13, <1>14, <1>15, <1>16, <1>17, <1>18 DEF Next

\* Only a client that spools sends a job on its way.
LEMMA ActiveStep ==
    ASSUME TypeInv, [Next]_vars, NEW j \in Spooled, Active(j)'
    PROVE  Active(j) \/ \E u \in Urls : Spool(Client(j), u) /\ j[2] = spooled[Client(j)] + 1
<1> DEFINE Before == Active(j) \/ \E u \in Urls : Spool(Client(j), u) /\ j[2] = spooled[Client(j)] + 1
<1> USE ClientType DEF TypeInv, TypeOK, PoolInv, pool, Active
<1>1. ASSUME NEW r \in Instances, Create(r) PROVE Before
  BY <1>1 DEF Create
<1>2. ASSUME NEW r \in Instances, Delete(r) PROVE Before
  BY <1>2 DEF Delete
<1>3. ASSUME NEW r \in Instances, NEW u \in Urls, Spool(r, u) PROVE Before
  <2>1. <<r, spooled[r] + 1>> \in Jobs  BY <1>3, ResolverAssumption DEF Spool, Jobs, Spooled
  <2>2. Range(pending') = Range(pending) \cup {<<r, spooled[r] + 1>>}
    BY <1>3, <2>1, AppendRange DEF Spool, Pool!Submit
  <2>3. CASE j = <<r, spooled[r] + 1>>  BY <1>3, <2>3 DEF Client
  <2>4. CASE j # <<r, spooled[r] + 1>>  BY <1>3, <2>2, <2>4 DEF Spool, Ask
  <2> QED BY <2>3, <2>4
<1>4. ASSUME NEW r \in Instances, NEW u \in Urls, AnswerFromConfig(r, u) PROVE Before
  BY <1>4 DEF AnswerFromConfig, Ask
<1>5. ASSUME NEW r \in Instances, WaitReturns(r) PROVE Before
  BY <1>5 DEF WaitReturns, Complete
<1>6. ASSUME NEW r \in Instances, WaitSleeps(r) PROVE Before
  BY <1>6 DEF WaitSleeps
<1>7. ASSUME NEW r \in Instances, WaitResumes(r) PROVE Before
  BY <1>7 DEF WaitResumes, Complete
<1>8. ASSUME NEW r \in Instances, WaitExpires(r) PROVE Before
  BY <1>8 DEF WaitExpires
<1>9. ASSUME NEW r \in Instances, SpuriousWakeup(r) PROVE Before
  BY <1>9 DEF SpuriousWakeup
<1>10. ASSUME NEW r \in Instances, NextProxy(r) PROVE Before
  BY <1>10 DEF NextProxy
<1>11. ASSUME JobStarts PROVE Before
  <2>1. Range(pending) = Range(pending') \cup {Head(pending)}
    BY <1>11, TailRange DEF JobStarts, Pool!Start
  <2> QED BY <1>11, <2>1 DEF JobStarts, Pool!Start
<1>12. ASSUME NEW k \in Spooled, JobStores(k) PROVE Before
  BY <1>12 DEF JobStores
<1>13. ASSUME NEW k \in Spooled, JobSignals(k) PROVE Before
  BY <1>13 DEF JobSignals
<1>14. ASSUME NEW k \in Jobs, JobFinishes(k) PROVE Before
  BY <1>14 DEF JobFinishes, Pool!Finish
<1>15. ASSUME BeginCleanup PROVE Before
  BY <1>15 DEF BeginCleanup, Pool!Close
<1>16. ASSUME EndCleanup PROVE Before
  BY <1>16 DEF EndCleanup, Pool!Discard, Range
<1>17. ASSUME UNCHANGED vars PROVE Before
  BY <1>17 DEF vars
<1>18. ASSUME NEW r \in Instances, NEW u \in Urls, SpoolFails(r, u) PROVE Before
  BY <1>18 DEF SpoolFails
<1> QED BY <1>1, <1>2, <1>3, <1>4, <1>5, <1>6, <1>7, <1>8, <1>9, <1>10, <1>11, <1>12,
       <1>13, <1>14, <1>15, <1>16, <1>17, <1>18 DEF Next

\* The number of jobs of an instance only grows, and each one has a url.
LEMMA SpooledStep ==
    ASSUME TypeInv, [Next]_vars, NEW q \in Instances
    PROVE  /\ spooled[q] \in Nat /\ spooled'[q] \in Nat /\ spooled'[q] >= spooled[q]
           /\ spooled'[q] # 0 => url'[q] # NoUrl
<1> DEFINE Grows == /\ spooled[q] \in Nat /\ spooled'[q] \in Nat /\ spooled'[q] >= spooled[q]
                    /\ spooled'[q] # 0 => url'[q] # NoUrl
<1>0. spooled[q] \in Nat /\ MaxSpooled \in Nat  BY ResolverAssumption DEF TypeInv, TypeOK
<1> USE <1>0 DEF TypeInv, TypeOK, UrlInv, history, instance
<1>1. ASSUME NEW r \in Instances, Create(r) PROVE Grows
  BY <1>1 DEF Create
<1>2. ASSUME NEW r \in Instances, Delete(r) PROVE Grows
  BY <1>2 DEF Delete
<1>3. ASSUME NEW r \in Instances, NEW u \in Urls, Spool(r, u) PROVE Grows
  BY <1>3, ResolverAssumption DEF Spool, Ask
<1>4. ASSUME NEW r \in Instances, NEW u \in Urls, AnswerFromConfig(r, u) PROVE Grows
  BY <1>4 DEF AnswerFromConfig, Ask
<1>5. ASSUME NEW r \in Instances, WaitReturns(r) PROVE Grows
  BY <1>5 DEF WaitReturns, Complete
<1>6. ASSUME NEW r \in Instances, WaitSleeps(r) PROVE Grows
  BY <1>6 DEF WaitSleeps
<1>7. ASSUME NEW r \in Instances, WaitResumes(r) PROVE Grows
  BY <1>7 DEF WaitResumes, Complete
<1>8. ASSUME NEW r \in Instances, WaitExpires(r) PROVE Grows
  BY <1>8 DEF WaitExpires
<1>9. ASSUME NEW r \in Instances, SpuriousWakeup(r) PROVE Grows
  BY <1>9 DEF SpuriousWakeup
<1>10. ASSUME NEW r \in Instances, NextProxy(r) PROVE Grows
  BY <1>10 DEF NextProxy
<1>11. ASSUME JobStarts PROVE Grows
  BY <1>11 DEF JobStarts
<1>12. ASSUME NEW j \in Spooled, JobStores(j) PROVE Grows
  BY <1>12 DEF JobStores
<1>13. ASSUME NEW j \in Spooled, JobSignals(j) PROVE Grows
  BY <1>13 DEF JobSignals
<1>14. ASSUME NEW j \in Jobs, JobFinishes(j) PROVE Grows
  BY <1>14 DEF JobFinishes
<1>15. ASSUME BeginCleanup PROVE Grows
  BY <1>15 DEF BeginCleanup
<1>16. ASSUME EndCleanup PROVE Grows
  BY <1>16 DEF EndCleanup
<1>17. ASSUME UNCHANGED vars PROVE Grows
  BY <1>17 DEF vars
<1>18. ASSUME NEW r \in Instances, NEW u \in Urls, SpoolFails(r, u) PROVE Grows
  BY <1>18, ResolverAssumption DEF SpoolFails
<1> QED BY <1>1, <1>2, <1>3, <1>4, <1>5, <1>6, <1>7, <1>8, <1>9, <1>10, <1>11, <1>12,
       <1>13, <1>14, <1>15, <1>16, <1>17, <1>18 DEF Next

\* Every step keeps the count of the jobs spooled, and their url.
LEMMA UrlStep ==
    ASSUME TypeInv, [Next]_vars
    PROVE  UrlInv'
<1>1. ASSUME NEW j \in Spooled, Active(j)' PROVE j[2] <= spooled'[Client(j)]
  <2>1. Client(j) \in Instances /\ j[2] \in Nat  BY ClientType, ResolverAssumption
  <2>2. /\ spooled[Client(j)] \in Nat /\ spooled'[Client(j)] \in Nat
        /\ spooled'[Client(j)] >= spooled[Client(j)]
    BY <2>1, SpooledStep
  <2>3. CASE Active(j)  BY <2>1, <2>2, <2>3 DEF TypeInv, UrlInv
  <2>4. CASE \E u \in Urls : Spool(Client(j), u) /\ j[2] = spooled[Client(j)] + 1
    BY <2>1, <2>2, <2>4 DEF Spool, TypeInv, TypeOK
  <2> QED BY <1>1, <2>3, <2>4, ActiveStep
<1> QED BY <1>1, SpooledStep DEF UrlInv

\* The initial states have the types, for a process with and without the discovery job.
LEMMA InitType == Init => TypeInv
<1> SUFFICES ASSUME Init PROVE TypeInv
  OBVIOUS
<1>1. /\ pending \in Seq(Jobs) /\ IsInjective(pending) /\ running = {} /\ done = {} /\ closed = FALSE
      /\ Startup \in Jobs
  <2>1. Startup \in Jobs  BY DEF Jobs
  <2>2. CASE pending = <<>>  BY <2>1, <2>2 DEF Init, Pool!Init, IsInjective
  <2>3. CASE pending = <<Startup>>
    <3>1. DOMAIN pending = {1} /\ pending \in Seq(Jobs)  BY <2>1, <2>3
    <3> QED BY <2>1, <3>1, <2>3 DEF Init, Pool!Init, IsInjective
  <2> QED BY <2>2, <2>3 DEF Init, Pool!Init
<1>2. NewEvent \in EventStates(Instances) /\ \A r \in Instances : NewEvent \in EventStates({r})
  BY DEF NewEvent, EventStates
<1>3. \A r \in Instances : spooled[r] = 0  BY DEF Init
<1>4. TypeOK
  <2>1. 0 \in 0 .. MaxSpooled  BY ResolverAssumption
  <2>2. attempted \in [Instances -> Seq(Proxies)]  BY EmptySeq DEF Init
  <2> QED BY <1>1, <1>2, <2>1, <2>2 DEF Init, TypeOK, NullableLists
<1>5. PoolInv  BY <1>1 DEF Init, PoolInv
<1>6. \A j \in Spooled : ~Active(j)
  <2>1. \A j \in Spooled : j \in Jobs /\ j \notin Range(pending)
    BY ClientType DEF Init, Pool!Init, Range
  <2> QED BY <2>1 DEF Init, Active
<1>7. UrlInv  BY <1>3, <1>6 DEF UrlInv
<1> QED BY <1>4, <1>5, <1>7 DEF TypeInv

\* The types and the pool hold for any number of requests of an instance, and whatever
\* wakes a client.
THEOREM TypeCorrect == Spec => []TypeInv
<1>1. TypeInv /\ [Next]_vars => TypeInv'
  BY TypeStep, PoolStep, UrlStep DEF TypeInv
<1> QED BY <1>1, InitType, PTL DEF Spec

-----------------------------------------------------------------------------
(* The instance of a job, and its answer.                                  *)

\* Where an instance goes to the pool once it has one job.
LEMMA OneJob ==
    ASSUME MaxSpooled = 1, NEW j \in Spooled, NEW k \in Spooled, Client(j) = Client(k)
    PROVE  j = k
BY DEF Spooled, Client

\* A job that runs was spooled.
LEMMA RunningSpooled ==
    ASSUME TypeInv, NEW j \in Spooled, Active(j)
    PROVE  /\ Client(j) \in Instances /\ spooled[Client(j)] # 0
           /\ url[Client(j)] \in Urls /\ j \in Jobs
<1>1. Client(j) \in Instances /\ j[2] \in 1 .. MaxSpooled /\ j \in Jobs  BY ClientType
<1>2. spooled[Client(j)] # 0  BY <1>1 DEF TypeInv, UrlInv
<1> QED BY <1>1, <1>2 DEF TypeInv, UrlInv, TypeOK

\* Every step keeps where the answers come from.
LEMMA AskStep ==
    ASSUME MaxSpooled = 1, TypeInv, AskInv, [Next]_vars
    PROVE  AskInv'
<1> USE DEF TypeInv, TypeOK, AskInv, InWait, pool, instance, history
<1>1. ASSUME NEW r \in Instances, Create(r) PROVE AskInv'
  BY <1>1 DEF Create, Idle
<1>2. ASSUME NEW r \in Instances, Delete(r) PROVE AskInv'
  BY <1>2 DEF Delete
<1>3. ASSUME NEW r \in Instances, NEW u \in Urls, Spool(r, u) PROVE AskInv'
  <2>1. spooled[r] = 0 /\ baseList[r] = NoList  BY <1>3 DEF Spool
  <2>2. /\ list'[r] = NoList /\ asked'[r] = u /\ url'[r] = u /\ spooled'[r] = 1
        /\ baseList' = baseList /\ ~answered'[r]
    BY <1>3, <2>1 DEF Spool, Ask
  <2>3. \A q \in Instances \ {r} :
           /\ list'[q] = list[q] /\ asked'[q] = asked[q] /\ url'[q] = url[q]
           /\ spooled'[q] = spooled[q] /\ answered'[q] = answered[q]
    BY <1>3 DEF Spool, Ask
  <2>4. complete' = complete /\ u # NoUrl  BY <1>3, ResolverAssumption DEF Spool, Ask
  <2> HIDE DEF TypeInv, TypeOK
  <2> QED BY <2>1, <2>2, <2>3, <2>4
<1>4. ASSUME NEW r \in Instances, NEW u \in Urls, AnswerFromConfig(r, u) PROVE AskInv'
  <2>1. PICK c \in Configs : list' = [list EXCEPT ![r] = SystemList(c, u)]
    BY <1>4 DEF AnswerFromConfig
  <2>2. SystemList(c, u) # NoList  BY <1>4, <2>1 DEF AnswerFromConfig
  <2>3. /\ list'[r] # NoList /\ list'[r] = SystemList(c, u) /\ asked'[r] = u /\ ~answered'[r]
        /\ UNCHANGED <<url, spooled, baseList, complete>>
    BY <1>4, <2>1, <2>2 DEF AnswerFromConfig, Ask
  <2>4. \A q \in Instances \ {r} :
           list'[q] = list[q] /\ asked'[q] = asked[q] /\ answered'[q] = answered[q]
    BY <1>4, <2>1 DEF AnswerFromConfig, Ask
  <2>5. u # NoUrl  BY ResolverAssumption
  <2> HIDE DEF TypeInv, TypeOK
  <2> QED BY <2>3, <2>4, <2>5
<1>5. ASSUME NEW r \in Instances, WaitReturns(r) PROVE AskInv'
  BY <1>5 DEF WaitReturns, Complete
<1>6. ASSUME NEW r \in Instances, WaitSleeps(r) PROVE AskInv'
  BY <1>6 DEF WaitSleeps, EventSleep
<1>7. ASSUME NEW r \in Instances, WaitResumes(r) PROVE AskInv'
  BY <1>7 DEF WaitResumes, Complete, EventResume, EventStates
<1>8. ASSUME NEW r \in Instances, WaitExpires(r) PROVE AskInv'
  BY <1>8 DEF WaitExpires, EventExpire, EventStates
<1>9. ASSUME NEW r \in Instances, SpuriousWakeup(r) PROVE AskInv'
  BY <1>9 DEF SpuriousWakeup, Awaken, EventStates
<1>10. ASSUME NEW r \in Instances, NextProxy(r) PROVE AskInv'
  BY <1>10 DEF NextProxy
<1>11. ASSUME JobStarts PROVE AskInv'
  BY <1>11 DEF JobStarts
<1>12. ASSUME NEW j \in Spooled, JobStores(j) PROVE AskInv'
  BY <1>12, RunningSpooled DEF JobStores, Active
<1>13. ASSUME NEW j \in Spooled, JobSignals(j) PROVE AskInv'
  <2>1. Client(j) \in Instances  BY ClientType
  <2>2. PICK e \in EventSet(complete[Client(j)]) : complete' = [complete EXCEPT ![Client(j)] = e]
    BY <1>13 DEF JobSignals
  <2>3. e.asleep \cup e.woken = complete[Client(j)].asleep \cup complete[Client(j)].woken
    <3>1. complete[Client(j)] \in EventStates({Client(j)})  BY <2>1
    <3> HIDE DEF TypeInv, TypeOK, AskInv
    <3> QED BY <2>2, <3>1, EventSetType
  <2> QED BY <1>13, <2>1, <2>2, <2>3 DEF JobSignals
<1>14. ASSUME NEW j \in Jobs, JobFinishes(j) PROVE AskInv'
  BY <1>14 DEF JobFinishes
<1>15. ASSUME BeginCleanup PROVE AskInv'
  BY <1>15 DEF BeginCleanup
<1>16. ASSUME EndCleanup PROVE AskInv'
  BY <1>16 DEF EndCleanup
<1>17. ASSUME UNCHANGED vars PROVE AskInv'
  BY <1>17 DEF vars
<1>18. ASSUME NEW r \in Instances, NEW u \in Urls, SpoolFails(r, u) PROVE AskInv'
  <2>1. spooled[r] = 0 /\ baseList[r] = NoList
    <3>1. spooled[r] \in Nat /\ spooled[r] < 1  BY <1>18, ResolverAssumption DEF SpoolFails
    <3> QED BY <3>1
  <2>2. /\ asked'[r] = NoUrl /\ ~answered'[r] /\ ~InWait(r)
        /\ UNCHANGED <<spooled, baseList, complete>>
    BY <1>18 DEF SpoolFails, Idle
  <2>3. \A q \in Instances \ {r} :
           /\ list'[q] = list[q] /\ asked'[q] = asked[q] /\ url'[q] = url[q]
           /\ answered'[q] = answered[q]
    BY <1>18 DEF SpoolFails
  <2> HIDE DEF TypeInv, TypeOK
  <2> QED BY <2>1, <2>2, <2>3
<1> QED BY <1>1, <1>2, <1>3, <1>4, <1>5, <1>6, <1>7, <1>8, <1>9, <1>10, <1>11, <1>12,
       <1>13, <1>14, <1>15, <1>16, <1>17, <1>18 DEF Next

\* Whether condition variables wake spuriously is up to the process.
LEMMA SpuriousConstant == ASSUME [Next]_vars PROVE spurious' = spurious
<1>1. ASSUME NEW r \in Instances, Create(r) PROVE spurious' = spurious
  BY <1>1 DEF Create
<1>2. ASSUME NEW r \in Instances, Delete(r) PROVE spurious' = spurious
  BY <1>2 DEF Delete
<1>3. ASSUME NEW r \in Instances, NEW u \in Urls, Spool(r, u) PROVE spurious' = spurious
  BY <1>3 DEF Spool, Ask
<1>4. ASSUME NEW r \in Instances, NEW u \in Urls, AnswerFromConfig(r, u) PROVE spurious' = spurious
  BY <1>4 DEF AnswerFromConfig, Ask
<1>5. ASSUME NEW r \in Instances, WaitReturns(r) PROVE spurious' = spurious
  BY <1>5 DEF WaitReturns, Complete
<1>6. ASSUME NEW r \in Instances, WaitSleeps(r) PROVE spurious' = spurious
  BY <1>6 DEF WaitSleeps
<1>7. ASSUME NEW r \in Instances, WaitResumes(r) PROVE spurious' = spurious
  BY <1>7 DEF WaitResumes, Complete
<1>8. ASSUME NEW r \in Instances, WaitExpires(r) PROVE spurious' = spurious
  BY <1>8 DEF WaitExpires
<1>9. ASSUME NEW r \in Instances, SpuriousWakeup(r) PROVE spurious' = spurious
  BY <1>9 DEF SpuriousWakeup
<1>10. ASSUME NEW r \in Instances, NextProxy(r) PROVE spurious' = spurious
  BY <1>10 DEF NextProxy
<1>11. ASSUME JobStarts PROVE spurious' = spurious
  BY <1>11 DEF JobStarts
<1>12. ASSUME NEW j \in Spooled, JobStores(j) PROVE spurious' = spurious
  BY <1>12 DEF JobStores
<1>13. ASSUME NEW j \in Spooled, JobSignals(j) PROVE spurious' = spurious
  BY <1>13 DEF JobSignals
<1>14. ASSUME NEW j \in Jobs, JobFinishes(j) PROVE spurious' = spurious
  BY <1>14 DEF JobFinishes
<1>15. ASSUME BeginCleanup PROVE spurious' = spurious
  BY <1>15 DEF BeginCleanup
<1>16. ASSUME EndCleanup PROVE spurious' = spurious
  BY <1>16 DEF EndCleanup
<1>17. ASSUME UNCHANGED vars PROVE spurious' = spurious
  BY <1>17 DEF vars
<1>18. ASSUME NEW r \in Instances, NEW u \in Urls, SpoolFails(r, u) PROVE spurious' = spurious
  BY <1>18 DEF SpoolFails
<1> QED BY <1>1, <1>2, <1>3, <1>4, <1>5, <1>6, <1>7, <1>8, <1>9, <1>10, <1>11, <1>12,
       <1>13, <1>14, <1>15, <1>16, <1>17, <1>18 DEF Next

\* Nothing but its job ends the waiting of an instance.
LEMMA WaitingStep ==
    ASSUME TypeInv, ~spurious, NEW q \in Instances, Waiting(q), [Next]_vars,
           \A k \in Spooled : Client(k) = q => ~JobSignals(k)
    PROVE  Waiting(q)'
<1> USE DEF TypeInv, TypeOK, Silent, Waiting, InWait, pool, instance, history
<1>1. ASSUME NEW r \in Instances, Create(r) PROVE Waiting(q)'
  BY <1>1 DEF Create
<1>2. ASSUME NEW r \in Instances, Delete(r) PROVE Waiting(q)'
  BY <1>2 DEF Delete
<1>3. ASSUME NEW r \in Instances, NEW u \in Urls, Spool(r, u) PROVE Waiting(q)'
  BY <1>3 DEF Spool, Ask
<1>4. ASSUME NEW r \in Instances, NEW u \in Urls, AnswerFromConfig(r, u) PROVE Waiting(q)'
  BY <1>4 DEF AnswerFromConfig, Ask
<1>5. ASSUME NEW r \in Instances, WaitReturns(r) PROVE Waiting(q)'
  BY <1>5 DEF WaitReturns, Complete
<1>6. ASSUME NEW r \in Instances, WaitSleeps(r) PROVE Waiting(q)'
  BY <1>6 DEF WaitSleeps, EventSleep, EventStates
<1>7. ASSUME NEW r \in Instances, WaitResumes(r) PROVE Waiting(q)'
  BY <1>7 DEF WaitResumes, Complete
<1>8. ASSUME NEW r \in Instances, WaitExpires(r) PROVE Waiting(q)'
  BY <1>8 DEF WaitExpires, EventExpire, EventStates
<1>9. ASSUME NEW r \in Instances, SpuriousWakeup(r) PROVE Waiting(q)'
  BY <1>9 DEF SpuriousWakeup
<1>10. ASSUME NEW r \in Instances, NextProxy(r) PROVE Waiting(q)'
  BY <1>10 DEF NextProxy
<1>11. ASSUME JobStarts PROVE Waiting(q)'
  BY <1>11 DEF JobStarts
<1>12. ASSUME NEW j \in Spooled, JobStores(j) PROVE Waiting(q)'
  BY <1>12 DEF JobStores
<1>13. ASSUME NEW j \in Spooled, JobSignals(j) PROVE Waiting(q)'
  BY <1>13, ClientType DEF JobSignals
<1>14. ASSUME NEW j \in Jobs, JobFinishes(j) PROVE Waiting(q)'
  BY <1>14 DEF JobFinishes
<1>15. ASSUME BeginCleanup PROVE Waiting(q)'
  BY <1>15 DEF BeginCleanup
<1>16. ASSUME EndCleanup PROVE Waiting(q)'
  BY <1>16 DEF EndCleanup
<1>17. ASSUME UNCHANGED vars PROVE Waiting(q)'
  BY <1>17 DEF vars
<1>18. ASSUME NEW r \in Instances, NEW u \in Urls, SpoolFails(r, u) PROVE Waiting(q)'
  BY <1>18 DEF SpoolFails
<1> QED BY <1>1, <1>2, <1>3, <1>4, <1>5, <1>6, <1>7, <1>8, <1>9, <1>10, <1>11, <1>12,
       <1>13, <1>14, <1>15, <1>16, <1>17, <1>18 DEF Next

\* Nothing tells a client anything before it goes to the pool.
LEMMA SilentStep ==
    ASSUME TypeInv, ~spurious, NEW q \in Instances, spooled[q] = 0, Silent(q), [Next]_vars
    PROVE  Silent(q)'
<1> USE DEF TypeInv, TypeOK, Silent, InWait, pool, instance, history
<1>1. ASSUME NEW r \in Instances, Create(r) PROVE Silent(q)'
  BY <1>1 DEF Create
<1>2. ASSUME NEW r \in Instances, Delete(r) PROVE Silent(q)'
  BY <1>2 DEF Delete
<1>3. ASSUME NEW r \in Instances, NEW u \in Urls, Spool(r, u) PROVE Silent(q)'
  BY <1>3 DEF Spool, Ask
<1>4. ASSUME NEW r \in Instances, NEW u \in Urls, AnswerFromConfig(r, u) PROVE Silent(q)'
  BY <1>4 DEF AnswerFromConfig, Ask
<1>5. ASSUME NEW r \in Instances, WaitReturns(r) PROVE Silent(q)'
  BY <1>5 DEF WaitReturns, Complete
<1>6. ASSUME NEW r \in Instances, WaitSleeps(r) PROVE Silent(q)'
  BY <1>6 DEF WaitSleeps, EventSleep, EventStates
<1>7. ASSUME NEW r \in Instances, WaitResumes(r) PROVE Silent(q)'
  BY <1>7 DEF WaitResumes, Complete
<1>8. ASSUME NEW r \in Instances, WaitExpires(r) PROVE Silent(q)'
  BY <1>8 DEF WaitExpires, EventExpire, EventStates
<1>9. ASSUME NEW r \in Instances, SpuriousWakeup(r) PROVE Silent(q)'
  BY <1>9 DEF SpuriousWakeup
<1>10. ASSUME NEW r \in Instances, NextProxy(r) PROVE Silent(q)'
  BY <1>10 DEF NextProxy
<1>11. ASSUME JobStarts PROVE Silent(q)'
  BY <1>11 DEF JobStarts
<1>12. ASSUME NEW j \in Spooled, JobStores(j) PROVE Silent(q)'
  BY <1>12 DEF JobStores
<1>13. ASSUME NEW j \in Spooled, JobSignals(j) PROVE Silent(q)'
  BY <1>13, RunningSpooled DEF JobSignals, Active
<1>14. ASSUME NEW j \in Jobs, JobFinishes(j) PROVE Silent(q)'
  BY <1>14 DEF JobFinishes
<1>15. ASSUME BeginCleanup PROVE Silent(q)'
  BY <1>15 DEF BeginCleanup
<1>16. ASSUME EndCleanup PROVE Silent(q)'
  BY <1>16 DEF EndCleanup
<1>17. ASSUME UNCHANGED vars PROVE Silent(q)'
  BY <1>17 DEF vars
<1>18. ASSUME NEW r \in Instances, NEW u \in Urls, SpoolFails(r, u) PROVE Silent(q)'
  BY <1>18 DEF SpoolFails
<1> QED BY <1>1, <1>2, <1>3, <1>4, <1>5, <1>6, <1>7, <1>8, <1>9, <1>10, <1>11, <1>12,
       <1>13, <1>14, <1>15, <1>16, <1>17, <1>18 DEF Next

\* Every step keeps the instance of a job waiting for it.
LEMMA JobStep ==
    ASSUME MaxSpooled = 1, TypeInv, AskInv, JobInv, [Next]_vars
    PROVE  JobInv'
<1> SUFFICES ASSUME ~spurious
             PROVE  /\ \A q \in Instances : spooled'[q] = 0 => Silent(q)'
                    /\ \A j \in Spooled : Active(j)' => Waiting(Client(j))'
  BY SpuriousConstant DEF JobInv
<1>1. ASSUME NEW q \in Instances, spooled'[q] = 0 PROVE Silent(q)'
  <2>1. spooled[q] = 0  BY <1>1, SpooledStep
  <2> QED BY <2>1, SilentStep DEF JobInv
<1>2. ASSUME NEW j \in Spooled, Active(j)' PROVE Waiting(Client(j))'
  <2>1. Client(j) \in Instances  BY ClientType
  <2>2. CASE Active(j)
    <3>1. Waiting(Client(j))  BY <2>2 DEF JobInv
    <3>2. ASSUME NEW k \in Spooled, Client(k) = Client(j), JobSignals(k) PROVE FALSE
      <4>1. k = j  BY <3>2, OneJob
      <4>2. step'[j] = "finish" /\ pending' = pending /\ step[j] = "signal"
        BY <3>2, <4>1, ClientType DEF JobSignals, TypeInv, TypeOK, pool
      <4>3. j \notin Range(pending)
        BY <4>2, ClientType DEF TypeInv, PoolInv
      <4> QED BY <1>2, <4>2, <4>3 DEF Active
    <3> QED BY <2>1, <3>1, <3>2, WaitingStep
  <2>3. ASSUME NEW u \in Urls, Spool(Client(j), u) PROVE Waiting(Client(j))'
    <3>1. spooled[Client(j)] = 0  BY <2>1, <2>3 DEF Spool, TypeInv, TypeOK
    <3>2. Silent(Client(j))  BY <2>1, <3>1 DEF JobInv
    <3> QED BY <2>1, <2>3, <3>2, ResolverAssumption
            DEF Spool, Ask, Idle, Waiting, Silent, TypeInv, TypeOK
  <2> QED BY <1>2, <2>2, <2>3, ActiveStep
<1> QED BY <1>1, <1>2

\* Nothing was asked yet.
LEMMA InitAsk == Init => AskInv /\ JobInv
<1> SUFFICES ASSUME Init PROVE AskInv /\ JobInv
  OBVIOUS
<1>1. AskInv  BY DEF Init, AskInv, InWait, NewEvent
<1>2. \A j \in Spooled : ~Active(j)
  <2>1. \A j \in Spooled : j \in Jobs /\ j \notin Range(pending)
    BY ClientType DEF Init, Pool!Init, Range
  <2> QED BY <2>1 DEF Init, Active
<1>3. JobInv  BY <1>2 DEF Init, JobInv, Silent, NewEvent
<1> QED BY <1>1, <1>3

\* An instance that goes to the pool once waits for its job as long as the job needs it.
THEOREM WaitsForJob == MaxSpooled = 1 => (Spec => [](TypeInv /\ AskInv /\ JobInv))
<1> SUFFICES ASSUME MaxSpooled = 1 PROVE Spec => [](TypeInv /\ AskInv /\ JobInv)
  OBVIOUS
<1>1. Init => TypeInv /\ AskInv /\ JobInv  BY InitType, InitAsk
<1>2. TypeInv /\ AskInv /\ JobInv /\ [Next]_vars => (TypeInv /\ AskInv /\ JobInv)'
  BY TypeStep, PoolStep, UrlStep, AskStep, JobStep DEF TypeInv
<1> QED BY <1>1, <1>2, PTL DEF Spec

\* No job uses an instance that was deleted, for any number of instances and threads, and
\* the globals outlive every job (proxy_resolver_delete, proxy_resolver_global_cleanup).
THEOREM MemorySafe == MaxSpooled = 1 => (Spec => []NoUseAfterFree)
<1> SUFFICES ASSUME MaxSpooled = 1 PROVE Spec => []NoUseAfterFree
  OBVIOUS
<1>1. TypeInv /\ AskInv /\ JobInv => NoUseAfterFree
  BY PendingRange DEF NoUseAfterFree, TypeInv, PoolInv, JobInv, Active, Waiting
<1> QED BY <1>1, WaitsForJob, PTL

\* The list that an answered client gets is one for the url it asked last
\* (proxy_resolver_get_list), even where it is woken too early.
THEOREM RightAnswer == MaxSpooled = 1 => (Spec => []AnswerMatches)
<1> SUFFICES ASSUME MaxSpooled = 1 PROVE Spec => []AnswerMatches
  OBVIOUS
<1>1. TypeInv /\ AskInv /\ JobInv => AnswerMatches
  BY DEF AnswerMatches, AskInv, Got
<1> QED BY <1>1, WaitsForJob, PTL

\* Where no condition variable wakes spuriously, proxy_resolver_wait returns true only once
\* the job of the request is done with the instance: what WaitMeansComplete states.
THEOREM WaitCompletes == MaxSpooled = 1 => (Spec => [](~spurious => WaitMeansComplete))
<1> SUFFICES ASSUME MaxSpooled = 1 PROVE Spec => [](~spurious => WaitMeansComplete)
  OBVIOUS
<1>1. TypeInv /\ AskInv /\ JobInv => (~spurious => WaitMeansComplete)
  BY PendingRange DEF WaitMeansComplete, JobInv, Active, Waiting
<1> QED BY <1>1, WaitsForJob, PTL

-----------------------------------------------------------------------------
(* The list that is handed out.                                            *)

\* While an instance is answered, its list stays.
LEMMA GotStep ==
    ASSUME MaxSpooled = 1, TypeInv, AskInv, JobInv, [Next]_vars, ~spurious,
           NEW q \in Instances, answered[q], answered'[q]
    PROVE  Got(q)' = Got(q)
<1> USE DEF TypeInv, TypeOK, Got, pool, instance, history
<1>1. ASSUME NEW r \in Instances, Create(r) PROVE Got(q)' = Got(q)
  BY <1>1 DEF Create
<1>2. ASSUME NEW r \in Instances, Delete(r) PROVE Got(q)' = Got(q)
  BY <1>2 DEF Delete
<1>3. ASSUME NEW r \in Instances, NEW u \in Urls, Spool(r, u) PROVE Got(q)' = Got(q)
  BY <1>3 DEF Spool, Ask, Ask
<1>4. ASSUME NEW r \in Instances, NEW u \in Urls, AnswerFromConfig(r, u) PROVE Got(q)' = Got(q)
  BY <1>4 DEF AnswerFromConfig, Ask
<1>5. ASSUME NEW r \in Instances, WaitReturns(r) PROVE Got(q)' = Got(q)
  BY <1>5 DEF WaitReturns, Complete
<1>6. ASSUME NEW r \in Instances, WaitSleeps(r) PROVE Got(q)' = Got(q)
  BY <1>6 DEF WaitSleeps
<1>7. ASSUME NEW r \in Instances, WaitResumes(r) PROVE Got(q)' = Got(q)
  BY <1>7 DEF WaitResumes, Complete
<1>8. ASSUME NEW r \in Instances, WaitExpires(r) PROVE Got(q)' = Got(q)
  BY <1>8 DEF WaitExpires
<1>9. ASSUME NEW r \in Instances, SpuriousWakeup(r) PROVE Got(q)' = Got(q)
  BY <1>9 DEF SpuriousWakeup
<1>10. ASSUME NEW r \in Instances, NextProxy(r) PROVE Got(q)' = Got(q)
  BY <1>10 DEF NextProxy
<1>11. ASSUME JobStarts PROVE Got(q)' = Got(q)
  BY <1>11 DEF JobStarts
<1>12. ASSUME NEW j \in Spooled, JobStores(j) PROVE Got(q)' = Got(q)
  <2>1. Client(j) \in Instances  BY ClientType
  <2>2. Active(j)  BY <1>12 DEF JobStores, Active
  <2>3. Client(j) # q  BY <2>2 DEF JobInv, Waiting
  <2> QED BY <1>12, <2>1, <2>3 DEF JobStores
<1>13. ASSUME NEW j \in Spooled, JobSignals(j) PROVE Got(q)' = Got(q)
  BY <1>13 DEF JobSignals
<1>14. ASSUME NEW j \in Jobs, JobFinishes(j) PROVE Got(q)' = Got(q)
  BY <1>14 DEF JobFinishes
<1>15. ASSUME BeginCleanup PROVE Got(q)' = Got(q)
  BY <1>15 DEF BeginCleanup
<1>16. ASSUME EndCleanup PROVE Got(q)' = Got(q)
  BY <1>16 DEF EndCleanup
<1>17. ASSUME UNCHANGED vars PROVE Got(q)' = Got(q)
  BY <1>17 DEF vars
<1>18. ASSUME NEW r \in Instances, NEW u \in Urls, SpoolFails(r, u) PROVE Got(q)' = Got(q)
  BY <1>18 DEF SpoolFails
<1> QED BY <1>1, <1>2, <1>3, <1>4, <1>5, <1>6, <1>7, <1>8, <1>9, <1>10, <1>11, <1>12,
       <1>13, <1>14, <1>15, <1>16, <1>17, <1>18 DEF Next

\* The list of an answered request does not change before the next one.
THEOREM Final == MaxSpooled = 1 => (Spec => AnswerIsFinal)
<1> SUFFICES ASSUME MaxSpooled = 1 PROVE Spec => AnswerIsFinal
  OBVIOUS
<1>1. TypeInv /\ AskInv /\ JobInv /\ [Next]_vars =>
         [~spurious => \A r \in Instances : answered[r] /\ answered'[r] => Got(r)' = Got(r)]_vars
  BY GotStep
<1> QED BY <1>1, WaitsForJob, PTL DEF Spec, AnswerIsFinal

\* What is left of a list to hand out.
Left(l) == IF l = NoList THEN <<>> ELSE l
HandedOut(q) == Got(q) # NoList => Got(q) = attempted[q] \o Left(listp[q])

\* An answered instance starts with nothing handed out and all of its list left.
LEMMA CompleteStep ==
    ASSUME TypeInv, NEW q \in Instances, Complete(q)
    PROVE  HandedOut(q)'
<1>1. Got(q)' = Got(q) /\ listp'[q] = Got(q) /\ attempted'[q] = <<>>
  BY DEF Complete, Got, TypeInv, TypeOK
<1>2. CASE Got(q) = NoList  BY <1>1, <1>2 DEF HandedOut
<1>3. CASE Got(q) # NoList
  <2>1. Got(q) \in Seq(Proxies)  BY <1>3, GotType, WholeList DEF TypeInv, NullableLists
  <2>2. <<>> \o Got(q) = Got(q)  BY <2>1, ConcatEmptySeq
  <2> QED BY <1>1, <1>3, <2>2 DEF HandedOut, Left
<1> QED BY <1>2, <1>3

\* Handing out a proxy moves it from what is left to what was attempted.
LEMMA NextProxyStep ==
    ASSUME TypeInv, NEW q \in Instances, HandedOut(q), NextProxy(q)
    PROVE  HandedOut(q)'
<1>1. /\ Got(q)' = Got(q)
      /\ attempted'[q] = Append(attempted[q], Head(listp[q])) /\ listp'[q] = AfterToken(listp[q])
      /\ listp[q] \in Suffixes /\ listp[q] # NoList /\ attempted[q] \in Seq(Proxies)
  BY DEF NextProxy, Got, TypeInv, TypeOK
<1>2. attempted[q] \o listp[q] = attempted'[q] \o Left(listp'[q])
  BY <1>1, NextToken DEF Left
<1> QED BY <1>1, <1>2 DEF HandedOut, Left

\* Every other step leaves an answered instance with what was handed out, and answers none.
LEMMA KeptStep ==
    ASSUME TypeInv, [Next]_vars, NEW q \in Instances, answered'[q], ~Complete(q), ~NextProxy(q)
    PROVE  answered[q] /\ listp'[q] = listp[q] /\ attempted'[q] = attempted[q]
<1> DEFINE Kept == answered[q] /\ listp'[q] = listp[q] /\ attempted'[q] = attempted[q]
<1> USE DEF TypeInv, TypeOK, pool, instance, history
<1>1. ASSUME NEW r \in Instances, Create(r) PROVE Kept
  BY <1>1 DEF Create
<1>2. ASSUME NEW r \in Instances, Delete(r) PROVE Kept
  BY <1>2 DEF Delete
<1>3. ASSUME NEW r \in Instances, NEW u \in Urls, Spool(r, u) PROVE Kept
  BY <1>3 DEF Spool, Ask
<1>4. ASSUME NEW r \in Instances, NEW u \in Urls, AnswerFromConfig(r, u) PROVE Kept
  BY <1>4 DEF AnswerFromConfig, Ask
<1>5. ASSUME NEW r \in Instances, WaitReturns(r) PROVE Kept
  BY <1>5 DEF WaitReturns, Complete
<1>6. ASSUME NEW r \in Instances, WaitSleeps(r) PROVE Kept
  BY <1>6 DEF WaitSleeps
<1>7. ASSUME NEW r \in Instances, WaitResumes(r) PROVE Kept
  BY <1>7 DEF WaitResumes, Complete
<1>8. ASSUME NEW r \in Instances, WaitExpires(r) PROVE Kept
  BY <1>8 DEF WaitExpires
<1>9. ASSUME NEW r \in Instances, SpuriousWakeup(r) PROVE Kept
  BY <1>9 DEF SpuriousWakeup
<1>10. ASSUME NEW r \in Instances, NextProxy(r) PROVE Kept
  BY <1>10 DEF NextProxy
<1>11. ASSUME JobStarts PROVE Kept
  BY <1>11 DEF JobStarts
<1>12. ASSUME NEW j \in Spooled, JobStores(j) PROVE Kept
  BY <1>12 DEF JobStores
<1>13. ASSUME NEW j \in Spooled, JobSignals(j) PROVE Kept
  BY <1>13 DEF JobSignals
<1>14. ASSUME NEW j \in Jobs, JobFinishes(j) PROVE Kept
  BY <1>14 DEF JobFinishes
<1>15. ASSUME BeginCleanup PROVE Kept
  BY <1>15 DEF BeginCleanup
<1>16. ASSUME EndCleanup PROVE Kept
  BY <1>16 DEF EndCleanup
<1>17. ASSUME UNCHANGED vars PROVE Kept
  BY <1>17 DEF vars
<1>18. ASSUME NEW r \in Instances, NEW u \in Urls, SpoolFails(r, u) PROVE Kept
  BY <1>18 DEF SpoolFails
<1> QED BY <1>1, <1>2, <1>3, <1>4, <1>5, <1>6, <1>7, <1>8, <1>9, <1>10, <1>11, <1>12,
       <1>13, <1>14, <1>15, <1>16, <1>17, <1>18 DEF Next

\* Every step leaves an answered instance with what was and what is to be handed out.
LEMMA HandedOutStep ==
    ASSUME MaxSpooled = 1, TypeInv, AskInv, JobInv, [Next]_vars, ~spurious,
           NEW q \in Instances, answered[q] => HandedOut(q), answered'[q]
    PROVE  HandedOut(q)'
<1>1. CASE Complete(q)  BY <1>1, CompleteStep
<1>2. CASE answered[q] /\ NextProxy(q)  BY <1>2, NextProxyStep
<1>3. CASE ~Complete(q) /\ ~NextProxy(q)
  <2>1. answered[q] /\ listp'[q] = listp[q] /\ attempted'[q] = attempted[q]
    BY <1>3, KeptStep
  <2>2. Got(q)' = Got(q)  BY <2>1, GotStep
  <2> QED BY <2>1, <2>2 DEF HandedOut
<1>4. NextProxy(q) => answered[q]  BY DEF NextProxy
<1> QED BY <1>1, <1>2, <1>3, <1>4

\* Every proxy of the list is handed out, in its order, for lists of any length
\* (proxy_resolver_get_next_proxy).
THEOREM AllAttempted == MaxSpooled = 1 => (Spec => []EveryProxyAttempted)
<1> SUFFICES ASSUME MaxSpooled = 1 PROVE Spec => []EveryProxyAttempted
  OBVIOUS
<1>1. Init => EveryProxyAttempted  BY DEF Init, EveryProxyAttempted
<1>2. TypeInv /\ AskInv /\ JobInv /\ EveryProxyAttempted /\ [Next]_vars => EveryProxyAttempted'
  <2> SUFFICES ASSUME TypeInv, AskInv, JobInv, EveryProxyAttempted, [Next]_vars, ~spurious,
                      NEW q \in Instances, answered'[q]
               PROVE  HandedOut(q)'
    BY SpuriousConstant DEF EveryProxyAttempted, HandedOut, Left
  <2>1. answered[q] => HandedOut(q)  BY DEF EveryProxyAttempted, HandedOut, Left
  <2> QED BY <2>1, HandedOutStep
<1> QED BY <1>1, <1>2, WaitsForJob, PTL DEF Spec
=============================================================================

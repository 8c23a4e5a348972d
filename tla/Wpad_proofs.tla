----------------------------- MODULE Wpad_proofs -----------------------------
(***************************************************************************)
(* Proofs about Wpad and Fetch, for any number of adapters and of hosts,   *)
(* any urls, any number of discoveries and of seconds, and headers, bodies *)
(* and buffers of any size.                                                *)
(*                                                                         *)
(* That an answer is not one that was delayed rests on ReplyInv: the       *)
(* second of a request stands for its transaction id, and a discovery      *)
(* begins in a second in which none was sent.  That the enumeration passes *)
(* over no adapter rests on what it asked up to each of them (TriedInv),   *)
(* and that a script is whole on what recv took so far (FetchInv).         *)
(***************************************************************************)
EXTENDS Wpad, TLAPS

-----------------------------------------------------------------------------
(* The inductive invariants.                                               *)

\* The host or the adapter that discovery is at.
PlaceInv ==
    /\ stage = "dhcp" => at <= Adapters + 1
    /\ stage = "waiting" => at <= Adapters
    /\ stage = "dns" => at <= Domains + 1
    /\ stage = "fetching" => at <= Domains
    /\ stage = "fetching" <=> reading # "none"

\* What is received of a reply is a part of what the server sends, at first no more than the
\* buffer takes and then no more than was announced.
FetchInv ==
    /\ reading \in {"none", "connect"} => taken = 0
    /\ reading # "done" => body = NoBody
    /\ reading \in {"head", "body"} => taken <= reply.sends
    /\ reading = "head" => taken <= Buffer
    /\ reading = "body" => taken >= reply.header /\ taken < Length(reply)

\* The transaction id of a datagram is a second that passed, and what was sent in this second
\* tells what the server offers now: a discovery begins in a second of its own.
ReplyInv ==
    /\ \A r \in toServer : r.xid <= second
    /\ \A r \in toClient : r.xid <= second /\ (r.xid = second /\ r.type = "ack" => r.url = offers[r.adapter])
    /\ stage = "waiting" => xid = second
    /\ url # NoUrl => stage = "done"

\* The adapters in use were asked up to where discovery is.
TriedInv ==
    /\ stage = "dhcp" => tried = usable \cap 1 .. (at - 1)
    /\ stage = "waiting" => tried = usable \cap 1 .. at

IInv ==
    /\ AnswerFresh
    /\ EveryAdapterAsked
    /\ ScriptWhole
    /\ PlaceInv
    /\ FetchInv
    /\ ReplyInv
    /\ TriedInv

-----------------------------------------------------------------------------
(* One fetch.                                                              *)

\* What recv took grows and stays within what the server sends, header and body.
LEMMA ReplyType ==
    ASSUME FetchTypeOK
    PROVE  /\ reply.header \in 1 .. MaxHeader /\ reply.length \in 0 .. MaxBody
           /\ reply.sends \in 0 .. MaxSends
           /\ Length(reply) = reply.header + reply.length
           /\ MaxHeader \in Nat /\ MaxBody \in Nat /\ MaxSends \in Nat /\ Buffer \in Nat
BY FetchAssumption DEF FetchTypeOK, Replies, Length

\* Every step of a fetch keeps what it received within the reply.
LEMMA FetchStep ==
    ASSUME FetchTypeOK, FetchInv, ScriptWhole, FetchNext
    PROVE  FetchTypeOK' /\ FetchInv' /\ ScriptWhole' /\ reading' # "none" /\ reading # "none"
<1> DEFINE Fetched == FetchTypeOK' /\ FetchInv' /\ ScriptWhole' /\ reading' # "none" /\ reading # "none"
<1> USE ReplyType, FetchAssumption DEF FetchTypeOK, FetchInv, ScriptWhole, Overrun, NoBody, Done
<1>1. CASE FetchFails  BY <1>1 DEF FetchFails
<1>2. CASE FetchSends  BY <1>2 DEF FetchSends, Replies, Length
<1>3. CASE ReadHead  BY <1>3 DEF ReadHead, Recv
<1>4. CASE ParseHead  BY <1>4 DEF ParseHead, AtEnd
<1>5. CASE ReadBody  BY <1>5 DEF ReadBody, Recv
<1>6. CASE EndBody  BY <1>6 DEF EndBody, AtEnd
<1> QED BY <1>1, <1>2, <1>3, <1>4, <1>5, <1>6 DEF FetchNext

-----------------------------------------------------------------------------
(* The steps of discovery and each part of the invariant.                  *)

\* A step of discovery that is no step of a fetch leaves its result as it is, starts one or
\* takes the result.
LEMMA FetchPart ==
    ASSUME IInv, [Next]_vars
    PROVE  FetchTypeOK' /\ FetchInv' /\ ScriptWhole'
<1> USE DEF IInv, AnswerFresh, TypeOK
<1>1. CASE FetchSteps  BY <1>1, FetchStep DEF FetchSteps
<1>2. CASE AskHost
  <2>1. reading' = "connect" /\ UNCHANGED <<reply, taken, body>> /\ taken = 0 /\ body = NoBody
    BY <1>2 DEF AskHost, PlaceInv, FetchInv
  <2> QED BY <2>1 DEF FetchTypeOK, FetchInv, ScriptWhole
<1>3. CASE FetchReturns
  <2>1. reading' = "none" /\ reply' = NoReply /\ taken' = 0 /\ body' = NoBody
    BY <1>3 DEF FetchReturns
  <2>2. NoReply \in Replies  BY FetchAssumption DEF NoReply, Replies, Length
  <2>3. 0 \in 0 .. MaxSends /\ NoBody \in NoBody .. MaxSends
    BY FetchAssumption DEF NoBody
  <2> QED BY <2>1, <2>2, <2>3 DEF FetchTypeOK, FetchInv, ScriptWhole
<1>4. CASE UNCHANGED fetch
  BY <1>4 DEF fetch, FetchTypeOK, FetchInv, ScriptWhole, Overrun, Length
<1> QED BY <1>1, <1>2, <1>3, <1>4
        DEF Next, Discover, Tick, Begin, Reply, Lose, Receive, Skip, AskFails, AskAdapter, Expire,
            EndDhcp, EndDns, vars

\* Every step keeps the types.
LEMMA TypeStep ==
    ASSUME IInv, [Next]_vars
    PROVE  TypeOK'
<1> DEFINE Most == /\ second' \in 1 .. MaxSeconds /\ rounds' \in 0 .. MaxRounds
                   /\ stage' \in {"idle", "dhcp", "waiting", "dns", "fetching", "done", "crashed"}
                   /\ usable' \subseteq Adapter /\ tried' \subseteq usable'
                   /\ offers' \in [Adapter -> Urls \cup {NoUrl}]
                   /\ at' \in 1 .. 1 + (IF Adapters > Domains THEN Adapters ELSE Domains)
                   /\ xid' \in 1 .. MaxSeconds
                   /\ toServer' \subseteq [adapter : Adapter, xid : 1 .. MaxSeconds]
                   /\ toClient' \subseteq Datagrams
                   /\ url' \in Urls \cup {NoUrl} /\ found' \in BOOLEAN
<1> SUFFICES Most  BY FetchPart DEF TypeOK
<1> USE WpadAssumption DEF IInv, AnswerFresh, TypeOK, PlaceInv, Adapter, round, network
<1>1. CASE Tick
  BY <1>1 DEF Tick
<1>2. CASE Begin
  <2>1. second' \in 1 .. MaxSeconds /\ rounds' \in 0 .. MaxRounds  BY <1>2 DEF Begin
  <2>2. at' \in 1 .. 1 + (IF Adapters > Domains THEN Adapters ELSE Domains)  BY <1>2 DEF Begin
  <2>3. /\ stage' = "dhcp" /\ tried' = {} /\ url' = NoUrl /\ found' = FALSE
        /\ usable' \subseteq 1 .. Adapters /\ offers' \in [1 .. Adapters -> Urls \cup {NoUrl}]
        /\ UNCHANGED <<xid, toServer, toClient>>
    BY <1>2 DEF Begin
  <2> QED BY <2>1, <2>2, <2>3
<1>3. CASE Reply
  BY <1>3 DEF Reply, Datagrams, Types
<1>4. CASE Lose
  BY <1>4 DEF Lose
<1>5. CASE Receive
  BY <1>5 DEF Receive, NextAdapter, Valid, Datagrams
<1>6. CASE Skip
  BY <1>6 DEF Skip, NextAdapter
<1>7. CASE AskFails
  BY <1>7 DEF AskFails, NextAdapter
<1>8. CASE AskAdapter
  BY <1>8 DEF AskAdapter
<1>9. CASE Expire
  BY <1>9 DEF Expire, NextAdapter
<1>10. CASE EndDhcp
  BY <1>10 DEF EndDhcp
<1>11. CASE AskHost
  BY <1>11 DEF AskHost
<1>12. CASE FetchSteps
  BY <1>12 DEF FetchSteps
<1>13. CASE FetchReturns
  <2>1. at' \in 1 .. 1 + (IF Adapters > Domains THEN Adapters ELSE Domains)  BY <1>13 DEF FetchReturns
  <2>2. stage' \in {"dns", "done"} /\ found' \in BOOLEAN  BY <1>13 DEF FetchReturns
  <2> QED BY <1>13, <2>1, <2>2 DEF FetchReturns
<1>14. CASE EndDns
  BY <1>14 DEF EndDns
<1>15. CASE UNCHANGED vars
  BY <1>15 DEF vars
<1> QED BY <1>1, <1>2, <1>3, <1>4, <1>5, <1>6, <1>7, <1>8, <1>9, <1>10, <1>11, <1>12,
       <1>13, <1>14, <1>15 DEF Next, Discover

\* Every step keeps where discovery is.
LEMMA PlaceStep ==
    ASSUME IInv, [Next]_vars
    PROVE  PlaceInv'
<1> USE WpadAssumption DEF IInv, AnswerFresh, TypeOK, PlaceInv, Adapter, round, network, fetch
<1>1. CASE Tick
  BY <1>1 DEF Tick
<1>2. CASE Begin
  BY <1>2 DEF Begin
<1>3. CASE Reply
  BY <1>3 DEF Reply
<1>4. CASE Lose
  BY <1>4 DEF Lose
<1>5. CASE Receive
  BY <1>5 DEF Receive, NextAdapter, Valid
<1>6. CASE Skip
  BY <1>6 DEF Skip, NextAdapter
<1>7. CASE AskFails
  BY <1>7 DEF AskFails, NextAdapter
<1>8. CASE AskAdapter
  BY <1>8 DEF AskAdapter
<1>9. CASE Expire
  BY <1>9 DEF Expire, NextAdapter
<1>10. CASE EndDhcp
  BY <1>10 DEF EndDhcp
<1>11. CASE AskHost
  BY <1>11 DEF AskHost
<1>12. CASE FetchSteps
  BY <1>12, FetchStep DEF FetchSteps
<1>13. CASE FetchReturns
  BY <1>13 DEF FetchReturns
<1>14. CASE EndDns
  BY <1>14 DEF EndDns
<1>15. CASE UNCHANGED vars
  BY <1>15 DEF vars
<1> QED BY <1>1, <1>2, <1>3, <1>4, <1>5, <1>6, <1>7, <1>8, <1>9, <1>10, <1>11, <1>12,
       <1>13, <1>14, <1>15 DEF Next, Discover

\* Every step keeps what the datagrams of this second say.
LEMMA ReplyStep ==
    ASSUME IInv, [Next]_vars
    PROVE  ReplyInv'
<1> USE DEF IInv, AnswerFresh, TypeOK, ReplyInv, Datagrams, round, network
<1>1. CASE Tick
  BY <1>1 DEF Tick
<1>2. CASE Begin
  BY <1>2 DEF Begin
<1>3. CASE Reply
  BY <1>3 DEF Reply
<1>4. CASE Lose
  BY <1>4 DEF Lose
<1>5. CASE Receive
  BY <1>5 DEF Receive, NextAdapter, Valid
<1>6. CASE Skip
  BY <1>6 DEF Skip, NextAdapter
<1>7. CASE AskFails
  BY <1>7 DEF AskFails, NextAdapter
<1>8. CASE AskAdapter
  BY <1>8 DEF AskAdapter
<1>9. CASE Expire
  BY <1>9 DEF Expire, NextAdapter
<1>10. CASE EndDhcp
  BY <1>10 DEF EndDhcp
<1>11. CASE AskHost
  BY <1>11 DEF AskHost
<1>12. CASE FetchSteps
  BY <1>12 DEF FetchSteps
<1>13. CASE FetchReturns
  BY <1>13 DEF FetchReturns
<1>14. CASE EndDns
  BY <1>14 DEF EndDns
<1>15. CASE UNCHANGED vars
  BY <1>15 DEF vars
<1> QED BY <1>1, <1>2, <1>3, <1>4, <1>5, <1>6, <1>7, <1>8, <1>9, <1>10, <1>11, <1>12,
       <1>13, <1>14, <1>15 DEF Next, Discover

\* Every step keeps which adapters were asked.
LEMMA TriedStep ==
    ASSUME IInv, [Next]_vars
    PROVE  TriedInv' /\ EveryAdapterAsked'
<1> DEFINE Tried == TriedInv' /\ EveryAdapterAsked'
<1> USE WpadAssumption
    DEF IInv, AnswerFresh, TypeOK, TriedInv, EveryAdapterAsked, PlaceInv, ReplyInv, Adapter, round, network
<1>1. CASE Tick
  BY <1>1 DEF Tick
<1>2. CASE Begin
  BY <1>2 DEF Begin
<1>3. CASE Reply
  BY <1>3 DEF Reply
<1>4. CASE Lose
  BY <1>4 DEF Lose
<1>5. CASE Receive
  BY <1>5 DEF Receive, NextAdapter, Valid
<1>6. CASE Skip
  BY <1>6 DEF Skip, NextAdapter
<1>7. CASE AskFails
  BY <1>7 DEF AskFails, NextAdapter
<1>8. CASE AskAdapter
  BY <1>8 DEF AskAdapter
<1>9. CASE Expire
  BY <1>9 DEF Expire, NextAdapter
<1>10. CASE EndDhcp
  <2>1. tried = usable \cap 1 .. (at - 1) /\ at > Adapters /\ usable \subseteq 1 .. Adapters
    BY <1>10 DEF EndDhcp
  <2>2. \A a \in 1 .. Adapters : a \in 1 .. (at - 1)  BY <2>1
  <2>4. tried = usable  BY <2>1, <2>2
  <2>3. UNCHANGED <<tried, usable, url>> /\ stage' \in {"dns", "done"}  BY <1>10 DEF EndDhcp
  <2> QED BY <2>3, <2>4
<1>11. CASE AskHost
  BY <1>11 DEF AskHost
<1>12. CASE FetchSteps
  BY <1>12 DEF FetchSteps
<1>13. CASE FetchReturns
  BY <1>13 DEF FetchReturns
<1>14. CASE EndDns
  BY <1>14 DEF EndDns
<1>15. CASE UNCHANGED vars
  BY <1>15 DEF vars
<1> QED BY <1>1, <1>2, <1>3, <1>4, <1>5, <1>6, <1>7, <1>8, <1>9, <1>10, <1>11, <1>12,
       <1>13, <1>14, <1>15 DEF Next, Discover

\* Every step keeps the answer one that a server offers during this discovery.
LEMMA AnswerStep ==
    ASSUME IInv, [Next]_vars
    PROVE  AnswerFresh'
<1> DEFINE Offered == stage' = "done" /\ url' # NoUrl => url' = offers'[at']
<1> SUFFICES Offered  BY TypeStep DEF AnswerFresh
<1> USE DEF IInv, AnswerFresh, TypeOK, ReplyInv, Datagrams, round, network
<1>1. CASE Tick
  BY <1>1 DEF Tick
<1>2. CASE Begin
  BY <1>2 DEF Begin
<1>3. CASE Reply
  BY <1>3 DEF Reply
<1>4. CASE Lose
  BY <1>4 DEF Lose
<1>5. CASE Receive
  BY <1>5 DEF Receive, NextAdapter, Valid
<1>6. CASE Skip
  BY <1>6 DEF Skip, NextAdapter
<1>7. CASE AskFails
  BY <1>7 DEF AskFails, NextAdapter
<1>8. CASE AskAdapter
  BY <1>8 DEF AskAdapter
<1>9. CASE Expire
  BY <1>9 DEF Expire, NextAdapter
<1>10. CASE EndDhcp
  BY <1>10 DEF EndDhcp
<1>11. CASE AskHost
  BY <1>11 DEF AskHost
<1>12. CASE FetchSteps
  BY <1>12 DEF FetchSteps
<1>13. CASE FetchReturns
  BY <1>13 DEF FetchReturns
<1>14. CASE EndDns
  BY <1>14 DEF EndDns
<1>15. CASE UNCHANGED vars
  BY <1>15 DEF vars
<1> QED BY <1>1, <1>2, <1>3, <1>4, <1>5, <1>6, <1>7, <1>8, <1>9, <1>10, <1>11, <1>12,
       <1>13, <1>14, <1>15 DEF Next, Discover

-----------------------------------------------------------------------------
(* What holds in every state.                                              *)

\* Nothing is under way before the first discovery.
LEMMA InitInv == Init => IInv
<1> SUFFICES ASSUME Init PROVE IInv
  OBVIOUS
<1> USE WpadAssumption, FetchAssumption DEF Init, FetchInit
<1>1. NoReply \in Replies  BY DEF NoReply, Replies, Length
<1>2. FetchTypeOK  BY <1>1 DEF FetchTypeOK, NoBody
<1>3. TypeOK
  <2>1. at \in 1 .. 1 + (IF Adapters > Domains THEN Adapters ELSE Domains)  OBVIOUS
  <2>2. 1 \in 1 .. MaxSeconds /\ 0 \in 0 .. MaxRounds  OBVIOUS
  <2> QED BY <1>2, <2>1, <2>2 DEF TypeOK
<1>4. AnswerFresh /\ EveryAdapterAsked /\ ScriptWhole
  BY <1>3 DEF AnswerFresh, EveryAdapterAsked, ScriptWhole
<1>5. PlaceInv /\ FetchInv /\ ReplyInv /\ TriedInv
  BY DEF PlaceInv, FetchInv, ReplyInv, TriedInv
<1> QED BY <1>4, <1>5 DEF IInv

\* The parts of the invariant hold together, whatever the network does.
THEOREM Invariance == Spec => []IInv
<1>1. IInv /\ [Next]_vars => IInv'
  BY FetchPart, PlaceStep, ReplyStep, TriedStep, AnswerStep DEF IInv
<1> QED BY <1>1, InitInv, PTL DEF Spec

\* The url that discovery ends with is one that the server of the adapter it asked last offers
\* during this discovery (wpad_dhcp): no reply of an earlier one is taken for it.
THEOREM Fresh == Spec => []AnswerFresh
<1>1. IInv => AnswerFresh  BY DEF IInv
<1> QED BY <1>1, Invariance, PTL

\* A discovery that found no url over DHCP asked every adapter in use, however many there are
\* (wpad_dhcp_enum_adapter).
THEOREM AllAsked == Spec => []EveryAdapterAsked
<1>1. IInv => EveryAdapterAsked  BY DEF IInv
<1> QED BY <1>1, Invariance, PTL

\* A script is what the server sent of the length it announced, and longer only by what came
\* with the header, for pieces and buffers of any size (fetch_get).
THEOREM Whole == Spec => []ScriptWhole
<1>1. IInv => ScriptWhole  BY DEF IInv
<1> QED BY <1>1, Invariance, PTL
=============================================================================

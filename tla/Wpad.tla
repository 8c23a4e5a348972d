-------------------------------- MODULE Wpad --------------------------------
(***************************************************************************)
(* Web proxy auto-discovery on Linux: wpad_dhcp asks the DHCP server of    *)
(* one network adapter after the other for the url of a PAC script, and    *)
(* wpad_dns fetches a script from the host wpad of each domain the machine *)
(* is in.  The posix resolver has them look again when what they found is  *)
(* WPAD_EXPIRE_SECONDS old.                                                *)
(*                                                                         *)
(* Datagrams are lost, delayed and reordered.  A transaction id is rand()  *)
(* seeded with the second, and stands for the second here.                 *)
(***************************************************************************)
EXTENDS Fetch, FiniteSets

CONSTANTS Adapters,    \* how many network adapters there are
          Domains,     \* how many host names wpad_dns tries
          Urls, NoUrl,
          MaxRounds, MaxSeconds  \* bounds on discoveries and on the clock

ASSUME WpadAssumption ==
    /\ Adapters \in Nat /\ Domains \in Nat
    /\ NoUrl \notin Urls
    /\ MaxRounds \in Nat \ {0} /\ MaxSeconds \in Nat \ {0}

Adapter == 1 .. Adapters

VARIABLES
    second, rounds,
    stage,      \* "idle", "dhcp" between adapters, "waiting" for a reply, "dns"
                \* between hosts, "fetching", "done", "crashed"
    usable,     \* the adapters that are connected and have an address
    offers,     \* offers[a]: what the server of a has for option 252
    at,         \* the adapter that is next or asked, then the host
    xid,        \* request_xid
    toServer,   \* requests under way: adapter and xid
    toClient,   \* replies under way
    url, found, \* what DHCP found; whether DNS found a script
    tried       \* history: the adapters asked, in vain or not

round == <<rounds, usable, offers>>
network == <<toServer, toClient>>
vars == <<second, round, stage, at, xid, network, url, found, tried, fetch>>

\* The type of a message is an option of it, DHCP_ACK or another; it may be left out.
Types == {"ack", "other", "none"}
Datagrams == [adapter : Adapter, xid : 1 .. MaxSeconds, type : Types, url : Urls \cup {NoUrl}]

Init ==
    /\ second = 1 /\ rounds = 0
    /\ stage = "idle" /\ usable = {} /\ offers = [a \in Adapter |-> NoUrl]
    /\ at = 1 /\ xid = 1
    /\ toServer = {} /\ toClient = {}
    /\ url = NoUrl /\ found = FALSE /\ tried = {}
    /\ FetchInit

-----------------------------------------------------------------------------
\* Time is looked at only where a request is sent.
Tick ==
    /\ stage = "dhcp"
    /\ second < MaxSeconds
    /\ second' = second + 1
    /\ UNCHANGED <<round, stage, at, xid, network, url, found, tried, fetch>>

\* A discovery begins, later than the one before; networks have changed.
Begin ==
    /\ stage \in {"idle", "done"}
    /\ rounds < MaxRounds /\ second < MaxSeconds
    /\ second' = second + 1 /\ rounds' = rounds + 1
    /\ usable' \in SUBSET Adapter
    /\ offers' \in [Adapter -> Urls \cup {NoUrl}]
    /\ stage' = "dhcp" /\ at' = 1
    /\ url' = NoUrl /\ found' = FALSE /\ tried' = {}
    /\ UNCHANGED <<xid, network, fetch>>

NextAdapter == stage' = "dhcp" /\ at' = at + 1

\* wpad_dhcp_enum_adapter passes over an adapter.
Skip ==
    /\ stage = "dhcp" /\ at <= Adapters
    /\ at \notin usable
    /\ NextAdapter
    /\ UNCHANGED <<second, round, xid, network, url, found, tried, fetch>>

\* Mutant: an adapter that cannot be asked ends the enumeration.
AskFails_Stops ==
    /\ stage = "dhcp" /\ at \in usable
    /\ tried' = tried \cup {at}
    /\ stage' = "dhcp" /\ at' = Adapters + 1
    /\ UNCHANGED <<second, round, xid, network, url, found, fetch>>

\* No socket, no port or no way to send.
AskFails ==
    /\ stage = "dhcp" /\ at \in usable
    /\ tried' = tried \cup {at}
    /\ NextAdapter
    /\ UNCHANGED <<second, round, xid, network, url, found, fetch>>

\* The request; to a port other than 68 no server replies, which is a loss.
AskAdapter ==
    /\ stage = "dhcp" /\ at \in usable
    /\ stage' = "waiting"
    /\ xid' = second
    /\ toServer' = toServer \cup {[adapter |-> at, xid |-> second]}
    /\ tried' = tried \cup {at}
    /\ UNCHANGED <<second, round, at, toClient, url, found, fetch>>

\* A server replies, if only that it refuses or with a message of no type, and the network
\* loses things.
Reply ==
    /\ \E r \in toServer, type \in Types :
          /\ toServer' = toServer \ {r}
          /\ toClient' = toClient \cup
                {[adapter |-> r.adapter, xid |-> r.xid, type |-> type,
                  url |-> IF type = "ack" THEN offers[r.adapter] ELSE NoUrl]}
    /\ UNCHANGED <<second, round, stage, at, xid, url, found, tried, fetch>>

Lose ==
    /\ \/ \E r \in toServer : toServer' = toServer \ {r} /\ UNCHANGED toClient
       \/ \E r \in toClient : toClient' = toClient \ {r} /\ UNCHANGED toServer
    /\ UNCHANGED <<second, round, stage, at, xid, url, found, tried, fetch>>

\* Mutant: the transaction id is not looked at.
Valid_AnyXid(r) == r.type = "ack" /\ r.url # NoUrl

\* dhcp_read_reply and the options of the reply.
Valid(r) == r.xid = xid /\ r.type = "ack" /\ r.url # NoUrl

\* recvfrom: there is one, so the first datagram that comes decides.  In a reply to this
\* request the type is read, for the log, also where there is none.
Receive ==
    /\ stage = "waiting"
    /\ \E r \in toClient :
          /\ r.adapter = at
          /\ toClient' = toClient \ {r}
          /\ \/ Valid(r) /\ url' = r.url /\ stage' = "done" /\ UNCHANGED at
             \/ r.xid = xid /\ r.type = "none" /\ stage' = "crashed" /\ UNCHANGED <<url, at>>
             \/ ~Valid(r) /\ (r.xid = xid => r.type # "none") /\ NextAdapter /\ UNCHANGED url
    /\ UNCHANGED <<second, round, xid, toServer, found, tried, fetch>>

\* SO_RCVTIMEO.
Expire ==
    /\ stage = "waiting"
    /\ NextAdapter
    /\ UNCHANGED <<second, round, xid, network, url, found, tried, fetch>>

\* DNS is next, unless the machine has no canonical name.
EndDhcp ==
    /\ stage = "dhcp" /\ at > Adapters
    /\ stage' \in {"dns", "done"} /\ at' = 1
    /\ UNCHANGED <<second, round, xid, network, url, found, tried, fetch>>

AskHost ==
    /\ stage = "dns" /\ at <= Domains
    /\ stage' = "fetching"
    /\ reading' = "connect"
    /\ UNCHANGED <<second, round, at, xid, network, url, found, tried, reply, taken, body>>

FetchSteps ==
    /\ stage = "fetching"
    /\ FetchNext
    /\ UNCHANGED <<second, round, stage, at, xid, network, url, found, tried>>

FetchReturns ==
    /\ stage = "fetching" /\ reading = "done"
    /\ IF body = NoBody
       THEN stage' = "dns" /\ at' = at + 1 /\ UNCHANGED found
       ELSE stage' = "done" /\ found' = TRUE /\ UNCHANGED at
    /\ reading' = "none" /\ reply' = NoReply /\ taken' = 0 /\ body' = NoBody
    /\ UNCHANGED <<second, round, xid, network, url, tried>>

EndDns ==
    /\ stage = "dns" /\ at > Domains
    /\ stage' = "done"
    /\ UNCHANGED <<second, round, at, xid, network, url, found, tried, fetch>>

Discover ==
    \/ Skip \/ AskFails \/ AskAdapter \/ Expire \/ EndDhcp
    \/ AskHost \/ FetchSteps \/ FetchReturns \/ EndDns

Next == Tick \/ Begin \/ Reply \/ Lose \/ Receive \/ Discover

\* The job runs, the wait for a reply has a limit, and a server goes on with its
\* reply or closes: recv in fetch_get has no limit of its own.
Spec == Init /\ [][Next]_vars /\ WF_vars(Discover)

-----------------------------------------------------------------------------
TypeOK ==
    /\ FetchTypeOK
    /\ second \in 1 .. MaxSeconds /\ rounds \in 0 .. MaxRounds
    /\ stage \in {"idle", "dhcp", "waiting", "dns", "fetching", "done", "crashed"}
    /\ usable \subseteq Adapter /\ tried \subseteq usable
    /\ offers \in [Adapter -> Urls \cup {NoUrl}]
    /\ at \in 1 .. 1 + (IF Adapters > Domains THEN Adapters ELSE Domains)
    /\ xid \in 1 .. MaxSeconds
    /\ toServer \subseteq [adapter : Adapter, xid : 1 .. MaxSeconds]
    /\ toClient \subseteq Datagrams
    /\ url \in Urls \cup {NoUrl} /\ found \in BOOLEAN

\* The url is one that a server offers during this discovery: a reply delayed
\* since an earlier one is not taken for the answer.
AnswerFresh == TypeOK /\ (stage = "done" /\ url # NoUrl => url = offers[at])

\* What a discovery that found no url over DHCP asked is every adapter in use,
\* whatever happened to some of them.
EveryAdapterAsked == stage \in {"dns", "fetching"} \/ (stage = "done" /\ url = NoUrl) => tried = usable

\* A script is what the server sent of the length it announced: it is cut only where the server
\* closed, however it comes in pieces.  Longer than announced it is only by what came with the
\* header, and then runs over the end of its buffer.
Overrun == body > reply.length /\ reply.header + body <= Buffer
ScriptWhole ==
    reading = "done" /\ body # NoBody =>
        \/ body = IF reply.sends < Length(reply) THEN reply.sends - reply.header ELSE reply.length
        \/ Overrun

\* A discovery ends, with an answer, with none, or where a reply names no type.
DiscoveryEnds == stage = "dhcp" ~> stage \in {"done", "crashed"}
=============================================================================

-------------------------------- MODULE Fetch --------------------------------
(***************************************************************************)
(* fetch_get of src/fetch_posix.c: one HTTP request over TCP.  Header and  *)
(* body are counted in units; recv returns what is there in pieces of any  *)
(* size.  A server may send less than the body it announces, or more, and  *)
(* closes the connection at any point.                                     *)
(***************************************************************************)
EXTENDS Integers

CONSTANTS MaxHeader, MaxBody,  \* bounds on the header and on the length announced
          MaxSends,            \* bound on what a server sends
          Buffer               \* sizeof(response)

ASSUME FetchAssumption ==
    MaxHeader \in Nat \ {0} /\ MaxBody \in Nat \ {0} /\ MaxSends \in Nat /\ Buffer \in Nat \ {0}

VARIABLES
    reading,   \* "none", "connect", "head" and "body", the two loops, "done"
    reply,     \* what the server sends: header, Content-Length (0 for none or
               \* none of use) and all it sends before it closes
    taken,     \* units received
    body       \* body_length of the result, or NoBody

fetch == <<reading, reply, taken, body>>

NoBody == -1
Length(r) == r.header + r.length
Replies == [header : 1 .. MaxHeader, length : 0 .. MaxBody, sends : 0 .. MaxSends]
NoReply == [header |-> 1, length |-> 0, sends |-> 0]

FetchInit == reading = "none" /\ reply = NoReply /\ taken = 0 /\ body = NoBody

Done(length) == reading' = "done" /\ body' = length

-----------------------------------------------------------------------------
\* Not an http url, no host, nobody there, or the request cannot be sent.
FetchFails == reading = "connect" /\ Done(NoBody) /\ UNCHANGED <<reply, taken>>

FetchSends ==
    /\ reading = "connect"
    /\ reading' = "head"
    /\ reply' \in Replies
    /\ UNCHANGED <<taken, body>>

\* The end of the stream.
AtEnd == taken = reply.sends

\* recv into a buffer that ends at limit.
Recv(limit) == \E more \in taken + 1 .. reply.sends : more <= limit /\ taken' = more

ReadHead ==
    /\ reading = "head"
    /\ Recv(Buffer)
    /\ UNCHANGED <<reading, reply, body>>

\* Mutant: a body that fills the rest of the buffer is taken for a whole one.
ParseHead_NoRest ==
    /\ reading = "head"
    /\ AtEnd \/ taken = Buffer
    /\ IF reply.length > 0 /\ taken >= reply.header
       THEN Done(taken - reply.header)
       ELSE Done(NoBody)
    /\ UNCHANGED <<reply, taken>>

\* The header has to be in the first buffer with its Content-Length.  What came with it
\* is copied, all of it, to a buffer of the length announced.
ParseHead ==
    /\ reading = "head"
    /\ AtEnd \/ taken = Buffer
    /\ IF reply.length = 0 \/ taken < reply.header
       THEN Done(NoBody)
       ELSE IF taken < Length(reply)
       THEN reading' = "body" /\ UNCHANGED body
       ELSE Done(taken - reply.header)
    /\ UNCHANGED <<reply, taken>>

ReadBody ==
    /\ reading = "body"
    /\ Recv(Length(reply))
    /\ IF taken' = Length(reply) THEN Done(reply.length) ELSE UNCHANGED <<reading, body>>
    /\ UNCHANGED reply

\* Mutant: the end of the stream does not end the loop.
EndBody_Retries ==
    /\ reading = "body"
    /\ AtEnd
    /\ UNCHANGED fetch

\* recv returns 0 or fails: what was received is the result.
EndBody ==
    /\ reading = "body"
    /\ AtEnd
    /\ Done(taken - reply.header)
    /\ UNCHANGED <<reply, taken>>

FetchNext == FetchFails \/ FetchSends \/ ReadHead \/ ParseHead \/ ReadBody \/ EndBody

FetchTypeOK ==
    /\ reading \in {"none", "connect", "head", "body", "done"}
    /\ reply \in Replies /\ taken \in 0 .. MaxSends
    /\ body \in NoBody .. MaxSends
=============================================================================

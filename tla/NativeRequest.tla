---------------------------- MODULE NativeRequest ----------------------------
(***************************************************************************)
(* What src/resolver.c relies on in the native resolver behind it: a       *)
(* request is asked for, and it completes with an answer.  Completion      *)
(* publishes the answer: it stands until the instance is asked again.      *)
(***************************************************************************)
EXTENDS Naturals

CONSTANTS Answers,   \* what get_list and get_error may tell of a request
          NoAnswer

VARIABLES phase,     \* "idle", "asked" or "complete"
          answer,
          requests   \* how many were asked for

vars == <<phase, answer, requests>>

Init == phase = "idle" /\ answer = NoAnswer /\ requests = 0

Ask ==
    /\ phase # "asked"
    /\ requests' = requests + 1
    /\ phase' = "asked" /\ answer' = NoAnswer

\* get_proxies_for_url that is through when it returns.
AskAndFinish ==
    /\ phase # "asked"
    /\ requests' = requests + 1
    /\ phase' = "complete" /\ answer' \in Answers

Finish ==
    /\ phase = "asked"
    /\ phase' = "complete" /\ answer' \in Answers
    /\ UNCHANGED requests

Next == Ask \/ AskAndFinish \/ Finish

Spec == Init /\ [][Next]_vars
=============================================================================

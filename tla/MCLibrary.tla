----------------------------- MODULE MCLibrary -----------------------------
(***************************************************************************)
(* Instances of Engines, and of Lifecycle within it, for TLC.              *)
(***************************************************************************)
EXTENDS Engines, TLC

CONSTANTS c1, c2, e1, e2, r1, r2, p1, p2, v1, v2

KindOfAll == (c1 :> "config") @@ (c2 :> "config") @@ (e1 :> "execute") @@ (e2 :> "execute")
          @@ (r1 :> "resolver") @@ (r2 :> "resolver") @@ (p1 :> "proxyres") @@ (p2 :> "proxyres")

AllUsers == {c1, c2, e1, e2, r1, r2, p1, p2}

\* The users that initialize modules one by one and look at the result.
CarefulUsers == {c1, c2, e1, e2, r1, r2}

MCOverrides == [what : {"url", "proxy", "bypass"}, set : BOOLEAN]

\* The counts alone: everybody where nothing fails, and the careful users where
\* anything may.
Idle == [engine |-> "jsc", installed |-> TRUE, offers |-> 2, evaluations |-> {},
         failures |-> FALSE]
CountingProcesses ==
    {Idle @@ [users |-> AllUsers, environments |-> {AllSucceed}],
     Idle @@ [users |-> CarefulUsers,
              environments |-> [engine : BOOLEAN, pool : BOOLEAN, mutex : BOOLEAN, fetch : BOOLEAN]]}

\* Evaluations of a user of proxy_execute and of the resolver, with another resolver: with
\* no library, with one that lacks a function, with a whole one whose functions may fail,
\* and with a whole one where fetch may fail to initialize.
Evaluating(installed, offers, failures, environments) ==
    [installed |-> installed, offers |-> offers, failures |-> failures, environments |-> environments,
     users |-> {e1, r1, r2}, evaluations |-> {v1, v2}]
EvaluatingProcesses ==
    {[engine |-> engine] @@ p :
        engine \in {"jsc", "jscore"},
        p \in {Evaluating(FALSE, 2, FALSE, {AllSucceed}), Evaluating(TRUE, 1, FALSE, {AllSucceed}),
               Evaluating(TRUE, 2, TRUE, {AllSucceed}),
               Evaluating(TRUE, 2, FALSE, {AllSucceed, [AllSucceed EXCEPT !.fetch = FALSE]})}}

MCProcesses == CountingProcesses \cup EvaluatingProcesses
MCOwner == (v1 :> e1) @@ (v2 :> r1)
=============================================================================

----------------------------- MODULE MCPacCache -----------------------------
(***************************************************************************)
(* Instances of PacCache for TLC.                                          *)
(***************************************************************************)
EXTENDS PacCache, TLC

\* Automatic discovery and nothing else.
AutoOnly == {[auto |-> TRUE, manual |-> NoUrl]}

\* A configured url and no discovery.
ManualOnly == {[auto |-> FALSE, manual |-> u] : u \in Urls}

\* The settings change between discovery, a configured url and both.  A job reads the two
\* at different times, and so finds neither as well.
Changing == [auto : BOOLEAN, manual : {NoUrl, CHOOSE u \in Urls : TRUE}]
            \ {[auto |-> FALSE, manual |-> NoUrl]}

AutoOrChanging == {AutoOnly, Changing}
Manual == {ManualOnly}

Symmetry == Permutations(Requests)
=============================================================================

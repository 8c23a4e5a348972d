------------------------------ MODULE MCEvent ------------------------------
(***************************************************************************)
(* Instances of Event for TLC.                                             *)
(***************************************************************************)
EXTENDS Event

MCTimeouts == {-1, 0, 3}
=============================================================================

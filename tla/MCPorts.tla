------------------------------ MODULE MCPorts ------------------------------
(***************************************************************************)
(* Instances of Ports for TLC.                                             *)
(***************************************************************************)
EXTENDS Ports

MCTimeouts == {-1, 0, 3}
=============================================================================

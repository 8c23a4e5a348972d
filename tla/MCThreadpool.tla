---------------------------- MODULE MCThreadpool ----------------------------
(***************************************************************************)
(* Instances of Threadpool for TLC.                                        *)
(***************************************************************************)
EXTENDS Threadpool, TLC
=============================================================================

----------------------------- MODULE MCResolver -----------------------------
(***************************************************************************)
(* Instances of Resolver for TLC.                                          *)
(***************************************************************************)
EXTENDS Resolver, TLC

CONSTANTS u1, u2, p1, p2, p3, manual, direct

MCAnswers == (u1 :> <<p1, p2>>) @@ (u2 :> <<p3>>)
MCManual == <<manual>>
MCDirectList == <<direct>>
AllConfigs == [autoUrl : BOOLEAN, proxy : BOOLEAN, autoDiscover : BOOLEAN]
=============================================================================

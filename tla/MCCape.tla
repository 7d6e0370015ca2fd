------------------------------- MODULE MCCape -------------------------------
(***************************************************************************)
(* Instances of Cape: one resource on one of two assemblies, or two        *)
(* resources on one assembly.                                              *)
(***************************************************************************)
EXTENDS Cape, TLC

CONSTANTS a1, a2, r1, r2

HomeOne == r1 :> a1

HomeTwo == r1 :> a1 @@ r2 :> a1

BothAnswers == {"restart", "escalate"}

BothErrors == {"UNKNOWN_ERROR", "HARD_ERROR"}
=============================================================================

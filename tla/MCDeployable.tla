---------------------------- MODULE MCDeployable ----------------------------
(***************************************************************************)
(* A deployable of two assemblies, one with a service that is told where   *)
(* the other one runs.                                                     *)
(***************************************************************************)
EXTENDS Deployable

CONSTANTS web, db, wordpress, ip1, ip2

OnWeb == [r \in Resources |-> web]
ToDb == [r \in Resources |-> db]
ByAddress == [r \in Resources |-> "ipaddress"]
Whole == {{web, db}}
=============================================================================

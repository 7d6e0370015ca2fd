----------------------------- MODULE MCAssembly -----------------------------
(***************************************************************************)
(* Instances of Assembly with two resource operations, so that the queue   *)
(* holds up to three entries.                                              *)
(***************************************************************************)
EXTENDS Assembly

\* Faults that only the timeout of an operation can repair.
MCOpenFail == {"open_fail"}

BothAnswers == {"restart", "escalate"}
=============================================================================

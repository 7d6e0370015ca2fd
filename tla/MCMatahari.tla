----------------------------- MODULE MCMatahari -----------------------------
(***************************************************************************)
(* Two instances of Matahari. In one, h1 serves the Host and s1 Services   *)
(* and Resources, as in Matahari's own packaging, and h2 is the Host agent *)
(* of the instance that replaces theirs. In the other, one agent serves    *)
(* all three objects: v1, and then v2 of the next instance.                *)
(***************************************************************************)
EXTENDS Matahari

CONSTANTS v1, v2, h1, s1, h2, r1

OldAndNew ==
  [a \in Agents |-> CASE a \in {v1, v2} -> Objects [] a \in {h1, h2} -> {"host"}
                      [] a = s1 -> {"serv", "rsc"}]

Classes == [r \in Requests |-> "rsc"]

BothAnswers == {"restart", "escalate"}

RestartOnly == {"restart"}
=============================================================================

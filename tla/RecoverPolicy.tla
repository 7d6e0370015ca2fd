---------------------------- MODULE RecoverPolicy ----------------------------
(***************************************************************************)
(* What recover.c promises its users, stated without the stopwatch that    *)
(* implements it: a component that fails is restarted, except that the     *)
(* num_failures-th failure inside failure_period, counted since the last   *)
(* escalation, is escalated instead.                                       *)
(*                                                                         *)
(* The policy remembers every failure time since the last escalation; the  *)
(* implementation (module Recover) keeps a ring of num_failures of them.   *)
(***************************************************************************)
EXTENDS Integers, Sequences

VARIABLES
  state,           \* the enum recover_state of the component
  num_failures,    \* escalate after this many failures ...
  failure_period,  \* ... within this much time; either <= 0 disables
  now,             \* the clock
  fails,           \* times of the failures since the last escalation
  act              \* what the last call of recover_state_set did

vars == <<state, num_failures, failure_period, now, fails, act>>

RecoverState == {"UNKNOWN", "RUNNING", "FAILED", "STOPPED", "UNRECOVERABLE"}

Enabled == num_failures > 0 /\ failure_period > 0

(***************************************************************************)
(* f, the failures up to and including this one, ends in num_failures      *)
(* failures no further apart than failure_period.                          *)
(***************************************************************************)
Repeated(f) ==
  /\ Len(f) >= num_failures
  /\ f[Len(f)] - f[Len(f) - num_failures + 1] <= failure_period

(***************************************************************************)
(* The answers the policy allows to the last failure of f. A threshold of  *)
(* one failure is left open: the answer then depends on what the stopwatch *)
(* library returns for the distance of a split from itself.                *)
(***************************************************************************)
Answers(f) ==
  IF ~Enabled THEN {"restart"}
  ELSE IF num_failures = 1 THEN {"restart", "escalate"}
  ELSE IF Repeated(f) THEN {"escalate"} ELSE {"restart"}

Init ==
  /\ state = "UNKNOWN"
  /\ num_failures \in Int
  /\ failure_period \in Int
  /\ now = 1
  /\ fails = <<>>
  /\ act = "none"

Recovered(s) ==
  /\ s \notin {state, "FAILED"}
  /\ state' = s
  /\ act' = "none"
  /\ UNCHANGED <<num_failures, failure_period, now, fails>>

Fail ==
  /\ state # "FAILED"
  /\ state' = "FAILED"
  /\ act' \in Answers(Append(fails, now))
  /\ fails' = IF act' = "escalate" THEN <<>> ELSE Append(fails, now)
  /\ UNCHANGED <<num_failures, failure_period, now>>

Tick ==
  /\ now' = now + 1
  /\ UNCHANGED <<state, num_failures, failure_period, fails, act>>

Next ==
  \/ \E s \in RecoverState : Recovered(s)
  \/ Fail
  \/ Tick

Spec == Init /\ [][Next]_vars
==============================================================================

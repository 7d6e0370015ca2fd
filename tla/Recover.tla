------------------------------- MODULE Recover -------------------------------
(***************************************************************************)
(* recover.c: the state machine that every assembly and every resource     *)
(* embeds (struct recover). A change to FAILED is answered by the restart  *)
(* callback, or by the escalate callback when the failure is the           *)
(* num_failures-th one within failure_period. Failure times are splits of  *)
(* a libqb stopwatch, a ring of num_failures entries in overwrite mode.    *)
(*                                                                         *)
(* fails is a history variable: all failure times since the last           *)
(* escalation. The code has no such list; no action reads it except for    *)
(* the bound MaxFailures.                                                  *)
(***************************************************************************)
EXTENDS Integers, Sequences

CONSTANTS
  FailureArgs,   \* escalation_failures attributes: integers, or NoNumber
  PeriodArgs,    \* escalation_period attributes: integers, or NoNumber
  NoNumber,      \* an absent attribute, or one strtol finds no digits in
  IntHalf,       \* half the number of values of a C int (2^31)
  MaxTime,       \* bound: the clock stops here
  MaxFailures    \* bound: failures remembered in fails

ASSUME ConstantsOK ==
  /\ FailureArgs \ {NoNumber} \subseteq Int
  /\ PeriodArgs \ {NoNumber} \subseteq Int
  /\ IntHalf \in Nat \ {0}
  /\ MaxTime \in Nat
  /\ MaxFailures \in Nat

VARIABLES
  state, num_failures, failure_period,   \* struct recover
  started, entries, ring,                \* the stopwatch r->sw
  now, fails, act                        \* clock, history, last callback

vars == <<state, num_failures, failure_period, started, entries, ring,
          now, fails, act>>

RecoverState == {"UNKNOWN", "RUNNING", "FAILED", "STOPPED", "UNRECOVERABLE"}

(***************************************************************************)
(* recover_init                                                            *)
(***************************************************************************)

\* The assignment of a long to an int.
ToInt(v) == ((v + IntHalf) % (2 * IntHalf)) - IntHalf

\* The values recover_init can take from an attribute. It does not clear
\* errno before strtol, so whether "0" is read as 0 or as an error depends
\* on an earlier call.
ParsedArg(arg) ==
  IF arg = NoNumber THEN {-1}
  ELSE IF arg = 0 THEN {0, -1}
  ELSE {ToInt(arg)}

Enabled == num_failures > 0 /\ failure_period > 0

\* A ring one entry too short for the splits recover_state_set compares.
NewRingShort ==
  [i \in IF Enabled THEN 0 .. num_failures - 2 ELSE {} |-> 0]

\* qb_util_stopwatch_create and qb_util_stopwatch_split_ctl.
NewRing == [i \in IF Enabled THEN 0 .. num_failures - 1 ELSE {} |-> 0]

Init ==
  /\ \E a \in FailureArgs : num_failures \in ParsedArg(a)
  /\ \E a \in PeriodArgs : failure_period \in ParsedArg(a)
  /\ state = "UNKNOWN"
  /\ started = 0
  /\ entries = 0
  /\ ring = NewRing
  /\ now = 1
  /\ fails = <<>>
  /\ act = "none"

(***************************************************************************)
(* The libqb stopwatch, as recover.c uses it.                              *)
(***************************************************************************)

\* The ring after qb_util_stopwatch_split: the oldest entry is overwritten.
SplitRing == [ring EXCEPT ![entries % num_failures] = now]

\* The first split starts the stopwatch.
SplitStarted == IF started = 0 THEN now ELSE started

\* qb_util_stopwatch_time_split_get on the ring r. A split compared with
\* itself yields the time since the stopwatch was started.
SplitDistance(r, recent, older) ==
  r[recent % num_failures] -
    (IF older = recent THEN SplitStarted ELSE r[older % num_failures])

(***************************************************************************)
(* recover_state_set                                                       *)
(***************************************************************************)

\* Escalating one failure later than asked for.
EscalatingLate ==
  /\ Enabled
  /\ entries >= num_failures
  /\ SplitDistance(SplitRing, entries, entries - (num_failures - 1))
       <= failure_period

\* Escalating only when the failures are strictly closer than asked for.
EscalatingStrict ==
  /\ Enabled
  /\ entries >= num_failures - 1
  /\ SplitDistance(SplitRing, entries, entries - (num_failures - 1))
       < failure_period

\* The decision of recover_state_set: last is qb_util_stopwatch_split_last
\* after the split, the index of the failure being handled.
Escalating ==
  LET last == entries
  IN  /\ Enabled
      /\ last >= num_failures - 1
      /\ SplitDistance(SplitRing, last, last - (num_failures - 1))
           <= failure_period

recover_state_set(s) ==
  /\ s \notin {state, "FAILED"}
  /\ state' = s
  /\ act' = "none"
  /\ UNCHANGED <<num_failures, failure_period, started, entries, ring,
                 now, fails>>

\* Escalation without qb_util_stopwatch_start: the splits are kept.
recover_escalate_no_reset ==
  /\ Escalating
  /\ act' = "escalate"
  /\ started' = SplitStarted
  /\ ring' = SplitRing
  /\ entries' = entries + 1
  /\ fails' = <<>>

\* qb_util_stopwatch_start forgets the splits, then escalate() is called.
recover_escalate ==
  /\ Escalating
  /\ act' = "escalate"
  /\ started' = now
  /\ ring' = SplitRing
  /\ entries' = 0
  /\ fails' = <<>>

recover_restart ==
  /\ ~Escalating
  /\ act' = "restart"
  /\ started' = IF Enabled THEN SplitStarted ELSE started
  /\ ring' = IF Enabled THEN SplitRing ELSE ring
  /\ entries' = IF Enabled THEN entries + 1 ELSE entries
  /\ fails' = Append(fails, now)

recover_state_set_failed ==
  /\ state # "FAILED"
  /\ Len(fails) < MaxFailures
  /\ state' = "FAILED"
  /\ recover_escalate \/ recover_restart
  /\ UNCHANGED <<num_failures, failure_period, now>>

Tick ==
  /\ now < MaxTime
  /\ now' = now + 1
  /\ UNCHANGED <<state, num_failures, failure_period, started, entries,
                 ring, fails, act>>

Next ==
  \/ \E s \in RecoverState : recover_state_set(s)
  \/ recover_state_set_failed
  \/ Tick

Spec == Init /\ [][Next]_vars

(***************************************************************************)
(* Properties                                                              *)
(***************************************************************************)

\* Every variable keeps its type; the ring has one slot per failure that
\* recover_init asked qb_util_stopwatch_split_ctl for.
TypeOK ==
  /\ state \in RecoverState
  /\ num_failures \in Int
  /\ failure_period \in Int
  /\ started \in Nat
  /\ entries \in Nat
  /\ ring \in [IF Enabled THEN 0 .. num_failures - 1 ELSE {} -> Nat]
  /\ now \in Nat
  /\ fails \in Seq(Nat)
  /\ act \in {"none", "restart", "escalate"}

\* The wrapping ring of qb_util_stopwatch_split holds exactly the most recent
\* failures since the last escalation, the k-th from the end at the slot
\* that recover_state_set reads for it: no overwritten or stale split can
\* enter the decision.
RingHoldsFailures ==
  Enabled =>
    /\ entries = Len(fails)
    /\ \A i \in 1 .. Len(fails) :
         i > Len(fails) - num_failures =>
           ring[(i - 1) % num_failures] = fails[i]

\* recover_state_set answers failures by restart only as long as they are
\* rare: any num_failures consecutive failures since the last escalation span
\* more than failure_period. (A threshold of one depends on what libqb
\* returns for a split compared with itself.)
RestartsSpaced ==
  Enabled /\ num_failures > 1 =>
    \A i \in 1 .. Len(fails) :
      i + num_failures - 1 <= Len(fails) =>
        fails[i + num_failures - 1] - fails[i] > failure_period

Policy == INSTANCE RecoverPolicy

\* recover.c implements the policy: an escalation happens exactly when the
\* num_failures-th failure since the last escalation comes within
\* failure_period, as tests/check_recover.c expects.
RefinesPolicy == Policy!Spec
==============================================================================

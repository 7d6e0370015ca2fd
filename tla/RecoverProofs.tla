---------------------------- MODULE RecoverProofs ----------------------------
(***************************************************************************)
(* Proofs that the stopwatch ring of recover.c implements the escalation   *)
(* policy, for every threshold, every period and every sequence of         *)
(* failures.                                                               *)
(***************************************************************************)
EXTENDS Recover, TLAPS

(***************************************************************************)
(* Arithmetic of ring slots.                                               *)
(***************************************************************************)

\* A slot index lies within the ring of n entries that
\* qb_util_stopwatch_split_ctl sizes.
LEMMA SlotInRing ==
  ASSUME NEW n \in Nat \ {0}, NEW a \in Int
  PROVE  a % n \in 0 .. n - 1
BY Z3

\* Two splits less than n apart are in different slots of the ring: writing
\* the newest does not overwrite the one recover_state_set compares it with.
LEMMA SlotsDistinct ==
  ASSUME NEW n \in Nat \ {0}, NEW a \in Nat, NEW b \in Nat,
         a < b, b - a < n
  PROVE  a % n # b % n
<1>1. PICK q \in Int, r \in 0 .. n - 1 : r = a % n /\ a = n * q + r
  <2>1. a \div n \in Int /\ a = n * (a \div n) + (a % n)
    BY Z3
  <2>2. a % n \in 0 .. n - 1
    BY SlotInRing
  <2> QED
    BY <2>1, <2>2, Zenon
<1>2. PICK p \in Int, t \in 0 .. n - 1 : t = b % n /\ b = n * p + t
  <2>1. b \div n \in Int /\ b = n * (b \div n) + (b % n)
    BY Z3
  <2>2. b % n \in 0 .. n - 1
    BY SlotInRing
  <2> QED
    BY <2>1, <2>2, Zenon
<1>3. SUFFICES ASSUME r = t PROVE FALSE
  BY <1>1, <1>2
<1>4. PICK k \in Int : k = p - q
  OBVIOUS
<1>5. b - a = n * k
  BY <1>1, <1>2, <1>3, <1>4, Z3
<1>6. k >= 1 => n * k >= n
  BY Z3
<1>7. k <= 0 => n * k <= 0
  BY Z3
<1> QED
  BY <1>5, <1>6, <1>7

(***************************************************************************)
(* The inductive invariant: TypeOK, and RingHoldsFailures, which says what *)
(* the ring holds; with it the decision of recover_state_set is a fact     *)
(* about the history of failures (lemma EscalatingIsRepeated).             *)
(***************************************************************************)

Inv == TypeOK /\ RingHoldsFailures /\ RestartsSpaced

\* recover_init leaves both configuration values ints.
LEMMA ParsedIsInt ==
  ASSUME NEW S, NEW a \in S, S \ {NoNumber} \subseteq Int, NEW v \in ParsedArg(a)
  PROVE  v \in Int
<1>1. CASE a = NoNumber
  BY <1>1 DEF ParsedArg
<1>2. CASE a # NoNumber
  <2>1. a \in Int /\ v \in {0, -1, ToInt(a)}
    BY <1>2 DEF ParsedArg
  <2>2. 2 * IntHalf \in Nat \ {0} /\ a + IntHalf \in Int
    BY <2>1, ConstantsOK
  <2>3. (a + IntHalf) % (2 * IntHalf) \in Int
    BY <2>2, SlotInRing
  <2> QED
    BY <2>1, <2>3, ConstantsOK DEF ToInt
<1> QED
  BY <1>1, <1>2

\* recover_init establishes the invariant: no failure has been recorded.
LEMMA InitInv == Init => Inv
<1> SUFFICES ASSUME Init PROVE Inv
  OBVIOUS
<1>1. num_failures \in Int /\ failure_period \in Int
  BY ParsedIsInt, ConstantsOK DEF Init
<1>2. ring \in [IF Enabled THEN 0 .. num_failures - 1 ELSE {} -> Nat]
  BY DEF Init, NewRing
<1>3. TypeOK
  BY <1>1, <1>2 DEF Init, TypeOK, RecoverState
<1>4. RingHoldsFailures /\ RestartsSpaced
  BY <1>1 DEF Init, RingHoldsFailures, RestartsSpaced
<1> QED
  BY <1>3, <1>4 DEF Inv

\* Splitting the stopwatch keeps the ring's type and writes the slot of the
\* newest failure only.
LEMMA SplitRingOK ==
  ASSUME TypeOK, Enabled, RingHoldsFailures
  PROVE  /\ SplitRing \in [0 .. num_failures - 1 -> Nat]
         /\ \A i \in 1 .. Len(fails) + 1 :
              i > Len(fails) + 1 - num_failures =>
                SplitRing[(i - 1) % num_failures] = Append(fails, now)[i]
<1>1. /\ num_failures \in Nat \ {0}
      /\ ring \in [0 .. num_failures - 1 -> Nat]
      /\ entries \in Nat /\ now \in Nat
      /\ fails \in Seq(Nat)
      /\ entries = Len(fails)
  BY DEF TypeOK, Enabled, RingHoldsFailures
<1>2. entries % num_failures \in 0 .. num_failures - 1
  BY <1>1, SlotInRing
<1>3. SplitRing \in [0 .. num_failures - 1 -> Nat]
  BY <1>1, <1>2 DEF SplitRing
<1>4. ASSUME NEW i \in 1 .. Len(fails) + 1,
             i > Len(fails) + 1 - num_failures
      PROVE  SplitRing[(i - 1) % num_failures] = Append(fails, now)[i]
  <2>1. CASE i = Len(fails) + 1
    BY <1>1, <1>2, <2>1 DEF SplitRing
  <2>2. CASE i # Len(fails) + 1
    <3>1. i \in 1 .. Len(fails) /\ i > Len(fails) - num_failures
      BY <1>1, <1>4, <2>2
    <3>2. (i - 1) % num_failures # entries % num_failures
      <4>1. i - 1 \in Nat /\ i - 1 < entries /\ entries - (i - 1) < num_failures
        BY <1>1, <1>4, <3>1
      <4> QED
        BY <1>1, <4>1, SlotsDistinct
    <3>3. (i - 1) % num_failures \in 0 .. num_failures - 1
      <4>1. i - 1 \in Int
        OBVIOUS
      <4> QED
        BY <1>1, <4>1, SlotInRing
    <3>4. SplitRing[(i - 1) % num_failures] = ring[(i - 1) % num_failures]
      BY <1>1, <3>2, <3>3 DEF SplitRing
    <3>5. ring[(i - 1) % num_failures] = fails[i]
      BY <3>1 DEF RingHoldsFailures
    <3>6. Append(fails, now)[i] = fails[i]
      BY <1>1, <3>1
    <3> QED
      BY <3>4, <3>5, <3>6
  <2> QED
    BY <2>1, <2>2
<1> QED
  BY <1>3, <1>4

\* For a threshold above one, the decision that recover_state_set reads off
\* the ring is the policy's decision on the history.
LEMMA EscalatingIsRepeated ==
  ASSUME TypeOK, RingHoldsFailures, Enabled, num_failures > 1
  PROVE  Escalating <=> Policy!Repeated(Append(fails, now))
<1> DEFINE f == Append(fails, now)
<1> DEFINE older == entries - (num_failures - 1)
<1>1. /\ num_failures \in Nat \ {0} /\ failure_period \in Int
      /\ entries \in Nat /\ now \in Nat
      /\ fails \in Seq(Nat) /\ entries = Len(fails)
  BY DEF TypeOK, Enabled, RingHoldsFailures
<1>2. f \in Seq(Nat) /\ Len(f) = entries + 1
  BY <1>1
<1>3. CASE entries >= num_failures - 1
  <2>1. SplitRing[entries % num_failures] = f[Len(f)]
    <3>1. Len(f) \in 1 .. Len(fails) + 1 /\ Len(f) > Len(fails) + 1 - num_failures
      BY <1>1, <1>2
    <3>2. Len(f) - 1 = entries
      BY <1>1, <1>2
    <3> QED
      BY <3>1, <3>2, SplitRingOK
  <2>2. SplitRing[older % num_failures] = f[Len(f) - num_failures + 1]
    <3>1. /\ older + 1 \in 1 .. Len(fails) + 1
          /\ older + 1 > Len(fails) + 1 - num_failures
          /\ older + 1 = Len(f) - num_failures + 1
          /\ (older + 1) - 1 = older
      BY <1>1, <1>2, <1>3
    <3> QED
      BY <3>1, SplitRingOK
  <2>3. older # entries
    BY <1>1
  <2>4. SplitDistance(SplitRing, entries, older)
          = f[Len(f)] - f[Len(f) - num_failures + 1]
    BY <2>1, <2>2, <2>3 DEF SplitDistance
  <2>5. Len(f) >= num_failures
    BY <1>1, <1>2, <1>3
  <2> QED
    BY <1>3, <2>4, <2>5 DEF Escalating, Policy!Repeated
<1>4. CASE ~(entries >= num_failures - 1)
  <2>1. ~(Len(f) >= num_failures)
    BY <1>1, <1>2, <1>4
  <2> QED
    BY <1>4, <2>1 DEF Escalating, Policy!Repeated
<1> QED
  BY <1>3, <1>4

\* Every step keeps what the ring holds in line with the history, and keeps
\* restarted failures spaced.
LEMMA NextInv == Inv /\ [Next]_vars => Inv'
<1> SUFFICES ASSUME Inv, [Next]_vars PROVE Inv'
  OBVIOUS
<1> USE DEF Inv
<1>1. ASSUME NEW s \in RecoverState, recover_state_set(s) PROVE Inv'
  BY <1>1 DEF recover_state_set, TypeOK, RingHoldsFailures, RestartsSpaced, Enabled
<1>2. ASSUME recover_state_set_failed PROVE Inv'
  <2>1. /\ num_failures' = num_failures /\ failure_period' = failure_period
        /\ now' = now /\ state' = "FAILED"
        /\ Enabled' <=> Enabled
    BY <1>2 DEF recover_state_set_failed, Enabled
  <2>2. CASE recover_escalate
    <3>1. Enabled /\ ring' \in [0 .. num_failures - 1 -> Nat]
      BY <2>2, SplitRingOK DEF recover_escalate, Escalating
    <3>2. TypeOK'
      BY <2>1, <2>2, <3>1 DEF recover_escalate, TypeOK, RecoverState
    <3>3. fails' = <<>> /\ entries' = 0
      BY <2>2 DEF recover_escalate
    <3>4. RingHoldsFailures' /\ RestartsSpaced'
      BY <2>1, <3>3 DEF RingHoldsFailures, RestartsSpaced, TypeOK
    <3> QED
      BY <3>2, <3>4
  <2>3. CASE recover_restart /\ Enabled
    <3>1. /\ ring' = SplitRing /\ entries' = entries + 1
          /\ fails' = Append(fails, now) /\ act' = "restart"
          /\ started' = SplitStarted
      BY <2>3 DEF recover_restart
    <3>2. ring' \in [0 .. num_failures - 1 -> Nat]
      BY <2>3, <3>1, SplitRingOK
    <3>3. started' \in Nat /\ fails' \in Seq(Nat) /\ Len(fails') = Len(fails) + 1
      BY <3>1 DEF SplitStarted, TypeOK
    <3>4. TypeOK'
      BY <2>1, <2>3, <3>1, <3>2, <3>3 DEF TypeOK, RecoverState
    <3>5. RingHoldsFailures'
      <4>1. entries' = Len(fails')
        BY <2>3, <3>1, <3>3 DEF RingHoldsFailures
      <4>2. \A i \in 1 .. Len(fails') :
              i > Len(fails') - num_failures =>
                ring'[(i - 1) % num_failures] = fails'[i]
        <5>1. \A i \in 1 .. Len(fails) + 1 :
                i > Len(fails) + 1 - num_failures =>
                  SplitRing[(i - 1) % num_failures] = Append(fails, now)[i]
          BY <2>3, SplitRingOK
        <5> SUFFICES ASSUME NEW i \in 1 .. Len(fails'),
                            i > Len(fails') - num_failures
                     PROVE  ring'[(i - 1) % num_failures] = fails'[i]
          OBVIOUS
        <5>2. i \in 1 .. Len(fails) + 1 /\ i > Len(fails) + 1 - num_failures
          BY <3>3 DEF TypeOK
        <5>3. SplitRing[(i - 1) % num_failures] = Append(fails, now)[i]
          BY <5>1, <5>2
        <5> QED
          BY <3>1, <5>3
      <4> QED
        BY <2>1, <4>1, <4>2 DEF RingHoldsFailures
    <3>6. RestartsSpaced'
      <4> SUFFICES ASSUME num_failures > 1, NEW i \in 1 .. Len(fails'),
                          i + num_failures - 1 <= Len(fails')
                   PROVE  fails'[i + num_failures - 1] - fails'[i] > failure_period
        BY <2>1 DEF RestartsSpaced
      <4>0. /\ num_failures \in Nat /\ failure_period \in Int
            /\ fails \in Seq(Nat) /\ now \in Nat /\ Len(fails) \in Nat
        BY <2>3 DEF TypeOK, Enabled
      <4>1. CASE i + num_failures - 1 = Len(fails')
        <5>1. ~Policy!Repeated(fails')
          BY <2>3, <3>1, EscalatingIsRepeated DEF recover_restart
        <5>2. i = Len(fails') - num_failures + 1 /\ Len(fails') >= num_failures
          BY <4>0, <4>1, <3>3
        <5>3. /\ i + num_failures - 1 \in 1 .. Len(fails')
              /\ fails'[i] \in Nat /\ fails'[i + num_failures - 1] \in Nat
          <6>1. fails' \in Seq(Nat) /\ Len(fails') \in Nat
            BY <3>4 DEF TypeOK
          <6>2. i + num_failures - 1 \in 1 .. Len(fails')
            BY <4>0, <4>1, <6>1
          <6> QED
            BY <6>1, <6>2
        <5> QED
          BY <4>0, <4>1, <5>1, <5>2, <5>3 DEF Policy!Repeated
      <4>2. CASE i + num_failures - 1 # Len(fails')
        <5>1. /\ i \in 1 .. Len(fails) /\ i + num_failures - 1 \in 1 .. Len(fails)
              /\ i + num_failures - 1 <= Len(fails)
          <6>1. i \in Nat /\ i >= 1 /\ i + num_failures - 1 <= Len(fails) + 1
            BY <3>3
          <6>2. i + num_failures - 1 # Len(fails) + 1
            BY <3>3, <4>2
          <6>3. i + num_failures - 1 <= Len(fails)
            BY <4>0, <6>1, <6>2
          <6> QED
            BY <4>0, <6>1, <6>3
        <5>2. /\ fails'[i] = fails[i]
              /\ fails'[i + num_failures - 1] = fails[i + num_failures - 1]
          BY <4>0, <5>1, <3>1
        <5> QED
          BY <2>3, <5>1, <5>2 DEF RestartsSpaced
      <4> QED
        BY <4>1, <4>2
    <3> QED
      BY <3>4, <3>5, <3>6
  <2>4. CASE recover_restart /\ ~Enabled
    <3>1. TypeOK'
      BY <2>1, <2>4 DEF recover_restart, TypeOK, RecoverState
    <3>2. RingHoldsFailures' /\ RestartsSpaced'
      BY <2>1, <2>4 DEF RingHoldsFailures, RestartsSpaced
    <3> QED
      BY <3>1, <3>2
  <2> QED
    BY <1>2, <2>2, <2>3, <2>4 DEF recover_state_set_failed
<1>3. ASSUME Tick PROVE Inv'
  BY <1>3 DEF Tick, TypeOK, RingHoldsFailures, RestartsSpaced, Enabled
<1>4. ASSUME UNCHANGED vars PROVE Inv'
  BY <1>4 DEF vars, TypeOK, RingHoldsFailures, RestartsSpaced, Enabled
<1> QED
  BY <1>1, <1>2, <1>3, <1>4 DEF Next

\* The invariant holds in every reachable state of recover.c.
THEOREM InvHolds == Spec => []Inv
<1> QED
  BY InitInv, NextInv, PTL DEF Spec

\* The variables of struct recover and of its stopwatch keep their types.
THEOREM TypeCorrect == Spec => []TypeOK
<1>1. Inv => TypeOK
  BY DEF Inv
<1> QED
  BY <1>1, InvHolds, PTL

\* The splits that recover_state_set compares are always the newest failures
\* since the last escalation, whatever the size of the ring.
THEOREM RingFaithful == Spec => []RingHoldsFailures
<1>1. Inv => RingHoldsFailures
  BY DEF Inv
<1> QED
  BY <1>1, InvHolds, PTL

\* recover_state_set never answers num_failures failures within
\* failure_period by restarts alone.
THEOREM RestartsBounded == Spec => []RestartsSpaced
<1>1. Inv => RestartsSpaced
  BY DEF Inv
<1> QED
  BY <1>1, InvHolds, PTL

(***************************************************************************)
(* recover.c implements RecoverPolicy.                                     *)
(***************************************************************************)

\* A failing step of recover_state_set is a failing step of the policy.
LEMMA FailRefines ==
  ASSUME Inv, recover_state_set_failed
  PROVE  Policy!Fail
<1> DEFINE f == Append(fails, now)
<1>1. /\ state # "FAILED" /\ state' = "FAILED"
      /\ UNCHANGED <<num_failures, failure_period, now>>
  BY DEF recover_state_set_failed
<1>2. CASE recover_escalate
  <2>1. act' = "escalate" /\ fails' = <<>> /\ Escalating /\ Enabled
    BY <1>2 DEF recover_escalate, Escalating
  <2>2. num_failures # 1 => num_failures > 1
    BY <2>1 DEF Inv, TypeOK, Enabled
  <2>3. act' \in Policy!Answers(f)
    BY <2>1, <2>2, EscalatingIsRepeated
       DEF Inv, Policy!Answers, Policy!Enabled, Enabled
  <2> QED
    BY <1>1, <2>1, <2>3 DEF Policy!Fail
<1>3. CASE recover_restart
  <2>1. act' = "restart" /\ fails' = f /\ ~Escalating
    BY <1>3 DEF recover_restart
  <2>2. Enabled /\ num_failures # 1 => num_failures > 1
    BY DEF Inv, TypeOK, Enabled
  <2>3. act' \in Policy!Answers(f)
    BY <2>1, <2>2, EscalatingIsRepeated
       DEF Inv, Policy!Answers, Policy!Enabled, Enabled
  <2> QED
    BY <1>1, <2>1, <2>3 DEF Policy!Fail
<1> QED
  BY <1>2, <1>3 DEF recover_state_set_failed

\* The stopwatch ring implements the policy that remembers every failure:
\* recover_state_set escalates exactly the failures the policy escalates.
THEOREM Refinement == Spec => RefinesPolicy
<1>1. Init => Policy!Init
  <2> SUFFICES ASSUME Init PROVE Policy!Init
    OBVIOUS
  <2>1. num_failures \in Int /\ failure_period \in Int
    BY InitInv DEF Inv, TypeOK
  <2> QED
    BY <2>1 DEF Init, Policy!Init
<1>2. Inv /\ [Next]_vars => [Policy!Next]_(Policy!vars)
  <2> SUFFICES ASSUME Inv, [Next]_vars PROVE [Policy!Next]_(Policy!vars)
    OBVIOUS
  <2>1. ASSUME NEW s \in RecoverState, recover_state_set(s) PROVE Policy!Next
    BY <2>1 DEF recover_state_set, RecoverState, Policy!Next, Policy!Recovered,
                Policy!RecoverState
  <2>2. ASSUME recover_state_set_failed PROVE Policy!Next
    BY <2>2, FailRefines DEF Policy!Next
  <2>3. ASSUME Tick PROVE Policy!Next
    BY <2>3 DEF Tick, Policy!Next, Policy!Tick
  <2>4. ASSUME UNCHANGED vars PROVE UNCHANGED Policy!vars
    BY <2>4 DEF vars, Policy!vars
  <2> QED
    BY <2>1, <2>2, <2>3, <2>4 DEF Next
<1> QED
  BY <1>1, <1>2, InvHolds, PTL DEF Spec, RefinesPolicy, Policy!Spec
==============================================================================

--------------------------- MODULE MatahariProofs ---------------------------
(***************************************************************************)
(* The Matahari transport for any number of agents, requests, restarts and *)
(* check timers: what a node's state rests on, and that a call which was   *)
(* sent when it was made is never used after it was freed.                 *)
(***************************************************************************)
EXTENDS Matahari, TLAPS

MType ==
  [created : BOOLEAN, node : {"UNKNOWN", "RUNNING", "FAILED"},
   hb_state : HbState, last_sequence : 0 .. SeqMod - 1,
   late : BOOLEAN, healthcheck_timer : BOOLEAN, strays : Nat,
   polls : Nat, connected : SUBSET Objects,
   qa : [Objects -> Agents \cup {None}],
   objects : [Agents -> SUBSET Objects], unknown : SUBSET Agents,
   jobs : [Callable -> Nat], null_call : BOOLEAN]

QType ==
  [state : {"NONE", "SCHEDULED", "RUNNING", "COMPLETED"},
   queued : BOOLEAN, refs : Nat, timers : Nat,
   out : [Agents -> Nat], op : 0 .. 2, misused : BOOLEAN]

BusType ==
  [known : SUBSET Agents, adds : Nat,
   sequence : [Agents -> 0 .. SeqMod - 1], unanswered : SUBSET Agents]

\* Only agents that are known have objects, and only they are pointed at.
Pointers(x, known) ==
  /\ \A a \in Agents : x.objects[a] # {} => a \in known
  /\ \A o \in Objects : x.qa[o] # None => o \in x.objects[x.qa[o]]

Attached(x, O) == \A o \in O : o \in x.connected => x.qa[o] # None

HeartbeatOK(x) == x.node = "RUNNING" => x.hb_state = "OK"

Watched(x) == x.node = "RUNNING" => x.healthcheck_timer \/ x.strays > 0

\* Fields that the handling of heartbeats and connections leaves alone.
SameRest(x, y) ==
  /\ y.created = x.created /\ y.unknown = x.unknown
  /\ y.null_call = x.null_call /\ y.late = x.late

(***************************************************************************)
(* check_state and connect.                                                *)
(***************************************************************************)

\* node_recover_restart leaves no object connected and no timer with a handle.
LEMMA NodeRecoverRestart ==
  ASSUME NEW x \in MType
  PROVE  LET y == node_recover_restart(x) IN
         /\ y \in MType /\ y.node = x.node /\ SameRest(x, y)
         /\ y.objects = x.objects
         /\ y.connected = {} /\ y.qa = [o \in Objects |-> None]
<1> DEFINE x1 == [x EXCEPT !.healthcheck_timer = FALSE]
           x2 == disconnect(x1, Objects)
           x3 == [x2 EXCEPT !.hb_state = "INIT"]
           x4 == [x3 EXCEPT !.polls = @ + 1]
<1>1. /\ x1 \in MType /\ x1.node = x.node /\ SameRest(x, x1)
      /\ x1.objects = x.objects
  BY DEF MType, SameRest
<1> HIDE DEF x1
<1>2. /\ x2 \in MType /\ x2.node = x.node /\ SameRest(x, x2)
      /\ x2.objects = x.objects
      /\ x2.connected = {} /\ x2.qa = [o \in Objects |-> None]
  BY <1>1 DEF MType, SameRest, disconnect
<1> HIDE DEF x2
<1>3. /\ x3 \in MType /\ x3.node = x.node /\ SameRest(x, x3)
      /\ x3.objects = x.objects
      /\ x3.connected = {} /\ x3.qa = [o \in Objects |-> None]
  BY <1>2 DEF MType, SameRest, HbState
<1> HIDE DEF x3
<1>4. /\ x4 \in MType /\ x4.node = x.node /\ SameRest(x, x4)
      /\ x4.objects = x.objects
      /\ x4.connected = {} /\ x4.qa = [o \in Objects |-> None]
  BY <1>3 DEF MType, SameRest
<1>5. node_recover_restart(x) = x4
  BY DEF node_recover_restart, transport_disconnect, state_online_to_offline,
         x1, x2, x3
<1> QED BY <1>4, <1>5

\* timer_add arms a check whether or not the handle named one already.
LEMMA TimerAdd ==
  ASSUME NEW x \in MType
  PROVE  LET y == timer_add(x) IN
         /\ y \in MType /\ y.node = x.node /\ SameRest(x, y)
         /\ y.hb_state = x.hb_state /\ y.objects = x.objects
         /\ y.connected = x.connected /\ y.qa = x.qa
         /\ y.healthcheck_timer
<1> DEFINE s == IF x.healthcheck_timer THEN x.strays + 1 ELSE x.strays
           y == [x EXCEPT !.healthcheck_timer = TRUE, !.strays = s]
<1>1. s \in Nat
  BY DEF MType
<1>2. timer_add(x) = y
  BY DEF timer_add, MType
<1> HIDE DEF s
<1>3. /\ y \in MType /\ y.node = x.node /\ SameRest(x, y)
      /\ y.hb_state = x.hb_state /\ y.objects = x.objects
      /\ y.connected = x.connected /\ y.qa = x.qa
      /\ y.healthcheck_timer
  BY <1>1 DEF MType, SameRest
<1> QED BY <1>2, <1>3

\* check_state: afterwards a RUNNING node has its heartbeat in order; a node
\* stops RUNNING only for a bad or a late heartbeat; and the objects keep
\* their agents or lose all of them.
Checks(x, y) ==
  /\ y \in MType /\ SameRest(x, y) /\ y.objects = x.objects
  /\ HeartbeatOK(y)
  /\ Watched(x) => Watched(y)
  /\ \/ y.connected = x.connected /\ y.qa = x.qa
     \/ y.connected = {} /\ y.qa = [o \in Objects |-> None]
  /\ x.node = "RUNNING" /\ x.hb_state = "OK" /\ ~x.late => y.node = "RUNNING"

\* check_state keeps the invariant of the node and fails it only for a cause.
LEMMA CheckState ==
  ASSUME NEW x \in MType, NEW answer
  PROVE  Checks(x, check_state(x, answer))
<1> DEFINE y == IF x.hb_state = "OK" /\ x.late
                THEN [x EXCEPT !.hb_state = "NOT_RECEIVED"] ELSE x
           failed == [y EXCEPT !.node = "FAILED"]
           running == [x EXCEPT !.node = "RUNNING"]
<1>1. /\ y \in MType /\ SameRest(x, y) /\ y.objects = x.objects
      /\ y.node = x.node /\ y.connected = x.connected /\ y.qa = x.qa
      /\ y.healthcheck_timer = x.healthcheck_timer /\ y.strays = x.strays
      /\ x.hb_state = "OK" /\ ~x.late => y.hb_state = "OK"
  BY DEF MType, SameRest, HbState
<1>2. check_state(x, answer) =
        IF x.node = "RUNNING"
        THEN IF y.hb_state = "OK" THEN y
             ELSE IF answer = "restart" THEN node_recover_restart(failed)
             ELSE failed
        ELSE IF x.hb_state = "OK" /\ x.connected = Objects
             THEN timer_add(running) ELSE x
  BY DEF check_state
<1> HIDE DEF y
<1>3. /\ failed \in MType /\ SameRest(x, failed) /\ failed.objects = x.objects
      /\ failed.node = "FAILED" /\ failed.connected = x.connected
      /\ failed.qa = x.qa
  BY <1>1 DEF MType, SameRest
<1>4. /\ running \in MType /\ SameRest(x, running)
      /\ running.objects = x.objects /\ running.hb_state = x.hb_state
      /\ running.connected = x.connected /\ running.qa = x.qa
  BY DEF MType, SameRest
<1> HIDE DEF failed, running
<1>5. CASE x.node = "RUNNING" /\ y.hb_state = "OK"
  BY <1>1, <1>2, <1>5 DEF Checks, HeartbeatOK, Watched
<1>6. CASE x.node = "RUNNING" /\ y.hb_state # "OK" /\ answer = "restart"
  <2> DEFINE z == node_recover_restart(failed)
  <2>1. /\ z \in MType /\ z.node = "FAILED" /\ SameRest(failed, z)
        /\ z.objects = x.objects
        /\ z.connected = {} /\ z.qa = [o \in Objects |-> None]
    BY <1>3, NodeRecoverRestart
  <2>2. check_state(x, answer) = z
    BY <1>2, <1>6
  <2> HIDE DEF z
  <2>3. SameRest(x, z)
    BY <1>3, <2>1 DEF SameRest
  <2> QED BY <1>1, <1>6, <2>1, <2>2, <2>3 DEF Checks, HeartbeatOK, Watched
<1>7. CASE x.node = "RUNNING" /\ y.hb_state # "OK" /\ answer # "restart"
  BY <1>1, <1>2, <1>3, <1>7 DEF Checks, HeartbeatOK, Watched
<1>8. CASE x.node # "RUNNING" /\ x.hb_state = "OK" /\ x.connected = Objects
  <2> DEFINE z == timer_add(running)
  <2>1. /\ z \in MType /\ SameRest(running, z) /\ z.hb_state = "OK"
        /\ z.objects = x.objects /\ z.connected = x.connected /\ z.qa = x.qa
        /\ z.healthcheck_timer
    BY <1>4, <1>8, TimerAdd
  <2>2. check_state(x, answer) = z
    BY <1>2, <1>8
  <2> HIDE DEF z
  <2>3. SameRest(x, z)
    BY <1>4, <2>1 DEF SameRest
  <2> QED BY <1>8, <2>1, <2>2, <2>3 DEF Checks, HeartbeatOK, Watched
<1>9. CASE x.node # "RUNNING" /\ ~(x.hb_state = "OK" /\ x.connected = Objects)
  BY <1>2, <1>9 DEF Checks, HeartbeatOK, Watched, SameRest
<1> QED BY <1>5, <1>6, <1>7, <1>8, <1>9

MOK(x, known) ==
  /\ x \in MType
  /\ Pointers(x, known)
  /\ Attached(x, Objects)
  /\ HeartbeatOK(x)
  /\ Watched(x)

\* A node that RUNS on a fresh heartbeat goes on RUNNING.
KeepsRunning(x, y) == x.node = "RUNNING" /\ ~x.late => y.node = "RUNNING"

\* QmfObject::connect: the state is checked with an object that counts as
\* connected and has no agent yet.
LEMMA ConnectOK ==
  ASSUME NEW known \in SUBSET Agents, NEW x, MOK(x, known),
         NEW a \in known, NEW o \in Objects, NEW answer
  PROVE  LET y == connect(x, a, o, answer) IN
         MOK(y, known) /\ SameRest(x, y) /\ KeepsRunning(x, y)
<1>1. CASE o \in x.connected \/ o \notin Serves[a]
  BY <1>1 DEF connect, SameRest, KeepsRunning
<1>2. CASE ~(o \in x.connected \/ o \notin Serves[a])
  <2> DEFINE j == [p \in Callable |-> IF p = o THEN x.jobs[p] + 1 ELSE x.jobs[p]]
             z == [x EXCEPT !.connected = @ \cup {o}, !.jobs = j]
             y == check_state(z, answer)
             w == [y EXCEPT !.qa[o] = a, !.objects[a] = @ \cup {o}]
  <2>1. x \in MType
    BY DEF MOK
  <2>2. j \in [Callable -> Nat]
    BY <2>1 DEF MType
  <2>3. connect(x, a, o, answer) = w
    BY <1>2 DEF connect
  <2> HIDE DEF j
  <2>4. /\ z \in MType /\ SameRest(x, z)
        /\ z.node = x.node /\ z.hb_state = x.hb_state
        /\ z.healthcheck_timer = x.healthcheck_timer /\ z.strays = x.strays
        /\ z.connected = x.connected \cup {o} /\ z.qa = x.qa
        /\ z.objects = x.objects
    BY <2>1, <2>2 DEF MType, SameRest
  <2> HIDE DEF z
  <2>5. Checks(z, y)
    BY <2>4, CheckState
  <2> HIDE DEF y
  <2>6. /\ y \in MType /\ SameRest(x, y) /\ y.objects = x.objects
        /\ HeartbeatOK(y) /\ Watched(y) /\ KeepsRunning(x, y)
        /\ \/ y.connected = x.connected \cup {o} /\ y.qa = x.qa
           \/ y.connected = {} /\ y.qa = [p \in Objects |-> None]
    BY <2>4, <2>5
       DEF Checks, SameRest, MOK, Watched, HeartbeatOK, KeepsRunning
  <2>7. /\ w \in MType /\ w.node = y.node /\ SameRest(y, w)
        /\ w.hb_state = y.hb_state
        /\ w.healthcheck_timer = y.healthcheck_timer /\ w.strays = y.strays
        /\ w.connected = y.connected
        /\ w.qa = [y.qa EXCEPT ![o] = a]
        /\ w.objects = [y.objects EXCEPT ![a] = @ \cup {o}]
    BY <2>6 DEF MType, SameRest
  <2> HIDE DEF w
  <2>8. Pointers(w, known)
    BY <2>1, <2>6, <2>7, MatahariConstantsOK DEF Pointers, MOK, MType
  <2>9. Attached(w, Objects)
    BY <2>1, <2>6, <2>7, MatahariConstantsOK DEF Attached, MOK, MType
  <2>10. /\ SameRest(x, w) /\ KeepsRunning(x, w)
         /\ HeartbeatOK(w) /\ Watched(w)
    BY <2>6, <2>7 DEF SameRest, KeepsRunning, HeartbeatOK, Watched
  <2> QED BY <2>3, <2>7, <2>8, <2>9, <2>10 DEF MOK
<1> QED BY <1>1, <1>2

(***************************************************************************)
(* The steps of the node, its objects and its agents.                      *)
(***************************************************************************)

BusOK == bus \in BusType

\* What a step of the node's part does to the rest: memory stays sound, and
\* a node that fails has a cause.
Cause == \/ m.late
         \/ \E a \in bus.known :
              /\ bus'.sequence[a] # bus.sequence[a]
              /\ bus.sequence[a] # plus_one(m.last_sequence)

\* The announcement of an agent offers it to the three objects in turn.
LEMMA AgentAddOK ==
  ASSUME MOK(m, bus.known), BusOK, NEW a \in Agents, agent_add(a)
  PROVE  /\ MOK(m', bus'.known) /\ bus' \in BusType /\ SameRest(m, m')
         /\ KeepsRunning(m, m')
<1> PICK answer \in NodeAnswers :
      m' = connect(connect(connect(m, a, "host", answer),
                           a, "serv", answer), a, "rsc", answer)
  BY DEF agent_add
<1> DEFINE x == connect(m, a, "host", answer)
           y == connect(x, a, "serv", answer)
           known == bus.known \cup {a}
<1>1. known \in SUBSET Agents /\ bus' \in BusType /\ bus'.known = known
  <2>1. bus.adds + 1 \in Nat
    BY DEF BusOK, BusType
  <2> QED BY <2>1 DEF agent_add, BusOK, BusType
<1>2. MOK(m, known)
  BY DEF MOK, Pointers
<1> HIDE DEF known
<1>3. a \in known /\ {"host", "serv", "rsc"} \subseteq Objects
  BY DEF known, Objects
<1>4. MOK(x, known) /\ SameRest(m, x) /\ KeepsRunning(m, x)
  BY <1>1, <1>2, <1>3, ConnectOK
<1> HIDE DEF x
<1>5. MOK(y, known) /\ SameRest(x, y) /\ KeepsRunning(x, y)
  BY <1>1, <1>3, <1>4, ConnectOK
<1>6. m' = connect(y, a, "rsc", answer)
  BY DEF x
<1> HIDE DEF y
<1>7. MOK(m', known) /\ SameRest(y, m') /\ KeepsRunning(y, m')
  BY <1>1, <1>3, <1>5, <1>6, ConnectOK
<1> QED BY <1>1, <1>4, <1>5, <1>7 DEF SameRest, KeepsRunning

\* The successor of a sequence number is a sequence number, also at the wrap.
LEMMA PlusOne ==
  ASSUME NEW n \in 0 .. SeqMod - 1
  PROVE  plus_one(n) \in 0 .. SeqMod - 1 /\ plus_one(n) # n
BY MatahariConstantsOK DEF plus_one

\* A heartbeat, in order or not, keeps the invariant of the node.
LEMMA HeartbeatStepOK ==
  ASSUME MOK(m, bus.known), BusOK, NEW a \in Agents, heartbeat(a)
  PROVE  /\ MOK(m', bus'.known) /\ bus' \in BusType
         /\ m'.null_call = m.null_call /\ m'.unknown = m.unknown
         /\ bus'.known = bus.known
         /\ m.node = "RUNNING" /\ m'.node # "RUNNING" => Cause
<1> DEFINE s == bus.sequence[a]
           x == heartbeat_recv(m, s)
<1>1. m \in MType /\ s \in 0 .. SeqMod - 1 /\ a \in bus.known
  BY DEF MOK, BusOK, BusType, heartbeat, Pointers
<1>2. plus_one(s) \in 0 .. SeqMod - 1 /\ plus_one(s) # s
  BY <1>1, PlusOne
<1>3. bus' = [bus EXCEPT !.sequence[a] = plus_one(s)]
  BY DEF heartbeat, BusOK, BusType
<1>4. /\ bus' \in BusType /\ bus'.known = bus.known
      /\ bus'.sequence[a] # bus.sequence[a]
  BY <1>1, <1>2, <1>3 DEF BusOK, BusType
<1> HIDE DEF s
<1>5. /\ x \in MType /\ x.node = m.node
      /\ x.unknown = m.unknown /\ x.null_call = m.null_call
      /\ x.healthcheck_timer = m.healthcheck_timer /\ x.strays = m.strays
      /\ x.objects = m.objects /\ x.connected = m.connected /\ x.qa = m.qa
  BY <1>1 DEF heartbeat_recv, MType, HbState
<1>6. m.hb_state = "OK" /\ ~m.late /\ in_sequence(m, s)
      => x.hb_state = "OK" /\ ~x.late
  BY <1>1 DEF heartbeat_recv, MType
<1>7. PICK answer \in NodeAnswers : m' = check_state(x, answer)
  BY DEF heartbeat, s
<1> HIDE DEF x
<1>8. Checks(x, m')
  BY <1>5, <1>7, CheckState
<1>9. MOK(m', bus'.known)
  <2>1. m' \in MType /\ HeartbeatOK(m') /\ Watched(m')
    BY <1>5, <1>8 DEF Checks, MOK, Watched
  <2>2. Pointers(m', bus'.known) /\ Attached(m', Objects)
    BY <1>4, <1>5, <1>8 DEF Checks, MOK, Pointers, Attached
  <2> QED BY <2>1, <2>2 DEF MOK
<1>10. ASSUME m.node = "RUNNING", m'.node # "RUNNING"
       PROVE  Cause
  <2>1. m.hb_state = "OK"
    BY <1>10 DEF MOK, HeartbeatOK
  <2>2. m.late \/ ~in_sequence(m, s)
    BY <1>5, <1>6, <1>8, <1>10, <2>1 DEF Checks
  <2>3. ~in_sequence(m, s) => s # plus_one(m.last_sequence)
    <3>1. plus_one(m.last_sequence) \in 0 .. SeqMod - 1
      BY <1>1, PlusOne DEF MType
    <3> QED BY <1>1, <3>1, MatahariConstantsOK DEF in_sequence
  <2> QED BY <1>1, <1>4, <2>2, <2>3 DEF Cause, s
<1> QED BY <1>4, <1>5, <1>8, <1>9, <1>10 DEF Checks, SameRest

\* The check timer, or a stray one, checks the node and is armed again.
LEMMA CheckTimerOK ==
  ASSUME MOK(m, bus.known), heartbeat_check_tmo
  PROVE  /\ MOK(m', bus.known) /\ SameRest(m, m') /\ KeepsRunning(m, m')
<1>1. PICK x \in MType, answer \in NodeAnswers :
        /\ m' = rearm(check_state(x, answer))
        /\ SameRest(m, x) /\ x.node = m.node /\ x.hb_state = m.hb_state
        /\ x.connected = m.connected /\ x.qa = m.qa /\ x.objects = m.objects
  <2> DEFINE x1 == [m EXCEPT !.healthcheck_timer = FALSE]
             x2 == [m EXCEPT !.strays = @ - 1]
  <2>1. m \in MType
    BY DEF MOK
  <2>2. /\ x1 \in MType /\ SameRest(m, x1) /\ x1.node = m.node
        /\ x1.hb_state = m.hb_state /\ x1.connected = m.connected
        /\ x1.qa = m.qa /\ x1.objects = m.objects
    BY <2>1 DEF MType, SameRest
  <2>3. m.strays > 0 => m.strays - 1 \in Nat
    BY <2>1 DEF MType
  <2>4. m.strays > 0 =>
        /\ x2 \in MType /\ SameRest(m, x2) /\ x2.node = m.node
        /\ x2.hb_state = m.hb_state /\ x2.connected = m.connected
        /\ x2.qa = m.qa /\ x2.objects = m.objects
    BY <2>1, <2>3 DEF MType, SameRest
  <2>5. \E answer \in NodeAnswers :
          \/ m' = rearm(check_state(x1, answer))
          \/ m.strays > 0 /\ m' = rearm(check_state(x2, answer))
    BY DEF heartbeat_check_tmo
  <2> HIDE DEF x1, x2
  <2> QED BY <2>2, <2>4, <2>5
<1> DEFINE y == check_state(x, answer)
<1>2. Checks(x, y) /\ m' = rearm(y)
  BY <1>1, CheckState
<1> HIDE DEF y
<1>3. /\ y \in MType /\ SameRest(m, y) /\ HeartbeatOK(y) /\ KeepsRunning(m, y)
      /\ Pointers(y, bus.known) /\ Attached(y, Objects)
  <2>1. y \in MType /\ SameRest(m, y) /\ HeartbeatOK(y) /\ KeepsRunning(m, y)
    BY <1>1, <1>2 DEF Checks, SameRest, KeepsRunning, HeartbeatOK, MOK
  <2>2. Pointers(y, bus.known) /\ Attached(y, Objects)
    BY <1>1, <1>2 DEF Checks, Pointers, Attached, MOK
  <2> QED BY <2>1, <2>2
<1>4. CASE y.node = "RUNNING"
  <2> DEFINE z == timer_add(y)
  <2>1. m' = z
    BY <1>2, <1>4 DEF rearm
  <2>2. /\ z \in MType /\ z.node = y.node /\ SameRest(y, z)
        /\ z.hb_state = y.hb_state /\ z.objects = y.objects
        /\ z.connected = y.connected /\ z.qa = y.qa
        /\ z.healthcheck_timer
    BY <1>3, TimerAdd
  <2> HIDE DEF z
  <2>3. SameRest(m, z) /\ KeepsRunning(m, z) /\ HeartbeatOK(z) /\ Watched(z)
    BY <1>3, <2>2 DEF SameRest, KeepsRunning, HeartbeatOK, Watched
  <2>4. Pointers(z, bus.known) /\ Attached(z, Objects)
    BY <1>3, <2>2 DEF Pointers, Attached
  <2> QED BY <2>1, <2>2, <2>3, <2>4 DEF MOK
<1>5. CASE y.node # "RUNNING"
  <2>1. m' = y
    BY <1>2, <1>5 DEF rearm
  <2> QED BY <1>3, <1>5, <2>1 DEF MOK, Watched
<1> QED BY <1>4, <1>5

\* The deletion of an agent leaves no object that points at it.
LEMMA AgentDelOK ==
  ASSUME MOK(m, bus.known), BusOK, NEW a \in Agents, agent_del(a)
  PROVE  /\ MOK(m', bus'.known) /\ bus' \in BusType /\ m'.node = m.node
         /\ m'.null_call <=> a \in m.unknown
         /\ m'.unknown = m.unknown
         /\ bus'.known = bus.known \ {a}
<1> DEFINE O == m.objects[a]
           x == disconnect(m, O)
           un == IF \E r \in Requests : req[r].out[a] > 0
                 THEN bus.unanswered \cup {a} ELSE bus.unanswered
<1>1. m \in MType /\ O \subseteq Objects
  BY DEF MOK, MType
<1> HIDE DEF O
<1>2. /\ x \in MType /\ x.node = m.node /\ SameRest(m, x)
      /\ x.hb_state = m.hb_state /\ x.objects = m.objects
      /\ x.healthcheck_timer = m.healthcheck_timer /\ x.strays = m.strays
      /\ x.connected = m.connected \ O
      /\ x.qa = [o \in Objects |-> IF o \in O THEN None ELSE m.qa[o]]
  BY <1>1 DEF disconnect, MType, SameRest
<1>3. PICK b \in BOOLEAN : /\ b <=> a \in m.unknown
                          /\ m' = [x EXCEPT !.objects[a] = {}, !.null_call = b]
  <2>1. m' = [x EXCEPT !.objects[a] = {}, !.null_call = a \in m.unknown]
    BY DEF agent_del, O
  <2> HIDE DEF x
  <2>2. CASE a \in m.unknown
    <3>1. m' = [x EXCEPT !.objects[a] = {}, !.null_call = TRUE]
      BY <2>1, <2>2
    <3> QED BY <2>2, <3>1
  <2>3. CASE a \notin m.unknown
    <3>1. (a \in m.unknown) = FALSE
      BY <2>3
    <3>2. m' = [x EXCEPT !.objects[a] = {}, !.null_call = FALSE]
      BY <2>1, <3>1, Zenon
    <3> QED BY <2>3, <3>2
  <2> QED BY <2>2, <2>3
<1> HIDE DEF x
<1>4. /\ m' \in MType /\ m'.node = m.node /\ m'.hb_state = m.hb_state
      /\ m'.objects = [m.objects EXCEPT ![a] = {}]
      /\ m'.healthcheck_timer = m.healthcheck_timer /\ m'.strays = m.strays
      /\ m'.connected = m.connected \ O
      /\ m'.qa = [o \in Objects |-> IF o \in O THEN None ELSE m.qa[o]]
      /\ m'.null_call <=> a \in m.unknown
      /\ m'.unknown = m.unknown
  BY <1>2, <1>3 DEF MType, SameRest
<1>5. un \in SUBSET Agents
  BY DEF BusOK, BusType
<1>6. bus' = [bus EXCEPT !.known = @ \ {a}, !.unanswered = un]
  BY DEF agent_del, BusOK, BusType
<1> HIDE DEF un
<1>7. bus' \in BusType /\ bus'.known = bus.known \ {a}
  BY <1>5, <1>6 DEF BusOK, BusType
<1>8. Pointers(m', bus'.known)
  <2>1. \A o \in Objects : m.qa[o] = a => o \in O
    BY MatahariConstantsOK DEF MOK, Pointers, O
  <2> QED BY <1>1, <1>4, <1>7, <2>1, MatahariConstantsOK DEF MOK, Pointers, MType
<1>9. Attached(m', Objects)
  BY <1>4 DEF MOK, Attached
<1>10. HeartbeatOK(m') /\ Watched(m')
  BY <1>4 DEF MOK, HeartbeatOK, Watched
<1> QED BY <1>4, <1>7, <1>8, <1>9, <1>10 DEF MOK

\* A step that touches neither the agents nor the heartbeat.
LEMMA QuietStepOK ==
  ASSUME MOK(m, bus.known),
         \/ instance_state_active \/ instance_state_pending \/ silence
         \/ \E r \in Requests : resource_action(r)
         \/ \E a \in Agents : unknown_request(a)
         \/ \E o \in Callable : run_pending_calls(o)
  PROVE  /\ MOK(m', bus.known)
         /\ m'.node = "FAILED" => m'.node = m.node
<1>1. m \in MType
  BY DEF MOK
<1>2. /\ m' \in MType /\ m'.node \in {m.node, "UNKNOWN"}
      /\ m'.hb_state = m.hb_state /\ m'.objects = m.objects
      /\ m'.healthcheck_timer = m.healthcheck_timer /\ m'.strays = m.strays
      /\ m'.connected = m.connected /\ m'.qa = m.qa
  <2>1. CASE instance_state_active
    <3>1. m.polls - 1 \in Nat
      BY <1>1, <2>1 DEF instance_state_active, MType
    <3> QED BY <1>1, <2>1, <3>1 DEF instance_state_active, MType
  <2>2. CASE instance_state_pending
    BY <1>1, <2>2 DEF instance_state_pending, MType
  <2>3. CASE silence
    BY <1>1, <2>3 DEF silence, MType
  <2>4. CASE \E r \in Requests : resource_action(r)
    <3>1. PICK b \in BOOLEAN : m' = [m EXCEPT !.null_call = b]
      BY <2>4 DEF resource_action
    <3> QED BY <1>1, <3>1 DEF MType
  <2>5. CASE \E a \in Agents : unknown_request(a)
    BY <1>1, <2>5 DEF unknown_request, MType
  <2>6. CASE \E o \in Callable : run_pending_calls(o)
    <3>1. PICK o \in Callable, b \in BOOLEAN :
            m.jobs[o] > 0 /\ m' = [m EXCEPT !.jobs[o] = @ - 1, !.null_call = b]
      BY <2>6 DEF run_pending_calls
    <3>2. m.jobs[o] - 1 \in Nat
      BY <1>1, <3>1 DEF MType
    <3> QED BY <1>1, <3>1, <3>2 DEF MType
  <2> QED BY <2>1, <2>2, <2>3, <2>4, <2>5, <2>6
<1>3. Pointers(m', bus.known) /\ Attached(m', Objects)
  BY <1>2 DEF MOK, Pointers, Attached
<1>4. HeartbeatOK(m') /\ Watched(m')
  BY <1>2 DEF MOK, HeartbeatOK, Watched
<1> QED BY <1>2, <1>3, <1>4 DEF MOK

(***************************************************************************)
(* Requests.                                                               *)
(***************************************************************************)

Called(q) == \E a \in Agents : q.out[a] > 0

\* A call that was sent when it was made: it is sent once and timed once,
\* both hold a reference, and the operation has its references left for
\* every answer that can still come.
Safe(q) ==
  /\ ~q.misused
  /\ q.timers \in {0, 1}
  /\ \A a \in Agents : q.out[a] \in {0, 1}
  /\ \A a, b \in Agents : q.out[a] > 0 /\ q.out[b] > 0 => a = b
  /\ q.refs >= q.timers
  /\ Called(q) => q.refs >= q.timers + 1
  /\ q.state = "NONE" => q.timers = 0 /\ ~Called(q)
  /\ q.state = "RUNNING" => q.op = 2 /\ q.timers = 1
  /\ q.state = "COMPLETED" /\ Called(q) => q.op >= 1

ROK(q) ==
  /\ q \in QType
  /\ q.state = "SCHEDULED" => q.queued
  /\ q.state = "NONE" => ~q.queued
  /\ ~q.queued => Safe(q)

Sent(q, y, a) ==
  /\ y \in QType
  /\ y.state = "RUNNING" /\ y.queued = q.queued /\ y.refs = q.refs + 1
  /\ y.timers = q.timers + 1 /\ y.op = q.op
  /\ y.out = [q.out EXCEPT ![a] = @ + 1]
  /\ ~q.misused /\ q.refs > 0 => ~y.misused

\* QmfAgent::call_method_async, for a new call or one that has waited.
LEMMA SendOK ==
  ASSUME NEW q \in QType, NEW a \in Agents
  PROVE  Sent(q, send(q, a), a)
<1> DEFINE refs == q.refs + 1
           timers == q.timers + 1
           out == [q.out EXCEPT ![a] = @ + 1]
           bad == q.misused \/ q.refs = 0
           y == [q EXCEPT !.state = "RUNNING", !.refs = refs, !.timers = timers,
                          !.out = out, !.misused = bad]
<1>1. send(q, a) = y
  BY DEF send, QType
<1>2. /\ refs \in Nat /\ timers \in Nat /\ out \in [Agents -> Nat]
      /\ bad \in BOOLEAN
  BY DEF QType
<1>3. ~q.misused /\ q.refs > 0 => ~bad
  BY DEF QType
<1> HIDE DEF refs, timers, out, bad
<1>4. /\ y \in QType
      /\ y.state = "RUNNING" /\ y.queued = q.queued /\ y.refs = refs
      /\ y.timers = timers /\ y.op = q.op /\ y.out = out /\ y.misused = bad
  BY <1>2 DEF QType
<1> QED BY <1>1, <1>3, <1>4 DEF Sent, refs, timers, out

\* A new request holds its own reference and two of its operation.
LEMMA NewRequest ==
  LET q == [NoRequest EXCEPT !.refs = 1, !.op = 2] IN
  /\ q \in QType /\ q.state = "NONE" /\ q.queued = FALSE /\ q.refs = 1
  /\ q.timers = 0 /\ q.out = [b \in Agents |-> 0] /\ q.op = 2
  /\ q.misused = FALSE
<1> DEFINE out == [b \in Agents |-> 0]
           z == [state |-> "NONE", queued |-> FALSE, refs |-> 0, timers |-> 0,
                 out |-> out, op |-> 0, misused |-> FALSE]
           q == [z EXCEPT !.refs = 1, !.op = 2]
<1>1. out \in [Agents -> Nat]
  OBVIOUS
<1>2. NoRequest = z
  BY DEF NoRequest
<1> HIDE DEF out
<1>3. /\ q \in QType /\ q.state = "NONE" /\ q.queued = FALSE /\ q.refs = 1
      /\ q.timers = 0 /\ q.out = out /\ q.op = 2 /\ q.misused = FALSE
  <2>1. /\ z \in QType /\ z.state = "NONE" /\ z.queued = FALSE
        /\ z.timers = 0 /\ z.out = out /\ z.misused = FALSE
    BY <1>1 DEF QType
  <2> HIDE DEF z
  <2>2. q \in QType
    <3>1. z \in QType
      BY <2>1
    <3>2. \A n \in Nat, k \in 0 .. 2 : [z EXCEPT !.refs = n, !.op = k] \in QType
      BY <3>1 DEF QType
    <3>3. 1 \in Nat /\ 2 \in 0 .. 2
      OBVIOUS
    <3> QED BY <3>2, <3>3, Zenon
  <2>3. /\ q.state = z.state /\ q.queued = z.queued /\ q.refs = 1
        /\ q.timers = z.timers /\ q.out = z.out /\ q.op = 2
        /\ q.misused = z.misused
    BY <2>1 DEF QType
  <2> HIDE DEF q
  <2> QED BY <2>1, <2>2, <2>3
<1> QED BY <1>2, <1>3 DEF out

\* method_call_async on a connected object.
LEMMA FirstSend ==
  ASSUME NEW a \in Agents
  PROVE  ROK(send([NoRequest EXCEPT !.refs = 1, !.op = 2], a))
<1> DEFINE q == [NoRequest EXCEPT !.refs = 1, !.op = 2]
           y == send(q, a)
<1>1. /\ q \in QType /\ q.state = "NONE" /\ q.queued = FALSE /\ q.refs = 1
      /\ q.timers = 0 /\ q.out = [b \in Agents |-> 0] /\ q.op = 2
      /\ q.misused = FALSE
  BY NewRequest
<1> HIDE DEF q
<1>2. Sent(q, y, a)
  BY <1>1, SendOK
<1> HIDE DEF y
<1>3. \A b \in Agents : y.out[b] = IF b = a THEN 1 ELSE 0
  BY <1>1, <1>2 DEF Sent
<1>4. Safe(y)
  BY <1>1, <1>2, <1>3 DEF Safe, Called, Sent
<1> QED BY <1>1, <1>2, <1>4 DEF ROK, Sent, y, q

Response(q, y, k) ==
  /\ y \in QType
  /\ y.state = "COMPLETED" /\ y.queued = q.queued /\ y.refs = q.refs
  /\ y.timers = q.timers /\ y.out = q.out
  /\ ~q.misused /\ q.refs > 0 /\ q.op >= k => ~y.misused /\ y.op = q.op - k

\* method_response: one reference to the operation for the answer, and one
\* more if the answer is good.
LEMMA Responded ==
  ASSUME NEW q \in QType, NEW n \in Nat, NEW ok \in BOOLEAN
  PROVE  Response(q, method_response_n(q, n, ok), IF ok THEN n + 1 ELSE n)
<1> DEFINE k == IF ok THEN n + 1 ELSE n
           op == IF q.op < k THEN 0 ELSE q.op - k
           bad == q.misused \/ q.refs = 0 \/ q.op < k
           y == [q EXCEPT !.state = "COMPLETED", !.op = op, !.misused = bad]
<1>1. k \in Nat /\ n + (IF ok THEN 1 ELSE 0) = k
  OBVIOUS
<1>2. method_response_n(q, n, ok) = y
  BY <1>1 DEF method_response_n, QType
<1>3. op \in 0 .. 2 /\ bad \in BOOLEAN
  BY <1>1 DEF QType
<1>4. ~q.misused /\ q.refs > 0 /\ q.op >= k => ~bad /\ op = q.op - k
  BY <1>1 DEF QType
<1> HIDE DEF k, op, bad
<1>5. Response(q, y, k)
  BY <1>1, <1>3, <1>4 DEF Response, QType
<1> QED BY <1>2, <1>5 DEF k

Unreferenced(q, y) ==
  /\ y \in QType
  /\ y.state = q.state /\ y.queued = q.queued /\ y.timers = q.timers
  /\ y.out = q.out /\ y.op = q.op
  /\ ~q.misused /\ q.refs > 0 => ~y.misused /\ y.refs = q.refs - 1

\* unref takes one reference, and is safe while there is one.
LEMMA Unref ==
  ASSUME NEW q \in QType
  PROVE  Unreferenced(q, unref(q))
<1> DEFINE refs == IF q.refs > 0 THEN q.refs - 1 ELSE 0
           bad == q.misused \/ q.refs = 0
           y == [q EXCEPT !.refs = refs, !.misused = bad]
<1>1. unref(q) = y
  BY DEF unref, QType
<1>2. refs \in Nat /\ bad \in BOOLEAN
  BY DEF QType
<1>3. ~q.misused /\ q.refs > 0 => ~bad /\ refs = q.refs - 1
  BY DEF QType
<1> HIDE DEF refs, bad
<1>4. Unreferenced(q, y)
  BY <1>2, <1>3 DEF Unreferenced, QType
<1> QED BY <1>1, <1>4

\* ~QmfAgent answers the calls of its agent.
LEMMA CancelOK ==
  ASSUME NEW q, ROK(q), NEW a \in Agents, q.out[a] # 0
  PROVE  LET y == [method_response_n(q, q.out[a], FALSE) EXCEPT !.out[a] = 0]
         IN  ROK(y) /\ y.queued = q.queued
<1> DEFINE n == q.out[a]
           z == method_response_n(q, n, FALSE)
           y == [z EXCEPT !.out[a] = 0]
<1>1. q \in QType /\ n \in Nat /\ n > 0
  BY DEF ROK, QType
<1>2. Response(q, z, n)
  BY <1>1, Responded
<1> HIDE DEF z, n
<1>3. /\ y \in QType /\ y.queued = q.queued /\ y.state = "COMPLETED"
      /\ y.refs = q.refs /\ y.timers = q.timers
      /\ y.out = [q.out EXCEPT ![a] = 0]
      /\ y.op = z.op /\ y.misused = z.misused
  BY <1>2 DEF Response, QType
<1> HIDE DEF y
<1>4. ASSUME ~q.queued
      PROVE  Safe(y)
  <2>1. Safe(q) /\ q.state # "SCHEDULED"
    BY <1>4 DEF ROK
  <2>2. Called(q)
    BY <1>1 DEF Called, n
  <2>3. n = 1 /\ q.refs > 0 /\ q.op >= 1
    BY <1>1, <2>1, <2>2 DEF Safe, QType, n
  <2>4. ~y.misused
    BY <1>2, <1>3, <2>1, <2>3 DEF Response, Safe
  <2>5. ~Called(y)
    BY <1>1, <1>3, <2>1 DEF Safe, Called, QType, n
  <2> QED BY <1>1, <1>3, <2>1, <2>4, <2>5 DEF Safe, QType
<1>5. ROK(y)
  BY <1>3, <1>4 DEF ROK
<1> QED BY <1>3, <1>5 DEF y, z, n

\* QmfAgent::process_event with the answer of a call.
LEMMA AnswerOK ==
  ASSUME NEW q, ROK(q), NEW a \in Agents, NEW ok \in BOOLEAN, q.out[a] > 0
  PROVE  LET z == IF ok /\ q.state # "RUNNING" THEN q ELSE method_response(q, ok)
             y == [unref(z) EXCEPT !.out[a] = @ - 1]
         IN  ROK(y) /\ y.queued = q.queued
<1> DEFINE z == IF ok /\ q.state # "RUNNING" THEN q ELSE method_response(q, ok)
           u == unref(z)
           y == [u EXCEPT !.out[a] = @ - 1]
<1>1. q \in QType /\ q.out[a] \in Nat /\ q.out[a] - 1 \in Nat
  BY DEF ROK, QType
<1>2. /\ z \in QType /\ z.queued = q.queued /\ z.refs = q.refs
      /\ z.timers = q.timers /\ z.out = q.out
      /\ z.state \in {q.state, "COMPLETED"}
      /\ ~ok \/ q.state = "RUNNING" => z.state = "COMPLETED"
      /\ Safe(q) /\ q.state \in {"RUNNING", "COMPLETED"} => ~z.misused
  <2>1. CASE ok /\ q.state # "RUNNING"
    BY <1>1, <2>1 DEF Safe
  <2>2. CASE ~(ok /\ q.state # "RUNNING")
    <3> DEFINE k == IF ok THEN 2 ELSE 1
    <3>1. Response(q, z, k)
      BY <1>1, <2>2, Responded DEF method_response
    <3>2. ASSUME Safe(q), q.state \in {"RUNNING", "COMPLETED"}
          PROVE  q.refs > 0 /\ q.op >= k
      <4>1. Called(q)
        BY DEF Called
      <4> QED BY <1>1, <2>2, <3>2, <4>1 DEF Safe, QType
    <3> HIDE DEF z, k
    <3> QED BY <3>1, <3>2 DEF Response, Safe
  <2> QED BY <2>1, <2>2
<1> HIDE DEF z
<1>3. Unreferenced(z, u)
  BY <1>2, Unref
<1> HIDE DEF u
<1>4. /\ y \in QType /\ y.queued = q.queued /\ y.state = z.state
      /\ y.refs = u.refs /\ y.timers = q.timers
      /\ y.out = [q.out EXCEPT ![a] = @ - 1] /\ y.misused = u.misused
  BY <1>1, <1>2, <1>3 DEF Unreferenced, QType
<1> HIDE DEF y
<1>5. ASSUME ~q.queued
      PROVE  Safe(y) /\ y.state # "SCHEDULED"
  <2>1. Safe(q) /\ q.state # "SCHEDULED"
    BY <1>5 DEF ROK
  <2>2. Called(q)
    BY DEF Called
  <2>3. /\ q.state \in {"RUNNING", "COMPLETED"} /\ q.refs >= q.timers + 1
        /\ q.out[a] = 1
    BY <1>1, <2>1, <2>2 DEF Safe, QType
  <2>4. y.state = "COMPLETED"
    BY <1>2, <1>4, <2>3
  <2>5. ~y.misused /\ y.refs = q.refs - 1
    BY <1>1, <1>2, <1>3, <1>4, <2>1, <2>3 DEF Unreferenced, QType
  <2>6. ~Called(y)
    BY <1>1, <1>4, <2>1, <2>3 DEF Safe, Called, QType
  <2> QED BY <1>1, <1>4, <2>1, <2>3, <2>4, <2>5, <2>6 DEF Safe, QType
<1>6. ROK(y)
  BY <1>2, <1>4, <1>5 DEF ROK
<1> QED BY <1>4, <1>6 DEF y, u, z

\* The timeout of a call.
LEMMA TimeoutOK ==
  ASSUME NEW q, ROK(q), q.timers > 0
  PROVE  LET z == IF q.state = "COMPLETED" THEN q ELSE method_response(q, FALSE)
             y == [unref(z) EXCEPT !.timers = @ - 1]
         IN  ROK(y) /\ y.queued = q.queued
<1> DEFINE z == IF q.state = "COMPLETED" THEN q ELSE method_response(q, FALSE)
           u == unref(z)
           y == [u EXCEPT !.timers = @ - 1]
<1>1. q \in QType /\ q.timers \in Nat /\ q.timers - 1 \in Nat
  BY DEF ROK, QType
<1>2. /\ z \in QType /\ z.queued = q.queued /\ z.refs = q.refs
      /\ z.timers = q.timers /\ z.out = q.out /\ z.state = "COMPLETED"
      /\ q.state = "COMPLETED" => z.op = q.op
      /\ q.state = "RUNNING" /\ Safe(q) => z.op = 1
      /\ Safe(q) /\ q.state \in {"RUNNING", "COMPLETED"} => ~z.misused
  <2>1. CASE q.state = "COMPLETED"
    BY <1>1, <2>1 DEF Safe
  <2>2. CASE q.state # "COMPLETED"
    <3>1. Response(q, z, 1)
      BY <1>1, <2>2, Responded DEF method_response
    <3>2. ASSUME Safe(q), q.state = "RUNNING"
          PROVE  q.refs > 0 /\ q.op = 2
      BY <1>1, <3>2 DEF Safe, QType
    <3> HIDE DEF z
    <3> QED BY <1>1, <2>2, <3>1, <3>2 DEF Response, Safe, QType
  <2> QED BY <2>1, <2>2
<1> HIDE DEF z
<1>3. Unreferenced(z, u)
  BY <1>2, Unref
<1> HIDE DEF u
<1>4. /\ y \in QType /\ y.queued = q.queued /\ y.state = "COMPLETED"
      /\ y.refs = u.refs /\ y.timers = q.timers - 1
      /\ y.out = q.out /\ y.misused = u.misused /\ y.op = z.op
  BY <1>1, <1>2, <1>3 DEF Unreferenced, QType
<1> HIDE DEF y
<1>5. ASSUME ~q.queued
      PROVE  Safe(y)
  <2>1. Safe(q) /\ q.state # "SCHEDULED"
    BY <1>5 DEF ROK
  <2>2. /\ q.state \in {"RUNNING", "COMPLETED"} /\ q.refs > 0 /\ q.timers = 1
    BY <1>1, <2>1 DEF Safe, QType
  <2>3. ~y.misused /\ y.refs = q.refs - 1
    BY <1>1, <1>2, <1>3, <1>4, <2>1, <2>2 DEF Unreferenced, QType
  <2>4. Called(y) <=> Called(q)
    BY <1>4 DEF Called
  <2>5. Called(q) => y.op >= 1
    BY <1>1, <1>2, <1>4, <2>1, <2>2 DEF Safe, QType
  <2> QED BY <1>1, <1>4, <2>1, <2>2, <2>3, <2>4, <2>5 DEF Safe, QType
<1>6. ROK(y)
  BY <1>4, <1>5 DEF ROK
<1> QED BY <1>4, <1>6 DEF y, u, z

(***************************************************************************)
(* The whole.                                                              *)
(***************************************************************************)

ReqOK == req \in [Requests -> QType] /\ \A r \in Requests : ROK(req[r])

NullOK ==
  m.null_call => \/ \E r \in Requests : req[r].queued
                 \/ \E a \in m.unknown : a \notin bus.known

IInv == MOK(m, bus.known) /\ BusOK /\ ReqOK /\ NullOK

\* The inductive invariant holds initially.
LEMMA InitIInv == Init => IInv
<1> SUFFICES ASSUME Init PROVE IInv
  OBVIOUS
<1> USE MatahariConstantsOK
<1>1. m \in MType
  BY DEF Init, MType, HbState
<1>2. /\ m.node = "UNKNOWN" /\ m.qa = [o \in Objects |-> None]
      /\ m.connected = {} /\ m.objects = [a \in Agents |-> {}]
      /\ m.null_call = FALSE
  BY DEF Init
<1>3. MOK(m, bus.known)
  BY <1>1, <1>2 DEF MOK, Pointers, Attached, HeartbeatOK, Watched
<1>4. BusOK
  BY DEF Init, BusOK, BusType
<1>5. ROK(NoRequest)
  <2>1. /\ NoRequest \in QType /\ NoRequest.state = "NONE"
        /\ NoRequest.timers = 0 /\ NoRequest.refs = 0 /\ ~NoRequest.queued
        /\ NoRequest.out = [a \in Agents |-> 0] /\ ~NoRequest.misused
    BY DEF NoRequest, QType
  <2> QED BY <2>1 DEF ROK, Safe, Called
<1>6. ReqOK
  BY <1>5 DEF Init, ReqOK, ROK
<1> QED BY <1>2, <1>3, <1>4, <1>6 DEF IInv, NullOK

\* resource_action: an object that counts as connected has an agent.
LEMMA ResourceActionOK ==
  ASSUME IInv, NEW r \in Requests, resource_action(r)
  PROVE  /\ ReqOK' /\ \A p \in Requests : req[p].queued => req'[p].queued
         /\ m'.null_call = FALSE
<1> DEFINE o == Target[r]
           q == [NoRequest EXCEPT !.refs = 1, !.op = 2]
           w == [q EXCEPT !.state = "SCHEDULED", !.queued = TRUE]
           y == IF o \in m.connected THEN send(q, m.qa[o]) ELSE w
<1>1. o \in Objects /\ m \in MType
  BY MatahariConstantsOK DEF Objects, IInv, MOK
<1>2. ~(o \in m.connected /\ m.qa[o] = None)
  BY <1>1 DEF IInv, MOK, Attached
<1>3. m'.null_call = FALSE
  <2>1. m' = [m EXCEPT !.null_call = o \in m.connected /\ m.qa[o] = None]
    BY DEF resource_action
  <2>2. (o \in m.connected /\ m.qa[o] = None) = FALSE
    BY <1>2
  <2>3. m' = [m EXCEPT !.null_call = FALSE]
    BY <2>1, <2>2, Zenon
  <2> QED BY <1>1, <2>3 DEF MType
<1>4. req' = [req EXCEPT ![r] = y]
  BY DEF resource_action
<1>5. ROK(y)
  <2>1. CASE o \in m.connected
    <3>1. m.qa[o] \in Agents
      BY <1>1, <1>2, <2>1 DEF MType
    <3> QED BY <2>1, <3>1, FirstSend
  <2>2. CASE o \notin m.connected
    <3>1. q \in QType
      BY NewRequest
    <3> HIDE DEF q
    <3>2. w \in QType /\ w.queued = TRUE
      BY <3>1 DEF QType
    <3>3. w.state = "SCHEDULED"
      BY <3>1 DEF QType
    <3> HIDE DEF w
    <3> QED BY <2>2, <3>2, <3>3 DEF ROK
  <2> QED BY <2>1, <2>2
<1> HIDE DEF y
<1>6. req[r].queued => y.queued
  <2>1. ROK(req[r]) /\ req[r].state = "NONE"
    BY DEF IInv, ReqOK, resource_action
  <2> QED BY <2>1 DEF ROK
<1> QED BY <1>3, <1>4, <1>5, <1>6 DEF IInv, ReqOK, ROK

\* run_pending_calls touches only requests that have waited.
LEMMA RunPendingOK ==
  ASSUME IInv, NEW o \in Callable, run_pending_calls(o)
  PROVE  /\ ReqOK' /\ \A p \in Requests : req[p].queued => req'[p].queued
         /\ m'.null_call => \E p \in Requests : req[p].queued
<1> DEFINE P == {r \in Requests : req[r].queued /\ Target[r] = o}
<1>1. o \in Objects /\ m \in MType
  BY MatahariConstantsOK DEF Callable, Objects, IInv, MOK
<1>2. m'.null_call => \E p \in Requests : req[p].queued
  BY <1>1 DEF run_pending_calls, MType
<1>3. req' = [r \in Requests |->
                IF r \in P /\ m.qa[o] # None THEN send(req[r], m.qa[o])
                ELSE req[r]]
  BY DEF run_pending_calls
<1>4. ASSUME NEW r \in Requests
      PROVE  ROK(req'[r]) /\ (req[r].queued => req'[r].queued)
  <2>1. ROK(req[r])
    BY DEF IInv, ReqOK
  <2>2. CASE r \in P /\ m.qa[o] # None
    <3>1. m.qa[o] \in Agents
      BY <1>1, <2>2 DEF MType
    <3>2. Sent(req[r], req'[r], m.qa[o])
      BY <1>3, <2>1, <2>2, <3>1, SendOK DEF ROK
    <3> QED BY <2>2, <3>2 DEF Sent, ROK
  <2>3. CASE ~(r \in P /\ m.qa[o] # None)
    BY <1>3, <2>1, <2>3
  <2> QED BY <2>2, <2>3
<1> QED BY <1>2, <1>3, <1>4 DEF ReqOK, ROK

\* Answers, timeouts and foreign operations keep every request in order.
LEMMA OtherCallsOK ==
  ASSUME IInv,
         \/ \E r \in Requests : resource_action_foreign(r) \/ method_call_tmo(r)
         \/ \E a \in Agents, r \in Requests, ok \in BOOLEAN : method_event(a, r, ok)
  PROVE  /\ ReqOK' /\ \A p \in Requests : req[p].queued => req'[p].queued
         /\ UNCHANGED <<m, bus>>
<1>1. ASSUME NEW r \in Requests, NEW y, req' = [req EXCEPT ![r] = y], ROK(y),
             req[r].queued => y.queued
      PROVE  ReqOK' /\ \A p \in Requests : req[p].queued => req'[p].queued
  BY <1>1 DEF IInv, ReqOK, ROK
<1>2. CASE \E r \in Requests : resource_action_foreign(r)
  <2> PICK r \in Requests : resource_action_foreign(r)
    BY <1>2
  <2> DEFINE out == [a \in Agents |-> 0]
             y == [NoRequest EXCEPT !.state = "COMPLETED"]
  <2>1. NoRequest = [state |-> "NONE", queued |-> FALSE, refs |-> 0,
                     timers |-> 0, out |-> out, op |-> 0, misused |-> FALSE]
    BY DEF NoRequest
  <2>2. out \in [Agents -> Nat] /\ \A a \in Agents : out[a] = 0
    OBVIOUS
  <2> HIDE DEF out
  <2>3. /\ y \in QType /\ y.state = "COMPLETED" /\ y.timers = 0 /\ y.refs = 0
        /\ y.out = out /\ ~y.misused
    <3> DEFINE n == NoRequest
    <3>1. /\ n \in QType /\ n.timers = 0 /\ n.refs = 0 /\ n.out = out
          /\ ~n.misused
      BY <2>1, <2>2 DEF QType
    <3> HIDE DEF n
    <3>2. y = [n EXCEPT !.state = "COMPLETED"]
      BY DEF n
    <3> HIDE DEF y
    <3> QED BY <3>1, <3>2 DEF QType
  <2>4. req' = [req EXCEPT ![r] = y] /\ req[r].state = "NONE"
    BY DEF resource_action_foreign
  <2> HIDE DEF y
  <2>5. ROK(y)
    BY <2>2, <2>3 DEF ROK, Safe, Called
  <2>6. req[r].queued => y.queued
    BY <2>4 DEF IInv, ReqOK, ROK
  <2> QED BY <1>1, <2>4, <2>5, <2>6 DEF resource_action_foreign
<1>3. CASE \E r \in Requests : method_call_tmo(r)
  <2> PICK r \in Requests : method_call_tmo(r)
    BY <1>3
  <2> DEFINE z == IF req[r].state = "COMPLETED" THEN req[r]
                  ELSE method_response(req[r], FALSE)
             y == [unref(z) EXCEPT !.timers = @ - 1]
  <2>1. req' = [req EXCEPT ![r] = y] /\ req[r].timers > 0
    BY DEF method_call_tmo
  <2>2. ROK(y) /\ y.queued = req[r].queued
    BY <2>1, TimeoutOK DEF IInv, ReqOK
  <2> HIDE DEF y
  <2> QED BY <1>1, <2>1, <2>2 DEF method_call_tmo
<1>4. CASE \E a \in Agents, r \in Requests, ok \in BOOLEAN : method_event(a, r, ok)
  <2> PICK a \in Agents, r \in Requests, ok \in BOOLEAN : method_event(a, r, ok)
    BY <1>4
  <2> DEFINE z == IF ok /\ req[r].state # "RUNNING" THEN req[r]
                  ELSE method_response(req[r], ok)
             y == [unref(z) EXCEPT !.out[a] = @ - 1]
  <2>1. req' = [req EXCEPT ![r] = y] /\ req[r].out[a] > 0
    BY DEF method_event
  <2>2. ROK(y) /\ y.queued = req[r].queued
    BY <2>1, AnswerOK DEF IInv, ReqOK
  <2> HIDE DEF y
  <2> QED BY <1>1, <2>1, <2>2 DEF method_event
<1> QED BY <1>2, <1>3, <1>4

\* A step of the node's part leaves the requests alone.
LEMMA NodeStepOK ==
  ASSUME IInv, Up,
         \/ instance_state_active \/ instance_state_pending
         \/ silence \/ heartbeat_check_tmo
         \/ \E a \in Agents : \/ agent_add(a) \/ unknown_request(a)
                              \/ heartbeat(a) \/ heartbeat_lost(a)
  PROVE  /\ MOK(m', bus'.known) /\ BusOK' /\ m'.null_call = m.null_call
         /\ UNCHANGED req
         /\ m.node = "RUNNING" /\ m'.node = "FAILED" => Cause
<1>0. m \in MType /\ MOK(m, bus.known) /\ BusOK
  BY DEF IInv, MOK
<1>1. CASE instance_state_active \/ instance_state_pending \/ silence
  <2>1. MOK(m', bus.known) /\ (m'.node = "FAILED" => m'.node = m.node)
    BY <1>0, <1>1, QuietStepOK
  <2>2. UNCHANGED <<req, bus>> /\ m'.null_call = m.null_call
    BY <1>0, <1>1
       DEF instance_state_active, instance_state_pending, silence, MType
  <2> QED BY <1>0, <2>1, <2>2 DEF BusOK
<1>2. CASE heartbeat_check_tmo
  <2>1. MOK(m', bus.known) /\ SameRest(m, m') /\ KeepsRunning(m, m')
    BY <1>0, <1>2, CheckTimerOK
  <2>2. UNCHANGED <<req, bus>>
    BY <1>2 DEF heartbeat_check_tmo
  <2> QED BY <1>0, <2>1, <2>2 DEF BusOK, SameRest, KeepsRunning, Cause
<1>3. CASE \E a \in Agents : agent_add(a)
  <2> PICK a \in Agents : agent_add(a)
    BY <1>3
  <2>1. /\ MOK(m', bus'.known) /\ bus' \in BusType /\ SameRest(m, m')
        /\ KeepsRunning(m, m')
    BY <1>0, AgentAddOK
  <2>2. UNCHANGED req
    BY DEF agent_add
  <2> QED BY <2>1, <2>2 DEF BusOK, SameRest, KeepsRunning, Cause
<1>4. CASE \E a \in Agents : unknown_request(a)
  <2> PICK a \in Agents : unknown_request(a)
    BY <1>4
  <2>1. MOK(m', bus.known) /\ (m'.node = "FAILED" => m'.node = m.node)
    BY <1>0, QuietStepOK
  <2>2. UNCHANGED req /\ m'.null_call = m.null_call
    BY <1>0 DEF unknown_request, MType
  <2>3. bus' \in BusType /\ bus'.known = bus.known
    BY <1>0 DEF unknown_request, BusOK, BusType
  <2> QED BY <2>1, <2>2, <2>3 DEF BusOK
<1>5. CASE \E a \in Agents : heartbeat(a)
  <2> PICK a \in Agents : heartbeat(a)
    BY <1>5
  <2>1. UNCHANGED req
    BY DEF heartbeat
  <2> QED BY <1>0, <2>1, HeartbeatStepOK DEF BusOK
<1>6. CASE \E a \in Agents : heartbeat_lost(a)
  <2> PICK a \in Agents : heartbeat_lost(a)
    BY <1>6
  <2>1. plus_one(bus.sequence[a]) \in 0 .. SeqMod - 1
    BY <1>0, PlusOne DEF BusOK, BusType
  <2>2. bus' \in BusType /\ bus'.known = bus.known /\ UNCHANGED <<m, req>>
    BY <1>0, <2>1 DEF heartbeat_lost, BusOK, BusType
  <2> QED BY <1>0, <2>2 DEF BusOK
<1> QED BY <1>1, <1>2, <1>3, <1>4, <1>5, <1>6

\* Every step keeps the inductive invariant and fails a node only for a cause.
LEMMA NextIInv ==
  ASSUME IInv, [Next]_vars
  PROVE  IInv' /\ (m.node = "RUNNING" /\ m'.node = "FAILED" => Cause)
<1>0. m \in MType /\ MOK(m, bus.known) /\ BusOK /\ ReqOK
  BY DEF IInv, MOK
<1>1. CASE UNCHANGED vars
  BY <1>1 DEF vars, IInv, ReqOK, NullOK, BusOK
<1>2. CASE Up /\ (\/ instance_state_active \/ instance_state_pending
                  \/ silence \/ heartbeat_check_tmo
                  \/ \E a \in Agents : \/ agent_add(a) \/ unknown_request(a)
                                       \/ heartbeat(a) \/ heartbeat_lost(a))
  BY <1>0, <1>2, NodeStepOK DEF IInv, ReqOK, NullOK, Up, Undefined
<1>3. CASE Up /\ \E r \in Requests : resource_action(r)
  <2> PICK r \in Requests : resource_action(r)
    BY <1>3
  <2>1. MOK(m', bus.known) /\ (m'.node = "FAILED" => m'.node = m.node)
    BY <1>0, QuietStepOK
  <2>2. UNCHANGED bus
    BY DEF resource_action
  <2> QED BY <1>0, <2>1, <2>2, ResourceActionOK DEF IInv, NullOK, BusOK
<1>4. CASE Up /\ \E o \in Callable : run_pending_calls(o)
  <2> PICK o \in Callable : run_pending_calls(o)
    BY <1>4
  <2>1. MOK(m', bus.known) /\ (m'.node = "FAILED" => m'.node = m.node)
    BY <1>0, QuietStepOK
  <2>2. UNCHANGED bus
    BY DEF run_pending_calls
  <2> QED BY <1>0, <2>1, <2>2, RunPendingOK DEF IInv, NullOK, BusOK
<1>5. CASE Up /\ (\/ \E r \in Requests : \/ resource_action_foreign(r)
                                         \/ method_call_tmo(r)
                  \/ \E a \in Agents, r \in Requests, ok \in BOOLEAN :
                       method_event(a, r, ok))
  <2>1. /\ ReqOK' /\ UNCHANGED <<m, bus>>
    BY <1>5, OtherCallsOK
  <2>2. ~m.null_call
    BY <1>5 DEF Up, Undefined
  <2> QED BY <1>0, <2>1, <2>2 DEF IInv, NullOK, BusOK
<1>6. CASE Up /\ \E a \in Agents : agent_del(a)
  <2> PICK a \in Agents : agent_del(a)
    BY <1>6
  <2>1. /\ MOK(m', bus'.known) /\ bus' \in BusType /\ m'.node = m.node
        /\ m'.null_call <=> a \in m.unknown
        /\ m'.unknown = m.unknown
        /\ bus'.known = bus.known \ {a}
    BY <1>0, AgentDelOK
  <2>2. NullOK'
    BY <2>1 DEF NullOK
  <2>3. ReqOK'
    <3>1. req' = [r \in Requests |->
             IF req[r].out[a] = 0 THEN req[r]
             ELSE [method_response_n(req[r], req[r].out[a], FALSE)
                     EXCEPT !.out[a] = 0]]
      BY DEF agent_del
    <3>2. ASSUME NEW r \in Requests
          PROVE  ROK(req'[r])
      <4>1. ROK(req[r])
        BY <1>0 DEF ReqOK
      <4>2. CASE req[r].out[a] = 0
        BY <3>1, <4>1, <4>2
      <4>3. CASE req[r].out[a] # 0
        BY <3>1, <4>1, <4>3, CancelOK
      <4> QED BY <4>2, <4>3
    <3> QED BY <3>1, <3>2 DEF ReqOK, ROK
  <2> QED BY <2>1, <2>2, <2>3 DEF IInv, BusOK
<1>7. CASE Stopped
  BY <1>1, <1>7 DEF Stopped
<1>8. Next => Stopped \/ Up
  BY DEF Next, instance_state_active, instance_state_pending, silence,
         heartbeat_check_tmo, agent_add, agent_del, unknown_request, heartbeat,
         heartbeat_lost, resource_action, resource_action_foreign,
         run_pending_calls, method_call_tmo, method_event
<1> QED BY <1>1, <1>2, <1>3, <1>4, <1>5, <1>6, <1>7, <1>8 DEF Next

\* The inductive invariant of the transport holds in every state.
THEOREM Safety == Spec => []IInv
<1>1. IInv /\ [Next]_vars => IInv'
  BY NextIInv
<1> QED BY <1>1, InitIInv, PTL DEF Spec

\* The session is polled or it is not.
LEMMA Polled == Spec => [](polled \in BOOLEAN)
<1>1. Init => polled \in BOOLEAN
  BY DEF Init
<1>2. polled \in BOOLEAN /\ [Next]_vars => (polled \in BOOLEAN)'
  BY DEF Next, vars, Stopped, poll_for_qmf_events, instance_state_active,
         instance_state_pending, silence, heartbeat_check_tmo, agent_add,
         agent_del, unknown_request, heartbeat, heartbeat_lost,
         resource_action, resource_action_foreign, run_pending_calls,
         method_call_tmo, method_event
<1> QED BY <1>1, <1>2, PTL DEF Spec

\* Every variable keeps its type.
THEOREM MatahariTyped == Spec => []TypeOK
<1>1. IInv /\ polled \in BOOLEAN => TypeOK
  BY DEF IInv, MOK, MType, BusOK, BusType, ReqOK, QType, TypeOK
<1> QED BY <1>1, Safety, Polled, PTL

\* No request that was sent when it was made, and no operation of one, is
\* used after it was freed.
THEOREM SentCallsAreSafe == Spec => []SentCallsSafe
<1>1. IInv => SentCallsSafe
  BY DEF IInv, NullOK, ReqOK, ROK, Safe, SentCallsSafe, Undefined
<1> QED BY <1>1, Safety, PTL

\* The timer and the outstanding call of a request each hold a reference.
THEOREM RequestsAreReferenced == Spec => []RequestsReferenced
<1>1. IInv => RequestsReferenced
  <2> SUFFICES ASSUME IInv, NEW r \in Requests, ~req[r].queued
               PROVE  req[r].refs >= req[r].timers +
                        (IF \E a \in Agents : req[r].out[a] > 0 THEN 1 ELSE 0)
    BY DEF RequestsReferenced
  <2>1. Safe(req[r]) /\ req[r] \in QType
    BY DEF IInv, ReqOK, ROK
  <2> QED BY <2>1 DEF Safe, Called, QType
<1> QED BY <1>1, Safety, PTL

\* An object never points at an agent that is gone.
THEOREM AgentPointersAreValid == Spec => []AgentPointersValid
<1>1. IInv => AgentPointersValid
  <2> SUFFICES ASSUME IInv
               PROVE  AgentPointersValid
    OBVIOUS
  <2>1. m \in MType /\ Pointers(m, bus.known) /\ Attached(m, Objects)
    BY DEF IInv, MOK
  <2> QED BY <2>1 DEF Pointers, Attached, AgentPointersValid, MType
<1> QED BY <1>1, Safety, PTL

\* A RUNNING node has a good heartbeat, and a timer that will check it.
THEOREM RunningNodesAreChecked == Spec => []RunningIsChecked
<1>1. IInv => RunningIsChecked
  BY DEF IInv, MOK, HeartbeatOK, Watched, RunningIsChecked
<1> QED BY <1>1, Safety, PTL

\* check_state fails a RUNNING node only after silence, or for a heartbeat
\* that is not the successor of the last one.
THEOREM FailuresHaveCauses == Spec => FailureHasCause
<1>1. IInv /\ [Next]_vars =>
        [m.node = "RUNNING" /\ m'.node = "FAILED" => Cause]_vars
  BY NextIInv
<1>2. IInv /\ [Next]_vars =>
        [m.node = "RUNNING" /\ m'.node = "FAILED" =>
           \/ m.late
           \/ \E a \in bus.known :
                /\ bus'.sequence[a] # bus.sequence[a]
                /\ bus.sequence[a] # plus_one(m.last_sequence)]_vars
  BY <1>1 DEF Cause
<1> QED BY <1>2, Safety, PTL DEF Spec, FailureHasCause
=============================================================================

--------------------------- MODULE AssemblyProofs ---------------------------
(***************************************************************************)
(* Proofs about the session and the operation queue of an assembly, and    *)
(* that they implement module Transport, for every set of operations,      *)
(* every choice of node recovery and every combination of outside failures.*)
(***************************************************************************)
EXTENDS Assembly, Queues, TLAPS

(***************************************************************************)
(* What each function of trans_ssh.c does to the fields of the transport.  *)
(***************************************************************************)

TRec == [ssh_state : SshState, queue : Seq(Op), opened : BOOLEAN,
         scheduled : BOOLEAN, op_timers : SUBSET Op,
         healthcheck_timer : BOOLEAN, keepalive_timer : BOOLEAN,
         jobs : [Job -> Nat]]

DriverJob == {"my_instance_state_get", "connect_execute",
              "ssh_assembly_connect"}

SameDrivers(x, y) == \A j \in DriverJob : y.jobs[j] = x.jobs[j]

SameTimers(x, y) ==
  /\ y.healthcheck_timer = x.healthcheck_timer
  /\ y.keepalive_timer = x.keepalive_timer

\* No operation is in the loop.
NoExec(x) == \A op \in Op : x.jobs[op] = 0

\* The only operation in the loop is the scheduled head.
HeadExec(x) ==
  \A op \in Op : x.jobs[op] > 0 =>
    x.jobs[op] = 1 /\ x.scheduled /\ x.queue # <<>> /\ op = Head(x.queue)

QueueOK(x) == x.op_timers = Range(x.queue) /\ IsInjective(x.queue)

ExecOK(x) ==
  /\ x.scheduled <=> x.queue # <<>>
  /\ HeadExec(x)
  /\ "open_fail" \notin Faults /\ x.queue # <<>> => x.jobs[Head(x.queue)] = 1

Idle(x) ==
  /\ x.queue = <<>> /\ ~x.scheduled /\ x.op_timers = {}
  /\ ~x.healthcheck_timer /\ ~x.keepalive_timer
  /\ NoExec(x)

\* The jobs that connect an assembly are none of its operations.
LEMMA JobsDistinct ==
  /\ DriverJob \subseteq Job /\ Op \subseteq Job
  /\ \A j \in DriverJob : \A op \in Op : j # op
  /\ "uptime" \in Op /\ ResourceOps \subseteq Op
BY AssemblyConstantsOK DEF DriverJob, Job, Op

\* qb_loop_job_add touches one job count.
LEMMA JobAdd ==
  ASSUME NEW x \in TRec, NEW j \in Job
  PROVE  /\ job_add(x, j) \in TRec
         /\ \A k \in Job : job_add(x, j).jobs[k] =
              IF k = j THEN x.jobs[k] + 1 ELSE x.jobs[k]
         /\ job_add(x, j).ssh_state = x.ssh_state
         /\ job_add(x, j).queue = x.queue
         /\ job_add(x, j).scheduled = x.scheduled
         /\ job_add(x, j).op_timers = x.op_timers
         /\ SameTimers(x, job_add(x, j))
<1> DEFINE c == [x.jobs EXCEPT ![j] = x.jobs[j] + 1]
<1>1. x.jobs \in [Job -> Nat]
  BY DEF TRec
<1>2. c \in [Job -> Nat]
  BY <1>1
<1>3. \A k \in Job : c[k] = IF k = j THEN x.jobs[k] + 1 ELSE x.jobs[k]
  BY <1>1
<1>4. job_add(x, j) = [x EXCEPT !.jobs = c]
  BY DEF job_add
<1> HIDE DEF c
<1> QED
  BY <1>2, <1>3, <1>4 DEF TRec, SameTimers

\* qb_loop_job_del touches one job count.
LEMMA JobDel ==
  ASSUME NEW x \in TRec, NEW j \in Job
  PROVE  /\ job_del(x, j) \in TRec
         /\ \A k \in Job : job_del(x, j).jobs[k] =
              IF k = j /\ x.jobs[k] > 0 THEN x.jobs[k] - 1 ELSE x.jobs[k]
         /\ job_del(x, j).ssh_state = x.ssh_state
         /\ job_del(x, j).queue = x.queue
         /\ job_del(x, j).scheduled = x.scheduled
         /\ job_del(x, j).op_timers = x.op_timers
         /\ SameTimers(x, job_del(x, j))
<1> DEFINE c == [x.jobs EXCEPT ![j] = IF x.jobs[j] > 0 THEN x.jobs[j] - 1 ELSE 0]
<1>1. x.jobs \in [Job -> Nat]
  BY DEF TRec
<1>2. c \in [Job -> Nat]
  BY <1>1
<1>3. \A k \in Job : c[k] =
        IF k = j /\ x.jobs[k] > 0 THEN x.jobs[k] - 1 ELSE x.jobs[k]
  BY <1>1
<1>4. job_del(x, j) = [x EXCEPT !.jobs = c]
  BY DEF job_del
<1> HIDE DEF c
<1> QED
  BY <1>2, <1>3, <1>4 DEF TRec, SameTimers

\* transport_schedule starts the head of a queue none of which executes.
LEMMA Schedule ==
  ASSUME NEW x \in TRec, QueueOK(x), NoExec(x)
  PROVE  LET y == transport_schedule(x) IN
         /\ y \in TRec /\ ExecOK(y) /\ QueueOK(y)
         /\ y.ssh_state = x.ssh_state /\ y.queue = x.queue
         /\ SameDrivers(x, y) /\ SameTimers(x, y)
<1> DEFINE z == [x EXCEPT !.scheduled = TRUE]
<1>1. CASE x.queue # <<>>
  <2>1. /\ z \in TRec /\ z.queue = x.queue /\ z.jobs = x.jobs /\ z.scheduled
        /\ z.op_timers = x.op_timers /\ z.ssh_state = x.ssh_state
        /\ SameTimers(x, z)
    BY DEF TRec, SameTimers
  <2>2. Head(x.queue) \in Op /\ Head(x.queue) \in Job
    BY <1>1, JobsDistinct DEF TRec
  <2> DEFINE y == job_add(z, Head(x.queue))
  <2>3. transport_schedule(x) = y
    BY <1>1 DEF transport_schedule
  <2> HIDE DEF z
  <2>4. /\ y \in TRec
        /\ \A k \in Job : y.jobs[k] =
              IF k = Head(x.queue) THEN x.jobs[k] + 1 ELSE x.jobs[k]
        /\ y.ssh_state = x.ssh_state /\ y.queue = x.queue /\ y.scheduled
        /\ y.op_timers = x.op_timers /\ SameTimers(x, y)
    BY <2>1, <2>2, JobAdd DEF SameTimers
  <2> HIDE DEF y
  <2>5. y.jobs[Head(x.queue)] = 1 /\ HeadExec(y)
    BY <1>1, <2>2, <2>4, JobsDistinct DEF HeadExec, NoExec
  <2>6. SameDrivers(x, y)
    BY <2>2, <2>4, JobsDistinct DEF SameDrivers
  <2> QED
    BY <1>1, <2>3, <2>4, <2>5, <2>6 DEF ExecOK, QueueOK
<1>2. CASE x.queue = <<>>
  <2> DEFINE y == [x EXCEPT !.scheduled = FALSE]
  <2>1. /\ y \in TRec /\ y.queue = x.queue /\ y.jobs = x.jobs /\ ~y.scheduled
        /\ y.op_timers = x.op_timers /\ y.ssh_state = x.ssh_state
        /\ SameTimers(x, y)
    BY DEF TRec, SameTimers
  <2>2. transport_schedule(x) = y
    BY <1>2 DEF transport_schedule
  <2> HIDE DEF y
  <2> QED
    BY <1>2, <2>1, <2>2 DEF ExecOK, HeadExec, QueueOK, NoExec, SameDrivers
<1> QED
  BY <1>1, <1>2

\* ssh_timeout and transport_disconnect first take the head out of the loop,
\* then drop the whole queue.
LEMMA Drop ==
  ASSUME NEW x \in TRec, QueueOK(x), HeadExec(x)
  PROVE  LET y == ssh_ops_drop(transport_unschedule(x)) IN
         /\ y \in TRec /\ QueueOK(y) /\ NoExec(y)
         /\ y.queue = <<>> /\ ~y.scheduled /\ y.op_timers = {}
         /\ y.ssh_state = x.ssh_state
         /\ SameDrivers(x, y) /\ SameTimers(x, y)
<1> DEFINE z == [x EXCEPT !.scheduled = FALSE]
           u == transport_unschedule(x)
           y == ssh_ops_drop(u)
<1>1. /\ z \in TRec /\ z.queue = x.queue /\ z.jobs = x.jobs /\ ~z.scheduled
      /\ z.op_timers = x.op_timers /\ z.ssh_state = x.ssh_state
      /\ SameTimers(x, z)
  BY DEF TRec, SameTimers
<1>2. /\ u \in TRec /\ u.queue = x.queue /\ ~u.scheduled /\ NoExec(u)
      /\ u.op_timers = x.op_timers /\ u.ssh_state = x.ssh_state
      /\ SameTimers(x, u) /\ SameDrivers(x, u)
  <2>1. CASE x.scheduled /\ x.queue # <<>>
    <3>1. Head(x.queue) \in Op /\ Head(x.queue) \in Job
      BY <2>1, JobsDistinct DEF TRec
    <3>2. u = job_del(z, Head(x.queue))
      BY <2>1 DEF transport_unschedule
    <3> HIDE DEF z, u
    <3>3. /\ u \in TRec /\ u.queue = x.queue /\ ~u.scheduled
          /\ u.op_timers = x.op_timers /\ u.ssh_state = x.ssh_state
          /\ SameTimers(x, u)
          /\ \A k \in Job : u.jobs[k] =
               IF k = Head(x.queue) /\ x.jobs[k] > 0
               THEN x.jobs[k] - 1 ELSE x.jobs[k]
      BY <1>1, <3>1, <3>2, JobDel DEF SameTimers
    <3>4. NoExec(u)
      <4> SUFFICES ASSUME NEW op \in Op PROVE u.jobs[op] = 0
        BY DEF NoExec
      <4>1. x.jobs[op] \in Nat /\ op \in Job
        BY JobsDistinct DEF TRec
      <4> QED
        BY <3>3, <4>1 DEF HeadExec
    <3>5. SameDrivers(x, u)
      BY <3>1, <3>3, JobsDistinct DEF SameDrivers
    <3> QED
      BY <3>3, <3>4, <3>5
  <2>2. CASE ~(x.scheduled /\ x.queue # <<>>)
    <3>1. u = z
      BY <2>2 DEF transport_unschedule
    <3> HIDE DEF z, u
    <3>2. NoExec(u)
      <4> SUFFICES ASSUME NEW op \in Op PROVE u.jobs[op] = 0
        BY DEF NoExec
      <4>1. x.jobs[op] \in Nat
        BY JobsDistinct DEF TRec
      <4> QED
        BY <1>1, <2>2, <3>1, <4>1 DEF HeadExec
    <3> QED
      BY <1>1, <3>1, <3>2 DEF SameDrivers
  <2> QED
    BY <2>1, <2>2
<1> HIDE DEF z, u
<1>3. /\ y \in TRec /\ y.queue = <<>> /\ y.scheduled = u.scheduled
      /\ y.op_timers = u.op_timers \ Range(u.queue)
      /\ y.ssh_state = u.ssh_state /\ y.jobs = u.jobs /\ SameTimers(u, y)
  <2>1. u.op_timers \ Range(u.queue) \in SUBSET Op /\ <<>> \in Seq(Op)
    BY <1>2 DEF TRec
  <2>2. y = [u EXCEPT !.queue = <<>>, !.op_timers = u.op_timers \ Range(u.queue),
                      !.opened = FALSE]
    BY DEF ssh_ops_drop
  <2> QED
    BY <1>2, <2>1, <2>2 DEF TRec, SameTimers
<1> HIDE DEF y
<1>4. y.op_timers = {}
  BY <1>2, <1>3 DEF QueueOK
<1>5. QueueOK(y)
  BY <1>3, <1>4 DEF QueueOK, Range, IsInjective
<1> QED
  BY <1>2, <1>3, <1>4, <1>5 DEF NoExec, SameTimers, SameDrivers, u, y

\* transport_execute queues a new operation behind the ones that wait.
LEMMA Execute ==
  ASSUME NEW x \in TRec, QueueOK(x), ExecOK(x), x.ssh_state = "CONNECTED",
         NEW op \in Op, op \notin Range(x.queue)
  PROVE  LET y == transport_execute(x, op) IN
         /\ y \in TRec /\ QueueOK(y) /\ ExecOK(y)
         /\ y.ssh_state = x.ssh_state
         /\ Range(y.queue) = Range(x.queue) \cup {op}
         /\ SameDrivers(x, y) /\ SameTimers(x, y)
<1> DEFINE z == [x EXCEPT !.queue = Append(x.queue, op),
                          !.op_timers = x.op_timers \cup {op}]
           y == transport_execute(x, op)
<1>1. y = IF z.scheduled THEN z ELSE transport_schedule(z)
  BY DEF transport_execute
<1>2. /\ Append(x.queue, op) \in Seq(Op) /\ x.op_timers \cup {op} \in SUBSET Op
      /\ x.queue \in Seq(Op)
  BY DEF TRec
<1>3. /\ z \in TRec /\ z.queue = Append(x.queue, op) /\ z.jobs = x.jobs
      /\ z.scheduled = x.scheduled /\ z.op_timers = x.op_timers \cup {op}
      /\ z.ssh_state = x.ssh_state /\ SameTimers(x, z)
  BY <1>2 DEF TRec, SameTimers
<1> HIDE DEF z, y
<1>4. /\ QueueOK(z) /\ z.queue # <<>>
      /\ Range(z.queue) = Range(x.queue) \cup {op}
      /\ x.queue # <<>> => Head(z.queue) = Head(x.queue)
  BY <1>2, <1>3, RangeAppend DEF QueueOK
<1>5. CASE x.scheduled
  <2>1. ExecOK(z)
    BY <1>3, <1>4, <1>5 DEF ExecOK, HeadExec
  <2> QED
    BY <1>1, <1>3, <1>4, <1>5, <2>1 DEF SameDrivers, y
<1>6. CASE ~x.scheduled
  <2>1. NoExec(z)
    <3> SUFFICES ASSUME NEW o \in Op PROVE z.jobs[o] = 0
      BY DEF NoExec
    <3>1. x.jobs[o] \in Nat
      BY JobsDistinct DEF TRec
    <3> QED
      BY <1>3, <1>6, <3>1 DEF ExecOK, HeadExec
  <2>2. y = transport_schedule(z)
    BY <1>1, <1>3, <1>6
  <2>3. /\ y \in TRec /\ ExecOK(y) /\ QueueOK(y)
        /\ y.ssh_state = z.ssh_state /\ y.queue = z.queue
        /\ SameDrivers(z, y) /\ SameTimers(z, y)
    BY <1>3, <1>4, <2>1, <2>2, Schedule
  <2> QED
    BY <1>3, <1>4, <2>3 DEF SameDrivers, SameTimers, y
<1> QED
  BY <1>3, <1>5, <1>6 DEF TRec

\* ssh_op_complete takes the executed head off the queue; no other operation
\* is in the loop.
LEMMA Complete ==
  ASSUME NEW x \in TRec, QueueOK(x), ExecOK(x),
         NEW op \in Op, x.jobs[op] > 0
  PROVE  LET y == ssh_op_remove(job_del(x, op)) IN
         /\ y \in TRec /\ QueueOK(y) /\ NoExec(y) /\ y.scheduled
         /\ y.ssh_state = x.ssh_state
         /\ op \in Range(x.queue) /\ Range(y.queue) = Range(x.queue) \ {op}
         /\ SameDrivers(x, y) /\ SameTimers(x, y)
<1> DEFINE d == job_del(x, op)
           y == ssh_op_remove(d)
<1>1. x.queue # <<>> /\ op = Head(x.queue) /\ x.scheduled /\ x.jobs[op] = 1
  BY DEF ExecOK, HeadExec
<1>2. /\ d \in TRec /\ d.queue = x.queue /\ d.scheduled = x.scheduled
      /\ d.op_timers = x.op_timers /\ d.ssh_state = x.ssh_state
      /\ SameTimers(x, d)
      /\ \A k \in Job : d.jobs[k] =
           IF k = op /\ x.jobs[k] > 0 THEN x.jobs[k] - 1 ELSE x.jobs[k]
  BY JobDel, JobsDistinct
<1>3. NoExec(d)
  <2> SUFFICES ASSUME NEW o \in Op PROVE d.jobs[o] = 0
    BY DEF NoExec
  <2>1. x.jobs[o] \in Nat /\ o \in Job
    BY JobsDistinct DEF TRec
  <2> QED
    BY <1>1, <1>2, <2>1 DEF ExecOK, HeadExec
<1>4. SameDrivers(x, d)
  BY <1>2, JobsDistinct DEF SameDrivers
<1> HIDE DEF d
<1>5. /\ d.queue \in Seq(Op) /\ Tail(d.queue) \in Seq(Op)
      /\ d.op_timers \ {Head(d.queue)} \in SUBSET Op
  BY <1>1, <1>2 DEF TRec
<1>6. y = [d EXCEPT !.queue = Tail(d.queue),
                    !.op_timers = d.op_timers \ {Head(d.queue)}, !.opened = FALSE]
  BY DEF ssh_op_remove
<1>7. /\ y \in TRec /\ y.queue = Tail(d.queue) /\ y.jobs = d.jobs
      /\ y.scheduled = d.scheduled
      /\ y.op_timers = d.op_timers \ {Head(d.queue)}
      /\ y.ssh_state = d.ssh_state /\ SameTimers(d, y)
  BY <1>2, <1>5, <1>6 DEF TRec, SameTimers
<1> HIDE DEF y
<1>8. /\ Range(y.queue) = Range(x.queue) \ {op} /\ op \in Range(x.queue)
      /\ IsInjective(y.queue)
  BY <1>1, <1>2, <1>5, <1>7, RangeTail DEF QueueOK
<1>9. QueueOK(y)
  BY <1>1, <1>2, <1>7, <1>8 DEF QueueOK
<1>10. NoExec(y) /\ SameTimers(x, y) /\ SameDrivers(x, y)
  BY <1>2, <1>3, <1>4, <1>7 DEF NoExec, SameTimers, SameDrivers
<1>11. y = ssh_op_remove(job_del(x, op))
  BY DEF y, d
<1> QED
  BY <1>1, <1>2, <1>7, <1>8, <1>9, <1>10, <1>11

\* transport_disconnect of a connected session leaves nothing in the loop but
\* jobs that do not belong to the session.
LEMMA Disconnect ==
  ASSUME NEW x \in TRec, QueueOK(x), HeadExec(x), x.ssh_state = "CONNECTED",
         x.jobs["ssh_assembly_connect"] = 0
  PROVE  LET y == transport_disconnect(x) IN
         /\ y \in TRec /\ QueueOK(y) /\ Idle(y)
         /\ y.ssh_state = "FREED" /\ SameDrivers(x, y)
<1> DEFINE a == [x EXCEPT !.healthcheck_timer = FALSE]
           d == ssh_ops_drop(transport_unschedule(a))
           e == transport_failed(d)
           f == job_del(e, "ssh_assembly_connect")
           y == [f EXCEPT !.ssh_state = "FREED"]
<1>1. transport_disconnect(x) = y
  BY DEF transport_disconnect
<1>2. /\ a \in TRec /\ a.queue = x.queue /\ a.jobs = x.jobs
      /\ a.scheduled = x.scheduled /\ a.op_timers = x.op_timers
      /\ a.ssh_state = x.ssh_state /\ ~a.healthcheck_timer
  BY DEF TRec
<1> HIDE DEF a
<1>3. QueueOK(a) /\ HeadExec(a)
  BY <1>2 DEF QueueOK, HeadExec
<1>4. /\ d \in TRec /\ QueueOK(d) /\ NoExec(d)
      /\ d.queue = <<>> /\ ~d.scheduled /\ d.op_timers = {}
      /\ SameDrivers(a, d) /\ ~d.healthcheck_timer
  BY <1>2, <1>3, Drop DEF SameTimers
<1> HIDE DEF d
<1>5. /\ e \in TRec /\ e.queue = d.queue /\ e.jobs = d.jobs
      /\ e.scheduled = d.scheduled /\ e.op_timers = d.op_timers
      /\ ~e.healthcheck_timer /\ ~e.keepalive_timer
  BY <1>4 DEF transport_failed, TRec
<1> HIDE DEF e
<1>6. e.jobs["ssh_assembly_connect"] = 0
  BY <1>2, <1>4, <1>5 DEF SameDrivers, DriverJob
<1>7. /\ f \in TRec /\ f.queue = e.queue /\ f.scheduled = e.scheduled
      /\ f.op_timers = e.op_timers
      /\ ~f.healthcheck_timer /\ ~f.keepalive_timer
      /\ \A k \in Job : f.jobs[k] = e.jobs[k]
  <2>1. "ssh_assembly_connect" \in Job
    BY DEF Job
  <2> QED
    BY <1>5, <1>6, <2>1, JobDel DEF SameTimers
<1> HIDE DEF f
<1>8. /\ y \in TRec /\ y.queue = f.queue /\ y.jobs = f.jobs
      /\ y.scheduled = f.scheduled /\ y.op_timers = f.op_timers
      /\ ~y.healthcheck_timer /\ ~y.keepalive_timer /\ y.ssh_state = "FREED"
  BY <1>7 DEF TRec, SshState
<1> HIDE DEF y
<1>9. NoExec(y) /\ SameDrivers(x, y)
  BY <1>2, <1>4, <1>5, <1>7, <1>8, JobsDistinct DEF NoExec, SameDrivers
<1>10. QueueOK(y)
  BY <1>4, <1>5, <1>7, <1>8 DEF QueueOK
<1> QED
  BY <1>1, <1>4, <1>5, <1>7, <1>8, <1>9, <1>10 DEF Idle

(***************************************************************************)
(* The inductive invariant. Beyond the properties of Assembly it says that *)
(* a health check is never due while one is queued, also on a node that is *)
(* not RUNNING: assembly_healthcheck would queue it twice.                 *)
(***************************************************************************)

DriverCount(x) ==
  x.jobs["my_instance_state_get"] + x.jobs["connect_execute"]
    + x.jobs["ssh_assembly_connect"]
    + (IF x.ssh_state = "CONNECTED" THEN 1 ELSE 0)

DriversOK(x) ==
  /\ x.jobs["my_instance_state_get"] > 0 => x.ssh_state \in {"NULL", "FREED"}
  /\ x.jobs["connect_execute"] > 0 => x.ssh_state = "CONNECTING"
  /\ x.jobs["ssh_assembly_connect"] > 0 =>
       x.ssh_state \in {"INIT", "STARTUP", "USERAUTH"}
  /\ DriverCount(x) <= 1
  /\ {"iaas_noreply", "startup_fail"} \cap Faults = {} => DriverCount(x) = 1

UpInv(n, x) ==
  /\ ExecOK(x)
  /\ DriversOK(x)
  /\ x.ssh_state # "CONNECTED" => Idle(x)
  /\ x.healthcheck_timer => "uptime" \notin Range(x.queue)
  /\ n = "RUNNING" =>
       /\ x.ssh_state = "CONNECTED"
       /\ "uptime" \notin Range(x.queue) => x.healthcheck_timer

Inv ==
  /\ TypeOK
  /\ QueueOK(t)
  /\ process = "up" => UpInv(node, t)

\* The invariant implies the properties of Assembly.
LEMMA InvImplies ==
  Inv => /\ OneDriver /\ CallbacksMatchSession /\ OneExecution
         /\ TimersMatchQueue /\ RunningIsWatched
<1> SUFFICES ASSUME Inv
             PROVE  /\ OneDriver /\ CallbacksMatchSession /\ OneExecution
                    /\ TimersMatchQueue /\ RunningIsWatched
  OBVIOUS
<1>1. TimersMatchQueue
  BY DEF Inv, QueueOK, TimersMatchQueue
<1>2. CASE process # "up"
  BY <1>1, <1>2 DEF OneDriver, CallbacksMatchSession, OneExecution, RunningIsWatched
<1>3. CASE process = "up"
  <2>1. UpInv(node, t)
    BY <1>3 DEF Inv
  <2>2. OneDriver
    BY <2>1 DEF OneDriver, UpInv, DriversOK, DriverCount, Drivers
  <2>3. CallbacksMatchSession
    BY <2>1 DEF CallbacksMatchSession, UpInv, DriversOK, Idle, NoExec
  <2>4. OneExecution
    BY <2>1 DEF OneExecution, UpInv, ExecOK, HeadExec
  <2>5. RunningIsWatched
    BY <2>1 DEF RunningIsWatched, UpInv
  <2> QED
    BY <1>1, <2>2, <2>3, <2>4, <2>5
<1> QED
  BY <1>2, <1>3

\* Facts about a connected transport and its drivers.
LEMMA ConnectedDrivers ==
  ASSUME NEW x \in TRec, DriversOK(x), x.ssh_state = "CONNECTED"
  PROVE  \A j \in DriverJob : x.jobs[j] = 0
<1>1. \A j \in DriverJob : x.jobs[j] \in Nat
  BY JobsDistinct DEF TRec
<1> QED
  BY <1>1 DEF DriversOK, DriverJob

\* A step that keeps session state and driver jobs keeps DriversOK.
LEMMA DriversKept ==
  ASSUME NEW x \in TRec, NEW y \in TRec, DriversOK(x),
         SameDrivers(x, y), y.ssh_state = x.ssh_state
  PROVE  DriversOK(y)
BY DEF DriversOK, DriverCount, SameDrivers, DriverJob

\* The loop of a session that is not connected holds no operation.
LEMMA IdleOK ==
  ASSUME NEW x \in TRec, Idle(x)
  PROVE  QueueOK(x) /\ ExecOK(x) /\ "uptime" \notin Range(x.queue)
BY DEF Idle, QueueOK, ExecOK, HeadExec, NoExec, Range, IsInjective

\* node_recover_restart starts one poll of the cloud and nothing else.
LEMMA Restart ==
  ASSUME NEW x \in TRec, QueueOK(x), HeadExec(x), DriversOK(x),
         x.ssh_state = "CONNECTED"
  PROVE  LET y == node_recover_restart(x) IN
         /\ y \in TRec /\ QueueOK(y) /\ UpInv("FAILED", y)
         /\ y.ssh_state = "FREED" /\ y.queue = <<>>
<1> DEFINE d == transport_disconnect(x)
           y == job_add(d, "my_instance_state_get")
<1>1. \A j \in DriverJob : x.jobs[j] = 0
  BY ConnectedDrivers
<1>2. /\ d \in TRec /\ Idle(d) /\ d.ssh_state = "FREED"
      /\ \A j \in DriverJob : d.jobs[j] = 0
  BY <1>1, Disconnect DEF SameDrivers, DriverJob
<1> HIDE DEF d
<1>3. "my_instance_state_get" \in Job
  BY DEF Job
<1>4. /\ y \in TRec /\ y.ssh_state = "FREED"
      /\ y.queue = d.queue /\ y.scheduled = d.scheduled
      /\ y.op_timers = d.op_timers /\ SameTimers(d, y)
      /\ \A k \in Job : y.jobs[k] =
           IF k = "my_instance_state_get" THEN d.jobs[k] + 1 ELSE d.jobs[k]
  BY <1>2, <1>3, JobAdd
<1> HIDE DEF y
<1>5. Idle(y)
  BY <1>2, <1>4, JobsDistinct DEF Idle, NoExec, SameTimers, DriverJob
<1>6. DriversOK(y)
  BY <1>2, <1>4, JobsDistinct DEF DriversOK, DriverCount, DriverJob
<1>7. QueueOK(y) /\ UpInv("FAILED", y)
  BY <1>4, <1>5, <1>6, IdleOK DEF UpInv, Idle
<1>8. y.queue = <<>>
  BY <1>5 DEF Idle
<1> QED
  BY <1>4, <1>7, <1>8 DEF node_recover_restart, d, y

\* assembly_create leaves one job, the poll of the new instance.
LEMMA InitInv == Init => Inv
<1> SUFFICES ASSUME Init PROVE Inv
  OBVIOUS
<1>1. /\ NoTransport \in TRec /\ Idle(NoTransport)
      /\ NoTransport.ssh_state = "NULL"
      /\ \A k \in Job : NoTransport.jobs[k] = 0
  BY JobsDistinct DEF NoTransport, TRec, Idle, NoExec, SshState
<1>2. "my_instance_state_get" \in Job
  BY DEF Job
<1>3. /\ t \in TRec /\ t.ssh_state = "NULL"
      /\ t.queue = NoTransport.queue /\ t.scheduled = NoTransport.scheduled
      /\ t.op_timers = NoTransport.op_timers /\ SameTimers(NoTransport, t)
      /\ \A k \in Job : t.jobs[k] = IF k = "my_instance_state_get" THEN 1 ELSE 0
  BY <1>1, <1>2, JobAdd DEF Init
<1>4. Idle(t)
  BY <1>1, <1>3, JobsDistinct DEF Idle, NoExec, SameTimers, DriverJob
<1>5. DriversOK(t)
  BY <1>3, JobsDistinct DEF DriversOK, DriverCount, DriverJob
<1>6. QueueOK(t) /\ UpInv(node, t)
  BY <1>3, <1>4, <1>5, IdleOK DEF UpInv, Idle, Init
<1>7. TypeOK
  BY <1>3 DEF Init, TypeOK, TRec
<1> QED
  BY <1>6, <1>7 DEF Inv

\* A step that leaves the process up or stopped and the transport in order.
LEMMA StepOK ==
  ASSUME node' \in {"UNKNOWN", "RUNNING", "FAILED"}, t' \in TRec,
         vm' \in {"none", "build", "up", "down"},
         process' \in {"up", "aborted", "exited"},
         QueueOK(t'), process' = "up" => UpInv(node', t')
  PROVE  Inv'
<1>1. TypeOK'
  BY DEF TypeOK, TRec
<1> QED
  BY <1>1 DEF Inv, QueueOK, UpInv, ExecOK, HeadExec, DriversOK, DriverCount,
              Idle, NoExec

\* recover_state_set(FAILED) on the node of a connected session, whether it
\* is answered by restart, by escalate or not at all.
LEMMA NodeFailed ==
  ASSUME Inv, process = "up",
         NEW x \in TRec, QueueOK(x), HeadExec(x), DriversOK(x),
         x.ssh_state = "CONNECTED",
         NEW y \in TRec, QueueOK(y), ExecOK(y), DriversOK(y),
         y.ssh_state = "CONNECTED",
         y.healthcheck_timer => "uptime" \notin Range(y.queue),
         node_failed(x, y), process' \in {"up", "aborted"}
  PROVE  Inv'
<1>1. UpInv("FAILED", y)
  BY DEF UpInv
<1>2. CASE node' = "FAILED" /\ t' = y /\ UNCHANGED vm
  BY <1>1, <1>2, StepOK DEF Inv, TypeOK
<1>3. CASE node' = "FAILED" /\ t' = node_recover_restart(x) /\ vm' \in instance_create
  <2>1. t' \in TRec /\ QueueOK(t') /\ UpInv("FAILED", t')
    BY <1>3, Restart
  <2>2. vm' \in {"none", "build", "up", "down"}
    BY <1>3 DEF instance_create, Inv, TypeOK
  <2> QED
    BY <1>3, <2>1, <2>2, StepOK
<1> QED
  BY <1>2, <1>3 DEF node_failed

\* What the invariant gives a callback that runs.
LEMMA Running ==
  ASSUME Inv, process = "up"
  PROVE  /\ t \in TRec /\ QueueOK(t) /\ ExecOK(t) /\ DriversOK(t)
         /\ HeadExec(t) /\ UpInv(node, t)
         /\ t.ssh_state # "CONNECTED" => Idle(t)
         /\ \A j \in Job : t.jobs[j] \in Nat
         /\ node \in {"UNKNOWN", "RUNNING", "FAILED"}
         /\ vm \in {"none", "build", "up", "down"}
BY DEF Inv, TypeOK, UpInv, ExecOK, TRec

\* The poll of the cloud: inst_ctrl.c.
LEMMA PollStep ==
  ASSUME Inv,
         instance_state_active \/ instance_state_pending \/ instance_state_noreply
  PROVE  Inv'
<1>1. process = "up" /\ t.jobs["my_instance_state_get"] > 0
  BY DEF instance_state_active, instance_state_pending, instance_state_noreply,
         Dispatch
<1> DEFINE d == job_del(t, "my_instance_state_get")
<1>2. "my_instance_state_get" \in Job /\ "connect_execute" \in Job
  BY DEF Job
<1>3. /\ t \in TRec /\ Idle(t) /\ t.ssh_state \in {"NULL", "FREED"}
      /\ node # "RUNNING"
      /\ t.jobs["my_instance_state_get"] = 1
      /\ t.jobs["connect_execute"] = 0 /\ t.jobs["ssh_assembly_connect"] = 0
  <2>1. DriversOK(t) /\ \A j \in Job : t.jobs[j] \in Nat
    BY <1>1, Running
  <2>2. t.ssh_state \in {"NULL", "FREED"}
    BY <1>1, <2>1 DEF DriversOK
  <2>3. Idle(t) /\ node # "RUNNING"
    BY <1>1, <2>2, Running DEF UpInv
  <2>4. "ssh_assembly_connect" \in Job
    BY DEF Job
  <2> QED
    BY <1>1, <1>2, <2>1, <2>2, <2>3, <2>4, Running DEF DriversOK, DriverCount
<1>4. /\ d \in TRec /\ d.ssh_state = t.ssh_state /\ d.queue = t.queue
      /\ d.scheduled = t.scheduled /\ d.op_timers = t.op_timers
      /\ SameTimers(t, d)
      /\ \A k \in Job : d.jobs[k] =
           IF k = "my_instance_state_get" THEN 0 ELSE t.jobs[k]
  BY <1>2, <1>3, JobDel
<1> HIDE DEF d
<1>5. Idle(d)
  BY <1>3, <1>4, JobsDistinct DEF Idle, NoExec, SameTimers
<1>6. CASE instance_state_active
  <2> DEFINE z == [NoTransport EXCEPT !.ssh_state = "CONNECTING", !.jobs = d.jobs]
  <2>1. t' = job_add(z, "connect_execute")
    BY <1>6 DEF instance_state_active, transport_connect, d
  <2>2. z \in TRec /\ z.ssh_state = "CONNECTING" /\ z.jobs = d.jobs /\ Idle(z)
    BY <1>4, <1>5 DEF NoTransport, TRec, SshState, Idle, NoExec
  <2> HIDE DEF z
  <2>3. /\ t' \in TRec /\ t'.ssh_state = "CONNECTING" /\ t'.queue = z.queue
        /\ t'.scheduled = z.scheduled /\ t'.op_timers = z.op_timers
        /\ SameTimers(z, t')
        /\ \A k \in Job : t'.jobs[k] =
             IF k = "connect_execute" THEN d.jobs[k] + 1 ELSE d.jobs[k]
    <3> DEFINE w == job_add(z, "connect_execute")
    <3>1. /\ w \in TRec /\ w.ssh_state = z.ssh_state /\ w.queue = z.queue
          /\ w.scheduled = z.scheduled /\ w.op_timers = z.op_timers
          /\ SameTimers(z, w)
          /\ \A k \in Job : w.jobs[k] =
               IF k = "connect_execute" THEN z.jobs[k] + 1 ELSE z.jobs[k]
      BY <1>2, <2>2, JobAdd
    <3> HIDE DEF w
    <3>2. t' = w
      BY <2>1 DEF w
    <3> QED
      BY <2>2, <3>1, <3>2
  <2>4. Idle(t')
    BY <2>2, <2>3, JobsDistinct DEF Idle, NoExec, SameTimers, DriverJob
  <2>5. DriversOK(t')
    BY <1>3, <1>4, <2>3, JobsDistinct DEF DriversOK, DriverCount, DriverJob
  <2>6. QueueOK(t') /\ UpInv(node, t')
    BY <1>3, <2>3, <2>4, <2>5, IdleOK DEF UpInv, Idle
  <2> QED
    BY <1>1, <1>6, <2>3, <2>6, Running, StepOK DEF instance_state_active
<1>7. CASE instance_state_pending
  <2>1. t' = t /\ node' = "UNKNOWN" /\ UNCHANGED <<vm, process>>
    BY <1>7 DEF instance_state_pending
  <2>2. UpInv("UNKNOWN", t)
    BY <1>1, Running DEF UpInv
  <2> QED
    BY <1>1, <2>1, <2>2, Running, StepOK
<1>8. CASE instance_state_noreply
  <2>1. /\ t' = d /\ UNCHANGED <<node, vm>> /\ process' \in {"up", "aborted"}
        /\ "iaas_noreply" \in Faults
    BY <1>8 DEF instance_state_noreply, d
  <2>2. DriversOK(d)
    BY <1>3, <1>4, <2>1, JobsDistinct DEF DriversOK, DriverCount, DriverJob
  <2>3. QueueOK(d) /\ UpInv(node, d)
    BY <1>3, <1>4, <1>5, <2>2, IdleOK DEF UpInv, Idle
  <2> QED
    BY <1>1, <1>4, <2>1, <2>3, Running, StepOK
<1> QED
  BY <1>6, <1>7, <1>8

\* Connecting and logging in.
LEMMA ConnectStep ==
  ASSUME Inv, connect_execute
  PROVE  Inv'
<1>1. process = "up" /\ t.jobs["connect_execute"] > 0
  BY DEF connect_execute, Dispatch
<1> DEFINE a == [t EXCEPT !.ssh_state = "INIT"]
           b == job_del(a, "connect_execute")
           c == job_add(b, "ssh_assembly_connect")
<1>2. /\ "my_instance_state_get" \in Job /\ "connect_execute" \in Job
      /\ "ssh_assembly_connect" \in Job
  BY DEF Job
<1>3. /\ t \in TRec /\ Idle(t) /\ node # "RUNNING"
      /\ t.jobs["my_instance_state_get"] = 0
      /\ t.jobs["connect_execute"] = 1 /\ t.jobs["ssh_assembly_connect"] = 0
  <2>1. DriversOK(t) /\ \A j \in Job : t.jobs[j] \in Nat
    BY <1>1, Running
  <2>2. t.ssh_state = "CONNECTING"
    BY <1>1, <2>1 DEF DriversOK
  <2>3. Idle(t) /\ node # "RUNNING"
    BY <1>1, <2>2, Running DEF UpInv
  <2> QED
    BY <1>1, <1>2, <2>1, <2>2, <2>3, Running DEF DriversOK, DriverCount
<1>4. /\ a \in TRec /\ a.ssh_state = "INIT" /\ a.queue = t.queue
      /\ a.scheduled = t.scheduled /\ a.op_timers = t.op_timers
      /\ a.jobs = t.jobs /\ SameTimers(t, a)
  BY <1>3 DEF TRec, SshState, SameTimers
<1> HIDE DEF a
<1>5. /\ b \in TRec /\ b.ssh_state = "INIT" /\ b.queue = a.queue
      /\ b.scheduled = a.scheduled /\ b.op_timers = a.op_timers
      /\ SameTimers(a, b)
      /\ \A k \in Job : b.jobs[k] = IF k = "connect_execute" THEN 0 ELSE a.jobs[k]
  <2>1. /\ b \in TRec /\ b.ssh_state = a.ssh_state /\ b.queue = a.queue
        /\ b.scheduled = a.scheduled /\ b.op_timers = a.op_timers
        /\ SameTimers(a, b)
        /\ \A k \in Job : b.jobs[k] =
             IF k = "connect_execute" /\ a.jobs[k] > 0
             THEN a.jobs[k] - 1 ELSE a.jobs[k]
    BY <1>2, <1>4, JobDel
  <2> HIDE DEF b
  <2> QED
    BY <1>3, <1>4, <2>1
<1> HIDE DEF b
<1>6. /\ c \in TRec /\ c.ssh_state = "INIT" /\ c.queue = b.queue
      /\ c.scheduled = b.scheduled /\ c.op_timers = b.op_timers
      /\ SameTimers(b, c)
      /\ \A k \in Job : c.jobs[k] =
           IF k = "ssh_assembly_connect" THEN b.jobs[k] + 1 ELSE b.jobs[k]
  BY <1>2, <1>5, JobAdd
<1> HIDE DEF c
<1>7. t' = c /\ UNCHANGED <<node, vm, process>>
  BY DEF connect_execute, a, b, c
<1>8. Idle(c)
  BY <1>3, <1>4, <1>5, <1>6, JobsDistinct DEF Idle, NoExec, SameTimers, DriverJob
<1>9. DriversOK(c)
  BY <1>2, <1>3, <1>4, <1>5, <1>6 DEF DriversOK, DriverCount
<1>10. QueueOK(c) /\ UpInv(node, c)
  BY <1>3, <1>6, <1>8, <1>9, IdleOK DEF UpInv, Idle
<1> QED
  BY <1>1, <1>6, <1>7, <1>10, Running, StepOK

\* The login job of a session that is not connected yet.
LEMMA LoginPending ==
  ASSUME Inv, Dispatch("ssh_assembly_connect")
  PROVE  /\ process = "up" /\ t \in TRec /\ Idle(t) /\ node # "RUNNING"
         /\ t.ssh_state \in {"INIT", "STARTUP", "USERAUTH"}
         /\ t.jobs["my_instance_state_get"] = 0
         /\ t.jobs["connect_execute"] = 0 /\ t.jobs["ssh_assembly_connect"] = 1
<1>1. process = "up" /\ t.jobs["ssh_assembly_connect"] > 0
  BY DEF Dispatch
<1>2. /\ "my_instance_state_get" \in Job /\ "connect_execute" \in Job
      /\ "ssh_assembly_connect" \in Job
  BY DEF Job
<1>3. DriversOK(t) /\ \A j \in Job : t.jobs[j] \in Nat
  BY <1>1, Running
<1>4. t.ssh_state \in {"INIT", "STARTUP", "USERAUTH"}
  BY <1>1, <1>3 DEF DriversOK
<1>5. Idle(t) /\ node # "RUNNING"
  BY <1>1, <1>4, Running DEF UpInv
<1> QED
  BY <1>1, <1>2, <1>3, <1>4, <1>5, Running DEF DriversOK, DriverCount

\* Login steps that do not complete the login.
LEMMA LoginStep ==
  ASSUME Inv, ssh_assembly_connect_again \/ ssh_assembly_connect_error
  PROVE  Inv'
<1>1. Dispatch("ssh_assembly_connect")
  BY DEF ssh_assembly_connect_again, ssh_assembly_connect_error
<1>2. /\ process = "up" /\ t \in TRec /\ Idle(t) /\ node # "RUNNING"
      /\ t.jobs["my_instance_state_get"] = 0
      /\ t.jobs["connect_execute"] = 0 /\ t.jobs["ssh_assembly_connect"] = 1
  BY <1>1, LoginPending
<1>3. "ssh_assembly_connect" \in Job
  BY DEF Job
<1>4. ASSUME NEW s \in {"STARTUP", "USERAUTH"}
      PROVE  LET a == [t EXCEPT !.ssh_state = s] IN
             /\ a \in TRec /\ a.ssh_state = s /\ a.queue = t.queue
             /\ a.scheduled = t.scheduled /\ a.op_timers = t.op_timers
             /\ a.jobs = t.jobs /\ SameTimers(t, a) /\ Idle(a)
  BY <1>2 DEF TRec, SshState, SameTimers, Idle, NoExec
<1>5. CASE ssh_assembly_connect_again
  <2>1. PICK s \in {"STARTUP", "USERAUTH"} : t' = [t EXCEPT !.ssh_state = s]
    BY <1>5 DEF ssh_assembly_connect_again
  <2>2. /\ t' \in TRec /\ t'.ssh_state = s /\ t'.jobs = t.jobs /\ Idle(t')
    BY <1>4, <2>1
  <2>3. DriversOK(t')
    BY <1>2, <2>2 DEF DriversOK, DriverCount
  <2>4. QueueOK(t') /\ UpInv(node, t')
    BY <1>2, <2>2, <2>3, IdleOK DEF UpInv, Idle
  <2> QED
    BY <1>2, <1>5, <2>2, <2>4, Running, StepOK DEF ssh_assembly_connect_again
<1>6. CASE ssh_assembly_connect_error
  <2> DEFINE a == [t EXCEPT !.ssh_state = "STARTUP"]
             b == job_del(a, "ssh_assembly_connect")
  <2>1. t' = b /\ "startup_fail" \in Faults /\ UNCHANGED <<node, vm, process>>
    BY <1>6 DEF ssh_assembly_connect_error
  <2>2. a \in TRec /\ a.ssh_state = "STARTUP" /\ a.jobs = t.jobs /\ Idle(a)
    BY <1>4
  <2> HIDE DEF a
  <2>3. /\ b \in TRec /\ b.ssh_state = "STARTUP" /\ b.queue = a.queue
        /\ b.scheduled = a.scheduled /\ b.op_timers = a.op_timers
        /\ SameTimers(a, b)
        /\ \A k \in Job : b.jobs[k] =
             IF k = "ssh_assembly_connect" THEN 0 ELSE a.jobs[k]
    BY <1>2, <1>3, <2>2, JobDel
  <2> HIDE DEF b
  <2>4. Idle(b)
    BY <2>2, <2>3, JobsDistinct DEF Idle, NoExec, SameTimers
  <2>5. DriversOK(b)
    BY <1>2, <2>1, <2>2, <2>3, JobsDistinct DEF DriversOK, DriverCount, DriverJob
  <2>6. QueueOK(b) /\ UpInv(node, b)
    BY <1>2, <2>3, <2>4, <2>5, IdleOK DEF UpInv, Idle
  <2> QED
    BY <1>2, <2>1, <2>3, <2>6, Running, StepOK
<1> QED
  BY <1>5, <1>6

\* The login completes: the node is RUNNING with its first health check.
LEMMA ConnectedStep ==
  ASSUME Inv, ssh_assembly_connect
  PROVE  Inv'
<1>1. Dispatch("ssh_assembly_connect")
  BY DEF ssh_assembly_connect
<1>2. /\ process = "up" /\ t \in TRec /\ Idle(t)
      /\ t.jobs["my_instance_state_get"] = 0
      /\ t.jobs["connect_execute"] = 0 /\ t.jobs["ssh_assembly_connect"] = 1
  BY <1>1, LoginPending
<1> DEFINE a == [t EXCEPT !.ssh_state = "CONNECTED", !.keepalive_timer = TRUE]
           b == job_del(a, "ssh_assembly_connect")
           c == transport_execute(b, "uptime")
<1>3. /\ a \in TRec /\ a.ssh_state = "CONNECTED" /\ a.queue = <<>>
      /\ ~a.scheduled /\ a.op_timers = {} /\ a.jobs = t.jobs
      /\ ~a.healthcheck_timer
  BY <1>2 DEF TRec, SshState, Idle
<1> HIDE DEF a
<1>4. "ssh_assembly_connect" \in Job
  BY DEF Job
<1>5. /\ b \in TRec /\ b.ssh_state = "CONNECTED" /\ b.queue = <<>>
      /\ ~b.scheduled /\ b.op_timers = {} /\ ~b.healthcheck_timer
      /\ \A k \in Job : b.jobs[k] =
           IF k = "ssh_assembly_connect" THEN 0 ELSE t.jobs[k]
  BY <1>2, <1>3, <1>4, JobDel DEF SameTimers
<1> HIDE DEF b
<1>6. NoExec(b) /\ \A j \in DriverJob : b.jobs[j] = 0
  BY <1>2, <1>5, JobsDistinct DEF NoExec, Idle, DriverJob
<1>7. QueueOK(b) /\ ExecOK(b) /\ "uptime" \notin Range(b.queue)
  BY <1>5, <1>6 DEF QueueOK, ExecOK, HeadExec, NoExec, Range, IsInjective
<1>8. "uptime" \in Op
  BY JobsDistinct
<1>9. /\ c \in TRec /\ QueueOK(c) /\ ExecOK(c) /\ c.ssh_state = "CONNECTED"
      /\ Range(c.queue) = Range(b.queue) \cup {"uptime"}
      /\ \A j \in DriverJob : c.jobs[j] = 0
      /\ ~c.healthcheck_timer
  BY <1>5, <1>6, <1>7, <1>8, Execute DEF SameDrivers, SameTimers
<1> HIDE DEF c
<1>10. DriversOK(c)
  BY <1>9 DEF DriversOK, DriverCount, DriverJob
<1>11. UpInv("RUNNING", c)
  BY <1>9, <1>10 DEF UpInv
<1>12. t' = c /\ node' = "RUNNING" /\ UNCHANGED <<vm, process>>
  BY DEF ssh_assembly_connect, a, b, c
<1> QED
  BY <1>2, <1>9, <1>11, <1>12, Running, StepOK

\* A session with an operation in the loop is connected.
LEMMA Executing ==
  ASSUME Inv, NEW op \in Op, Dispatch(op)
  PROVE  /\ process = "up" /\ t \in TRec /\ QueueOK(t) /\ ExecOK(t)
         /\ DriversOK(t) /\ t.ssh_state = "CONNECTED" /\ t.jobs[op] > 0
<1>1. process = "up" /\ t.jobs[op] > 0
  BY DEF Dispatch
<1>2. t.ssh_state = "CONNECTED"
  BY <1>1, Running DEF Idle, NoExec
<1> QED
  BY <1>1, <1>2, Running

\* Steps of assembly_ssh_exec that do not end the operation.
LEMMA ExecStep ==
  ASSUME Inv, ssh_exec_opened \/ ssh_exec_open_failed \/ ssh_exec_error
  PROVE  Inv'
<1>1. PICK op \in Op : Dispatch(op)
  BY DEF ssh_exec_opened, ssh_exec_open_failed, ssh_exec_error
<1>2. process = "up" /\ t \in TRec /\ UpInv(node, t) /\ QueueOK(t)
  BY <1>1, Executing, Running
<1>3. CASE ssh_exec_opened
  <2>1. t' = [t EXCEPT !.opened = TRUE] /\ UNCHANGED <<node, vm, process>>
    BY <1>3 DEF ssh_exec_opened
  <2>2. /\ t' \in TRec /\ t'.ssh_state = t.ssh_state /\ t'.queue = t.queue
        /\ t'.scheduled = t.scheduled /\ t'.op_timers = t.op_timers
        /\ t'.jobs = t.jobs /\ SameTimers(t, t')
    BY <1>2, <2>1 DEF TRec, SameTimers
  <2>3. QueueOK(t') /\ ExecOK(t') /\ DriversOK(t')
    BY <1>2, <2>2 DEF QueueOK, UpInv, ExecOK, HeadExec, DriversOK, DriverCount
  <2>4. UpInv(node, t')
    BY <1>2, <2>2, <2>3 DEF UpInv, Idle, NoExec, SameTimers
  <2> QED
    BY <1>2, <2>1, <2>2, <2>3, <2>4, Running, StepOK
<1>4. CASE ssh_exec_open_failed
  <2>1. PICK o \in Op : Dispatch(o) /\ t' = job_del(t, o)
    BY <1>4 DEF ssh_exec_open_failed
  <2>2. "open_fail" \in Faults /\ UNCHANGED <<node, vm, process>>
    BY <1>4 DEF ssh_exec_open_failed
  <2> DEFINE b == job_del(t, o)
  <2>3. /\ b \in TRec /\ b.ssh_state = t.ssh_state /\ b.queue = t.queue
        /\ b.scheduled = t.scheduled /\ b.op_timers = t.op_timers
        /\ SameTimers(t, b)
        /\ \A k \in Job : b.jobs[k] =
             IF k = o /\ t.jobs[k] > 0 THEN t.jobs[k] - 1 ELSE t.jobs[k]
    BY <1>2, JobDel, JobsDistinct
  <2>4. t' = b
    BY <2>1
  <2> HIDE DEF b
  <2>5. \A k \in Job : b.jobs[k] \in Nat /\ t.jobs[k] \in Nat
    BY <1>2, <2>3 DEF TRec
  <2>6. SameDrivers(t, b)
    BY <2>3, JobsDistinct DEF SameDrivers
  <2>7. HeadExec(b)
    <3> SUFFICES ASSUME NEW k \in Op, b.jobs[k] > 0
                 PROVE  /\ b.jobs[k] = 1 /\ b.scheduled /\ b.queue # <<>>
                        /\ k = Head(b.queue)
      BY DEF HeadExec
    <3>1. k \in Job /\ t.jobs[k] > 0 /\ b.jobs[k] <= t.jobs[k]
      BY <2>3, <2>5, JobsDistinct
    <3>2. t.jobs[k] = 1 /\ t.scheduled /\ t.queue # <<>> /\ k = Head(t.queue)
      BY <1>2, <3>1, Running DEF HeadExec
    <3>3. b.jobs[k] = 1
      BY <2>5, <3>1, <3>2
    <3> QED
      BY <2>3, <3>2, <3>3
  <2>8. QueueOK(b) /\ ExecOK(b) /\ DriversOK(b)
    BY <1>2, <2>2, <2>3, <2>6, <2>7, DriversKept DEF QueueOK, ExecOK, UpInv
  <2>9. b.ssh_state = "CONNECTED"
    BY <2>1, <2>3, Executing
  <2>10. UpInv(node, b)
    BY <1>2, <2>3, <2>8, <2>9 DEF UpInv, SameTimers
  <2> QED
    BY <1>2, <2>2, <2>3, <2>4, <2>8, <2>10, Running, StepOK
<1>5. CASE ssh_exec_error
  BY <1>2, <1>5, Running, StepOK DEF ssh_exec_error
<1> QED
  BY <1>3, <1>4, <1>5

\* The health check ended: healthcheck_ok and healthcheck_bad.
LEMMA HealthcheckStep ==
  ASSUME Inv, healthcheck_ok \/ healthcheck_bad
  PROVE  Inv'
<1>1. "uptime" \in Op /\ Dispatch("uptime")
  BY JobsDistinct DEF healthcheck_ok, healthcheck_bad, ssh_op_done
<1> DEFINE x == ssh_op_remove(job_del(t, "uptime"))
<1>2. /\ process = "up" /\ t \in TRec /\ QueueOK(t) /\ ExecOK(t)
      /\ DriversOK(t) /\ t.ssh_state = "CONNECTED" /\ t.jobs["uptime"] > 0
  BY <1>1, Executing
<1>3. /\ x \in TRec /\ QueueOK(x) /\ NoExec(x) /\ x.ssh_state = "CONNECTED"
      /\ "uptime" \in Range(t.queue)
      /\ Range(x.queue) = Range(t.queue) \ {"uptime"}
      /\ SameDrivers(t, x) /\ SameTimers(t, x)
  BY <1>1, <1>2, Complete
<1>4. DriversOK(x)
  BY <1>2, <1>3, DriversKept
<1>5. CASE healthcheck_ok
  <2> DEFINE y == IF node = "RUNNING"
                  THEN [x EXCEPT !.healthcheck_timer = TRUE] ELSE x
             z == transport_schedule(y)
  <2>1. t' = z /\ UNCHANGED <<node, vm, process>>
    BY <1>5 DEF healthcheck_ok
  <2> HIDE DEF x
  <2>2. /\ y \in TRec /\ y.queue = x.queue /\ y.jobs = x.jobs
        /\ y.op_timers = x.op_timers /\ y.ssh_state = x.ssh_state
        /\ node = "RUNNING" => y.healthcheck_timer
    BY <1>3 DEF TRec
  <2> HIDE DEF y
  <2>3. QueueOK(y) /\ NoExec(y) /\ DriversOK(y)
    BY <1>3, <1>4, <2>2 DEF QueueOK, NoExec, DriversOK, DriverCount
  <2>4. /\ z \in TRec /\ ExecOK(z) /\ QueueOK(z)
        /\ z.ssh_state = y.ssh_state /\ z.queue = y.queue
        /\ SameDrivers(y, z) /\ SameTimers(y, z)
    BY <2>2, <2>3, Schedule
  <2> HIDE DEF z
  <2>5. DriversOK(z)
    BY <2>2, <2>3, <2>4, DriversKept
  <2>6. UpInv(node, z)
    BY <1>3, <2>2, <2>4, <2>5 DEF UpInv, SameTimers
  <2> QED
    BY <1>2, <2>1, <2>4, <2>6, Running, StepOK
<1>6. CASE healthcheck_bad
  <2> DEFINE y == transport_failed(x)
             z == transport_schedule(y)
  <2>1. node_failed(y, z) /\ process' \in {"up", "aborted"}
    BY <1>6 DEF healthcheck_bad
  <2> HIDE DEF x
  <2>2. /\ y \in TRec /\ y.queue = x.queue /\ y.jobs = x.jobs
        /\ y.op_timers = x.op_timers /\ y.ssh_state = x.ssh_state
    BY <1>3 DEF TRec, transport_failed
  <2> HIDE DEF y
  <2>3. QueueOK(y) /\ NoExec(y) /\ DriversOK(y) /\ HeadExec(y)
    BY <1>3, <1>4, <2>2 DEF QueueOK, NoExec, DriversOK, DriverCount, HeadExec
  <2>4. /\ z \in TRec /\ ExecOK(z) /\ QueueOK(z)
        /\ z.ssh_state = y.ssh_state /\ z.queue = y.queue
        /\ SameDrivers(y, z)
    BY <2>2, <2>3, Schedule
  <2> HIDE DEF z
  <2>5. DriversOK(z) /\ "uptime" \notin Range(z.queue)
    BY <1>3, <2>2, <2>3, <2>4, DriversKept
  <2> QED
    BY <1>2, <1>3, <2>1, <2>2, <2>3, <2>4, <2>5, NodeFailed
<1> QED
  BY <1>5, <1>6

\* A resource operation ended.
LEMMA ResourceDoneStep ==
  ASSUME Inv, resource_op_done
  PROVE  Inv'
<1>1. PICK op \in ResourceOps :
        /\ ssh_op_done(op)
        /\ t' = transport_schedule(ssh_op_remove(job_del(t, op)))
  BY DEF resource_op_done
<1>2. op \in Op /\ Dispatch(op) /\ op # "uptime"
  BY <1>1, AssemblyConstantsOK, JobsDistinct DEF ssh_op_done
<1> DEFINE x == ssh_op_remove(job_del(t, op))
           z == transport_schedule(x)
<1>3. /\ process = "up" /\ t \in TRec /\ QueueOK(t) /\ ExecOK(t)
      /\ DriversOK(t) /\ t.ssh_state = "CONNECTED" /\ t.jobs[op] > 0
  BY <1>2, Executing
<1>4. /\ x \in TRec /\ QueueOK(x) /\ NoExec(x) /\ x.ssh_state = "CONNECTED"
      /\ Range(x.queue) = Range(t.queue) \ {op}
      /\ SameDrivers(t, x) /\ SameTimers(t, x)
  BY <1>2, <1>3, Complete
<1> HIDE DEF x
<1>5. DriversOK(x)
  BY <1>3, <1>4, DriversKept
<1>6. /\ z \in TRec /\ ExecOK(z) /\ QueueOK(z)
      /\ z.ssh_state = x.ssh_state /\ z.queue = x.queue
      /\ SameDrivers(x, z) /\ SameTimers(x, z)
  BY <1>4, Schedule
<1> HIDE DEF z
<1>7. DriversOK(z)
  BY <1>4, <1>5, <1>6, DriversKept
<1>8. UpInv(node, z)
  BY <1>2, <1>3, <1>4, <1>6, <1>7, Running DEF UpInv, SameTimers
<1>9. /\ t' = z /\ UNCHANGED <<node, process>>
      /\ vm' \in {"none", "build", "up", "down"}
  BY <1>1, <1>3, Running DEF resource_op_done, instance_destroy, x, z
<1> QED
  BY <1>3, <1>6, <1>8, <1>9, Running, StepOK

\* The oldest operation times out.
LEMMA TimeoutStep ==
  ASSUME Inv, ssh_timeout
  PROVE  Inv'
<1> DEFINE x == ssh_ops_drop(transport_unschedule(t))
           y == IF Head(t.queue) = "uptime" THEN transport_failed(x) ELSE x
<1>1. process = "up" /\ t.queue # <<>> /\ node_failed(y, y) /\ UNCHANGED process
  BY DEF ssh_timeout
<1>2. /\ t \in TRec /\ QueueOK(t) /\ HeadExec(t) /\ DriversOK(t)
      /\ t.ssh_state = "CONNECTED"
  BY <1>1, Running DEF Idle
<1>3. /\ x \in TRec /\ QueueOK(x) /\ NoExec(x)
      /\ x.queue = <<>> /\ ~x.scheduled /\ x.ssh_state = "CONNECTED"
      /\ SameDrivers(t, x)
  BY <1>2, Drop
<1> HIDE DEF x
<1>4. DriversOK(x)
  BY <1>2, <1>3, DriversKept
<1>5. /\ y \in TRec /\ y.queue = x.queue /\ y.scheduled = x.scheduled
      /\ y.op_timers = x.op_timers /\ y.jobs = x.jobs
      /\ y.ssh_state = x.ssh_state
  BY <1>3 DEF transport_failed, TRec
<1> HIDE DEF y
<1>6. QueueOK(y) /\ HeadExec(y) /\ ExecOK(y) /\ DriversOK(y)
  BY <1>3, <1>4, <1>5
     DEF QueueOK, HeadExec, ExecOK, NoExec, DriversOK, DriverCount
<1>7. "uptime" \notin Range(y.queue)
  BY <1>3, <1>5 DEF Range
<1> QED
  BY <1>1, <1>3, <1>5, <1>6, <1>7, NodeFailed

\* A health check falls due.
LEMMA HealthcheckDueStep ==
  ASSUME Inv, assembly_healthcheck
  PROVE  Inv'
<1> DEFINE x == [t EXCEPT !.healthcheck_timer = FALSE]
           y == transport_execute(x, "uptime")
<1>1. /\ process = "up" /\ t.healthcheck_timer /\ t' = y
      /\ UNCHANGED <<node, vm, process>>
  BY DEF assembly_healthcheck
<1>2. /\ t \in TRec /\ QueueOK(t) /\ ExecOK(t) /\ DriversOK(t)
      /\ t.ssh_state = "CONNECTED" /\ "uptime" \notin Range(t.queue)
  BY <1>1, Running DEF Idle, UpInv
<1>3. /\ x \in TRec /\ x.queue = t.queue /\ x.scheduled = t.scheduled
      /\ x.op_timers = t.op_timers /\ x.jobs = t.jobs
      /\ x.ssh_state = t.ssh_state /\ ~x.healthcheck_timer
  BY <1>2 DEF TRec
<1> HIDE DEF x
<1>4. QueueOK(x) /\ ExecOK(x) /\ DriversOK(x)
  BY <1>2, <1>3 DEF QueueOK, ExecOK, HeadExec, DriversOK, DriverCount
<1>5. "uptime" \in Op
  BY JobsDistinct
<1>6. /\ y \in TRec /\ QueueOK(y) /\ ExecOK(y) /\ y.ssh_state = x.ssh_state
      /\ Range(y.queue) = Range(x.queue) \cup {"uptime"}
      /\ SameDrivers(x, y) /\ SameTimers(x, y)
  BY <1>2, <1>3, <1>4, <1>5, Execute
<1> HIDE DEF y
<1>7. DriversOK(y)
  BY <1>3, <1>4, <1>6, DriversKept
<1>8. UpInv(node, y)
  BY <1>2, <1>3, <1>6, <1>7 DEF UpInv, SameTimers
<1> QED
  BY <1>1, <1>6, <1>8, Running, StepOK

\* A resource operation is queued.
LEMMA ResourceActionStep ==
  ASSUME Inv, NEW op \in ResourceOps, transport_resource_action(op)
  PROVE  Inv'
<1> DEFINE y == transport_execute(t, op)
<1>1. /\ process = "up" /\ node = "RUNNING" /\ op \notin Range(t.queue)
      /\ t' = y /\ UNCHANGED <<node, vm, process>>
  BY DEF transport_resource_action
<1>2. /\ t \in TRec /\ QueueOK(t) /\ ExecOK(t) /\ DriversOK(t)
      /\ UpInv(node, t) /\ t.ssh_state = "CONNECTED"
  BY <1>1, Running DEF UpInv
<1>3. op \in Op /\ op # "uptime"
  BY AssemblyConstantsOK, JobsDistinct
<1>4. /\ y \in TRec /\ QueueOK(y) /\ ExecOK(y) /\ y.ssh_state = t.ssh_state
      /\ Range(y.queue) = Range(t.queue) \cup {op}
      /\ SameDrivers(t, y) /\ SameTimers(t, y)
  BY <1>1, <1>2, <1>3, Execute
<1> HIDE DEF y
<1>5. DriversOK(y)
  BY <1>2, <1>4, DriversKept
<1>6. UpInv(node, y)
  BY <1>2, <1>3, <1>4, <1>5 DEF UpInv, SameTimers
<1> QED
  BY <1>1, <1>4, <1>6, Running, StepOK

\* cape_exit disconnects a session that is still being set up.
LEMMA DisconnectIdle ==
  ASSUME NEW x \in TRec, Idle(x), x.ssh_state # "CONNECTED"
  PROVE  /\ transport_disconnect(x) \in TRec
         /\ QueueOK(transport_disconnect(x))
         /\ transport_disconnect(x).queue = <<>>
         /\ transport_disconnect(x).ssh_state # "CONNECTED"
<1> DEFINE s == x.ssh_state
           a == [x EXCEPT !.healthcheck_timer = FALSE]
           b == IF s = "INIT" THEN job_del(a, "connect_execute") ELSE a
           c == job_del(b, "ssh_assembly_connect")
           d == ssh_ops_drop(c)
           e == IF s \in {"CONNECTED", "STARTUP", "USERAUTH"}
                THEN transport_failed(d) ELSE d
           f == IF s \in {"CONNECTED", "STARTUP", "USERAUTH", "INIT"}
                THEN job_del(e, "ssh_assembly_connect") ELSE e
           y == [f EXCEPT !.ssh_state = "FREED"]
<1>1. "connect_execute" \in Job /\ "ssh_assembly_connect" \in Job
  BY DEF Job
<1>2. CASE s = "NULL"
  BY <1>2, IdleOK DEF transport_disconnect, Idle
<1>3. CASE s # "NULL"
  <2>1. transport_disconnect(x) = y
    BY <1>3 DEF transport_disconnect
  <2>2. a \in TRec /\ a.queue = <<>> /\ a.op_timers = {}
    BY DEF TRec, Idle
  <2> HIDE DEF a
  <2>3. b \in TRec /\ b.queue = <<>> /\ b.op_timers = {}
    BY <1>1, <2>2, JobDel
  <2> HIDE DEF b
  <2>4. c \in TRec /\ c.queue = <<>> /\ c.op_timers = {}
    BY <1>1, <2>3, JobDel
  <2> HIDE DEF c
  <2>5. d \in TRec /\ d.queue = <<>> /\ d.op_timers = {}
    <3>1. c.op_timers \ Range(c.queue) = {}
      BY <2>4
    <3>2. d = [c EXCEPT !.queue = <<>>, !.op_timers = {}, !.opened = FALSE]
      BY <3>1 DEF ssh_ops_drop
    <3> QED
      BY <2>4, <3>2 DEF TRec
  <2> HIDE DEF d
  <2>6. e \in TRec /\ e.queue = <<>> /\ e.op_timers = {}
    BY <2>5 DEF transport_failed, TRec
  <2> HIDE DEF e
  <2>7. f \in TRec /\ f.queue = <<>> /\ f.op_timers = {}
    BY <1>1, <2>6, JobDel
  <2> HIDE DEF f
  <2>8. /\ y \in TRec /\ y.queue = <<>> /\ y.op_timers = {}
        /\ y.ssh_state = "FREED"
    BY <2>7 DEF TRec, SshState
  <2> HIDE DEF y
  <2>9. QueueOK(y)
    BY <2>8 DEF QueueOK, Range, IsInjective
  <2> QED
    BY <2>1, <2>8, <2>9
<1> QED
  BY <1>2, <1>3

\* cape_exit.
LEMMA ExitStep ==
  ASSUME Inv, cape_exit
  PROVE  Inv'
<1>1. process = "up" /\ process' \in {"aborted", "exited"} /\ UNCHANGED <<node, vm>>
  BY DEF cape_exit
<1>2. t' = t \/ t' = transport_disconnect(t)
  BY DEF cape_exit
<1>3. /\ t \in TRec /\ QueueOK(t) /\ HeadExec(t) /\ DriversOK(t)
      /\ t.ssh_state # "CONNECTED" => Idle(t)
  BY <1>1, Running
<1>4. transport_disconnect(t) \in TRec /\ QueueOK(transport_disconnect(t))
  <2>1. CASE t.ssh_state = "CONNECTED"
    <3>1. t.jobs["ssh_assembly_connect"] = 0
      BY <1>3, <2>1, ConnectedDrivers DEF DriverJob
    <3> QED
      BY <1>3, <2>1, <3>1, Disconnect
  <2>2. CASE t.ssh_state # "CONNECTED"
    BY <1>3, <2>2, DisconnectIdle
  <2> QED
    BY <2>1, <2>2
<1>5. t' \in TRec /\ QueueOK(t')
  BY <1>2, <1>3, <1>4
<1> QED
  BY <1>1, <1>5, Running, StepOK

\* Every step of the loop, of the cloud and of the instance keeps the
\* invariant.
LEMMA NextInv == Inv /\ [Next]_vars => Inv'
<1> SUFFICES ASSUME Inv, [Next]_vars PROVE Inv'
  OBVIOUS
<1>1. ASSUME UNCHANGED <<node, t, process>>, vm' \in {"none", "build", "up", "down"}
      PROVE  Inv'
  BY <1>1 DEF Inv, TypeOK, QueueOK, UpInv, ExecOK, HeadExec, DriversOK,
              DriverCount, Idle, NoExec
<1>2. CASE VmBoots \/ VmDies
  BY <1>1, <1>2 DEF VmBoots, VmDies
<1>3. CASE Stopped \/ UNCHANGED vars
  BY <1>1, <1>3 DEF Stopped, vars, Inv, TypeOK
<1> QED
  BY <1>2, <1>3, PollStep, ConnectStep, LoginStep, ConnectedStep, ExecStep,
     HealthcheckStep, ResourceDoneStep, TimeoutStep, HealthcheckDueStep,
     ResourceActionStep, ExitStep DEF Next

\* The invariant holds in every reachable state of an assembly.
THEOREM InvHolds == Spec => []Inv
<1> QED
  BY InitInv, NextInv, PTL DEF Spec

\* The variables keep their types.
THEOREM TypeCorrect == Spec => []TypeOK
<1>1. Inv => TypeOK
  BY DEF Inv
<1> QED
  BY <1>1, InvHolds, PTL

\* The poll, the connection, the login and the session of an assembly hand
\* over to each other: there is never more than one, and one is lost only to
\* a failure of the outside world.
THEOREM SingleDriver == Spec => []OneDriver
<1> QED
  BY InvHolds, InvImplies, PTL

\* No callback of the loop finds the transport gone or in a state it asserts
\* against.
THEOREM CallbacksSafe == Spec => []CallbacksMatchSession
<1> QED
  BY InvHolds, InvImplies, PTL

\* At most one operation executes at a time, and it is the oldest.
THEOREM SerialExecution == Spec => []OneExecution
<1> QED
  BY InvHolds, InvImplies, PTL

\* Timers and queue agree, and no operation is queued twice.
THEOREM TimersAgree == Spec => []TimersMatchQueue
<1> QED
  BY InvHolds, InvImplies, PTL

\* A RUNNING node always has its next health check queued or due.
THEOREM AlwaysWatched == Spec => []RunningIsWatched
<1> QED
  BY InvHolds, InvImplies, PTL

(***************************************************************************)
(* The refinement: what the functions of trans_ssh.c do to the part of the *)
(* transport that module Transport sees, the queue and whether there is a  *)
(* session.                                                                *)
(***************************************************************************)

\* transport_schedule changes neither.
LEMMA ScheduleSeen ==
  ASSUME NEW x \in TRec
  PROVE  /\ transport_schedule(x).ssh_state = x.ssh_state
         /\ transport_schedule(x).queue = x.queue
<1>1. CASE x.queue # <<>>
  <2> DEFINE z == [x EXCEPT !.scheduled = TRUE]
  <2>1. z \in TRec /\ z.queue = x.queue /\ z.ssh_state = x.ssh_state
    BY DEF TRec
  <2>2. Head(x.queue) \in Job
    BY <1>1, JobsDistinct DEF TRec
  <2>3. transport_schedule(x) = job_add(z, Head(x.queue))
    BY <1>1 DEF transport_schedule
  <2> HIDE DEF z
  <2> QED
    BY <2>1, <2>2, <2>3, JobAdd
<1>2. CASE x.queue = <<>>
  BY <1>2 DEF transport_schedule, TRec
<1> QED
  BY <1>1, <1>2

\* transport_execute on a connected session appends.
LEMMA ExecuteSeen ==
  ASSUME NEW x \in TRec, NEW op \in Op, x.ssh_state = "CONNECTED"
  PROVE  /\ transport_execute(x, op).ssh_state = "CONNECTED"
         /\ transport_execute(x, op).queue = Append(x.queue, op)
<1> DEFINE z == [x EXCEPT !.queue = Append(x.queue, op),
                          !.op_timers = x.op_timers \cup {op}]
<1>1. /\ Append(x.queue, op) \in Seq(Op)
      /\ x.op_timers \cup {op} \in SUBSET Op
  BY DEF TRec
<1>2. /\ z \in TRec /\ z.queue = Append(x.queue, op)
      /\ z.ssh_state = "CONNECTED"
  BY <1>1 DEF TRec
<1>3. transport_execute(x, op) = IF z.scheduled THEN z ELSE transport_schedule(z)
  BY DEF transport_execute
<1> HIDE DEF z
<1> QED
  BY <1>2, <1>3, ScheduleSeen

\* ssh_op_complete removes the oldest operation, whichever ran.
LEMMA RemoveSeen ==
  ASSUME NEW x \in TRec, NEW op \in Op, x.queue # <<>>
  PROVE  LET y == ssh_op_remove(job_del(x, op)) IN
         /\ y \in TRec /\ y.queue = Tail(x.queue)
         /\ y.ssh_state = x.ssh_state
<1> DEFINE d == job_del(x, op)
<1>1. /\ d \in TRec /\ d.queue = x.queue /\ d.ssh_state = x.ssh_state
  BY JobDel, JobsDistinct
<1> HIDE DEF d
<1>2. /\ Tail(d.queue) \in Seq(Op)
      /\ d.op_timers \ {Head(d.queue)} \in SUBSET Op
  BY <1>1 DEF TRec
<1> QED
  BY <1>1, <1>2 DEF ssh_op_remove, TRec, d

(***************************************************************************)
(* Each action of Assembly is an action of Transport or a stutter.         *)
(***************************************************************************)

Mapped == Link!Next \/ UNCHANGED Link!vars

\* A step that neither the session nor the queue takes part in.
LEMMA Unseen ==
  ASSUME t'.queue = t.queue,
         (t'.ssh_state = "CONNECTED") <=> (t.ssh_state = "CONNECTED"),
         UNCHANGED <<node, process>>
  PROVE  Mapped
BY DEF Mapped, Link!vars

\* A new operation joins the queue of a connected session.
LEMMA Accepted ==
  ASSUME t \in TRec, QueueOK(t), process = "up",
         NEW op \in Op, op \notin Range(t.queue),
         t.ssh_state = "CONNECTED", t'.ssh_state = "CONNECTED",
         t'.queue = Append(t.queue, op), UNCHANGED <<node, process>>
  PROVE  Mapped
<1>1. t.queue \in Seq(Op) /\ IsInjective(t.queue)
  BY DEF TRec, QueueOK
<1>2. t'.queue \in Seq(Op) /\ IsInjective(t'.queue)
  BY <1>1, RangeAppend
<1>3. /\ Len(t'.queue) > Len(t.queue)
      /\ \A i \in DOMAIN t.queue : t'.queue[i] = t.queue[i]
  BY <1>1
<1> QED
  BY <1>2, <1>3
     DEF Mapped, Link!Next, Link!Accept, Link!IsInjective, IsInjective

\* An operation that ended leaves the queue at its head.
LEMMA Answered ==
  ASSUME t \in TRec, process = "up", t.queue # <<>>,
         t.ssh_state = "CONNECTED", t'.ssh_state = "CONNECTED",
         t'.queue = Tail(t.queue), UNCHANGED <<node, process>>
  PROVE  Mapped
BY DEF Mapped, Link!Next, Link!Answer

\* recover_state_set(FAILED) on the node of a connected session.
LEMMA Failed ==
  ASSUME process = "up", t.ssh_state = "CONNECTED", t.queue # <<>>,
         NEW x \in TRec, QueueOK(x), HeadExec(x), DriversOK(x),
         x.ssh_state = "CONNECTED",
         NEW y, y.ssh_state = "CONNECTED",
         y.queue = <<>> \/ y.queue = Tail(t.queue),
         node_failed(x, y), process' \in {"up", "aborted"}
  PROVE  Mapped
<1>1. CASE node' = "FAILED" /\ t' = y
  BY <1>1 DEF Mapped, Link!Next, Link!Fail
<1>2. CASE /\ node # "FAILED" /\ node' = "FAILED"
           /\ t' = node_recover_restart(x)
  <2>1. t'.ssh_state = "FREED" /\ t'.queue = <<>>
    BY <1>2, Restart
  <2> QED
    BY <1>2, <2>1 DEF Mapped, Link!Next, Link!Fail
<1> QED
  BY <1>1, <1>2 DEF node_failed

\* The cloud's answers to the poll.
LEMMA PollMapped ==
  ASSUME Inv,
         instance_state_active \/ instance_state_pending \/ instance_state_noreply
  PROVE  Mapped
<1>1. process = "up" /\ t.jobs["my_instance_state_get"] > 0
  BY DEF instance_state_active, instance_state_pending, instance_state_noreply,
         Dispatch
<1>2. /\ t \in TRec /\ t.ssh_state # "CONNECTED" /\ t.queue = <<>>
      /\ "my_instance_state_get" \in Job /\ "connect_execute" \in Job
  BY <1>1, Running DEF DriversOK, Idle, Job
<1> DEFINE d == job_del(t, "my_instance_state_get")
<1>3. d \in TRec /\ d.queue = t.queue /\ d.ssh_state = t.ssh_state
  BY <1>2, JobDel
<1>4. CASE instance_state_active
  <2> DEFINE z == [NoTransport EXCEPT !.ssh_state = "CONNECTING", !.jobs = d.jobs]
  <2>1. t' = job_add(z, "connect_execute") /\ UNCHANGED <<node, process>>
    BY <1>4 DEF instance_state_active, transport_connect
  <2> HIDE DEF d
  <2>2. z \in TRec /\ z.ssh_state = "CONNECTING" /\ z.queue = <<>>
    <3>1. d.jobs \in [Job -> Nat]
      BY <1>3 DEF TRec
    <3>2. NoTransport \in TRec /\ NoTransport.queue = <<>>
      BY DEF NoTransport, TRec, SshState
    <3> QED
      BY <3>1, <3>2 DEF TRec, SshState
  <2> HIDE DEF z
  <2>3. t'.ssh_state = "CONNECTING" /\ t'.queue = <<>>
    BY <1>2, <2>1, <2>2, JobAdd
  <2> QED
    BY <1>2, <2>1, <2>3, Unseen
<1>5. CASE instance_state_pending
  BY <1>1, <1>2, <1>5 DEF instance_state_pending, Mapped, Link!Next, Link!Wait
<1>6. CASE instance_state_noreply
  <2>1. t' = d /\ UNCHANGED node /\ process' \in {"up", "aborted"}
    BY <1>6 DEF instance_state_noreply
  <2> HIDE DEF d
  <2>2. CASE process' = "up"
    BY <1>1, <1>3, <2>1, <2>2, Unseen
  <2>3. CASE process' # "up"
    BY <1>1, <1>3, <2>1, <2>3 DEF Mapped, Link!Next, Link!Stop
  <2> QED
    BY <2>2, <2>3
<1> QED
  BY <1>4, <1>5, <1>6

\* Connecting and logging in, up to the established session.
LEMMA LoginMapped ==
  ASSUME Inv, \/ connect_execute \/ ssh_assembly_connect_again
              \/ ssh_assembly_connect_error \/ ssh_assembly_connect
  PROVE  Mapped
<1>1. "connect_execute" \in Job /\ "ssh_assembly_connect" \in Job
  BY DEF Job
<1>2. /\ process = "up" /\ t \in TRec /\ t.queue = <<>>
      /\ t.ssh_state # "CONNECTED"
  <2>1. CASE connect_execute
    <3>1. process = "up" /\ t.jobs["connect_execute"] > 0
      BY <2>1 DEF connect_execute, Dispatch
    <3> QED
      BY <3>1, Running DEF DriversOK, Idle
  <2>2. CASE Dispatch("ssh_assembly_connect")
    BY <2>2, LoginPending DEF Idle
  <2> QED
    BY <2>1, <2>2 DEF ssh_assembly_connect_again, ssh_assembly_connect_error,
                      ssh_assembly_connect
<1>3. CASE connect_execute
  <2> DEFINE a == [t EXCEPT !.ssh_state = "INIT"]
             b == job_del(a, "connect_execute")
  <2>1. a \in TRec /\ a.ssh_state = "INIT" /\ a.queue = <<>>
    BY <1>2 DEF TRec, SshState
  <2>2. t' = job_add(b, "ssh_assembly_connect") /\ UNCHANGED <<node, process>>
    BY <1>3 DEF connect_execute
  <2> HIDE DEF a
  <2>3. b \in TRec /\ b.ssh_state = "INIT" /\ b.queue = <<>>
    BY <1>1, <2>1, JobDel
  <2> HIDE DEF b
  <2>4. t'.ssh_state = "INIT" /\ t'.queue = <<>>
    BY <1>1, <2>2, <2>3, JobAdd
  <2> QED
    BY <1>2, <2>2, <2>4, Unseen
<1>4. CASE ssh_assembly_connect_again
  <2>1. PICK s \in {"STARTUP", "USERAUTH"} : t' = [t EXCEPT !.ssh_state = s]
    BY <1>4 DEF ssh_assembly_connect_again
  <2>2. t'.ssh_state = s /\ t'.queue = <<>> /\ UNCHANGED <<node, process>>
    BY <1>2, <1>4, <2>1 DEF ssh_assembly_connect_again, TRec
  <2> QED
    BY <1>2, <2>2, Unseen
<1>5. CASE ssh_assembly_connect_error
  <2> DEFINE a == [t EXCEPT !.ssh_state = "STARTUP"]
  <2>1. a \in TRec /\ a.ssh_state = "STARTUP" /\ a.queue = <<>>
    BY <1>2 DEF TRec, SshState
  <2>2. t' = job_del(a, "ssh_assembly_connect") /\ UNCHANGED <<node, process>>
    BY <1>5 DEF ssh_assembly_connect_error
  <2> HIDE DEF a
  <2>3. t'.ssh_state = "STARTUP" /\ t'.queue = <<>>
    BY <1>1, <2>1, <2>2, JobDel
  <2> QED
    BY <1>2, <2>2, <2>3, Unseen
<1>6. CASE ssh_assembly_connect
  <2> DEFINE a == [t EXCEPT !.ssh_state = "CONNECTED", !.keepalive_timer = TRUE]
             b == job_del(a, "ssh_assembly_connect")
  <2>1. a \in TRec /\ a.ssh_state = "CONNECTED" /\ a.queue = <<>>
    BY <1>2 DEF TRec, SshState
  <2>2. /\ t' = transport_execute(b, "uptime") /\ node' = "RUNNING"
        /\ UNCHANGED process
    BY <1>6 DEF ssh_assembly_connect
  <2> HIDE DEF a
  <2>3. b \in TRec /\ b.ssh_state = "CONNECTED" /\ b.queue = <<>>
    BY <1>1, <2>1, JobDel
  <2> HIDE DEF b
  <2>4. t'.ssh_state = "CONNECTED" /\ t'.queue = Append(<<>>, "uptime")
    BY <2>2, <2>3, ExecuteSeen, JobsDistinct
  <2>5. "uptime" \in Op /\ t'.queue = <<"uptime">>
    BY <2>4, JobsDistinct
  <2> QED
    BY <1>2, <2>2, <2>4, <2>5 DEF Mapped, Link!Next, Link!Connect
<1> QED
  BY <1>3, <1>4, <1>5, <1>6

\* Executing the head of the queue.
LEMMA ExecMapped ==
  ASSUME Inv, \/ ssh_exec_opened \/ ssh_exec_open_failed \/ ssh_exec_error
              \/ healthcheck_ok \/ healthcheck_bad \/ resource_op_done
  PROVE  Mapped
<1>1. PICK op \in Op : Dispatch(op)
  BY JobsDistinct
     DEF ssh_exec_opened, ssh_exec_open_failed, ssh_exec_error, healthcheck_ok,
         healthcheck_bad, resource_op_done, ssh_op_done
<1>2. /\ process = "up" /\ t \in TRec /\ QueueOK(t) /\ ExecOK(t)
      /\ DriversOK(t) /\ t.ssh_state = "CONNECTED" /\ t.queue # <<>>
  BY <1>1, Executing DEF ExecOK, HeadExec
<1>3. CASE ssh_exec_opened
  <2>1. t'.queue = t.queue /\ t'.ssh_state = t.ssh_state
    BY <1>2, <1>3 DEF ssh_exec_opened, TRec
  <2> QED
    BY <1>3, <2>1, Unseen DEF ssh_exec_opened
<1>4. CASE ssh_exec_open_failed
  <2>1. PICK o \in Op : t' = job_del(t, o)
    BY <1>4 DEF ssh_exec_open_failed
  <2>2. t'.queue = t.queue /\ t'.ssh_state = t.ssh_state
    BY <1>2, <2>1, JobDel, JobsDistinct
  <2> QED
    BY <1>4, <2>2, Unseen DEF ssh_exec_open_failed
<1>5. CASE ssh_exec_error
  BY <1>2, <1>5 DEF ssh_exec_error, Mapped, Link!Next, Link!Stop
<1>6. CASE healthcheck_ok
  <2> DEFINE x == ssh_op_remove(job_del(t, "uptime"))
             y == IF node = "RUNNING"
                  THEN [x EXCEPT !.healthcheck_timer = TRUE] ELSE x
  <2>1. x \in TRec /\ x.queue = Tail(t.queue) /\ x.ssh_state = "CONNECTED"
    BY <1>2, RemoveSeen, JobsDistinct
  <2>2. t' = transport_schedule(y) /\ UNCHANGED <<node, process>>
    BY <1>6 DEF healthcheck_ok
  <2> HIDE DEF x
  <2>3. y \in TRec /\ y.queue = x.queue /\ y.ssh_state = x.ssh_state
    BY <2>1 DEF TRec
  <2> HIDE DEF y
  <2>4. t'.queue = Tail(t.queue) /\ t'.ssh_state = "CONNECTED"
    BY <2>1, <2>2, <2>3, ScheduleSeen
  <2> QED
    BY <1>2, <2>2, <2>4, Answered
<1>7. CASE healthcheck_bad
  <2> DEFINE x == ssh_op_remove(job_del(t, "uptime"))
             y == transport_failed(x)
             z == transport_schedule(y)
  <2>1. "uptime" \in Op /\ Dispatch("uptime")
    BY <1>7, JobsDistinct DEF healthcheck_bad, ssh_op_done
  <2>2. t.jobs["uptime"] > 0
    BY <2>1 DEF Dispatch
  <2>3. /\ x \in TRec /\ QueueOK(x) /\ NoExec(x) /\ x.ssh_state = "CONNECTED"
        /\ SameDrivers(t, x) /\ x.queue = Tail(t.queue)
    BY <1>2, <2>1, <2>2, Complete, RemoveSeen
  <2>4. node_failed(y, z) /\ process' \in {"up", "aborted"}
    BY <1>7 DEF healthcheck_bad
  <2> HIDE DEF x
  <2>5. /\ y \in TRec /\ y.queue = x.queue /\ y.jobs = x.jobs
        /\ y.op_timers = x.op_timers /\ y.ssh_state = "CONNECTED"
    BY <2>3 DEF TRec, transport_failed
  <2> HIDE DEF y
  <2>6. DriversOK(x)
    BY <1>2, <2>3, DriversKept
  <2>7. QueueOK(y) /\ HeadExec(y) /\ DriversOK(y)
    BY <2>3, <2>5, <2>6 DEF QueueOK, NoExec, DriversOK, DriverCount, HeadExec
  <2>8. z.ssh_state = "CONNECTED" /\ z.queue = Tail(t.queue)
    BY <2>3, <2>5, ScheduleSeen
  <2> HIDE DEF z
  <2> QED
    BY <1>2, <2>4, <2>5, <2>7, <2>8, Failed
<1>8. CASE resource_op_done
  <2>1. PICK o \in ResourceOps :
          t' = transport_schedule(ssh_op_remove(job_del(t, o)))
    BY <1>8 DEF resource_op_done
  <2> DEFINE x == ssh_op_remove(job_del(t, o))
  <2>2. x \in TRec /\ x.queue = Tail(t.queue) /\ x.ssh_state = "CONNECTED"
    BY <1>2, RemoveSeen, JobsDistinct
  <2>3. t'.queue = Tail(t.queue) /\ t'.ssh_state = "CONNECTED"
    BY <2>1, <2>2, ScheduleSeen
  <2> QED
    BY <1>2, <1>8, <2>3, Answered DEF resource_op_done
<1> QED
  BY <1>3, <1>4, <1>5, <1>6, <1>7, <1>8

\* The timeout of the oldest operation.
LEMMA TimeoutMapped ==
  ASSUME Inv, ssh_timeout
  PROVE  Mapped
<1> DEFINE x == ssh_ops_drop(transport_unschedule(t))
           y == IF Head(t.queue) = "uptime" THEN transport_failed(x) ELSE x
<1>1. process = "up" /\ t.queue # <<>> /\ node_failed(y, y) /\ UNCHANGED process
  BY DEF ssh_timeout
<1>2. /\ t \in TRec /\ QueueOK(t) /\ HeadExec(t) /\ DriversOK(t)
      /\ t.ssh_state = "CONNECTED"
  BY <1>1, Running DEF Idle
<1>3. /\ x \in TRec /\ QueueOK(x) /\ NoExec(x) /\ SameDrivers(t, x)
      /\ x.queue = <<>> /\ x.ssh_state = "CONNECTED"
  BY <1>2, Drop
<1> HIDE DEF x
<1>4. DriversOK(x)
  BY <1>2, <1>3, DriversKept
<1>5. /\ y \in TRec /\ y.queue = <<>> /\ y.op_timers = x.op_timers
      /\ y.jobs = x.jobs /\ y.ssh_state = "CONNECTED"
  BY <1>3 DEF transport_failed, TRec
<1> HIDE DEF y
<1>6. QueueOK(y) /\ HeadExec(y) /\ DriversOK(y)
  BY <1>3, <1>4, <1>5 DEF QueueOK, HeadExec, NoExec, DriversOK, DriverCount
<1> QED
  BY <1>1, <1>2, <1>5, <1>6, Failed

\* Operations enter the queue: a health check that is due, a resource action.
LEMMA QueueMapped ==
  ASSUME Inv, \/ assembly_healthcheck
              \/ \E op \in ResourceOps : transport_resource_action(op)
  PROVE  Mapped
<1>1. CASE assembly_healthcheck
  <2> DEFINE x == [t EXCEPT !.healthcheck_timer = FALSE]
  <2>1. /\ process = "up" /\ t.healthcheck_timer /\ UNCHANGED <<node, process>>
        /\ t' = transport_execute(x, "uptime")
    BY <1>1 DEF assembly_healthcheck
  <2>2. /\ t \in TRec /\ QueueOK(t) /\ t.ssh_state = "CONNECTED"
        /\ "uptime" \notin Range(t.queue)
    BY <2>1, Running DEF Idle, UpInv
  <2>3. x \in TRec /\ x.queue = t.queue /\ x.ssh_state = "CONNECTED"
    BY <2>2 DEF TRec
  <2> HIDE DEF x
  <2>4. /\ t'.ssh_state = "CONNECTED" /\ t'.queue = Append(t.queue, "uptime")
        /\ "uptime" \in Op
    BY <2>1, <2>3, ExecuteSeen, JobsDistinct
  <2> QED
    BY <2>1, <2>2, <2>4, Accepted
<1>2. ASSUME NEW op \in ResourceOps, transport_resource_action(op)
      PROVE  Mapped
  <2>1. /\ process = "up" /\ node = "RUNNING" /\ op \notin Range(t.queue)
        /\ t' = transport_execute(t, op) /\ UNCHANGED <<node, process>>
    BY <1>2 DEF transport_resource_action
  <2>2. t \in TRec /\ QueueOK(t) /\ t.ssh_state = "CONNECTED" /\ op \in Op
    BY <2>1, Running, JobsDistinct DEF UpInv
  <2>3. t'.ssh_state = "CONNECTED" /\ t'.queue = Append(t.queue, op)
    BY <2>1, <2>2, ExecuteSeen
  <2> QED
    BY <2>1, <2>2, <2>3, Accepted
<1> QED
  BY <1>1, <1>2

\* cape_exit ends the process with the session given up or left alone.
LEMMA ExitMapped ==
  ASSUME Inv, cape_exit
  PROVE  Mapped
<1>1. /\ process = "up" /\ process' # "up" /\ UNCHANGED node
      /\ t' = t \/ t' = transport_disconnect(t)
  BY DEF cape_exit
<1>2. /\ t \in TRec /\ QueueOK(t) /\ HeadExec(t) /\ DriversOK(t)
      /\ t.ssh_state # "CONNECTED" => Idle(t)
  BY <1>1, Running
<1>3. /\ transport_disconnect(t).queue = <<>>
      /\ transport_disconnect(t).ssh_state # "CONNECTED"
  <2>1. CASE t.ssh_state = "CONNECTED"
    <3>1. t.jobs["ssh_assembly_connect"] = 0
      BY <1>2, <2>1, ConnectedDrivers DEF DriverJob
    <3> QED
      BY <1>2, <2>1, <3>1, Disconnect DEF Idle
  <2>2. CASE t.ssh_state # "CONNECTED"
    BY <1>2, <2>2, DisconnectIdle
  <2> QED
    BY <2>1, <2>2
<1> QED
  BY <1>1, <1>3 DEF Mapped, Link!Next, Link!Stop

\* Every step of an assembly is a step of a transport or invisible to it.
LEMMA NextMapped == Inv /\ [Next]_vars => [Link!Next]_(Link!vars)
<1> SUFFICES ASSUME Inv, [Next]_vars PROVE Mapped
  BY DEF Mapped
<1>1. CASE VmBoots \/ VmDies \/ Stopped \/ UNCHANGED vars
  BY <1>1, Unseen DEF VmBoots, VmDies, Stopped, vars
<1> QED
  BY <1>1, PollMapped, LoginMapped, ExecMapped, TimeoutMapped, QueueMapped,
     ExitMapped DEF Next

\* A new assembly has no session and nothing queued.
LEMMA InitMapped == Init => Link!Init
<1> SUFFICES ASSUME Init PROVE Link!Init
  OBVIOUS
<1>1. /\ NoTransport \in TRec /\ NoTransport.ssh_state = "NULL"
      /\ NoTransport.queue = <<>> /\ "my_instance_state_get" \in Job
  BY DEF NoTransport, TRec, SshState, Job
<1>2. t.ssh_state = "NULL" /\ t.queue = <<>>
  BY <1>1, JobAdd DEF Init
<1> QED
  BY <1>2 DEF Init, Link!Init

\* The SSH transport answers operations in the order in which it accepted
\* them, at most once, or loses all of them together; it reports a node
\* RUNNING only over a session, and carries nothing over to the next one.
THEOREM AssemblyIsTransport == Spec => ImplementsTransport
<1> QED
  BY InitMapped, NextMapped, InvHolds, PTL DEF Spec, ImplementsTransport, Link!Spec
=============================================================================

------------------------------ MODULE Assembly ------------------------------
(***************************************************************************)
(* The life of one assembly (a virtual machine and the SSH session to it)  *)
(* inside the cape process: inst_ctrl.c creates the instance and polls the *)
(* cloud until it is ACTIVE, trans_ssh.c connects, logs in, runs queued    *)
(* commands and health checks, and the node callbacks of cape.c answer a   *)
(* failure.                                                                *)
(*                                                                         *)
(* cape is one thread around a libqb main loop. A step of this module is   *)
(* one job or one timer callback, run to completion. Jobs of one priority  *)
(* are taken in any order, which contains the loop's own order.            *)
(*                                                                         *)
(* t is struct trans_ssh together with the loop entries that point at it   *)
(* or at its operations, so that the C functions that change several of    *)
(* its fields are operators from one value of t to the next and compose as *)
(* the calls do.                                                           *)
(***************************************************************************)
EXTENDS Naturals, Sequences, Functions

CONSTANTS
  ResourceOps,   \* names of the resource operations the node can be sent
  NodeAnswers,   \* what the node's struct recover may answer to a failure
  Faults         \* failures of the outside world to include

FaultKinds == {
  "dies_early",     \* an instance can die before the node is RUNNING
  "iaas_noreply",   \* an HTTP call to the cloud yields no usable answer
  "startup_fail",   \* libssh2_session_startup fails for good
  "open_fail",      \* libssh2_channel_open_session fails for good
  "channel_error"}  \* a libssh2 call on an open channel fails for good

ASSUME AssemblyConstantsOK ==
  /\ "uptime" \notin ResourceOps
  /\ {"my_instance_state_get", "connect_execute", "ssh_assembly_connect"}
       \cap (ResourceOps \cup {"uptime"}) = {}
  /\ NodeAnswers \subseteq {"restart", "escalate"} /\ NodeAnswers # {}
  /\ Faults \subseteq FaultKinds

VARIABLES
  node,      \* assembly->recover.state
  t,         \* assembly->transport, and the loop's jobs and timers
  vm,        \* the instance that assembly->instance_id names
  process    \* "up", "aborted" (an assert or a crash) or "exited"

vars == <<node, t, vm, process>>

\* The operations that can be queued: resource actions and the health check,
\* which runs the command "uptime".
Op == ResourceOps \cup {"uptime"}

\* The jobs: one per callback and data pointer. assembly_ssh_exec has an
\* operation as its data and is named by it. The timer by which
\* instance_state_completion repeats the poll counts as its job.
Job == {"my_instance_state_get", "connect_execute", "ssh_assembly_connect"}
         \cup Op

\* enum ssh_state without SSH_KEEPALIVE_CONFIG, in which no callback ends,
\* and the two values of the pointer: NULL and freed.
SshState == {"NULL", "CONNECTING", "INIT", "STARTUP", "USERAUTH",
             "CONNECTED", "FREED"}

NoTransport ==
  [ssh_state |-> "NULL", queue |-> <<>>, opened |-> FALSE,
   scheduled |-> FALSE, op_timers |-> {},
   healthcheck_timer |-> FALSE, keepalive_timer |-> FALSE,
   jobs |-> [j \in Job |-> 0]]

(***************************************************************************)
(* libqb: qb_loop_job_add and qb_loop_job_del.                             *)
(***************************************************************************)

job_add(x, j) == [x EXCEPT !.jobs[j] = @ + 1]

job_del(x, j) == [x EXCEPT !.jobs[j] = IF @ > 0 THEN @ - 1 ELSE 0]

(***************************************************************************)
(* The queue of operations. One operation, the head, executes at a time.   *)
(***************************************************************************)

transport_schedule(x) ==
  IF x.queue # <<>>
  THEN job_add([x EXCEPT !.scheduled = TRUE], Head(x.queue))
  ELSE [x EXCEPT !.scheduled = FALSE]

\* On an empty queue the code takes the list head for an operation; no job
\* has that address and qb_loop_job_del finds nothing.
transport_unschedule(x) ==
  LET y == [x EXCEPT !.scheduled = FALSE]
  IN  IF x.scheduled /\ x.queue # <<>> THEN job_del(y, Head(x.queue)) ELSE y

\* Scheduling the queue also while an operation of it executes.
transport_execute_reschedules(x, op) ==
  IF x.ssh_state # "CONNECTED" THEN x
  ELSE transport_schedule([x EXCEPT !.queue = Append(@, op),
                                    !.op_timers = @ \cup {op}])

\* Queueing an operation without a timeout.
transport_execute_untimed(x, op) ==
  IF x.ssh_state # "CONNECTED" THEN x
  ELSE LET y == [x EXCEPT !.queue = Append(@, op)]
       IN  IF y.scheduled THEN y ELSE transport_schedule(y)

transport_execute(x, op) ==
  IF x.ssh_state # "CONNECTED" THEN x
  ELSE LET y == [x EXCEPT !.queue = Append(@, op),
                          !.op_timers = @ \cup {op}]
       IN  IF y.scheduled THEN y ELSE transport_schedule(y)

\* Completing the newest operation instead of the one that ran.
ssh_op_remove_newest(x) ==
  [x EXCEPT !.queue = SubSeq(@, 1, Len(@) - 1),
            !.op_timers = @ \ {Head(x.queue)}, !.opened = FALSE]

\* The list and timer part of ssh_op_complete, for the operation that ran.
ssh_op_remove(x) ==
  [x EXCEPT !.queue = Tail(@), !.op_timers = @ \ {Head(x.queue)},
            !.opened = FALSE]

\* Unlinking the operations and leaving their timers armed.
ssh_ops_drop_timers_kept(x) ==
  [x EXCEPT !.queue = <<>>, !.opened = FALSE]

\* Unlinking every queued operation and deleting its timer, as ssh_timeout
\* and transport_disconnect do.
ssh_ops_drop(x) ==
  [x EXCEPT !.queue = <<>>, !.op_timers = @ \ Range(x.queue),
            !.opened = FALSE]

\* A failed transport that goes on sending keepalives.
transport_failed_keepalive(x) == x

transport_failed(x) == [x EXCEPT !.keepalive_timer = FALSE]

\* A fresh struct trans_ssh replaces whatever the pointer held.
transport_connect(x) ==
  job_add([NoTransport EXCEPT !.ssh_state = "CONNECTING", !.jobs = x.jobs],
          "connect_execute")

transport_disconnect(x) ==
  IF x.ssh_state = "NULL" THEN x
  ELSE LET s == x.ssh_state
           a == [x EXCEPT !.healthcheck_timer = FALSE]
           b == IF s = "INIT" THEN job_del(a, "connect_execute") ELSE a
           c == IF s = "CONNECTED" THEN transport_unschedule(b)
                ELSE job_del(b, "ssh_assembly_connect")
           d == ssh_ops_drop(c)
           e == IF s \in {"CONNECTED", "STARTUP", "USERAUTH"}
                THEN transport_failed(d) ELSE d
           f == IF s \in {"CONNECTED", "STARTUP", "USERAUTH", "INIT"}
                THEN job_del(e, "ssh_assembly_connect") ELSE e
       IN  [f EXCEPT !.ssh_state = "FREED"]

(***************************************************************************)
(* inst_ctrl.c and the cloud (openstackv1.c). The HTTP calls block; their  *)
(* completion functions run before the call returns, or never.             *)
(***************************************************************************)

\* What instance_create can leave in assembly->instance_id: the new
\* instance, or the previous one when the cloud does not answer.
instance_create ==
  {"build"} \cup (IF "iaas_noreply" \in Faults THEN {vm} ELSE {})

\* instance_destroy, called by resource_recover_escalate. The identifier is
\* cleared by the completion function, which an empty HTTP body never calls.
instance_destroy ==
  {"none", "down"} \cup (IF "iaas_noreply" \in Faults THEN {vm} ELSE {})

Init ==
  /\ node = "UNKNOWN"
  /\ t = job_add(NoTransport, "my_instance_state_get")
  /\ vm \in {"build"} \cup (IF "iaas_noreply" \in Faults THEN {"none"} ELSE {})
  /\ process = "up"

\* The loop takes job j off its list and calls it.
Dispatch(j) == process = "up" /\ t.jobs[j] > 0

\* instance_state_completion with "ACTIVE". A machine that has died can
\* still be ACTIVE to the cloud.
instance_state_active ==
  /\ Dispatch("my_instance_state_get")
  /\ vm \in {"up", "down"}
  /\ t' = transport_connect(job_del(t, "my_instance_state_get"))
  /\ UNCHANGED <<node, vm, process>>

\* A poll answer that counts the assembly as stopped.
instance_state_stopped ==
  /\ Dispatch("my_instance_state_get")
  /\ vm \in {"build", "down"}
  /\ node' = "STOPPED"
  /\ UNCHANGED <<t, vm, process>>

\* instance_state_completion with any other state: poll again later.
instance_state_pending ==
  /\ Dispatch("my_instance_state_get")
  /\ vm \in {"build", "down"}
  /\ node' = "UNKNOWN"
  /\ UNCHANGED <<t, vm, process>>

\* The cloud answers nothing that calls the completion function: nothing is
\* scheduled any more. For an empty identifier the answer has no status
\* attribute, which is compared before it is checked.
instance_state_noreply ==
  /\ Dispatch("my_instance_state_get")
  /\ "iaas_noreply" \in Faults
  /\ process' \in IF vm = "none" THEN {"up", "aborted"} ELSE {"up"}
  /\ t' = job_del(t, "my_instance_state_get")
  /\ UNCHANGED <<node, vm>>

(***************************************************************************)
(* The node callbacks of cape.c.                                           *)
(***************************************************************************)

\* A restart that keeps the old session.
node_recover_restart_connected(x) == job_add(x, "my_instance_state_get")

\* A restart that does not wait for the new instance.
node_recover_restart_unpolled(x) == transport_disconnect(x)

node_recover_restart(x) ==
  job_add(transport_disconnect(x), "my_instance_state_get")

\* recover_state_set(FAILED) on the node: a change of state is answered by
\* node_recover_restart or by node_recover_escalate, which is empty. When
\* the transport is still there, the caller goes on and leaves it as y.
node_failed(x, y) ==
  \/ /\ node = "FAILED"
     /\ t' = y
     /\ UNCHANGED <<node, vm, process>>
  \/ /\ node # "FAILED"
     /\ "escalate" \in NodeAnswers
     /\ node' = "FAILED"
     /\ t' = y
     /\ UNCHANGED <<vm, process>>
  \/ /\ node # "FAILED"
     /\ "restart" \in NodeAnswers
     /\ node' = "FAILED"
     /\ t' = node_recover_restart(x)
     /\ vm' \in instance_create

(***************************************************************************)
(* Connecting. Attempts that fail for now repeat their job and change      *)
(* nothing.                                                                *)
(***************************************************************************)

connect_execute ==
  /\ Dispatch("connect_execute")
  /\ vm = "up"
  /\ t' = job_add(job_del([t EXCEPT !.ssh_state = "INIT"], "connect_execute"),
                  "ssh_assembly_connect")
  /\ UNCHANGED <<node, vm, process>>

\* A login step that libssh2 answers with EAGAIN in a later state.
ssh_assembly_connect_again ==
  /\ Dispatch("ssh_assembly_connect")
  /\ \/ t.ssh_state = "INIT" /\ t' = [t EXCEPT !.ssh_state = "STARTUP"]
     \/ /\ t.ssh_state \in {"INIT", "STARTUP"}
        /\ vm = "up"
        /\ t' = [t EXCEPT !.ssh_state = "USERAUTH"]
  /\ UNCHANGED <<node, vm, process>>

\* libssh2_session_startup fails: the job is not repeated.
ssh_assembly_connect_error ==
  /\ Dispatch("ssh_assembly_connect")
  /\ "startup_fail" \in Faults
  /\ t.ssh_state \in {"INIT", "STARTUP"}
  /\ t' = job_del([t EXCEPT !.ssh_state = "STARTUP"], "ssh_assembly_connect")
  /\ UNCHANGED <<node, vm, process>>

\* Logged in, or not: a failed authentication is only logged. The node is
\* RUNNING and its first health check is queued.
ssh_assembly_connect ==
  /\ Dispatch("ssh_assembly_connect")
  /\ vm = "up"
  /\ node' = "RUNNING"
  /\ LET x == [t EXCEPT !.ssh_state = "CONNECTED", !.keepalive_timer = TRUE]
     IN  t' = transport_execute(job_del(x, "ssh_assembly_connect"), "uptime")
  /\ UNCHANGED <<vm, process>>

(***************************************************************************)
(* Executing the head of the queue: assembly_ssh_exec.                     *)
(***************************************************************************)

\* The channel has been opened, a later call answers EAGAIN.
ssh_exec_opened ==
  /\ \E op \in Op : Dispatch(op)
  /\ ~t.opened
  /\ t' = [t EXCEPT !.opened = TRUE]
  /\ UNCHANGED <<node, vm, process>>

\* The channel cannot be opened: return, without a job and still scheduled.
ssh_exec_open_failed ==
  /\ "open_fail" \in Faults
  /\ \E op \in Op :
       /\ Dispatch(op)
       /\ ~t.opened
       /\ t' = job_del(t, op)
  /\ UNCHANGED <<node, vm, process>>

\* Any other error on the channel ends in assert(0).
ssh_exec_error ==
  /\ "channel_error" \in Faults
  /\ \E op \in Op : Dispatch(op)
  /\ process' = "aborted"
  /\ UNCHANGED <<node, t, vm>>

\* The command ended: what ssh_op_complete does before the completion
\* function runs.
ssh_op_done(op) ==
  /\ Dispatch(op)
  /\ vm = "up"

\* A good health check that does not ask for the next one.
healthcheck_ok_last ==
  /\ ssh_op_done("uptime")
  /\ t' = transport_schedule(ssh_op_remove(job_del(t, "uptime")))
  /\ UNCHANGED <<node, vm, process>>

\* assembly_healthcheck_completion for exit status 0.
healthcheck_ok ==
  /\ ssh_op_done("uptime")
  /\ LET x == ssh_op_remove(job_del(t, "uptime"))
         y == IF node = "RUNNING"
              THEN [x EXCEPT !.healthcheck_timer = TRUE] ELSE x
     IN  t' = transport_schedule(y)
  /\ UNCHANGED <<node, vm, process>>

\* assembly_healthcheck_completion for another exit status. When the node
\* restarts, the transport is freed by the time assembly_ssh_exec hands it
\* to transport_schedule: either nothing comes of it or the process crashes.
healthcheck_bad ==
  /\ ssh_op_done("uptime")
  /\ LET x == transport_failed(ssh_op_remove(job_del(t, "uptime")))
     IN  node_failed(x, transport_schedule(x))
  /\ process' \in {"up", "aborted"}

\* resource_action_completion: the resource's own recovery may destroy the
\* instance (resource_recover_escalate).
resource_op_done ==
  /\ \E op \in ResourceOps :
       /\ ssh_op_done(op)
       /\ t' = transport_schedule(ssh_op_remove(job_del(t, op)))
  /\ vm' \in {vm} \cup instance_destroy
  /\ UNCHANGED <<node, process>>

(***************************************************************************)
(* Timers. Every operation has the same timeout, so the timer of the head, *)
(* the oldest one, is the first to expire.                                 *)
(***************************************************************************)

\* ssh_timeout drops every queued operation, then the timeout function of
\* the one that expired fails the node.
ssh_timeout ==
  /\ process = "up"
  /\ t.queue # <<>>
  /\ Head(t.queue) \in t.op_timers
  /\ LET x == ssh_ops_drop(transport_unschedule(t))
         y == IF Head(t.queue) = "uptime" THEN transport_failed(x) ELSE x
     IN  node_failed(y, y)
  /\ UNCHANGED process

\* The timer callback assembly_healthcheck.
assembly_healthcheck ==
  /\ process = "up"
  /\ t.healthcheck_timer
  /\ t' = transport_execute([t EXCEPT !.healthcheck_timer = FALSE], "uptime")
  /\ UNCHANGED <<node, vm, process>>

(***************************************************************************)
(* Calls from the rest of cape, and the machine itself.                    *)
(***************************************************************************)

\* resource_execute_cb and resource_monitor_execute send a node operations
\* while it is RUNNING.
transport_resource_action(op) ==
  /\ process = "up"
  /\ node = "RUNNING"
  /\ op \notin Range(t.queue)
  /\ t' = transport_execute(t, op)
  /\ UNCHANGED <<node, vm, process>>

\* cape_exit disconnects whatever state the transport is in, then the loop
\* stops. A transport freed before is freed again.
cape_exit ==
  /\ process = "up"
  /\ IF t.ssh_state = "FREED"
     THEN process' \in {"exited", "aborted"} /\ UNCHANGED t
     ELSE process' = "exited" /\ t' = transport_disconnect(t)
  /\ UNCHANGED <<node, vm>>

VmBoots ==
  /\ vm = "build"
  /\ vm' = "up"
  /\ UNCHANGED <<node, t, process>>

VmDies ==
  /\ vm = "up"
  /\ node = "RUNNING" \/ "dies_early" \in Faults
  /\ vm' = "down"
  /\ UNCHANGED <<node, t, process>>

Stopped == process # "up" /\ UNCHANGED vars

Next ==
  \/ instance_state_active
  \/ instance_state_pending
  \/ instance_state_noreply
  \/ connect_execute
  \/ ssh_assembly_connect_again
  \/ ssh_assembly_connect_error
  \/ ssh_assembly_connect
  \/ ssh_exec_opened
  \/ ssh_exec_open_failed
  \/ ssh_exec_error
  \/ healthcheck_ok
  \/ healthcheck_bad
  \/ resource_op_done
  \/ ssh_timeout
  \/ assembly_healthcheck
  \/ \E op \in ResourceOps : transport_resource_action(op)
  \/ cape_exit
  \/ VmBoots
  \/ VmDies
  \/ Stopped

Spec == Init /\ [][Next]_vars

(***************************************************************************)
(* Fairness: the loop runs its jobs, its timers expire, a timeout as long  *)
(* as the same operation stays at the head. The rest is the outside world: *)
(* an instance boots, is reported ACTIVE, accepts the connection and the   *)
(* login if it lives long enough. No command is assumed to end.            *)
(***************************************************************************)
Fairness ==
  /\ WF_vars(VmBoots)
  /\ WF_vars(instance_state_active)
  /\ WF_vars(connect_execute)
  /\ WF_vars(ssh_assembly_connect)
  /\ WF_vars(assembly_healthcheck)
  /\ \A op \in Op : WF_vars(ssh_timeout /\ Head(t.queue) = op)

FairSpec == Spec /\ Fairness

(***************************************************************************)
(* Properties                                                              *)
(***************************************************************************)

\* Every variable keeps its type.
TypeOK ==
  /\ node \in {"UNKNOWN", "RUNNING", "FAILED"}
  /\ t \in [ssh_state : SshState, queue : Seq(Op), opened : BOOLEAN,
            scheduled : BOOLEAN, op_timers : SUBSET Op,
            healthcheck_timer : BOOLEAN, keepalive_timer : BOOLEAN,
            jobs : [Job -> Nat]]
  /\ vm \in {"none", "build", "up", "down"}
  /\ process \in {"up", "aborted", "exited"}

\* The sum of what drives the assembly towards RUNNING: the poll of the
\* cloud, the connection attempt, the login, or the established session.
Drivers ==
  t.jobs["my_instance_state_get"] + t.jobs["connect_execute"]
    + t.jobs["ssh_assembly_connect"]
    + (IF t.ssh_state = "CONNECTED" THEN 1 ELSE 0)

\* However failures, timeouts and restarts interleave, instance_create and
\* transport_connect never start a second chain of jobs for an assembly that
\* already has one, and a chain that was not cut by a failure of the outside
\* world never ends: the poll, the connection, the login and the session hand
\* over to each other.
OneDriver ==
  process = "up" =>
    /\ Drivers <= 1
    /\ {"iaas_noreply", "startup_fail"} \cap Faults = {} => Drivers = 1

\* The loop never calls back into a transport that is gone or in another
\* state than the callback asserts: transport_disconnect leaves no job and no
\* timer behind, and transport_connect never replaces a transport in use.
CallbacksMatchSession ==
  process = "up" =>
    /\ t.jobs["my_instance_state_get"] > 0 => t.ssh_state \in {"NULL", "FREED"}
    /\ t.jobs["connect_execute"] > 0 => t.ssh_state = "CONNECTING"
    /\ t.jobs["ssh_assembly_connect"] > 0 =>
         t.ssh_state \in {"INIT", "STARTUP", "USERAUTH"}
    /\ t.ssh_state # "CONNECTED" =>
         /\ \A op \in Op : t.jobs[op] = 0
         /\ t.op_timers = {}
         /\ ~t.healthcheck_timer /\ ~t.keepalive_timer

\* At most one operation executes, it is the head of the queue, and it has
\* one job: no interleaving of completions, timeouts and new operations makes
\* transport_schedule run two operations or lose the queue. Without failing
\* channel opens a non-empty queue is always being executed.
OneExecution ==
  process = "up" =>
    /\ t.scheduled <=> t.queue # <<>>
    /\ \A op \in Op : t.jobs[op] > 0 =>
         /\ t.jobs[op] = 1
         /\ t.queue # <<>> /\ op = Head(t.queue)
    /\ "open_fail" \notin Faults /\ t.queue # <<>> =>
         t.jobs[Head(t.queue)] = 1

\* Every queued operation has its timeout armed, and no timer outlives its
\* operation: an operation is queued once and always ends.
TimersMatchQueue ==
  /\ t.op_timers = Range(t.queue)
  /\ IsInjective(t.queue)

\* A node that is RUNNING is watched: its session is connected, and a health
\* check is either queued or due, never both and never neither.
RunningIsWatched ==
  process = "up" /\ node = "RUNNING" =>
    /\ t.ssh_state = "CONNECTED"
    /\ t.healthcheck_timer <=> "uptime" \notin Range(t.queue)

\* The session, the queue and the node state behave as trans.h's users expect
\* (module Transport): operations are answered in order and at most once, and
\* neither a timeout nor a restart leaves one behind for the next session.
Link ==
  INSTANCE Transport WITH
    node <- node, session <- (t.ssh_state = "CONNECTED"),
    queue <- t.queue, process <- process

ImplementsTransport == Link!Spec

\* An instance that died or was destroyed is noticed and replaced by one the
\* node runs on, without any other trigger than the health check's timeout.
DeadInstanceReplaced ==
  vm \in {"down", "none"} ~>
    (node = "RUNNING" /\ vm = "up") \/ process # "up"

\* No operation stays in the queue of a transport forever, whatever the
\* remote side does.
QueueDrains ==
  \A op \in Op :
    op \in Range(t.queue) ~> op \notin Range(t.queue) \/ process # "up"
=============================================================================

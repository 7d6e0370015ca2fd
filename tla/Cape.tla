-------------------------------- MODULE Cape --------------------------------
(***************************************************************************)
(* The policy side of the cape process: cape.c and pcmk_pe.c. Resource     *)
(* operations are planned by the Pacemaker policy engine as a transition   *)
(* graph, executed through the transports of the assemblies, recorded in   *)
(* the operation history, and their failures answered.                     *)
(*                                                                         *)
(* Module Assembly has the details of an assembly. Here it is a node state *)
(* and a queue of operations that are answered in order or lost together.  *)
(*                                                                         *)
(* c holds the program's data, so that its functions are operators from    *)
(* one value of c to the next and compose as the calls do.                 *)
(***************************************************************************)
EXTENDS Integers, Sequences, FiniteSets, Functions

CONSTANTS
  Assemblies,
  Resources,
  Home,             \* the assembly each resource is configured on
  ResourceAnswers,  \* what a resource's struct recover may answer
  NodeAnswers,      \* what an assembly's struct recover may answer
  ErrorCodes,       \* exit codes besides OK and NOT_RUNNING
  Faults,           \* kinds of trouble to include
  MaxFaults,        \* bound: how much trouble happens
  MaxJobs,          \* bound: process_job entries told apart
  MaxOps            \* bound: live operations per resource

FaultKinds == {
  "service_dies",   \* a running service stops by itself
  "node_fails",     \* an assembly fails between transitions
  "plan_stale",     \* an assembly fails during one, with an empty queue
  "ops_lost",       \* an assembly fails and takes queued operations along
  "replan"}         \* the policy engine restarts a healthy resource, for a
                    \* changed parameter or a service it depends on

ASSUME CapeConstantsOK ==
  /\ IsFiniteSet(Resources) /\ Cardinality(Resources) \in Nat
  /\ Home \in [Resources -> Assemblies]
  /\ ResourceAnswers \subseteq {"restart", "escalate"} /\ ResourceAnswers # {}
  /\ NodeAnswers \subseteq {"restart", "escalate"} /\ NodeAnswers # {}
  /\ ErrorCodes \subseteq {"UNKNOWN_ERROR", "HARD_ERROR"}
  /\ Faults \subseteq FaultKinds
  /\ {MaxFaults, MaxJobs, MaxOps} \subseteq Nat \ {0}

VARIABLES
  node,     \* assembly->recover.state
  c,        \* the data of cape.c and pcmk_pe.c
  service,  \* the services themselves, on the current instance
  faults    \* trouble so far

vars == <<node, c, service, faults>>

None == <<>>

\* struct pe_operation objects: the resource and a number.
OpId == Resources \X (1 .. MaxOps)

\* op->method together with op->interval: a probe is a monitor with no
\* interval, the step called monitor is the recurring one.
Step == {"probe", "start", "stop", "monitor"}

\* times is times_executed up to 2; current says that op->graph is the graph
\* being run.
NoOp == [step |-> "none", times |-> 0, current |-> FALSE]

RecoverState == {"UNKNOWN", "RUNNING", "FAILED", "STOPPED", "UNRECOVERABLE"}

\* pe_resource_ocf_exitcode_get maps every other code to one of these;
\* HARD_ERROR stands for the five codes of pe_resource_is_hard_error.
Codes == {"OK", "NOT_RUNNING", "UNKNOWN_ERROR", "HARD_ERROR"}

(***************************************************************************)
(* Operations: reference counts and keys.                                  *)
(***************************************************************************)

pe_resource_ref(x, o) == [x EXCEPT !.refs[o] = @ + 1]

pe_resource_unref(x, o) ==
  [x EXCEPT !.refs[o] = @ - 1,
            !.op[o] = IF x.refs[o] = 1 THEN NoOp ELSE @]

\* op->target_outcome: a probe expects the resource not to run.
target_outcome(op) == IF op.step = "probe" THEN "NOT_RUNNING" ELSE "OK"

\* Who holds operation o: the monitor_op pointer, its timer, and twice the
\* transport, which adds a reference to that of the planned operation.
InFlight(x, o) == o \in Range(x.queue[Home[o[1]]])

Holders(x, o) ==
  (IF x.monitor_op[o[1]] = o THEN 1 ELSE 0)
    + (IF o \in x.timers THEN 1 ELSE 0)
    + (IF InFlight(x, o) THEN 2 ELSE 0)

Unused(x, o) == x.refs[o] = 0 /\ Holders(x, o) = 0

\* An operation for calloc in exec_rsc_action.
Allocatable(x, r) == \E o \in {r} \X (1 .. MaxOps) : Unused(x, o)

NewOp(x, r) == CHOOSE o \in {r} \X (1 .. MaxOps) : Unused(x, o)

\* An operation that nothing points at any more but that still has
\* references has leaked and leaves the model.
forget_leaked(x) ==
  LET leaked == {o \in OpId : x.refs[o] > 0 /\ Holders(x, o) = 0}
  IN  [x EXCEPT !.refs = [o \in OpId |-> IF o \in leaked THEN 0 ELSE @[o]],
                !.op = [o \in OpId |-> IF o \in leaked THEN NoOp ELSE @[o]]]

(***************************************************************************)
(* pcmk_pe.c: an action of the graph is confirmed.                         *)
(***************************************************************************)

pe_resource_completed(x, o, rc) ==
  IF ~x.busy THEN x
  ELSE [x EXCEPT !.abort = @ \/ rc # target_outcome(x.op[o]),
                 !.todo[o[1]] = IF x.op[o].current THEN Tail(@) ELSE @,
                 !.fired[o[1]] = @ /\ ~x.op[o].current,
                 !.updated = TRUE]

schedule_processing(x) ==
  [x EXCEPT !.jobs = IF @ < MaxJobs THEN @ + 1 ELSE MaxJobs]

(***************************************************************************)
(* The operation history: at most one entry per resource, method and       *)
(* interval. call_id orders the entries; all that is asked of the order is *)
(* which entry is the last.                                                *)
(***************************************************************************)

NoHistory == [k \in Step |-> "none"]

\* Overwriting an entry without giving it a new call_id.
op_history_save_in_place(x, o, rc) ==
  LET r == o[1]
      k == x.op[o].step
  IN  [x EXCEPT !.history[r][k] = rc,
                !.last[r] = IF x.history[r][k] = "none" THEN k ELSE @]

op_history_save(x, o, rc) ==
  LET r == o[1]
      k == x.op[o].step
  IN  [x EXCEPT !.history[r][k] = rc, !.last[r] = k]

(***************************************************************************)
(* Recurring monitors. monitor_timer is the handle of the timer last       *)
(* added for the resource.                                                 *)
(***************************************************************************)

\* A handle that never tells a running timer.
timer_is_running_never(x, r) == FALSE

timer_is_running(x, r) == x.monitor_timer[r] \in x.timers

\* A deletion that leaves the timer armed.
timer_del_kept(x, r) == x

timer_del(x, r) == [x EXCEPT !.timers = @ \ {x.monitor_timer[r]}]

recurring_monitor_stop(x, o) ==
  LET r == o[1]
      y == IF timer_is_running(x, r)
           THEN pe_resource_unref(timer_del(x, r), o) ELSE x
  IN  pe_resource_unref([y EXCEPT !.monitor_op[r] = None], o)

(***************************************************************************)
(* The state of a resource. Both answers to a failure delete the monitor's *)
(* timer; escalation destroys the instance as well (unless the cloud does  *)
(* not answer, which then equals a restart).                               *)
(***************************************************************************)

resource_recover(x, r, answer) ==
  LET y == timer_del(x, r)
  IN  IF answer = "escalate"
      THEN [y EXCEPT !.destroyed = @ \cup {Home[r]}] ELSE y

recover_state_set(x, r, s, answer) ==
  IF x.state[r] = s THEN x
  ELSE LET y == [x EXCEPT !.state[r] = s]
       IN  IF s = "FAILED" THEN resource_recover(y, r, answer) ELSE y

resource_state(op, rc) ==
  IF op.step \in {"probe", "monitor"}
  THEN IF rc = "OK" THEN "RUNNING"
       ELSE IF op.step = "monitor" THEN "FAILED" ELSE "STOPPED"
  ELSE IF rc = "OK"
  THEN IF op.step = "start" THEN "RUNNING" ELSE "STOPPED"
  ELSE IF rc = "HARD_ERROR" THEN "UNRECOVERABLE" ELSE "UNKNOWN"

resource_action_completed(x, o, rc, answer) ==
  LET op == x.op[o]
      r == o[1]
      matched == rc = target_outcome(op)
      x1 == op_history_save(
              [x EXCEPT !.op[o].times = IF @ < 2 THEN @ + 1 ELSE 2], o, rc)
      x2 == IF op.times = 0 THEN pe_resource_completed(x1, o, rc) ELSE x1
      x3 == recover_state_set(x2, r, resource_state(op, rc), answer)
      x4 == IF matched THEN x3 ELSE schedule_processing(x3)
  IN  IF op.step = "monitor" /\ matched
      THEN [x4 EXCEPT !.timers = @ \cup {o}, !.monitor_timer[r] = o]
      ELSE pe_resource_unref(x4, o)

(***************************************************************************)
(* Executing an operation.                                                 *)
(***************************************************************************)

\* Queueing an operation that the transport does not own a reference of.
transport_resource_action_no_ref(x, o) ==
  [x EXCEPT !.queue[Home[o[1]]] = Append(@, o)]

transport_resource_action(x, o) ==
  [pe_resource_ref(x, o) EXCEPT !.queue[Home[o[1]]] = Append(@, o)]

resource_monitor_execute(x, o, answer) ==
  IF node[Home[o[1]]] # "RUNNING"
  THEN resource_action_completed(x, o, "UNKNOWN_ERROR", answer)
  ELSE transport_resource_action(x, o)

\* Starting the monitor without a reference for monitor_op.
recurring_monitor_start_no_ref(x, o, answer) ==
  LET r == o[1]
  IN  IF timer_is_running(x, r)
      THEN pe_resource_unref(pe_resource_completed(x, o, "OK"), o)
      ELSE resource_monitor_execute([x EXCEPT !.monitor_op[r] = o], o, answer)

\* The test of the timer inverted.
recurring_monitor_start_inverted(x, o, answer) ==
  LET r == o[1]
  IN  IF ~timer_is_running(x, r)
      THEN pe_resource_unref(pe_resource_completed(x, o, "OK"), o)
      ELSE resource_monitor_execute(
             [pe_resource_ref(x, o) EXCEPT !.monitor_op[r] = o], o, answer)

recurring_monitor_start(x, o, answer) ==
  LET r == o[1]
  IN  IF timer_is_running(x, r)
      THEN pe_resource_unref(pe_resource_completed(x, o, "OK"), o)
      ELSE resource_monitor_execute(
             [pe_resource_ref(x, o) EXCEPT !.monitor_op[r] = o], o, answer)

\* exec_rsc_action fires the next action of resource r: it makes the
\* operation and hands it to resource_execute_cb.
resource_execute_cb(x, r, answer) ==
  LET o == NewOp(x, r)
      step == Head(x.todo[r])
      op == [step |-> step, times |-> 0, current |-> TRUE]
      y == [x EXCEPT !.op[o] = op, !.refs[o] = 1, !.fired[r] = TRUE]
  IN  IF node[Home[r]] # "RUNNING"
      THEN resource_action_completed(y, o, "UNKNOWN_ERROR", answer)
      ELSE IF step = "monitor" THEN recurring_monitor_start(y, o, answer)
      ELSE IF step = "probe" THEN resource_monitor_execute(y, o, answer)
      ELSE IF step = "stop" /\ y.monitor_op[r] # None
      THEN transport_resource_action(
             recurring_monitor_stop(y, y.monitor_op[r]), o)
      ELSE transport_resource_action(y, o)

(***************************************************************************)
(* The policy engine and its graph (Pacemaker, external). The plan for a   *)
(* resource on a member node follows from the latest history entry; a hard *)
(* error keeps the resource stopped. run_graph fires every action whose    *)
(* predecessor is confirmed, none once the graph is aborted, and ends the  *)
(* transition when nothing was fired and nothing is pending.               *)
(***************************************************************************)

HardError(h) == \E k \in Step : h[k] = "HARD_ERROR"

Plan(h, last, replan) ==
  LET recover == <<"stop", "start", "monitor">>
  IN  IF last = "none" THEN <<"probe", "start", "monitor">>
      ELSE IF last = "stop"
      THEN IF h[last] = "OK" /\ ~HardError(h) THEN <<"start", "monitor">>
           ELSE <<>>
      ELSE IF HardError(h) THEN <<"stop">>
      ELSE IF h[last] = "NOT_RUNNING" /\ last # "monitor"
      THEN <<"start", "monitor">>
      ELSE IF h[last] # "OK" THEN recover
      ELSE IF last # "monitor" THEN <<"monitor">>
      ELSE IF replan THEN recover ELSE <<>>

Planned(r, replan) ==
  IF node[Home[r]] = "RUNNING"
  THEN Plan(c.history[r], c.last[r], replan) ELSE <<>>

Ready(x) == {r \in Resources : x.todo[r] # <<>> /\ ~x.fired[r]}

\* A call y[r] for each resource r of S, made from x. A call changes nothing
\* that belongs to another resource.
PerResource(x, S, y) ==
  [x EXCEPT
    !.op = [o \in OpId |-> IF o[1] \in S THEN y[o[1]].op[o] ELSE @[o]],
    !.refs = [o \in OpId |-> IF o[1] \in S THEN y[o[1]].refs[o] ELSE @[o]],
    !.timers = {o \in OpId : o \in IF o[1] \in S THEN y[o[1]].timers ELSE @},
    !.monitor_op = [r \in Resources |->
                      IF r \in S THEN y[r].monitor_op[r] ELSE @[r]],
    !.todo = [r \in Resources |-> IF r \in S THEN y[r].todo[r] ELSE @[r]],
    !.fired = [r \in Resources |-> IF r \in S THEN y[r].fired[r] ELSE @[r]]]

\* The orders in which the operations T, one per resource at most, can be
\* sent.
Orders(T) == UNION {Bijection(1 .. n, T) : n \in 0 .. Cardinality(Resources)}

\* Firing the actions of the resources S, whose assemblies are RUNNING, in
\* any order: the operations are sent (or, for a monitor that runs already,
\* confirmed).
fire_online(x, S, answer) ==
  LET y == [r \in S |-> resource_execute_cb(x, r, answer)]
      sent == {o \in OpId :
                 o[1] \in S /\ InFlight(y[o[1]], o) /\ ~InFlight(x, o)}
  IN  {[PerResource(x, S, y) EXCEPT
          !.updated = @ \/ \E r \in S : y[r].updated,
          !.queue = [a \in Assemblies |-> @[a] \o q[a]]] :
        q \in {f \in [Assemblies -> UNION {Orders(T) : T \in SUBSET sent}] :
                 \A a \in Assemblies :
                   f[a] \in Orders({o \in sent : Home[o[1]] = a})}}

\* An action for an assembly that has failed since the plan was made ends at
\* once with an error, which aborts the graph: nothing is fired after it.
run_graph(x, answer) ==
  LET ready == IF x.abort THEN {} ELSE Ready(x)
      offline == {r \in ready : node[Home[r]] # "RUNNING"}
  IN  IF offline = {} THEN fire_online(x, ready, answer)
      ELSE UNION {{resource_execute_cb(y, r, answer) :
                     y \in fire_online(x, S, answer)} :
                   S \in SUBSET (ready \ offline), r \in offline}

\* Freeing the working set without resetting the pointer.
transition_end_busy(x) ==
  [x EXCEPT !.abort = FALSE, !.probes = {},
            !.todo = [r \in Resources |-> <<>>],
            !.op = [o \in OpId |-> [x.op[o] EXCEPT !.current = FALSE]]]

\* The end of process_next_job: the graph and the working set are freed.
transition_end(x) ==
  [x EXCEPT !.busy = FALSE, !.abort = FALSE, !.probes = {},
            !.todo = [r \in Resources |-> <<>>],
            !.op = [o \in OpId |-> [x.op[o] EXCEPT !.current = FALSE]]]

(***************************************************************************)
(* Assemblies come up and fail (module Assembly has the details).          *)
(***************************************************************************)

\* Queued operations are dropped by ssh_timeout or transport_disconnect:
\* their completion never runs, their references are never given back.
drop_ops_kept(x, a) == x

drop_ops(x, a) == [x EXCEPT !.queue[a] = <<>>]

\* Stopping the monitors and keeping the entries.
node_op_history_clear_entries_kept(x, a) ==
  LET stopped == {r \in Resources : /\ Home[r] = a /\ x.last[r] # "none"
                                    /\ timer_is_running(x, r)
                                    /\ x.monitor_op[r] # None}
  IN  PerResource(x, stopped,
        [r \in stopped |-> recurring_monitor_stop(x, x.monitor_op[r])])

\* For every history entry of the assembly's resources, stop the monitor and
\* remove the entry.
node_op_history_clear(x, a) ==
  LET mine == {r \in Resources : Home[r] = a}
      stopped == {r \in mine : /\ x.last[r] # "none" /\ timer_is_running(x, r)
                               /\ x.monitor_op[r] # None}
      y == PerResource(x, stopped,
             [r \in stopped |-> recurring_monitor_stop(x, x.monitor_op[r])])
  IN  [y EXCEPT
        !.history = [r \in Resources |->
                       IF r \in mine THEN NoHistory ELSE @[r]],
        !.last = [r \in Resources |-> IF r \in mine THEN "none" ELSE @[r]]]

\* A restart that keeps the history of the previous instance.
node_recover_restart_unflushed(x, a) ==
  [drop_ops(x, a) EXCEPT !.connected = @ \ {a}, !.destroyed = @ \ {a}]

node_recover_restart(x, a) ==
  LET y == node_op_history_clear(drop_ops(x, a), a)
  IN  [y EXCEPT !.connected = @ \ {a}, !.destroyed = @ \ {a}]

Init ==
  /\ node = [a \in Assemblies |-> "UNKNOWN"]
  /\ c = [op |-> [o \in OpId |-> NoOp], refs |-> [o \in OpId |-> 0],
          monitor_op |-> [r \in Resources |-> None],
          monitor_timer |-> [r \in Resources |-> None], timers |-> {},
          state |-> [r \in Resources |-> "UNKNOWN"],
          history |-> [r \in Resources |-> NoHistory],
          last |-> [r \in Resources |-> "none"],
          queue |-> [a \in Assemblies |-> <<>>],
          connected |-> {}, destroyed |-> {},
          busy |-> FALSE, updated |-> FALSE, abort |-> FALSE, probes |-> {},
          todo |-> [r \in Resources |-> <<>>],
          fired |-> [r \in Resources |-> FALSE],
          jobs |-> 0, process |-> "up"]
  /\ service = [r \in Resources |-> "none"]
  /\ faults = 0

Up == c.process = "up"

Trouble(kind) == kind \in Faults /\ faults < MaxFaults /\ faults' = faults + 1

\* The login completes: recover_state_set(RUNNING), whose callback
\* schedules processing.
node_running(a) ==
  /\ Up
  /\ a \notin c.connected
  /\ node' = [node EXCEPT ![a] = "RUNNING"]
  /\ c' = schedule_processing([c EXCEPT !.connected = @ \cup {a}])
  /\ UNCHANGED <<service, faults>>

\* The cloud does not report the new instance ACTIVE yet.
node_pending(a) ==
  /\ Up
  /\ a \notin c.connected
  /\ node[a] = "FAILED"
  /\ node' = [node EXCEPT ![a] = "UNKNOWN"]
  /\ c' = schedule_processing(c)
  /\ UNCHANGED <<service, faults>>

\* recover_state_set(FAILED) on a RUNNING assembly, by a timeout, which has
\* dropped the queued operations first, or by a health check, which leaves
\* them when the answer is the empty node_recover_escalate.
node_failed(a) ==
  /\ Up
  /\ node[a] = "RUNNING"
  /\ IF a \in c.destroyed THEN UNCHANGED faults
     ELSE \/ c.queue[a] = <<>> /\ ~c.busy /\ Trouble("node_fails")
          \/ c.queue[a] = <<>> /\ c.busy /\ Trouble("plan_stale")
          \/ c.queue[a] # <<>> /\ Trouble("ops_lost")
  /\ node' = [node EXCEPT ![a] = "FAILED"]
  /\ LET x == schedule_processing(c)
     IN  \/ /\ "restart" \in NodeAnswers
            /\ c' = forget_leaked(node_recover_restart(x, a))
            /\ service' = [r \in Resources |->
                             IF Home[r] = a THEN "none" ELSE service[r]]
         \/ /\ "escalate" \in NodeAnswers
            /\ c' \in {x, forget_leaked(drop_ops(x, a))}
            /\ UNCHANGED service

\* A timeout on an assembly that is FAILED already.
ops_timeout(a) ==
  /\ Up
  /\ node[a] = "FAILED"
  /\ c.queue[a] # <<>>
  /\ c' = forget_leaked(drop_ops(c, a))
  /\ UNCHANGED <<node, service, faults>>

(***************************************************************************)
(* The jobs and timers of the policy side.                                 *)
(***************************************************************************)

\* The two jobs that add themselves again: process_job while a transition is
\* in progress, process_next_job while no action has been confirmed.
jobs_wait ==
  /\ Up
  /\ c.busy
  /\ c.jobs > 0 \/ ~c.updated
  /\ UNCHANGED vars

\* Planning without asking pe_is_busy_processing: the graph in progress is
\* replaced.
process_job_unguarded ==
  /\ Up
  /\ c.jobs > 0
  /\ c' = [c EXCEPT
       !.jobs = @ - 1, !.busy = TRUE, !.updated = TRUE,
       !.todo = [r \in Resources |-> Planned(r, FALSE)],
       !.fired = [r \in Resources |-> FALSE],
       !.op = [o \in OpId |-> [c.op[o] EXCEPT !.current = FALSE]]]
  /\ UNCHANGED <<node, service, faults>>

process_job ==
  /\ Up
  /\ c.jobs > 0
  /\ ~c.busy
  /\ \E replan \in SUBSET {r \in Resources :
                            Planned(r, TRUE) # Planned(r, FALSE)} :
       /\ IF replan = {} THEN UNCHANGED faults ELSE Trouble("replan")
       /\ c' = [c EXCEPT
            !.jobs = @ - 1, !.busy = TRUE, !.updated = TRUE,
            !.todo = [r \in Resources |-> Planned(r, r \in replan)],
            !.probes = {a \in Assemblies : /\ node[a] = "RUNNING"
                                           /\ \E r \in Resources : Home[r] # a}]
  /\ UNCHANGED <<node, service>>

\* A probe of a resource on another assembly than its own is answered at
\* once. If that assembly has failed since the plan was made, the completion
\* works on a resource that does not exist there.
process_next_job ==
  /\ Up
  /\ c.busy /\ c.updated
  /\ \A r \in Ready(c) : Allocatable(c, r)
  /\ LET x0 == [c EXCEPT !.updated = ~c.abort /\ c.probes # {}, !.probes = {}]
         stale == ~c.abort /\ \E a \in c.probes : node[a] # "RUNNING"
         idle == (c.abort \/ Ready(c) = {}) /\ ~x0.updated
     IN  \/ \E answer \in ResourceAnswers : \E x1 \in run_graph(x0, answer) :
              /\ ~stale \/ x1.abort
              /\ c' = IF idle /\ \A r \in Resources : ~c.fired[r]
                      THEN transition_end(x1) ELSE forget_leaked(x1)
         \/ /\ stale
            /\ c' = [c EXCEPT !.process = "aborted"]
  /\ UNCHANGED <<node, service, faults>>

\* The exit codes an operation can end with: what the service's state
\* yields, or an error.
Result(op, s) ==
  IF op.step \in {"start", "stop"} \/ s = "up" THEN "OK" ELSE "NOT_RUNNING"

\* resource_action_completion: the oldest operation of the queue has ended.
resource_action_completion(a) ==
  /\ Up
  /\ c.queue[a] # <<>>
  /\ a \notin c.destroyed
  /\ LET o == Head(c.queue[a])
         r == o[1]
         op == c.op[o]
     IN  \E rc \in {Result(op, service[r])} \cup ErrorCodes,
            answer \in ResourceAnswers :
           /\ IF rc = Result(op, service[r]) THEN UNCHANGED faults
              ELSE faults < MaxFaults /\ faults' = faults + 1
           /\ LET x == [c EXCEPT !.queue[a] = Tail(@)]
                  y == resource_action_completed(x, o, rc, answer)
              IN  c' = forget_leaked(pe_resource_unref(y, o))
           /\ service' = [service EXCEPT ![r] =
                 IF op.step \in {"probe", "monitor"} \/ rc # "OK" THEN @
                 ELSE IF op.step = "start" THEN "up" ELSE "down"]
  /\ UNCHANGED node

\* The timer of a recurring monitor expires.
monitor_timer_expires(o) ==
  /\ Up
  /\ o \in c.timers
  /\ \E answer \in ResourceAnswers :
       LET x == [c EXCEPT !.timers = @ \ {o}]
       IN  c' = forget_leaked(resource_monitor_execute(x, o, answer))
  /\ UNCHANGED <<node, service, faults>>

ServiceDies(r) ==
  /\ service[r] = "up"
  /\ Trouble("service_dies")
  /\ service' = [service EXCEPT ![r] = "down"]
  /\ UNCHANGED <<node, c>>

Stopped == ~Up /\ UNCHANGED vars

Next ==
  \/ \E a \in Assemblies :
       \/ node_running(a) \/ node_pending(a) \/ node_failed(a)
       \/ ops_timeout(a) \/ resource_action_completion(a)
  \/ jobs_wait
  \/ process_job
  \/ process_next_job
  \/ \E o \in OpId : monitor_timer_expires(o)
  \/ \E r \in Resources : ServiceDies(r)
  \/ Stopped

Spec == Init /\ [][Next]_vars

(***************************************************************************)
(* Fairness: the loop runs its jobs and timers; an assembly that is being  *)
(* connected comes up; an operation sent to a living instance ends; one    *)
(* sent to a destroyed instance, or the health check there, times out.     *)
(***************************************************************************)

\* Weak fairness of process_next_job and resource_action_completion is
\* spelled out with their guards, which are what ENABLED would have to find:
\* TLC evaluates it slowly for actions that change c through many operators.
Fairness ==
  /\ \A a \in Assemblies :
       /\ WF_vars(node_running(a))
       /\ WF_vars(ops_timeout(a))
       /\ WF_vars(a \in c.destroyed /\ node_failed(a))
       /\ \/ []<>(~Up \/ c.queue[a] = <<>> \/ a \in c.destroyed)
          \/ []<><<resource_action_completion(a)>>_vars
  /\ WF_vars(process_job)
  /\ []<>(~Up \/ ~c.busy \/ ~c.updated) \/ []<><<process_next_job>>_vars
  /\ \A o \in OpId : WF_vars(monitor_timer_expires(o))

FairSpec == Spec /\ Fairness

(***************************************************************************)
(* Properties                                                              *)
(***************************************************************************)

\* Every variable keeps its type; in particular no operation is unreferenced
\* more often than it was referenced.
TypeOK ==
  /\ node \in [Assemblies -> {"UNKNOWN", "RUNNING", "FAILED"}]
  /\ c.refs \in [OpId -> Nat]
  /\ c.timers \subseteq OpId
  /\ c.state \in [Resources -> RecoverState]
  /\ \A a \in Assemblies : c.queue[a] \in Seq(OpId)
  /\ c.jobs \in 0 .. MaxJobs
  /\ service \in [Resources -> {"none", "up", "down"}]

\* No operation is freed while something still points at it: every holder of
\* an operation (monitor_op, the monitor's timer, the transport) owns
\* references that no interleaving of completions, stops and restarts gives
\* back twice.
HoldersReferenced ==
  \A o \in OpId : c.refs[o] >= Holders(c, o)

\* An operation that has not completed yet belongs to the transition in
\* progress, so that pe_resource_completed confirms the action it was made
\* for and not one of a later graph.
OwnTransition ==
  \A o \in OpId :
    (InFlight(c, o) \/ o \in c.timers) /\ c.op[o].times = 0 =>
      c.busy /\ c.op[o].current /\ c.fired[o[1]]

\* A resource has one recurring monitor at most.
Monitor(o) == c.op[o].step = "monitor" /\ (InFlight(c, o) \/ o \in c.timers)

OneMonitor ==
  \A o, p \in OpId : o[1] = p[1] /\ Monitor(o) /\ Monitor(p) => o = p

\* The history shown to the policy engine never says that a resource runs on
\* an instance on which it was never started.
HistoryOfInstance ==
  \A r \in Resources :
    c.last[r] \in Step \ {"stop"} /\ c.history[r][c.last[r]] = "OK" =>
      service[r] # "none"

\* Nothing is forgotten: when the policy engine is idle and no process_job
\* is left, it would have nothing to do.
NothingForgotten ==
  Up /\ ~c.busy /\ c.jobs = 0 =>
    \A r \in Resources : Planned(r, FALSE) = <<>>

\* The comment in node_op_history_clear: "stop the recurring monitor." While
\* an assembly has no session, no monitor timer of its resources runs.
MonitorsStopped ==
  \A o \in c.timers : Home[o[1]] \in c.connected

\* What this module lets an assembly do is what a transport does (module
\* Transport): its operations end in the order in which they were accepted, at
\* most once, and a restart leaves none behind.
Link(a) ==
  INSTANCE Transport WITH
    Op <- OpId, node <- node[a], session <- (a \in c.connected),
    queue <- c.queue[a], process <- c.process

UsesTransport ==
  /\ \A a \in Assemblies : Link(a)!Init
  /\ [][\A a \in Assemblies :
          Link(a)!Next \/ UNCHANGED Link(a)!vars]_<<node, c>>

\* What tests/check_basic.c confirms: after a failure of a node, "node gets
\* restarted" and "resource gets restarted".
NodeAndResourceRestarted ==
  \A r \in Resources :
    node[Home[r]] = "FAILED" ~> node[Home[r]] = "RUNNING" /\ service[r] = "up"

\* A service that died is noticed by its recurring monitor and restarted.
ResourceRestarted ==
  \A r \in Resources : service[r] = "down" ~> service[r] = "up"

\* A service that runs does not stay without a recurring monitor.
RunningGetsMonitored ==
  \A r \in Resources :
    service[r] = "up" ~>
      \/ service[r] # "up"
      \/ \E o \in {r} \X (1 .. MaxOps) : Monitor(o)
=============================================================================

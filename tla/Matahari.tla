------------------------------ MODULE Matahari ------------------------------
(***************************************************************************)
(* The Matahari transport of one assembly: matahari.cpp on top of the QMF  *)
(* console code (qmf_object, qmf_agent, qmf_multiplexer). Agents inside    *)
(* the instance are announced and forgotten by the message bus. Three QMF  *)
(* objects, Host, Services and Resources, attach to the agents that serve  *)
(* them; heartbeats of the Host decide whether the node is RUNNING, and    *)
(* operations are asynchronous method calls on the other two.              *)
(*                                                                         *)
(* A step is one callback of the libqb loop, or one event that             *)
(* QmfMultiplexer::process_events takes off the console session.           *)
(***************************************************************************)
EXTENDS Naturals, FiniteSets

CONSTANTS
  Agents,       \* QMF agents, named as the bus names them
  Serves,       \* the objects of this assembly that each agent serves
  Requests,     \* operations, each given to the transport once
  Target,       \* Services for an operation of class lsb, or Resources
  NodeAnswers,  \* what the node's struct recover may answer to a failure
  SeqMod,       \* number of heartbeat sequence numbers, 2^32 in the code
  MaxAdds,      \* bound: announcements of agents
  MaxStrays,    \* bound: check timers whose handle has been overwritten
  None

Objects == {"host", "serv", "rsc"}

\* The objects on which operations call methods. The pending list of any
\* other object stays empty, and its job does nothing.
Callable == {Target[r] : r \in Requests}

ASSUME MatahariConstantsOK ==
  /\ Serves \in [Agents -> SUBSET Objects]
  /\ Target \in [Requests -> {"serv", "rsc"}]
  /\ None \notin Agents
  /\ NodeAnswers \subseteq {"restart", "escalate"}
  /\ SeqMod \in Nat /\ SeqMod > 1
  /\ MaxAdds \in Nat /\ MaxStrays \in Nat

VARIABLES
  m,     \* class Matahari, its objects and agents, and the loop's entries
  req,   \* the QmfAsyncRequests, with the operations in their user_data
  bus,   \* the agents as the bus knows them
  polled \* whether the loop polls the console session

vars == <<m, req, bus, polled>>

HbState == {"INIT", "OK", "NOT_RECEIVED", "SEQ_BAD"}

\* A freed request has refs = 0; op counts the references to the operation
\* that are this request's to give back: the one it took and the caller's.
NoRequest == [state |-> "NONE", queued |-> FALSE, refs |-> 0,
              timers |-> 0, out |-> [a \in Agents |-> 0], op |-> 0,
              misused |-> FALSE]

Init ==
  /\ m = [created |-> FALSE, node |-> "UNKNOWN", hb_state |-> "INIT",
          last_sequence |-> 0, late |-> FALSE,
          healthcheck_timer |-> FALSE, strays |-> 0, polls |-> 1,
          connected |-> {}, qa |-> [o \in Objects |-> None],
          objects |-> [a \in Agents |-> {}],
          unknown |-> {}, jobs |-> [o \in Callable |-> 0],
          null_call |-> FALSE]
  /\ req = [r \in Requests |-> NoRequest]
  /\ bus = [known |-> {}, adds |-> 0, sequence |-> [a \in Agents |-> 0],
            unanswered |-> {}]
  /\ polled = TRUE

\* Memory was used after it was freed, or through a NULL pointer: nothing is
\* known of the process any more.
Undefined == m.null_call \/ \E r \in Requests : req[r].misused

Up == ~Undefined

(***************************************************************************)
(* The object under the transport: qmf_object.cpp and matahari.cpp.        *)
(***************************************************************************)

disconnect(x, O) ==
  [x EXCEPT !.connected = @ \ O,
            !.qa = [o \in Objects |-> IF o \in O THEN None ELSE x.qa[o]]]

state_online_to_offline(x) ==
  [disconnect(x, Objects) EXCEPT !.hb_state = "INIT"]

\* The handle names the timer that was added last.
transport_disconnect(x) ==
  state_online_to_offline([x EXCEPT !.healthcheck_timer = FALSE])

\* qb_loop_timer_add overwrites the handle of a timer that is still armed.
timer_add(x) ==
  [x EXCEPT !.healthcheck_timer = TRUE,
            !.strays = IF x.healthcheck_timer THEN @ + 1 ELSE @]

\* cape.c: node_recover_restart, with the poll that instance_create starts.
node_recover_restart(x) ==
  [transport_disconnect(x) EXCEPT !.polls = @ + 1]

check_state(x, answer) ==
  LET y == IF x.hb_state = "OK" /\ x.late
           THEN [x EXCEPT !.hb_state = "NOT_RECEIVED"] ELSE x
      failed == [y EXCEPT !.node = "FAILED"]
  IN  IF x.node = "RUNNING"
      THEN IF y.hb_state = "OK" THEN y
           ELSE IF answer = "restart" THEN node_recover_restart(failed)
           ELSE failed
      ELSE IF x.hb_state = "OK" /\ x.connected = Objects
           THEN timer_add([x EXCEPT !.node = "RUNNING"]) ELSE x

\* uint32_t arithmetic.
plus_one(n) == IF n = SeqMod - 1 THEN 0 ELSE n + 1

\* A sequence check that does not wrap with the counter.
in_sequence_exact(x, sequence) == sequence = x.last_sequence + 1

in_sequence(x, sequence) == sequence <= plus_one(x.last_sequence)

heartbeat_recv(x, sequence) ==
  IF x.hb_state # "OK"
  THEN [x EXCEPT !.last_sequence = sequence, !.hb_state = "OK", !.late = FALSE]
  ELSE IF ~in_sequence(x, sequence)
  THEN [x EXCEPT !.hb_state = "SEQ_BAD"]
  ELSE [x EXCEPT !.last_sequence = sequence,
                 !.hb_state = IF x.late THEN "NOT_RECEIVED" ELSE @]

(***************************************************************************)
(* Requests: class QmfAsyncRequest and what is done with one.              *)
(***************************************************************************)

unref(q) == [q EXCEPT !.refs = IF @ > 0 THEN @ - 1 ELSE 0,
                      !.misused = @ \/ q.refs = 0]

\* A call without a reference for its timer.
send_unreferenced(q, a) ==
  [q EXCEPT !.state = "RUNNING", !.timers = @ + 1, !.out[a] = @ + 1,
            !.misused = @ \/ q.refs = 0]

\* A call without a timeout.
send_untimed(q, a) ==
  [q EXCEPT !.state = "RUNNING", !.refs = @ + 1, !.out[a] = @ + 1,
            !.misused = @ \/ q.refs = 0]

\* QmfAgent::call_method_async and the bookkeeping both callers repeat.
send(q, a) ==
  [q EXCEPT !.state = "RUNNING", !.refs = @ + 1, !.timers = @ + 1,
            !.out[a] = @ + 1, !.misused = @ \/ q.refs = 0]

\* Every answer gives back the request's reference to the operation.
method_response_n_balanced(q, n, ok) ==
  LET k == 2 * n IN
  [q EXCEPT !.state = "COMPLETED", !.op = IF @ < k THEN 0 ELSE @ - k,
            !.misused = @ \/ q.refs = 0 \/ q.op < k]

\* QmfObject::method_response n times: resource_method_response hands the
\* operation to resource_action_completed, which drops the caller's
\* reference, and after a good answer drops the reference it took itself.
method_response_n(q, n, ok) ==
  LET k == n + (IF ok THEN 1 ELSE 0) IN
  [q EXCEPT !.state = "COMPLETED", !.op = IF @ < k THEN 0 ELSE @ - k,
            !.misused = @ \/ q.refs = 0 \/ q.op < k]

method_response(q, ok) == method_response_n(q, 1, ok)

(***************************************************************************)
(* Calls from the rest of cape.                                            *)
(***************************************************************************)

\* instance_state_completion with "ACTIVE": transport_connect makes the
\* Matahari object once and keeps it over restarts.
instance_state_active ==
  /\ Up /\ m.polls > 0
  /\ m' = [m EXCEPT !.created = TRUE, !.polls = @ - 1]
  /\ UNCHANGED <<req, bus, polled>>

\* A poll answer that counts the assembly as stopped.
instance_state_stopped ==
  /\ Up /\ m.polls > 0
  /\ m.strays < MaxStrays
  /\ m' = [m EXCEPT !.node = "STOPPED"]
  /\ UNCHANGED <<req, bus, polled>>

\* Any other state: the poll repeats, and the node counts as UNKNOWN even
\* when its agents have made it RUNNING in the meantime.
instance_state_pending ==
  /\ Up /\ m.polls > 0
  /\ m.strays < MaxStrays
  /\ m' = [m EXCEPT !.node = "UNKNOWN"]
  /\ UNCHANGED <<req, bus, polled>>

\* Matahari::resource_action and QmfObject::method_call_async for an
\* operation that is not repeated.
resource_action(r) ==
  /\ Up /\ m.node = "RUNNING"
  /\ req[r].state = "NONE"
  /\ LET o == Target[r]
         q == [NoRequest EXCEPT !.refs = 1, !.op = 2]
     IN  /\ req' = [req EXCEPT ![r] =
              IF o \in m.connected THEN send(q, m.qa[o])
              ELSE [q EXCEPT !.state = "SCHEDULED", !.queued = TRUE]]
         /\ m' = [m EXCEPT !.null_call = o \in m.connected /\ m.qa[o] = None]
  /\ UNCHANGED <<bus, polled>>

\* An operation on a resource of another assembly is completed at once.
resource_action_foreign(r) ==
  /\ Up /\ m.node = "RUNNING"
  /\ req[r].state = "NONE"
  /\ req' = [req EXCEPT ![r] = [NoRequest EXCEPT !.state = "COMPLETED"]]
  /\ UNCHANGED <<m, bus, polled>>

(***************************************************************************)
(* Events of the console session: QmfMultiplexer::process_events.          *)
(***************************************************************************)

\* The function that calls process_events returns no value, so that the loop
\* may take the event source for finished.
poll_for_qmf_events == polled /\ polled' \in BOOLEAN

\* QmfObject::connect and QmfAgent::add. The connection handler checks the
\* state before the agent is set, so that an object which check_state has
\* disconnected is still given its agent.
connect(x, a, o, answer) ==
  IF o \in x.connected \/ o \notin Serves[a] THEN x
  ELSE LET j == [p \in Callable |->
                    IF p = o THEN x.jobs[p] + 1 ELSE x.jobs[p]]
           y == check_state([x EXCEPT !.connected = @ \cup {o}, !.jobs = j],
                            answer)
       IN  [y EXCEPT !.qa[o] = a, !.objects[a] = @ \cup {o}]

\* The objects were registered in the order Host, Services, Resources.
agent_add(a) ==
  /\ poll_for_qmf_events
  /\ Up /\ m.created
  /\ a \notin bus.known /\ bus.adds < MaxAdds
  /\ m.strays < MaxStrays
  /\ \E answer \in NodeAnswers :
       m' = connect(connect(connect(m, a, "host", answer),
                            a, "serv", answer), a, "rsc", answer)
  /\ bus' = [bus EXCEPT !.known = @ \cup {a}, !.adds = @ + 1]
  /\ UNCHANGED req

\* Forgetting the objects without telling them.
agent_del_attached(a) ==
  /\ poll_for_qmf_events
  /\ Up /\ a \in bus.known
  /\ req' = [r \in Requests |->
       LET q == req[r] IN
       IF q.out[a] = 0 THEN q
       ELSE [method_response_n(q, q.out[a], FALSE) EXCEPT !.out[a] = 0]]
  /\ m' = [m EXCEPT !.objects[a] = {}]
  /\ bus' = [bus EXCEPT !.known = @ \ {a}]

\* QmfAgent::~QmfAgent cancels every outstanding call, then disconnects
\* every object that ever attached to this agent, whichever agent the
\* object belongs to by now. The requests keep the reference of the call.
agent_del(a) ==
  /\ poll_for_qmf_events
  /\ Up /\ a \in bus.known
  /\ req' = [r \in Requests |->
       LET q == req[r] IN
       IF q.out[a] = 0 THEN q
       ELSE [method_response_n(q, q.out[a], FALSE) EXCEPT !.out[a] = 0]]
  /\ m' = [disconnect(m, m.objects[a]) EXCEPT
             !.objects[a] = {}, !.null_call = a \in m.unknown]
  /\ bus' = [bus EXCEPT !.known = @ \ {a},
                        !.unanswered = IF \E r \in Requests : req[r].out[a] > 0
                                       THEN @ \cup {a} ELSE @]

\* The answer of a call: QmfAgent::process_event. A good answer counts only
\* while the request is RUNNING, an exception always.
method_event(a, r, ok) ==
  /\ poll_for_qmf_events
  /\ Up /\ a \in bus.known
  /\ req[r].out[a] > 0
  /\ LET q == IF ok /\ req[r].state # "RUNNING" THEN req[r]
              ELSE method_response(req[r], ok)
     IN  req' = [req EXCEPT ![r] = [unref(q) EXCEPT !.out[a] = @ - 1]]
  /\ UNCHANGED <<m, bus>>

\* The answer of a call that an earlier QmfAgent of this name made: looking
\* it up puts a NULL entry into _outstanding_calls.
unknown_request(a) ==
  /\ poll_for_qmf_events
  /\ Up /\ a \in bus.known /\ m.objects[a] # {}
  /\ a \in bus.unanswered
  /\ m' = [m EXCEPT !.unknown = @ \cup {a}]
  /\ bus' = [bus EXCEPT !.unanswered = @ \ {a}]
  /\ UNCHANGED req

\* A heartbeat: host_event_handler runs when the Host object has been
\* attached to the agent, whether it still is or not.
heartbeat(a) ==
  /\ poll_for_qmf_events
  /\ Up /\ "host" \in m.objects[a]
  /\ m.strays < MaxStrays
  /\ bus' = [bus EXCEPT !.sequence[a] = plus_one(@)]
  /\ \E answer \in NodeAnswers :
       m' = check_state(heartbeat_recv(m, bus.sequence[a]), answer)
  /\ UNCHANGED req

\* A heartbeat is lost, or sent while no object listens.
heartbeat_lost(a) ==
  /\ Up /\ a \in bus.known /\ "host" \in Serves[a]
  /\ bus' = [bus EXCEPT !.sequence[a] = plus_one(@)]
  /\ UNCHANGED <<m, req, polled>>

(***************************************************************************)
(* Timers and jobs of the loop.                                            *)
(***************************************************************************)

\* _last_heartbeat passes HEALTHCHECK_TIMEOUT. It is read only in state OK.
silence ==
  /\ Up /\ m.hb_state = "OK" /\ ~m.late
  /\ m' = [m EXCEPT !.late = TRUE]
  /\ UNCHANGED <<req, bus, polled>>

\* A check that is not repeated.
rearm_never(x) == x

rearm(x) == IF x.node = "RUNNING" THEN timer_add(x) ELSE x

heartbeat_check_tmo ==
  /\ Up
  /\ \/ m.healthcheck_timer
        /\ \E answer \in NodeAnswers :
             m' = rearm(check_state([m EXCEPT !.healthcheck_timer = FALSE],
                                    answer))
     \/ m.strays > 0
        /\ \E answer \in NodeAnswers :
             m' = rearm(check_state([m EXCEPT !.strays = @ - 1], answer))
  /\ UNCHANGED <<req, bus, polled>>

\* The list of pending calls is sent, and never emptied.
run_pending_calls(o) ==
  /\ Up /\ m.jobs[o] > 0
  /\ LET P == {r \in Requests : req[r].queued /\ Target[r] = o}
     IN  /\ m' = [m EXCEPT !.jobs[o] = @ - 1,
                           !.null_call = P # {} /\ m.qa[o] = None]
         /\ req' = [r \in Requests |->
              IF r \in P /\ m.qa[o] # None THEN send(req[r], m.qa[o])
              ELSE req[r]]
  /\ UNCHANGED <<bus, polled>>

method_call_tmo(r) ==
  /\ Up /\ req[r].timers > 0
  /\ LET q == IF req[r].state = "COMPLETED" THEN req[r]
              ELSE method_response(req[r], FALSE)
     IN  req' = [req EXCEPT ![r] = [unref(q) EXCEPT !.timers = @ - 1]]
  /\ UNCHANGED <<m, bus, polled>>

Stopped == ~Up /\ UNCHANGED vars

Next ==
  \/ instance_state_active
  \/ instance_state_pending
  \/ \E r \in Requests : resource_action(r)
  \/ \E r \in Requests : resource_action_foreign(r)
  \/ \E a \in Agents : agent_add(a)
  \/ \E a \in Agents : agent_del(a)
  \/ \E a \in Agents, r \in Requests, ok \in BOOLEAN : method_event(a, r, ok)
  \/ \E a \in Agents : unknown_request(a)
  \/ \E a \in Agents : heartbeat(a)
  \/ \E a \in Agents : heartbeat_lost(a)
  \/ silence
  \/ heartbeat_check_tmo
  \/ \E o \in Callable : run_pending_calls(o)
  \/ \E r \in Requests : method_call_tmo(r)
  \/ Stopped

Spec == Init /\ [][Next]_vars

(***************************************************************************)
(* Fairness: the loop runs its jobs and its timers expire. Of the bus,     *)
(* that an agent which is listened to goes on sending heartbeats, and of   *)
(* time that it passes when none is. No agent is assumed to be announced,  *)
(* to be forgotten or to answer.                                           *)
(***************************************************************************)
Fairness ==
  /\ WF_vars(heartbeat_check_tmo)
  /\ WF_vars(/\ silence
             /\ polled => \A a \in Agents : "host" \notin m.objects[a])
  /\ \A r \in Requests : WF_vars(method_call_tmo(r))
  /\ \A o \in Callable : WF_vars(run_pending_calls(o))
  /\ \A a \in Agents : WF_vars(heartbeat(a))

FairSpec == Spec /\ Fairness

(***************************************************************************)
(* Properties                                                              *)
(***************************************************************************)

\* Every variable keeps its type.
TypeOK ==
  /\ m \in [created : BOOLEAN, node : {"UNKNOWN", "RUNNING", "FAILED"},
            hb_state : HbState, last_sequence : 0 .. SeqMod - 1,
            late : BOOLEAN, healthcheck_timer : BOOLEAN, strays : Nat,
            polls : Nat, connected : SUBSET Objects,
            qa : [Objects -> Agents \cup {None}],
            objects : [Agents -> SUBSET Objects], unknown : SUBSET Agents,
            jobs : [Callable -> Nat], null_call : BOOLEAN]
  /\ req \in [Requests ->
       [state : {"NONE", "SCHEDULED", "RUNNING", "COMPLETED"},
        queued : BOOLEAN, refs : Nat, timers : Nat,
        out : [Agents -> Nat], op : 0 .. 2, misused : BOOLEAN]]
  /\ bus \in [known : SUBSET Agents, adds : Nat,
              sequence : [Agents -> 0 .. SeqMod - 1],
              unanswered : SUBSET Agents]
  /\ polled \in BOOLEAN

\* No interleaving of answers, exceptions, timeouts and cancellations frees a
\* request or its operation while something still points at it, as long as
\* the call was sent when it was made: what goes wrong needs a call that
\* waited in _pending_jobs, or an answer to an agent's forgotten predecessor.
SentCallsSafe ==
  Undefined =>
    \/ \E r \in Requests : req[r].queued
    \/ \E a \in m.unknown : a \notin bus.known

\* The timer and the outstanding call each hold a reference to the request.
RequestsReferenced ==
  Up => \A r \in Requests :
    LET q == req[r] IN
    ~q.queued =>
      q.refs >= q.timers + (IF \E a \in Agents : q.out[a] > 0 THEN 1 ELSE 0)

\* An object never points at an agent that is gone: whatever the order of
\* announcements, restarts and deletions, the agent an object would send its
\* call to still has the object in its list.
AgentPointersValid ==
  \A o \in Objects :
    /\ m.qa[o] # None => o \in m.objects[m.qa[o]] /\ m.qa[o] \in bus.known
    /\ o \in m.connected => m.qa[o] # None

\* A RUNNING node is watched: its heartbeat is in order and a check is due.
RunningIsChecked ==
  m.node = "RUNNING" =>
    m.hb_state = "OK" /\ (m.healthcheck_timer \/ m.strays > 0)

\* A node fails only for a reason: twenty silent seconds, or a heartbeat that
\* is not the successor of the last one, also where the counter wraps.
FailureHasCause ==
  [][m.node = "RUNNING" /\ m'.node = "FAILED" =>
       \/ m.late
       \/ \E a \in bus.known :
            /\ bus'.sequence[a] # bus.sequence[a]
            /\ bus.sequence[a] # plus_one(m.last_sequence)]_vars

\* Silence is noticed without any event from the bus.
SilenceNoticed ==
  m.node = "RUNNING" /\ m.late ~> m.node # "RUNNING" \/ ~m.late \/ ~Up

\* A call that was sent is answered, if only by its timeout.
SentCallAnswered ==
  \A r \in Requests :
    req[r].state = "RUNNING" ~> req[r].state # "RUNNING" \/ ~Up

\* What the overview says of a resource, that it is actively monitored: an
\* operation for a node that stays RUNNING is answered.
OperationAnswered ==
  \A r \in Requests :
    req[r].state \in {"SCHEDULED", "RUNNING"} ~>
      req[r].state = "COMPLETED" \/ m.node # "RUNNING" \/ ~Up
=============================================================================

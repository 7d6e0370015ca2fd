----------------------------- MODULE CapeProofs -----------------------------
(***************************************************************************)
(* Proofs about the policy side of cape, for any number of assemblies and  *)
(* resources, any bounds, and every kind of trouble but "replan": a policy *)
(* engine that stops a resource whose recurring monitor is in flight makes *)
(* the invariants below false (Cape's MonitorsStopped among them).         *)
(*                                                                         *)
(* The functions of cape.c are operators on the data c, so the argument is *)
(* in terms of them: lemmas say what each does to the fields, then which   *)
(* of them preserve the invariant, and an action is a composition.         *)
(***************************************************************************)
EXTENDS Cape, Queues, TLAPS

NoReplan == "replan" \notin Faults

(***************************************************************************)
(* The type of the data.                                                   *)
(***************************************************************************)

\* What is left of a resource's plan.
Plans == {<<>>, <<"monitor">>, <<"start", "monitor">>, <<"stop">>,
          <<"stop", "start", "monitor">>, <<"probe", "start", "monitor">>}

OpRec == [step : Step \cup {"none"}, times : 0 .. 2, current : BOOLEAN]

\* The types of the fields, by name so that a proof that only moves a field
\* around need not look into it.
OpType == [OpId -> OpRec]
RefsType == [OpId -> Int]
MonitorType == [Resources -> OpId \cup {None}]
TimersType == SUBSET OpId
StateType == [Resources -> RecoverState]
EntriesType == [Step -> Codes \cup {"none"}]
HistoryType == [Resources -> EntriesType]
LastType == [Resources -> Step \cup {"none"}]
QueueType == [Assemblies -> Seq(OpId)]
LinksType == SUBSET Assemblies
TodoType == [Resources -> Plans]
FiredType == [Resources -> BOOLEAN]
JobsType == 0 .. MaxJobs
ProcessType == {"up", "aborted"}

Data ==
  [op : OpType, refs : RefsType,
   monitor_op : MonitorType, monitor_timer : MonitorType,
   timers : TimersType, state : StateType,
   history : HistoryType, last : LastType,
   queue : QueueType, connected : LinksType, destroyed : LinksType,
   busy : BOOLEAN, updated : BOOLEAN, abort : BOOLEAN, probes : LinksType,
   todo : TodoType, fired : FiredType, jobs : JobsType, process : ProcessType]

NodeType == [Assemblies -> {"UNKNOWN", "RUNNING", "FAILED"}]

(***************************************************************************)
(* The inductive invariant. n is the state of the nodes.                   *)
(***************************************************************************)

\* An operation whose completion is still to come.
Active(x, o) == InFlight(x, o) \/ o \in x.timers

\* It is the step of the transition in progress that its resource waits for.
Fresh(x, o) ==
  /\ x.op[o].times = 0 /\ x.op[o].current
  /\ x.busy /\ x.fired[o[1]]
  /\ x.todo[o[1]] # <<>> /\ x.op[o].step = Head(x.todo[o[1]])

\* It is a recurring monitor whose resource is in order, so that no plan
\* contains anything for the resource.
Settled(x, o) ==
  /\ x.op[o].times > 0 /\ x.op[o].step = "monitor"
  /\ x.todo[o[1]] = <<>>
  /\ x.last[o[1]] = "monitor" /\ x.history[o[1]]["monitor"] = "OK"

QueueInv(x, a) ==
  /\ IsInjective(x.queue[a])
  /\ \A o \in Range(x.queue[a]) : Home[o[1]] = a
  /\ x.queue[a] # <<>> => a \in x.connected

\* An active operation is fresh or settled and the only one of its resource;
\* a monitor is the one monitor_op points at.
OpInv(x, o) ==
  Active(x, o) =>
    /\ (Fresh(x, o) /\ o \notin x.timers) \/ Settled(x, o)
    /\ x.op[o].step = "monitor" =>
         x.monitor_op[o[1]] = o /\ ~HardError(x.history[o[1]])
    /\ \A p \in OpId : Active(x, p) /\ p[1] = o[1] => p = o
    /\ o \in x.timers => /\ ~InFlight(x, o) /\ x.monitor_timer[o[1]] = o
                         /\ Home[o[1]] \in x.connected

StopFailed(h) == h["stop"] \notin {"none", "OK"}

\* What holds of each resource. A hard error allows a stop at most, a stop
\* that failed nothing at all, until the node is restarted.
ResInv(x, r) ==
  /\ x.monitor_op[r] # None =>
       x.monitor_op[r][1] = r /\ x.op[x.monitor_op[r]].step = "monitor"
  /\ x.monitor_timer[r] # None => x.monitor_timer[r][1] = r
  /\ x.fired[r] => x.busy /\ x.todo[r] # <<>>
  /\ ~x.busy => x.todo[r] = <<>>
  /\ x.last[r] = "none" => x.history[r] = NoHistory
  /\ StopFailed(x.history[r]) =>
       /\ x.last[r] = "stop" /\ ~x.fired[r]
       /\ x.busy /\ ~x.abort => x.todo[r] = <<>>
  /\ HardError(x.history[r]) /\ x.busy /\ ~x.abort =>
       x.todo[r] \in {<<>>, <<"stop">>}

\* Without a process_job left, the transition in progress completes what the
\* history asks for.
PlanInv(x, n, r) ==
  x.jobs = 0 /\ n[Home[r]] = "RUNNING" =>
    /\ x.todo[r] = <<>> => Plan(x.history[r], x.last[r], FALSE) = <<>>
    /\ x.todo[r] = <<"stop">> =>
         \E k \in Step \ {"stop"} : x.history[r][k] = "HARD_ERROR"

Core(x, n) ==
  /\ \A a \in Assemblies : QueueInv(x, a)
  /\ \A o \in OpId : OpInv(x, o)
  /\ \A r \in Resources : ResInv(x, r) /\ PlanInv(x, n, r)
  /\ ~x.busy => ~x.abort
  /\ x.abort => x.jobs > 0
  /\ \A a \in Assemblies : n[a] = "RUNNING" => a \in x.connected

Counted(x) == \A o \in OpId : x.refs[o] >= Holders(x, o)

IInv(x, n) == x \in Data /\ n \in NodeType /\ Core(x, n) /\ Counted(x)

(***************************************************************************)
(* Identifiers and plans.                                                  *)
(***************************************************************************)

\* An operation identifies its resource, and through it its assembly.
LEMMA OpIdFacts ==
  ASSUME NEW o \in OpId
  PROVE  o[1] \in Resources /\ Home[o[1]] \in Assemblies /\ o # None
<1>1. o[1] \in Resources
  BY DEF OpId
<1>2. Home[o[1]] \in Assemblies
  BY <1>1, CapeConstantsOK
<1>3. o # None
  BY DEF OpId, None
<1> QED
  BY <1>1, <1>2, <1>3

\* A plan that only stops the resource is none of the others.
LEMMA StopAlone ==
  /\ <<"stop">> # <<>> /\ <<"monitor">> # <<"stop">>
  /\ <<"start", "monitor">> # <<"stop">>
  /\ <<"probe", "start", "monitor">> # <<"stop">>
  /\ <<"stop", "start", "monitor">> # <<"stop">>
<1>1. /\ Len(<<"stop">>) = 1 /\ Len(<<"start", "monitor">>) = 2
      /\ Len(<<"probe", "start", "monitor">>) = 3
      /\ Len(<<"stop", "start", "monitor">>) = 3
  OBVIOUS
<1>2. <<"stop">> # <<>> /\ <<"monitor">> # <<"stop">>
  OBVIOUS
<1> QED
  BY <1>1, <1>2

\* The steps of a plan are taken one by one.
LEMMA PlanSteps ==
  ASSUME NEW p \in Plans, p # <<>>
  PROVE  /\ Head(p) \in Step /\ Tail(p) \in Plans /\ Tail(p) # <<"stop">>
         /\ Head(p) = "monitor" => Tail(p) = <<>>
         /\ Tail(p) = <<>> => Head(p) = "monitor" \/ p = <<"stop">>
         /\ p = <<"stop">> => Head(p) = "stop" /\ Tail(p) = <<>>
<1>1. CASE p = <<"monitor">>
  <2>1. Head(p) = "monitor" /\ Tail(p) = <<>>
    BY <1>1
  <2> QED
    BY <1>1, <2>1 DEF Plans, Step
<1>2. CASE p = <<"start", "monitor">>
  <2>1. Head(p) = "start" /\ Tail(p) = <<"monitor">>
    BY <1>2
  <2> QED
    BY <1>2, <2>1 DEF Plans, Step
<1>3. CASE p = <<"stop">>
  <2>1. Head(p) = "stop" /\ Tail(p) = <<>>
    BY <1>3
  <2> QED
    BY <1>3, <2>1 DEF Plans, Step
<1>4. CASE p = <<"stop", "start", "monitor">>
  <2>1. Head(p) = "stop" /\ Tail(p) = <<"start", "monitor">>
    BY <1>4
  <2> QED
    BY <1>4, <2>1 DEF Plans, Step
<1>5. CASE p = <<"probe", "start", "monitor">>
  <2>1. Head(p) = "probe" /\ Tail(p) = <<"start", "monitor">>
    BY <1>5
  <2> QED
    BY <1>5, <2>1 DEF Plans, Step
<1> QED
  BY <1>1, <1>2, <1>3, <1>4, <1>5 DEF Plans

\* What the policy engine plans.
LEMMA PlanFacts ==
  ASSUME NEW h \in EntriesType,
         NEW last \in Step \cup {"none"}
  PROVE  /\ Plan(h, last, FALSE) \in Plans
         /\ last = "monitor" /\ h["monitor"] = "OK" /\ ~HardError(h) =>
              Plan(h, last, FALSE) = <<>>
         /\ last = "stop" /\ (HardError(h) \/ h["stop"] # "OK") =>
              Plan(h, last, FALSE) = <<>>
         /\ HardError(h) /\ last # "none" =>
              Plan(h, last, FALSE) \in {<<>>, <<"stop">>}
         /\ Plan(h, last, FALSE) = <<"stop">> =>
              HardError(h) /\ last # "stop"
<1>1. CASE last = "none"
  <2>1. Plan(h, last, FALSE) = <<"probe", "start", "monitor">>
    BY <1>1 DEF Plan, Step
  <2> QED
    BY <1>1, <2>1, StopAlone DEF Plans
<1>2. CASE last = "stop"
  <2>1. Plan(h, last, FALSE) = IF h["stop"] = "OK" /\ ~HardError(h)
                               THEN <<"start", "monitor">> ELSE <<>>
    BY <1>2 DEF Plan, Step
  <2> QED
    BY <1>2, <2>1, StopAlone, Zenon DEF Plans
<1>3. CASE last \in Step \ {"stop"} /\ HardError(h)
  <2>1. Plan(h, last, FALSE) = <<"stop">>
    BY <1>3 DEF Plan, Step
  <2> QED
    BY <1>3, <2>1, StopAlone DEF Plans
<1>4. CASE last \in {"probe", "start"} /\ ~HardError(h)
  <2>1. Plan(h, last, FALSE) \in {<<"start", "monitor">>, <<"monitor">>,
                                  <<"stop", "start", "monitor">>}
    BY <1>4 DEF Plan, Step
  <2> QED
    BY <1>4, <2>1, StopAlone, Zenon DEF Plans
<1>5. CASE last = "monitor" /\ ~HardError(h)
  <2>1. Plan(h, last, FALSE) = IF h[last] = "OK" THEN <<>>
                               ELSE <<"stop", "start", "monitor">>
    BY <1>5 DEF Plan, Step
  <2> QED
    BY <1>5, <2>1, StopAlone, Zenon DEF Plans
<1> QED
  BY <1>1, <1>2, <1>3, <1>4, <1>5, Zenon DEF Step

(***************************************************************************)
(* What the functions do to the fields. Those that no invariant reads      *)
(* (state, destroyed, updated, probes) are only of the right type.         *)
(***************************************************************************)

SameOps(x, y) == y.op = x.op /\ y.refs = x.refs

SameMonitors(x, y) ==
  y.monitor_op = x.monitor_op /\ y.monitor_timer = x.monitor_timer

SameHistory(x, y) == y.history = x.history /\ y.last = x.last

SameLinks(x, y) ==
  y.queue = x.queue /\ y.connected = x.connected /\ y.process = x.process

SameGraph(x, y) ==
  y.busy = x.busy /\ y.abort = x.abort /\ y.todo = x.todo /\ y.fired = x.fired

\* resource_recover, the callback of a resource that FAILED, only touches the
\* monitor's timer and, to escalate, the instance.
LEMMA RecoverFields ==
  ASSUME NEW x \in Data, NEW r \in Resources, NEW s \in RecoverState,
         NEW answer, NEW y, y = recover_state_set(x, r, s, answer)
  PROVE  /\ y \in Data
         /\ SameOps(x, y) /\ SameMonitors(x, y) /\ SameHistory(x, y)
         /\ SameLinks(x, y) /\ SameGraph(x, y) /\ y.jobs = x.jobs
         /\ y.timers \in {x.timers, x.timers \ {x.monitor_timer[r]}}
         /\ s # "FAILED" => y.timers = x.timers
<1> USE DEF SameOps, SameMonitors, SameHistory, SameLinks, SameGraph
<1> DEFINE z == [x EXCEPT !.state[r] = s]
           d == timer_del(z, r)
<1>1. z \in Data /\ SameOps(x, z) /\ SameMonitors(x, z) /\ SameHistory(x, z)
      /\ SameLinks(x, z) /\ SameGraph(x, z) /\ z.jobs = x.jobs
      /\ z.timers = x.timers
  <2> DEFINE f == [x.state EXCEPT ![r] = s]
  <2>1. f \in StateType
    BY DEF Data, StateType
  <2>2. z = [x EXCEPT !.state = f]
    OBVIOUS
  <2> HIDE DEF f
  <2> QED
    BY <2>1, <2>2 DEF Data
<1>2. d \in Data /\ SameOps(z, d) /\ SameMonitors(z, d) /\ SameHistory(z, d)
      /\ SameLinks(z, d) /\ SameGraph(z, d) /\ d.jobs = z.jobs
      /\ d.timers = z.timers \ {z.monitor_timer[r]}
  <2> HIDE DEF z
  <2> DEFINE f == z.timers \ {z.monitor_timer[r]}
  <2>1. f \in TimersType
    BY <1>1 DEF Data, TimersType
  <2>2. d = [z EXCEPT !.timers = f]
    BY DEF timer_del
  <2> HIDE DEF f, d
  <2>3. z \in Data
    BY <1>1
  <2>4. /\ d \in Data /\ SameOps(z, d) /\ SameMonitors(z, d)
        /\ SameHistory(z, d) /\ SameLinks(z, d) /\ SameGraph(z, d)
        /\ d.jobs = z.jobs /\ d.timers = f
    BY <2>1, <2>2, <2>3 DEF Data
  <2> QED
    BY <2>4 DEF f
<1>3. CASE x.state[r] = s
  BY <1>3 DEF recover_state_set
<1>4. CASE x.state[r] # s /\ s # "FAILED"
  BY <1>1, <1>4 DEF recover_state_set
<1>5. CASE x.state[r] # s /\ s = "FAILED" /\ answer # "escalate"
  <2>1. y = d
    BY <1>5 DEF recover_state_set, resource_recover
  <2> HIDE DEF d, z
  <2> QED
    BY <1>1, <1>2, <1>5, <2>1
<1>6. CASE x.state[r] # s /\ s = "FAILED" /\ answer = "escalate"
  <2>1. y = [d EXCEPT !.destroyed = @ \cup {Home[r]}]
    BY <1>6 DEF recover_state_set, resource_recover
  <2> HIDE DEF d, z
  <2>2. d \in Data
    BY <1>2
  <2>3. d.destroyed \cup {Home[r]} \in LinksType
    BY <2>2, CapeConstantsOK DEF Data, LinksType
  <2>4. y \in Data /\ SameOps(d, y) /\ SameMonitors(d, y) /\ SameHistory(d, y)
        /\ SameLinks(d, y) /\ SameGraph(d, y) /\ d.jobs = y.jobs
        /\ d.timers = y.timers
    BY <2>1, <2>2, <2>3, SMTT(30) DEF Data
  <2> QED
    BY <1>1, <1>2, <1>6, <2>4
<1> QED
  BY <1>3, <1>4, <1>5, <1>6

\* One reference less; the last one frees the operation.
LEMMA UnrefFields ==
  ASSUME NEW x \in Data, NEW o \in OpId, NEW y, y = pe_resource_unref(x, o)
  PROVE  /\ y \in Data
         /\ SameMonitors(x, y) /\ SameHistory(x, y) /\ SameLinks(x, y)
         /\ SameGraph(x, y) /\ y.jobs = x.jobs /\ y.timers = x.timers
         /\ y.refs = [x.refs EXCEPT ![o] = @ - 1]
         /\ y.op = [x.op EXCEPT ![o] = IF x.refs[o] = 1 THEN NoOp ELSE @]
<1> DEFINE f == [x.refs EXCEPT ![o] = @ - 1]
           g == [x.op EXCEPT ![o] = IF x.refs[o] = 1 THEN NoOp ELSE @]
<1>1. y = [x EXCEPT !.refs = f, !.op = g]
  BY DEF pe_resource_unref
<1>2. f \in RefsType
  BY DEF Data, RefsType
<1>3. g \in OpType
  BY DEF Data, OpType, OpRec, NoOp
<1> HIDE DEF f, g
<1>4. /\ y \in Data /\ y.refs = f /\ y.op = g
      /\ SameMonitors(x, y) /\ SameHistory(x, y) /\ SameLinks(x, y)
      /\ SameGraph(x, y) /\ y.jobs = x.jobs /\ y.timers = x.timers
  BY <1>1, <1>2, <1>3, ZenonT(30)
  DEF Data, SameMonitors, SameHistory, SameLinks, SameGraph
<1> QED
  BY <1>4 DEF f, g

\* schedule_processing adds a process_job.
LEMMA ScheduleFields ==
  ASSUME NEW x \in Data, NEW y, y = schedule_processing(x)
  PROVE  /\ y \in Data
         /\ SameOps(x, y) /\ SameMonitors(x, y) /\ SameHistory(x, y)
         /\ SameLinks(x, y) /\ SameGraph(x, y) /\ y.timers = x.timers
         /\ y.jobs > 0
<1> DEFINE j == IF x.jobs < MaxJobs THEN x.jobs + 1 ELSE MaxJobs
<1>1. y = [x EXCEPT !.jobs = j]
  BY DEF schedule_processing
<1>2. j \in JobsType /\ j > 0
  BY CapeConstantsOK DEF Data, JobsType
<1> HIDE DEF j
<1> QED
  BY <1>1, <1>2
  DEF Data, SameOps, SameMonitors, SameHistory, SameLinks, SameGraph

\* What remains of a plan, and whether its next action waits for a
\* completion, once operation o has completed.
TodoAfter(x, o) ==
  IF x.op[o].times = 0 THEN [x.todo EXCEPT ![o[1]] = Tail(@)] ELSE x.todo

FiredAfter(x, o) ==
  IF x.op[o].times = 0 THEN [x.fired EXCEPT ![o[1]] = FALSE] ELSE x.fired

\* An operation that can complete: its action, if it still has to confirm
\* one, is an action of the transition in progress.
Completable(x, o) ==
  /\ x.op[o].step \in Step
  /\ x.op[o].times = 0 =>
       x.busy /\ x.op[o].current /\ x.todo[o[1]] # <<>>

\* What the first half of resource_action_completed, which saves the history
\* entry and confirms the action, does to the fields.
Confirms(x, y, o, rc) ==
  /\ y.refs = x.refs
  /\ SameMonitors(x, y) /\ SameLinks(x, y)
  /\ y.jobs = x.jobs /\ y.timers = x.timers /\ y.busy = x.busy
  /\ y.history = [x.history EXCEPT ![o[1]] = [@ EXCEPT ![x.op[o].step] = rc]]
  /\ y.last = [x.last EXCEPT ![o[1]] = x.op[o].step]
  /\ y.todo = TodoAfter(x, o) /\ y.fired = FiredAfter(x, o)
  /\ y.abort <=> \/ x.abort
                 \/ x.op[o].times = 0 /\ rc # target_outcome(x.op[o])
  /\ \A p \in OpId \ {o} : y.op[p] = x.op[p]
  /\ y.op[o].times > 0 /\ y.op[o].step = x.op[o].step

\* It is that first half.
LEMMA ConfirmFields ==
  ASSUME NEW x \in Data, NEW o \in OpId, NEW rc \in Codes, Completable(x, o),
         NEW x1, NEW x2,
         x1 = op_history_save(
                [x EXCEPT !.op[o].times = IF @ < 2 THEN @ + 1 ELSE 2], o, rc),
         x2 = IF x.op[o].times = 0
              THEN pe_resource_completed(x1, o, rc) ELSE x1
  PROVE  x2 \in Data /\ Confirms(x, x2, o, rc)
<1> DEFINE r == o[1]
           k == x.op[o].step
           t == IF x.op[o].times < 2 THEN x.op[o].times + 1 ELSE 2
           g == [x.op EXCEPT ![o] = [@ EXCEPT !.times = t]]
           h == [x.history EXCEPT ![r] = [@ EXCEPT ![k] = rc]]
           l == [x.last EXCEPT ![r] = k]
           x0 == [x EXCEPT !.op = g]
<1>1. r \in Resources /\ k \in Step /\ x.op[o] \in OpRec
  BY OpIdFacts DEF Completable, Data, OpType
<1>2. t \in 0 .. 2 /\ t > 0
  BY <1>1 DEF OpRec
<1>3. /\ g \in OpType /\ g[o].times = t /\ g[o].step = k
      /\ g[o].current = x.op[o].current
      /\ target_outcome(g[o]) = target_outcome(x.op[o])
      /\ \A p \in OpId \ {o} : g[p] = x.op[p]
  <2> HIDE DEF t
  <2>1. x.op \in [OpId -> OpRec]
    BY DEF Data, OpType
  <2>2. [x.op[o] EXCEPT !.times = t] \in OpRec
    BY <1>1, <1>2 DEF OpRec
  <2> QED
    BY <1>1, <2>1, <2>2 DEF OpType, OpRec, target_outcome
<1>4. h \in HistoryType
  <2>1. x.history \in HistoryType
    BY DEF Data
  <2>2. [x.history[r] EXCEPT ![k] = rc] \in EntriesType
    BY <1>1, <2>1 DEF HistoryType, EntriesType
  <2> QED
    BY <1>1, <2>1, <2>2 DEF HistoryType
<1>5. l \in LastType
  BY <1>1 DEF Data, LastType
<1>6. x0 = [x EXCEPT !.op[o].times = IF @ < 2 THEN @ + 1 ELSE 2]
  OBVIOUS
<1> HIDE DEF g, t
<1>7. /\ x0 \in Data /\ x0.op = g /\ SameHistory(x, x0)
      /\ x0.refs = x.refs /\ SameMonitors(x, x0) /\ SameLinks(x, x0)
      /\ SameGraph(x, x0) /\ x0.jobs = x.jobs /\ x0.timers = x.timers
  BY <1>3 DEF Data, SameHistory, SameMonitors, SameLinks, SameGraph
<1> HIDE DEF x0
<1>8. x1 = [x0 EXCEPT !.history = h, !.last = l]
  <2>1. x0.op[o].step = k /\ x0.history = x.history /\ x0.last = x.last
    BY <1>3, <1>7 DEF SameHistory
  <2>2. x1 = op_history_save(x0, o, rc)
    BY <1>6
  <2> HIDE DEF k
  <2> QED
    BY <2>1, <2>2, Zenon DEF op_history_save
<1> HIDE DEF h, l
<1>9. /\ x1 \in Data /\ x1.op = g /\ x1.history = h /\ x1.last = l
      /\ x1.refs = x.refs /\ SameMonitors(x, x1) /\ SameLinks(x, x1)
      /\ SameGraph(x, x1) /\ x1.jobs = x.jobs /\ x1.timers = x.timers
  <2>1. /\ x1 \in Data /\ SameOps(x0, x1) /\ x1.history = h /\ x1.last = l
        /\ SameMonitors(x0, x1) /\ SameLinks(x0, x1) /\ SameGraph(x0, x1)
        /\ x1.jobs = x0.jobs /\ x1.timers = x0.timers
    BY <1>4, <1>5, <1>7, <1>8, ZenonT(30)
    DEF Data, SameOps, SameMonitors, SameLinks, SameGraph
  <2> QED
    BY <1>7, <2>1, Zenon DEF SameOps, SameMonitors, SameLinks, SameGraph
<1>10. CASE x.op[o].times # 0
  <2>1. x2 = x1
    BY <1>10
  <2>2. x2.todo = TodoAfter(x, o) /\ x2.fired = FiredAfter(x, o)
    BY <1>9, <1>10, <2>1, Zenon DEF SameGraph, TodoAfter, FiredAfter
  <2>3. x2.op[o].times > 0 /\ x2.op[o].step = x.op[o].step
    BY <1>2, <1>3, <1>9, <2>1, Zenon
  <2>4. x2.abort = x.abort /\ x2.busy = x.busy
    BY <1>9, <2>1, Zenon DEF SameGraph
  <2> QED
    BY <1>3, <1>9, <1>10, <2>1, <2>2, <2>3, <2>4, ZenonT(30) DEF h, l, Confirms
<1>11. CASE x.op[o].times = 0
  <2> DEFINE td == [x.todo EXCEPT ![r] = Tail(@)]
             fd == [x.fired EXCEPT ![r] = FALSE]
             ab == x.abort \/ rc # target_outcome(x.op[o])
  <2>1. x.busy /\ x.op[o].current /\ x.todo[r] # <<>>
    BY <1>11, Zenon DEF Completable
  <2>2. /\ x1.busy /\ x1.op[o].current /\ x1.abort = x.abort
        /\ x1.todo = x.todo /\ x1.fired = x.fired
        /\ target_outcome(x1.op[o]) = target_outcome(x.op[o])
    BY <1>3, <1>9, <2>1, Zenon DEF SameGraph
  <2>3. x1.fired \in FiredType
    BY <1>9, Zenon DEF Data
  <2>4. x2 = [x1 EXCEPT !.abort = ab, !.todo = td, !.fired = fd,
                        !.updated = TRUE]
    <3>1. x1.fired[r] /\ ~x1.op[o].current <=> FALSE
      BY <2>2, Zenon
    <3> HIDE DEF r
    <3> QED
      BY <1>11, <2>2, <3>1, ZenonT(30) DEF pe_resource_completed, r
  <2>5. td \in TodoType
    BY <1>1, <2>1, PlanSteps DEF Data, TodoType
  <2>6. fd \in FiredType /\ ab \in BOOLEAN
    BY <1>1 DEF Data, FiredType
  <2> HIDE DEF td, fd, ab
  <2>7. x1 \in Data
    BY <1>9, Zenon
  <2>8. /\ x2 \in Data /\ SameOps(x1, x2) /\ SameMonitors(x1, x2)
        /\ SameHistory(x1, x2) /\ SameLinks(x1, x2) /\ x2.jobs = x1.jobs
        /\ x2.timers = x1.timers /\ x2.busy = x1.busy
        /\ x2.abort = ab /\ x2.todo = td /\ x2.fired = fd
    <3>1. x2 \in Data
      BY <2>4, <2>5, <2>6, <2>7, ZenonT(30) DEF Data
    <3>2. x2.abort = ab /\ x2.todo = td /\ x2.fired = fd
      BY <2>4, <2>7, Zenon DEF Data
    <3>3. /\ SameOps(x1, x2) /\ SameMonitors(x1, x2) /\ SameHistory(x1, x2)
          /\ SameLinks(x1, x2) /\ x2.jobs = x1.jobs /\ x2.timers = x1.timers
          /\ x2.busy = x1.busy
      BY <2>4, <2>7, ZenonT(30) DEF Data, SameOps, SameMonitors, SameHistory, SameLinks
    <3> QED
      BY <3>1, <3>2, <3>3, Zenon
  <2>9. SameMonitors(x, x2) /\ SameLinks(x, x2) /\ x2.busy = x.busy
    BY <1>9, <2>8, Zenon DEF SameMonitors, SameLinks, SameGraph
  <2>10. x2.todo = TodoAfter(x, o) /\ x2.fired = FiredAfter(x, o)
    BY <1>11, <2>8 DEF TodoAfter, FiredAfter, td, fd
  <2>11. x2.op[o].times > 0 /\ x2.op[o].step = x.op[o].step
    BY <1>2, <1>3, <1>9, <2>8, Zenon DEF SameOps
  <2>12. x2.abort <=> x.abort \/ rc # target_outcome(x.op[o])
    BY <2>8, Zenon DEF ab
  <2>13. /\ x2.history = h /\ x2.last = l /\ x2.op = g /\ x2.refs = x.refs
         /\ x2.jobs = x.jobs /\ x2.timers = x.timers
    BY <1>9, <2>8, Zenon DEF SameOps, SameHistory
  <2> QED
    BY <1>3, <1>11, <2>8, <2>9, <2>10, <2>11, <2>12, <2>13, Zenon DEF h, l, Confirms
<1> QED
  BY <1>10, <1>11, Zenon

\* Whether resource_action_completed arms the monitor's timer.
Rearmed(x, o, rc) ==
  x.op[o].step = "monitor" /\ rc = target_outcome(x.op[o])

\* What a completion does to the fields. The operation of a recurring monitor
\* goes to its timer, any other loses the reference it was made with.
Completes(x, y, o, rc) ==
  /\ SameLinks(x, y) /\ y.busy = x.busy /\ y.monitor_op = x.monitor_op
  /\ y.history = [x.history EXCEPT ![o[1]] = [@ EXCEPT ![x.op[o].step] = rc]]
  /\ y.last = [x.last EXCEPT ![o[1]] = x.op[o].step]
  /\ y.todo = TodoAfter(x, o) /\ y.fired = FiredAfter(x, o)
  /\ y.abort <=> \/ x.abort
                 \/ x.op[o].times = 0 /\ rc # target_outcome(x.op[o])
  /\ IF rc = target_outcome(x.op[o]) THEN y.jobs = x.jobs ELSE y.jobs > 0
  /\ \A p \in OpId \ {o} : y.op[p] = x.op[p] /\ y.refs[p] = x.refs[p]
  /\ Rearmed(x, o, rc) =>
       /\ y.timers = x.timers \cup {o} /\ y.refs = x.refs
       /\ y.monitor_timer = [x.monitor_timer EXCEPT ![o[1]] = o]
       /\ y.op[o].times > 0 /\ y.op[o].step = "monitor"
  /\ ~Rearmed(x, o, rc) =>
       /\ y.timers \in {x.timers, x.timers \ {x.monitor_timer[o[1]]}}
       /\ y.refs[o] = x.refs[o] - 1
       /\ y.monitor_timer = x.monitor_timer
       /\ x.refs[o] # 1 => y.op[o].step = x.op[o].step

\* resource_action_completed is such a step.
LEMMA CompletedFields ==
  ASSUME NEW x \in Data, NEW o \in OpId, NEW rc \in Codes, Completable(x, o),
         NEW answer, NEW y, y = resource_action_completed(x, o, rc, answer)
  PROVE  y \in Data /\ Completes(x, y, o, rc)
<1> DEFINE r == o[1]
           matched == rc = target_outcome(x.op[o])
           x1 == op_history_save(
                   [x EXCEPT !.op[o].times = IF @ < 2 THEN @ + 1 ELSE 2], o, rc)
           x2 == IF x.op[o].times = 0
                 THEN pe_resource_completed(x1, o, rc) ELSE x1
           s == resource_state(x.op[o], rc)
           x3 == recover_state_set(x2, r, s, answer)
           x4 == IF matched THEN x3 ELSE schedule_processing(x3)
<1>1. y = IF x.op[o].step = "monitor" /\ matched
          THEN [x4 EXCEPT !.timers = @ \cup {o}, !.monitor_timer[r] = o]
          ELSE pe_resource_unref(x4, o)
  BY DEF resource_action_completed
<1>2. r \in Resources
  BY OpIdFacts
<1>3. /\ x2 \in Data /\ x2.refs = x.refs
      /\ SameMonitors(x, x2) /\ SameLinks(x, x2)
      /\ x2.jobs = x.jobs /\ x2.timers = x.timers /\ x2.busy = x.busy
      /\ x2.history =
           [x.history EXCEPT ![o[1]] = [@ EXCEPT ![x.op[o].step] = rc]]
      /\ x2.last = [x.last EXCEPT ![o[1]] = x.op[o].step]
      /\ x2.todo = TodoAfter(x, o) /\ x2.fired = FiredAfter(x, o)
      /\ x2.abort <=> \/ x.abort
                      \/ x.op[o].times = 0 /\ rc # target_outcome(x.op[o])
      /\ \A p \in OpId \ {o} : x2.op[p] = x.op[p]
      /\ x2.op[o].times > 0 /\ x2.op[o].step = x.op[o].step
  <2> HIDE DEF x1, x2
  <2>1. x1 = op_history_save(
               [x EXCEPT !.op[o].times = IF @ < 2 THEN @ + 1 ELSE 2], o, rc)
    BY DEF x1
  <2>2. x2 = IF x.op[o].times = 0
             THEN pe_resource_completed(x1, o, rc) ELSE x1
    BY DEF x2
  <2>3. x2 \in Data /\ Confirms(x, x2, o, rc)
    BY <2>1, <2>2, ConfirmFields
  <2> QED
    BY <2>3 DEF Confirms
<1> HIDE DEF x1, x2
<1>4. s \in RecoverState /\ (matched => s # "FAILED")
  BY Zenon DEF resource_state, RecoverState, target_outcome
<1> HIDE DEF s
<1>5. /\ x3 \in Data
      /\ SameOps(x2, x3) /\ SameMonitors(x2, x3) /\ SameHistory(x2, x3)
      /\ SameLinks(x2, x3) /\ SameGraph(x2, x3) /\ x3.jobs = x2.jobs
      /\ x3.timers \in {x2.timers, x2.timers \ {x2.monitor_timer[r]}}
      /\ s # "FAILED" => x3.timers = x2.timers
  BY <1>2, <1>3, <1>4, RecoverFields, Zenon
<1> HIDE DEF x3
<1>6. /\ x4 \in Data
      /\ SameOps(x3, x4) /\ SameMonitors(x3, x4) /\ SameHistory(x3, x4)
      /\ SameLinks(x3, x4) /\ SameGraph(x3, x4) /\ x4.timers = x3.timers
      /\ IF matched THEN x4.jobs = x3.jobs ELSE x4.jobs > 0
  <2>1. CASE matched
    BY <1>5, <2>1, Zenon
    DEF SameOps, SameMonitors, SameHistory, SameLinks, SameGraph
  <2>2. CASE ~matched
    BY <1>5, <2>2, ScheduleFields, Zenon
  <2> QED
    BY <2>1, <2>2, Zenon
<1> HIDE DEF x4
<1>7. /\ x4.op = x2.op /\ x4.refs = x.refs
      /\ SameMonitors(x, x4) /\ SameLinks(x, x4)
      /\ x4.history = x2.history /\ x4.last = x2.last
      /\ x4.busy = x.busy /\ x4.abort = x2.abort
      /\ x4.todo = x2.todo /\ x4.fired = x2.fired
  BY <1>3, <1>5, <1>6, Zenon
  DEF SameOps, SameMonitors, SameHistory, SameLinks, SameGraph
<1>8. /\ x4.timers \in {x.timers, x.timers \ {x.monitor_timer[r]}}
      /\ matched => x4.timers = x.timers /\ x4.jobs = x.jobs
      /\ ~matched => x4.jobs > 0
  BY <1>3, <1>4, <1>5, <1>6, Zenon DEF SameMonitors
<1>9. CASE Rearmed(x, o, rc)
  <2> DEFINE f == x4.timers \cup {o}
             g == [x4.monitor_timer EXCEPT ![r] = o]
  <2>1. y = [x4 EXCEPT !.timers = f, !.monitor_timer = g]
    BY <1>1, <1>9, Zenon DEF Rearmed
  <2>2. x4 \in Data /\ f \in TimersType /\ g \in MonitorType
    BY <1>2, <1>6 DEF Data, TimersType, MonitorType
  <2> HIDE DEF f, g
  <2>3. /\ y \in Data /\ y.timers = f /\ y.monitor_timer = g
        /\ SameOps(x4, y) /\ SameHistory(x4, y) /\ SameLinks(x4, y)
        /\ SameGraph(x4, y) /\ y.jobs = x4.jobs /\ y.monitor_op = x4.monitor_op
    BY <2>1, <2>2, ZenonT(30) DEF Data, SameOps, SameHistory, SameLinks, SameGraph
  <2>4. /\ y.timers = x.timers \cup {o}
        /\ y.monitor_timer = [x.monitor_timer EXCEPT ![o[1]] = o]
    BY <1>7, <1>8, <1>9, <2>3, Zenon DEF f, g, SameMonitors, Rearmed
  <2>5. /\ y.op = x2.op /\ y.refs = x.refs /\ SameLinks(x, y)
        /\ y.history = x2.history /\ y.last = x2.last
        /\ y.busy = x.busy /\ y.abort = x2.abort /\ y.todo = x2.todo
        /\ y.fired = x2.fired /\ y.monitor_op = x.monitor_op
        /\ y.jobs = x.jobs
    BY <1>7, <1>8, <1>9, <2>3
    DEF Rearmed, SameOps, SameMonitors, SameHistory, SameLinks, SameGraph
  <2>6. matched /\ x.op[o].step = "monitor"
    BY <1>9 DEF Rearmed
  <2> QED
    BY <1>3, <1>9, <2>3, <2>4, <2>5, <2>6 DEF Completes
<1>10. CASE ~Rearmed(x, o, rc)
  <2>1. y = pe_resource_unref(x4, o)
    BY <1>1, <1>10, Zenon DEF Rearmed
  <2>2. /\ y \in Data
        /\ SameMonitors(x4, y) /\ SameHistory(x4, y) /\ SameLinks(x4, y)
        /\ SameGraph(x4, y) /\ y.jobs = x4.jobs /\ y.timers = x4.timers
        /\ y.refs = [x4.refs EXCEPT ![o] = @ - 1]
        /\ y.op = [x4.op EXCEPT ![o] = IF x4.refs[o] = 1 THEN NoOp ELSE @]
    BY <1>6, <2>1, UnrefFields
  <2>3. x.refs \in RefsType /\ x2.op \in OpType
    BY <1>3, Zenon DEF Data
  <2>4. /\ \A p \in OpId \ {o} : y.op[p] = x.op[p] /\ y.refs[p] = x.refs[p]
        /\ y.refs[o] = x.refs[o] - 1
        /\ x.refs[o] # 1 => y.op[o].step = x.op[o].step
    BY <1>3, <1>7, <2>2, <2>3 DEF RefsType, OpType
  <2>5. /\ SameLinks(x, y) /\ SameMonitors(x, y)
        /\ y.history = x2.history /\ y.last = x2.last
        /\ y.busy = x.busy /\ y.abort = x2.abort /\ y.todo = x2.todo
        /\ y.fired = x2.fired
    BY <1>7, <2>2
    DEF SameMonitors, SameHistory, SameLinks, SameGraph
  <2> QED
    BY <1>3, <1>8, <1>10, <2>2, <2>4, <2>5 DEF SameMonitors, Completes
<1> QED
  BY <1>9, <1>10, Zenon

(***************************************************************************)
(* A completion preserves the invariant.                                   *)
(***************************************************************************)

\* o is about to complete: it has left the queue or its timer, and nothing
\* else of its resource is active.
Ending(x, o) ==
  /\ \A p \in OpId : p[1] = o[1] => ~Active(x, p)
  /\ Fresh(x, o) \/ Settled(x, o)
  /\ x.op[o].step = "monitor" => ~HardError(x.history[o[1]])

\* The types that the proofs look into most often.
LEMMA FieldTypes ==
  ASSUME NEW x \in Data
  PROVE  /\ x.todo \in [Resources -> Plans]
         /\ x.fired \in [Resources -> BOOLEAN]
         /\ x.history \in [Resources -> EntriesType]
         /\ x.last \in [Resources -> Step \cup {"none"}]
         /\ x.op \in [OpId -> OpRec] /\ x.refs \in [OpId -> Int]
         /\ x.timers \subseteq OpId
         /\ x.monitor_op \in [Resources -> OpId \cup {None}]
         /\ x.monitor_timer \in [Resources -> OpId \cup {None}]
         /\ x.queue \in [Assemblies -> Seq(OpId)]
         /\ x.connected \subseteq Assemblies /\ x.jobs \in 0 .. MaxJobs
         /\ {x.busy, x.abort, x.updated} \subseteq BOOLEAN
BY DEF Data, TodoType, FiredType, HistoryType, LastType, OpType, RefsType,
       TimersType, MonitorType, QueueType, LinksType, JobsType

\* monitor_op points at a monitor of its own resource, if at anything.
LEMMA MonitorOwn ==
  ASSUME NEW x \in Data, NEW r \in Resources, ResInv(x, r),
         x.monitor_op[r] # None
  PROVE  /\ x.monitor_op[r] \in OpId /\ x.monitor_op[r][1] = r
         /\ x.op[x.monitor_op[r]].step = "monitor"
<1>1. x.monitor_op \in [Resources -> OpId \cup {None}]
  BY FieldTypes, Zenon
<1>2. x.monitor_op[r] \in OpId
  BY <1>1
<1> QED
  BY <1>2, Zenon DEF ResInv

\* An ending operation is one that resource_action_completed can handle.
LEMMA EndingCompletable ==
  ASSUME NEW x \in Data, NEW o \in OpId, Ending(x, o)
  PROVE  Completable(x, o) /\ o[1] \in Resources
<1>1. o[1] \in Resources
  BY OpIdFacts
<1>2. x.todo[o[1]] \in Plans
  BY <1>1, FieldTypes
<1>3. CASE Fresh(x, o)
  BY <1>1, <1>2, <1>3, PlanSteps DEF Fresh, Completable
<1>4. CASE Settled(x, o)
  BY <1>1, <1>4 DEF Settled, Completable, Step
<1> QED
  BY <1>1, <1>3, <1>4 DEF Ending

\* The resource of the completed operation afterwards.
LEMMA CompletedRes ==
  ASSUME NEW x \in Data, NEW n \in NodeType, Core(x, n),
         NEW o \in OpId, NEW rc \in Codes, NEW answer, Ending(x, o),
         x.monitor_op[o[1]] = o => x.refs[o] # 1,
         NEW y, y = resource_action_completed(x, o, rc, answer)
  PROVE  /\ ResInv(y, o[1]) /\ PlanInv(y, n, o[1])
         /\ Rearmed(x, o, rc) =>
              Settled(y, o) /\ ~HardError(y.history[o[1]])
<1> DEFINE r == o[1]
           k == x.op[o].step
           h == x.history[r]
           matched == rc = target_outcome(x.op[o])
<1>1. Completable(x, o) /\ r \in Resources
  BY EndingCompletable, Zenon
<1>2. /\ y.busy = x.busy /\ y.monitor_op = x.monitor_op
      /\ y.history = [x.history EXCEPT ![o[1]] = [@ EXCEPT ![x.op[o].step] = rc]]
      /\ y.last = [x.last EXCEPT ![o[1]] = x.op[o].step]
      /\ y.todo = TodoAfter(x, o) /\ y.fired = FiredAfter(x, o)
      /\ y.abort <=> \/ x.abort
                     \/ x.op[o].times = 0 /\ rc # target_outcome(x.op[o])
      /\ IF rc = target_outcome(x.op[o]) THEN y.jobs = x.jobs ELSE y.jobs > 0
      /\ \A p \in OpId \ {o} : y.op[p] = x.op[p]
      /\ Rearmed(x, o, rc) =>
           /\ y.monitor_timer = [x.monitor_timer EXCEPT ![o[1]] = o]
           /\ y.op[o].times > 0 /\ y.op[o].step = "monitor"
      /\ ~Rearmed(x, o, rc) =>
           /\ y.monitor_timer = x.monitor_timer
           /\ x.refs[o] # 1 => y.op[o].step = x.op[o].step
  <2>1. Completes(x, y, o, rc)
    BY <1>1, CompletedFields, Zenon
  <2> QED
    BY <2>1, Zenon DEF Completes
<1>3. /\ x.todo \in [Resources -> Plans] /\ x.fired \in [Resources -> BOOLEAN]
      /\ h \in EntriesType /\ k \in Step
      /\ x.monitor_op[r] \in OpId \cup {None}
      /\ x.monitor_timer \in [Resources -> OpId \cup {None}]
      /\ x.history \in [Resources -> EntriesType]
      /\ x.last \in [Resources -> Step \cup {"none"}]
  BY <1>1, FieldTypes, Zenon DEF Completable
<1>4. ResInv(x, r) /\ PlanInv(x, n, r) /\ (x.abort => x.jobs > 0)
  BY <1>1, Zenon DEF Core
<1>5. /\ y.history[r] = [h EXCEPT ![k] = rc] /\ y.last[r] = k
      /\ y.todo[r] = IF x.op[o].times = 0 THEN Tail(x.todo[r]) ELSE x.todo[r]
      /\ IF x.op[o].times = 0 THEN ~y.fired[r] ELSE y.fired[r] = x.fired[r]
  <2>1. y.history[r] = [h EXCEPT ![k] = rc] /\ y.last[r] = k
    BY <1>1, <1>2, <1>3, SMTT(30)
  <2>2. y.todo[r] = IF x.op[o].times = 0 THEN Tail(x.todo[r]) ELSE x.todo[r]
    BY <1>1, <1>2, <1>3 DEF TodoAfter
  <2>3. IF x.op[o].times = 0 THEN ~y.fired[r] ELSE y.fired[r] = x.fired[r]
    <3>1. y.fired = FiredAfter(x, o)
      BY <1>2, Zenon
    <3> QED
      BY <1>1, <1>3, <3>1, Zenon DEF FiredAfter
  <2> QED
    BY <2>1, <2>2, <2>3, Zenon
<1>6. /\ \A j \in Step \ {k} : y.history[r][j] = h[j]
      /\ y.history[r][k] = rc
  BY <1>3, <1>5, Zenon DEF EntriesType
<1>7. rc # "HARD_ERROR" /\ HardError(y.history[r]) => HardError(h)
  BY <1>6, Zenon DEF HardError
<1>8. /\ y.monitor_op[r] # None =>
           y.monitor_op[r][1] = r /\ y.op[y.monitor_op[r]].step = "monitor"
      /\ y.monitor_timer[r] # None => y.monitor_timer[r][1] = r
  <2>1. /\ x.monitor_op[r] # None =>
             x.monitor_op[r][1] = r /\ x.op[x.monitor_op[r]].step = "monitor"
        /\ x.monitor_timer[r] # None => x.monitor_timer[r][1] = r
    BY <1>4, Zenon DEF ResInv
  <2>2. y.monitor_op[r] = o => y.op[o].step = x.op[o].step
    BY <1>2, Zenon DEF Rearmed
  <2> QED
    BY <1>1, <1>2, <1>3, <2>1, <2>2, SMTT(30)
<1>9. y.last[r] # "none"
  BY <1>3, <1>5, Zenon DEF Step
<1>10. ~StopFailed(h)
  BY <1>4, Zenon DEF ResInv, Ending, Fresh, Settled
<1>11. k # "stop" => ~StopFailed(y.history[r])
  BY <1>6, <1>10 DEF StopFailed, Step
<1>12. y \in Data
  BY <1>1, CompletedFields, Zenon
<1>13. CASE Fresh(x, o)
  <2>1. /\ x.op[o].times = 0 /\ x.busy /\ x.fired[r]
        /\ x.todo[r] # <<>> /\ k = Head(x.todo[r]) /\ x.todo[r] \in Plans
    BY <1>1, <1>3, <1>13, Zenon DEF Fresh
  <2>2. /\ y.todo[r] = Tail(x.todo[r]) /\ ~y.fired[r] /\ y.busy
        /\ y.todo[r] # <<"stop">>
        /\ y.todo[r] = <<>> => k = "monitor" \/ x.todo[r] = <<"stop">>
        /\ k = "monitor" => y.todo[r] = <<>>
        /\ x.todo[r] = <<"stop">> => y.todo[r] = <<>> /\ k = "stop"
    <3>1. y.todo[r] = Tail(x.todo[r]) /\ ~y.fired[r] /\ y.busy
      BY <1>2, <1>5, <2>1
    <3> QED
      BY <2>1, <3>1, PlanSteps, Zenon
  <2>3. CASE matched
    <3>1. rc # "HARD_ERROR" /\ y.jobs = x.jobs /\ (y.abort <=> x.abort)
      BY <1>2, <2>3, Zenon DEF target_outcome
    <3>2. k = "stop" => rc = "OK"
      BY <2>3, Zenon DEF target_outcome
    <3>3. ~StopFailed(y.history[r])
      BY <1>6, <1>11, <3>2 DEF StopFailed
    <3>4. HardError(y.history[r]) /\ ~y.abort => y.todo[r] = <<>>
      BY <1>4, <1>7, <2>1, <2>2, <3>1, Zenon DEF ResInv
    <3>5. ResInv(y, r)
      BY <1>8, <1>9, <2>2, <3>3, <3>4, Zenon DEF ResInv
    <3>6. k = "monitor" => rc = "OK" /\ ~HardError(y.history[r])
      BY <1>7, <2>3, <3>1, Zenon DEF Ending, target_outcome
    <3>7. ASSUME y.jobs = 0, n[Home[r]] = "RUNNING", y.todo[r] = <<>>
          PROVE  Plan(y.history[r], y.last[r], FALSE) = <<>>
      <4>1. y.history[r] \in EntriesType /\ y.last[r] \in Step \cup {"none"}
        BY <1>1, <1>12, FieldTypes
      <4>2. CASE k = "monitor"
        <5>1. /\ y.last[r] = "monitor" /\ y.history[r]["monitor"] = "OK"
              /\ ~HardError(y.history[r])
          BY <1>5, <1>6, <3>6, <4>2
        <5> QED
          BY <4>1, <5>1, PlanFacts, Zenon
      <4>3. CASE x.todo[r] = <<"stop">>
        <5>1. \E j \in Step \ {"stop"} : h[j] = "HARD_ERROR"
          BY <1>4, <3>1, <3>7, <4>3, Zenon DEF PlanInv
        <5>2. HardError(y.history[r]) /\ y.last[r] = "stop"
          BY <1>5, <1>6, <2>2, <4>3, <5>1 DEF HardError
        <5> QED
          BY <4>1, <5>2, PlanFacts, Zenon
      <4> QED
        BY <2>2, <3>7, <4>2, <4>3, Zenon
    <3>8. PlanInv(y, n, r)
      BY <2>2, <3>7 DEF PlanInv
    <3>9. Rearmed(x, o, rc) => Settled(y, o) /\ ~HardError(y.history[r])
      <4> SUFFICES ASSUME Rearmed(x, o, rc)
                   PROVE  Settled(y, o) /\ ~HardError(y.history[r])
        OBVIOUS
      <4>1. k = "monitor"
        BY Zenon DEF Rearmed
      <4> QED
        BY <1>2, <1>5, <1>6, <2>2, <3>6, <4>1, ZenonT(30) DEF Settled
    <3> QED
      BY <3>5, <3>8, <3>9
  <2>4. CASE ~matched
    <3>1. y.abort /\ y.jobs > 0 /\ ~Rearmed(x, o, rc)
      BY <1>2, <2>1, <2>4, Zenon DEF Rearmed
    <3>2. StopFailed(y.history[r]) => y.last[r] = "stop"
      BY <1>5, <1>11
    <3>3. ResInv(y, r)
      BY <1>8, <1>9, <2>2, <3>1, <3>2, Zenon DEF ResInv
    <3>4. PlanInv(y, n, r)
      BY <3>1 DEF PlanInv
    <3> QED
      BY <3>1, <3>3, <3>4, Zenon
  <2> QED
    BY <2>3, <2>4, Zenon
<1>14. CASE Settled(x, o)
  <2>1. /\ x.op[o].times > 0 /\ x.op[o].times # 0 /\ k = "monitor"
        /\ x.todo[r] = <<>> /\ x.last[r] = "monitor" /\ h["monitor"] = "OK"
        /\ ~HardError(h)
    BY <1>14 DEF Settled, Ending
  <2>2. /\ y.todo[r] = <<>> /\ y.fired[r] = x.fired[r] /\ ~x.fired[r]
        /\ (y.abort <=> x.abort) /\ y.busy = x.busy
    BY <1>2, <1>4, <1>5, <2>1, Zenon DEF ResInv
  <2>3. ~StopFailed(y.history[r])
    BY <1>11, <2>1, Zenon
  <2>4. ResInv(y, r)
    BY <1>8, <1>9, <2>2, <2>3, Zenon DEF ResInv
  <2>5. CASE matched
    <3>1. rc = "OK" /\ y.last[r] = "monitor" /\ y.history[r]["monitor"] = "OK"
      BY <1>5, <1>6, <2>1, <2>5, Zenon DEF target_outcome
    <3>2. ~HardError(y.history[r])
      BY <1>7, <2>1, <3>1, Zenon
    <3>3. y.history[r] \in EntriesType /\ y.last[r] \in Step \cup {"none"}
      BY <1>1, <1>12, FieldTypes
    <3>4. Plan(y.history[r], y.last[r], FALSE) = <<>>
      BY <3>1, <3>2, <3>3, PlanFacts, Zenon
    <3>5. PlanInv(y, n, r)
      BY <2>2, <3>4, StopAlone, Zenon DEF PlanInv
    <3>6. Rearmed(x, o, rc) => Settled(y, o)
      BY <1>2, <2>2, <3>1 DEF Settled
    <3> QED
      BY <2>4, <3>2, <3>5, <3>6, Zenon
  <2>6. CASE ~matched
    <3>1. y.jobs > 0 /\ ~Rearmed(x, o, rc)
      BY <1>2, <2>6, Zenon DEF Rearmed
    <3>2. PlanInv(y, n, r)
      BY <3>1 DEF PlanInv
    <3> QED
      BY <2>4, <3>1, <3>2, Zenon
  <2> QED
    BY <2>5, <2>6
<1> QED
  BY <1>13, <1>14 DEF Ending

(***************************************************************************)
(* A step that does not concern a resource leaves its part of the          *)
(* invariant alone.                                                        *)
(***************************************************************************)

SameRes(x, y, r) ==
  /\ y.monitor_op[r] = x.monitor_op[r]
  /\ y.monitor_timer[r] = x.monitor_timer[r]
  /\ y.fired[r] = x.fired[r] /\ y.todo[r] = x.todo[r]
  /\ y.history[r] = x.history[r] /\ y.last[r] = x.last[r]

\* ResInv and PlanInv of a resource that a step does not touch.
LEMMA ResKept ==
  ASSUME NEW x, NEW y, NEW n, NEW m, NEW r, SameRes(x, y, r),
         y.busy = x.busy, x.abort => y.abort, y.jobs = 0 => x.jobs = 0,
         m[Home[r]] = "RUNNING" => n[Home[r]] = "RUNNING",
         x.monitor_op[r] # None /\ x.op[x.monitor_op[r]].step = "monitor" =>
           y.op[x.monitor_op[r]].step = "monitor",
         ResInv(x, r), PlanInv(x, n, r)
  PROVE  ResInv(y, r) /\ PlanInv(y, m, r)
<1>1. ResInv(y, r)
  BY Zenon DEF SameRes, ResInv
<1>2. PlanInv(y, m, r)
  BY Zenon DEF SameRes, PlanInv
<1> QED
  BY <1>1, <1>2, Zenon

\* OpInv of an operation that a step does not touch.
LEMMA OpKept ==
  ASSUME NEW x, NEW y, NEW o, SameRes(x, y, o[1]),
         y.op[o] = x.op[o], y.busy = x.busy,
         Home[o[1]] \in x.connected => Home[o[1]] \in y.connected,
         \A p \in OpId \cup {o} : p[1] = o[1] =>
           (InFlight(y, p) => InFlight(x, p)) /\ (p \in y.timers => p \in x.timers),
         OpInv(x, o)
  PROVE  OpInv(y, o)
<1> SUFFICES ASSUME Active(y, o) PROVE OpInv(y, o)
  BY DEF OpInv
<1>1. Active(x, o)
  BY Zenon DEF Active
<1>2. /\ (Fresh(x, o) /\ o \notin x.timers) \/ Settled(x, o)
      /\ x.op[o].step = "monitor" =>
           x.monitor_op[o[1]] = o /\ ~HardError(x.history[o[1]])
      /\ \A p \in OpId : Active(x, p) /\ p[1] = o[1] => p = o
      /\ o \in x.timers => /\ ~InFlight(x, o) /\ x.monitor_timer[o[1]] = o
                           /\ Home[o[1]] \in x.connected
  BY <1>1, Zenon DEF OpInv
<1>3. (Fresh(y, o) /\ o \notin y.timers) \/ Settled(y, o)
  BY <1>2, Zenon DEF Fresh, Settled, SameRes
<1>4. \A p \in OpId : Active(y, p) /\ p[1] = o[1] => p = o
  BY <1>2, Zenon DEF Active
<1>5. y.op[o].step = "monitor" =>
        y.monitor_op[o[1]] = o /\ ~HardError(y.history[o[1]])
  BY <1>2, Zenon DEF SameRes
<1>6. o \in y.timers => /\ ~InFlight(y, o) /\ y.monitor_timer[o[1]] = o
                        /\ Home[o[1]] \in y.connected
  BY <1>2, Zenon DEF SameRes
<1> QED
  BY <1>3, <1>4, <1>5, <1>6, Zenon DEF OpInv

\* resource_action_completed preserves the invariant.
LEMMA CompletedCore ==
  ASSUME NEW x \in Data, NEW n \in NodeType, Core(x, n),
         NEW o \in OpId, NEW rc \in Codes, NEW answer, Ending(x, o),
         x.monitor_op[o[1]] = o => x.refs[o] # 1,
         Rearmed(x, o, rc) =>
           x.monitor_op[o[1]] = o /\ Home[o[1]] \in x.connected,
         NEW y, y = resource_action_completed(x, o, rc, answer)
  PROVE  y \in Data /\ Core(y, n)
<1> DEFINE r == o[1]
<1>1. Completable(x, o) /\ r \in Resources
  BY EndingCompletable, Zenon
<1>2. y \in Data /\ Completes(x, y, o, rc)
  BY <1>1, CompletedFields, Zenon
<1>3. y \in Data /\ y.queue = x.queue /\ y.connected = x.connected
  BY <1>2, Zenon DEF SameLinks, Completes
<1>4. \A p : InFlight(y, p) <=> InFlight(x, p)
  BY <1>3 DEF InFlight
<1>5. \A p \in OpId : p # o /\ p \in y.timers => p \in x.timers
  BY <1>2, Zenon DEF Completes
<1>6. ~InFlight(x, o) /\ o \notin x.timers
  BY Zenon DEF Ending, Active
<1>7. o \in y.timers <=> Rearmed(x, o, rc)
  BY <1>2, <1>6, Zenon DEF Completes
<1>8. \A q \in Resources \ {r} : SameRes(x, y, q)
  <2> TAKE q \in Resources \ {r}
  <2>1. /\ x.history \in [Resources -> EntriesType]
        /\ x.last \in [Resources -> Step \cup {"none"}]
        /\ x.todo \in [Resources -> Plans] /\ x.fired \in [Resources -> BOOLEAN]
        /\ x.monitor_timer \in [Resources -> OpId \cup {None}]
    BY FieldTypes, Zenon
  <2>2. /\ y.history = [x.history EXCEPT ![r] = [@ EXCEPT ![x.op[o].step] = rc]]
        /\ y.last = [x.last EXCEPT ![r] = x.op[o].step]
        /\ y.todo = TodoAfter(x, o) /\ y.fired = FiredAfter(x, o)
        /\ y.monitor_op = x.monitor_op
        /\ \/ y.monitor_timer = [x.monitor_timer EXCEPT ![r] = o]
           \/ y.monitor_timer = x.monitor_timer
    BY <1>2, Zenon DEF Completes
  <2>3. y.history[q] = x.history[q] /\ y.last[q] = x.last[q]
    BY <2>1, <2>2, Zenon
  <2>4. y.todo[q] = x.todo[q] /\ y.fired[q] = x.fired[q]
    BY <2>1, <2>2, Zenon DEF TodoAfter, FiredAfter
  <2>5. y.monitor_timer[q] = x.monitor_timer[q]
    BY <2>1, <2>2, Zenon
  <2> QED
    BY <2>2, <2>3, <2>4, <2>5, Zenon DEF SameRes
<1>9. (x.abort => y.abort) /\ (y.jobs = 0 => x.jobs = 0) /\ y.busy = x.busy
  <2>1. x.abort => y.abort
    BY <1>2, Zenon DEF Completes
  <2>2. y.jobs = 0 => x.jobs = 0
    BY <1>2, SMTT(30) DEF Completes
  <2> QED
    BY <1>2, <2>1, <2>2, Zenon DEF Completes
<1>10. ASSUME NEW a \in Assemblies PROVE QueueInv(y, a)
  BY <1>3, Zenon DEF QueueInv, Core
<1>11. ASSUME NEW p \in OpId PROVE OpInv(y, p)
  <2>1. CASE p[1] # r
    <3>1. p # o /\ p[1] \in Resources \ {r}
      BY <2>1, OpIdFacts, Zenon
    <3>2. SameRes(x, y, p[1]) /\ y.op[p] = x.op[p]
      BY <1>2, <1>8, <3>1, Zenon DEF Completes
    <3>3. \A q \in OpId \cup {p} : q[1] = p[1] =>
            (InFlight(y, q) => InFlight(x, q)) /\ (q \in y.timers => q \in x.timers)
      BY <1>4, <1>5, <2>1, Zenon
    <3>4. OpInv(x, p)
      BY Zenon DEF Core
    <3> QED
      BY <1>3, <1>9, <3>2, <3>3, <3>4, OpKept, Zenon
  <2>2. CASE p[1] = r /\ p # o
    <3>1. ~Active(y, p)
      BY <1>4, <1>5, <2>2, Zenon DEF Ending, Active
    <3> QED
      BY <3>1, Zenon DEF OpInv
  <2>3. CASE p = o
    <3> SUFFICES ASSUME Active(y, o) PROVE OpInv(y, o)
      BY <2>3, Zenon DEF OpInv
    <3>1. Rearmed(x, o, rc) /\ ~InFlight(y, o)
      BY <1>4, <1>6, <1>7, Zenon DEF Active
    <3>2. Settled(y, o) /\ ~HardError(y.history[r])
      BY <3>1, CompletedRes
    <3>3. y.monitor_op[r] = o /\ Home[r] \in y.connected
      BY <1>2, <1>3, <3>1, Zenon DEF Completes
    <3>4. y.monitor_timer[r] = o
      <4>1. y.monitor_timer = [x.monitor_timer EXCEPT ![r] = o]
        BY <1>2, <3>1, Zenon DEF Completes
      <4>2. x.monitor_timer \in [Resources -> OpId \cup {None}]
        BY FieldTypes, Zenon
      <4> QED
        BY <1>1, <4>1, <4>2, Zenon
    <3>5. \A q \in OpId : Active(y, q) /\ q[1] = r => q = o
      BY <1>4, <1>5, Zenon DEF Ending, Active
    <3> QED
      BY <3>1, <3>2, <3>3, <3>4, <3>5, Zenon DEF OpInv
  <2> QED
    BY <2>1, <2>2, <2>3, Zenon
<1>12. ASSUME NEW q \in Resources PROVE ResInv(y, q) /\ PlanInv(y, n, q)
  <2>1. CASE q = r
    BY <2>1, CompletedRes, Zenon
  <2>2. CASE q # r
    <3>1. SameRes(x, y, q) /\ ResInv(x, q) /\ PlanInv(x, n, q)
      BY <1>8, <2>2, Zenon DEF Core
    <3>2. x.monitor_op[q] # None =>
            x.monitor_op[q] \in OpId /\ x.monitor_op[q] # o
      BY <2>2, <3>1, MonitorOwn, Zenon
    <3>3. x.monitor_op[q] # None =>
            y.op[x.monitor_op[q]] = x.op[x.monitor_op[q]]
      BY <1>2, <3>2 DEF Completes
    <3> QED
      BY <1>9, <3>1, <3>3, ResKept
  <2> QED
    BY <2>1, <2>2, Zenon
<1>13. (~y.busy => ~y.abort) /\ (y.abort => y.jobs > 0)
  <2>1. x.op[o].times = 0 => x.busy
    BY <1>1, Zenon DEF Completable
  <2>2. (~x.busy => ~x.abort) /\ (x.abort => x.jobs > 0)
    BY Zenon DEF Core
  <2>3. rc # target_outcome(x.op[o]) => y.jobs > 0
    BY <1>2 DEF Completes
  <2>4. rc = target_outcome(x.op[o]) => y.jobs = x.jobs
    BY <1>2, Zenon DEF Completes
  <2>5. y.abort <=> \/ x.abort
                    \/ x.op[o].times = 0 /\ rc # target_outcome(x.op[o])
    BY <1>2, Zenon DEF Completes
  <2> QED
    BY <1>9, <2>1, <2>2, <2>3, <2>4, <2>5, Zenon
<1>14. \A a \in Assemblies : n[a] = "RUNNING" => a \in y.connected
  BY <1>3, Zenon DEF Core
<1> QED
  BY <1>3, <1>10, <1>11, <1>12, <1>13, <1>14, Zenon DEF Core

\* A completion uses up at most one reference that nobody holds.
LEMMA CompletedCounted ==
  ASSUME NEW x \in Data, NEW o \in OpId, NEW rc \in Codes, NEW answer,
         Completable(x, o), ~Active(x, o),
         \A p \in OpId \ {o} : x.refs[p] >= Holders(x, p),
         NEW y, y = resource_action_completed(x, o, rc, answer)
  PROVE  /\ \A p \in OpId \ {o} : y.refs[p] >= Holders(y, p)
         /\ y.refs[o] - Holders(y, o) >= x.refs[o] - Holders(x, o) - 1
<1>1. /\ y.queue = x.queue /\ y.monitor_op = x.monitor_op
      /\ \A p \in OpId \ {o} : y.refs[p] = x.refs[p]
      /\ Rearmed(x, o, rc) => y.timers = x.timers \cup {o} /\ y.refs = x.refs
      /\ ~Rearmed(x, o, rc) =>
           /\ y.timers \in {x.timers, x.timers \ {x.monitor_timer[o[1]]}}
           /\ y.refs[o] = x.refs[o] - 1
  <2>1. Completes(x, y, o, rc)
    BY CompletedFields, Zenon
  <2> QED
    BY <2>1, Zenon DEF SameLinks, Completes
<1>2. \A p : InFlight(y, p) <=> InFlight(x, p)
  BY <1>1, Zenon DEF InFlight
<1>3. \A p \in OpId \ {o} : p \in y.timers => p \in x.timers
  BY <1>1, Zenon
<1>4. x.refs \in [OpId -> Int]
  BY FieldTypes, Zenon
<1>5. ASSUME NEW p \in OpId \ {o} PROVE y.refs[p] >= Holders(y, p)
  <2>1. x.refs[p] >= Holders(x, p) /\ x.refs[p] \in Int
    BY <1>4, Zenon
  <2> QED
    BY <1>1, <1>2, <1>3, <2>1 DEF Holders
<1>6. y.refs[o] - Holders(y, o) >= x.refs[o] - Holders(x, o) - 1
  <2>1. x.refs[o] \in Int /\ ~InFlight(x, o) /\ o \notin x.timers
    BY <1>4, Zenon DEF Active
  <2>2. CASE Rearmed(x, o, rc)
    <3>1. y.refs[o] = x.refs[o] /\ o \in y.timers
      BY <1>1, <2>2, Zenon
    <3> QED
      BY <1>1, <1>2, <2>1, <3>1, SMTT(30) DEF Holders
  <2>3. CASE ~Rearmed(x, o, rc)
    <3>1. y.refs[o] = x.refs[o] - 1 /\ o \notin y.timers
      BY <1>1, <2>1, <2>3, Zenon
    <3> QED
      BY <1>1, <1>2, <2>1, <3>1, SMTT(30) DEF Holders
  <2> QED
    BY <2>2, <2>3, Zenon
<1> QED
  BY <1>5, <1>6

(***************************************************************************)
(* A step that only takes operations out of queues and timers.             *)
(***************************************************************************)

\* The queues of y are those of x, or what is left of them.
Shrunk(x, y) ==
  /\ y.timers \subseteq x.timers
  /\ \A a \in Assemblies : /\ IsInjective(y.queue[a])
                           /\ Range(y.queue[a]) \subseteq Range(x.queue[a])
                           /\ y.queue[a] # <<>> => x.queue[a] # <<>>

\* Taking operations away, adding a process_job and freeing what is not
\* pointed at preserve the invariant. A node may come up if a process_job
\* will look at it.
LEMMA KeptCore ==
  ASSUME NEW x \in Data, NEW y \in Data, NEW n \in NodeType, NEW m \in NodeType,
         Core(x, n), Shrunk(x, y),
         SameMonitors(x, y), SameHistory(x, y), SameGraph(x, y),
         x.connected \subseteq y.connected, y.jobs = 0 => x.jobs = 0,
         \A a \in Assemblies : m[a] = "RUNNING" =>
           a \in y.connected /\ (n[a] = "RUNNING" \/ y.jobs > 0),
         \A p \in OpId : Active(y, p) \/ y.monitor_op[p[1]] = p =>
           y.op[p] = x.op[p]
  PROVE  Core(y, m) /\ \A p \in OpId : Active(y, p) => Active(x, p)
<1>1. \A p \in OpId : InFlight(y, p) => InFlight(x, p)
  BY OpIdFacts, Zenon DEF Shrunk, InFlight
<1>2. \A p \in OpId : Active(y, p) => Active(x, p)
  BY <1>1 DEF Shrunk, Active
<1>3. \A r \in Resources : SameRes(x, y, r)
  BY DEF SameRes, SameMonitors, SameHistory, SameGraph
<1>4. y.busy = x.busy /\ y.abort = x.abort
  BY Zenon DEF SameGraph
<1>5. ASSUME NEW a \in Assemblies PROVE QueueInv(y, a)
  <2>1. QueueInv(x, a)
    BY Zenon DEF Core
  <2> QED
    BY <2>1, Zenon DEF QueueInv, Shrunk
<1>6. ASSUME NEW p \in OpId PROVE OpInv(y, p)
  <2> SUFFICES ASSUME Active(y, p) PROVE OpInv(y, p)
    BY Zenon DEF OpInv
  <2>1. y.op[p] = x.op[p] /\ OpInv(x, p)
    BY Zenon DEF Core
  <2>2. SameRes(x, y, p[1])
    BY <1>3, OpIdFacts, Zenon
  <2>3. \A q \in OpId \cup {p} : q[1] = p[1] =>
          (InFlight(y, q) => InFlight(x, q)) /\ (q \in y.timers => q \in x.timers)
    BY <1>1, Zenon DEF Shrunk
  <2>4. Home[p[1]] \in x.connected => Home[p[1]] \in y.connected
    OBVIOUS
  <2> QED
    BY <1>4, <2>1, <2>2, <2>3, <2>4, OpKept
<1>7. ASSUME NEW r \in Resources PROVE ResInv(y, r) /\ PlanInv(y, m, r)
  <2>1. SameRes(x, y, r) /\ ResInv(x, r) /\ PlanInv(x, n, r)
    BY <1>3, Zenon DEF Core
  <2>2. x.monitor_op[r] # None => x.monitor_op[r] \in OpId
    BY FieldTypes
  <2>3. x.monitor_op[r] # None => y.op[x.monitor_op[r]] = x.op[x.monitor_op[r]]
    BY <2>1, <2>2, Zenon DEF ResInv, SameRes
  <2>4. ResInv(y, r)
    BY <1>4, <2>1, <2>3, SMTT(30) DEF SameRes, ResInv
  <2>5. y.jobs = 0 /\ m[Home[r]] = "RUNNING" =>
          x.jobs = 0 /\ n[Home[r]] = "RUNNING"
    BY CapeConstantsOK
  <2>6. PlanInv(y, m, r)
    BY <2>1, <2>5, Zenon DEF SameRes, PlanInv
  <2> QED
    BY <2>4, <2>6, Zenon
<1>8. y.abort => y.jobs > 0
  <2>1. y.jobs \in 0 .. MaxJobs /\ (x.abort => x.jobs > 0)
    BY FieldTypes, Zenon DEF Core
  <2>2. MaxJobs \in Nat
    BY CapeConstantsOK, Zenon
  <2> QED
    BY <1>4, <2>1, <2>2
<1>9. (~y.busy => ~y.abort)
      /\ \A a \in Assemblies : m[a] = "RUNNING" => a \in y.connected
  BY <1>4, Zenon DEF Core
<1> QED
  BY <1>2, <1>5, <1>6, <1>7, <1>8, <1>9, Zenon DEF Core

\* An operation has at least as many references as holders, also after it
\* lost holders.
LEMMA KeptCounted ==
  ASSUME NEW x \in Data, NEW y \in Data, Counted(x), Shrunk(x, y),
         y.refs = x.refs, y.monitor_op = x.monitor_op
  PROVE  Counted(y)
<1> SUFFICES ASSUME NEW p \in OpId PROVE y.refs[p] >= Holders(y, p)
  BY Zenon DEF Counted
<1>1. InFlight(y, p) => InFlight(x, p)
  BY OpIdFacts, Zenon DEF Shrunk, InFlight
<1>2. x.refs[p] \in Int /\ x.refs[p] >= Holders(x, p)
  BY FieldTypes, Zenon DEF Counted
<1> QED
  BY <1>1, <1>2 DEF Holders, Shrunk

\* What stays in the queues stays; nothing is taken away.
LEMMA Unshrunk ==
  ASSUME NEW x, NEW n, Core(x, n), NEW y,
         y.queue = x.queue, y.timers \subseteq x.timers
  PROVE  Shrunk(x, y)
BY Zenon DEF Shrunk, Core, QueueInv

\* The references that nobody holds can be given back.
LEMMA UnrefKeeps ==
  ASSUME NEW x \in Data, NEW n \in NodeType, Core(x, n), NEW o \in OpId,
         \A p \in OpId \ {o} : x.refs[p] >= Holders(x, p),
         x.refs[o] >= Holders(x, o) + 1,
         NEW y, y = pe_resource_unref(x, o)
  PROVE  IInv(y, n)
<1>1. /\ y \in Data
      /\ SameMonitors(x, y) /\ SameHistory(x, y) /\ SameLinks(x, y)
      /\ SameGraph(x, y) /\ y.jobs = x.jobs /\ y.timers = x.timers
      /\ y.refs = [x.refs EXCEPT ![o] = @ - 1]
      /\ y.op = [x.op EXCEPT ![o] = IF x.refs[o] = 1 THEN NoOp ELSE @]
  BY UnrefFields, SMTT(30)
<1>2. y.queue = x.queue /\ y.connected = x.connected
      /\ y.monitor_op = x.monitor_op
  BY <1>1, Zenon DEF SameLinks, SameMonitors
<1>3. \A p : /\ InFlight(y, p) <=> InFlight(x, p)
             /\ Holders(y, p) = Holders(x, p)
  BY <1>1, <1>2, Zenon DEF InFlight, Holders
<1>4. x.op \in [OpId -> OpRec] /\ x.refs \in [OpId -> Int]
  BY FieldTypes, Zenon
<1>5. x.refs[o] = 1 => ~Active(y, o) /\ y.monitor_op[o[1]] # o
  <2> SUFFICES ASSUME x.refs[o] = 1
               PROVE  ~Active(y, o) /\ y.monitor_op[o[1]] # o
    OBVIOUS
  <2>1. ~(Holders(y, o) >= 1)
    BY <1>3, SMTT(30) DEF Holders
  <2> QED
    BY <2>1 DEF Holders, Active
<1>6. \A p \in OpId : Active(y, p) \/ y.monitor_op[p[1]] = p =>
        y.op[p] = x.op[p]
  BY <1>1, <1>4, <1>5, Zenon
<1>7. Shrunk(x, y)
  BY <1>1, <1>2, Unshrunk, Zenon
<1>8. \A a \in Assemblies : n[a] = "RUNNING" =>
        a \in y.connected /\ (n[a] = "RUNNING" \/ y.jobs > 0)
  BY <1>2, Zenon DEF Core
<1>9. Core(y, n)
  <2>1. /\ y \in Data /\ SameMonitors(x, y) /\ SameHistory(x, y)
        /\ SameGraph(x, y) /\ y.jobs = x.jobs
    BY <1>1, Zenon
  <2> QED
    BY <1>2, <1>6, <1>7, <1>8, <2>1, KeptCore, SMTT(30)
<1>10. Counted(y)
  <2> SUFFICES ASSUME NEW p \in OpId PROVE y.refs[p] >= Holders(y, p)
    BY Zenon DEF Counted
  <2>1. Holders(x, p) \in Int
    BY SMTT(30) DEF Holders
  <2>2. CASE p = o
    BY <1>1, <1>3, <1>4, <2>1, <2>2, SMTT(30)
  <2>3. CASE p # o
    BY <1>1, <1>3, <1>4, <2>3, Zenon
  <2> QED
    BY <2>2, <2>3, Zenon
<1> QED
  BY <1>1, <1>9, <1>10, Zenon DEF IInv

\* What has leaked can be forgotten.
LEMMA ForgetKeeps ==
  ASSUME NEW x, NEW n, IInv(x, n), NEW y, y = forget_leaked(x)
  PROVE  /\ IInv(y, n) /\ SameHistory(x, y) /\ y.process = x.process
         /\ y.queue = x.queue /\ y.connected = x.connected
<1> DEFINE leaked == {o \in OpId : x.refs[o] > 0 /\ Holders(x, o) = 0}
           f == [o \in OpId |-> IF o \in leaked THEN 0 ELSE x.refs[o]]
           g == [o \in OpId |-> IF o \in leaked THEN NoOp ELSE x.op[o]]
<1>1. y = [x EXCEPT !.refs = f, !.op = g]
  BY DEF forget_leaked
<1>2. x \in Data /\ n \in NodeType /\ Core(x, n) /\ Counted(x)
  BY Zenon DEF IInv
<1>3. x.op \in [OpId -> OpRec] /\ x.refs \in [OpId -> Int]
  BY <1>2, FieldTypes, Zenon
<1>4. f \in RefsType
  BY <1>3 DEF RefsType
<1>5. NoOp \in OpRec
  BY DEF OpRec, NoOp
<1>6. g \in OpType
  BY <1>3, <1>5, Zenon DEF OpType
<1>7. \A p \in OpId : Active(x, p) \/ x.monitor_op[p[1]] = p => g[p] = x.op[p]
  <2> TAKE p \in OpId
  <2>1. Active(x, p) \/ x.monitor_op[p[1]] = p => Holders(x, p) # 0
    BY DEF Active, Holders
  <2> QED
    BY <2>1, Zenon
<1>8. \A p \in OpId : f[p] >= Holders(x, p)
  <2> TAKE p \in OpId
  <2>1. x.refs[p] >= Holders(x, p) /\ Holders(x, p) \in Int
    BY <1>2 DEF Counted, Holders
  <2> QED
    BY <2>1
<1> HIDE DEF f, g
<1>9. /\ y \in Data /\ y.refs = f /\ y.op = g
      /\ SameMonitors(x, y) /\ SameHistory(x, y) /\ SameLinks(x, y)
      /\ SameGraph(x, y) /\ y.jobs = x.jobs /\ y.timers = x.timers
  BY <1>1, <1>2, <1>4, <1>6, ZenonT(30)
  DEF Data, SameMonitors, SameHistory, SameLinks, SameGraph
<1>10. /\ y.queue = x.queue /\ y.connected = x.connected
       /\ y.monitor_op = x.monitor_op /\ y.process = x.process
  BY <1>9, Zenon DEF SameLinks, SameMonitors
<1>11. \A p : /\ Active(y, p) <=> Active(x, p)
              /\ Holders(y, p) = Holders(x, p)
  BY <1>9, <1>10 DEF Active, InFlight, Holders
<1>12. \A p \in OpId : Active(y, p) \/ y.monitor_op[p[1]] = p =>
         y.op[p] = x.op[p]
  BY <1>7, <1>9, <1>10, <1>11, Zenon
<1>13. Shrunk(x, y)
  BY <1>2, <1>9, <1>10, Unshrunk, Zenon
<1>14. \A a \in Assemblies : n[a] = "RUNNING" =>
         a \in y.connected /\ (n[a] = "RUNNING" \/ y.jobs > 0)
  BY <1>2, <1>10, Zenon DEF Core
<1>15. Core(y, n)
  BY <1>2, <1>9, <1>10, <1>12, <1>13, <1>14, KeptCore, SMTT(30)
<1>16. Counted(y)
  BY <1>8, <1>9, <1>11, Zenon DEF Counted
<1> QED
  BY <1>2, <1>9, <1>10, <1>15, <1>16 DEF IInv

\* Dropping the operations of an assembly preserves the invariant.
LEMMA DropKeeps ==
  ASSUME NEW x, NEW n, IInv(x, n), NEW a \in Assemblies,
         NEW y, y = drop_ops(x, a)
  PROVE  /\ IInv(y, n) /\ y.process = x.process /\ y.connected = x.connected
         /\ SameHistory(x, y) /\ y.jobs = x.jobs
         /\ y.queue = [x.queue EXCEPT ![a] = <<>>]
<1> DEFINE q == [x.queue EXCEPT ![a] = <<>>]
<1>1. y = [x EXCEPT !.queue = q]
  BY DEF drop_ops
<1>2. x \in Data /\ n \in NodeType /\ Core(x, n) /\ Counted(x)
  BY Zenon DEF IInv
<1>3. q \in QueueType /\ \A b \in Assemblies : q[b] \in {x.queue[b], <<>>}
  BY <1>2, FieldTypes DEF QueueType
<1> HIDE DEF q
<1>4. /\ y \in Data /\ y.queue = q /\ SameOps(x, y)
      /\ SameMonitors(x, y) /\ SameHistory(x, y) /\ y.connected = x.connected
      /\ SameGraph(x, y) /\ y.jobs = x.jobs /\ y.timers = x.timers
      /\ y.process = x.process
  BY <1>1, <1>2, <1>3 DEF Data, SameOps, SameMonitors, SameHistory, SameGraph
<1>5. Shrunk(x, y)
  <2> SUFFICES ASSUME NEW b \in Assemblies
               PROVE  /\ IsInjective(y.queue[b])
                      /\ Range(y.queue[b]) \subseteq Range(x.queue[b])
                      /\ y.queue[b] # <<>> => x.queue[b] # <<>>
    BY <1>4, Zenon DEF Shrunk
  <2>1. CASE y.queue[b] = <<>>
    <3>1. IsInjective(<<>>) /\ Range(<<>>) = {}
      BY SMTT(30) DEF IsInjective, Range
    <3> QED
      BY <2>1, <3>1
  <2>2. CASE y.queue[b] = x.queue[b]
    BY <1>2, <2>2, Zenon DEF Core, QueueInv
  <2> QED
    BY <1>3, <1>4, <2>1, <2>2, Zenon
<1>6. \A b \in Assemblies : n[b] = "RUNNING" =>
        b \in y.connected /\ (n[b] = "RUNNING" \/ y.jobs > 0)
  BY <1>2, <1>4, Zenon DEF Core
<1>7. Core(y, n)
  BY <1>2, <1>4, <1>5, <1>6, KeptCore, Zenon DEF SameOps
<1>8. Counted(y)
  BY <1>2, <1>4, <1>5, KeptCounted, Zenon DEF SameOps, SameMonitors
<1> QED
  BY <1>2, <1>4, <1>7, <1>8, Zenon DEF IInv, q

\* Adding a process_job, while nodes may go down.
LEMMA ScheduleKeeps ==
  ASSUME NEW x, NEW n, IInv(x, n), NEW m \in NodeType,
         \A a \in Assemblies : m[a] = "RUNNING" => n[a] = "RUNNING",
         NEW y, y = schedule_processing(x)
  PROVE  /\ IInv(y, m) /\ SameHistory(x, y) /\ SameLinks(x, y) /\ y.jobs > 0
         /\ y.timers = x.timers
<1>1. x \in Data /\ n \in NodeType /\ Core(x, n) /\ Counted(x)
  BY Zenon DEF IInv
<1>2. /\ y \in Data
      /\ SameOps(x, y) /\ SameMonitors(x, y) /\ SameHistory(x, y)
      /\ SameLinks(x, y) /\ SameGraph(x, y) /\ y.timers = x.timers
      /\ y.jobs > 0
  BY <1>1, ScheduleFields, Zenon
<1>3. Shrunk(x, y)
  BY <1>1, <1>2, Unshrunk, Zenon DEF SameLinks
<1>4. \A a \in Assemblies : m[a] = "RUNNING" =>
        a \in y.connected /\ (n[a] = "RUNNING" \/ y.jobs > 0)
  BY <1>1, <1>2, Zenon DEF Core, SameLinks
<1>5. x.connected \subseteq y.connected /\ (y.jobs = 0 => x.jobs = 0)
  BY <1>2 DEF SameLinks
<1>6. Core(y, m)
  BY <1>1, <1>2, <1>3, <1>4, <1>5, KeptCore, Zenon DEF SameOps
<1>7. Counted(y)
  BY <1>1, <1>2, <1>3, KeptCounted DEF SameOps, SameMonitors
<1> QED
  BY <1>2, <1>6, <1>7 DEF IInv

(***************************************************************************)
(* Operations end.                                                         *)
(***************************************************************************)

\* The history after step k of resource r ended with rc.
Recorded(x, y, r, k, rc) ==
  /\ y.history = [x.history EXCEPT ![r] = [@ EXCEPT ![k] = rc]]
  /\ y.last = [x.last EXCEPT ![r] = k]

\* The oldest operation of a queue leaves it.
dequeue(x, a) == [x EXCEPT !.queue[a] = Tail(@)]

\* Operation o is ready to end: it has left the queue of a, which has given it
\* two references to lose.
Dequeues(x, y, n, a, o) ==
  /\ o \in OpId /\ Home[o[1]] = a /\ y \in Data /\ Core(y, n) /\ Ending(y, o)
  /\ y.op[o].step = "monitor" => y.monitor_op[o[1]] = o
  /\ a \in y.connected
  /\ \A p \in OpId \ {o} : y.refs[p] >= Holders(y, p)
  /\ y.refs[o] >= Holders(y, o) + 2
  /\ SameOps(x, y) /\ SameHistory(x, y) /\ y.connected = x.connected
  /\ y.process = x.process /\ y.queue = [x.queue EXCEPT ![a] = Tail(@)]

\* That is what removing the head of the queue does.
LEMMA Dequeued ==
  ASSUME NEW x, NEW n, IInv(x, n), NEW a \in Assemblies, x.queue[a] # <<>>,
         NEW o, o = Head(x.queue[a]), NEW y, y = dequeue(x, a)
  PROVE  Dequeues(x, y, n, a, o)
<1> DEFINE q == [x.queue EXCEPT ![a] = Tail(@)]
<1>1. y = [x EXCEPT !.queue = q]
  BY Zenon DEF dequeue
<1>2. x \in Data /\ n \in NodeType /\ Core(x, n) /\ Counted(x)
  BY Zenon DEF IInv
<1>3. x.queue \in [Assemblies -> Seq(OpId)]
  BY <1>2, FieldTypes, Zenon
<1>4. \A b \in Assemblies : QueueInv(x, b)
  BY <1>2, Zenon DEF Core
<1>5. /\ Tail(x.queue[a]) \in Seq(OpId) /\ o \in OpId
      /\ o \in Range(x.queue[a])
      /\ Range(Tail(x.queue[a])) = Range(x.queue[a]) \ {o}
      /\ IsInjective(Tail(x.queue[a]))
  BY <1>3, <1>4, RangeTail, Zenon DEF QueueInv
<1>6. Home[o[1]] = a /\ a \in x.connected
  BY <1>4, <1>5, Zenon DEF QueueInv
<1>7. q \in QueueType
  BY <1>3, <1>5, Zenon DEF QueueType
<1>8. q[a] = Tail(x.queue[a]) /\ \A b \in Assemblies \ {a} : q[b] = x.queue[b]
  BY <1>3
<1> HIDE DEF q
<1>9. /\ y \in Data /\ y.queue = q /\ SameOps(x, y)
      /\ SameMonitors(x, y) /\ SameHistory(x, y) /\ y.connected = x.connected
      /\ SameGraph(x, y) /\ y.jobs = x.jobs /\ y.timers = x.timers
      /\ y.process = x.process
  BY <1>1, <1>2, <1>7, SMTT(30) DEF Data, SameOps, SameMonitors, SameHistory, SameGraph
<1>10. Shrunk(x, y)
  <2> SUFFICES ASSUME NEW b \in Assemblies
               PROVE  /\ IsInjective(y.queue[b])
                      /\ Range(y.queue[b]) \subseteq Range(x.queue[b])
                      /\ y.queue[b] # <<>> => x.queue[b] # <<>>
    BY <1>9, Zenon DEF Shrunk
  <2>1. CASE b = a
    BY <1>5, <1>8, <1>9, <2>1, Zenon
  <2>2. CASE b # a
    BY <1>4, <1>8, <1>9, <2>2 DEF QueueInv
  <2> QED
    BY <2>1, <2>2, Zenon
<1>11. \A b \in Assemblies : n[b] = "RUNNING" =>
         b \in y.connected /\ (n[b] = "RUNNING" \/ y.jobs > 0)
  BY <1>2, <1>9, Zenon DEF Core
<1>12. Core(y, n) /\ \A p \in OpId : Active(y, p) => Active(x, p)
  BY <1>2, <1>9, <1>10, <1>11, KeptCore, SMTT(30) DEF SameOps
<1>13. InFlight(x, o) /\ ~InFlight(y, o) /\ Active(x, o)
  BY <1>5, <1>6, <1>8, <1>9, Zenon DEF InFlight, Active
<1>14. OpInv(x, o)
  BY <1>2, <1>5, Zenon DEF Core
<1>15. o \notin x.timers
  BY <1>13, <1>14, Zenon DEF OpInv
<1>16. \A p \in OpId : p[1] = o[1] => ~Active(y, p)
  BY <1>9, <1>12, <1>13, <1>14, <1>15, Zenon DEF OpInv, Active
<1>17. Fresh(y, o) \/ Settled(y, o)
  BY <1>9, <1>13, <1>14, Zenon
  DEF OpInv, Fresh, Settled, SameOps, SameGraph, SameHistory
<1>18. y.op[o].step = "monitor" =>
         y.monitor_op[o[1]] = o /\ ~HardError(y.history[o[1]])
  BY <1>9, <1>13, <1>14, Zenon DEF OpInv, SameOps, SameMonitors, SameHistory
<1>19. Ending(y, o)
  BY <1>16, <1>17, <1>18, Zenon DEF Ending
<1>20. \A p \in OpId \ {o} : y.refs[p] >= Holders(y, p)
  <2>1. Counted(y)
    BY <1>2, <1>9, <1>10, KeptCounted, Zenon DEF SameOps, SameMonitors
  <2> QED
    BY <2>1, Zenon DEF Counted
<1>21. y.refs[o] >= Holders(y, o) + 2
  <2>1. x.refs[o] >= Holders(x, o) /\ x.refs[o] \in Int
    BY <1>2, <1>5, FieldTypes, Zenon DEF Counted
  <2>2. Holders(x, o) = Holders(y, o) + 2
    BY <1>9, <1>13 DEF Holders, SameMonitors
  <2> QED
    BY <1>9, <2>1, <2>2 DEF SameOps
<1> QED
  BY <1>5, <1>6, <1>9, <1>12, <1>18, <1>19, <1>20, <1>21, Zenon DEF q, Dequeues

\* What has become of the data when it has ended.
Ends(x, z, n, a, o, rc) ==
  /\ IInv(z, n) /\ Recorded(x, z, o[1], x.op[o].step, rc)
  /\ o \in OpId /\ Home[o[1]] = a /\ x.op[o].step \in Step
  /\ z.connected = x.connected /\ z.process = x.process
  /\ z.queue = [x.queue EXCEPT ![a] = Tail(@)]

\* resource_action_completion preserves the invariant.
LEMMA CompletionStep ==
  ASSUME NEW x0, NEW n, IInv(x0, n), NEW a \in Assemblies, x0.queue[a] # <<>>,
         NEW o, o = Head(x0.queue[a]), NEW rc \in Codes, NEW answer,
         NEW x, x = dequeue(x0, a),
         NEW y, y = resource_action_completed(x, o, rc, answer),
         NEW z, z = forget_leaked(pe_resource_unref(y, o))
  PROVE  Ends(x0, z, n, a, o, rc)
<1>1. /\ o \in OpId /\ Home[o[1]] = a /\ x \in Data /\ Core(x, n)
      /\ Ending(x, o)
      /\ x.op[o].step = "monitor" => x.monitor_op[o[1]] = o
      /\ a \in x.connected
      /\ \A p \in OpId \ {o} : x.refs[p] >= Holders(x, p)
      /\ x.refs[o] >= Holders(x, o) + 2
      /\ SameOps(x0, x) /\ SameHistory(x0, x) /\ x.connected = x0.connected
      /\ x.process = x0.process /\ x.queue = [x0.queue EXCEPT ![a] = Tail(@)]
  <2>1. Dequeues(x0, x, n, a, o)
    BY Dequeued, Zenon
  <2> QED
    BY <2>1, Zenon DEF Dequeues
<1>2. n \in NodeType
  BY Zenon DEF IInv
<1>3. Completable(x, o) /\ ~Active(x, o)
  BY <1>1, EndingCompletable, Zenon DEF Ending
<1>4. x.monitor_op[o[1]] = o => x.refs[o] # 1
  BY <1>1, SMTT(30) DEF Holders
<1>5. Rearmed(x, o, rc) => x.monitor_op[o[1]] = o /\ Home[o[1]] \in x.connected
  BY <1>1, Zenon DEF Rearmed
<1>6. y \in Data /\ Core(y, n)
  <2>1. o \in OpId /\ x \in Data /\ Core(x, n) /\ Ending(x, o)
    BY <1>1, Zenon
  <2> QED
    BY <1>2, <1>4, <1>5, <2>1, CompletedCore, Zenon
<1>7. /\ \A p \in OpId \ {o} : y.refs[p] >= Holders(y, p)
      /\ y.refs[o] >= Holders(y, o) + 1
  <2>1. /\ o \in OpId /\ x \in Data
        /\ \A p \in OpId \ {o} : x.refs[p] >= Holders(x, p)
    BY <1>1, Zenon
  <2>2. /\ \A p \in OpId \ {o} : y.refs[p] >= Holders(y, p)
        /\ y.refs[o] - Holders(y, o) >= x.refs[o] - Holders(x, o) - 1
    BY <1>3, <2>1, CompletedCounted, SMTT(30)
  <2>3. Holders(y, o) \in Int /\ Holders(x, o) \in Int
    BY DEF Holders
  <2>4. x.refs[o] \in Int /\ y.refs[o] \in Int
    BY <1>6, <2>1, FieldTypes, Zenon
  <2>5. x.refs[o] >= Holders(x, o) + 2
    BY <1>1, Zenon
  <2>6. y.refs[o] >= Holders(y, o) + 1
    BY <2>2, <2>3, <2>4, <2>5, SMTT(30)
  <2> QED
    BY <2>2, <2>6, Zenon
<1>8. Completes(x, y, o, rc)
  BY <1>1, <1>3, CompletedFields, Zenon
<1> DEFINE u == pe_resource_unref(y, o)
<1>9. IInv(u, n)
  BY <1>1, <1>2, <1>6, <1>7, UnrefKeeps, Zenon
<1>10. SameHistory(y, u) /\ SameLinks(y, u)
  BY <1>1, <1>6, UnrefFields, Zenon
<1> HIDE DEF u
<1>11. /\ IInv(z, n) /\ SameHistory(u, z) /\ z.process = u.process
       /\ z.queue = u.queue /\ z.connected = u.connected
  <2>1. z = forget_leaked(u)
    BY DEF u
  <2> QED
    BY <1>9, <2>1, ForgetKeeps, Zenon
<1>12. Recorded(x0, z, o[1], x0.op[o].step, rc)
  <2>1. z.history = y.history /\ z.last = y.last
    BY <1>10, <1>11, Zenon DEF SameHistory
  <2>2. x.history = x0.history /\ x.last = x0.last /\ x.op = x0.op
    BY <1>1, Zenon DEF SameHistory, SameOps
  <2>3. Recorded(x, y, o[1], x.op[o].step, rc)
    BY <1>8, Zenon DEF Completes, Recorded
  <2> QED
    BY <2>1, <2>2, <2>3, Zenon DEF Recorded
<1>13. /\ z.connected = x.connected /\ z.process = x.process
       /\ z.queue = x.queue
  BY <1>8, <1>10, <1>11, ZenonT(30) DEF Completes, SameLinks
<1>14. x0.op[o].step \in Step
  BY <1>1, <1>3, Zenon DEF Completable, SameOps
<1> QED
  BY <1>1, <1>11, <1>12, <1>13, <1>14, Zenon DEF Ends

=============================================================================

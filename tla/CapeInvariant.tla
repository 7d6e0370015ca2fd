--------------------------- MODULE CapeInvariant ---------------------------
(***************************************************************************)
(* The inductive invariant of Cape is preserved by every action, and the   *)
(* theorems that follow from it: the safety invariants of module Cape, and *)
(* that cape uses its assemblies as module Transport allows.               *)
(***************************************************************************)
EXTENDS CapeGraph

(***************************************************************************)
(* A new transition.                                                       *)
(***************************************************************************)

\* process_job preserves the invariant: nothing is planned for a resource
\* whose monitor is in flight, a hard error or a failed stop is respected.
LEMMA JobStep ==
  ASSUME NoReplan, IInv(c, node), process_job
  PROVE  /\ IInv(c', node') /\ SameHistory(c, c') /\ SameLinks(c, c')
         /\ Up /\ UNCHANGED <<node, service>>
<1> DEFINE d == [r \in Resources |-> Planned(r, FALSE)]
           q == {a \in Assemblies : /\ node[a] = "RUNNING"
                                    /\ \E r \in Resources : Home[r] # a}
           y == c'
<1>1. PICK replan \in SUBSET {r \in Resources :
                                Planned(r, TRUE) # Planned(r, FALSE)} :
        /\ IF replan = {} THEN UNCHANGED faults ELSE Trouble("replan")
        /\ c' = [c EXCEPT
             !.jobs = @ - 1, !.busy = TRUE, !.updated = TRUE,
             !.todo = [r \in Resources |-> Planned(r, r \in replan)],
             !.probes = {a \in Assemblies :
                           /\ node[a] = "RUNNING"
                           /\ \E r \in Resources : Home[r] # a}]
  BY Zenon DEF process_job
<1>2. replan = {}
  BY <1>1 DEF NoReplan, Trouble
<1>3. [r \in Resources |-> Planned(r, r \in replan)] = d
  <2>1. \A r \in Resources : Planned(r, r \in replan) = Planned(r, FALSE)
    <3> TAKE r \in Resources
    <3>1. (r \in replan) = FALSE
      BY <1>2
    <3> QED
      BY <3>1, Zenon
  <2> QED
    BY <2>1, Zenon
<1>4. y = [c EXCEPT !.jobs = @ - 1, !.busy = TRUE, !.updated = TRUE,
                    !.todo = d, !.probes = q]
  BY <1>1, <1>3, Zenon
<1>5. /\ c \in Data /\ node \in NodeType /\ Core(c, node) /\ Counted(c)
      /\ c.jobs > 0 /\ ~c.busy /\ Up /\ UNCHANGED <<node, service>>
  BY DEF IInv, process_job
<1>6. \A r \in Resources :
        d[r] = IF node[Home[r]] = "RUNNING"
               THEN Plan(c.history[r], c.last[r], FALSE) ELSE <<>>
  BY DEF Planned
<1>7. \A r \in Resources :
        c.history[r] \in EntriesType /\ c.last[r] \in Step \cup {"none"}
  BY <1>5, FieldTypes
<1>8. d \in TodoType
  <2>1. \A r \in Resources : d[r] \in Plans
    BY <1>6, <1>7, PlanFacts, Zenon DEF Plans
  <2> QED
    BY <2>1, Zenon DEF TodoType
<1>9. q \in LinksType /\ c.jobs - 1 \in JobsType
  <2>1. c.jobs \in 0 .. MaxJobs /\ MaxJobs \in Nat
    BY <1>5, FieldTypes, CapeConstantsOK
  <2> QED
    BY <1>5, <2>1 DEF LinksType, JobsType
<1> HIDE DEF d, q, y
<1>10. y \in Data
  <2> DEFINE j == c.jobs - 1
             v == [c EXCEPT !.jobs = j, !.busy = TRUE, !.updated = TRUE]
  <2>1. y = [v EXCEPT !.todo = d, !.probes = q]
    BY <1>4, <1>5 DEF Data
  <2>2. j \in JobsType
    BY <1>9
  <2> HIDE DEF j
  <2>3. v \in Data
    BY <1>5, <2>2, Zenon DEF Data
  <2> HIDE DEF v
  <2> QED
    BY <1>8, <1>9, <2>1, <2>3, Zenon DEF Data
<1>11. /\ SameOps(c, y) /\ SameMonitors(c, y) /\ SameHistory(c, y)
       /\ SameLinks(c, y) /\ y.timers = c.timers
       /\ y.fired = c.fired /\ y.abort = c.abort /\ y.todo = d /\ y.busy
  BY <1>4, <1>5 DEF Data, SameOps, SameMonitors, SameHistory, SameLinks
<1>12. /\ y.queue = c.queue /\ y.connected = c.connected
       /\ y.monitor_op = c.monitor_op /\ y.monitor_timer = c.monitor_timer
       /\ y.history = c.history /\ y.last = c.last
       /\ y.op = c.op /\ y.refs = c.refs
  BY <1>11 DEF SameOps, SameMonitors, SameHistory, SameLinks
<1>13. \A p : /\ InFlight(y, p) <=> InFlight(c, p)
              /\ Active(y, p) <=> Active(c, p)
              /\ Holders(y, p) = Holders(c, p)
  BY <1>11, <1>12, Zenon DEF InFlight, Active, Holders
<1>14. ASSUME NEW p \in OpId PROVE OpInv(y, p)
  <2> SUFFICES ASSUME Active(y, p) PROVE OpInv(y, p)
    BY DEF OpInv
  <2>1. OpInv(c, p) /\ Active(c, p) /\ p[1] \in Resources
    BY <1>5, <1>13, OpIdFacts, Zenon DEF Core
  <2>2. Settled(c, p) /\ ~HardError(c.history[p[1]])
    BY <1>5, <2>1 DEF OpInv, Fresh, Settled
  <2>3. d[p[1]] = <<>>
    BY <1>6, <1>7, <2>1, <2>2, PlanFacts, Zenon DEF Settled
  <2>4. Settled(y, p)
    BY <1>11, <1>12, <2>2, <2>3, Zenon DEF Settled
  <2> QED
    BY <1>11, <1>12, <1>13, <2>1, <2>4 DEF OpInv
<1>15. ASSUME NEW r \in Resources PROVE ResInv(y, r)
  <2>1. ResInv(c, r)
    BY <1>5, Zenon DEF Core
  <2>2. ~y.fired[r]
    BY <1>5, <1>11, <2>1, Zenon DEF ResInv
  <2>3. StopFailed(c.history[r]) => c.last[r] = "stop" /\ d[r] = <<>>
    BY <1>6, <1>7, <2>1, PlanFacts, Zenon DEF ResInv, StopFailed
  <2>4. HardError(c.history[r]) => d[r] \in {<<>>, <<"stop">>}
    <3>1. ~HardError(NoHistory)
      BY Zenon DEF HardError, NoHistory
    <3>2. HardError(c.history[r]) => c.last[r] # "none"
      BY <2>1, <3>1 DEF ResInv
    <3> QED
      BY <1>6, <1>7, <3>2, PlanFacts, Zenon
  <2> QED
    BY <1>11, <1>12, <2>1, <2>2, <2>3, <2>4 DEF ResInv
<1>16. ASSUME NEW r \in Resources PROVE PlanInv(y, node, r)
  <2> SUFFICES ASSUME node[Home[r]] = "RUNNING"
               PROVE  /\ d[r] = <<>> =>
                           Plan(c.history[r], c.last[r], FALSE) = <<>>
                      /\ d[r] = <<"stop">> =>
                           \E k \in Step \ {"stop"} :
                             c.history[r][k] = "HARD_ERROR"
    BY <1>11, <1>12, Zenon DEF PlanInv
  <2>1. d[r] = Plan(c.history[r], c.last[r], FALSE)
    BY <1>6, Zenon
  <2>2. ASSUME d[r] = <<"stop">>
        PROVE  \E k \in Step \ {"stop"} : c.history[r][k] = "HARD_ERROR"
    <3>1. HardError(c.history[r]) /\ c.last[r] # "stop"
      BY <1>7, <2>1, <2>2, PlanFacts, Zenon
    <3>2. ~StopFailed(c.history[r])
      BY <1>5, <3>1 DEF Core, ResInv
    <3> QED
      BY <3>1, <3>2 DEF HardError, StopFailed
  <2> QED
    BY <2>1, <2>2, Zenon
<1>17. Core(y, node)
  BY <1>5, <1>11, <1>12, <1>14, <1>15, <1>16, Zenon DEF Core, QueueInv
<1>18. Counted(y)
  BY <1>5, <1>12, <1>13 DEF Counted
<1>19. IInv(y, node)
  BY <1>5, <1>10, <1>17, <1>18 DEF IInv
<1> QED
  BY <1>5, <1>11, <1>19 DEF y

(***************************************************************************)
(* Assemblies come up and fail.                                            *)
(***************************************************************************)

\* What stopping the recurring monitor o, whose timer runs, does to the
\* fields: two references less, one for each holder that lets go.
Stops(x, y, o) ==
  /\ y.monitor_op = [x.monitor_op EXCEPT ![o[1]] = None]
  /\ y.timers = x.timers \ {o} /\ y.refs = [x.refs EXCEPT ![o] = @ - 2]
  /\ \A p \in OpId \ {o} : y.op[p] = x.op[p]
  /\ y.todo = x.todo /\ y.fired = x.fired

\* What giving back a reference does to them.
Unrefs(x, y, o) ==
  /\ SameMonitors(x, y) /\ SameGraph(x, y) /\ y.timers = x.timers
  /\ y.refs = [x.refs EXCEPT ![o] = @ - 1]
  /\ y.op = [x.op EXCEPT ![o] = IF x.refs[o] = 1 THEN NoOp ELSE @]

\* pe_resource_unref does that.
LEMMA Unreferenced ==
  ASSUME NEW x \in Data, NEW o \in OpId, NEW y, y = pe_resource_unref(x, o)
  PROVE  y \in Data /\ Unrefs(x, y, o)
BY UnrefFields DEF Unrefs

\* recurring_monitor_stop does that.
LEMMA StopFields ==
  ASSUME NEW x \in Data, NEW o \in OpId,
         o \in x.timers, x.monitor_timer[o[1]] = o,
         NEW y, y = recurring_monitor_stop(x, o)
  PROVE  y \in Data /\ Stops(x, y, o)
<1> DEFINE t == x.timers \ {o}
           v == [x EXCEPT !.timers = t]
           u == pe_resource_unref(v, o)
           m == [x.monitor_op EXCEPT ![o[1]] = None]
           w == [u EXCEPT !.monitor_op = m]
<1>1. v \in Data /\ v.timers = t /\ v.op = x.op /\ v.refs = x.refs
      /\ SameMonitors(x, v) /\ SameGraph(x, v)
  <2>1. t \in TimersType
    BY FieldTypes DEF TimersType
  <2> HIDE DEF t
  <2> QED
    BY <2>1 DEF Data, SameMonitors, SameGraph
<1>2. y = pe_resource_unref([u EXCEPT !.monitor_op[o[1]] = None], o)
  BY DEF recurring_monitor_stop, timer_is_running, timer_del
<1> HIDE DEF v
<1>3. /\ u \in Data /\ SameMonitors(v, u) /\ SameGraph(v, u)
      /\ u.timers = v.timers /\ u.refs = [v.refs EXCEPT ![o] = @ - 1]
      /\ u.op = [v.op EXCEPT ![o] = IF v.refs[o] = 1 THEN NoOp ELSE @]
  <2>1. u \in Data /\ Unrefs(v, u, o)
    BY <1>1, Unreferenced
  <2> HIDE DEF u
  <2> QED
    BY <2>1 DEF Unrefs
<1> HIDE DEF u
<1>4. m \in MonitorType /\ u.monitor_op = x.monitor_op
  BY <1>1, <1>3, FieldTypes, Zenon DEF MonitorType, SameMonitors
<1>5. y = pe_resource_unref(w, o)
  BY <1>2, <1>4
<1> HIDE DEF m
<1>6. /\ w \in Data /\ w.monitor_op = m /\ w.op = u.op /\ w.refs = u.refs
      /\ w.timers = u.timers /\ SameGraph(u, w)
  BY <1>3, <1>4 DEF Data, SameGraph
<1> HIDE DEF w
<1>7. /\ y \in Data /\ SameMonitors(w, y) /\ SameGraph(w, y)
      /\ y.timers = w.timers /\ y.refs = [w.refs EXCEPT ![o] = @ - 1]
      /\ y.op = [w.op EXCEPT ![o] = IF w.refs[o] = 1 THEN NoOp ELSE @]
  <2>1. y \in Data /\ Unrefs(w, y, o)
    BY <1>5, <1>6, Unreferenced
  <2> QED
    BY <2>1 DEF Unrefs
<1>8. x.refs \in [OpId -> Int] /\ x.op \in [OpId -> OpRec]
  BY FieldTypes
<1>9. y.refs = [x.refs EXCEPT ![o] = @ - 2]
  <2>1. u.refs = [x.refs EXCEPT ![o] = @ - 1]
    BY <1>1, <1>3
  <2>2. y.refs = [u.refs EXCEPT ![o] = @ - 1]
    BY <1>6, <1>7
  <2>3. (x.refs[o] - 1) - 1 = x.refs[o] - 2
    BY <1>8
  <2> QED
    BY <1>8, <2>1, <2>2, <2>3
<1>10. \A p \in OpId \ {o} : y.op[p] = x.op[p]
  <2>1. \A p \in OpId \ {o} : u.op[p] = x.op[p]
    BY <1>1, <1>3, <1>8
  <2>2. u.op \in [OpId -> OpRec]
    BY <1>3, FieldTypes, Zenon
  <2> QED
    BY <1>6, <1>7, <2>1, <2>2
<1>11. y.monitor_op = m /\ y.timers = t /\ y.todo = x.todo /\ y.fired = x.fired
  BY <1>1, <1>3, <1>6, <1>7 DEF SameMonitors, SameGraph
<1> QED
  BY <1>7, <1>9, <1>10, <1>11 DEF Stops, m

\* What node_op_history_clear and the disconnection do to the fields.
flushed(x, a) ==
  [node_op_history_clear(x, a) EXCEPT !.connected = @ \ {a},
                                      !.destroyed = @ \ {a}]

Flushes(x, y, a) ==
  /\ y.history = [r \in Resources |->
                    IF Home[r] = a THEN NoHistory ELSE x.history[r]]
  /\ y.last = [r \in Resources |-> IF Home[r] = a THEN "none" ELSE x.last[r]]
  /\ y.connected = x.connected \ {a} /\ y.queue = x.queue
  /\ y.process = x.process /\ y.jobs = x.jobs
  /\ y.busy = x.busy /\ y.abort = x.abort
  /\ y.todo = x.todo /\ y.fired = x.fired /\ y.monitor_timer = x.monitor_timer
  /\ \A p \in OpId : p \in y.timers <=> p \in x.timers /\ Home[p[1]] # a
  /\ \A r \in Resources :
       \/ /\ y.monitor_op[r] = x.monitor_op[r]
          /\ \A p \in OpId : p[1] = r =>
               y.op[p] = x.op[p] /\ y.refs[p] = x.refs[p]
       \/ /\ Home[r] = a /\ y.monitor_op[r] = None
          /\ \A p \in OpId : p[1] = r => y.refs[p] >= 0

\* The monitors of the assembly are all stopped, because each has its entry in
\* the history.
LEMMA FlushFields ==
  ASSUME NEW x, NEW n, IInv(x, n), NEW a \in Assemblies, x.queue[a] = <<>>,
         NEW y, y = flushed(x, a)
  PROVE  y \in Data /\ Flushes(x, y, a)
<1> DEFINE mine == {r \in Resources : Home[r] = a}
           S == {r \in mine : /\ x.last[r] # "none" /\ timer_is_running(x, r)
                              /\ x.monitor_op[r] # None}
           f == [r \in S |-> recurring_monitor_stop(x, x.monitor_op[r])]
           w == PerResource(x, S, f)
           h == [r \in Resources |->
                   IF Home[r] = a THEN NoHistory ELSE x.history[r]]
           l == [r \in Resources |-> IF Home[r] = a THEN "none" ELSE x.last[r]]
           cn == x.connected \ {a}
           ds == x.destroyed \ {a}
<1>1. x \in Data /\ Core(x, n) /\ Counted(x)
  BY DEF IInv
<1>2. \A p \in OpId : Home[p[1]] = a => ~InFlight(x, p)
  BY DEF InFlight, Range
<1>3. ASSUME NEW r \in S
      PROVE  /\ r \in Resources /\ Home[r] = a /\ x.monitor_op[r] \in OpId
             /\ x.monitor_op[r][1] = r
             /\ x.monitor_op[r] \in x.timers
             /\ x.monitor_timer[r] = x.monitor_op[r]
             /\ x.refs[x.monitor_op[r]] >= 2
             /\ \A p \in OpId : p[1] = r /\ p \in x.timers => p = x.monitor_op[r]
  <2> DEFINE t == x.monitor_timer[r]
  <2>1. r \in Resources /\ Home[r] = a /\ t \in x.timers
    BY Zenon DEF timer_is_running
  <2>2. t \in OpId /\ t[1] = r
    <3>1. t \in OpId /\ ResInv(x, r)
      BY <1>1, <2>1, FieldTypes, Zenon DEF Core
    <3> QED
      BY <3>1, OpIdFacts, Zenon DEF ResInv
  <2> HIDE DEF t
  <2>3. OpInv(x, t) /\ Active(x, t)
    BY <1>1, <2>1, <2>2, Zenon DEF Core, Active
  <2>4. x.monitor_op[r] = t /\ \A p \in OpId : p[1] = r /\ p \in x.timers => p = t
    BY <2>1, <2>2, <2>3 DEF OpInv, Settled, Active
  <2>5. x.refs[t] >= 2
    <3>1. x.refs[t] >= Holders(x, t) /\ ~InFlight(x, t)
      BY <1>1, <1>2, <2>1, <2>2 DEF Counted
    <3>2. Holders(x, t) = 2
      BY <2>1, <2>2, <2>4, <3>1 DEF Holders
    <3> QED
      BY <3>1, <3>2
  <2> QED
    BY <2>1, <2>2, <2>4, <2>5 DEF t
<1>4. ASSUME NEW r \in S
      PROVE  f[r] \in Data /\ Stops(x, f[r], x.monitor_op[r])
  <2>1. f[r] = recurring_monitor_stop(x, x.monitor_op[r])
    OBVIOUS
  <2> HIDE DEF f, S
  <2> QED
    BY <1>1, <1>3, <2>1, StopFields
<1>5. ASSUME NEW p \in OpId, p \in x.timers, Home[p[1]] = a PROVE p[1] \in S
  <2>1. OpInv(x, p) /\ Active(x, p) /\ p[1] \in Resources
    BY <1>1, <1>5, OpIdFacts, Zenon DEF Core, Active
  <2>2. /\ x.last[p[1]] = "monitor" /\ x.monitor_timer[p[1]] = p
        /\ x.monitor_op[p[1]] = p
    BY <1>5, <2>1 DEF OpInv, Settled
  <2>3. p # None
    BY OpIdFacts
  <2> QED
    BY <1>5, <2>1, <2>2, <2>3, Zenon DEF timer_is_running
<1>6. S \in SUBSET Resources
  OBVIOUS
<1>7. y = [w EXCEPT !.history = [r \in Resources |->
                                   IF r \in mine THEN NoHistory ELSE @[r]],
                    !.last = [r \in Resources |->
                                IF r \in mine THEN "none" ELSE @[r]],
                    !.connected = @ \ {a}, !.destroyed = @ \ {a}]
  BY <1>1, Zenon DEF flushed, node_op_history_clear, PerResource, Data
<1> HIDE DEF S, f, w
<1>8. w \in Data /\ Joins(x, w, S, f)
  BY <1>1, <1>4, <1>6, PerResourceFields, Zenon DEF w
<1>9. /\ w.history = x.history /\ w.last = x.last /\ w.connected = x.connected
      /\ w.queue = x.queue /\ w.process = x.process /\ w.jobs = x.jobs
      /\ w.busy = x.busy /\ w.abort = x.abort
      /\ w.monitor_timer = x.monitor_timer
  BY <1>8 DEF Joins, SameHistory, SameLinks
<1>10. \A p \in OpId : p \in w.timers <=> p \in x.timers /\ Home[p[1]] # a
  <2> TAKE p \in OpId
  <2>1. CASE p[1] \in S
    <3>1. p \in w.timers <=> p \in f[p[1]].timers
      BY <1>8, <2>1, Zenon DEF Joins, SameOp
    <3>2. f[p[1]].timers = x.timers \ {x.monitor_op[p[1]]}
      BY <1>4, <2>1, Zenon DEF Stops
    <3> QED
      BY <1>3, <2>1, <3>1, <3>2, Zenon
  <2>2. CASE p[1] \notin S
    <3>1. p \in w.timers <=> p \in x.timers
      BY <1>8, <2>2, Zenon DEF Joins, SameOp
    <3> QED
      BY <1>5, <2>2, <3>1
  <2> QED
    BY <2>1, <2>2
<1>11. ASSUME NEW r \in Resources \ S
       PROVE  /\ w.monitor_op[r] = x.monitor_op[r]
              /\ w.todo[r] = x.todo[r] /\ w.fired[r] = x.fired[r]
              /\ \A p \in OpId : p[1] = r =>
                   w.op[p] = x.op[p] /\ w.refs[p] = x.refs[p]
  BY <1>8, Zenon DEF Joins, SameFields, SameOp
<1>12. ASSUME NEW r \in S
       PROVE  /\ Home[r] = a /\ w.monitor_op[r] = None
              /\ w.todo[r] = x.todo[r] /\ w.fired[r] = x.fired[r]
              /\ \A p \in OpId : p[1] = r => w.refs[p] >= 0
  <2> DEFINE o == x.monitor_op[r]
             v == f[r]
  <2>1. /\ r \in Resources /\ Home[r] = a /\ o \in OpId /\ o[1] = r
        /\ x.refs[o] >= 2
    BY <1>3
  <2>2. Stops(x, v, o)
    BY <1>4, Zenon
  <2> HIDE DEF o
  <2>3. SameFields(v, w, r) /\ \A p \in OpId : p[1] = r => SameOp(v, w, p)
    BY <1>6, <1>8, Zenon DEF Joins
  <2> HIDE DEF v
  <2>4. v.monitor_op[r] = None /\ v.todo[r] = x.todo[r] /\ v.fired[r] = x.fired[r]
    BY <1>1, <2>1, <2>2, FieldTypes DEF Stops
  <2>5. \A p \in OpId : p[1] = r => v.refs[p] >= 0
    <3>1. x.refs \in [OpId -> Int] /\ \A p \in OpId : x.refs[p] >= 0
      <4>1. \A p \in OpId : x.refs[p] >= Holders(x, p) /\ Holders(x, p) >= 0
                            /\ Holders(x, p) \in Int /\ x.refs[p] \in Int
        BY <1>1, FieldTypes DEF Counted, Holders
      <4>2. \A p \in OpId : x.refs[p] >= 0
        BY <4>1
      <4> QED
        BY <1>1, <4>2, FieldTypes, Zenon
    <3>2. v.refs = [x.refs EXCEPT ![o] = @ - 2]
      BY <2>2 DEF Stops
    <3> QED
      BY <2>1, <3>1, <3>2
  <2> QED
    BY <2>1, <2>3, <2>4, <2>5, Zenon DEF SameFields, SameOp
<1>13. w.todo = x.todo /\ w.fired = x.fired
  <2>1. \A r \in Resources : w.todo[r] = x.todo[r] /\ w.fired[r] = x.fired[r]
    BY <1>11, <1>12, Zenon
  <2>2. /\ w.todo \in [Resources -> Plans] /\ x.todo \in [Resources -> Plans]
        /\ w.fired \in [Resources -> BOOLEAN]
        /\ x.fired \in [Resources -> BOOLEAN]
    BY <1>1, <1>8, FieldTypes, Zenon
  <2> QED
    BY <2>1, <2>2
<1>14. /\ h \in HistoryType /\ l \in LastType
       /\ cn \in LinksType /\ w.destroyed \ {a} \in LinksType
  <2>1. NoHistory \in EntriesType
    BY Zenon DEF NoHistory, EntriesType
  <2>2. x.history \in [Resources -> EntriesType]
        /\ x.last \in [Resources -> Step \cup {"none"}]
    BY <1>1, FieldTypes, Zenon
  <2>3. x.connected \in LinksType /\ w.destroyed \in LinksType
    BY <1>1, <1>8 DEF Data
  <2> QED
    BY <2>1, <2>2, <2>3 DEF HistoryType, LastType, LinksType
<1>15. y = [w EXCEPT !.history = h, !.last = l,
                     !.connected = cn, !.destroyed = w.destroyed \ {a}]
  <2>1. \A r \in Resources : r \in mine <=> Home[r] = a
    OBVIOUS
  <2> QED
    BY <1>7, <1>9, <2>1, Zenon
<1> DEFINE e == w.destroyed \ {a}
<1> HIDE DEF h, l, cn, e
<1>16. /\ y \in Data /\ y.history = h /\ y.last = l /\ y.connected = cn
       /\ y.queue = w.queue /\ y.process = w.process /\ y.jobs = w.jobs
       /\ y.busy = w.busy /\ y.abort = w.abort
       /\ y.todo = w.todo /\ y.fired = w.fired
       /\ SameMonitors(w, y) /\ y.timers = w.timers /\ SameOps(w, y)
  <2>1. y = [w EXCEPT !.history = h, !.last = l,
                      !.connected = cn, !.destroyed = e]
    BY <1>15 DEF e
  <2>2. e \in LinksType
    BY <1>14 DEF e
  <2> QED
    BY <1>8, <1>14, <2>1, <2>2 DEF Data, SameMonitors, SameOps
<1>17. \A r \in Resources :
         \/ /\ y.monitor_op[r] = x.monitor_op[r]
            /\ \A p \in OpId : p[1] = r =>
                 y.op[p] = x.op[p] /\ y.refs[p] = x.refs[p]
         \/ /\ Home[r] = a /\ y.monitor_op[r] = None
            /\ \A p \in OpId : p[1] = r => y.refs[p] >= 0
  BY <1>11, <1>12, <1>16 DEF SameMonitors, SameOps
<1>18. y.monitor_timer = x.monitor_timer
  BY <1>9, <1>16, Zenon DEF SameMonitors
<1> QED
  BY <1>9, <1>10, <1>13, <1>16, <1>17, <1>18 DEF Flushes, h, l, cn

\* The restart of a node that is not RUNNING any more preserves the invariant.
LEMMA FlushKeeps ==
  ASSUME NEW x, NEW n, IInv(x, n), NEW a \in Assemblies, x.queue[a] = <<>>,
         n[a] # "RUNNING", x.jobs > 0, NEW y, y = flushed(x, a)
  PROVE  IInv(y, n) /\ Flushes(x, y, a)
<1>1. x \in Data /\ n \in NodeType /\ Core(x, n) /\ Counted(x)
  BY Zenon DEF IInv
<1>2. y \in Data /\ Flushes(x, y, a)
  BY FlushFields, Zenon
<1>3. /\ y.connected = x.connected \ {a} /\ y.queue = x.queue
      /\ y.jobs = x.jobs /\ y.busy = x.busy /\ y.abort = x.abort
      /\ y.todo = x.todo /\ y.fired = x.fired
      /\ y.monitor_timer = x.monitor_timer
      /\ \A p \in OpId : p \in y.timers <=> p \in x.timers /\ Home[p[1]] # a
  BY <1>2, Zenon DEF Flushes
<1>4. \A p \in OpId : InFlight(y, p) <=> InFlight(x, p) /\ Home[p[1]] # a
  BY <1>3, SMTT(30) DEF InFlight, Range
<1>5. \A r \in Resources : Home[r] # a => SameRes(x, y, r)
  BY <1>2, SMTT(30) DEF Flushes, SameRes
<1>6. \A p \in OpId : Home[p[1]] # a => y.op[p] = x.op[p]
  BY <1>2, OpIdFacts, Zenon DEF Flushes
<1>7. ASSUME NEW b \in Assemblies PROVE QueueInv(y, b)
  <2>1. QueueInv(x, b)
    BY <1>1, Zenon DEF Core
  <2> QED
    BY <1>3, <2>1, Zenon DEF QueueInv
<1>8. ASSUME NEW p \in OpId PROVE OpInv(y, p)
  <2> SUFFICES ASSUME Active(y, p) PROVE OpInv(y, p)
    BY Zenon DEF OpInv
  <2>1. Home[p[1]] # a /\ p[1] \in Resources
    BY <1>3, <1>4, OpIdFacts, Zenon DEF Active
  <2>2. SameRes(x, y, p[1]) /\ y.op[p] = x.op[p] /\ OpInv(x, p)
    BY <1>1, <1>5, <1>6, <2>1, Zenon DEF Core
  <2>3. Home[p[1]] \in x.connected => Home[p[1]] \in y.connected
    BY <1>3, <2>1, Zenon
  <2>4. \A q \in OpId \cup {p} : q[1] = p[1] =>
          (InFlight(y, q) => InFlight(x, q)) /\ (q \in y.timers => q \in x.timers)
    BY <1>3, <1>4, Zenon
  <2> QED
    BY <1>3, <2>2, <2>3, <2>4, OpKept, Zenon
<1>9. ASSUME NEW r \in Resources PROVE ResInv(y, r)
  <2>1. ResInv(x, r)
    BY <1>1, Zenon DEF Core
  <2>2. y.monitor_op[r] # None =>
          y.monitor_op[r][1] = r /\ y.op[y.monitor_op[r]].step = "monitor"
    <3> SUFFICES ASSUME y.monitor_op[r] # None
                 PROVE  y.monitor_op[r][1] = r
                        /\ y.op[y.monitor_op[r]].step = "monitor"
      OBVIOUS
    <3>1. y.monitor_op[r] = x.monitor_op[r]
          /\ \A p \in OpId : p[1] = r => y.op[p] = x.op[p]
      BY <1>2, Zenon DEF Flushes
    <3>2. x.monitor_op[r] \in OpId
      BY <1>1, <2>1, <3>1, MonitorOwn, Zenon
    <3> QED
      BY <2>1, <3>1, <3>2 DEF ResInv
  <2>3. CASE Home[r] # a
    <3>1. SameRes(x, y, r)
      BY <1>5, <2>3, Zenon
    <3> QED
      BY <1>3, <2>1, <2>2, <3>1, SMTT(30) DEF SameRes, ResInv
  <2>4. CASE Home[r] = a
    <3>1. y.history[r] = NoHistory /\ y.last[r] = "none"
      BY <1>2, <2>4, Zenon DEF Flushes
    <3>2. ~HardError(NoHistory) /\ ~StopFailed(NoHistory)
      BY Zenon DEF HardError, StopFailed, NoHistory, Step
    <3> QED
      BY <1>3, <2>1, <2>2, <3>1, <3>2, SMTT(30) DEF ResInv
  <2> QED
    BY <2>3, <2>4, Zenon
<1>10. \A r \in Resources : PlanInv(y, n, r)
  BY <1>3 DEF PlanInv
<1>11. Core(y, n)
  <2>1. /\ ~y.busy => ~y.abort
        /\ y.abort => y.jobs > 0
        /\ \A b \in Assemblies : n[b] = "RUNNING" => b \in y.connected
    BY <1>1, <1>3, Zenon DEF Core
  <2> QED
    BY <1>7, <1>8, <1>9, <1>10, <2>1, Zenon DEF Core
<1>12. ASSUME NEW p \in OpId PROVE y.refs[p] >= Holders(y, p)
  <2>1. x.refs[p] >= Holders(x, p) /\ x.refs[p] \in Int /\ p[1] \in Resources
    BY <1>1, FieldTypes, OpIdFacts, Zenon DEF Counted
  <2>2. /\ InFlight(y, p) => InFlight(x, p) /\ Home[p[1]] # a
        /\ p \in y.timers => p \in x.timers /\ Home[p[1]] # a
    BY <1>3, <1>4, Zenon
  <2>3. CASE y.monitor_op[p[1]] = x.monitor_op[p[1]] /\ y.refs[p] = x.refs[p]
    BY <2>1, <2>2, <2>3 DEF Holders
  <2>4. CASE Home[p[1]] = a /\ y.monitor_op[p[1]] = None /\ y.refs[p] >= 0
    <3>1. p # None
      BY OpIdFacts, Zenon
    <3>2. Holders(y, p) = 0
      BY <2>2, <2>4, <3>1, SMTT(30) DEF Holders
    <3> QED
      BY <2>4, <3>2
  <2> QED
    BY <1>2, <2>1, <2>3, <2>4, Zenon DEF Flushes
<1> QED
  BY <1>1, <1>2, <1>11, <1>12, Zenon DEF IInv, Counted

\* The login completes: a process_job will look at the new node.
LEMMA RunningStep ==
  ASSUME IInv(c, node), NEW a \in Assemblies, node_running(a)
  PROVE  /\ IInv(c', node') /\ SameHistory(c, c')
         /\ c'.connected = c.connected \cup {a} /\ c'.queue = c.queue
         /\ c'.process = c.process
<1> DEFINE k == c.connected \cup {a}
           v == [c EXCEPT !.connected = k]
           y == c'
           m == node'
<1>1. y = schedule_processing(v) /\ m = [node EXCEPT ![a] = "RUNNING"]
  BY Zenon DEF node_running
<1>2. c \in Data /\ node \in NodeType /\ Core(c, node) /\ Counted(c)
  BY DEF IInv
<1>3. m \in NodeType
      /\ \A b \in Assemblies : m[b] = "RUNNING" => b = a \/ node[b] = "RUNNING"
  BY <1>1, <1>2, Zenon DEF NodeType
<1>4. k \in LinksType
  BY <1>2, FieldTypes DEF LinksType
<1> HIDE DEF k
<1>5. /\ v \in Data /\ SameOps(c, v) /\ SameMonitors(c, v) /\ SameHistory(c, v)
      /\ v.queue = c.queue /\ v.connected = k /\ v.process = c.process
      /\ SameGraph(c, v) /\ v.timers = c.timers
  BY <1>2, <1>4, Zenon DEF Data, SameOps, SameMonitors, SameHistory, SameGraph
<1> HIDE DEF v, y, m
<1>6. /\ y \in Data
      /\ SameOps(v, y) /\ SameMonitors(v, y) /\ SameHistory(v, y)
      /\ SameLinks(v, y) /\ SameGraph(v, y) /\ y.timers = v.timers
      /\ y.jobs > 0
  BY <1>1, <1>5, ScheduleFields, Zenon
<1>7. /\ SameOps(c, y) /\ SameMonitors(c, y) /\ SameHistory(c, y)
      /\ y.queue = c.queue /\ y.connected = k /\ y.process = c.process
      /\ SameGraph(c, y) /\ y.timers = c.timers
  BY <1>5, <1>6, Zenon DEF SameOps, SameMonitors, SameHistory, SameLinks, SameGraph
<1>8. Shrunk(c, y)
  BY <1>2, <1>7, Unshrunk, Zenon
<1>9. c.connected \subseteq y.connected
  BY <1>7, Zenon DEF k
<1>10. \A b \in Assemblies : m[b] = "RUNNING" =>
         b \in y.connected /\ (node[b] = "RUNNING" \/ y.jobs > 0)
  BY <1>2, <1>3, <1>6, <1>7, Zenon DEF Core, k
<1>11. y.op = c.op /\ y.refs = c.refs /\ y.monitor_op = c.monitor_op
  BY <1>7, Zenon DEF SameOps, SameMonitors
<1>12. Core(y, m)
  BY <1>2, <1>3, <1>6, <1>7, <1>8, <1>9, <1>10, <1>11, KeptCore, SMTT(30)
<1>13. Counted(y)
  BY <1>2, <1>6, <1>8, <1>11, KeptCounted
<1> QED
  BY <1>3, <1>6, <1>7, <1>12, <1>13, Zenon DEF IInv, y, m, k

\* The node fails. A restart flushes the history of its resources and drops
\* their operations; an escalation may drop the operations.
LEMMA FailedStep ==
  ASSUME IInv(c, node), NEW a \in Assemblies, node_failed(a)
  PROVE  /\ IInv(c', node')
         /\ \/ /\ c'.connected = c.connected \ {a}
               /\ c'.queue = [c.queue EXCEPT ![a] = <<>>]
               /\ c'.last = [r \in Resources |->
                               IF Home[r] = a THEN "none" ELSE c.last[r]]
               /\ c'.history = [r \in Resources |->
                     IF Home[r] = a THEN NoHistory ELSE c.history[r]]
               /\ service' = [r \in Resources |->
                     IF Home[r] = a THEN "none" ELSE service[r]]
            \/ /\ c'.connected = c.connected /\ SameHistory(c, c')
               /\ c'.queue \in {c.queue, [c.queue EXCEPT ![a] = <<>>]}
               /\ UNCHANGED service
         /\ c'.process = c.process
<1> DEFINE x == schedule_processing(c)
           y == drop_ops(x, a)
           z == flushed(y, a)
           m == node'
           d == c'
<1>1. /\ m = [node EXCEPT ![a] = "FAILED"]
      /\ \/ /\ d = forget_leaked(node_recover_restart(x, a))
            /\ service' = [r \in Resources |->
                             IF Home[r] = a THEN "none" ELSE service[r]]
         \/ d \in {x, forget_leaked(y)} /\ UNCHANGED service
  BY DEF node_failed
<1>2. node_recover_restart(x, a) = z
  BY DEF node_recover_restart, flushed
<1>3. node \in NodeType /\ c \in Data
  BY Zenon DEF IInv
<1>4. /\ m \in NodeType /\ m[a] # "RUNNING"
      /\ \A b \in Assemblies : m[b] = "RUNNING" => node[b] = "RUNNING"
  BY <1>1, <1>3, Zenon DEF NodeType
<1> HIDE DEF x, m, d
<1>5. IInv(x, m) /\ SameHistory(c, x) /\ SameLinks(c, x) /\ x.jobs > 0
  BY <1>4, ScheduleKeeps, Zenon DEF x
<1> HIDE DEF y
<1>6. /\ IInv(y, m) /\ y.process = x.process /\ y.connected = x.connected
      /\ SameHistory(x, y) /\ y.jobs = x.jobs
      /\ y.queue = [x.queue EXCEPT ![a] = <<>>]
  BY <1>5, DropKeeps DEF y
<1>7. x.queue = c.queue /\ x.connected = c.connected /\ x.process = c.process
  BY <1>5, Zenon DEF SameLinks
<1>8. /\ x.history = c.history /\ x.last = c.last
      /\ y.history = c.history /\ y.last = c.last
  BY <1>5, <1>6, Zenon DEF SameHistory
<1>9. CASE d = x /\ UNCHANGED service
  BY <1>5, <1>7, <1>9, Zenon DEF d, m
<1>10. CASE d = forget_leaked(y) /\ UNCHANGED service
  <2>1. /\ IInv(d, m) /\ SameHistory(y, d) /\ d.process = y.process
        /\ d.queue = y.queue /\ d.connected = y.connected
    BY <1>6, <1>10, ForgetKeeps, Zenon
  <2> QED
    BY <1>6, <1>7, <1>8, <1>10, <2>1 DEF SameHistory, d, m
<1>11. CASE /\ d = forget_leaked(z)
            /\ service' = [r \in Resources |->
                             IF Home[r] = a THEN "none" ELSE service[r]]
  <2>1. y.queue[a] = <<>> /\ y.jobs > 0
    BY <1>3, <1>5, <1>6, <1>7, FieldTypes, Zenon
  <2> HIDE DEF z
  <2>2. IInv(z, m) /\ Flushes(y, z, a)
    BY <1>4, <1>6, <2>1, FlushKeeps, Zenon DEF z
  <2>3. /\ IInv(d, m) /\ SameHistory(z, d) /\ d.process = z.process
        /\ d.queue = z.queue /\ d.connected = z.connected
    BY <1>11, <2>2, ForgetKeeps, Zenon
  <2>4. /\ d.history = [r \in Resources |->
                          IF Home[r] = a THEN NoHistory ELSE c.history[r]]
        /\ d.last = [r \in Resources |->
                       IF Home[r] = a THEN "none" ELSE c.last[r]]
    BY <1>8, <2>2, <2>3, Zenon DEF Flushes, SameHistory
  <2>5. /\ d.connected = c.connected \ {a} /\ d.process = c.process
        /\ d.queue = [c.queue EXCEPT ![a] = <<>>]
    BY <1>6, <1>7, <2>2, <2>3, Zenon DEF Flushes
  <2> QED
    BY <1>11, <2>3, <2>4, <2>5, Zenon DEF d, m
<1> QED
  BY <1>1, <1>2, <1>9, <1>10, <1>11, Zenon

(***************************************************************************)
(* The services, and the theorems.                                         *)
(***************************************************************************)

ServiceType == [Resources -> {"none", "up", "down"}]

\* HistoryOfInstance, for data x and services s.
Instance(x, s) ==
  \A r \in Resources :
    x.last[r] \in Step \ {"stop"} /\ x.history[r][x.last[r]] = "OK" =>
      s[r] # "none"

\* The inductive invariant of the specification.
CapeInv == IInv(c, node) /\ service \in ServiceType /\ Instance(c, service)

\* An entry that says OK is only added for a service that runs.
LEMMA RecordedInstance ==
  ASSUME NEW x \in Data, NEW y, NEW s, NEW t, Instance(x, s),
         NEW r \in Resources, NEW k \in Step, NEW rc, Recorded(x, y, r, k, rc),
         \A q \in Resources \ {r} : t[q] = s[q],
         rc = "OK" /\ k # "stop" => t[r] # "none"
  PROVE  Instance(y, t)
<1> SUFFICES ASSUME NEW q \in Resources, y.last[q] \in Step \ {"stop"},
                    y.history[q][y.last[q]] = "OK"
             PROVE  t[q] # "none"
  BY Zenon DEF Instance
<1>1. x.history \in [Resources -> EntriesType]
      /\ x.last \in [Resources -> Step \cup {"none"}]
  BY FieldTypes, Zenon
<1>2. CASE q = r
  <2>1. y.last[r] = k /\ y.history[r] = [x.history[r] EXCEPT ![k] = rc]
    BY <1>1, Zenon DEF Recorded
  <2>2. x.history[r] \in [Step -> Codes \cup {"none"}]
    BY <1>1, Zenon DEF EntriesType
  <2>3. y.history[r][k] = rc
    BY <2>1, <2>2, Zenon
  <2> QED
    BY <1>2, <2>1, <2>3, Zenon
<1>3. CASE q # r
  <2>1. y.last[q] = x.last[q] /\ y.history[q] = x.history[q]
    BY <1>1, <1>3 DEF Recorded
  <2> QED
    BY <1>3, <2>1, Zenon DEF Instance
<1> QED
  BY <1>2, <1>3, Zenon

\* An error is not an entry that says OK.
LEMMA ErrorInstance ==
  ASSUME NEW x \in Data, NEW y, NEW s, Instance(x, s), ErrorAtMost(x, y)
  PROVE  Instance(y, s)
<1>1. CASE SameHistory(x, y)
  BY <1>1 DEF SameHistory, Instance
<1>2. ASSUME NEW r \in Resources, NEW k \in Step,
             Recorded(x, y, r, k, "UNKNOWN_ERROR")
      PROVE  Instance(y, s)
  BY <1>2, RecordedInstance, Zenon
<1> QED
  BY <1>1, <1>2, Zenon DEF ErrorAtMost

\* resource_action_completion, with the service it acts on.
LEMMA CompletionKeeps ==
  ASSUME CapeInv, NEW a \in Assemblies, resource_action_completion(a)
  PROVE  /\ CapeInv' /\ c'.connected = c.connected /\ c'.process = c.process
         /\ UNCHANGED node /\ c.queue[a] # <<>>
         /\ c'.queue = [c.queue EXCEPT ![a] = Tail(@)]
<1> DEFINE o == Head(c.queue[a])
           r == o[1]
           op == c.op[o]
<1>1. /\ c.queue[a] # <<>> /\ UNCHANGED node
      /\ \E rc \in {Result(op, service[r])} \cup ErrorCodes,
            answer \in ResourceAnswers :
           /\ c' = forget_leaked(pe_resource_unref(
                     resource_action_completed(dequeue(c, a), o, rc, answer), o))
           /\ service' = [service EXCEPT ![r] =
                 IF op.step \in {"probe", "monitor"} \/ rc # "OK" THEN @
                 ELSE IF op.step = "start" THEN "up" ELSE "down"]
  BY Zenon DEF resource_action_completion, dequeue
<1> HIDE DEF o
<1>2. PICK rc \in {Result(op, service[r])} \cup ErrorCodes,
           answer \in ResourceAnswers :
        /\ c' = forget_leaked(pe_resource_unref(
                  resource_action_completed(dequeue(c, a), o, rc, answer), o))
        /\ service' = [service EXCEPT ![r] =
              IF op.step \in {"probe", "monitor"} \/ rc # "OK" THEN @
              ELSE IF op.step = "start" THEN "up" ELSE "down"]
  BY <1>1, Zenon
<1>3. rc \in Codes /\ (rc = "OK" => rc = Result(op, service[r]))
  BY CapeConstantsOK, Zenon DEF Codes, Result
<1>4. IInv(c, node) /\ service \in ServiceType /\ Instance(c, service)
      /\ c \in Data
  BY Zenon DEF CapeInv, IInv
<1> DEFINE x == dequeue(c, a)
           y == resource_action_completed(x, o, rc, answer)
           z == forget_leaked(pe_resource_unref(y, o))
<1>5. /\ IInv(z, node) /\ Recorded(c, z, o[1], c.op[o].step, rc)
      /\ o \in OpId /\ Home[o[1]] = a /\ c.op[o].step \in Step
      /\ z.connected = c.connected /\ z.process = c.process
      /\ z.queue = [c.queue EXCEPT ![a] = Tail(@)]
  <2>1. /\ o = Head(c.queue[a]) /\ c.queue[a] # <<>>
        /\ rc \in Codes /\ IInv(c, node)
    BY <1>1, <1>3, <1>4, Zenon DEF o
  <2> HIDE DEF x, y, z
  <2>2. x = dequeue(c, a)
    BY Zenon DEF x
  <2>3. y = resource_action_completed(x, o, rc, answer)
    BY Zenon DEF y
  <2>4. z = forget_leaked(pe_resource_unref(y, o))
    BY Zenon DEF z
  <2>5. Ends(c, z, node, a, o, rc)
    BY <2>1, <2>2, <2>3, <2>4, CompletionStep, Zenon
  <2> QED
    BY <2>5 DEF Ends
<1>6. c' = z
  BY <1>2
<1> HIDE DEF z
<1>7. r \in Resources /\ op.step \in Step
  BY <1>5, OpIdFacts, Zenon
<1> HIDE DEF r, op
<1>8. service' \in ServiceType /\ \A q \in Resources \ {r} : service'[q] = service[q]
  BY <1>2, <1>4, <1>7, Zenon DEF ServiceType
<1>9. rc = "OK" /\ op.step # "stop" => service'[r] # "none"
  <2> SUFFICES ASSUME rc = "OK", op.step # "stop" PROVE service'[r] # "none"
    OBVIOUS
  <2>1. CASE op.step = "start"
    BY <1>2, <1>4, <1>7, <2>1, Zenon DEF ServiceType
  <2>2. CASE op.step \in {"probe", "monitor"}
    <3>1. service[r] = "up"
      BY <1>3, <2>2, Zenon DEF Result
    <3>2. service'[r] = service[r]
      BY <1>2, <1>4, <1>7, <2>2, Zenon DEF ServiceType
    <3> QED
      BY <3>1, <3>2, Zenon
  <2> QED
    BY <1>7, <2>1, <2>2, Zenon DEF Step
<1>10. Instance(z, service')
  <2>1. Recorded(c, z, r, op.step, rc)
    BY <1>5 DEF r, op
  <2> QED
    BY <1>4, <1>7, <1>8, <1>9, <2>1, RecordedInstance
<1> QED
  BY <1>1, <1>5, <1>6, <1>8, <1>10 DEF CapeInv

\* Cape starts in the invariant.
LEMMA InitKeeps == Init => CapeInv
<1> SUFFICES ASSUME Init PROVE CapeInv
  OBVIOUS
<1>1. /\ c.op = [o \in OpId |-> NoOp] /\ c.refs = [o \in OpId |-> 0]
      /\ c.monitor_op = [r \in Resources |-> None]
      /\ c.monitor_timer = [r \in Resources |-> None] /\ c.timers = {}
      /\ c.history = [r \in Resources |-> NoHistory]
      /\ c.last = [r \in Resources |-> "none"]
      /\ c.queue = [a \in Assemblies |-> <<>>]
      /\ ~c.busy /\ ~c.abort
      /\ c.todo = [r \in Resources |-> <<>>]
      /\ c.fired = [r \in Resources |-> FALSE] /\ c.jobs = 0
  BY Zenon DEF Init
<1>2. node = [a \in Assemblies |-> "UNKNOWN"]
      /\ service = [r \in Resources |-> "none"]
  BY DEF Init
<1>3. node \in NodeType /\ service \in ServiceType
  BY <1>2 DEF NodeType, ServiceType
<1>4. c \in Data
  <2>1. [o \in OpId |-> NoOp] \in OpType /\ [o \in OpId |-> 0] \in RefsType
    BY DEF OpType, OpRec, NoOp, RefsType
  <2>2. [r \in Resources |-> None] \in MonitorType /\ {} \in TimersType
    BY DEF MonitorType, TimersType
  <2>3. [r \in Resources |-> "UNKNOWN"] \in StateType
    BY Zenon DEF StateType, RecoverState
  <2>4. /\ [r \in Resources |-> NoHistory] \in HistoryType
        /\ [r \in Resources |-> "none"] \in LastType
    BY Zenon DEF HistoryType, EntriesType, NoHistory, LastType
  <2>5. [a \in Assemblies |-> <<>>] \in QueueType /\ {} \in LinksType
    BY DEF QueueType, LinksType
  <2>6. /\ [r \in Resources |-> <<>>] \in TodoType
        /\ [r \in Resources |-> FALSE] \in FiredType
        /\ 0 \in JobsType /\ "up" \in ProcessType
    BY CapeConstantsOK DEF TodoType, Plans, FiredType, JobsType, ProcessType
  <2> QED
    BY <2>1, <2>2, <2>3, <2>4, <2>5, <2>6, Zenon DEF Init, Data
<1>5. \A o \in OpId : ~InFlight(c, o)
  BY <1>1, OpIdFacts DEF InFlight, Range
<1>6. \A a \in Assemblies : QueueInv(c, a)
  BY <1>1, SMTT(30) DEF QueueInv, IsInjective, Range
<1>7. \A o \in OpId : OpInv(c, o)
  BY <1>1, <1>5, Zenon DEF OpInv, Active
<1>8. \A r \in Resources : ResInv(c, r)
  <2>1. ~HardError(NoHistory) /\ ~StopFailed(NoHistory)
    BY Zenon DEF HardError, StopFailed, NoHistory, Step
  <2> QED
    BY <1>1, <2>1 DEF ResInv
<1>9. \A r \in Resources : PlanInv(c, node, r)
  <2>1. \A r \in Resources : node[Home[r]] # "RUNNING"
    BY <1>2, CapeConstantsOK, Zenon
  <2> QED
    BY <2>1, Zenon DEF PlanInv
<1>10. Core(c, node)
  BY <1>1, <1>2, <1>6, <1>7, <1>8, <1>9, Zenon DEF Core
<1>11. Counted(c)
  <2> SUFFICES ASSUME NEW o \in OpId PROVE c.refs[o] >= Holders(c, o)
    BY DEF Counted
  <2>1. o # None /\ o[1] \in Resources
    BY OpIdFacts, Zenon
  <2> QED
    BY <1>1, <1>5, <2>1 DEF Holders
<1>12. Instance(c, service)
  BY <1>1, Zenon DEF Instance, Step
<1> QED
  BY <1>3, <1>4, <1>10, <1>11, <1>12 DEF CapeInv, IInv

\* Every step preserves the invariant.
LEMMA StepKeeps ==
  ASSUME NoReplan, CapeInv, [Next]_vars
  PROVE  CapeInv'
<1>1. /\ IInv(c, node) /\ service \in ServiceType /\ Instance(c, service)
      /\ c \in Data /\ node \in NodeType
  BY Zenon DEF CapeInv, IInv
<1>2. ASSUME SameHistory(c, c'), UNCHANGED service, IInv(c', node')
      PROVE  CapeInv'
  BY <1>1, <1>2, Zenon DEF CapeInv, SameHistory, Instance
<1>3. ASSUME NEW a \in Assemblies, node_running(a) PROVE CapeInv'
  BY <1>1, <1>2, <1>3, RunningStep, Zenon DEF node_running
<1>4. ASSUME NEW a \in Assemblies, node_pending(a) PROVE CapeInv'
  <2>1. /\ node' = [node EXCEPT ![a] = "UNKNOWN"]
        /\ c' = schedule_processing(c) /\ UNCHANGED service
    BY <1>4 DEF node_pending
  <2>2. node' \in NodeType
        /\ \A b \in Assemblies : node'[b] = "RUNNING" => node[b] = "RUNNING"
    BY <1>1, <2>1, Zenon DEF NodeType
  <2>3. IInv(c', node') /\ SameHistory(c, c')
    BY <1>1, <2>1, <2>2, ScheduleKeeps, Zenon
  <2> QED
    BY <1>2, <2>1, <2>3
<1>5. ASSUME NEW a \in Assemblies, node_failed(a) PROVE CapeInv'
  <2>1. IInv(c', node')
    BY <1>1, <1>5, FailedStep, Zenon
  <2>2. CASE SameHistory(c, c') /\ UNCHANGED service
    BY <1>2, <2>1, <2>2
  <2>3. CASE /\ c'.last = [r \in Resources |->
                             IF Home[r] = a THEN "none" ELSE c.last[r]]
             /\ c'.history = [r \in Resources |->
                   IF Home[r] = a THEN NoHistory ELSE c.history[r]]
             /\ service' = [r \in Resources |->
                   IF Home[r] = a THEN "none" ELSE service[r]]
    <3>1. service' \in ServiceType
      BY <1>1, <2>3, Zenon DEF ServiceType
    <3>2. ASSUME NEW r \in Resources, c'.last[r] \in Step \ {"stop"},
                 c'.history[r][c'.last[r]] = "OK"
          PROVE  service'[r] # "none"
      <4>1. Home[r] # a
        BY <2>3, <3>2, Zenon DEF Step
      <4>2. /\ c'.last[r] = c.last[r] /\ c'.history[r] = c.history[r]
            /\ service'[r] = service[r]
        BY <2>3, <4>1, Zenon
      <4> QED
        BY <1>1, <3>2, <4>2, Zenon DEF Instance
    <3> QED
      BY <2>1, <3>1, <3>2 DEF CapeInv, Instance
  <2> QED
    BY <1>1, <1>5, <2>2, <2>3, FailedStep, Zenon
<1>6. ASSUME NEW a \in Assemblies, ops_timeout(a) PROVE CapeInv'
  <2> DEFINE y == drop_ops(c, a)
  <2>1. c' = forget_leaked(y) /\ UNCHANGED <<node, service>>
    BY <1>6, Zenon DEF ops_timeout
  <2> HIDE DEF y
  <2>2. IInv(y, node) /\ SameHistory(c, y)
    BY <1>1, DropKeeps, Zenon DEF y
  <2>3. IInv(c', node) /\ SameHistory(y, c')
    BY <2>1, <2>2, ForgetKeeps, Zenon
  <2> QED
    BY <1>2, <2>1, <2>2, <2>3, Zenon DEF SameHistory
<1>7. ASSUME NEW a \in Assemblies, resource_action_completion(a) PROVE CapeInv'
  BY <1>7, CompletionKeeps, Zenon
<1>8. CASE process_job
  BY <1>1, <1>2, <1>8, JobStep
<1>9. CASE process_next_job
  <2>1. IInv(c', node') /\ ErrorAtMost(c, c') /\ UNCHANGED service
    BY <1>1, <1>9, NextJobStep, Zenon
  <2>2. Instance(c', service)
    BY <1>1, <2>1, ErrorInstance
  <2> QED
    BY <1>1, <2>1, <2>2 DEF CapeInv
<1>10. ASSUME NEW o \in OpId, monitor_timer_expires(o) PROVE CapeInv'
  <2>1. /\ o \in c.timers /\ UNCHANGED <<node, service>>
        /\ \E answer \in ResourceAnswers :
             c' = forget_leaked(resource_monitor_execute(expire(c, o), o, answer))
    BY <1>10, Zenon DEF monitor_timer_expires, expire
  <2>2. PICK answer \in ResourceAnswers :
          c' = forget_leaked(resource_monitor_execute(expire(c, o), o, answer))
    BY <2>1
  <2> DEFINE x == expire(c, o)
  <2>3. x = expire(c, o)
    OBVIOUS
  <2>4. c' = forget_leaked(resource_monitor_execute(x, o, answer))
    BY <2>2
  <2> HIDE DEF x
  <2>5. /\ IInv(c', node)
        /\ \/ SameHistory(c, c')
           \/ \E k \in Step : Recorded(c, c', o[1], k, "UNKNOWN_ERROR")
    BY <1>1, <2>1, <2>3, <2>4, TimerStep, Zenon
  <2>6. ErrorAtMost(c, c')
    BY <2>5, OpIdFacts DEF ErrorAtMost
  <2>7. Instance(c', service)
    BY <1>1, <2>6, ErrorInstance
  <2> QED
    BY <1>1, <2>1, <2>5, <2>7, Zenon DEF CapeInv
<1>11. ASSUME NEW r \in Resources, ServiceDies(r) PROVE CapeInv'
  <2>1. /\ service' = [service EXCEPT ![r] = "down"] /\ UNCHANGED <<node, c>>
    BY <1>11 DEF ServiceDies
  <2>2. service' \in ServiceType
        /\ \A q \in Resources : service'[q] \in {service[q], "down"}
    BY <1>1, <2>1, Zenon DEF ServiceType
  <2>3. Instance(c, service')
    BY <1>1, <2>2, Zenon DEF Instance
  <2> QED
    BY <1>1, <2>1, <2>2, <2>3 DEF CapeInv
<1>12. CASE UNCHANGED vars
  BY <1>1, <1>12 DEF vars, CapeInv
<1>13. CASE jobs_wait \/ Stopped
  BY <1>12, <1>13 DEF jobs_wait, Stopped
<1> QED
  BY <1>3, <1>4, <1>5, <1>6, <1>7, <1>8, <1>9, <1>10, <1>11, <1>12, <1>13
  DEF Next

\* The inductive invariant of cape: every operation that has not ended is the
\* step its resource waits for or a settled recurring monitor, and it is the
\* only one of its resource; histories with a hard error or a failed stop
\* allow no further step; without a process_job left, the graph in progress
\* does all that the histories ask for; and every holder has its references.
THEOREM CapeInductive ==
  ASSUME NoReplan PROVE Spec => []CapeInv
<1>1. CapeInv /\ [Next]_vars => CapeInv'
  BY StepKeeps
<1> QED
  BY <1>1, InitKeeps, PTL DEF Spec

\* TypeOK: in particular no reference count of an operation becomes negative.
THEOREM CapeTypeOK ==
  ASSUME NoReplan PROVE Spec => []TypeOK
<1>1. CapeInv => TypeOK
  <2> SUFFICES ASSUME CapeInv PROVE TypeOK
    OBVIOUS
  <2>1. c \in Data /\ node \in NodeType /\ Counted(c) /\ service \in ServiceType
    BY Zenon DEF CapeInv, IInv
  <2>2. /\ c.timers \subseteq OpId /\ c.jobs \in 0 .. MaxJobs
        /\ c.queue \in [Assemblies -> Seq(OpId)]
        /\ c.refs \in [OpId -> Int]
    BY <2>1, FieldTypes
  <2>3. c.state \in [Resources -> RecoverState]
    BY <2>1, Zenon DEF Data, StateType
  <2>4. \A o \in OpId : c.refs[o] >= 0
    <3> TAKE o \in OpId
    <3>1. c.refs[o] >= Holders(c, o) /\ Holders(c, o) \in Nat /\ c.refs[o] \in Int
      BY <2>1, <2>2 DEF Counted, Holders
    <3> QED
      BY <3>1
  <2>5. c.refs \in [OpId -> Nat]
    BY <2>2, <2>4
  <2> QED
    BY <2>1, <2>2, <2>3, <2>5 DEF TypeOK, NodeType, ServiceType
<1> QED
  BY <1>1, CapeInductive, PTL

\* HoldersReferenced: pe_resource_unref never frees an operation that
\* monitor_op, the monitor's timer or the transport still points at.
THEOREM CapeHoldersReferenced ==
  ASSUME NoReplan PROVE Spec => []HoldersReferenced
<1>1. CapeInv => HoldersReferenced
  BY Zenon DEF CapeInv, IInv, Counted, HoldersReferenced
<1> QED
  BY <1>1, CapeInductive, PTL

\* OwnTransition: resource_action_completed confirms an operation in the
\* transition graph it was made for, never in a later one.
THEOREM CapeOwnTransition ==
  ASSUME NoReplan PROVE Spec => []OwnTransition
<1>1. CapeInv => OwnTransition
  <2> SUFFICES ASSUME CapeInv, NEW o \in OpId, Active(c, o), c.op[o].times = 0
               PROVE  c.busy /\ c.op[o].current /\ c.fired[o[1]]
    BY Zenon DEF OwnTransition, Active
  <2>1. OpInv(c, o)
    BY Zenon DEF CapeInv, IInv, Core
  <2> QED
    BY <2>1 DEF OpInv, Fresh, Settled
<1> QED
  BY <1>1, CapeInductive, PTL

\* OneMonitor: recurring_monitor_start and the timers never give a resource
\* two recurring monitors.
THEOREM CapeOneMonitor ==
  ASSUME NoReplan PROVE Spec => []OneMonitor
<1>1. CapeInv => OneMonitor
  <2> SUFFICES ASSUME CapeInv, NEW o \in OpId, NEW p \in OpId, o[1] = p[1],
                      Active(c, o), Active(c, p)
               PROVE  o = p
    BY Zenon DEF OneMonitor, Monitor, Active
  <2>1. OpInv(c, o)
    BY Zenon DEF CapeInv, IInv, Core
  <2> QED
    BY <2>1, Zenon DEF OpInv
<1> QED
  BY <1>1, CapeInductive, PTL

\* HistoryOfInstance: node_op_history_clear leaves the policy engine no
\* success of an earlier instance to rely on.
THEOREM CapeHistoryOfInstance ==
  ASSUME NoReplan PROVE Spec => []HistoryOfInstance
<1>1. CapeInv => HistoryOfInstance
  BY Zenon DEF CapeInv, Instance, HistoryOfInstance
<1> QED
  BY <1>1, CapeInductive, PTL

\* NothingForgotten: every failure that needs an answer of the policy engine
\* has a process_job or the transition in progress to give it.
THEOREM CapeNothingForgotten ==
  ASSUME NoReplan PROVE Spec => []NothingForgotten
<1>1. CapeInv => NothingForgotten
  <2> SUFFICES ASSUME CapeInv, ~c.busy, c.jobs = 0, NEW r \in Resources
               PROVE  Planned(r, FALSE) = <<>>
    BY Zenon DEF NothingForgotten
  <2>1. ResInv(c, r) /\ PlanInv(c, node, r)
    BY DEF CapeInv, IInv, Core
  <2>2. c.todo[r] = <<>>
    BY <2>1, Zenon DEF ResInv
  <2> QED
    BY <2>1, <2>2, Zenon DEF PlanInv, Planned
<1> QED
  BY <1>1, CapeInductive, PTL

\* MonitorsStopped: the restart of a node leaves none of its monitors running,
\* as node_op_history_clear's comment has it.
THEOREM CapeMonitorsStopped ==
  ASSUME NoReplan PROVE Spec => []MonitorsStopped
<1>1. CapeInv => MonitorsStopped
  <2> SUFFICES ASSUME CapeInv, NEW o \in c.timers
               PROVE  Home[o[1]] \in c.connected
    BY Zenon DEF MonitorsStopped
  <2>1. o \in OpId
    BY FieldTypes, Zenon DEF CapeInv, IInv
  <2>2. OpInv(c, o)
    BY <2>1, Zenon DEF CapeInv, IInv, Core
  <2> QED
    BY <2>2, Zenon DEF OpInv, Active
<1> QED
  BY <1>1, CapeInductive, PTL

(***************************************************************************)
(* Cape uses its assemblies as module Transport allows.                    *)
(***************************************************************************)

LinkStep(a) == Link(a)!Next \/ UNCHANGED Link(a)!vars

\* A step that does not touch the assembly.
LEMMA Untouched ==
  ASSUME NEW a \in Assemblies, node'[a] = node[a],
         a \in c'.connected <=> a \in c.connected,
         c'.queue[a] = c.queue[a], c'.process = c.process
  PROVE  LinkStep(a)
<1>1. (a \in c'.connected) = (a \in c.connected)
  OBVIOUS
<1> QED
  BY <1>1 DEF LinkStep, Link!vars

\* A step that queues the operations t on it.
LEMMA Accepted ==
  ASSUME CapeInv, CapeInv', Up, NEW a \in Assemblies, node'[a] = node[a],
         c'.connected = c.connected, c'.process = c.process,
         NEW t \in Seq(OpId), c'.queue[a] = c.queue[a] \o t
  PROVE  LinkStep(a)
<1>1. c.queue[a] \in Seq(OpId) /\ c'.queue[a] \in Seq(OpId)
  <2>1. c \in Data /\ c' \in Data
    BY Zenon DEF CapeInv, IInv
  <2> QED
    BY <2>1, FieldTypes, Zenon
<1>2. CASE t = <<>>
  <2>1. c'.queue[a] = c.queue[a]
    BY <1>1, <1>2
  <2> QED
    BY <2>1, Untouched, Zenon
<1>3. CASE t # <<>>
  <2> DEFINE q == c.queue[a]
             p == c'.queue[a]
  <2>1. Len(p) = Len(q) + Len(t) /\ \A i \in DOMAIN q : p[i] = q[i]
    BY <1>1, RangeConcat
  <2>2. Len(p) > Len(q) /\ p # <<>>
    BY <1>1, <1>3, <2>1, SMTT(30)
  <2>3. QueueInv(c', a)
    BY Zenon DEF CapeInv, IInv, Core
  <2>4. IsInjective(p) /\ a \in c.connected /\ a \in c'.connected
    BY <2>2, <2>3, Zenon DEF QueueInv
  <2>5. (a \in c'.connected) = (a \in c.connected)
    BY <2>4, Zenon
  <2>6. Link(a)!Accept
    <3>1. UNCHANGED <<node[a], a \in c.connected, c.process>>
      BY <2>5, Zenon
    <3>2. /\ a \in c.connected /\ p \in Seq(OpId) /\ IsInjective(p)
          /\ Len(p) > Len(q) /\ \A i \in DOMAIN q : p[i] = q[i]
      BY <1>1, <2>1, <2>2, <2>4, Zenon
    <3> QED
      BY <3>1, <3>2, Zenon DEF Link!Accept, Link!IsInjective, IsInjective
  <2> QED
    BY <2>6, Zenon DEF LinkStep, Link!Next, Up
<1> QED
  BY <1>2, <1>3, Zenon

\* A node that fails loses its queue or keeps it, and without a session it
\* has none.
LEMMA FailedLink ==
  ASSUME CapeInv, Up, NEW a \in Assemblies, c'.process = c.process,
         a \in c.connected, node'[a] = "FAILED",
         \/ a \in c'.connected /\ c'.queue[a] \in {c.queue[a], <<>>}
         \/ node[a] # "FAILED" /\ a \notin c'.connected /\ c'.queue[a] = <<>>
  PROVE  LinkStep(a)
<1>1. Link(a)!Fail
  BY Zenon DEF Link!Fail, Up
<1> QED
  BY <1>1, Zenon DEF LinkStep, Link!Next, Up

\* Every step of cape is, for every assembly, a step of its transport.
LEMMA LinkKeeps ==
  ASSUME NoReplan, CapeInv, [Next]_vars, NEW a \in Assemblies
  PROVE  LinkStep(a)
<1>1. /\ IInv(c, node) /\ c \in Data /\ node \in NodeType /\ QueueInv(c, a)
      /\ node[a] = "RUNNING" => a \in c.connected
  BY Zenon DEF CapeInv, IInv, Core
<1>2. c.queue \in [Assemblies -> Seq(OpId)]
  BY <1>1, FieldTypes
<1>3. CapeInv'
  BY StepKeeps
<1>4. ASSUME NEW b \in Assemblies, node_running(b) PROVE LinkStep(a)
  <2>1. /\ Up /\ b \notin c.connected /\ node' = [node EXCEPT ![b] = "RUNNING"]
        /\ c'.connected = c.connected \cup {b} /\ c'.queue = c.queue
        /\ c'.process = c.process
    BY <1>1, <1>4, RunningStep, Zenon DEF node_running
  <2>2. CASE a = b
    <3>1. node'[a] = "RUNNING" /\ c.queue[a] = <<>>
      BY <1>1, <2>1, <2>2 DEF NodeType, QueueInv
    <3>2. Link(a)!Connect
      BY <2>1, <2>2, <3>1, Zenon DEF Link!Connect
    <3> QED
      BY <2>1, <3>2 DEF LinkStep, Link!Next, Up
  <2>3. CASE a # b
    <3>1. node'[a] = node[a]
      BY <1>1, <2>1, <2>3, Zenon DEF NodeType
    <3> QED
      BY <2>1, <2>3, <3>1, Untouched, Zenon
  <2> QED
    BY <2>2, <2>3
<1>5. ASSUME NEW b \in Assemblies, node_pending(b) PROVE LinkStep(a)
  <2>1. /\ Up /\ b \notin c.connected /\ node' = [node EXCEPT ![b] = "UNKNOWN"]
        /\ c' = schedule_processing(c)
    BY <1>5, Zenon DEF node_pending
  <2>2. c'.queue = c.queue /\ c'.connected = c.connected /\ c'.process = c.process
    BY <1>1, <2>1, ScheduleFields, Zenon DEF SameLinks
  <2>3. CASE a = b
    <3>1. node'[a] = "UNKNOWN"
      BY <1>1, <2>1, <2>3 DEF NodeType
    <3>2. (a \in c'.connected) = (a \in c.connected)
      BY <2>2, Zenon
    <3>3. Link(a)!Wait
      BY <2>1, <2>2, <2>3, <3>1, <3>2, Zenon DEF Link!Wait
    <3> QED
      BY <2>1, <3>3, Zenon DEF LinkStep, Link!Next, Up
  <2>4. CASE a # b
    <3>1. node'[a] = node[a]
      BY <1>1, <2>1, <2>4, Zenon DEF NodeType
    <3> QED
      BY <2>2, <3>1, Untouched, Zenon
  <2> QED
    BY <2>3, <2>4
<1>6. ASSUME NEW b \in Assemblies, node_failed(b) PROVE LinkStep(a)
  <2>1. /\ Up /\ node[b] = "RUNNING" /\ node' = [node EXCEPT ![b] = "FAILED"]
    BY <1>6, Zenon DEF node_failed
  <2>2. /\ \/ /\ c'.connected = c.connected \ {b}
              /\ c'.queue = [c.queue EXCEPT ![b] = <<>>]
           \/ /\ c'.connected = c.connected
              /\ c'.queue \in {c.queue, [c.queue EXCEPT ![b] = <<>>]}
        /\ c'.process = c.process
    BY <1>1, <1>6, FailedStep, Zenon
  <2>3. CASE a = b
    <3>1. node'[a] = "FAILED" /\ a \in c.connected /\ node[a] # "FAILED"
      BY <1>1, <2>1, <2>3, Zenon DEF NodeType
    <3>2. \/ a \in c'.connected /\ c'.queue[a] \in {c.queue[a], <<>>}
          \/ a \notin c'.connected /\ c'.queue[a] = <<>>
      BY <1>2, <2>2, <2>3, <3>1, Zenon
    <3> QED
      BY <2>1, <2>2, <3>1, <3>2, FailedLink
  <2>4. CASE a # b
    <3>1. node'[a] = node[a]
      BY <1>1, <2>1, <2>4, Zenon DEF NodeType
    <3>2. c'.queue[a] = c.queue[a] /\ (a \in c'.connected <=> a \in c.connected)
      BY <1>2, <2>2, <2>4, Zenon
    <3> QED
      BY <2>2, <3>1, <3>2, Untouched, Zenon
  <2> QED
    BY <2>3, <2>4
<1>7. ASSUME NEW b \in Assemblies, ops_timeout(b) PROVE LinkStep(a)
  <2> DEFINE y == drop_ops(c, b)
  <2>1. /\ Up /\ node[b] = "FAILED" /\ c.queue[b] # <<>>
        /\ c' = forget_leaked(y) /\ node' = node
    BY <1>7, Zenon DEF ops_timeout
  <2>2. /\ IInv(y, node) /\ y.process = c.process /\ y.connected = c.connected
        /\ y.queue = [c.queue EXCEPT ![b] = <<>>]
    BY <1>1, DropKeeps
  <2> HIDE DEF y
  <2>3. /\ c'.process = c.process /\ c'.connected = c.connected
        /\ c'.queue = y.queue
    BY <2>1, <2>2, ForgetKeeps, ZenonT(30)
  <2>4. c'.queue[a] = IF a = b THEN <<>> ELSE c.queue[a]
    BY <1>2, <2>2, <2>3, Zenon
  <2>5. CASE a = b
    <3>1. a \in c.connected
      BY <1>1, <2>1, <2>5, Zenon DEF QueueInv
    <3> QED
      BY <2>1, <2>3, <2>4, <2>5, <3>1, FailedLink
  <2>6. CASE a # b
    BY <2>1, <2>3, <2>4, <2>6, Untouched
  <2> QED
    BY <2>5, <2>6
<1>8. ASSUME NEW b \in Assemblies, resource_action_completion(b)
      PROVE  LinkStep(a)
  <2>1. /\ c'.connected = c.connected /\ c'.process = c.process
        /\ UNCHANGED node /\ c.queue[b] # <<>>
        /\ c'.queue = [c.queue EXCEPT ![b] = Tail(@)]
    BY <1>8, CompletionKeeps, Zenon
  <2>2. c'.queue[a] = IF a = b THEN Tail(c.queue[a]) ELSE c.queue[a]
    BY <1>2, <2>1, Zenon
  <2>3. CASE a = b
    <3>1. a \in c.connected
      BY <1>1, <2>1, <2>3, Zenon DEF QueueInv
    <3>2. (a \in c'.connected) = (a \in c.connected)
      BY <2>1, Zenon
    <3>3. Link(a)!Answer
      BY <2>1, <2>2, <2>3, <3>1, <3>2, Zenon DEF Link!Answer
    <3> QED
      BY <1>8, <3>3, Zenon DEF LinkStep, Link!Next, Up, resource_action_completion
  <2>4. CASE a # b
    BY <2>1, <2>2, <2>4, Untouched, Zenon
  <2> QED
    BY <2>3, <2>4
<1>9. CASE process_job
  BY <1>1, <1>9, JobStep, Untouched, Zenon DEF SameLinks
<1>10. CASE process_next_job
  <2>1. /\ QueuesAfter(c, c') /\ Up /\ c'.process \in {"up", "aborted"}
        /\ c'.process = "aborted" => c'.queue = c.queue
        /\ UNCHANGED node
    BY <1>1, <1>10, NextJobStep, Zenon
  <2>2. c'.connected = c.connected
    BY <2>1, Zenon DEF QueuesAfter
  <2>3. CASE c'.process = "aborted"
    <3>1. Link(a)!Stop
      <4>1. (a \in c'.connected) = (a \in c.connected)
        BY <2>2, Zenon
      <4> QED
        BY <2>1, <2>3, <4>1, Zenon DEF Link!Stop
    <3> QED
      BY <2>1, <3>1, Zenon DEF LinkStep, Link!Next, Up
  <2>4. CASE c'.process = "up"
    <3>1. c'.process = c.process
      BY <2>1, <2>4, Zenon DEF Up
    <3>2. PICK t \in Seq(OpId) : c'.queue[a] = c.queue[a] \o t
      <4>1. CASE c'.queue = c.queue
        <5>1. <<>> \in Seq(OpId) /\ c.queue[a] = c.queue[a] \o <<>>
          BY <1>2
        <5> QED
          BY <4>1, <5>1, Zenon
      <4>2. ASSUME NEW S \in SUBSET Resources, QueuesGrow(c, c', S)
            PROVE  \E t \in Seq(OpId) : c'.queue[a] = c.queue[a] \o t
        BY <4>2, Zenon DEF QueuesGrow
      <4> QED
        BY <2>1, <4>1, <4>2, Zenon DEF QueuesAfter
    <3> QED
      BY <1>3, <2>1, <2>2, <3>1, <3>2, Accepted, Zenon
  <2> QED
    BY <2>1, <2>3, <2>4, Zenon
<1>11. ASSUME NEW o \in OpId, monitor_timer_expires(o) PROVE LinkStep(a)
  <2> DEFINE x == expire(c, o)
  <2>1. /\ Up /\ o \in c.timers /\ UNCHANGED <<node, service>>
        /\ \E answer \in ResourceAnswers :
             c' = forget_leaked(resource_monitor_execute(x, o, answer))
    BY <1>11, Zenon DEF monitor_timer_expires, expire
  <2>2. x = expire(c, o)
    OBVIOUS
  <2> HIDE DEF x
  <2>3. PICK answer \in ResourceAnswers :
          c' = forget_leaked(resource_monitor_execute(x, o, answer))
    BY <2>1, Zenon
  <2>4. /\ c'.connected = c.connected /\ c'.process = c.process
        /\ \/ c'.queue = c.queue
           \/ c'.queue = [c.queue EXCEPT ![Home[o[1]]] = Append(@, o)]
    BY <1>1, <2>1, <2>2, <2>3, TimerStep, SMTT(30)
  <2>5. \/ c'.queue[a] = c.queue[a]
        \/ c'.queue[a] = Append(c.queue[a], o)
    BY <1>2, <2>4
  <2>6. CASE c'.queue[a] = c.queue[a]
    BY <2>1, <2>4, <2>6, Untouched, Zenon
  <2>7. CASE c'.queue[a] = Append(c.queue[a], o)
    <3>1. <<o>> \in Seq(OpId) /\ c'.queue[a] = c.queue[a] \o <<o>>
      BY <1>2, <2>7
    <3> QED
      BY <1>3, <2>1, <2>4, <3>1, Accepted, Zenon
  <2> QED
    BY <2>5, <2>6, <2>7
<1>12. CASE UNCHANGED <<node, c>>
  BY <1>12, Untouched
<1> QED
  BY <1>4, <1>5, <1>6, <1>7, <1>8, <1>9, <1>10, <1>11, <1>12
  DEF Next, vars, jobs_wait, Stopped, ServiceDies

\* UsesTransport: the operations cape queues on an assembly end in the order in
\* which they were queued, at most once, and a restart leaves none behind, so
\* that what Assembly is proved to implement is all that cape relies on.
THEOREM CapeUsesTransport ==
  ASSUME NoReplan PROVE Spec => UsesTransport
<1>1. Init => \A a \in Assemblies : Link(a)!Init
  BY DEF Init, Link!Init
<1>2. CapeInv /\ [Next]_vars =>
        [\A a \in Assemblies :
           Link(a)!Next \/ UNCHANGED Link(a)!vars]_<<node, c>>
  BY LinkKeeps DEF LinkStep
<1> QED
  BY <1>1, <1>2, CapeInductive, PTL DEF Spec, UsesTransport

=============================================================================

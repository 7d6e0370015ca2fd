----------------------------- MODULE CapeGraph -----------------------------
(***************************************************************************)
(* The inductive invariant IInv of module CapeProofs, continued: the       *)
(* timers of recurring monitors expire, run_graph fires the actions of the *)
(* transition graph, and a transition ends.                                *)
(***************************************************************************)
EXTENDS CapeProofs

\* A timer is removed from the loop.
expire(x, o) == [x EXCEPT !.timers = @ \ {o}]

\* Monitor o is ready to be executed again: its timer has expired and leaves
\* it one reference.
Expires(x, y, n, o) ==
  /\ o \in OpId /\ y \in Data /\ Core(y, n) /\ Ending(y, o) /\ Settled(y, o)
  /\ y.monitor_op[o[1]] = o /\ ~HardError(y.history[o[1]])
  /\ Home[o[1]] \in y.connected
  /\ \A p \in OpId \ {o} : y.refs[p] >= Holders(y, p)
  /\ y.refs[o] >= Holders(y, o) + 1 /\ y.refs[o] # 1
  /\ SameOps(x, y) /\ SameHistory(x, y) /\ SameLinks(x, y)

\* That is what removing the timer does.
LEMMA Expired ==
  ASSUME NEW x, NEW n, IInv(x, n), NEW o \in x.timers, NEW y, y = expire(x, o)
  PROVE  Expires(x, y, n, o)
<1> DEFINE t == x.timers \ {o}
<1>1. y = [x EXCEPT !.timers = t]
  BY DEF expire
<1>2. x \in Data /\ n \in NodeType /\ Core(x, n) /\ Counted(x)
  BY DEF IInv
<1>3. t \in TimersType /\ o \in OpId /\ t \subseteq x.timers /\ o \notin t
  BY <1>2, FieldTypes DEF TimersType
<1> HIDE DEF t
<1>4. /\ y \in Data /\ y.timers = t /\ SameOps(x, y)
      /\ SameMonitors(x, y) /\ SameHistory(x, y) /\ SameLinks(x, y)
      /\ SameGraph(x, y) /\ y.jobs = x.jobs
  BY <1>1, <1>2, <1>3
  DEF Data, SameOps, SameMonitors, SameHistory, SameLinks, SameGraph
<1>5. Shrunk(x, y)
  BY <1>2, <1>3, <1>4, Unshrunk DEF SameLinks
<1>6. \A b \in Assemblies : n[b] = "RUNNING" =>
        b \in y.connected /\ (n[b] = "RUNNING" \/ y.jobs > 0)
  BY <1>2, <1>4 DEF Core, SameLinks
<1>7. Core(y, n) /\ \A p \in OpId : Active(y, p) => Active(x, p)
  BY <1>2, <1>4, <1>5, <1>6, KeptCore DEF SameOps, SameLinks
<1>8. OpInv(x, o) /\ Active(x, o)
  BY <1>2, <1>3, Zenon DEF Core, Active
<1>9. /\ Settled(x, o) /\ ~InFlight(x, o)
      /\ Home[o[1]] \in x.connected
      /\ \A p \in OpId : Active(x, p) /\ p[1] = o[1] => p = o
      /\ x.monitor_op[o[1]] = o /\ ~HardError(x.history[o[1]])
  BY <1>8 DEF OpInv, Settled
<1>10. ~InFlight(y, o)
  BY <1>4, <1>9 DEF InFlight, SameLinks
<1>11. \A p \in OpId : p[1] = o[1] => ~Active(y, p)
  BY <1>3, <1>4, <1>7, <1>9, <1>10 DEF Active
<1>12. /\ Settled(y, o) /\ y.monitor_op[o[1]] = o /\ Home[o[1]] \in y.connected
       /\ ~HardError(y.history[o[1]])
  BY <1>4, <1>9, Zenon
  DEF Settled, SameOps, SameMonitors, SameHistory, SameLinks, SameGraph
<1>13. Ending(y, o)
  BY <1>11, <1>12 DEF Ending
<1>14. \A p \in OpId \ {o} : y.refs[p] >= Holders(y, p)
  <2>1. Counted(y)
    BY <1>2, <1>4, <1>5, KeptCounted DEF SameOps, SameMonitors
  <2> QED
    BY <2>1 DEF Counted
<1>15. y.refs[o] >= Holders(y, o) + 1 /\ y.refs[o] # 1
  <2>1. x.refs[o] >= Holders(x, o) /\ x.refs[o] \in Int
    BY <1>2, <1>3, FieldTypes, Zenon DEF Counted
  <2>2. Holders(x, o) = 2 /\ Holders(y, o) = 1
    BY <1>3, <1>4, <1>9, <1>10, <1>12 DEF Holders
  <2> QED
    BY <1>4, <2>1, <2>2 DEF SameOps
<1> QED
  BY <1>3, <1>4, <1>7, <1>12, <1>13, <1>14, <1>15 DEF Expires

\* What transport_resource_action does to the fields.
Sends(x, y, o) ==
  /\ SameMonitors(x, y) /\ SameHistory(x, y) /\ SameGraph(x, y)
  /\ y.op = x.op /\ y.connected = x.connected /\ y.process = x.process
  /\ y.jobs = x.jobs /\ y.timers = x.timers
  /\ y.refs = [x.refs EXCEPT ![o] = @ + 1]
  /\ y.queue = [x.queue EXCEPT ![Home[o[1]]] = Append(@, o)]

\* It is such a step.
LEMMA SendFields ==
  ASSUME NEW x \in Data, NEW o \in OpId, NEW y,
         y = transport_resource_action(x, o)
  PROVE  y \in Data /\ Sends(x, y, o)
<1> DEFINE f == [x.refs EXCEPT ![o] = @ + 1]
           q == [x.queue EXCEPT ![Home[o[1]]] = Append(@, o)]
<1>1. y = [x EXCEPT !.refs = f, !.queue = q]
  BY DEF transport_resource_action, pe_resource_ref
<1>2. f \in RefsType
  BY DEF Data, RefsType
<1>3. q \in QueueType
  BY OpIdFacts DEF Data, QueueType
<1> HIDE DEF f, q
<1>4. /\ y \in Data /\ y.refs = f /\ y.queue = q
      /\ SameMonitors(x, y) /\ SameHistory(x, y) /\ SameGraph(x, y)
      /\ y.op = x.op /\ y.connected = x.connected /\ y.process = x.process
      /\ y.jobs = x.jobs /\ y.timers = x.timers
  BY <1>1, <1>2, <1>3, ZenonT(30)
  DEF Data, SameMonitors, SameHistory, SameGraph
<1> QED
  BY <1>4 DEF f, q, Sends

\* The operation that was sent is in flight as well.
LEMMA SentInFlight ==
  ASSUME NEW x \in Data, NEW o \in OpId, NEW y,
         y.queue = [x.queue EXCEPT ![Home[o[1]]] = Append(@, o)]
  PROVE  \A p \in OpId : InFlight(y, p) <=> p = o \/ InFlight(x, p)
<1> DEFINE h == Home[o[1]]
<1>1. h \in Assemblies /\ x.queue \in [Assemblies -> Seq(OpId)]
  BY OpIdFacts, FieldTypes, Zenon
<1>2. Range(Append(x.queue[h], o)) = Range(x.queue[h]) \cup {o}
  BY <1>1, RangeAppend
<1>3. y.queue[h] = Append(x.queue[h], o)
      /\ \A a \in Assemblies \ {h} : y.queue[a] = x.queue[a]
  BY <1>1, Zenon
<1> TAKE p \in OpId
<1>4. CASE Home[p[1]] = h
  BY <1>2, <1>3, <1>4, Zenon DEF InFlight
<1>5. CASE Home[p[1]] # h
  <2>1. Home[p[1]] \in Assemblies /\ p # o
    BY <1>5, OpIdFacts
  <2> QED
    BY <1>3, <1>5, <2>1, Zenon DEF InFlight
<1> QED
  BY <1>4, <1>5

\* The queues after one more operation was sent.
LEMMA Sent ==
  ASSUME NEW x \in Data, NEW n, Core(x, n), NEW o \in OpId, NEW y,
         y.queue = [x.queue EXCEPT ![Home[o[1]]] = Append(@, o)],
         ~InFlight(x, o), Home[o[1]] \in x.connected,
         y.connected = x.connected
  PROVE  \A a \in Assemblies : QueueInv(y, a)
<1> DEFINE h == Home[o[1]]
<1>1. h \in Assemblies /\ x.queue \in [Assemblies -> Seq(OpId)]
  BY OpIdFacts, FieldTypes, Zenon
<1>2. \A a \in Assemblies : QueueInv(x, a)
  BY Zenon DEF Core
<1>3. /\ Range(Append(x.queue[h], o)) = Range(x.queue[h]) \cup {o}
      /\ IsInjective(Append(x.queue[h], o))
  <2>1. o \notin Range(x.queue[h]) /\ IsInjective(x.queue[h])
    BY <1>1, <1>2, Zenon DEF InFlight, QueueInv
  <2> QED
    BY <1>1, <2>1, RangeAppend
<1>4. y.queue[h] = Append(x.queue[h], o)
      /\ \A a \in Assemblies \ {h} : y.queue[a] = x.queue[a]
  BY <1>1, Zenon
<1> TAKE a \in Assemblies
<1>5. CASE a = h
  BY <1>2, <1>3, <1>4, <1>5, ZenonT(30) DEF QueueInv
<1>6. CASE a # h
  BY <1>2, <1>4, <1>6, Zenon DEF QueueInv
<1> QED
  BY <1>5, <1>6, Zenon

\* A settled monitor is sent to its assembly again.
LEMMA MonitorSent ==
  ASSUME NEW x0, NEW x, NEW n \in NodeType, NEW o, Expires(x0, x, n, o),
         NEW y, y = transport_resource_action(x, o)
  PROVE  IInv(y, n) /\ Sends(x, y, o)
<1> DEFINE r == o[1]
<1>1. /\ o \in OpId /\ x \in Data /\ Core(x, n) /\ Ending(x, o) /\ Settled(x, o)
      /\ x.monitor_op[r] = o /\ ~HardError(x.history[r])
      /\ Home[r] \in x.connected
      /\ \A p \in OpId \ {o} : x.refs[p] >= Holders(x, p)
      /\ x.refs[o] >= Holders(x, o) + 1
  BY Zenon DEF Expires
<1>2. /\ y \in Data
      /\ SameMonitors(x, y) /\ SameHistory(x, y) /\ SameGraph(x, y)
      /\ y.op = x.op /\ y.connected = x.connected /\ y.process = x.process
      /\ y.jobs = x.jobs /\ y.timers = x.timers
      /\ y.refs = [x.refs EXCEPT ![o] = @ + 1]
      /\ y.queue = [x.queue EXCEPT ![Home[o[1]]] = Append(@, o)]
      /\ Sends(x, y, o)
  <2>1. y \in Data /\ Sends(x, y, o)
    BY <1>1, SendFields, Zenon
  <2> QED
    BY <2>1, Zenon DEF Sends
<1>3. r \in Resources /\ Home[r] \in Assemblies
  BY <1>1, OpIdFacts
<1>4. \A p \in OpId : p[1] = r => ~InFlight(x, p) /\ p \notin x.timers
  BY <1>1, Zenon DEF Ending, Active
<1>5. /\ \A a \in Assemblies : QueueInv(y, a)
      /\ \A p \in OpId : InFlight(y, p) <=> p = o \/ InFlight(x, p)
  <2>1. /\ x \in Data /\ Core(x, n) /\ o \in OpId /\ ~InFlight(x, o)
        /\ Home[o[1]] \in x.connected
    BY <1>1, <1>4
  <2> QED
    BY <1>2, <2>1, Sent, SentInFlight, Zenon
<1>6. \A q \in Resources : SameRes(x, y, q)
  BY <1>2 DEF SameRes, SameMonitors, SameHistory, SameGraph
<1>7. y.busy = x.busy /\ y.abort = x.abort /\ y.op = x.op /\ y.jobs = x.jobs
      /\ y.timers = x.timers /\ y.connected = x.connected
  BY <1>2, Zenon DEF SameGraph
<1>8. ASSUME NEW p \in OpId PROVE OpInv(y, p)
  <2>1. CASE p[1] # r
    <3>1. SameRes(x, y, p[1])
      BY <1>6, OpIdFacts
    <3>2. \A q \in OpId \cup {p} : q[1] = p[1] =>
            (InFlight(y, q) => InFlight(x, q)) /\ (q \in y.timers => q \in x.timers)
      BY <1>5, <1>7, <2>1, Zenon
    <3>3. OpInv(x, p)
      BY <1>1, Zenon DEF Core
    <3> QED
      BY <1>7, <3>1, <3>2, <3>3, OpKept
  <2>2. CASE p[1] = r
    <3> SUFFICES ASSUME Active(y, p) PROVE OpInv(y, p)
      BY DEF OpInv
    <3>1. p = o /\ p \notin y.timers
      BY <1>4, <1>5, <1>7, <2>2 DEF Active
    <3>2. \A q \in OpId : Active(y, q) /\ q[1] = r => q = o
      BY <1>4, <1>5, <1>7, Zenon DEF Active
    <3>3. Settled(y, o) /\ y.monitor_op[r] = o /\ ~HardError(y.history[r])
      BY <1>1, <1>3, <1>6, <1>7, Zenon DEF Settled, SameRes
    <3> QED
      BY <3>1, <3>2, <3>3, Zenon DEF OpInv
  <2> QED
    BY <2>1, <2>2, Zenon
<1>9. ASSUME NEW q \in Resources PROVE ResInv(y, q) /\ PlanInv(y, n, q)
  <2>1. SameRes(x, y, q) /\ ResInv(x, q) /\ PlanInv(x, n, q)
    BY <1>1, <1>6, Zenon DEF Core
  <2> QED
    BY <1>7, <2>1, ResKept, Zenon
<1>10. Core(y, n)
  BY <1>1, <1>5, <1>7, <1>8, <1>9 DEF Core
<1>11. Counted(y)
  <2> SUFFICES ASSUME NEW p \in OpId PROVE y.refs[p] >= Holders(y, p)
    BY Zenon DEF Counted
  <2>1. x.refs \in [OpId -> Int] /\ y.monitor_op = x.monitor_op
    BY <1>1, <1>2, FieldTypes, Zenon DEF SameMonitors
  <2>2. CASE p = o
    <3>1. Holders(y, o) = 3 /\ Holders(x, o) = 1
      BY <1>1, <1>4, <1>5, <1>7, <2>1 DEF Holders
    <3>2. x.refs[o] >= 2
      BY <1>1, <3>1, SMTT(30)
    <3>3. y.refs[o] = x.refs[o] + 1
      BY <1>1, <1>2, <2>1, Zenon
    <3>4. x.refs[o] >= 3 \/ x.refs[o] = 2
      BY <1>1, <2>1, <3>2
    <3> QED
      BY <1>1, <2>1, <2>2, <3>1, <3>3, <3>4
  <2>3. CASE p # o
    <3>1. y.refs[p] = x.refs[p]
      BY <1>2, <2>1, <2>3, Zenon
    <3>2. Holders(y, p) = Holders(x, p)
      BY <1>5, <1>7, <2>1, <2>3, Zenon DEF Holders
    <3> QED
      BY <1>1, <2>3, <3>1, <3>2, Zenon
  <2> QED
    BY <2>2, <2>3
<1> QED
  BY <1>2, <1>10, <1>11, Zenon DEF IInv

\* monitor_timer_expires preserves the invariant.
LEMMA TimerStep ==
  ASSUME IInv(c, node), NEW o \in c.timers, NEW answer,
         NEW x, x = expire(c, o),
         NEW z, z = forget_leaked(resource_monitor_execute(x, o, answer))
  PROVE  /\ IInv(z, node) /\ o \in OpId
         /\ \/ SameHistory(c, z)
            \/ \E k \in Step : Recorded(c, z, o[1], k, "UNKNOWN_ERROR")
         /\ z.connected = c.connected /\ z.process = c.process
         /\ \/ z.queue = c.queue
            \/ /\ node[Home[o[1]]] = "RUNNING"
               /\ z.queue = [c.queue EXCEPT ![Home[o[1]]] = Append(@, o)]
<1> DEFINE y == resource_monitor_execute(x, o, answer)
<1>1. Expires(c, x, node, o)
  BY Expired
<1>2. node \in NodeType
  BY Zenon DEF IInv
<1>3. /\ o \in OpId /\ x \in Data /\ Core(x, node) /\ Ending(x, o)
      /\ x.monitor_op[o[1]] = o /\ Home[o[1]] \in x.connected
      /\ \A p \in OpId \ {o} : x.refs[p] >= Holders(x, p)
      /\ x.refs[o] >= Holders(x, o) + 1 /\ x.refs[o] # 1
      /\ SameOps(c, x) /\ SameHistory(c, x) /\ SameLinks(c, x)
  BY <1>1, Zenon DEF Expires
<1>4. CASE node[Home[o[1]]] = "RUNNING"
  <2>1. y = transport_resource_action(x, o)
    BY <1>4, Zenon DEF resource_monitor_execute
  <2> HIDE DEF y
  <2>2. /\ IInv(y, node) /\ SameHistory(x, y)
        /\ y.connected = x.connected /\ y.process = x.process
        /\ y.queue = [x.queue EXCEPT ![Home[o[1]]] = Append(@, o)]
    <3>1. IInv(y, node) /\ Sends(x, y, o)
      BY <1>1, <1>2, <2>1, MonitorSent, Zenon
    <3> QED
      BY <3>1, Zenon DEF Sends
  <2>3. /\ IInv(z, node) /\ SameHistory(y, z) /\ z.process = y.process
        /\ z.queue = y.queue /\ z.connected = y.connected
    <3>1. z = forget_leaked(y)
      BY Zenon DEF y
    <3> QED
      BY <2>2, <3>1, ForgetKeeps
  <2> QED
    BY <1>3, <1>4, <2>2, <2>3 DEF SameHistory, SameLinks
<1>5. CASE node[Home[o[1]]] # "RUNNING"
  <2>1. y = resource_action_completed(x, o, "UNKNOWN_ERROR", answer)
    BY <1>5, Zenon DEF resource_monitor_execute
  <2> HIDE DEF y
  <2> DEFINE rc == "UNKNOWN_ERROR"
  <2>2. rc \in Codes /\ ~Rearmed(x, o, rc)
    BY DEF Codes, Rearmed, target_outcome
  <2> HIDE DEF rc
  <2>3. y = resource_action_completed(x, o, rc, answer)
    BY <2>1, Zenon DEF rc
  <2>4. Completable(x, o) /\ ~Active(x, o)
    BY <1>3, EndingCompletable, Zenon DEF Ending
  <2>5. y \in Data /\ Core(y, node)
    BY <1>2, <1>3, <2>2, <2>3, CompletedCore, Zenon
  <2>6. Counted(y)
    <3>1. /\ \A p \in OpId \ {o} : y.refs[p] >= Holders(y, p)
          /\ y.refs[o] - Holders(y, o) >= x.refs[o] - Holders(x, o) - 1
      BY <1>3, <2>2, <2>3, <2>4, CompletedCounted, Zenon
    <3>2. Holders(y, o) \in Int /\ Holders(x, o) \in Int
      BY SMTT(30) DEF Holders
    <3>3. x.refs[o] \in Int /\ y.refs[o] \in Int
      BY <1>3, <2>5, FieldTypes, Zenon
    <3>4. x.refs[o] >= Holders(x, o) + 1
      BY <1>3, Zenon
    <3>5. y.refs[o] >= Holders(y, o)
      BY <3>1, <3>2, <3>3, <3>4, SMTT(30)
    <3> QED
      BY <3>1, <3>5, Zenon DEF Counted
  <2>7. Completes(x, y, o, rc)
    BY <1>3, <2>2, <2>3, <2>4, CompletedFields, Zenon
  <2>8. IInv(y, node)
    BY <1>2, <2>5, <2>6, Zenon DEF IInv
  <2>9. /\ IInv(z, node) /\ SameHistory(y, z) /\ z.process = y.process
        /\ z.queue = y.queue /\ z.connected = y.connected
    <3>1. z = forget_leaked(y)
      BY Zenon DEF y
    <3> QED
      BY <2>8, <3>1, ForgetKeeps, Zenon
  <2>10. c.op[o].step \in Step /\ Recorded(c, z, o[1], c.op[o].step, rc)
    <3>1. z.history = y.history /\ z.last = y.last
      BY <2>9, Zenon DEF SameHistory
    <3>2. x.history = c.history /\ x.last = c.last /\ x.op = c.op
      BY <1>3, Zenon DEF SameHistory, SameOps
    <3>3. Recorded(x, y, o[1], x.op[o].step, rc)
      BY <2>7, Zenon DEF Completes, Recorded
    <3> QED
      BY <2>4, <3>1, <3>2, <3>3 DEF Recorded, Completable
  <2>11. y.queue = x.queue /\ y.connected = x.connected /\ y.process = x.process
    BY <2>7, Zenon DEF Completes, SameLinks
  <2> QED
    BY <1>3, <2>9, <2>10, <2>11 DEF rc, SameLinks
<1> QED
  BY <1>4, <1>5, Zenon

(***************************************************************************)
(* run_graph fires actions.                                                *)
(***************************************************************************)

\* Resource r waits for its next action, for which there is an operation.
Fireable(x, r) == r \in Ready(x) /\ ~x.abort /\ Allocatable(x, r)

\* What is known of the resource and of the new operation o.
ReadyFacts(x, r, o) ==
  /\ r \in Resources /\ x.todo[r] \in Plans \ {<<>>} /\ ~x.fired[r] /\ x.busy
  /\ o \in OpId /\ o[1] = r /\ x.refs[o] = 0 /\ x.monitor_op[r] # o
  /\ \A p \in OpId : p[1] = r => ~InFlight(x, p) /\ p \notin x.timers
  /\ x.monitor_timer[r] \notin x.timers
  /\ x.monitor_op[r] # None => x.monitor_op[r] \in OpId /\ x.monitor_op[r][1] = r
  /\ ~StopFailed(x.history[r])
  /\ Head(x.todo[r]) = "monitor" => ~HardError(x.history[r])

\* A resource that waits has no operation in flight and no running timer.
LEMMA ReadyResource ==
  ASSUME NEW x \in Data, NEW n, Core(x, n), NEW r, Fireable(x, r)
  PROVE  ReadyFacts(x, r, NewOp(x, r))
<1> DEFINE o == NewOp(x, r)
<1>1. /\ r \in Resources /\ x.todo[r] # <<>> /\ ~x.fired[r] /\ ~x.abort
      /\ \E p \in {r} \X (1 .. MaxOps) : Unused(x, p)
  BY DEF Fireable, Ready, Allocatable
<1>2. o \in {r} \X (1 .. MaxOps) /\ Unused(x, o)
  BY <1>1 DEF NewOp
<1> HIDE DEF o
<1>3. o \in OpId /\ o[1] = r
  BY <1>1, <1>2 DEF OpId
<1>4. x.refs[o] = 0 /\ x.monitor_op[r] # o
  BY <1>2, <1>3 DEF Unused, Holders
<1>5. ResInv(x, r) /\ \A p \in OpId : OpInv(x, p)
  BY <1>1, Zenon DEF Core
<1>6. x.todo[r] \in Plans \ {<<>>} /\ x.busy
  BY <1>1, <1>5, FieldTypes, Zenon DEF ResInv
<1>7. ASSUME NEW p \in OpId, p[1] = r PROVE ~InFlight(x, p) /\ p \notin x.timers
  <2>1. ~(Active(x, p) /\ OpInv(x, p))
    BY <1>1, <1>7 DEF OpInv, Fresh, Settled
  <2> QED
    BY <1>5, <2>1, Zenon DEF Active
<1>8. x.monitor_timer[r] \notin x.timers
  <2>1. x.timers \subseteq OpId
    BY FieldTypes, Zenon
  <2>2. ASSUME x.monitor_timer[r] \in x.timers PROVE FALSE
    <3>1. x.monitor_timer[r] \in OpId /\ x.monitor_timer[r] # None
      BY <2>1, <2>2, OpIdFacts, Zenon
    <3>2. x.monitor_timer[r][1] = r
      BY <1>5, <3>1, Zenon DEF ResInv
    <3> QED
      BY <1>7, <2>2, <3>1, <3>2
  <2> QED
    BY <2>2, Zenon
<1>9. x.monitor_op[r] # None => x.monitor_op[r] \in OpId /\ x.monitor_op[r][1] = r
  BY <1>1, <1>5, FieldTypes, SMTT(30) DEF ResInv
<1>10. ~StopFailed(x.history[r])
  BY <1>1, <1>5, <1>6 DEF ResInv
<1>11. Head(x.todo[r]) = "monitor" => ~HardError(x.history[r])
  <2>1. HardError(x.history[r]) => x.todo[r] = <<"stop">>
    BY <1>1, <1>5, <1>6 DEF ResInv
  <2>2. Head(<<"stop">>) = "stop"
    OBVIOUS
  <2> QED
    BY <2>1, <2>2, Zenon
<1> QED
  BY <1>1, <1>3, <1>4, <1>6, <1>7, <1>8, <1>9, <1>10, <1>11, Zenon
  DEF ReadyFacts, o

\* The new operation, before anything is done with it.
made(x, r, o) ==
  [x EXCEPT !.op[o] = [step |-> Head(x.todo[r]), times |-> 0, current |-> TRUE],
            !.refs[o] = 1, !.fired[r] = TRUE]

\* What making it does to the fields.
Makes(x, y, r, o) ==
  /\ SameMonitors(x, y) /\ SameHistory(x, y) /\ SameLinks(x, y)
  /\ y.busy = x.busy /\ y.abort = x.abort /\ y.todo = x.todo
  /\ y.jobs = x.jobs /\ y.timers = x.timers
  /\ y.fired[r] /\ \A q \in Resources \ {r} : y.fired[q] = x.fired[q]
  /\ y.op[o].step = Head(x.todo[r]) /\ y.op[o].times = 0 /\ y.op[o].current
  /\ y.refs[o] = 1
  /\ \A p \in OpId \ {o} : y.op[p] = x.op[p] /\ y.refs[p] = x.refs[p]

\* made does that.
LEMMA MadeFields ==
  ASSUME NEW x \in Data, NEW r, NEW o, ReadyFacts(x, r, o),
         NEW y, y = made(x, r, o)
  PROVE  y \in Data /\ Makes(x, y, r, o)
<1> DEFINE e == [step |-> Head(x.todo[r]), times |-> 0, current |-> TRUE]
           f == [x.op EXCEPT ![o] = e]
           g == [x.refs EXCEPT ![o] = 1]
           h == [x.fired EXCEPT ![r] = TRUE]
<1>1. y = [x EXCEPT !.op = f, !.refs = g, !.fired = h]
  BY DEF made
<1>2. r \in Resources /\ o \in OpId /\ Head(x.todo[r]) \in Step
  BY PlanSteps DEF ReadyFacts
<1>3. /\ e \in OpRec /\ e.step = Head(x.todo[r]) /\ e.times = 0
      /\ e.current
  BY <1>2, SMTT(30) DEF OpRec
<1> HIDE DEF e
<1>4. /\ f \in OpType /\ f[o] = e /\ \A p \in OpId \ {o} : f[p] = x.op[p]
  BY <1>2, <1>3, FieldTypes, Zenon DEF OpType
<1>5. /\ g \in RefsType /\ g[o] = 1 /\ \A p \in OpId \ {o} : g[p] = x.refs[p]
  BY <1>2, FieldTypes DEF RefsType
<1>6. /\ h \in FiredType /\ h[r]
      /\ \A q \in Resources \ {r} : h[q] = x.fired[q]
  BY <1>2, FieldTypes DEF FiredType
<1> HIDE DEF f, g, h
<1>7. /\ y \in Data /\ y.op = f /\ y.refs = g /\ y.fired = h
  BY <1>1, <1>4, <1>5, <1>6, ZenonT(30) DEF Data
<1>8. /\ SameMonitors(x, y) /\ SameHistory(x, y) /\ SameLinks(x, y)
      /\ y.busy = x.busy /\ y.abort = x.abort /\ y.todo = x.todo
      /\ y.jobs = x.jobs /\ y.timers = x.timers
  BY <1>1 DEF Data, SameMonitors, SameHistory, SameLinks
<1> QED
  BY <1>3, <1>4, <1>5, <1>6, <1>7, <1>8 DEF Makes

\* What firing the next action of r on a RUNNING assembly does to r: the new
\* operation gets its references, and a stop ends the recurring monitor.
Fires(x, y, r) ==
  LET o == NewOp(x, r)
      m == x.monitor_op[r]
      step == Head(x.todo[r])
  IN  /\ y.fired[r]
      /\ y.monitor_op[r] = IF step = "monitor" THEN o
                           ELSE IF step = "stop" THEN None ELSE m
      /\ y.op[o].step = step /\ y.op[o].times = 0 /\ y.op[o].current
      /\ y.refs[o] = IF step = "monitor" THEN 3 ELSE 2
      /\ \A p \in OpId : p[1] = r /\ p # o =>
           IF step = "stop" /\ p = m THEN y.refs[p] = x.refs[p] - 1
           ELSE y.refs[p] = x.refs[p] /\ y.op[p] = x.op[p]

\* resource_execute_cb on a RUNNING assembly does that and sends the operation.
LEMMA FireFields ==
  ASSUME NEW x \in Data, NEW n, Core(x, n), NEW r, Fireable(x, r),
         node[Home[r]] = "RUNNING", NEW answer,
         NEW y, y = resource_execute_cb(x, r, answer)
  PROVE  /\ y \in Data /\ Fires(x, y, r)
         /\ y.timers = x.timers /\ y.todo = x.todo
         /\ y.queue = [x.queue EXCEPT ![Home[r]] = Append(@, NewOp(x, r))]
<1> DEFINE o == NewOp(x, r)
           m == x.monitor_op[r]
           step == Head(x.todo[r])
           z == made(x, r, o)
<1>1. ReadyFacts(x, r, o)
  BY ReadyResource, Zenon
<1>2. y = IF step = "monitor" THEN recurring_monitor_start(z, o, answer)
          ELSE IF step = "probe" THEN resource_monitor_execute(z, o, answer)
          ELSE IF step = "stop" /\ z.monitor_op[r] # None
          THEN transport_resource_action(
                 recurring_monitor_stop(z, z.monitor_op[r]), o)
          ELSE transport_resource_action(z, o)
  BY DEF resource_execute_cb, made
<1> HIDE DEF o, z
<1>3. z \in Data /\ Makes(x, z, r, o)
  BY <1>1, MadeFields, Zenon DEF z
<1>4. /\ r \in Resources /\ o \in OpId /\ o[1] = r /\ step \in Step /\ m # o
      /\ z.monitor_op[r] = m /\ ~timer_is_running(z, r)
      /\ m # None => m \in OpId /\ m[1] = r
  BY <1>1, <1>3, PlanSteps, Zenon
  DEF ReadyFacts, Makes, SameMonitors, timer_is_running
<1>5. /\ z.fired[r] /\ z.todo = x.todo /\ z.queue = x.queue
      /\ z.timers = x.timers /\ z.refs[o] = 1
      /\ z.op[o].step = step /\ z.op[o].times = 0 /\ z.op[o].current
      /\ \A p \in OpId \ {o} : z.op[p] = x.op[p] /\ z.refs[p] = x.refs[p]
  BY <1>3, Zenon DEF Makes, SameLinks
<1>6. z.refs \in [OpId -> Int] /\ z.op \in [OpId -> OpRec]
      /\ z.monitor_op \in [Resources -> OpId \cup {None}]
  BY <1>3, FieldTypes, Zenon
<1>7. CASE step = "monitor"
  <2> DEFINE f == [z.refs EXCEPT ![o] = @ + 1]
             g == [z.monitor_op EXCEPT ![r] = o]
             w == [z EXCEPT !.refs = f, !.monitor_op = g]
  <2>1. w = [pe_resource_ref(z, o) EXCEPT !.monitor_op[r] = o]
    BY DEF pe_resource_ref
  <2>2. y = transport_resource_action(w, o)
    BY <1>2, <1>4, <1>7, <2>1, Zenon
    DEF recurring_monitor_start, resource_monitor_execute
  <2>3. f \in RefsType /\ f[o] = 2 /\ \A p \in OpId \ {o} : f[p] = x.refs[p]
    BY <1>4, <1>5, <1>6 DEF RefsType
  <2>4. g \in MonitorType /\ g[r] = o
    BY <1>4, <1>6 DEF MonitorType
  <2> HIDE DEF f, g
  <2>5. /\ w \in Data /\ w.refs = f /\ w.monitor_op = g /\ w.op = z.op
        /\ w.fired = z.fired /\ w.todo = z.todo /\ w.queue = z.queue
        /\ w.timers = z.timers
    BY <1>3, <2>3, <2>4, Zenon DEF Data
  <2> HIDE DEF w
  <2>6. y \in Data /\ Sends(w, y, o)
    BY <1>4, <2>2, <2>5, SendFields, Zenon
  <2>7. /\ y.monitor_op = g /\ y.op = z.op /\ y.fired = z.fired
        /\ y.todo = z.todo /\ y.timers = z.timers
        /\ y.refs = [f EXCEPT ![o] = @ + 1]
        /\ y.queue = [x.queue EXCEPT ![Home[r]] = Append(@, o)]
    BY <1>4, <1>5, <2>5, <2>6 DEF Sends, SameMonitors, SameGraph
  <2>8. y.refs[o] = 3 /\ \A p \in OpId \ {o} : y.refs[p] = x.refs[p]
    BY <1>4, <2>3, <2>7, SMTT(30) DEF RefsType
  <2>9. Fires(x, y, r)
    BY <1>5, <1>7, <2>4, <2>7, <2>8, SMTT(30) DEF Fires, o
  <2> QED
    BY <1>5, <2>6, <2>7, <2>9, Zenon DEF o
<1>8. CASE step # "monitor" /\ ~(step = "stop" /\ m # None)
  <2>1. y = transport_resource_action(z, o)
    BY <1>2, <1>4, <1>8, Zenon DEF resource_monitor_execute
  <2>2. y \in Data /\ Sends(z, y, o)
    BY <1>3, <1>4, <2>1, SendFields, Zenon
  <2>3. /\ y.monitor_op = z.monitor_op /\ y.op = z.op /\ y.fired = z.fired
        /\ y.todo = z.todo /\ y.timers = z.timers
        /\ y.refs = [z.refs EXCEPT ![o] = @ + 1]
        /\ y.queue = [x.queue EXCEPT ![Home[r]] = Append(@, o)]
    BY <1>4, <1>5, <2>2, SMTT(30) DEF Sends, SameMonitors, SameGraph
  <2>4. y.refs[o] = 2 /\ \A p \in OpId \ {o} : y.refs[p] = x.refs[p]
    BY <1>4, <1>5, <1>6, <2>3
  <2>5. \A p \in OpId : p # None
    BY OpIdFacts, Zenon
  <2>6. Fires(x, y, r)
    BY <1>4, <1>5, <1>8, <2>3, <2>4, <2>5, SMTT(30) DEF Fires, o
  <2> QED
    BY <1>5, <2>2, <2>3, <2>6, Zenon DEF o
<1>9. CASE step = "stop" /\ m # None
  <2> DEFINE g == [z.monitor_op EXCEPT ![r] = None]
             v == [z EXCEPT !.monitor_op = g]
             w == pe_resource_unref(v, m)
  <2>1. w = recurring_monitor_stop(z, m)
    BY <1>4, <1>9 DEF recurring_monitor_stop
  <2>2. y = transport_resource_action(w, o)
    BY <1>2, <1>4, <1>9, <2>1
  <2>3. g \in MonitorType /\ g[r] = None
    BY <1>4, <1>6, Zenon DEF MonitorType
  <2> HIDE DEF g
  <2>4. /\ v \in Data /\ v.monitor_op = g /\ v.op = z.op /\ v.refs = z.refs
        /\ v.fired = z.fired /\ v.todo = z.todo /\ v.queue = z.queue
        /\ v.timers = z.timers
    BY <1>3, <2>3, Zenon DEF Data
  <2> HIDE DEF v
  <2>5. /\ w \in Data
        /\ SameMonitors(v, w) /\ SameLinks(v, w)
        /\ SameGraph(v, w) /\ w.timers = v.timers
        /\ w.refs = [v.refs EXCEPT ![m] = @ - 1]
        /\ w.op = [v.op EXCEPT ![m] = IF v.refs[m] = 1 THEN NoOp ELSE @]
    <3>1. w = pe_resource_unref(v, m) /\ m \in OpId /\ v \in Data
      BY <1>4, <1>9, <2>4, Zenon
    <3> HIDE DEF w, m
    <3> QED
      BY <3>1, UnrefFields, SMTT(30)
  <2> HIDE DEF w
  <2>6. y \in Data /\ Sends(w, y, o)
    BY <1>4, <2>2, <2>5, SendFields, Zenon
  <2>7. /\ y.monitor_op = g /\ y.op = w.op /\ y.fired = z.fired
        /\ y.todo = z.todo /\ y.timers = z.timers
        /\ y.refs = [w.refs EXCEPT ![o] = @ + 1]
        /\ y.queue = [x.queue EXCEPT ![Home[r]] = Append(@, o)]
    <3>1. /\ y.monitor_op = w.monitor_op /\ y.op = w.op /\ y.fired = w.fired
          /\ y.todo = w.todo /\ y.timers = w.timers
          /\ y.refs = [w.refs EXCEPT ![o] = @ + 1]
          /\ y.queue = [w.queue EXCEPT ![Home[o[1]]] = Append(@, o)]
      BY <2>6, Zenon DEF Sends, SameMonitors, SameGraph
    <3>2. /\ w.monitor_op = g /\ w.fired = z.fired /\ w.todo = z.todo
          /\ w.timers = z.timers /\ w.queue = z.queue
      BY <2>4, <2>5, Zenon DEF SameMonitors, SameGraph, SameLinks
    <3>3. z.queue = x.queue /\ o[1] = r
      BY <1>4, <1>5, Zenon
    <3> QED
      BY <3>1, <3>2, <3>3, Zenon
  <2>8. /\ w.refs \in [OpId -> Int] /\ w.refs[o] = 1
        /\ \A p \in OpId \ {o} :
             w.refs[p] = IF p = m THEN x.refs[p] - 1 ELSE x.refs[p]
    <3>1. w.refs = [z.refs EXCEPT ![m] = @ - 1]
      BY <2>4, <2>5, Zenon
    <3> QED
      BY <1>4, <1>5, <1>6, <1>9, <3>1, SMTT(30)
  <2>9. /\ y.refs[o] = 2
        /\ \A p \in OpId \ {o} :
             y.refs[p] = IF p = m THEN x.refs[p] - 1 ELSE x.refs[p]
    BY <1>4, <2>7, <2>8
  <2>10. \A p \in OpId \ {m} : y.op[p] = z.op[p]
    BY <1>6, <2>4, <2>5, <2>7, SMTT(30)
  <2>11. y.op[o] = z.op[o]
    BY <1>4, <2>10, Zenon
  <2>12. Fires(x, y, r)
    BY <1>5, <1>9, <2>3, <2>7, <2>9, <2>10, <2>11, SMTT(30) DEF Fires, o
  <2> QED
    BY <1>5, <2>6, <2>7, <2>12, Zenon DEF o
<1> QED
  BY <1>7, <1>8, <1>9

\* Calls for several resources, put together: each resource of S has what its
\* own call made of it, the others are as before.
SameOp(x, y, p) ==
  y.op[p] = x.op[p] /\ y.refs[p] = x.refs[p] /\ (p \in y.timers <=> p \in x.timers)

SameFields(x, y, r) ==
  /\ y.monitor_op[r] = x.monitor_op[r] /\ y.todo[r] = x.todo[r]
  /\ y.fired[r] = x.fired[r]

Joins(x, w, S, y) ==
  /\ w.monitor_timer = x.monitor_timer /\ SameHistory(x, w) /\ SameLinks(x, w)
  /\ w.busy = x.busy /\ w.abort = x.abort /\ w.jobs = x.jobs
  /\ \A p \in OpId : IF p[1] \in S THEN SameOp(y[p[1]], w, p)
                     ELSE SameOp(x, w, p)
  /\ \A r \in Resources : IF r \in S THEN SameFields(y[r], w, r)
                          ELSE SameFields(x, w, r)

\* PerResource does that.
LEMMA PerResourceFields ==
  ASSUME NEW x \in Data, NEW S \in SUBSET Resources, NEW y,
         \A r \in S : y[r] \in Data, NEW w, w = PerResource(x, S, y)
  PROVE  w \in Data /\ Joins(x, w, S, y)
<1> DEFINE f == [o \in OpId |-> IF o[1] \in S THEN y[o[1]].op[o] ELSE x.op[o]]
           g == [o \in OpId |-> IF o[1] \in S THEN y[o[1]].refs[o]
                                ELSE x.refs[o]]
           t == {o \in OpId : o \in IF o[1] \in S THEN y[o[1]].timers
                                    ELSE x.timers}
           m == [r \in Resources |-> IF r \in S THEN y[r].monitor_op[r]
                                     ELSE x.monitor_op[r]]
           d == [r \in Resources |-> IF r \in S THEN y[r].todo[r] ELSE x.todo[r]]
           h == [r \in Resources |-> IF r \in S THEN y[r].fired[r]
                                     ELSE x.fired[r]]
<1>1. w = [x EXCEPT !.op = f, !.refs = g, !.timers = t, !.monitor_op = m,
                    !.todo = d, !.fired = h]
  BY DEF PerResource
<1>2. f \in OpType
  BY FieldTypes DEF OpType
<1>3. g \in RefsType
  BY FieldTypes DEF RefsType
<1>4. t \in TimersType
  BY Zenon DEF TimersType
<1>5. m \in MonitorType
  BY FieldTypes DEF MonitorType
<1>6. d \in TodoType
  BY FieldTypes, Zenon DEF TodoType
<1>7. h \in FiredType
  BY FieldTypes, Zenon DEF FiredType
<1>8. /\ \A p \in OpId : p[1] \in S =>
           f[p] = y[p[1]].op[p] /\ g[p] = y[p[1]].refs[p]
           /\ (p \in t <=> p \in y[p[1]].timers)
      /\ \A p \in OpId : p[1] \notin S =>
           f[p] = x.op[p] /\ g[p] = x.refs[p] /\ (p \in t <=> p \in x.timers)
  OBVIOUS
<1>9. /\ \A r \in S : /\ m[r] = y[r].monitor_op[r] /\ d[r] = y[r].todo[r]
                      /\ h[r] = y[r].fired[r]
      /\ \A r \in Resources \ S : /\ m[r] = x.monitor_op[r] /\ d[r] = x.todo[r]
                                  /\ h[r] = x.fired[r]
  OBVIOUS
<1> HIDE DEF f, g, t, m, d, h
<1>10. w \in Data
  <2> DEFINE v == [x EXCEPT !.op = f, !.refs = g, !.timers = t]
  <2>1. v \in Data
    BY <1>2, <1>3, <1>4, Zenon DEF Data
  <2> DEFINE u == [v EXCEPT !.monitor_op = m, !.todo = d]
  <2>2. w = [u EXCEPT !.fired = h]
    BY <1>1 DEF Data
  <2> HIDE DEF v
  <2>3. u \in Data
    BY <1>5, <1>6, <2>1, Zenon DEF Data
  <2> HIDE DEF u
  <2> QED
    BY <1>7, <2>2, <2>3 DEF Data
<1>11. /\ w.op = f /\ w.refs = g /\ w.timers = t /\ w.monitor_op = m
       /\ w.todo = d /\ w.fired = h
  BY <1>1 DEF Data
<1>12. /\ w.monitor_timer = x.monitor_timer /\ SameHistory(x, w)
       /\ SameLinks(x, w)
       /\ w.busy = x.busy /\ w.abort = x.abort /\ w.jobs = x.jobs
  BY <1>1, Zenon DEF Data, SameHistory, SameLinks
<1>13. \A p \in OpId : IF p[1] \in S THEN SameOp(y[p[1]], w, p)
                       ELSE SameOp(x, w, p)
  BY <1>8, <1>11, Zenon DEF SameOp
<1>14. \A r \in Resources : IF r \in S THEN SameFields(y[r], w, r)
                            ELSE SameFields(x, w, r)
  BY <1>9, <1>11, Zenon DEF SameFields
<1> QED
  BY <1>10, <1>12, <1>13, <1>14, Zenon DEF Joins

\* The operations are sent in some order, each once.
LEMMA Ordered ==
  ASSUME NEW T \in SUBSET OpId, NEW q \in Orders(T)
  PROVE  q \in Seq(OpId) /\ Range(q) = T /\ IsInjective(q)
<1>1. PICK n \in 0 .. Cardinality(Resources) : q \in Bijection(1 .. n, T)
  BY DEF Orders
<1>2. n \in Nat
  BY CapeConstantsOK
<1>3. /\ q \in [1 .. n -> T] /\ IsInjective(q)
      /\ \A t \in T : \E i \in 1 .. n : q[i] = t
  BY <1>1 DEF Bijection, Injection, Surjection
<1>4. q \in Seq(OpId)
  BY <1>2, <1>3
<1>5. Range(q) = T
  BY <1>3, Zenon DEF Range
<1> QED
  BY <1>3, <1>4, <1>5

\* The operations that firing the resources S sends.
SentBy(x, S) == {o \in OpId : o[1] \in S /\ o = NewOp(x, o[1])}

\* What firing the resources S on RUNNING assemblies does to the fields.
Merges(x, z, S) ==
  /\ z.monitor_timer = x.monitor_timer /\ SameHistory(x, z)
  /\ z.connected = x.connected /\ z.process = x.process
  /\ z.busy = x.busy /\ z.abort = x.abort /\ z.jobs = x.jobs
  /\ z.timers = x.timers /\ z.todo = x.todo
  /\ \A r \in S : Fires(x, z, r)
  /\ \A r \in Resources \ S : SameFields(x, z, r)
  /\ \A p \in OpId : p[1] \notin S => SameOp(x, z, p)

\* What it does to the queues.
QueuesGrow(x, z, S) ==
  \A a \in Assemblies : \E t \in Seq(OpId) :
    /\ z.queue[a] = x.queue[a] \o t /\ IsInjective(t)
    /\ Range(t) = {o \in SentBy(x, S) : Home[o[1]] = a}

\* fire_online does both.
LEMMA FireOnlineFields ==
  ASSUME NEW x \in Data, NEW n, Core(x, n), NEW S \in SUBSET Resources,
         \A r \in S : Fireable(x, r) /\ node[Home[r]] = "RUNNING",
         NEW answer, NEW z \in fire_online(x, S, answer)
  PROVE  z \in Data /\ Merges(x, z, S) /\ QueuesGrow(x, z, S)
<1> DEFINE y == [r \in S |-> resource_execute_cb(x, r, answer)]
           sent == {o \in OpId :
                      o[1] \in S /\ InFlight(y[o[1]], o) /\ ~InFlight(x, o)}
           u == x.updated \/ \E r \in S : y[r].updated
           w == PerResource(x, S, y)
<1>1. PICK q \in [Assemblies -> UNION {Orders(T) : T \in SUBSET sent}] :
        /\ \A a \in Assemblies : q[a] \in Orders({o \in sent : Home[o[1]] = a})
        /\ z = [w EXCEPT !.updated = @ \/ \E r \in S : y[r].updated,
                         !.queue = [a \in Assemblies |-> @[a] \o q[a]]]
  BY Zenon DEF fire_online
<1>2. ASSUME NEW r \in S
      PROVE  /\ y[r] \in Data /\ Fires(x, y[r], r)
             /\ y[r].timers = x.timers /\ y[r].todo = x.todo
             /\ y[r].queue = [x.queue EXCEPT ![Home[r]] = Append(@, NewOp(x, r))]
             /\ ReadyFacts(x, r, NewOp(x, r))
  <2>1. Fireable(x, r) /\ node[Home[r]] = "RUNNING"
    BY <1>2
  <2>2. ReadyFacts(x, r, NewOp(x, r))
    BY <2>1, ReadyResource, Zenon
  <2>3. y[r] = resource_execute_cb(x, r, answer)
    BY <1>2, Zenon
  <2> HIDE DEF y
  <2> QED
    BY <2>1, <2>2, <2>3, FireFields, SMTT(30)
<1> HIDE DEF y
<1>3. sent = SentBy(x, S)
  <2> SUFFICES ASSUME NEW o \in OpId, o[1] \in S
               PROVE  InFlight(y[o[1]], o) /\ ~InFlight(x, o) <=> o = NewOp(x, o[1])
    BY Zenon DEF SentBy
  <2> DEFINE r == o[1]
             p == NewOp(x, r)
             v == y[r]
  <2>1. /\ p \in OpId /\ p[1] = r /\ ~InFlight(x, p)
    BY <1>2, ZenonT(30) DEF ReadyFacts
  <2>2. v.queue = [x.queue EXCEPT ![Home[p[1]]] = Append(@, p)]
    BY <1>2, <2>1, Zenon
  <2> HIDE DEF p, v
  <2>3. InFlight(v, o) <=> o = p \/ InFlight(x, o)
    <3>1. p \in OpId
      BY <2>1, Zenon
    <3>2. \A e \in OpId : InFlight(v, e) <=> e = p \/ InFlight(x, e)
      BY <2>2, <3>1, SentInFlight, Zenon
    <3> QED
      BY <3>2, Zenon
  <2> QED
    BY <2>1, <2>3, Zenon DEF p, v
<1>4. w \in Data /\ Joins(x, w, S, y)
  <2>1. \A r \in S : y[r] \in Data
    BY <1>2, Zenon
  <2> QED
    BY <2>1, PerResourceFields, Zenon
<1> HIDE DEF sent, w
<1> DEFINE Q == [a \in Assemblies |-> x.queue[a] \o q[a]]
<1>5. z = [w EXCEPT !.updated = w.updated \/ \E r \in S : y[r].updated,
                    !.queue = Q]
  BY <1>1, <1>4 DEF Joins, SameLinks
<1>6. ASSUME NEW a \in Assemblies
      PROVE  /\ q[a] \in Seq(OpId) /\ IsInjective(q[a])
             /\ Range(q[a]) = {o \in SentBy(x, S) : Home[o[1]] = a}
             /\ Q[a] = x.queue[a] \o q[a] /\ Q[a] \in Seq(OpId)
  <2> DEFINE T == {o \in sent : Home[o[1]] = a}
  <2>1. q[a] \in Orders(T)
    BY <1>1, <1>6, Zenon
  <2>2. T \in SUBSET OpId /\ T = {o \in SentBy(x, S) : Home[o[1]] = a}
    BY <1>3, Zenon DEF SentBy
  <2> HIDE DEF T
  <2>3. q[a] \in Seq(OpId) /\ Range(q[a]) = T /\ IsInjective(q[a])
    BY <2>1, <2>2, Ordered, Zenon
  <2>4. x.queue[a] \in Seq(OpId)
    BY FieldTypes, Zenon
  <2> QED
    BY <2>2, <2>3, <2>4
<1>7. Q \in QueueType
  BY <1>6, Zenon DEF QueueType
<1> HIDE DEF Q
<1>8. /\ z \in Data /\ z.queue = Q /\ z.monitor_timer = w.monitor_timer
      /\ SameHistory(w, z) /\ z.connected = w.connected
      /\ z.process = w.process /\ SameGraph(w, z) /\ SameOps(w, z)
      /\ z.jobs = w.jobs /\ z.timers = w.timers /\ z.monitor_op = w.monitor_op
  <2> DEFINE b == w.updated \/ \E r \in S : y[r].updated
  <2>1. b \in BOOLEAN /\ z = [w EXCEPT !.updated = b, !.queue = Q]
    BY <1>5, Zenon
  <2> HIDE DEF b
  <2>2. w \in Data
    BY <1>4
  <2>3. z \in Data
    BY <1>7, <2>1, <2>2, Zenon DEF Data
  <2> QED
    BY <2>1, <2>2, <2>3 DEF Data, SameHistory, SameGraph, SameOps
<1>9. QueuesGrow(x, z, S)
  BY <1>6, <1>8, Zenon DEF QueuesGrow
<1>10. /\ w.monitor_timer = x.monitor_timer /\ SameHistory(x, w)
       /\ SameLinks(x, w)
       /\ w.busy = x.busy /\ w.abort = x.abort /\ w.jobs = x.jobs
       /\ \A p \in OpId : IF p[1] \in S THEN SameOp(y[p[1]], w, p)
                          ELSE SameOp(x, w, p)
       /\ \A r \in Resources : IF r \in S THEN SameFields(y[r], w, r)
                               ELSE SameFields(x, w, r)
  BY <1>4, Zenon DEF Joins
<1>11. z.timers = x.timers
  <2>1. x.timers \subseteq OpId /\ w.timers \subseteq OpId
    BY <1>4, FieldTypes
  <2>2. \A p \in OpId : p \in w.timers <=> p \in x.timers
    BY <1>2, <1>10, Zenon DEF SameOp
  <2> QED
    BY <1>8, <2>1, <2>2, Zenon
<1>12. z.todo = x.todo
  <2>1. x.todo \in [Resources -> Plans] /\ w.todo \in [Resources -> Plans]
    BY <1>4, FieldTypes
  <2>2. \A r \in Resources : w.todo[r] = x.todo[r]
    BY <1>2, <1>10, Zenon DEF SameFields
  <2>3. w.todo = x.todo
    BY <2>1, <2>2
  <2> QED
    BY <1>8, <2>3, Zenon DEF SameGraph
<1>13. ASSUME NEW r \in S PROVE Fires(x, z, r)
  <2>1. /\ Fires(x, y[r], r) /\ r \in Resources
        /\ NewOp(x, r) \in OpId /\ NewOp(x, r)[1] = r
    BY <1>2, Zenon DEF ReadyFacts
  <2>2. \A p \in OpId : p[1] = r =>
          z.op[p] = y[r].op[p] /\ z.refs[p] = y[r].refs[p]
    BY <1>8, <1>10 DEF SameOp, SameOps
  <2>3. z.monitor_op[r] = y[r].monitor_op[r] /\ z.fired[r] = y[r].fired[r]
    BY <1>8, <1>10, <2>1, Zenon DEF SameFields, SameGraph
  <2> QED
    BY <2>1, <2>2, <2>3, SMTT(30) DEF Fires
<1>14. \A r \in Resources \ S : SameFields(x, z, r)
  BY <1>8, <1>10, Zenon DEF SameFields, SameGraph
<1>15. \A p \in OpId : p[1] \notin S => SameOp(x, z, p)
  BY <1>8, <1>10 DEF SameOp, SameOps
<1>16. /\ z.monitor_timer = x.monitor_timer /\ SameHistory(x, z)
       /\ z.connected = x.connected /\ z.process = x.process
       /\ z.busy = x.busy /\ z.abort = x.abort /\ z.jobs = x.jobs
  BY <1>8, <1>10, Zenon DEF SameHistory, SameLinks, SameGraph
<1>17. Merges(x, z, S)
  BY <1>11, <1>12, <1>13, <1>14, <1>15, <1>16, Zenon DEF Merges
<1> QED
  BY <1>8, <1>9, <1>17

\* The operations sent are in flight, in queues without repetitions.
LEMMA QueuesGrown ==
  ASSUME NEW x \in Data, NEW z \in Data, NEW n, Core(x, n),
         NEW S \in SUBSET Resources,
         \A r \in S : ReadyFacts(x, r, NewOp(x, r)) /\ n[Home[r]] = "RUNNING",
         z.connected = x.connected, QueuesGrow(x, z, S)
  PROVE  /\ \A a \in Assemblies : QueueInv(z, a)
         /\ \A p \in OpId : InFlight(z, p) <=> InFlight(x, p) \/ p \in SentBy(x, S)
<1>1. \A o \in SentBy(x, S) :
        o \in OpId /\ ~InFlight(x, o) /\ n[Home[o[1]]] = "RUNNING"
  BY Zenon DEF SentBy, ReadyFacts
<1>2. ASSUME NEW a \in Assemblies
      PROVE  /\ Range(z.queue[a]) = Range(x.queue[a])
                                     \cup {o \in SentBy(x, S) : Home[o[1]] = a}
             /\ IsInjective(z.queue[a])
  <2> DEFINE T == {o \in SentBy(x, S) : Home[o[1]] = a}
  <2>1. PICK t \in Seq(OpId) :
          z.queue[a] = x.queue[a] \o t /\ IsInjective(t) /\ Range(t) = T
    BY <1>2, Zenon DEF QueuesGrow
  <2>2. x.queue[a] \in Seq(OpId) /\ IsInjective(x.queue[a])
    BY <1>2, FieldTypes, Zenon DEF Core, QueueInv
  <2>3. Range(x.queue[a]) \cap T = {}
    BY <1>1, Zenon DEF InFlight
  <2> HIDE DEF T
  <2>4. /\ Range(x.queue[a] \o t) = Range(x.queue[a]) \cup Range(t)
        /\ IsInjective(x.queue[a] \o t)
    BY <2>1, <2>2, <2>3, RangeConcat, SMTT(30)
  <2> QED
    BY <2>1, <2>4, Zenon DEF T
<1>3. ASSUME NEW a \in Assemblies PROVE QueueInv(z, a)
  <2>1. QueueInv(x, a)
    BY <1>3, Zenon DEF Core
  <2>2. \A o \in Range(z.queue[a]) : Home[o[1]] = a
    BY <1>2, <1>3, <2>1, Zenon DEF QueueInv
  <2>3. ASSUME z.queue[a] # <<>> PROVE a \in z.connected
    <3>1. z.queue[a] \in Seq(OpId) /\ x.queue[a] \in Seq(OpId)
      BY <1>3, FieldTypes, Zenon
    <3>2. PICK o : o \in Range(z.queue[a])
      BY <2>3, <3>1, RangeEmpty, Zenon
    <3>3. CASE o \in Range(x.queue[a])
      BY <2>1, <3>1, <3>3, RangeEmpty, Zenon DEF QueueInv
    <3>4. CASE o \in SentBy(x, S) /\ Home[o[1]] = a
      BY <1>1, <1>3, <3>4, Zenon DEF Core
    <3> QED
      BY <1>2, <1>3, <3>2, <3>3, <3>4, Zenon
  <2> QED
    BY <1>2, <1>3, <2>2, <2>3, Zenon DEF QueueInv
<1>4. ASSUME NEW p \in OpId
      PROVE  InFlight(z, p) <=> InFlight(x, p) \/ p \in SentBy(x, S)
  <2>1. Home[p[1]] \in Assemblies
    BY <1>4, OpIdFacts, Zenon
  <2> QED
    BY <1>2, <2>1, Zenon DEF InFlight
<1> QED
  BY <1>3, <1>4, Zenon

\* A fired resource is in order: its operation is the one that its plan waits
\* for, and has the references that it needs.
LEMMA FiredRes ==
  ASSUME NEW x \in Data, NEW n, Core(x, n), Counted(x),
         NEW S, NEW r \in S, ReadyFacts(x, r, NewOp(x, r)),
         NEW z \in Data, Merges(x, z, S),
         \A p \in OpId : InFlight(z, p) <=> InFlight(x, p) \/ p \in SentBy(x, S)
  PROVE  /\ ResInv(z, r) /\ PlanInv(z, n, r)
         /\ \A p \in OpId : p[1] = r => OpInv(z, p) /\ z.refs[p] >= Holders(z, p)
<1> DEFINE o == NewOp(x, r)
           m == x.monitor_op[r]
           step == Head(x.todo[r])
<1>1. /\ r \in Resources /\ x.todo[r] \in Plans \ {<<>>} /\ x.busy
      /\ o \in OpId /\ o[1] = r /\ x.refs[o] = 0 /\ m # o
      /\ \A p \in OpId : p[1] = r => ~InFlight(x, p) /\ p \notin x.timers
      /\ m # None => m \in OpId /\ m[1] = r
      /\ ~StopFailed(x.history[r])
      /\ step = "monitor" => ~HardError(x.history[r])
  BY DEF ReadyFacts
<1>2. /\ z.fired[r]
      /\ z.monitor_op[r] = IF step = "monitor" THEN o
                           ELSE IF step = "stop" THEN None ELSE m
      /\ z.op[o].step = step /\ z.op[o].times = 0 /\ z.op[o].current
      /\ z.refs[o] = IF step = "monitor" THEN 3 ELSE 2
      /\ \A p \in OpId : p[1] = r /\ p # o =>
           IF step = "stop" /\ p = m THEN z.refs[p] = x.refs[p] - 1
           ELSE z.refs[p] = x.refs[p] /\ z.op[p] = x.op[p]
  BY Zenon DEF Merges, Fires
<1>3. /\ z.monitor_timer = x.monitor_timer
      /\ z.history = x.history /\ z.last = x.last
      /\ z.connected = x.connected
      /\ z.busy = x.busy /\ z.abort = x.abort /\ z.jobs = x.jobs
      /\ z.timers = x.timers /\ z.todo = x.todo
  BY DEF Merges, SameHistory
<1>4. \A p \in OpId : p[1] = r => (InFlight(z, p) <=> p = o)
  BY <1>1, Zenon DEF SentBy
<1> HIDE DEF o
<1>5. ResInv(x, r) /\ PlanInv(x, n, r)
  BY <1>1, Zenon DEF Core
<1>6. ResInv(z, r)
  <2>1. z.monitor_op[r] # None =>
          z.monitor_op[r][1] = r /\ z.op[z.monitor_op[r]].step = "monitor"
    <3>1. CASE step = "monitor"
      BY <1>1, <1>2, <3>1, Zenon
    <3>2. CASE step = "stop"
      BY <1>2, <3>2
    <3>3. CASE step \notin {"monitor", "stop"}
      <4>1. m # None => m[1] = r /\ x.op[m].step = "monitor"
        BY <1>5, Zenon DEF ResInv
      <4>2. m # None => z.op[m] = x.op[m]
        BY <1>1, <1>2, <3>3, Zenon
      <4> QED
        BY <1>2, <3>3, <4>1, <4>2, Zenon
    <3> QED
      BY <3>1, <3>2, <3>3
  <2> QED
    BY <1>1, <1>3, <1>5, <2>1, Zenon DEF ResInv
<1>7. PlanInv(z, n, r)
  BY <1>3, <1>5 DEF PlanInv
<1>8. ASSUME NEW p \in OpId, p[1] = r PROVE OpInv(z, p)
  <2> SUFFICES ASSUME Active(z, p) PROVE OpInv(z, p)
    BY Zenon DEF OpInv
  <2>1. p = o /\ p \notin z.timers
    BY <1>1, <1>3, <1>4, <1>8 DEF Active
  <2>2. Fresh(z, o)
    BY <1>1, <1>2, <1>3, Zenon DEF Fresh
  <2>3. z.op[o].step = "monitor" =>
          z.monitor_op[r] = o /\ ~HardError(z.history[r])
    BY <1>1, <1>2, <1>3, Zenon
  <2>4. \A e \in OpId : Active(z, e) /\ e[1] = r => e = o
    BY <1>1, <1>3, <1>4, Zenon DEF Active
  <2> QED
    BY <1>1, <2>1, <2>2, <2>3, <2>4, Zenon DEF OpInv
<1>9. ASSUME NEW p \in OpId, p[1] = r PROVE z.refs[p] >= Holders(z, p)
  <2>1. CASE p = o
    <3>1. InFlight(z, o) /\ o \notin z.timers
      BY <1>1, <1>3, <1>4, Zenon
    <3>2. Holders(z, o) = (IF z.monitor_op[r] = o THEN 1 ELSE 0) + 2
      BY <1>1, <3>1 DEF Holders
    <3>3. step # "monitor" => z.monitor_op[r] # o
      BY <1>1, <1>2, OpIdFacts, SMTT(30)
    <3> QED
      BY <1>2, <2>1, <3>2, <3>3, SMTT(30)
  <2>2. CASE p # o
    <3>1. /\ ~InFlight(z, p) /\ p \notin z.timers
          /\ ~InFlight(x, p) /\ p \notin x.timers
      BY <1>1, <1>3, <1>4, <1>9, <2>2, Zenon
    <3>2. /\ Holders(z, p) = IF z.monitor_op[r] = p THEN 1 ELSE 0
          /\ Holders(x, p) = IF m = p THEN 1 ELSE 0
      BY <1>9, <3>1, SMTT(30) DEF Holders
    <3>3. x.refs[p] \in Int /\ x.refs[p] >= Holders(x, p)
      BY FieldTypes, Zenon DEF Counted
    <3>4. p # None
      BY OpIdFacts
    <3> QED
      BY <1>2, <1>9, <2>2, <3>2, <3>3, <3>4, SMTT(30)
  <2> QED
    BY <2>1, <2>2, Zenon
<1> QED
  BY <1>6, <1>7, <1>8, <1>9, Zenon

\* Firing on RUNNING assemblies preserves the invariant.
LEMMA FireOnlineKeeps ==
  ASSUME NEW x, IInv(x, node), NEW S \in SUBSET Resources,
         \A r \in S : Fireable(x, r) /\ node[Home[r]] = "RUNNING",
         NEW answer, NEW z \in fire_online(x, S, answer)
  PROVE  IInv(z, node) /\ Merges(x, z, S) /\ QueuesGrow(x, z, S)
<1>1. x \in Data /\ node \in NodeType /\ Core(x, node) /\ Counted(x)
  BY Zenon DEF IInv
<1>2. z \in Data /\ Merges(x, z, S) /\ QueuesGrow(x, z, S)
  BY <1>1, FireOnlineFields, Zenon
<1>3. \A r \in S : ReadyFacts(x, r, NewOp(x, r)) /\ node[Home[r]] = "RUNNING"
  BY <1>1, ReadyResource, Zenon
<1>4. /\ z.monitor_timer = x.monitor_timer
      /\ z.history = x.history /\ z.last = x.last
      /\ z.connected = x.connected
      /\ z.busy = x.busy /\ z.abort = x.abort /\ z.jobs = x.jobs
      /\ z.timers = x.timers /\ z.todo = x.todo
      /\ \A r \in Resources \ S : SameFields(x, z, r)
      /\ \A p \in OpId : p[1] \notin S => SameOp(x, z, p)
  BY <1>2 DEF Merges, SameHistory
<1>5. /\ \A a \in Assemblies : QueueInv(z, a)
      /\ \A p \in OpId : InFlight(z, p) <=> InFlight(x, p) \/ p \in SentBy(x, S)
  BY <1>1, <1>2, <1>3, <1>4, QueuesGrown, Zenon
<1>6. ASSUME NEW r \in S
      PROVE  /\ ResInv(z, r) /\ PlanInv(z, node, r)
             /\ \A p \in OpId : p[1] = r =>
                  OpInv(z, p) /\ z.refs[p] >= Holders(z, p)
  BY <1>1, <1>2, <1>3, <1>5, <1>6, FiredRes, Zenon
<1>7. \A r \in Resources \ S : SameRes(x, z, r)
  BY <1>4, Zenon DEF SameRes, SameFields
<1>8. ASSUME NEW r \in Resources \ S PROVE ResInv(z, r) /\ PlanInv(z, node, r)
  <2>1. SameRes(x, z, r) /\ ResInv(x, r) /\ PlanInv(x, node, r)
    BY <1>1, <1>7 DEF Core
  <2>2. x.monitor_op[r] # None =>
          x.monitor_op[r] \in OpId /\ x.monitor_op[r][1] = r
    BY <1>1, <2>1, MonitorOwn, Zenon
  <2>3. x.monitor_op[r] # None => z.op[x.monitor_op[r]] = x.op[x.monitor_op[r]]
    BY <1>4, <2>2, Zenon DEF SameOp
  <2> QED
    BY <1>4, <2>1, <2>3, ResKept, Zenon
<1>9. ASSUME NEW p \in OpId, p[1] \notin S
      PROVE  OpInv(z, p) /\ z.refs[p] >= Holders(z, p)
  <2>1. SameRes(x, z, p[1]) /\ SameOp(x, z, p)
    BY <1>4, <1>7, <1>9, OpIdFacts, Zenon
  <2>2. \A e \in OpId \cup {p} : e[1] = p[1] =>
          (InFlight(z, e) => InFlight(x, e)) /\ (e \in z.timers => e \in x.timers)
    BY <1>4, <1>5, <1>9 DEF SentBy
  <2>3. OpInv(x, p)
    BY <1>1, Zenon DEF Core
  <2>4. OpInv(z, p)
    BY <1>4, <2>1, <2>2, <2>3, OpKept, Zenon DEF SameOp
  <2>5. x.refs[p] \in Int /\ x.refs[p] >= Holders(x, p)
    BY <1>1, FieldTypes, Zenon DEF Counted
  <2>6. z.refs[p] >= Holders(z, p)
    BY <1>4, <2>1, <2>2, <2>5, SMTT(30) DEF Holders, SameOp, SameRes
  <2> QED
    BY <2>4, <2>6, Zenon
<1>10. /\ \A p \in OpId : OpInv(z, p) /\ z.refs[p] >= Holders(z, p)
       /\ \A r \in Resources : ResInv(z, r) /\ PlanInv(z, node, r)
  BY <1>6, <1>8, <1>9
<1>11. Core(z, node)
  BY <1>1, <1>4, <1>5, <1>10, Zenon DEF Core
<1> QED
  BY <1>1, <1>2, <1>10, <1>11, Zenon DEF IInv, Counted

\* Making the operation preserves the invariant, and it can end at once.
LEMMA MadeKeeps ==
  ASSUME NEW x \in Data, NEW n \in NodeType, Core(x, n), Counted(x),
         NEW r, NEW o, ReadyFacts(x, r, o), NEW y \in Data, Makes(x, y, r, o)
  PROVE  /\ Core(y, n) /\ Ending(y, o) /\ Completable(y, o) /\ ~Active(y, o)
         /\ y.monitor_op[r] # o
         /\ \A p \in OpId \ {o} : y.refs[p] >= Holders(y, p)
         /\ y.refs[o] >= Holders(y, o) + 1
<1>1. /\ r \in Resources /\ x.todo[r] \in Plans \ {<<>>} /\ x.busy
      /\ o \in OpId /\ o[1] = r /\ x.monitor_op[r] # o
      /\ \A p \in OpId : p[1] = r => ~InFlight(x, p) /\ p \notin x.timers
      /\ ~StopFailed(x.history[r])
      /\ Head(x.todo[r]) = "monitor" => ~HardError(x.history[r])
  BY Zenon DEF ReadyFacts
<1>2. /\ y.monitor_op = x.monitor_op /\ y.monitor_timer = x.monitor_timer
      /\ y.history = x.history /\ y.last = x.last
      /\ y.queue = x.queue /\ y.connected = x.connected
      /\ y.busy = x.busy /\ y.abort = x.abort /\ y.todo = x.todo
      /\ y.jobs = x.jobs /\ y.timers = x.timers
      /\ y.fired[r] /\ \A q \in Resources \ {r} : y.fired[q] = x.fired[q]
      /\ y.op[o].step = Head(x.todo[r]) /\ y.op[o].times = 0 /\ y.op[o].current
      /\ y.refs[o] = 1
      /\ \A p \in OpId \ {o} : y.op[p] = x.op[p] /\ y.refs[p] = x.refs[p]
  BY DEF Makes, SameMonitors, SameHistory, SameLinks
<1>3. \A p : InFlight(y, p) <=> InFlight(x, p)
  BY <1>2, Zenon DEF InFlight
<1>4. \A q \in Resources \ {r} : SameRes(x, y, q)
  BY <1>2, Zenon DEF SameRes
<1>5. \A p \in OpId : p[1] = r => ~Active(y, p)
  BY <1>1, <1>2, <1>3, Zenon DEF Active
<1>6. ASSUME NEW p \in OpId PROVE OpInv(y, p)
  <2>1. CASE p[1] = r
    BY <1>5, <2>1 DEF OpInv
  <2>2. CASE p[1] # r
    <3>1. SameRes(x, y, p[1]) /\ y.op[p] = x.op[p]
      BY <1>1, <1>2, <1>4, <2>2, OpIdFacts, Zenon
    <3>2. \A e \in OpId \cup {p} : e[1] = p[1] =>
            (InFlight(y, e) => InFlight(x, e)) /\ (e \in y.timers => e \in x.timers)
      BY <1>2, <1>3, Zenon
    <3>3. OpInv(x, p)
      BY Zenon DEF Core
    <3> QED
      BY <1>2, <3>1, <3>2, <3>3, OpKept, Zenon
  <2> QED
    BY <2>1, <2>2, Zenon
<1>7. ASSUME NEW q \in Resources PROVE ResInv(y, q) /\ PlanInv(y, n, q)
  <2>1. ResInv(x, q) /\ PlanInv(x, n, q)
    BY Zenon DEF Core
  <2>2. x.monitor_op[q] # None =>
          x.monitor_op[q] \in OpId /\ x.monitor_op[q][1] = q
          /\ x.op[x.monitor_op[q]].step = "monitor"
    BY <2>1, MonitorOwn, Zenon
  <2>3. x.monitor_op[q] # None => y.op[x.monitor_op[q]] = x.op[x.monitor_op[q]]
    BY <1>1, <1>2, <2>2, SMTT(30)
  <2>4. PlanInv(y, n, q)
    BY <1>2, <2>1, Zenon DEF PlanInv
  <2>5. CASE q = r
    <3>1. /\ y.fired[q] => y.busy /\ y.todo[q] # <<>>
          /\ ~y.busy => y.todo[q] = <<>>
          /\ StopFailed(y.history[q]) =>
               /\ y.last[q] = "stop" /\ ~y.fired[q]
               /\ y.busy /\ ~y.abort => y.todo[q] = <<>>
      BY <1>1, <1>2, <2>1, <2>5, ZenonT(30) DEF ResInv
    <3>2. y.monitor_op[q] # None =>
            y.monitor_op[q][1] = q /\ y.op[y.monitor_op[q]].step = "monitor"
      <4>1. y.monitor_op[q] = x.monitor_op[q]
        BY <1>2, Zenon
      <4> QED
        BY <2>2, <2>3, <4>1
    <3>3. /\ y.monitor_timer[q] # None => y.monitor_timer[q][1] = q
          /\ y.last[q] = "none" => y.history[q] = NoHistory
          /\ HardError(y.history[q]) /\ y.busy /\ ~y.abort =>
               y.todo[q] \in {<<>>, <<"stop">>}
      BY <1>2, <2>1, Zenon DEF ResInv
    <3> QED
      BY <2>4, <3>1, <3>2, <3>3, Zenon DEF ResInv
  <2>6. CASE q # r
    <3>1. SameRes(x, y, q)
      BY <1>4, <2>6, Zenon
    <3> QED
      BY <1>2, <2>1, <2>3, <3>1, ResKept, SMTT(30)
  <2> QED
    BY <2>5, <2>6, Zenon
<1>8. Core(y, n)
  BY <1>2, <1>6, <1>7, SMTT(30) DEF Core, QueueInv
<1>9. Ending(y, o)
  <2>1. Fresh(y, o)
    BY <1>1, <1>2, Zenon DEF Fresh
  <2> QED
    BY <1>1, <1>2, <1>5, <2>1, Zenon DEF Ending
<1>10. ~Active(y, o)
  BY <1>1, <1>5, Zenon
<1>11. \A p \in OpId \ {o} : y.refs[p] >= Holders(y, p)
  <2> TAKE p \in OpId \ {o}
  <2>1. Holders(y, p) = Holders(x, p) /\ y.refs[p] = x.refs[p]
    BY <1>2, <1>3, Zenon DEF Holders
  <2> QED
    BY <2>1, Zenon DEF Counted
<1>12. y.refs[o] >= Holders(y, o) + 1
  <2>1. Holders(y, o) = 0
    BY <1>1, <1>2, <1>10, SMTT(30) DEF Holders, Active
  <2> QED
    BY <1>2, <2>1, SMTT(30)
<1>13. Completable(y, o)
  BY <1>1, <1>9, EndingCompletable, Zenon
<1> QED
  BY <1>1, <1>2, <1>8, <1>9, <1>10, <1>11, <1>12, <1>13, Zenon

\* An action for an assembly that is not RUNNING ends with an error.
LEMMA FireOfflineKeeps ==
  ASSUME NEW x, IInv(x, node), NEW r, Fireable(x, r),
         node[Home[r]] # "RUNNING", NEW answer,
         NEW y, y = resource_execute_cb(x, r, answer)
  PROVE  /\ IInv(y, node) /\ SameLinks(x, y)
         /\ \E k \in Step : Recorded(x, y, r, k, "UNKNOWN_ERROR")
<1> DEFINE o == NewOp(x, r)
           z == made(x, r, o)
           rc == "UNKNOWN_ERROR"
<1>1. x \in Data /\ node \in NodeType /\ Core(x, node) /\ Counted(x)
  BY Zenon DEF IInv
<1>2. ReadyFacts(x, r, o)
  BY <1>1, ReadyResource
<1>3. y = resource_action_completed(z, o, rc, answer)
  BY Zenon DEF resource_execute_cb, made
<1>4. rc \in Codes /\ ~Rearmed(z, o, rc)
  BY Zenon DEF Codes, Rearmed, target_outcome
<1> HIDE DEF o, z, rc
<1>5. z \in Data /\ Makes(x, z, r, o)
  BY <1>1, <1>2, MadeFields DEF z
<1>6. o \in OpId /\ o[1] = r /\ r \in Resources
  BY <1>2, Zenon DEF ReadyFacts
<1>7. /\ Core(z, node) /\ Ending(z, o) /\ Completable(z, o) /\ ~Active(z, o)
      /\ z.monitor_op[o[1]] # o
      /\ \A p \in OpId \ {o} : z.refs[p] >= Holders(z, p)
      /\ z.refs[o] >= Holders(z, o) + 1
  BY <1>1, <1>2, <1>5, <1>6, MadeKeeps, Zenon
<1>8. y \in Data /\ Core(y, node)
  BY <1>1, <1>3, <1>4, <1>5, <1>6, <1>7, CompletedCore, Zenon
<1>9. Counted(y)
  <2>1. /\ \A p \in OpId \ {o} : y.refs[p] >= Holders(y, p)
        /\ y.refs[o] - Holders(y, o) >= z.refs[o] - Holders(z, o) - 1
    BY <1>3, <1>4, <1>5, <1>6, <1>7, CompletedCounted, Zenon
  <2>2. Holders(y, o) \in Int /\ Holders(z, o) \in Int
    BY SMTT(30) DEF Holders
  <2>3. z.refs[o] \in Int /\ y.refs[o] \in Int
    BY <1>5, <1>6, <1>8, FieldTypes, Zenon
  <2>4. y.refs[o] >= Holders(y, o)
    BY <1>7, <2>1, <2>2, <2>3, SMTT(30)
  <2> QED
    BY <2>1, <2>4, Zenon DEF Counted
<1>10. Completes(z, y, o, rc)
  BY <1>3, <1>4, <1>5, <1>6, <1>7, CompletedFields, Zenon
<1>11. SameLinks(x, y)
  BY <1>5, <1>10, Zenon DEF Makes, Completes, SameLinks
<1>12. \E k \in Step : Recorded(x, y, r, k, rc)
  <2>1. Recorded(z, y, o[1], z.op[o].step, rc)
    BY <1>10, Zenon DEF Completes, Recorded
  <2>2. z.history = x.history /\ z.last = x.last
    BY <1>5, Zenon DEF Makes, SameHistory
  <2>3. z.op[o].step \in Step
    BY <1>7, Zenon DEF Completable
  <2>4. Recorded(x, y, r, z.op[o].step, rc)
    BY <1>6, <2>1, <2>2, Zenon DEF Recorded
  <2> QED
    BY <2>3, <2>4
<1> QED
  BY <1>1, <1>8, <1>9, <1>11, <1>12, Zenon DEF IInv, rc

\* What the policy engine may see of a firing: nothing, or one error.
ErrorAtMost(x, y) ==
  \/ SameHistory(x, y)
  \/ \E r \in Resources, k \in Step : Recorded(x, y, r, k, "UNKNOWN_ERROR")

\* A resource that was not fired can still be.
LEMMA StillFireable ==
  ASSUME NEW x \in Data, NEW z \in Data, NEW n, Core(x, n),
         NEW S \in SUBSET Resources, Merges(x, z, S),
         \A p \in OpId : InFlight(z, p) <=> InFlight(x, p) \/ p \in SentBy(x, S),
         NEW r \in Resources \ S, Fireable(x, r)
  PROVE  Fireable(z, r)
<1>1. /\ x.todo[r] # <<>> /\ ~x.fired[r] /\ ~x.abort
      /\ \E o \in {r} \X (1 .. MaxOps) : Unused(x, o)
  BY Zenon DEF Fireable, Ready, Allocatable
<1>2. z.todo[r] # <<>> /\ ~z.fired[r] /\ ~z.abort
  BY <1>1, Zenon DEF Merges, SameFields
<1>3. ASSUME NEW o \in {r} \X (1 .. MaxOps), Unused(x, o) PROVE Unused(z, o)
  <2>1. o \in OpId /\ o[1] = r
    BY <1>3 DEF OpId
  <2>2. SameOp(x, z, o) /\ z.monitor_op[r] = x.monitor_op[r]
    BY <2>1, Zenon DEF Merges, SameFields
  <2>3. InFlight(z, o) <=> InFlight(x, o)
    BY <2>1, Zenon DEF SentBy
  <2>4. Holders(z, o) = Holders(x, o)
    BY <2>1, <2>2, <2>3 DEF Holders, SameOp
  <2> QED
    BY <1>3, <2>2, <2>4, Zenon DEF Unused, SameOp
<1> QED
  BY <1>1, <1>2, <1>3 DEF Fireable, Ready, Allocatable

\* run_graph preserves the invariant.
LEMMA RunGraphKeeps ==
  ASSUME NEW x, IInv(x, node), \A r \in Ready(x) : Allocatable(x, r),
         NEW answer, NEW y \in run_graph(x, answer)
  PROVE  /\ IInv(y, node) /\ ErrorAtMost(x, y)
         /\ y.connected = x.connected /\ y.process = x.process
         /\ \E S \in SUBSET Resources : QueuesGrow(x, y, S)
         /\ x.abort \/ Ready(x) = {} => Merges(x, y, {})
<1> DEFINE ready == IF x.abort THEN {} ELSE Ready(x)
           offline == {r \in ready : node[Home[r]] # "RUNNING"}
<1>1. ready \in SUBSET Resources /\ \A r \in ready : Fireable(x, r)
  BY DEF Ready, Fireable
<1>2. x.abort \/ Ready(x) = {} => ready = {}
  OBVIOUS
<1>3. y \in IF offline = {} THEN fire_online(x, ready, answer)
            ELSE UNION {{resource_execute_cb(z, r, answer) :
                           z \in fire_online(x, S, answer)} :
                         S \in SUBSET (ready \ offline), r \in offline}
  BY SMTT(30) DEF run_graph
<1> HIDE DEF ready
<1>4. ASSUME NEW S \in SUBSET (ready \ offline),
             NEW z \in fire_online(x, S, answer)
      PROVE  IInv(z, node) /\ Merges(x, z, S) /\ QueuesGrow(x, z, S)
  <2>1. S \in SUBSET Resources
        /\ \A r \in S : Fireable(x, r) /\ node[Home[r]] = "RUNNING"
    BY <1>1, Zenon
  <2> QED
    BY <2>1, FireOnlineKeeps, Zenon
<1>5. CASE offline = {}
  <2>1. y \in fire_online(x, ready, answer) /\ ready \in SUBSET (ready \ offline)
    BY <1>3, <1>5, SMTT(30)
  <2>2. IInv(y, node) /\ Merges(x, y, ready) /\ QueuesGrow(x, y, ready)
    BY <1>4, <2>1, Zenon
  <2>3. SameHistory(x, y) /\ y.connected = x.connected /\ y.process = x.process
    BY <2>2 DEF Merges
  <2> QED
    BY <1>1, <1>2, <2>2, <2>3, Zenon DEF ErrorAtMost
<1>6. CASE offline # {}
  <2>0. PICK S \in SUBSET (ready \ offline), r \in offline :
          \E z \in fire_online(x, S, answer) : y = resource_execute_cb(z, r, answer)
    BY <1>3, <1>6, SMTT(30)
  <2>1. PICK z \in fire_online(x, S, answer) :
          y = resource_execute_cb(z, r, answer)
    BY <2>0, Zenon
  <2>2. IInv(z, node) /\ Merges(x, z, S) /\ QueuesGrow(x, z, S)
    BY <1>4, <2>1
  <2>3. /\ S \in SUBSET Resources /\ r \in Resources \ S /\ Fireable(x, r)
        /\ node[Home[r]] # "RUNNING"
        /\ \A q \in S : Fireable(x, q) /\ node[Home[q]] = "RUNNING"
    BY <1>1, Zenon
  <2>4. x \in Data /\ Core(x, node) /\ z \in Data
    BY <2>2 DEF IInv
  <2>5. \A p \in OpId : InFlight(z, p) <=> InFlight(x, p) \/ p \in SentBy(x, S)
    <3>1. \A q \in S : ReadyFacts(x, q, NewOp(x, q)) /\ node[Home[q]] = "RUNNING"
      BY <2>3, <2>4, ReadyResource, Zenon
    <3>2. z.connected = x.connected
      BY <2>2, Zenon DEF Merges
    <3> QED
      BY <2>2, <2>3, <2>4, <3>1, <3>2, QueuesGrown, Zenon
  <2>6. Fireable(z, r)
    BY <2>2, <2>3, <2>4, <2>5, StillFireable, Zenon
  <2>7. /\ IInv(y, node) /\ SameLinks(z, y)
        /\ \E k \in Step : Recorded(z, y, r, k, "UNKNOWN_ERROR")
    BY <2>1, <2>2, <2>3, <2>6, FireOfflineKeeps, Zenon
  <2>8. ErrorAtMost(x, y)
    <3>1. z.history = x.history /\ z.last = x.last
      BY <2>2, Zenon DEF Merges, SameHistory
    <3>2. PICK k \in Step : Recorded(z, y, r, k, "UNKNOWN_ERROR")
      BY <2>7, Zenon
    <3>3. Recorded(x, y, r, k, "UNKNOWN_ERROR")
      BY <3>1, <3>2 DEF Recorded
    <3> QED
      BY <2>3, <3>3, Zenon DEF ErrorAtMost
  <2>9. QueuesGrow(x, y, S)
    BY <2>2, <2>7, Zenon DEF QueuesGrow, SameLinks
  <2>10. y.connected = x.connected /\ y.process = x.process
    BY <2>2, <2>7, Zenon DEF Merges, SameLinks
  <2>11. ready # {}
    BY <1>6, Zenon
  <2> QED
    BY <1>2, <2>3, <2>7, <2>8, <2>9, <2>10, <2>11, Zenon
<1> QED
  BY <1>5, <1>6, Zenon

\* process_next_job looks at its graph again when probes are to be answered.
taken_up(x) == [x EXCEPT !.updated = ~x.abort /\ x.probes # {}, !.probes = {}]

\* That concerns nothing the invariant is about.
LEMMA TakenUp ==
  ASSUME NEW x, NEW n, IInv(x, n), NEW y, y = taken_up(x)
  PROVE  /\ IInv(y, n) /\ SameOps(x, y) /\ SameMonitors(x, y)
         /\ SameHistory(x, y) /\ SameLinks(x, y) /\ SameGraph(x, y)
         /\ y.timers = x.timers /\ y.jobs = x.jobs /\ Ready(y) = Ready(x)
         /\ \A r \in Resources : Allocatable(x, r) => Allocatable(y, r)
<1>1. x \in Data /\ n \in NodeType /\ Core(x, n) /\ Counted(x)
  BY DEF IInv
<1>2. /\ y \in Data /\ SameOps(x, y) /\ SameMonitors(x, y)
      /\ SameHistory(x, y) /\ SameLinks(x, y) /\ SameGraph(x, y)
      /\ y.timers = x.timers /\ y.jobs = x.jobs
  <2> DEFINE b == ~x.abort /\ x.probes # {}
  <2>1. b \in BOOLEAN /\ {} \in LinksType
    BY DEF LinksType
  <2>2. y = [x EXCEPT !.updated = b, !.probes = {}]
    BY DEF taken_up
  <2> HIDE DEF b
  <2>3. y \in Data
    BY <1>1, <2>1, <2>2, ZenonT(30) DEF Data
  <2> QED
    BY <1>1, <2>1, <2>2, <2>3
    DEF Data, SameOps, SameMonitors, SameHistory, SameLinks, SameGraph
<1>3. Shrunk(x, y)
  BY <1>1, <1>2, Unshrunk DEF SameLinks
<1>4. \A a \in Assemblies : n[a] = "RUNNING" =>
        a \in y.connected /\ (n[a] = "RUNNING" \/ y.jobs > 0)
  BY <1>1, <1>2, Zenon DEF Core, SameLinks
<1>5. Core(y, n)
  BY <1>1, <1>2, <1>3, <1>4, KeptCore, Zenon DEF SameOps, SameLinks
<1>6. Counted(y)
  BY <1>1, <1>2, <1>3, KeptCounted, Zenon DEF SameOps, SameMonitors
<1>7. Ready(y) = Ready(x)
  BY <1>2, Zenon DEF Ready, SameGraph
<1>8. \A o : Unused(x, o) => Unused(y, o)
  BY <1>2, Zenon DEF Unused, Holders, InFlight, SameOps, SameMonitors, SameLinks
<1> QED
  BY <1>1, <1>2, <1>5, <1>6, <1>7, <1>8 DEF IInv, Allocatable

\* The end of a transition preserves the invariant: what its plan asked for is
\* done, or a process_job is left because it was aborted.
LEMMA EndKeeps ==
  ASSUME NEW x, NEW n, IInv(x, n), \A r \in Resources : ~x.fired[r],
         x.abort \/ Ready(x) = {}, NEW y, y = transition_end(x)
  PROVE  IInv(y, n) /\ SameHistory(x, y) /\ SameLinks(x, y)
<1> DEFINE d == [r \in Resources |-> <<>>]
           g == [o \in OpId |-> [x.op[o] EXCEPT !.current = FALSE]]
<1>1. x \in Data /\ n \in NodeType /\ Core(x, n) /\ Counted(x)
  BY DEF IInv
<1>2. y = [x EXCEPT !.busy = FALSE, !.abort = FALSE, !.probes = {},
                    !.todo = d, !.op = g]
  BY Zenon DEF transition_end
<1>3. d \in TodoType /\ \A r \in Resources : d[r] = <<>>
  BY DEF TodoType, Plans
<1>4. /\ g \in OpType
      /\ \A o \in OpId : g[o].step = x.op[o].step /\ g[o].times = x.op[o].times
  <2>1. \A o \in OpId : x.op[o] \in OpRec
    BY <1>1, FieldTypes, Zenon
  <2>2. \A o \in OpId : [x.op[o] EXCEPT !.current = FALSE] \in OpRec
    BY <2>1, Zenon DEF OpRec
  <2> QED
    BY <2>1, <2>2, Zenon DEF OpType, OpRec
<1> HIDE DEF d, g
<1>5. y \in Data
  <2> DEFINE v == [x EXCEPT !.busy = FALSE, !.abort = FALSE, !.probes = {}]
  <2>1. v \in Data
    BY <1>1, Zenon DEF Data, LinksType
  <2>2. y = [v EXCEPT !.todo = d, !.op = g]
    BY <1>1, <1>2 DEF Data
  <2> HIDE DEF v
  <2> QED
    BY <1>3, <1>4, <2>1, <2>2, Zenon DEF Data
<1>6. /\ y.refs = x.refs /\ SameMonitors(x, y) /\ SameHistory(x, y)
      /\ SameLinks(x, y) /\ y.timers = x.timers /\ y.jobs = x.jobs
      /\ y.fired = x.fired /\ y.op = g /\ y.todo = d
      /\ ~y.busy /\ ~y.abort
  BY <1>1, <1>2 DEF Data, SameMonitors, SameHistory, SameLinks
<1>7. /\ y.queue = x.queue /\ y.connected = x.connected
      /\ y.monitor_op = x.monitor_op /\ y.monitor_timer = x.monitor_timer
      /\ y.history = x.history /\ y.last = x.last
  BY <1>6 DEF SameMonitors, SameHistory, SameLinks
<1>8. \A p : /\ InFlight(y, p) <=> InFlight(x, p)
             /\ Active(y, p) <=> Active(x, p)
             /\ Holders(y, p) = Holders(x, p)
  BY <1>6, <1>7, Zenon DEF InFlight, Active, Holders
<1>9. ASSUME NEW p \in OpId PROVE OpInv(y, p)
  <2> SUFFICES ASSUME Active(y, p) PROVE OpInv(y, p)
    BY Zenon DEF OpInv
  <2>1. OpInv(x, p) /\ Active(x, p) /\ p[1] \in Resources
    BY <1>1, <1>8, OpIdFacts, Zenon DEF Core
  <2>2. Settled(x, p)
    BY <2>1 DEF OpInv, Fresh
  <2>3. Settled(y, p)
    BY <1>3, <1>4, <1>6, <1>7, <2>1, <2>2, Zenon DEF Settled
  <2>4. y.op[p].step = x.op[p].step
    BY <1>4, <1>6, Zenon
  <2> QED
    BY <1>6, <1>7, <1>8, <2>1, <2>3, <2>4, Zenon DEF OpInv
<1>10. ASSUME NEW r \in Resources PROVE ResInv(y, r)
  <2>1. ResInv(x, r)
    BY <1>1, Zenon DEF Core
  <2>2. x.monitor_op[r] # None => x.monitor_op[r] \in OpId
    BY <1>1, <2>1, MonitorOwn, Zenon
  <2>3. x.monitor_op[r] # None =>
          y.op[x.monitor_op[r]].step = x.op[x.monitor_op[r]].step
    BY <1>4, <1>6, <2>2
  <2> QED
    BY <1>3, <1>6, <1>7, <2>1, <2>3, Zenon DEF ResInv
<1>11. ASSUME NEW r \in Resources PROVE PlanInv(y, n, r)
  <2>1. PlanInv(x, n, r) /\ (x.abort => x.jobs > 0)
    BY <1>1, Zenon DEF Core
  <2>2. y.jobs = 0 => x.todo[r] = <<>>
    BY <1>6, <2>1, SMTT(30) DEF Ready
  <2>3. y.todo[r] = <<>>
    BY <1>3, <1>6
  <2> QED
    BY <1>6, <1>7, <2>1, <2>2, <2>3, StopAlone, Zenon DEF PlanInv
<1>12. Core(y, n)
  BY <1>1, <1>6, <1>7, <1>9, <1>10, <1>11, Zenon DEF Core, QueueInv
<1>13. Counted(y)
  BY <1>1, <1>6, <1>8, Zenon DEF Counted
<1> QED
  BY <1>1, <1>5, <1>6, <1>12, <1>13 DEF IInv

\* What may become of the queues while a graph runs.
QueuesAfter(x, y) ==
  /\ y.connected = x.connected
  /\ y.queue = x.queue \/ \E S \in SUBSET Resources : QueuesGrow(x, y, S)

\* process_next_job preserves the invariant.
LEMMA NextJobStep ==
  ASSUME IInv(c, node), process_next_job
  PROVE  /\ IInv(c', node') /\ ErrorAtMost(c, c') /\ QueuesAfter(c, c')
         /\ Up /\ c'.process \in {"up", "aborted"}
         /\ c'.process = "aborted" => c'.queue = c.queue
         /\ UNCHANGED <<node, service, faults>>
<1> DEFINE x0 == taken_up(c)
           stale == ~c.abort /\ \E a \in c.probes : node[a] # "RUNNING"
           idle == (c.abort \/ Ready(c) = {}) /\ ~x0.updated
<1>1. /\ Up /\ UNCHANGED <<node, service, faults>>
      /\ \A r \in Ready(c) : Allocatable(c, r)
      /\ \/ \E answer \in ResourceAnswers : \E x1 \in run_graph(x0, answer) :
              c' = IF idle /\ \A r \in Resources : ~c.fired[r]
                   THEN transition_end(x1) ELSE forget_leaked(x1)
         \/ c' = [c EXCEPT !.process = "aborted"]
  BY Zenon DEF process_next_job, taken_up
<1>2. c \in Data /\ node \in NodeType /\ Core(c, node) /\ Counted(c)
  BY DEF IInv
<1>3. CASE c' = [c EXCEPT !.process = "aborted"]
  <2> DEFINE y == c'
  <2>1. y = [c EXCEPT !.process = "aborted"]
    BY <1>3
  <2> HIDE DEF y
  <2>2. /\ y \in Data /\ SameOps(c, y) /\ SameMonitors(c, y)
        /\ SameHistory(c, y) /\ y.queue = c.queue /\ y.connected = c.connected
        /\ SameGraph(c, y) /\ y.timers = c.timers /\ y.jobs = c.jobs
        /\ y.process = "aborted"
    BY <1>2, <2>1, Zenon
    DEF Data, SameOps, SameMonitors, SameHistory, SameGraph, ProcessType
  <2>3. Shrunk(c, y)
    BY <1>2, <2>2, Unshrunk
  <2>4. \A a \in Assemblies : node[a] = "RUNNING" =>
          a \in y.connected /\ (node[a] = "RUNNING" \/ y.jobs > 0)
    BY <1>2, <2>2, Zenon DEF Core
  <2>5. Core(y, node)
    BY <1>2, <2>2, <2>3, <2>4, KeptCore, Zenon DEF SameOps
  <2>6. Counted(y)
    BY <1>2, <2>2, <2>3, KeptCounted, Zenon DEF SameOps, SameMonitors
  <2>7. IInv(y, node) /\ ErrorAtMost(c, y) /\ QueuesAfter(c, y)
    BY <1>2, <2>2, <2>5, <2>6, Zenon DEF IInv, ErrorAtMost, QueuesAfter
  <2> QED
    BY <1>1, <2>2, <2>7 DEF y
<1>4. ASSUME NEW answer \in ResourceAnswers, NEW x1 \in run_graph(x0, answer),
             c' = IF idle /\ \A r \in Resources : ~c.fired[r]
                  THEN transition_end(x1) ELSE forget_leaked(x1)
      PROVE  /\ IInv(c', node) /\ ErrorAtMost(c, c') /\ QueuesAfter(c, c')
             /\ c'.process = c.process
  <2> DEFINE y == c'
  <2>1. y = IF idle /\ \A r \in Resources : ~c.fired[r]
            THEN transition_end(x1) ELSE forget_leaked(x1)
    BY <1>4, Zenon
  <2> HIDE DEF x0, y
  <2>2. /\ IInv(x0, node) /\ SameHistory(c, x0) /\ SameLinks(c, x0)
        /\ SameGraph(c, x0) /\ Ready(x0) = Ready(c)
        /\ \A r \in Resources : Allocatable(c, r) => Allocatable(x0, r)
    BY TakenUp, Zenon DEF x0
  <2>3. \A r \in Ready(x0) : Allocatable(x0, r)
    BY <1>1, <2>2 DEF Ready
  <2>4. /\ IInv(x1, node) /\ ErrorAtMost(x0, x1)
        /\ x1.connected = x0.connected /\ x1.process = x0.process
        /\ \E S \in SUBSET Resources : QueuesGrow(x0, x1, S)
        /\ x0.abort \/ Ready(x0) = {} => Merges(x0, x1, {})
    BY <1>4, <2>2, <2>3, RunGraphKeeps, Zenon
  <2>5. IInv(y, node) /\ SameHistory(x1, y) /\ SameLinks(x1, y)
    <3>1. CASE idle /\ \A r \in Resources : ~c.fired[r]
      <4>1. Merges(x0, x1, {}) /\ (x0.abort \/ Ready(x0) = {})
        BY <2>2, <2>4, <3>1 DEF SameGraph
      <4>2. \A r \in Resources : x1.fired[r] = x0.fired[r]
        BY <4>1, Zenon DEF Merges, SameFields
      <4>3. \A r \in Resources : ~x1.fired[r]
        BY <2>2, <3>1, <4>2, Zenon DEF SameGraph
      <4>4. x1.abort = x0.abort /\ x1.todo = x0.todo
        BY <4>1, Zenon DEF Merges
      <4>5. x1.abort \/ Ready(x1) = {}
        BY <4>1, <4>2, <4>4, Zenon DEF Ready
      <4>6. y = transition_end(x1)
        BY <2>1, <3>1
      <4> QED
        BY <2>4, <4>3, <4>5, <4>6, EndKeeps, Zenon
    <3>2. CASE ~(idle /\ \A r \in Resources : ~c.fired[r])
      <4>1. y = forget_leaked(x1)
        BY <2>1, <3>2
      <4> QED
        BY <2>4, <4>1, ForgetKeeps, Zenon DEF SameLinks
    <3> QED
      BY <3>1, <3>2, Zenon
  <2>6. ErrorAtMost(c, y)
    <3>1. /\ x0.history = c.history /\ x0.last = c.last
          /\ y.history = x1.history /\ y.last = x1.last
      BY <2>2, <2>5, Zenon DEF SameHistory
    <3> QED
      BY <2>4, <3>1, Zenon DEF ErrorAtMost, SameHistory, Recorded
  <2>7. /\ y.connected = c.connected /\ y.process = c.process
        /\ y.queue = x1.queue /\ x0.queue = c.queue
    BY <2>2, <2>4, <2>5, Zenon DEF SameLinks
  <2>8. \E S \in SUBSET Resources : QueuesGrow(c, y, S)
    <3>1. PICK S \in SUBSET Resources : QueuesGrow(x0, x1, S)
      BY <2>4, Zenon
    <3>2. SentBy(x0, S) = SentBy(c, S)
      <4>1. \A o : Unused(x0, o) <=> Unused(c, o)
        <5>1. SameOps(c, x0) /\ SameMonitors(c, x0) /\ x0.timers = c.timers
          BY TakenUp, Zenon DEF x0
        <5> QED
          BY <2>2, <5>1, Zenon
          DEF Unused, Holders, InFlight, SameOps, SameMonitors, SameLinks
      <4>2. \A r : NewOp(x0, r) = NewOp(c, r)
        BY <4>1, Zenon DEF NewOp
      <4> QED
        BY <4>2 DEF SentBy
    <3>3. QueuesGrow(c, y, S)
      BY <2>7, <3>1, <3>2, Zenon DEF QueuesGrow
    <3> QED
      BY <3>3, Zenon
  <2> QED
    BY <2>5, <2>6, <2>7, <2>8, Zenon DEF QueuesAfter, y
<1> QED
  BY <1>1, <1>3, <1>4 DEF Up

=============================================================================

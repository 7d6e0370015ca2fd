------------------------------ MODULE Reconfig ------------------------------
(***************************************************************************)
(* Reference parameters. A parameter of a resource may refer to the        *)
(* address or to the name of another assembly, which is only known once    *)
(* that assembly runs, and changes with every new instance of it. cape     *)
(* writes it into the configuration of the policy engine, which compares   *)
(* the digest of the parameters with the one in the operation history and  *)
(* restarts the resource when they differ.                                 *)
(*                                                                         *)
(* Module Cape has the operations apart, their monitors and their errors.  *)
(* Here an operation is executed and completed in one step, and the        *)
(* history has the entries of start and stop; a digest is the parameter's  *)
(* value itself. The policy engine is Pacemaker, external.                 *)
(***************************************************************************)
EXTENDS Naturals, Sequences

CONSTANTS
  Assemblies,
  Resources,
  Home,        \* the assembly each resource is configured on
  Reference,   \* the assembly its parameter refers to
  Parameter,   \* what of it: "ipaddress" or "hostname"
  Addresses,   \* addresses the cloud gives to instances
  None         \* the empty value

\* What a freed string reads as that has been overwritten.
Garbage == "garbage"

ASSUME ReconfigConstantsOK ==
  /\ Home \in [Resources -> Assemblies]
  /\ Reference \in [Resources -> Assemblies]
  /\ Parameter \in [Resources -> {"ipaddress", "hostname"}]
  /\ None \notin Assemblies \cup Addresses
  /\ Garbage \notin Assemblies \cup Addresses \cup {None}

VARIABLES
  k,        \* the data of the cape process
  service   \* the value each service runs with, if it runs

Down == "down"

Values == Assemblies \cup Addresses \cup {None}

\* An entry of op_history_map. own says that op_digest is a string of the
\* entry's own; otherwise it was the operation's and has been freed with it.
Entry(rc, digest, own) == [rc |-> rc, digest |-> digest, own |-> own]

NoEntry == Entry("none", None, TRUE)

Methods == {"start", "stop"}

\* What a digest may read as: a freed one as before, or as other bytes.
Reads(e) == IF e.own THEN {e.digest} ELSE {e.digest, Garbage}

\* No cape process.
NoCape ==
  [process |-> "none", assembly_map |-> {},
   node |-> [a \in Assemblies |-> "UNKNOWN"],
   address |-> [a \in Assemblies |-> None], connecting |-> {},
   value |-> [r \in Resources |-> None],
   history |-> [r \in Resources |-> [m \in Methods |-> NoEntry]],
   last |-> [r \in Resources |-> "none"], changed |-> {},
   jobs |-> FALSE, todo |-> [r \in Resources |-> "nothing"],
   sent |-> [r \in Resources |-> None]]

\* Giving up after the file was read, in a process that goes on.
cape_load_unfinished(config) == NoCape

\* cape_load: every assembly of the configuration is created, its instance
\* with it, and every resource and reference parameter of it.
cape_load(config) == [NoCape EXCEPT !.process = "up", !.assembly_map = config]

Up == k.process = "up"

Configured(x) == {r \in Resources : Home[r] \in x.assembly_map}

schedule_processing(x) == [x EXCEPT !.jobs = TRUE]

(***************************************************************************)
(* Assemblies come up and fail.                                            *)
(***************************************************************************)

\* The resources with a parameter that refers to assembly a: what
\* resource_add_ref_params has noted in their ref_params_map.
ref_params(x, a) == {r \in Configured(x) : Reference[r] = a}

\* What a parameter of r that refers to an assembly is to hold.
Shown(x, r) ==
  IF Parameter[r] = "hostname" THEN Reference[r] ELSE x.address[Reference[r]]

\* Writing the address only where none has been written yet.
node_update_addr_info_once(x, a) ==
  LET mine == {r \in ref_params(x, a) : x.value[r] = None}
  IN  [x EXCEPT !.value = [r \in Resources |->
                             IF r \in mine THEN Shown(x, r) ELSE x.value[r]]]

\* changed notes the resources whose parameter gets another value while an
\* operation with the old one is planned or recorded.
node_update_addr_info(x, a) ==
  LET mine == ref_params(x, a)
      new == [r \in Resources |-> IF r \in mine THEN Shown(x, r) ELSE x.value[r]]
  IN  [x EXCEPT
        !.value = new,
        !.changed = @ \cup {r \in mine : /\ new[r] # x.value[r]
                                         /\ \/ x.last[r] # "none"
                                            \/ x.todo[r] # "nothing"}]

node_state_change_event(x, a, to) ==
  schedule_processing(
    IF to = "RUNNING" THEN node_update_addr_info(x, a) ELSE x)

\* The instance is ACTIVE and has got an address; the transport connects.
instance_state_completion(a) ==
  /\ Up
  /\ a \in k.assembly_map \ k.connecting
  /\ k.node[a] # "RUNNING"
  /\ \E address \in Addresses :
       k' = [k EXCEPT !.address[a] = address, !.connecting = @ \cup {a}]
  /\ UNCHANGED service

\* recover_state_set(RUNNING), which tells before it sets the state.
node_running(a) ==
  /\ Up
  /\ a \in k.connecting
  /\ k.node[a] # "RUNNING"
  /\ k' = [node_state_change_event(k, a, "RUNNING") EXCEPT !.node[a] = "RUNNING"]
  /\ UNCHANGED service

\* Entries are freed with their digests. Freeing one a second time ends the
\* process, or corrupts memory that nothing here tells apart.
node_op_history_clear(x, a) ==
  LET mine == {r \in Resources : Home[r] = a}
      stale == \E r \in mine, m \in Methods : ~x.history[r][m].own
      y == [x EXCEPT
             !.history = [r \in Resources |->
                            IF r \in mine THEN [m \in Methods |-> NoEntry]
                            ELSE x.history[r]],
             !.last = [r \in Resources |-> IF r \in mine THEN "none" ELSE @[r]],
             !.changed = @ \ {r \in mine : x.todo[r] = "nothing"}]
  IN  {y} \cup (IF stale THEN {[y EXCEPT !.process = "aborted"]} ELSE {})

\* recover_state_set(FAILED) with the answer node_recover_restart: a new
\* instance. (The other answer, node_recover_escalate, is empty.)
node_failed(a) ==
  /\ Up
  /\ k.node[a] = "RUNNING"
  /\ LET x == [node_state_change_event(k, a, "FAILED") EXCEPT
                 !.node[a] = "FAILED", !.connecting = @ \ {a}]
     IN  k' \in node_op_history_clear(x, a)
  /\ service' = [r \in Resources |-> IF Home[r] = a THEN Down ELSE service[r]]

(***************************************************************************)
(* Planning and executing.                                                 *)
(***************************************************************************)

\* A stop that failed leaves the policy engine without a plan.
Blocked(x, r) == x.last[r] = "stop" /\ x.history[r]["stop"].rc # "OK"

\* The plans for resource r: more than one if its start entry's digest, which
\* is compared with that of the parameters, has been freed. To restart is to
\* stop and then to start.
Plans(x, r) ==
  LET e == x.history[r]["start"]
  IN  CASE \/ r \notin Configured(x) \/ x.node[Home[r]] # "RUNNING"
           \/ Blocked(x, r) -> {"nothing"}
        [] ~Blocked(x, r) /\ x.last[r] # "start" -> {"start"}
        [] OTHER -> {IF e.rc = "OK" /\ d = x.value[r] THEN "nothing"
                     ELSE "restart" : d \in Reads(e)}

\* A graph, whose operations carry the parameters of this moment.
Planned(x) ==
  {[x EXCEPT !.jobs = FALSE, !.todo = todo, !.sent = x.value] :
    todo \in {f \in [Resources -> {"nothing", "start", "restart"}] :
                \A r \in Resources : f[r] \in Plans(x, r)}}

\* pe_is_busy_processing
Busy(x) == \E r \in Resources : x.todo[r] # "nothing"

\* Dropping the request for a plan that comes during a transition.
process_job_dropped ==
  /\ Up
  /\ k.jobs
  /\ k' \in IF Busy(k) THEN {[k EXCEPT !.jobs = FALSE]} ELSE Planned(k)
  /\ UNCHANGED service

process_job ==
  /\ Up
  /\ k.jobs
  /\ ~Busy(k)
  /\ k' \in Planned(k)
  /\ UNCHANGED service

\* Pointing at the operation's digest in a new entry as well.
op_history_save_borrowed(x, r, m, rc) ==
  {[x EXCEPT !.history[r][m] = Entry(rc, x.sent[r], FALSE), !.last[r] = m]}

\* The results of saving an operation: a new entry copies the digest; an old
\* one with another digest frees its own and points at the operation's, which
\* is freed when the operation is. The comparison may read a freed string,
\* and what is freed then is freed twice.
op_history_save(x, r, m, rc) ==
  LET e == x.history[r][m]
      digest == x.sent[r]
      Save(new) == [x EXCEPT !.history[r][m] = new, !.last[r] = m]
      pointed == Save(Entry(rc, digest, FALSE))
  IN  IF e.rc = "none" THEN {Save(Entry(rc, digest, TRUE))}
      ELSE (IF digest \in Reads(e) THEN {Save([e EXCEPT !.rc = rc])} ELSE {})
             \cup (IF Reads(e) = {digest} THEN {} ELSE {pointed})
             \cup (IF e.own THEN {} ELSE {[pointed EXCEPT !.process = "aborted"]})

\* The next operation of resource r is executed and completes. An operation
\* for an assembly that has failed since ends in an error, which aborts the
\* graph and asks for a new plan.
resource_action_completed(r) ==
  /\ Up
  /\ k.todo[r] # "nothing"
  /\ LET m == IF k.todo[r] = "start" THEN "start" ELSE "stop"
         online == k.node[Home[r]] = "RUNNING"
         next == IF m = "stop" THEN "start" ELSE "nothing"
         x == [k EXCEPT !.todo = IF online THEN [@ EXCEPT ![r] = next]
                                 ELSE [q \in Resources |-> "nothing"],
                        !.jobs = @ \/ ~online]
     IN  /\ k' \in op_history_save(x, r, m, IF online THEN "OK" ELSE "ERROR")
         /\ service' = IF ~online THEN service
                       ELSE [service EXCEPT ![r] =
                               IF m = "start" THEN k.sent[r] ELSE Down]

(***************************************************************************)
(* Properties                                                              *)
(***************************************************************************)

\* The comment on node_update_addr_info: "find all resources that have an ip
\* or hostname parameter reference and update them." A parameter that refers
\* to a running assembly holds the address of its present instance.
ParamsCurrent ==
  \A r \in Configured(k) :
    k.node[Reference[r]] = "RUNNING" => k.value[r] = Shown(k, r)

\* When the policy engine has nothing left to do, every service whose own
\* assembly and whose referenced assembly run was started with the address of
\* the referenced assembly's present instance, however often either of them
\* was replaced, also in the middle of a transition. (A resource is left out
\* whose stop failed: module Cape shows how that happens.)
ServicesCurrent ==
  Up /\ ~k.jobs /\ ~Busy(k) =>
    \A r \in Configured(k) :
      /\ k.node[Home[r]] = "RUNNING" /\ k.node[Reference[r]] = "RUNNING"
      /\ ~Blocked(k, r)
      => service[r] = Shown(k, r)

\* The history points at a freed digest only if a parameter of the resource
\* changed after an operation with the old value was planned. Without such a
\* change no sequence of failures, restarts and plans makes op_history_save
\* compare with a freed string or node_op_history_clear free one twice.
DigestsSafe ==
  \A r \in Resources \ k.changed, m \in Methods : k.history[r][m].own
=============================================================================

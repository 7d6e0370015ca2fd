----------------------------- MODULE Deployable -----------------------------
(***************************************************************************)
(* The life of a deployable. The shell pcloudsh writes the configuration   *)
(* file and calls the agent cped; cped asks the init system, over D-Bus,   *)
(* to start, stop or reload the unit pcloud-cape-sshd@ of the deployable;  *)
(* the unit runs cape, which loads the file (module Reconfig has what cape *)
(* does with it), and is restarted when it crashes.                        *)
(*                                                                         *)
(* The shell's database is abstracted to what its document may hold when   *)
(* the configuration is written: any set of assemblies. The init system is *)
(* external: systemd, as the unit file in init/ configures it.             *)
(***************************************************************************)
EXTENDS Reconfig, Integers

CONSTANTS
  Configs,      \* sets of assemblies a shell may have in its document
  MaxRequests,  \* bound: requests in cped's queue
  Burst,        \* crashes in a row after which systemd gives up
  MaxInstances  \* bound: instances that come up

ASSUME DeployableConstantsOK ==
  /\ Configs \subseteq SUBSET Assemblies
  /\ MaxRequests \in Nat \ {0} /\ Burst \in Nat \ {0} /\ MaxInstances \in Nat
  /\ None \notin Configs /\ None \notin {"start", "stop", "reload"}

VARIABLES
  file,    \* /var/run/<name>.xml
  cped,    \* the agent: its queue, whether it polls it, and the method it
           \* answered last, if with a success
  unit,    \* the unit: its state, the job that waits, crashes in a row
  spent    \* instances so far

vars == <<k, service, file, cped, unit, spent>>

Requests == {"start", "stop", "reload"}

Init ==
  /\ k = NoCape
  /\ service = [r \in Resources |-> Down]
  /\ file = None
  /\ cped = [queue |-> <<>>, polls |-> TRUE, told |-> None]
  /\ unit = [state |-> "inactive", job |-> None, crashes |-> 0]
  /\ spent = 0

(***************************************************************************)
(* pcloudsh. A call waits for its answer, or gives up while the request    *)
(* stays in the queue; any shell may send the next one.                    *)
(***************************************************************************)

Call(method) ==
  /\ Len(cped.queue) < MaxRequests
  /\ cped' = [cped EXCEPT !.queue = Append(@, method)]
  /\ UNCHANGED <<k, service, unit, spent>>

\* Deployable.start: generate_config and then the call.
deployable_start ==
  /\ file' \in Configs
  /\ Call("start")

deployable_stop == Call("stop") /\ UNCHANGED file

deployable_reload == Call("reload") /\ UNCHANGED file

(***************************************************************************)
(* cped.                                                                   *)
(***************************************************************************)

\* A D-Bus error that is only logged.
init_job_unchecked(method) ==
  {<<[unit EXCEPT !.job = method], 0>>, <<unit, 0>>}

\* The results of _systemd_init_job: the job is queued and replaces one that
\* waits (mode "replace"); or the call fails; or the answer does not come in
\* time although the job is queued.
init_job(method) ==
  LET queued == [unit EXCEPT !.job = method]
  IN  {<<queued, 0>>, <<unit, -5>>, <<queued, -5>>}

\* dep_start, dep_stop and dep_reload return what the init system said.
dep(method) == {<<result[1], -result[2]>> : result \in init_job(method)}

\* The answer: success if rc is 0 and an exception otherwise.
event_dispatch(method, rc) == IF rc = 0 THEN method ELSE None

\* _poll_for_qmf_events takes one event and dispatches it. The function
\* returns no value, so that the loop may take the event source for finished.
poll_for_qmf_events ==
  /\ cped.polls
  /\ cped.queue # <<>>
  /\ \E result \in dep(Head(cped.queue)), polls \in BOOLEAN :
       /\ unit' = result[1]
       /\ cped' = [queue |-> Tail(cped.queue), polls |-> polls,
                   told |-> event_dispatch(Head(cped.queue), result[2])]
  /\ UNCHANGED <<k, service, file, spent>>

(***************************************************************************)
(* The unit and the process. cape handles SIGINT only: SIGTERM, of a stop, *)
(* and SIGHUP, of the unit's ExecReload, end it. systemd takes both for a  *)
(* clean end, after which Restart=on-failure does not apply.               *)
(***************************************************************************)

\* cape creates new instances when it starts, and never asks what runs on the
\* old ones.
services_lost == [r \in Resources |-> Down]

\* main of caped.c: without a readable file it exits with a failure.
cape_main ==
  /\ IF file = None
     THEN /\ k' = NoCape
          /\ unit' = [unit EXCEPT !.job = None, !.state = "restarting",
                                  !.crashes = @ + 1]
     ELSE /\ k' = cape_load(file)
          /\ unit' = [unit EXCEPT !.job = None, !.state = "active"]
  /\ service' = services_lost

cape_killed ==
  /\ k' = NoCape
  /\ service' = services_lost
  /\ unit' = [unit EXCEPT !.job = None,
                          !.state = IF @ = "failed" THEN @ ELSE "inactive"]

JobIgnored == unit' = [unit EXCEPT !.job = None] /\ UNCHANGED <<k, service>>

job_start ==
  /\ unit.job = "start"
  /\ CASE unit.state = "active" -> JobIgnored
       [] unit.state # "active" /\ unit.crashes < Burst -> cape_main
       [] OTHER -> /\ unit' = [unit EXCEPT !.job = None, !.state = "failed"]
                   /\ UNCHANGED <<k, service>>
  /\ UNCHANGED <<file, cped, spent>>

job_stop ==
  /\ unit.job = "stop"
  /\ cape_killed
  /\ UNCHANGED <<file, cped, spent>>

job_reload ==
  /\ unit.job = "reload"
  /\ IF unit.state = "active" THEN cape_killed ELSE JobIgnored
  /\ UNCHANGED <<file, cped, spent>>

\* The process ends otherwise: by a double free, or by any other fault.
cape_crashed ==
  /\ unit.state = "active"
  /\ k' = NoCape
  /\ service' = services_lost
  /\ unit' = [unit EXCEPT !.state = "restarting", !.crashes = @ + 1]
  /\ UNCHANGED <<file, cped, spent>>

\* Restart=on-failure, once no job waits, up to the start limit.
unit_restart ==
  /\ unit.state = "restarting"
  /\ unit.job = None
  /\ IF unit.crashes < Burst THEN cape_main
     ELSE /\ unit' = [unit EXCEPT !.state = "failed"]
          /\ UNCHANGED <<k, service>>
  /\ UNCHANGED <<file, cped, spent>>

\* The start limit's interval has passed without a crash.
limit_expires ==
  /\ unit.crashes > 0
  /\ unit.state # "restarting"
  /\ unit' = [unit EXCEPT !.crashes = 0]
  /\ UNCHANGED <<k, service, file, cped, spent>>

(***************************************************************************)
(* The steps of cape itself.                                               *)
(***************************************************************************)

Outside == UNCHANGED <<file, cped, unit>>

instance_active(a) ==
  /\ spent < MaxInstances
  /\ spent' = spent + 1
  /\ instance_state_completion(a) /\ Outside

node_changes(a) ==
  (node_running(a) \/ node_failed(a)) /\ Outside /\ UNCHANGED spent

plans == process_job /\ Outside /\ UNCHANGED spent

completes(r) == resource_action_completed(r) /\ Outside /\ UNCHANGED spent

Next ==
  \/ deployable_start \/ deployable_stop \/ deployable_reload
  \/ poll_for_qmf_events
  \/ job_start \/ job_stop \/ job_reload
  \/ cape_crashed \/ unit_restart \/ limit_expires
  \/ \E a \in Assemblies : instance_active(a) \/ node_changes(a)
  \/ plans
  \/ \E r \in Resources : completes(r)

Spec == Init /\ [][Next]_vars

\* The loop runs its jobs, and an operation ends.
Fairness == WF_vars(plans) /\ \A r \in Resources : WF_vars(completes(r))

FairSpec == Spec /\ Fairness

(***************************************************************************)
(* Properties                                                              *)
(***************************************************************************)

\* Every variable keeps its type, and there is a process only while the unit
\* is active.
TypeOK ==
  /\ k.process \in {"none", "up", "aborted"}
  /\ k.process # "none" <=> unit.state = "active"
  /\ k.node \in [Assemblies -> {"UNKNOWN", "RUNNING", "FAILED"}]
  /\ k.value \in [Resources -> Values]
  /\ service \in [Resources -> Values \cup {Down}]
  /\ file \in Configs \cup {None}
  /\ cped.queue \in Seq(Requests)
  /\ unit.state \in {"inactive", "active", "restarting", "failed"}
  /\ unit.job \in Requests \cup {None}
  /\ unit.crashes \in 0 .. Burst

\* What cped answers is true of the deployable. After a success for a stop,
\* once no job waits, no cape is left and none will be restarted, whatever
\* was requested, failed or was given up before; after a success for a start
\* the unit has been started.
AnswersHold ==
  unit.job = None =>
    /\ cped.told = "stop" =>
         k.process = "none" /\ unit.state \in {"inactive", "failed"}
    /\ cped.told = "start" => unit.state # "inactive"

\* A service that refers to another assembly gets to know the address of it:
\* while both run, the service is restarted with the present address, after
\* whatever transition was in progress when the address changed.
ReferenceReaches ==
  \A r \in Resources :
    LET Both == /\ Up /\ r \in Configured(k)
                /\ k.node[Home[r]] = "RUNNING" /\ k.node[Reference[r]] = "RUNNING"
                /\ ~Blocked(k, r)
    IN  Both ~> ~Both \/ service[r] = Shown(k, r)
=============================================================================

----------------------------- MODULE Transport -----------------------------
(***************************************************************************)
(* What a transport promises the rest of cape about one assembly (trans.h):*)
(* a node is RUNNING only over a session, operations are accepted by a     *)
(* session, executed one at a time and answered in the order in which they *)
(* were accepted, and what is not answered is lost as a whole with the     *)
(* session or with a timeout. A session that is given up keeps nothing,    *)
(* and the next one starts with an empty queue.                            *)
(*                                                                         *)
(* Module Assembly implements this in detail. Module Cape is built on it:  *)
(* it knows an assembly only as a node state and such a queue.             *)
(***************************************************************************)
EXTENDS Naturals, Sequences, Functions

CONSTANT Op  \* the operations that can be queued

VARIABLES
  node,     \* assembly->recover.state
  session,  \* whether transport_connect has led to a session
  queue,    \* accepted operations without an answer, oldest first
  process   \* whether the cape process lives

vars == <<node, session, queue, process>>

Init ==
  /\ node = "UNKNOWN"
  /\ ~session
  /\ queue = <<>>
  /\ process = "up"

\* The session is there. It may queue an operation of its own at once.
Connect ==
  /\ ~session /\ session'
  /\ node' = "RUNNING"
  /\ queue' = <<>> \/ \E op \in Op : queue' = <<op>>
  /\ UNCHANGED process

\* The cloud reports that the instance is not there yet.
Wait ==
  /\ ~session
  /\ node' = "UNKNOWN"
  /\ UNCHANGED <<session, queue, process>>

\* Operations are accepted behind those that wait already, each once.
Accept ==
  /\ session
  /\ queue' \in Seq(Op) /\ IsInjective(queue')
  /\ Len(queue') > Len(queue)
  /\ \A i \in DOMAIN queue : queue'[i] = queue[i]
  /\ UNCHANGED <<node, session, process>>

\* The oldest operation is answered.
Answer ==
  /\ session
  /\ queue # <<>>
  /\ queue' = Tail(queue)
  /\ UNCHANGED <<node, session, process>>

\* The node fails: by a timeout, which loses the queue, or by the answer of
\* a health check. When it is restarted the session is given up, which a node
\* that has already failed never is.
Fail ==
  /\ session
  /\ node' = "FAILED"
  /\ \/ /\ session'
        /\ queue' \in {queue, <<>>} \/ (queue # <<>> /\ queue' = Tail(queue))
     \/ node # "FAILED" /\ ~session' /\ queue' = <<>>
  /\ process' \in {"up", "aborted"}

\* The process ends, by cape_exit or by a failed assertion.
Stop ==
  /\ process' # "up"
  /\ UNCHANGED node
  /\ \/ UNCHANGED <<session, queue>>
     \/ ~session' /\ queue' = <<>>

Next ==
  process = "up" /\ (Connect \/ Wait \/ Accept \/ Answer \/ Fail \/ Stop)

Spec == Init /\ [][Next]_vars
=============================================================================

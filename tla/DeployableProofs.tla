-------------------------- MODULE DeployableProofs --------------------------
(***************************************************************************)
(* What cped answers holds, and the services follow the addresses, for any *)
(* number of assemblies, resources, addresses and configurations.          *)
(***************************************************************************)
EXTENDS Deployable, TLAPS

EntryType == [rc : {"none", "OK", "ERROR"}, digest : Values, own : BOOLEAN]

CapeType ==
  [process : {"none", "up", "aborted"}, assembly_map : SUBSET Assemblies,
   node : [Assemblies -> {"UNKNOWN", "RUNNING", "FAILED"}],
   address : [Assemblies -> Addresses \cup {None}],
   connecting : SUBSET Assemblies, value : [Resources -> Values],
   history : [Resources -> [Methods -> EntryType]],
   last : [Resources -> {"none", "start", "stop"}],
   changed : SUBSET Resources, jobs : BOOLEAN,
   todo : [Resources -> {"nothing", "start", "restart"}],
   sent : [Resources -> Values]]

\* Parameters that refer to a running assembly are current.
ParamsOK(x) ==
  \A r \in Configured(x) :
    x.node[Reference[r]] = "RUNNING" => x.value[r] = Shown(x, r)

\* last names an entry, if there is one. As long as the parameter of a
\* resource has kept its value, its entries and its planned operation have
\* that value, and its entries own their digests.
HistoryOK(x) ==
  \A r \in Resources :
    /\ \A m \in Methods :
         /\ x.last[r] = "none" => x.history[r][m] = NoEntry
         /\ x.history[r][m].rc = "none" => x.history[r][m] = NoEntry
         /\ r \notin x.changed =>
              /\ x.history[r][m].own
              /\ x.history[r][m].rc # "none" =>
                   x.history[r][m].digest = x.value[r]
    /\ r \notin x.changed /\ x.todo[r] # "nothing" => x.sent[r] = x.value[r]

\* A start that is recorded as the last operation of a resource is the one its
\* service runs with; and without a plan to come, what is left to do was
\* planned with the present values, and what is not was done with them.
PlanOK(x, s) ==
  \A r \in Resources :
    /\ x.node[Home[r]] # "RUNNING" => x.history[r]["start"].rc # "OK"
    /\ x.node[Home[r]] = "RUNNING" =>
         /\ x.last[r] = "start" /\ x.history[r]["start"].rc = "OK"
            => s[r] = x.history[r]["start"].digest
         /\ ~x.jobs /\ x.todo[r] # "nothing" => x.sent[r] = x.value[r]
         /\ ~x.jobs /\ x.todo[r] = "nothing" /\ r \in Configured(x)
              /\ ~Blocked(x, r)
            => /\ x.last[r] = "start" /\ x.history[r]["start"].rc = "OK"
               /\ x.history[r]["start"].digest = x.value[r]

CapeInv(x, s) ==
  /\ x \in CapeType
  /\ s \in [Resources -> Values \cup {Down}]
  /\ ParamsOK(x)
  /\ HistoryOK(x)
  /\ PlanOK(x, s)

(***************************************************************************)
(* The process.                                                            *)
(***************************************************************************)

\* The empty entry is typed and points at nothing that was freed.
LEMMA NoEntryFields ==
  NoEntry \in EntryType /\ NoEntry.rc = "none" /\ NoEntry.own
BY DEF NoEntry, Entry, EntryType, Values

\* Without a process there is nothing to be wrong.
LEMMA NoCapeOK ==
  ASSUME NEW s \in [Resources -> Values \cup {Down}]
  PROVE  CapeInv(NoCape, s)
<1>1. NoCape \in CapeType
  BY DEF NoCape, CapeType, Values, NoEntry, Entry, EntryType
<1>2. ParamsOK(NoCape)
  BY DEF NoCape, ParamsOK, Configured
<1>3. HistoryOK(NoCape)
  BY DEF NoCape, HistoryOK, NoEntry, Entry
<1>4. PlanOK(NoCape, s)
  BY ReconfigConstantsOK DEF NoCape, PlanOK, NoEntry, Entry, Methods
<1> QED BY <1>1, <1>2, <1>3, <1>4 DEF CapeInv

\* A freshly loaded configuration has no running assembly and no history.
LEMMA CapeLoadOK ==
  ASSUME NEW c \in SUBSET Assemblies,
         NEW s \in [Resources -> Values \cup {Down}]
  PROVE  CapeInv(cape_load(c), s) /\ cape_load(c).process = "up"
<1> DEFINE x == cape_load(c)
<1>0. NoCape \in CapeType
  BY NoCapeOK DEF CapeInv
<1>1. x \in CapeType /\ x.process = "up"
  BY <1>0 DEF cape_load, CapeType
<1>2. /\ x.node = [a \in Assemblies |-> "UNKNOWN"]
      /\ x.history = [r \in Resources |-> [m \in Methods |-> NoEntry]]
      /\ x.todo = [r \in Resources |-> "nothing"]
  BY DEF cape_load, NoCape
<1> HIDE DEF x
<1>3. ParamsOK(x)
  BY <1>2, ReconfigConstantsOK DEF ParamsOK, Configured
<1>4. HistoryOK(x)
  BY <1>1, <1>2 DEF HistoryOK, NoEntry, Entry
<1>5. PlanOK(x, s)
  BY <1>2, ReconfigConstantsOK DEF PlanOK, NoEntry, Entry, Methods
<1> QED BY <1>1, <1>3, <1>4, <1>5 DEF CapeInv, x

\* instance_state_completion changes the address of an assembly that does not
\* run, which no parameter has to hold.
LEMMA InstanceOK ==
  ASSUME CapeInv(k, service), NEW a \in Assemblies,
         instance_state_completion(a)
  PROVE  CapeInv(k', service') /\ k'.process = k.process
<1> PICK ip \in Addresses :
      k' = [k EXCEPT !.address[a] = ip, !.connecting = @ \cup {a}]
  BY DEF instance_state_completion
<1>1. k \in CapeType /\ service' = service /\ k.node[a] # "RUNNING"
  BY DEF CapeInv, instance_state_completion
<1>2. /\ k' \in CapeType
      /\ k'.address = [k.address EXCEPT ![a] = ip]
      /\ k'.process = k.process /\ k'.assembly_map = k.assembly_map
      /\ k'.node = k.node /\ k'.value = k.value
      /\ k'.history = k.history /\ k'.last = k.last
      /\ k'.changed = k.changed /\ k'.jobs = k.jobs
      /\ k'.todo = k.todo /\ k'.sent = k.sent
  BY <1>1 DEF CapeType
<1>3. ParamsOK(k')
  BY <1>1, <1>2, ReconfigConstantsOK
     DEF CapeInv, CapeType, ParamsOK, Configured, Shown
<1>4. HistoryOK(k')
  BY <1>2 DEF CapeInv, HistoryOK
<1>5. PlanOK(k', service')
  BY <1>1, <1>2 DEF CapeInv, PlanOK, Configured, Blocked
<1> QED BY <1>1, <1>2, <1>3, <1>4, <1>5 DEF CapeInv

\* node_state_change_event to RUNNING: the parameters that refer to the
\* assembly get its address, and a plan is asked for.
LEMMA NodeRunningOK ==
  ASSUME CapeInv(k, service), NEW a \in Assemblies, node_running(a)
  PROVE  CapeInv(k', service') /\ k'.process = k.process
<1> DEFINE mine == {r \in Configured(k) : Reference[r] = a}
           new == [r \in Resources |-> IF r \in mine THEN Shown(k, r)
                                       ELSE k.value[r]]
           ch == k.changed \cup {r \in mine : /\ new[r] # k.value[r]
                                              /\ \/ k.last[r] # "none"
                                                 \/ k.todo[r] # "nothing"}
<1>1. k \in CapeType /\ service' = service /\ k.node[a] # "RUNNING"
  BY DEF CapeInv, node_running
<1>2. k' = [[[k EXCEPT !.value = new, !.changed = ch] EXCEPT !.jobs = TRUE]
              EXCEPT !.node[a] = "RUNNING"]
  <2>1. k' = [node_state_change_event(k, a, "RUNNING") EXCEPT
                !.node[a] = "RUNNING"]
    BY DEF node_running
  <2>2. node_update_addr_info(k, a) = [k EXCEPT !.value = new, !.changed = ch]
    BY <1>1 DEF node_update_addr_info, ref_params, CapeType
  <2> QED BY <2>1, <2>2 DEF node_state_change_event, schedule_processing
<1>3. new \in [Resources -> Values]
  BY <1>1, ReconfigConstantsOK DEF CapeType, Values, Shown
<1>4. ch \in SUBSET Resources
  BY <1>1 DEF CapeType, Configured
<1>5. \A r \in Resources : new[r] # k.value[r] => r \in mine
  BY <1>3
<1>6. \A r \in Resources : new[r] # k.value[r] /\ r \notin ch
        => k.last[r] = "none" /\ k.todo[r] = "nothing"
  BY <1>5
<1>7. k.changed \subseteq ch
  OBVIOUS
<1>8. \A r \in mine : new[r] = Shown(k, r)
  BY DEF Configured
<1>9. \A r \in Resources : r \notin mine => new[r] = k.value[r]
  OBVIOUS
<1> HIDE DEF new, ch
<1>10. /\ k' \in CapeType
       /\ k'.process = k.process /\ k'.assembly_map = k.assembly_map
       /\ k'.node = [k.node EXCEPT ![a] = "RUNNING"] /\ k'.value = new
       /\ k'.address = k.address
       /\ k'.history = k.history /\ k'.last = k.last
       /\ k'.changed = ch /\ k'.jobs = TRUE
       /\ k'.todo = k.todo /\ k'.sent = k.sent
  BY <1>1, <1>2, <1>3, <1>4 DEF CapeType
<1>11. ParamsOK(k')
  BY <1>1, <1>8, <1>9, <1>10, ReconfigConstantsOK
     DEF CapeInv, CapeType, ParamsOK, Configured, Shown
<1>12. HistoryOK(k')
  <2> SUFFICES ASSUME NEW r \in Resources
               PROVE  HistoryOK(k')!(r)
    BY DEF HistoryOK
  <2>1. HistoryOK(k)!(r)
    BY DEF CapeInv, HistoryOK
  <2>2. CASE new[r] = k.value[r]
    BY <1>7, <1>10, <2>1, <2>2
  <2>3. CASE new[r] # k.value[r] /\ r \in ch
    BY <1>10, <2>1, <2>3
  <2>4. CASE new[r] # k.value[r] /\ r \notin ch
    BY <1>6, <1>10, <2>1, <2>4, NoEntryFields
  <2> QED BY <2>2, <2>3, <2>4
<1>13. PlanOK(k', service')
  BY <1>1, <1>10, ReconfigConstantsOK
     DEF CapeInv, CapeType, PlanOK, Configured, Blocked
<1> QED BY <1>1, <1>10, <1>11, <1>12, <1>13 DEF CapeInv

\* node_state_change_event to FAILED and node_op_history_clear: nothing is
\* recorded for the resources of the assembly any more.
LEMMA NodeFailedOK ==
  ASSUME CapeInv(k, service), NEW a \in Assemblies, node_failed(a)
  PROVE  CapeInv(k', service') /\ k'.process \in {k.process, "aborted"}
<1> DEFINE x == [[k EXCEPT !.jobs = TRUE] EXCEPT
                   !.node[a] = "FAILED", !.connecting = @ \ {a}]
           mine == {r \in Resources : Home[r] = a}
           history == [r \in Resources |->
                         IF r \in mine THEN [m \in Methods |-> NoEntry]
                         ELSE k.history[r]]
           last == [r \in Resources |-> IF r \in mine THEN "none" ELSE k.last[r]]
           changed == k.changed \ {r \in mine : k.todo[r] = "nothing"}
<1>1. k \in CapeType /\ service \in [Resources -> Values \cup {Down}]
  BY DEF CapeInv
<1>2. /\ x \in CapeType
      /\ x.process = k.process /\ x.assembly_map = k.assembly_map
      /\ x.node = [k.node EXCEPT ![a] = "FAILED"] /\ x.address = k.address
      /\ x.value = k.value /\ x.history = k.history /\ x.last = k.last
      /\ x.changed = k.changed /\ x.jobs = TRUE
      /\ x.todo = k.todo /\ x.sent = k.sent
  BY <1>1 DEF CapeType
<1>3. k' \in node_op_history_clear(x, a)
  BY DEF node_failed, node_state_change_event, schedule_processing
<1>4. service' = [r \in Resources |-> IF Home[r] = a THEN Down ELSE service[r]]
  BY DEF node_failed
<1> HIDE DEF x
<1>5. /\ history \in [Resources -> [Methods -> EntryType]]
      /\ last \in [Resources -> {"none", "start", "stop"}]
      /\ changed \in SUBSET Resources
  BY <1>1, NoEntryFields DEF CapeType
<1>6. \/ k' = [x EXCEPT !.history = history, !.last = last, !.changed = changed]
      \/ k' = [[x EXCEPT !.history = history, !.last = last, !.changed = changed]
                 EXCEPT !.process = "aborted"]
  BY <1>2, <1>3 DEF node_op_history_clear, CapeType
<1> HIDE DEF history, last, changed
<1>7. /\ k' \in CapeType
      /\ k'.process \in {k.process, "aborted"}
      /\ k'.assembly_map = k.assembly_map
      /\ k'.node = [k.node EXCEPT ![a] = "FAILED"] /\ k'.address = k.address
      /\ k'.value = k.value /\ k'.history = history /\ k'.last = last
      /\ k'.changed = changed /\ k'.jobs = TRUE
      /\ k'.todo = k.todo /\ k'.sent = k.sent
  <2> DEFINE y == [x EXCEPT !.history = history, !.last = last,
                            !.changed = changed]
  <2>1. /\ y \in CapeType
        /\ y.process = x.process /\ y.assembly_map = x.assembly_map
        /\ y.node = x.node /\ y.address = x.address
        /\ y.value = x.value /\ y.history = history /\ y.last = last
        /\ y.changed = changed /\ y.jobs = x.jobs
        /\ y.todo = x.todo /\ y.sent = x.sent
    BY <1>2, <1>5 DEF CapeType
  <2>2. k' = y \/ k' = [y EXCEPT !.process = "aborted"]
    BY <1>6
  <2> HIDE DEF y
  <2>3. CASE k' = y
    BY <1>2, <2>1, <2>3
  <2>4. CASE k' = [y EXCEPT !.process = "aborted"]
    BY <1>2, <2>1, <2>4 DEF CapeType
  <2> QED BY <2>2, <2>3, <2>4
<1>8. ParamsOK(k')
  BY <1>1, <1>7, ReconfigConstantsOK
     DEF CapeInv, CapeType, ParamsOK, Configured, Shown
<1>9. HistoryOK(k')
  <2> SUFFICES ASSUME NEW r \in Resources
               PROVE  HistoryOK(k')!(r)
    BY DEF HistoryOK
  <2>1. HistoryOK(k)!(r)
    BY DEF CapeInv, HistoryOK
  <2>2. CASE r \in mine
    <3>1. \A m \in Methods : history[r][m] = NoEntry
      BY <2>2 DEF history
    <3>2. r \notin changed /\ k.todo[r] # "nothing" => r \notin k.changed
      BY <2>2 DEF changed
    <3> QED BY <1>7, <2>1, <3>1, <3>2, NoEntryFields
  <2>3. CASE r \notin mine
    <3>1. /\ history[r] = k.history[r] /\ last[r] = k.last[r]
          /\ r \in changed <=> r \in k.changed
      BY <2>3 DEF history, last, changed
    <3> QED BY <1>7, <2>1, <3>1
  <2> QED BY <2>2, <2>3
<1>10. PlanOK(k', service')
  <2> SUFFICES ASSUME NEW r \in Resources
               PROVE  PlanOK(k', service')!(r)
    BY DEF PlanOK
  <2>1. PlanOK(k, service)!(r)
    BY DEF CapeInv, PlanOK
  <2>2. CASE r \in mine
    <3>1. history[r]["start"] = NoEntry
      BY <2>2 DEF history, Methods
    <3>2. k'.node[Home[r]] # "RUNNING"
      BY <1>1, <1>7, <2>2 DEF CapeType
    <3> QED BY <1>7, <3>1, <3>2, NoEntryFields
  <2>3. CASE r \notin mine
    <3>1. history[r] = k.history[r] /\ last[r] = k.last[r]
      BY <2>3 DEF history, last
    <3>2. k'.node[Home[r]] = k.node[Home[r]] /\ service'[r] = service[r]
      BY <1>1, <1>4, <1>7, <2>3, ReconfigConstantsOK DEF CapeType
    <3> QED BY <1>7, <2>1, <3>1, <3>2
  <2> QED BY <2>2, <2>3
<1> QED BY <1>1, <1>4, <1>7, <1>8, <1>9, <1>10 DEF CapeInv

\* process_job: a resource without an operation in the plan was started with
\* the present value, whatever a freed digest reads as.
LEMMA ProcessJobOK ==
  ASSUME CapeInv(k, service), process_job
  PROVE  CapeInv(k', service') /\ k'.process = k.process
<1> PICK todo \in [Resources -> {"nothing", "start", "restart"}] :
      /\ \A r \in Resources : todo[r] \in Plans(k, r)
      /\ k' = [k EXCEPT !.jobs = FALSE, !.todo = todo, !.sent = k.value]
  BY DEF process_job, Planned
<1>1. k \in CapeType /\ service' = service
  BY DEF CapeInv, process_job
<1>2. /\ k' \in CapeType
      /\ k'.process = k.process /\ k'.assembly_map = k.assembly_map
      /\ k'.node = k.node /\ k'.address = k.address
      /\ k'.value = k.value /\ k'.history = k.history /\ k'.last = k.last
      /\ k'.changed = k.changed /\ k'.jobs = FALSE
      /\ k'.todo = todo /\ k'.sent = k.value
  BY <1>1 DEF CapeType
<1>3. ParamsOK(k')
  BY <1>1, <1>2 DEF CapeInv, ParamsOK, Configured, Shown
<1>4. HistoryOK(k')
  BY <1>2 DEF CapeInv, HistoryOK
<1>5. PlanOK(k', service')
  <2> SUFFICES ASSUME NEW r \in Resources
               PROVE  PlanOK(k', service')!(r)
    BY DEF PlanOK
  <2>1. PlanOK(k, service)!(r)
    BY DEF CapeInv, PlanOK
  <2>2. ASSUME k.node[Home[r]] = "RUNNING", todo[r] = "nothing",
               r \in Configured(k), ~Blocked(k, r)
        PROVE  /\ k.last[r] = "start" /\ k.history[r]["start"].rc = "OK"
               /\ k.history[r]["start"].digest = k.value[r]
    <3>1. k.last[r] = "start"
      BY <2>2 DEF Plans
    <3>2. PICK d \in Reads(k.history[r]["start"]) :
            todo[r] = IF k.history[r]["start"].rc = "OK" /\ d = k.value[r]
                      THEN "nothing" ELSE "restart"
      BY <2>2, <3>1 DEF Plans
    <3>3. k.history[r]["start"].rc = "OK" /\ d = k.value[r]
      BY <2>2, <3>2
    <3>4. d # Garbage
      BY <1>1, <3>3, ReconfigConstantsOK DEF CapeType, Values
    <3> QED BY <3>1, <3>3, <3>4 DEF Reads
  <2> QED BY <1>1, <1>2, <2>1, <2>2 DEF Configured, Blocked
<1> QED BY <1>1, <1>2, <1>3, <1>4, <1>5 DEF CapeInv

\* What op_history_save leaves behind: the operation is the last of the
\* resource, its entry has the operation's result and digest, and it owns the
\* digest if the entry before it did and had the same one.
Saved(x, y, r, m, rc) ==
  /\ y \in CapeType
  /\ y.process \in {x.process, "aborted"}
  /\ y.assembly_map = x.assembly_map
  /\ y.node = x.node /\ y.address = x.address /\ y.value = x.value
  /\ y.changed = x.changed /\ y.jobs = x.jobs
  /\ y.todo = x.todo /\ y.sent = x.sent
  /\ y.last = [x.last EXCEPT ![r] = m]
  /\ \A q \in Resources, n \in Methods :
       q # r \/ n # m => y.history[q][n] = x.history[q][n]
  /\ y.history[r][m].rc = rc /\ y.history[r][m].digest = x.sent[r]
  /\ \/ x.history[r][m].rc = "none"
     \/ x.history[r][m].own /\ x.history[r][m].digest = x.sent[r]
     => y.history[r][m].own

LEMMA OpHistorySaved ==
  ASSUME NEW x \in CapeType, NEW r \in Resources, NEW m \in Methods,
         NEW rc \in {"OK", "ERROR"}, NEW y \in op_history_save(x, r, m, rc)
  PROVE  Saved(x, y, r, m, rc)
<1> DEFINE old == x.history[r][m]
           d == x.sent[r]
           Save(e) == [x EXCEPT !.history[r][m] = e, !.last[r] = m]
<1>1. old \in EntryType /\ d \in Values
  BY DEF CapeType
<1>2. Garbage \notin Values
  BY ReconfigConstantsOK DEF Values
<1>3. PICK e \in EntryType :
        /\ y \in {Save(e), [Save(e) EXCEPT !.process = "aborted"]}
        /\ e.rc = rc /\ e.digest = d
        /\ old.rc = "none" \/ (old.own /\ old.digest = d) => e.own
  <2> DEFINE fresh == Entry(rc, d, TRUE)
             pointed == Entry(rc, d, FALSE)
             kept == [old EXCEPT !.rc = rc]
  <2>1. /\ fresh \in EntryType /\ fresh.rc = rc /\ fresh.digest = d /\ fresh.own
        /\ pointed \in EntryType /\ pointed.rc = rc /\ pointed.digest = d
    BY <1>1 DEF Entry, EntryType
  <2>2. /\ kept \in EntryType /\ kept.rc = rc /\ kept.digest = old.digest
        /\ kept.own = old.own
    BY <1>1 DEF EntryType
  <2>3. CASE old.rc = "none"
    <3>1. y = Save(fresh)
      BY <2>3 DEF op_history_save
    <3> QED BY <2>1, <3>1
  <2>4. CASE old.rc # "none"
    <3>1. \/ y = Save(kept) /\ d \in Reads(old)
          \/ y = Save(pointed) /\ Reads(old) # {d}
          \/ y = [Save(pointed) EXCEPT !.process = "aborted"] /\ ~old.own
      BY <2>4 DEF op_history_save
    <3>2. CASE y = Save(kept) /\ d \in Reads(old)
      <4>1. old.digest = d
        BY <1>1, <1>2, <3>2 DEF Reads
      <4> QED BY <2>2, <2>4, <3>2, <4>1
    <3>3. CASE y = Save(pointed) /\ Reads(old) # {d}
      <4>1. ~(old.own /\ old.digest = d)
        BY <3>3 DEF Reads
      <4> QED BY <2>1, <2>4, <3>3, <4>1
    <3>4. CASE y = [Save(pointed) EXCEPT !.process = "aborted"] /\ ~old.own
      BY <2>1, <2>4, <3>4
    <3> QED BY <3>1, <3>2, <3>3, <3>4
  <2> QED BY <2>3, <2>4
<1> DEFINE z == Save(e)
<1>4. /\ z \in CapeType
      /\ z.process = x.process /\ z.assembly_map = x.assembly_map
      /\ z.node = x.node /\ z.address = x.address /\ z.value = x.value
      /\ z.changed = x.changed /\ z.jobs = x.jobs
      /\ z.todo = x.todo /\ z.sent = x.sent
      /\ z.last = [x.last EXCEPT ![r] = m]
      /\ z.history = [x.history EXCEPT ![r] = [@ EXCEPT ![m] = e]]
  BY DEF CapeType, Methods
<1>5. y = z \/ y = [z EXCEPT !.process = "aborted"]
  BY <1>3
<1> HIDE DEF z
<1>6. /\ y \in CapeType
      /\ y.process \in {x.process, "aborted"}
      /\ y.assembly_map = x.assembly_map
      /\ y.node = x.node /\ y.address = x.address /\ y.value = x.value
      /\ y.changed = x.changed /\ y.jobs = x.jobs
      /\ y.todo = x.todo /\ y.sent = x.sent
      /\ y.last = [x.last EXCEPT ![r] = m]
      /\ y.history = [x.history EXCEPT ![r] = [@ EXCEPT ![m] = e]]
  <2>1. CASE y = z
    BY <1>4, <2>1
  <2>2. CASE y = [z EXCEPT !.process = "aborted"]
    BY <1>4, <2>2 DEF CapeType
  <2> QED BY <1>5, <2>1, <2>2
<1>7. /\ y.history[r][m] = e
      /\ \A q \in Resources, n \in Methods :
           q # r \/ n # m => y.history[q][n] = x.history[q][n]
  BY <1>6 DEF CapeType
<1> QED BY <1>3, <1>6, <1>7 DEF Saved

\* resource_action_completed and op_history_save of its result.
LEMMA CompletedOK ==
  ASSUME CapeInv(k, service), NEW r \in Resources, resource_action_completed(r)
  PROVE  CapeInv(k', service') /\ k'.process \in {k.process, "aborted"}
<1> DEFINE m == IF k.todo[r] = "start" THEN "start" ELSE "stop"
           online == k.node[Home[r]] = "RUNNING"
           rc == IF online THEN "OK" ELSE "ERROR"
           todo == IF online
                   THEN [k.todo EXCEPT
                           ![r] = IF m = "stop" THEN "start" ELSE "nothing"]
                   ELSE [q \in Resources |-> "nothing"]
           jobs == k.jobs \/ ~online
           x == [k EXCEPT !.todo = todo, !.jobs = jobs]
<1>1. k \in CapeType /\ service \in [Resources -> Values \cup {Down}]
  BY DEF CapeInv
<1>2. todo \in [Resources -> {"nothing", "start", "restart"}]
  BY <1>1 DEF CapeType
<1>3. m \in Methods /\ rc \in {"OK", "ERROR"} /\ jobs \in BOOLEAN
  BY <1>1 DEF Methods, CapeType
<1>4. /\ k' \in op_history_save(x, r, m, rc)
      /\ service' = IF ~online THEN service
                    ELSE [service EXCEPT ![r] =
                            IF m = "start" THEN k.sent[r] ELSE Down]
      /\ k.todo[r] # "nothing"
  BY <1>1 DEF resource_action_completed, CapeType
<1> HIDE DEF todo, jobs
<1>5. /\ x \in CapeType
      /\ x.process = k.process /\ x.assembly_map = k.assembly_map
      /\ x.node = k.node /\ x.address = k.address
      /\ x.value = k.value /\ x.history = k.history /\ x.last = k.last
      /\ x.changed = k.changed /\ x.jobs = jobs
      /\ x.todo = todo /\ x.sent = k.sent
  BY <1>1, <1>2, <1>3 DEF CapeType
<1> HIDE DEF x, rc, m
<1>6. Saved(x, k', r, m, rc)
  BY <1>3, <1>4, <1>5, OpHistorySaved
<1>7. /\ k' \in CapeType
      /\ k'.process \in {k.process, "aborted"}
      /\ k'.assembly_map = k.assembly_map
      /\ k'.node = k.node /\ k'.address = k.address /\ k'.value = k.value
      /\ k'.changed = k.changed /\ k'.jobs = jobs
      /\ k'.todo = todo /\ k'.sent = k.sent
      /\ k'.last = [k.last EXCEPT ![r] = m]
  BY <1>5, <1>6 DEF Saved
<1>8. /\ \A q \in Resources, n \in Methods :
           q # r \/ n # m => k'.history[q][n] = k.history[q][n]
      /\ k'.history[r][m].rc = rc /\ k'.history[r][m].digest = k.sent[r]
      /\ \/ k.history[r][m].rc = "none"
         \/ k.history[r][m].own /\ k.history[r][m].digest = k.sent[r]
         => k'.history[r][m].own
  BY <1>5, <1>6 DEF Saved
<1>9. ParamsOK(k')
  BY <1>1, <1>7 DEF CapeInv, ParamsOK, Configured, Shown
<1>10. \A q \in Resources \ {r} :
        /\ \A n \in Methods : k'.history[q][n] = k.history[q][n]
        /\ k'.last[q] = k.last[q]
        /\ service'[q] = service[q]
        /\ todo[q] \in {k.todo[q], "nothing"}
        /\ ~jobs => todo[q] = k.todo[q]
  BY <1>1, <1>4, <1>7, <1>8 DEF CapeType, todo, jobs
<1>11. /\ k'.last[r] = m
       /\ \A n \in Methods \ {m} : k'.history[r][n] = k.history[r][n]
  BY <1>1, <1>3, <1>7, <1>8 DEF CapeType
<1>12. HistoryOK(k')
  <2> SUFFICES ASSUME NEW q \in Resources
               PROVE  HistoryOK(k')!(q)
    BY DEF HistoryOK
  <2>1. HistoryOK(k)!(q)
    BY DEF CapeInv, HistoryOK
  <2>2. CASE q # r
    BY <1>7, <1>10, <2>1, <2>2
  <2>3. CASE q = r
    <3>1. m # "none" /\ rc # "none"
      BY <1>3 DEF Methods
    <3>2. r \notin k.changed => k.sent[r] = k.value[r]
      BY <1>4, <2>1, <2>3
    <3>3. r \notin k.changed => k'.history[r][m].own
      BY <1>3, <1>8, <2>1, <2>3, <3>2
    <3>4. ASSUME NEW n \in Methods
          PROVE  /\ k'.history[r][n].rc = "none" => k'.history[r][n] = NoEntry
                 /\ r \notin k.changed =>
                      /\ k'.history[r][n].own
                      /\ k'.history[r][n].rc # "none" =>
                           k'.history[r][n].digest = k.value[r]
      <4>1. CASE n = m
        BY <1>8, <1>11, <3>1, <3>2, <3>3, <4>1
      <4>2. CASE n # m
        BY <1>11, <2>1, <2>3, <4>2
      <4> QED BY <4>1, <4>2
    <3> QED BY <1>7, <1>11, <2>3, <3>1, <3>2, <3>4
  <2> QED BY <2>2, <2>3
<1>13. PlanOK(k', service')
  <2> SUFFICES ASSUME NEW q \in Resources
               PROVE  PlanOK(k', service')!(q)
    BY DEF PlanOK
  <2>1. PlanOK(k, service)!(q)
    BY DEF CapeInv, PlanOK
  <2>2. CASE q # r
    BY <1>7, <1>10, <2>1, <2>2 DEF Configured, Blocked, jobs, Methods
  <2>3. CASE q = r /\ ~online
    <3>1. k'.history[r]["start"].rc # "OK"
      BY <1>8, <1>11, <2>1, <2>3 DEF rc, Methods
    <3> QED BY <1>7, <2>3, <3>1
  <2>4. CASE q = r /\ online /\ m = "start"
    <3>1. /\ k'.history[r]["start"].rc = "OK"
          /\ k'.history[r]["start"].digest = k.sent[r]
      BY <1>8, <1>11, <2>4 DEF rc
    <3>2. service'[r] = k.sent[r] /\ todo[r] = "nothing"
      BY <1>1, <1>4, <2>4 DEF todo, CapeType
    <3>3. ~jobs => k.sent[r] = k.value[r]
      BY <1>1, <1>4, <2>1, <2>4 DEF jobs, CapeType
    <3> QED BY <1>7, <1>11, <2>4, <3>1, <3>2, <3>3
  <2>5. CASE q = r /\ online /\ m = "stop"
    <3>1. k'.last[r] = "stop" /\ todo[r] = "start"
      BY <1>1, <1>11, <2>5 DEF todo, CapeType
    <3>2. ~jobs => k.sent[r] = k.value[r]
      BY <1>1, <1>4, <2>1, <2>5 DEF jobs, CapeType
    <3> QED BY <1>7, <2>5, <3>1, <3>2
  <2> QED BY <1>3, <2>2, <2>3, <2>4, <2>5 DEF Methods
<1>14. service' \in [Resources -> Values \cup {Down}]
  BY <1>1, <1>4 DEF CapeType
<1> QED BY <1>7, <1>9, <1>12, <1>13, <1>14 DEF CapeInv

\* A step of cape: the invariant is kept and the process does not vanish.
LEMMA CapeStepOK ==
  ASSUME CapeInv(k, service),
         \/ \E a \in Assemblies : instance_active(a) \/ node_changes(a)
         \/ plans
         \/ \E r \in Resources : completes(r)
  PROVE  /\ CapeInv(k', service')
         /\ k.process # "none" /\ k'.process # "none"
         /\ UNCHANGED <<file, cped, unit>>
<1>1. CASE \E a \in Assemblies : instance_active(a)
  BY <1>1, InstanceOK DEF instance_active, Outside, instance_state_completion, Up
<1>2. CASE \E a \in Assemblies : node_changes(a)
  BY <1>2, NodeRunningOK, NodeFailedOK
     DEF node_changes, Outside, node_running, node_failed, Up
<1>3. CASE plans
  BY <1>3, ProcessJobOK DEF plans, Outside, process_job, Up
<1>4. CASE \E r \in Resources : completes(r)
  BY <1>4, CompletedOK DEF completes, Outside, resource_action_completed, Up
<1> QED BY <1>1, <1>2, <1>3, <1>4

(***************************************************************************)
(* The deployable.                                                         *)
(***************************************************************************)

CpedType == [queue : Seq(Requests), polls : BOOLEAN, told : Requests \cup {None}]

UnitType == [state : {"inactive", "active", "restarting", "failed"},
             job : Requests \cup {None}, crashes : 0 .. Burst]

\* The last answer is a success only if no other job has been queued since;
\* that makes what it says of the unit inductive.
UnitOK ==
  /\ cped \in CpedType
  /\ unit \in UnitType
  /\ unit.state = "active" => unit.crashes < Burst
  /\ k.process # "none" <=> unit.state = "active"
  /\ cped.told # None => unit.job \in {None, cped.told}
  /\ AnswersHold

IInv == CapeInv(k, service) /\ file \in Configs \cup {None} /\ UnitOK

\* Before the first request.
LEMMA InitIInv == Init => IInv
<1> SUFFICES ASSUME Init PROVE IInv
  OBVIOUS
<1>1. service \in [Resources -> Values \cup {Down}]
  BY DEF Init
<1>2. CapeInv(k, service)
  BY <1>1, NoCapeOK DEF Init
<1>3. UnitOK
  BY DeployableConstantsOK
     DEF Init, UnitOK, CpedType, UnitType, AnswersHold, Requests, NoCape
<1> QED BY <1>2, <1>3 DEF IInv, Init

\* cape_main leaves a process exactly if the unit is active.
LEMMA CapeMainOK ==
  ASSUME IInv, cape_main
  PROVE  /\ CapeInv(k', service')
         /\ k'.process # "none" <=> unit'.state = "active"
         /\ unit'.state \in {"active", "restarting"} /\ unit'.job = None
         /\ unit.crashes < Burst =>
              /\ unit' \in UnitType
              /\ unit'.state = "active" => unit'.crashes < Burst
<1>1. service' \in [Resources -> Values \cup {Down}]
  BY DEF cape_main, services_lost
<1>2. unit \in UnitType /\ Burst \in Nat
  BY DeployableConstantsOK DEF IInv, UnitOK
<1>3. CASE file = None
  <2>1. /\ k' = NoCape
        /\ unit' = [unit EXCEPT !.job = None, !.state = "restarting",
                               !.crashes = @ + 1]
    BY <1>3 DEF cape_main
  <2>2. NoCape.process = "none"
    BY DEF NoCape
  <2>3. unit'.state = "restarting" /\ unit'.job = None
    BY <1>2, <2>1 DEF UnitType
  <2>4. unit.crashes < Burst => unit.crashes + 1 \in 0 .. Burst
    BY <1>2 DEF UnitType
  <2>5. unit.crashes < Burst => unit' \in UnitType
    BY <1>2, <2>1, <2>4 DEF UnitType
  <2> QED BY <1>1, <2>1, <2>2, <2>3, <2>5, NoCapeOK
<1>4. CASE file # None
  <2>1. /\ k' = cape_load(file)
        /\ unit' = [unit EXCEPT !.job = None, !.state = "active"]
        /\ file \in SUBSET Assemblies
    BY <1>4, DeployableConstantsOK DEF cape_main, IInv
  <2> QED BY <1>1, <1>2, <2>1, CapeLoadOK DEF UnitType
<1> QED BY <1>3, <1>4

\* A killed cape leaves the unit at rest.
LEMMA CapeKilledOK ==
  ASSUME IInv, cape_killed
  PROVE  /\ CapeInv(k', service') /\ k'.process = "none"
         /\ unit' \in UnitType /\ unit'.job = None
         /\ unit'.state \in {"inactive", "failed"}
<1>1. service' \in [Resources -> Values \cup {Down}]
  BY DEF cape_killed, services_lost
<1>2. k' = NoCape /\ NoCape.process = "none"
  BY DEF cape_killed, NoCape
<1>3. unit \in UnitType
  BY DEF IInv, UnitOK
<1>4. unit' = [unit EXCEPT !.job = None,
                           !.state = IF @ = "failed" THEN @ ELSE "inactive"]
  BY DEF cape_killed
<1> QED BY <1>1, <1>2, <1>3, <1>4, NoCapeOK DEF UnitType

\* Every step of the shells, of cped, of the init system and of cape.
LEMMA NextIInv == IInv /\ [Next]_vars => IInv'
<1> SUFFICES ASSUME IInv, [Next]_vars PROVE IInv'
  OBVIOUS
<1> USE DeployableConstantsOK
<1>0. /\ CapeInv(k, service) /\ file \in Configs \cup {None}
      /\ cped \in CpedType /\ unit \in UnitType
      /\ unit.state = "active" => unit.crashes < Burst
      /\ k.process # "none" <=> unit.state = "active"
      /\ cped.told # None => unit.job \in {None, cped.told}
      /\ AnswersHold
  BY DEF IInv, UnitOK
<1>1. ASSUME NEW method \in Requests, Call(method),
             file' \in Configs \cup {None}
      PROVE  IInv'
  <2>1. /\ cped' \in CpedType /\ cped'.told = cped.told
        /\ UNCHANGED <<k, service, unit>>
    <3>1. Append(cped.queue, method) \in Seq(Requests)
      BY <1>0 DEF CpedType
    <3> QED BY <1>0, <1>1, <3>1 DEF Call, CpedType
  <2> QED BY <1>0, <1>1, <2>1 DEF IInv, UnitOK, AnswersHold
<1>2. CASE deployable_start \/ deployable_stop \/ deployable_reload
  BY <1>0, <1>1, <1>2
     DEF deployable_start, deployable_stop, deployable_reload, Requests
<1>3. CASE poll_for_qmf_events
  <2>1. cped.queue # <<>> /\ cped.queue \in Seq(Requests)
    BY <1>0, <1>3 DEF poll_for_qmf_events, CpedType
  <2>2. Head(cped.queue) \in Requests /\ Tail(cped.queue) \in Seq(Requests)
    BY <2>1
  <2> DEFINE method == Head(cped.queue)
             queued == [unit EXCEPT !.job = method]
  <2>3. PICK result \in dep(method), polls \in BOOLEAN :
          /\ unit' = result[1]
          /\ cped' = [queue |-> Tail(cped.queue), polls |-> polls,
                      told |-> IF result[2] = 0 THEN method ELSE None]
    BY <1>3 DEF poll_for_qmf_events, event_dispatch
  <2> HIDE DEF method
  <2>4. \/ unit' = queued
        \/ unit' = unit /\ cped'.told = None
    BY <2>3 DEF dep, init_job
  <2>5. cped' \in CpedType /\ cped'.told \in {None, method}
    BY <2>2, <2>3 DEF CpedType, method
  <2>6. method \in Requests /\ method # None
    BY <2>2 DEF method, Requests
  <2>7. /\ unit' \in UnitType /\ unit'.state = unit.state
        /\ unit'.crashes = unit.crashes
        /\ cped'.told # None => unit'.job = method
    BY <1>0, <2>4, <2>6 DEF UnitType
  <2>8. UNCHANGED <<k, service, file>>
    BY <1>3 DEF poll_for_qmf_events
  <2> QED BY <1>0, <2>5, <2>6, <2>7, <2>8 DEF IInv, UnitOK, AnswersHold
<1>4. ASSUME JobIgnored, UNCHANGED <<file, cped>>,
             cped.told # "stop" \/ unit.job = "stop",
             unit.job = "start" => unit.state = "active",
             unit.job \in {"start", "reload"}
      PROVE  IInv'
  <2>1. /\ unit' \in UnitType /\ unit'.state = unit.state
        /\ unit'.crashes = unit.crashes /\ unit'.job = None
        /\ UNCHANGED <<k, service>>
    BY <1>0, <1>4 DEF JobIgnored, UnitType
  <2>2. cped.told = "start" => unit.job = "start"
    BY <1>0, <1>4
  <2> QED BY <1>0, <1>4, <2>1, <2>2 DEF IInv, UnitOK, AnswersHold
<1>5. ASSUME cape_killed, UNCHANGED <<file, cped>>, unit.job \in {"stop", "reload"}
      PROVE  IInv'
  <2>1. cped.told # "start"
    BY <1>0, <1>5
  <2> QED BY <1>0, <1>5, <2>1, CapeKilledOK DEF IInv, UnitOK, AnswersHold
<1>6. ASSUME cape_main, UNCHANGED <<file, cped>>, unit.crashes < Burst,
             cped.told # "stop"
      PROVE  IInv'
  BY <1>0, <1>6, CapeMainOK DEF IInv, UnitOK, AnswersHold
<1>7. ASSUME unit' = [unit EXCEPT !.job = None, !.state = "failed"],
             UNCHANGED <<k, service, file, cped>>, unit.state # "active"
      PROVE  IInv'
  <2>1. /\ unit' \in UnitType /\ unit'.state = "failed" /\ unit'.job = None
    BY <1>0, <1>7 DEF UnitType
  <2> QED BY <1>0, <1>7, <2>1 DEF IInv, UnitOK, AnswersHold
<1>8. CASE job_start
  <2>1. unit.job = "start" /\ cped.told # "stop" /\ UNCHANGED <<file, cped>>
    BY <1>0, <1>8 DEF job_start
  <2>2. CASE unit.state = "active"
    BY <1>4, <1>8, <2>1, <2>2 DEF job_start
  <2>3. CASE unit.state # "active" /\ unit.crashes < Burst
    BY <1>6, <1>8, <2>1, <2>3 DEF job_start
  <2>4. CASE unit.state # "active" /\ ~(unit.crashes < Burst)
    BY <1>7, <1>8, <2>1, <2>4 DEF job_start
  <2> QED BY <2>2, <2>3, <2>4
<1>9. CASE job_stop
  BY <1>5, <1>9 DEF job_stop
<1>10. CASE job_reload
  <2>1. unit.job = "reload" /\ cped.told # "stop" /\ UNCHANGED <<file, cped>>
    BY <1>0, <1>10 DEF job_reload
  <2> QED BY <1>4, <1>5, <1>10, <2>1 DEF job_reload
<1>11. CASE cape_crashed
  <2>1. /\ k' = NoCape /\ NoCape.process = "none" /\ UNCHANGED <<file, cped>>
        /\ unit.state = "active" /\ service' = services_lost
    BY <1>11 DEF cape_crashed, NoCape
  <2>2. CapeInv(k', service')
    BY <2>1, NoCapeOK DEF services_lost
  <2>3. unit' \in UnitType /\ unit'.state = "restarting" /\ unit'.job = unit.job
    <3>1. unit.crashes + 1 \in 0 .. Burst
      BY <1>0, <2>1 DEF UnitType
    <3> QED BY <1>0, <1>11, <3>1 DEF cape_crashed, UnitType
  <2> QED BY <1>0, <2>1, <2>2, <2>3 DEF IInv, UnitOK, AnswersHold
<1>12. CASE unit_restart
  <2>1. /\ unit.state = "restarting" /\ unit.job = None
        /\ cped.told # "stop" /\ UNCHANGED <<file, cped>>
    BY <1>0, <1>12 DEF unit_restart, AnswersHold
  <2>2. CASE unit.crashes < Burst
    BY <1>6, <1>12, <2>1, <2>2 DEF unit_restart
  <2>3. CASE ~(unit.crashes < Burst)
    <3>1. /\ unit' = [unit EXCEPT !.state = "failed"]
          /\ UNCHANGED <<k, service>>
      BY <1>12, <2>3 DEF unit_restart
    <3>2. unit' = [unit EXCEPT !.job = None, !.state = "failed"]
      BY <1>0, <2>1, <3>1 DEF UnitType
    <3> QED BY <1>7, <2>1, <3>1, <3>2
  <2> QED BY <2>2, <2>3
<1>13. CASE limit_expires
  <2>1. /\ unit' \in UnitType /\ unit'.state = unit.state
        /\ unit'.job = unit.job /\ unit'.crashes = 0
        /\ UNCHANGED <<k, service, file, cped>>
    BY <1>0, <1>13 DEF limit_expires, UnitType
  <2> QED BY <1>0, <2>1 DEF IInv, UnitOK, AnswersHold
<1>14. CASE \/ \E a \in Assemblies : instance_active(a) \/ node_changes(a)
            \/ plans
            \/ \E r \in Resources : completes(r)
  BY <1>0, <1>14, CapeStepOK DEF IInv, UnitOK, AnswersHold
<1>15. CASE UNCHANGED vars
  BY <1>0, <1>15 DEF vars, IInv, UnitOK, AnswersHold
<1> QED BY <1>2, <1>3, <1>8, <1>9, <1>10, <1>11, <1>12, <1>13, <1>14, <1>15
           DEF Next

\* The inductive invariant of cape, its unit and cped holds in every state.
THEOREM Safety == Spec => []IInv
BY InitIInv, NextIInv, PTL DEF Spec

\* There is a cape process exactly while the unit is active, and every variable
\* keeps its type.
THEOREM DeployableTyped == Spec => []TypeOK
<1>1. IInv => TypeOK
  BY DEF IInv, CapeInv, CapeType, UnitOK, CpedType, UnitType, TypeOK
<1> QED BY <1>1, Safety, PTL

\* What cped answers to a start or a stop is true of the deployable, whatever
\* requests, D-Bus failures and crashes of cape came before.
THEOREM CpedAnswersHold == Spec => []AnswersHold
<1>1. IInv => AnswersHold
  BY DEF IInv, UnitOK
<1> QED BY <1>1, Safety, PTL

\* node_update_addr_info keeps every parameter that refers to a running
\* assembly equal to the address of that assembly's present instance.
THEOREM ReferencesCurrent == Spec => []ParamsCurrent
<1>1. IInv => ParamsCurrent
  BY DEF IInv, CapeInv, ParamsOK, ParamsCurrent
<1> QED BY <1>1, Safety, PTL

\* Once process_job has nothing left to do, every service runs with the
\* address of the present instance it refers to.
THEOREM ServicesFollow == Spec => []ServicesCurrent
<1>1. IInv => ServicesCurrent
  <2> SUFFICES ASSUME IInv, Up, ~k.jobs, ~Busy(k),
                      NEW r \in Configured(k),
                      k.node[Home[r]] = "RUNNING",
                      k.node[Reference[r]] = "RUNNING", ~Blocked(k, r)
               PROVE  service[r] = Shown(k, r)
    BY DEF ServicesCurrent
  <2>1. r \in Resources /\ k.todo[r] = "nothing"
    BY DEF Configured, Busy
  <2>2. /\ k.last[r] = "start" /\ k.history[r]["start"].rc = "OK"
        /\ k.history[r]["start"].digest = k.value[r]
        /\ service[r] = k.history[r]["start"].digest
    BY <2>1 DEF IInv, CapeInv, PlanOK
  <2>3. k.value[r] = Shown(k, r)
    BY DEF IInv, CapeInv, ParamsOK
  <2> QED BY <2>2, <2>3
<1> QED BY <1>1, Safety, PTL

\* op_history_save leaves a pointer to a freed digest behind only for a
\* resource whose parameter changed.
THEOREM FreedDigests == Spec => []DigestsSafe
<1>1. IInv => DigestsSafe
  BY DEF IInv, CapeInv, HistoryOK, DigestsSafe
<1> QED BY <1>1, Safety, PTL
=============================================================================

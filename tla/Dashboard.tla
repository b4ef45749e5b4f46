------------------------------ MODULE Dashboard ------------------------------
(***************************************************************************)
(* The device health board of the operations page, from the request that   *)
(* reached a device to the row that shows it: collection_workflow.py       *)
(* appends to the audit log, stores the observation and publishes to the   *)
(* hub; /topology answers with nodes made of the log and the store; app.js *)
(* replaces its rows by that answer and patches them with the events of    *)
(* the stream.  Loads and events overtake one another.                     *)
(*                                                                         *)
(* The streams of MonitoringHub are the successive connections of the one  *)
(* page: the browser opens a new one when the last has broken.  A frame is *)
(* applied in the step that yields it.  Edges, texts and the findings      *)
(* behind a severity are left out.                                         *)
(***************************************************************************)
EXTENDS MonitoringHub, Assessment

CONSTANTS
  Devices,    \* the inventory
  Access,     \* Access[d]: the access method of d
  Risks,      \* the register of known risks: [device, severity, about]
  Loads,      \* the /topology requests of the page that may be under way
  Window,     \* how many audit events /topology reads
  MaxEvents   \* bound on the audit events

ASSUME DashboardAssumption == {Window, MaxEvents} \subseteq Nat \ {0}

VARIABLES
  audit,     \* the audit log: [device, ok]
  stored,    \* the devices with a latest observation
  task,      \* task[p]: what request thread p has to do: [todo, device, ok]
  content,   \* content[v]: the payload of publish v: [device, ok]
  load,      \* load[l]: "idle", "asked", "read" or "answered"
  events,    \* events[l]: the audit events the server has read for l
  answer,    \* answer[l]: the nodes it has answered
  loaded,    \* a load has succeeded
  rows       \* dashboardDevices: [severity, snapshot] of each device

serverVars == <<audit, stored, task, content>>
pageVars   == <<load, events, answer, loaded, rows>>
dashVars   == <<hubVars, serverVars, pageVars>>

Idle  == [todo |-> "nothing", device |-> CHOOSE d \in Devices : TRUE, ok |-> TRUE]
Blank == [d \in Devices |-> [severity |-> "info", snapshot |-> FALSE]]

DashInit ==
  /\ HubInit
  /\ audit = <<>> /\ stored = {} /\ content = <<>>
  /\ task = [p \in Publishers |-> Idle]
  /\ load = [l \in Loads |-> "idle"]
  /\ events = [l \in Loads |-> <<>>] /\ answer = [l \in Loads |-> Blank]
  /\ loaded = FALSE /\ rows = Blank

-----------------------------------------------------------------------------
(* The request threads.                                                    *)
Todo(p, what) == task' = [task EXCEPT ![p].todo = what]

\* Mutant: the observation is not stored before the publish.
ResultUnstored(p, d, ok, returned) ==
  /\ task[p] = Idle /\ putting[p] = 0
  /\ Len(audit) < MaxEvents
  /\ ok => returned
  /\ audit' = Append(audit, [device |-> d, ok |-> ok])
  /\ task' = [task EXCEPT ![p] = IF returned THEN [todo |-> "publish", device |-> d, ok |-> ok] ELSE Idle]
  /\ UNCHANGED <<hubVars, stored, content, pageVars>>
\* The outcome of a request is appended to the log.  A failure that no executor
\* returned, a refusal or an exception, is the end of it.
Result(p, d, ok, returned) ==
  /\ task[p] = Idle /\ putting[p] = 0
  /\ Len(audit) < MaxEvents
  /\ ok => returned
  /\ audit' = Append(audit, [device |-> d, ok |-> ok])
  /\ task' = [task EXCEPT ![p] =
                IF returned THEN [todo |-> IF ok THEN "store" ELSE "publish", device |-> d, ok |-> ok]
                ELSE Idle]
  /\ UNCHANGED <<hubVars, stored, content, pageVars>>

Store(p) ==
  /\ task[p].todo = "store"
  /\ stored' = stored \cup {task[p].device}
  /\ Todo(p, "publish")
  /\ UNCHANGED <<hubVars, audit, content, pageVars>>

\* After a success has been audited the files cannot be written, the answer
\* cannot be made, or another result of the same CHECK is looked at next.
GiveUp(p) ==
  /\ task[p].todo \in {"store", "publish"} /\ task[p].ok
  /\ task' = [task EXCEPT ![p] = Idle]
  /\ UNCHANGED <<hubVars, audit, stored, content, pageVars>>

PublishResult(p) ==
  /\ task[p].todo = "publish"
  /\ Publish(p)
  /\ content' = Append(content, [device |-> task[p].device, ok |-> task[p].ok])
  /\ task' = [task EXCEPT ![p] = Idle]
  /\ UNCHANGED <<audit, stored, pageVars>>

Deliver(p, s) == Put(p, s) /\ UNCHANGED <<serverVars, pageVars>>
Delivered(p)  == PublishReturn(p) /\ UNCHANGED <<serverVars, pageVars>>

-----------------------------------------------------------------------------
(* /topology: loadDashboard asks, the server reads the log, then the store.*)
Findings(d, log) == Assess(d, Access[d], FALSE, Risks, log)
Node(d, log, store) == [severity |-> Highest(Findings(d, log)), snapshot |-> d \in store]

Ask(l) ==
  /\ load[l] = "idle"
  /\ load' = [load EXCEPT ![l] = "asked"]
  /\ UNCHANGED <<hubVars, serverVars, events, answer, loaded, rows>>

ReadAudit(l) ==
  /\ load[l] = "asked"
  /\ load' = [load EXCEPT ![l] = "read"]
  /\ events' = [events EXCEPT ![l] = Recent(audit, Window)]
  /\ UNCHANGED <<hubVars, serverVars, answer, loaded, rows>>

AnswerTopology(l) ==
  /\ load[l] = "read"
  /\ load' = [load EXCEPT ![l] = "answered"]
  /\ answer' = [answer EXCEPT ![l] = [d \in Devices |-> Node(d, events[l], stored)]]
  /\ events' = [events EXCEPT ![l] = <<>>]
  /\ UNCHANGED <<hubVars, serverVars, loaded, rows>>

\* Whatever the stream has patched meanwhile is replaced.
ShowTopology(l) ==
  /\ load[l] = "answered"
  /\ load' = [load EXCEPT ![l] = "idle"]
  /\ rows' = answer[l] /\ loaded' = TRUE
  /\ answer' = [answer EXCEPT ![l] = Blank]
  /\ UNCHANGED <<hubVars, serverVars, events>>

LoadFails(l) ==
  /\ load[l] # "idle"
  /\ load' = [load EXCEPT ![l] = "idle"]
  /\ events' = [events EXCEPT ![l] = <<>>] /\ answer' = [answer EXCEPT ![l] = Blank]
  /\ UNCHANGED <<hubVars, serverVars, loaded, rows>>

-----------------------------------------------------------------------------
(* The stream, opened once a load has succeeded.                           *)
Connect(s) ==
  /\ loaded
  /\ \A t \in Streams : stream[t] \notin {"snapshot", "open"}
  /\ Subscribe(s)
  /\ UNCHANGED <<serverVars, pageVars>>

\* Mutants: the event is applied to every row; a failure only takes the
\* snapshot away.
PatchedAll(payload) ==
  [d \in Devices |->
     [severity |-> IF payload.ok THEN rows[d].severity ELSE "critical", snapshot |-> payload.ok]]
PatchedSnapshotOnly(payload) == [rows EXCEPT ![payload.device].snapshot = payload.ok]
\* applyTopologyMonitoringPatch: a failure makes the row critical, a success
\* leaves its severity alone.
Patched(payload) ==
  [rows EXCEPT ![payload.device] =
     [severity |-> IF payload.ok THEN @.severity ELSE "critical", snapshot |-> payload.ok]]

ShowFrame(s) ==
  /\ Yield(s)
  /\ rows' = IF shown'[s] = 0 THEN rows ELSE Patched(content[shown'[s]])
  /\ UNCHANGED <<serverVars, load, events, answer, loaded>>

Disconnect(s)  == Close(s) /\ UNCHANGED <<serverVars, pageVars>>
Unregister(s)  == Unsubscribe(s) /\ UNCHANGED <<serverVars, pageVars>>

-----------------------------------------------------------------------------
DashNext ==
  \/ \E p \in Publishers, d \in Devices, ok, returned \in BOOLEAN : Result(p, d, ok, returned)
  \/ \E p \in Publishers : Store(p) \/ GiveUp(p) \/ PublishResult(p) \/ Delivered(p)
  \/ \E p \in Publishers, s \in Streams : Deliver(p, s)
  \/ \E l \in Loads : Ask(l) \/ ReadAudit(l) \/ AnswerTopology(l) \/ ShowTopology(l) \/ LoadFails(l)
  \/ \E s \in Streams : Connect(s) \/ ShowFrame(s) \/ Disconnect(s) \/ Unregister(s)

DashSpec == DashInit /\ [][DashNext]_dashVars

\* The fairness of the hub: nobody has to collect, load, connect or leave.
DashFairness ==
  /\ \A p \in Publishers : WF_dashVars(Delivered(p))
  /\ \A p \in Publishers, s \in Streams : WF_dashVars(Deliver(p, s))
  /\ \A s \in Streams : WF_dashVars(ShowFrame(s)) /\ WF_dashVars(Unregister(s))

FairDashSpec == DashSpec /\ DashFairness

-----------------------------------------------------------------------------
Failed(d) == FailedEvents(d, audit) # {}
\* What the inventory and the risk register have against d, log or no log.
Standing(d) ==
  {RiskSeverity(r.severity) : r \in KnownRisks(d, Risks)}
    \cup (IF Access[d] \in {"telnet", "unknown"} THEN {"warning"} ELSE {"info"})

\* A row says that a snapshot is available only if an observation of its
\* device is in the store, whichever of load and stream wrote it last.
NoPhantomSnapshot == \A d \in Devices : rows[d].snapshot => d \in stored

\* A loaded row never hides what the inventory and the risk register say of
\* its device, and is worse than that only when the log has a failure of it.
RowsExplained ==
  loaded => \A d \in Devices :
    /\ \A severity \in Standing(d) : Rank(rows[d].severity) >= Rank(severity)
    /\ rows[d].severity \in Standing(d) \/ Failed(d)

\* A failure published while the page is connected turns its row critical,
\* unless the connection breaks first.  (A load may turn it back.)
FailureReachesRow ==
  \A s \in Streams, d \in Devices :
    (/\ s \in subscribers /\ since[s] < state /\ state \notin seen[s]
     /\ content[state] = [device |-> d, ok |-> FALSE])
      ~> (rows[d].severity = "critical" \/ stream[s] \in {"closed", "gone"})
=============================================================================

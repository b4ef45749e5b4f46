-------------------------- MODULE DashboardProofs --------------------------
(***************************************************************************)
(* Proofs about Dashboard, for any inventory, risk register, number of     *)
(* requests, streams and loads, and any window of the audit log: the       *)
(* composition implements the monitoring hub, and its rows are explained   *)
(* by the store, the log and the register.                                 *)
(***************************************************************************)
EXTENDS Dashboard, MonitoringHubProofs

Outcome == [device : Devices, ok : BOOLEAN]
Row     == [severity : Severities, snapshot : BOOLEAN]
Tasks   == [todo : {"nothing", "store", "publish"},
            device : Devices \cup {Idle.device}, ok : BOOLEAN]

DashTyped ==
  /\ audit \in Seq(Outcome)
  /\ stored \subseteq Devices
  /\ task \in [Publishers -> Tasks]
  /\ content \in Seq(Outcome)
  /\ load \in [Loads -> {"idle", "asked", "read", "answered"}]
  /\ events \in [Loads -> Seq(Outcome)]
  /\ answer \in [Loads -> [Devices -> Row]]
  /\ loaded \in BOOLEAN
  /\ rows \in [Devices -> Row]

\* What an outcome, a read of the log and a row rest on.
Grounded(o)      == (o.ok => o.device \in stored) /\ (~o.ok => Failed(o.device))
Witnessed(log)   == \A d \in Devices : FailedEvents(d, log) # {} => Failed(d)
Explained(d, severity) ==
  /\ \A s \in Standing(d) : Rank(severity) >= Rank(s)
  /\ severity \in Standing(d) \/ Failed(d)

\* A request publishes what is already in the log and in the store.
TaskInv ==
  \A p \in Publishers :
    /\ task[p].todo # "nothing" => task[p].device \in Devices
    /\ task[p].todo = "store" => task[p].ok
    /\ task[p].todo = "publish" => Grounded(task[p])

\* Each publish has its payload, and an open connection is registered, so that
\* what it yields is a payload.
ContentInv ==
  /\ Len(content) = state
  /\ \A v \in 1..Len(content) : Grounded(content[v])
  /\ \A s \in Streams : stream[s] \in {"snapshot", "open"} => s \in subscribers

LoadInv ==
  \A l \in Loads :
    /\ Witnessed(events[l])
    /\ \A d \in Devices :
         /\ answer[l][d].snapshot => d \in stored
         /\ load[l] = "answered" => Explained(d, answer[l][d].severity)

RowInv ==
  \A d \in Devices :
    /\ rows[d].snapshot => d \in stored
    /\ loaded => Explained(d, rows[d].severity)

DashInv == HubIInv /\ DashTyped /\ TaskInv /\ ContentInv /\ LoadInv /\ RowInv

-----------------------------------------------------------------------------
(* The severity of a node.                                                 *)
LEMMA RankFacts ==
  /\ \A s : Rank(s) \in 0..3
  /\ \A s \in Severities : Rank(s) \in 1..3
  /\ \A s, t \in Severities : Rank(s) = Rank(t) => s = t
  /\ Rank("info") = 1 /\ Rank("critical") = 3
  <1>1. /\ Rank("info") = 1 /\ Rank("warning") = 2 /\ Rank("critical") = 3
        /\ \A s : s \notin Severities => Rank(s) = 0
    BY DEF Rank, Severities
  <1>2. Severities = {"info", "warning", "critical"}
    BY DEF Severities
  <1>3. \A s \in Severities : Rank(s) \in 1..3
    BY <1>1, <1>2
  <1>4. \A s : Rank(s) \in 0..3
    <2> TAKE s
    <2>1. CASE s \in Severities
      BY <1>3, <2>1
    <2>2. CASE s \notin Severities
      BY <1>1, <2>2
    <2> QED BY <2>1, <2>2
  <1>5. \A s, t \in Severities : Rank(s) = Rank(t) => s = t
    BY <1>1, <1>2
  <1> QED BY <1>1, <1>3, <1>4, <1>5

LEMMA MaxOfRanks ==
  ASSUME NEW R \in SUBSET (1..3), R # {}
  PROVE  Max(R) \in R /\ \A x \in R : Max(R) >= x
  <1>1. \E m \in R : \A x \in R : m >= x
    <2>1. CASE 3 \in R
      BY <2>1
    <2>2. CASE 3 \notin R /\ 2 \in R
      BY <2>2
    <2>3. CASE 3 \notin R /\ 2 \notin R
      <3>1. \A x \in R : x \in Int /\ x >= 1 /\ x =< 3
        OBVIOUS
      <3>2. \A x \in R : x = 1
        BY <2>3, <3>1
      <3>3. PICK m \in R : TRUE
        OBVIOUS
      <3>4. \A x \in R : m >= x
        BY <3>1, <3>2
      <3> QED BY <3>4
    <2> QED BY <2>1, <2>2, <2>3
  <1> QED BY <1>1 DEF Max

\* The highest severity of some findings is the severity of one of them.
LEMMA HighestFacts ==
  ASSUME NEW F, F # {}, \A f \in F : f.severity \in Severities
  PROVE  /\ Highest(F) \in Severities
         /\ \A f \in F : Rank(Highest(F)) >= Rank(f.severity)
         /\ \E f \in F : Highest(F) = f.severity
  <1> DEFINE R == {Rank(f.severity) : f \in F} \cup {1}
  <1>1. R \in SUBSET (1..3) /\ R # {}
    BY RankFacts
  <1>2. Max(R) \in R /\ \A x \in R : Max(R) >= x
    BY <1>1, MaxOfRanks
  <1>3. \E f \in F : Rank(f.severity) = Max(R)
    <2>1. PICK f \in F : TRUE
      OBVIOUS
    <2>2. Rank(f.severity) \in R /\ Rank(f.severity) \in 1..3
      BY RankFacts
    <2>3. CASE Max(R) = 1
      <3>1. 1 >= Rank(f.severity)
        BY <1>2, <2>2, <2>3
      <3>2. \A n \in 1..3 : 1 >= n => n = 1
        OBVIOUS
      <3>3. Rank(f.severity) = 1
        BY <2>2, <3>1, <3>2
      <3> QED BY <2>3, <3>3, Zenon
    <2>4. CASE Max(R) # 1
      <3>1. \A x \in R : x # 1 => \E g \in F : Rank(g.severity) = x
        OBVIOUS
      <3>2. Max(R) \in R
        BY <1>2
      <3> HIDE DEF R
      <3> QED BY <2>4, <3>1, <3>2
    <2> QED BY <2>3, <2>4
  <1>4. Highest(F) = CHOOSE s \in Severities : Rank(s) = Max(R)
    BY DEF Highest
  <1>5. Highest(F) \in Severities /\ Rank(Highest(F)) = Max(R)
    BY <1>3, <1>4
  <1>6. \A f \in F : Rank(Highest(F)) >= Rank(f.severity)
    BY <1>2, <1>5
  <1>7. \E f \in F : Highest(F) = f.severity
    BY <1>3, <1>5, RankFacts
  <1> QED BY <1>5, <1>6, <1>7

\* A node is explained by whatever log it was made of, once the failures in
\* that log are failures on record.
LEMMA NodeFacts ==
  ASSUME NEW d \in Devices, NEW log, FailedEvents(d, log) # {} => Failed(d), NEW store
  PROVE  /\ Node(d, log, store).severity \in Severities
         /\ Node(d, log, store).snapshot = (d \in store)
         /\ Explained(d, Node(d, log, store).severity)
  <1> DEFINE F == Findings(d, log)
             h == Highest(F)
             ofAccess   == IF Access[d] \in {"telnet", "unknown"}
                           THEN {[severity |-> "warning", about |-> Access[d]]} ELSE {}
             ofRisks    == {[severity |-> RiskSeverity(r.severity), about |-> r.about]
                              : r \in KnownRisks(d, Risks)}
             ofFailures == IF FailedEvents(d, log) # {}
                           THEN {[severity |-> "warning", about |-> "failures"]} ELSE {}
             found == ofAccess \cup {} \cup ofRisks \cup ofFailures
  <1>1. F = IF found = {} THEN {[severity |-> "info", about |-> "none"]} ELSE found
    BY DEF Findings, Assess
  <1>2. F # {}
    BY <1>1
  <1>3. \A x : RiskSeverity(x) \in Severities
    BY DEF RiskSeverity, Severities
  <1>4. \A f \in found : f.severity \in Severities
    BY <1>3 DEF Severities
  <1>5. \A f \in F : f.severity \in Severities
    BY <1>1, <1>4 DEF Severities
  <1>6. \A f \in found : f.severity \in Standing(d) \/ Failed(d)
    BY DEF Standing
  <1>7. \A f \in F : f.severity \in Standing(d) \/ Failed(d)
    <2>1. CASE found = {}
      <3>1. Access[d] \notin {"telnet", "unknown"}
        BY <2>1
      <3>2. "info" \in Standing(d)
        BY <3>1 DEF Standing
      <3> QED BY <1>1, <2>1, <3>2
    <2>2. CASE found # {}
      BY <1>1, <1>6, <2>2
    <2> QED BY <2>1, <2>2
  <1>8. \A s \in Standing(d) : s = "info" \/ \E f \in F : f.severity = s
    <2>1. ASSUME NEW s \in Standing(d), s # "info" PROVE \E f \in found : f.severity = s
      <3>1. CASE \E r \in KnownRisks(d, Risks) : s = RiskSeverity(r.severity)
        <4>1. PICK r \in KnownRisks(d, Risks) : s = RiskSeverity(r.severity)
          BY <3>1
        <4>2. [severity |-> s, about |-> r.about] \in found
          BY <4>1
        <4> QED BY <4>2
      <3>2. CASE Access[d] \in {"telnet", "unknown"} /\ s = "warning"
        <4>1. [severity |-> "warning", about |-> Access[d]] \in found
          BY <3>2
        <4> QED BY <3>2, <4>1
      <3> QED BY <2>1, <3>1, <3>2 DEF Standing
    <2> QED BY <1>1, <2>1
  <1>9. /\ h \in Severities
        /\ \A f \in F : Rank(h) >= Rank(f.severity)
        /\ \E f \in F : h = f.severity
    BY <1>2, <1>5, HighestFacts
  <1>10. Rank(h) >= Rank("info")
    BY <1>9, RankFacts
  <1>11. Explained(d, h)
    BY <1>7, <1>8, <1>9, <1>10 DEF Explained
  <1> QED BY <1>9, <1>11 DEF Node

-----------------------------------------------------------------------------
(* The composition takes the steps of the hub.                             *)
LEMMA DashStepHub == [DashNext]_dashVars => [HubNext]_hubVars
  <1> SUFFICES ASSUME [DashNext]_dashVars PROVE HubNext \/ UNCHANGED hubVars
    BY DEF hubVars
  <1>1. CASE UNCHANGED dashVars
    BY <1>1 DEF dashVars
  <1>2. ASSUME NEW p \in Publishers,
               Store(p) \/ GiveUp(p) \/ PublishResult(p) \/ Delivered(p)
                 \/ \E d \in Devices, ok, returned \in BOOLEAN : Result(p, d, ok, returned)
        PROVE  HubNext \/ UNCHANGED hubVars
    BY <1>2 DEF Store, GiveUp, PublishResult, Delivered, Result, HubNext
  <1>3. ASSUME NEW p \in Publishers, NEW s \in Streams, Deliver(p, s)
        PROVE  HubNext
    BY <1>3 DEF Deliver, HubNext
  <1>4. ASSUME NEW l \in Loads,
               Ask(l) \/ ReadAudit(l) \/ AnswerTopology(l) \/ ShowTopology(l) \/ LoadFails(l)
        PROVE  UNCHANGED hubVars
    BY <1>4 DEF Ask, ReadAudit, AnswerTopology, ShowTopology, LoadFails
  <1>5. ASSUME NEW s \in Streams, Connect(s) \/ ShowFrame(s) \/ Disconnect(s) \/ Unregister(s)
        PROVE  HubNext
    BY <1>5 DEF Connect, ShowFrame, Disconnect, Unregister, HubNext
  <1> QED BY <1>1, <1>2, <1>3, <1>4, <1>5 DEF DashNext

\* The board's composition implements the monitoring hub: whatever collections,
\* loads and reconnections do around it, publish and event_stream keep their
\* promises (services/monitoring.py under collection_workflow.py and app.js).
THEOREM DashboardImplementsHub == DashSpec => HubSpec
  <1>1. DashInit => HubInit
    BY DEF DashInit
  <1> QED BY <1>1, DashStepHub, PTL DEF DashSpec, HubSpec

-----------------------------------------------------------------------------
(* Nothing a request, a load or a row rests on is ever taken back.         *)
Ground == stored \subseteq stored' /\ \A d : Failed(d) => Failed(d)'

LEMMA GroundSame == UNCHANGED <<audit, stored>> => Ground
  BY DEF Ground, Failed

LEMMA GroundAppend ==
  ASSUME audit \in Seq(Outcome), NEW o \in Outcome, audit' = Append(audit, o), UNCHANGED stored
  PROVE  Ground /\ (~o.ok => Failed(o.device)')
  <1>1. /\ Len(audit) \in Nat
        /\ Len(audit') = Len(audit) + 1
        /\ \A i \in 1..Len(audit) : audit'[i] = audit[i]
        /\ audit'[Len(audit) + 1] = o
        /\ audit' \in Seq(Outcome)
    BY AppendProperties
  <1>2. DOMAIN audit = 1..Len(audit) /\ DOMAIN audit' = 1..Len(audit')
    BY <1>1, LenProperties
  <1>3. ASSUME NEW d, Failed(d) PROVE Failed(d)'
    BY <1>1, <1>2, <1>3 DEF Failed, FailedEvents
  <1>4. ~o.ok => Failed(o.device)'
    BY <1>1, <1>2 DEF Failed, FailedEvents
  <1> QED BY <1>3, <1>4 DEF Ground

LEMMA TaskSame == ASSUME TaskInv, UNCHANGED task, Ground PROVE TaskInv'
  BY DEF TaskInv, Grounded, Ground

LEMMA ContentSame ==
  ASSUME ContentInv, UNCHANGED <<content, state>>, Ground,
         \A s \in Streams : stream'[s] \in {"snapshot", "open"} => s \in subscribers'
  PROVE  ContentInv'
  BY DEF ContentInv, Grounded, Ground

LEMMA LoadSame == ASSUME LoadInv, UNCHANGED <<load, events, answer>>, Ground PROVE LoadInv'
  BY DEF LoadInv, Witnessed, Explained, Standing, Ground

LEMMA RowSame == ASSUME RowInv, UNCHANGED <<loaded, rows>>, Ground PROVE RowInv'
  BY DEF RowInv, Explained, Standing, Ground

-----------------------------------------------------------------------------
LEMMA HubKept == ASSUME DashInv, [DashNext]_dashVars PROVE HubIInv'
  BY DashStepHub, HubNextIInv DEF DashInv

LEMMA DashInitInv == DashInit => DashInv
  <1> SUFFICES ASSUME DashInit PROVE DashInv
    OBVIOUS
  <1>1. HubIInv
    BY HubInitIInv DEF DashInit
  <1>2. DashTyped
    BY EmptySeq DEF DashInit, DashTyped, Tasks, Idle, Blank, Row, Severities
  <1>3. TaskInv
    BY DEF DashInit, TaskInv, Idle
  <1>4. ContentInv
    BY DEF DashInit, HubInit, ContentInv
  <1>5. LoadInv /\ RowInv
    BY DEF DashInit, LoadInv, RowInv, Blank, Witnessed, FailedEvents
  <1> QED BY <1>1, <1>2, <1>3, <1>4, <1>5 DEF DashInv

(* The steps of the request threads.                                       *)
LEMMA ResultInv ==
  ASSUME DashInv, NEW p \in Publishers, NEW d \in Devices, NEW ok \in BOOLEAN,
         NEW returned \in BOOLEAN, Result(p, d, ok, returned), HubIInv'
  PROVE  DashInv'
  <1> DEFINE o == [device |-> d, ok |-> ok]
             next == IF returned THEN [todo |-> IF ok THEN "store" ELSE "publish", device |-> d, ok |-> ok]
                     ELSE Idle
  <1>0. /\ DashTyped /\ TaskInv /\ ContentInv /\ LoadInv /\ RowInv
        /\ o \in Outcome /\ o.device = d /\ o.ok = ok
    BY DEF DashInv, Outcome
  <1>1. /\ audit' = Append(audit, o)
        /\ task' = [task EXCEPT ![p] = next]
        /\ UNCHANGED <<hubVars, stored, content, pageVars>>
    BY DEF Result
  <1>2. Ground /\ (~ok => Failed(d)')
    BY <1>0, <1>1, GroundAppend DEF DashTyped
  <1>3. next \in Tasks
    BY DEF Tasks, Idle
  <1>4. DashTyped'
    <2>1. audit' \in Seq(Outcome)
      BY <1>0, <1>1, AppendProperties DEF DashTyped
    <2> QED BY <1>0, <1>1, <1>3, <2>1 DEF DashTyped, pageVars
  <1>5. TaskInv'
    <2> SUFFICES ASSUME NEW q \in Publishers
                 PROVE  /\ task'[q].todo # "nothing" => task'[q].device \in Devices
                        /\ task'[q].todo = "store" => task'[q].ok
                        /\ task'[q].todo = "publish" => Grounded(task[q])'
      BY DEF TaskInv
    <2>1. CASE q # p
      BY <1>0, <1>1, <1>2, <2>1 DEF TaskInv, Grounded, Ground, DashTyped
    <2>2. CASE q = p
      BY <1>0, <1>1, <1>2, <2>2 DEF Idle, Grounded, DashTyped
    <2> QED BY <2>1, <2>2
  <1>6. ContentInv'
    BY <1>0, <1>1, <1>2, ContentSame DEF ContentInv, hubVars
  <1> QED BY <1>0, <1>1, <1>2, <1>4, <1>5, <1>6, LoadSame, RowSame DEF DashInv, pageVars

LEMMA DashStoreInv ==
  ASSUME DashInv, NEW p \in Publishers, Store(p), HubIInv'
  PROVE  DashInv'
  <1>0. /\ DashTyped /\ TaskInv /\ ContentInv /\ LoadInv /\ RowInv
        /\ task[p].device \in Devices /\ task[p].ok
    BY DEF DashInv, TaskInv, Store
  <1>1. /\ stored' = stored \cup {task[p].device}
        /\ task' = [task EXCEPT ![p].todo = "publish"]
        /\ UNCHANGED <<hubVars, audit, content, pageVars>>
    BY DEF Store, Todo
  <1>2. Ground
    BY <1>1 DEF Ground, Failed
  <1>3. DashTyped'
    BY <1>0, <1>1 DEF DashTyped, Tasks, pageVars
  <1>4. TaskInv'
    <2> SUFFICES ASSUME NEW q \in Publishers
                 PROVE  /\ task'[q].todo # "nothing" => task'[q].device \in Devices
                        /\ task'[q].todo = "store" => task'[q].ok
                        /\ task'[q].todo = "publish" => Grounded(task[q])'
      BY DEF TaskInv
    <2>1. CASE q # p
      BY <1>0, <1>1, <1>2, <2>1 DEF TaskInv, Grounded, Ground, DashTyped
    <2>2. CASE q = p
      <3>1. task'[p] = [task[p] EXCEPT !.todo = "publish"]
        BY <1>0, <1>1 DEF DashTyped
      <3>2. task'[p].device = task[p].device /\ task'[p].ok = task[p].ok /\ task'[p].todo = "publish"
        BY <1>0, <3>1 DEF DashTyped, Tasks
      <3> QED BY <1>0, <1>1, <2>2, <3>2 DEF Grounded
    <2> QED BY <2>1, <2>2
  <1>5. ContentInv'
    BY <1>0, <1>1, <1>2, ContentSame DEF ContentInv, hubVars
  <1> QED BY <1>0, <1>1, <1>2, <1>3, <1>4, <1>5, LoadSame, RowSame DEF DashInv, pageVars

LEMMA GiveUpInv ==
  ASSUME DashInv, NEW p \in Publishers, GiveUp(p), HubIInv'
  PROVE  DashInv'
  <1>0. DashTyped /\ TaskInv /\ ContentInv /\ LoadInv /\ RowInv
    BY DEF DashInv
  <1>1. task' = [task EXCEPT ![p] = Idle] /\ UNCHANGED <<hubVars, audit, stored, content, pageVars>>
    BY DEF GiveUp
  <1>2. Ground
    BY <1>1 DEF Ground, Failed
  <1>3. DashTyped'
    BY <1>0, <1>1 DEF DashTyped, Tasks, Idle, pageVars
  <1>4. TaskInv'
    <2> SUFFICES ASSUME NEW q \in Publishers
                 PROVE  /\ task'[q].todo # "nothing" => task'[q].device \in Devices
                        /\ task'[q].todo = "store" => task'[q].ok
                        /\ task'[q].todo = "publish" => Grounded(task[q])'
      BY DEF TaskInv
    <2>1. CASE q # p
      BY <1>0, <1>1, <1>2, <2>1 DEF TaskInv, Grounded, Ground, DashTyped
    <2>2. CASE q = p
      BY <1>0, <1>1, <1>2, <2>2 DEF Idle, Grounded, DashTyped
    <2> QED BY <2>1, <2>2
  <1>5. ContentInv'
    BY <1>0, <1>1, <1>2, ContentSame DEF ContentInv, hubVars
  <1> QED BY <1>0, <1>1, <1>2, <1>3, <1>4, <1>5, LoadSame, RowSame DEF DashInv, pageVars

LEMMA PublishResultInv ==
  ASSUME DashInv, NEW p \in Publishers, PublishResult(p), HubIInv'
  PROVE  DashInv'
  <1> DEFINE o == [device |-> task[p].device, ok |-> task[p].ok]
  <1>0. DashTyped /\ TaskInv /\ ContentInv /\ LoadInv /\ RowInv
    BY DEF DashInv
  <1>1. /\ content' = Append(content, o)
        /\ task' = [task EXCEPT ![p] = Idle]
        /\ state' = state + 1 /\ UNCHANGED <<subscribers, stream>>
        /\ UNCHANGED <<audit, stored, pageVars>>
    BY DEF PublishResult, Publish
  <1>2. Ground
    BY <1>1, GroundSame
  <1>3. o \in Outcome /\ Grounded(o)
    <2>1. task[p].todo = "publish" /\ task[p] \in Tasks
      BY <1>0 DEF PublishResult, DashTyped
    <2>2. task[p].device \in Devices /\ task[p].ok \in BOOLEAN /\ Grounded(task[p])
      BY <1>0, <2>1 DEF TaskInv, Tasks
    <2> QED BY <2>2 DEF Outcome, Grounded
  <1>4. /\ content' \in Seq(Outcome) /\ Len(content) \in Nat /\ Len(content') = Len(content) + 1
        /\ \A v \in 1..Len(content) : content'[v] = content[v]
        /\ content'[Len(content) + 1] = o
    BY <1>0, <1>1, <1>3, AppendProperties DEF DashTyped
  <1>5. DashTyped'
    BY <1>0, <1>1, <1>4 DEF DashTyped, Tasks, Idle, pageVars
  <1>6. TaskInv'
    BY <1>0, <1>1, <1>2 DEF TaskInv, Idle, Grounded, Ground, DashTyped
  <1>7. ContentInv'
    <2>1. ASSUME NEW v \in 1..Len(content') PROVE Grounded(content[v])'
      <3>1. CASE v \in 1..Len(content)
        <4>1. Grounded(content[v]) /\ content'[v] = content[v]
          BY <1>0, <1>4, <3>1 DEF ContentInv
        <4> QED BY <1>2, <4>1 DEF Grounded, Ground
      <3>2. CASE v = Len(content) + 1
        BY <1>2, <1>3, <1>4, <3>2 DEF Grounded, Ground
      <3> QED BY <1>4, <3>1, <3>2
    <2> QED BY <1>0, <1>1, <1>4, <2>1 DEF ContentInv
  <1> QED BY <1>0, <1>1, <1>2, <1>5, <1>6, <1>7, LoadSame, RowSame DEF DashInv, pageVars

-----------------------------------------------------------------------------
(* The steps of a load.                                                    *)
\* What is read of the log is a part of it.
LEMMA RecentFacts ==
  ASSUME audit \in Seq(Outcome)
  PROVE  Recent(audit, Window) \in Seq(Outcome) /\ Witnessed(Recent(audit, Window))
  <1> DEFINE n == Len(audit)
             R == {1, n - Window + 1}
             m == Max(R)
             recent == SubSeq(audit, m, n)
  <1>1. n \in Nat /\ Window \in Nat \ {0} /\ \A i \in 1..n : audit[i] \in Outcome
    BY LenProperties, ElementOfSeq, DashboardAssumption
  <1>2. m \in R /\ m >= 1
    <2>1. \E x \in R : \A y \in R : x >= y
      <3>1. CASE 1 >= n - Window + 1
        BY <1>1, <3>1
      <3>2. CASE ~(1 >= n - Window + 1)
        BY <1>1, <3>2
      <3> QED BY <3>1, <3>2
    <2> QED BY <2>1 DEF Max
  <1>3. m \in Int
    BY <1>1, <1>2
  <1> HIDE DEF m
  <1>4. \A i \in m..n : audit[i] \in Outcome
    BY <1>1, <1>2, <1>3
  <1>5. /\ recent \in Seq(Outcome)
        /\ Len(recent) = IF m =< n THEN n - m + 1 ELSE 0
        /\ \A i \in 1..(n - m + 1) : recent[i] = audit[m + i - 1]
    BY <1>1, <1>3, <1>4, SubSeqProperties
  <1>6. Recent(audit, Window) = recent
    BY DEF Recent, m
  <1> HIDE DEF recent
  <1>7. ASSUME NEW i \in DOMAIN recent PROVE \E k \in DOMAIN audit : recent[i] = audit[k]
    <2>1. i \in 1..Len(recent)
      BY <1>5, LenProperties
    <2>2. i \in Int /\ i >= 1 /\ i =< n - m + 1
      BY <1>1, <1>3, <1>5, <2>1
    <2>3. m + i - 1 \in 1..n /\ recent[i] = audit[m + i - 1]
      BY <1>1, <1>2, <1>3, <1>5, <2>2
    <2>4. DOMAIN audit = 1..n
      BY LenProperties
    <2> QED BY <2>3, <2>4
  <1>8. Witnessed(recent)
    BY <1>7 DEF Witnessed, Failed, FailedEvents
  <1> QED BY <1>5, <1>6, <1>8

LEMMA ReadAuditInv ==
  ASSUME DashInv, NEW l \in Loads, ReadAudit(l), HubIInv'
  PROVE  DashInv'
  <1>0. DashTyped /\ TaskInv /\ ContentInv /\ LoadInv /\ RowInv
    BY DEF DashInv
  <1>1. /\ load' = [load EXCEPT ![l] = "read"]
        /\ events' = [events EXCEPT ![l] = Recent(audit, Window)]
        /\ UNCHANGED <<hubVars, serverVars, answer, loaded, rows>>
    BY DEF ReadAudit
  <1>2. Ground
    BY <1>1, GroundSame DEF serverVars
  <1>3. Recent(audit, Window) \in Seq(Outcome) /\ Witnessed(Recent(audit, Window))
    BY <1>0, RecentFacts DEF DashTyped
  <1>4. DashTyped'
    BY <1>0, <1>1, <1>3 DEF DashTyped, serverVars
  <1>5. LoadInv'
    BY <1>0, <1>1, <1>2, <1>3 DEF LoadInv, DashTyped, Witnessed, Explained, Standing, Ground, serverVars
  <1>6. TaskInv' /\ ContentInv' /\ RowInv'
    BY <1>0, <1>1, <1>2, TaskSame, ContentSame, RowSame DEF ContentInv, hubVars, serverVars
  <1> QED BY <1>4, <1>5, <1>6 DEF DashInv

LEMMA AnswerTopologyInv ==
  ASSUME DashInv, NEW l \in Loads, AnswerTopology(l), HubIInv'
  PROVE  DashInv'
  <1> DEFINE nodes == [d \in Devices |-> Node(d, events[l], stored)]
  <1>0. DashTyped /\ TaskInv /\ ContentInv /\ LoadInv /\ RowInv
    BY DEF DashInv
  <1>1. /\ load' = [load EXCEPT ![l] = "answered"]
        /\ answer' = [answer EXCEPT ![l] = nodes]
        /\ events' = [events EXCEPT ![l] = <<>>]
        /\ UNCHANGED <<hubVars, serverVars, loaded, rows>>
    BY DEF AnswerTopology
  <1>2. Ground
    BY <1>1, GroundSame DEF serverVars
  <1>3. ASSUME NEW d \in Devices
        PROVE  /\ nodes[d].severity \in Severities
               /\ nodes[d].snapshot = (d \in stored)
               /\ Explained(d, nodes[d].severity)
    BY <1>0, NodeFacts DEF LoadInv, Witnessed
  <1>4. nodes \in [Devices -> Row]
    <2>1. ASSUME NEW d \in Devices PROVE nodes[d] \in Row
      <3>1. nodes[d] = [severity |-> Highest(Findings(d, events[l])), snapshot |-> d \in stored]
        BY DEF Node
      <3>2. nodes[d].severity = Highest(Findings(d, events[l]))
        BY <3>1
      <3>3. \A a \in Severities, b \in BOOLEAN : [severity |-> a, snapshot |-> b] \in Row
        BY DEF Row
      <3>4. (d \in stored) \in BOOLEAN
        OBVIOUS
      <3> HIDE DEF nodes
      <3>5. Highest(Findings(d, events[l])) \in Severities
        BY <1>3, <3>2, Zenon
      <3> QED BY <3>1, <3>3, <3>4, <3>5, Zenon
    <2> QED BY <2>1
  <1> HIDE DEF nodes
  <1>5. DashTyped'
    BY <1>0, <1>1, <1>4, EmptySeq DEF DashTyped, serverVars
  <1>6. LoadInv'
    <2> SUFFICES ASSUME NEW k \in Loads
                 PROVE  /\ Witnessed(events[k])'
                        /\ \A d \in Devices :
                             /\ answer'[k][d].snapshot => d \in stored'
                             /\ load'[k] = "answered" => Explained(d, answer[k][d].severity)'
      BY DEF LoadInv
    <2>1. CASE k # l
      BY <1>0, <1>1, <1>2, <2>1 DEF LoadInv, DashTyped, Witnessed, Explained, Standing, Ground, serverVars
    <2>2. CASE k = l
      <3>1. events'[k] = <<>> /\ answer'[k] = nodes /\ stored' = stored
        BY <1>0, <1>1, <2>2 DEF DashTyped, serverVars
      <3>2. Witnessed(events[k])'
        BY <3>1 DEF Witnessed, FailedEvents
      <3> QED BY <1>2, <1>3, <3>1, <3>2 DEF Explained, Standing, Ground
    <2> QED BY <2>1, <2>2
  <1>7. TaskInv' /\ ContentInv' /\ RowInv'
    BY <1>0, <1>1, <1>2, TaskSame, ContentSame, RowSame DEF ContentInv, hubVars, serverVars
  <1> QED BY <1>5, <1>6, <1>7 DEF DashInv

LEMMA ShowTopologyInv ==
  ASSUME DashInv, NEW l \in Loads, ShowTopology(l), HubIInv'
  PROVE  DashInv'
  <1>0. DashTyped /\ TaskInv /\ ContentInv /\ LoadInv /\ RowInv /\ load[l] = "answered"
    BY DEF DashInv, ShowTopology
  <1>1. /\ load' = [load EXCEPT ![l] = "idle"]
        /\ rows' = answer[l] /\ loaded' = TRUE
        /\ answer' = [answer EXCEPT ![l] = Blank]
        /\ UNCHANGED <<hubVars, serverVars, events>>
    BY DEF ShowTopology
  <1>2. Ground
    BY <1>1, GroundSame DEF serverVars
  <1>3. Blank \in [Devices -> Row] /\ \A d \in Devices : ~Blank[d].snapshot
    BY DEF Blank, Row, Severities
  <1>4. DashTyped'
    BY <1>0, <1>1, <1>3 DEF DashTyped, serverVars
  <1>5. LoadInv'
    BY <1>0, <1>1, <1>2, <1>3 DEF LoadInv, DashTyped, Witnessed, Explained, Standing, Ground, serverVars
  <1>6. RowInv'
    BY <1>0, <1>1, <1>2 DEF LoadInv, RowInv, Explained, Standing, Ground, serverVars
  <1>7. TaskInv' /\ ContentInv'
    BY <1>0, <1>1, <1>2, TaskSame, ContentSame DEF ContentInv, hubVars, serverVars
  <1> QED BY <1>4, <1>5, <1>6, <1>7 DEF DashInv

LEMMA QuietLoadInv ==
  ASSUME DashInv, NEW l \in Loads, Ask(l) \/ LoadFails(l), HubIInv'
  PROVE  DashInv'
  <1>0. DashTyped /\ TaskInv /\ ContentInv /\ LoadInv /\ RowInv
    BY DEF DashInv
  <1>1. /\ load' \in {[load EXCEPT ![l] = "asked"], [load EXCEPT ![l] = "idle"]}
        /\ answer' \in {answer, [answer EXCEPT ![l] = Blank]}
        /\ events' \in {events, [events EXCEPT ![l] = <<>>]}
        /\ UNCHANGED <<hubVars, serverVars, loaded, rows>>
    BY DEF Ask, LoadFails
  <1>2. Ground
    BY <1>1, GroundSame DEF serverVars
  <1>3. Blank \in [Devices -> Row] /\ \A d \in Devices : ~Blank[d].snapshot
    BY DEF Blank, Row, Severities
  <1>4. DashTyped'
    <2>1. load' \in [Loads -> {"idle", "asked", "read", "answered"}]
      BY <1>0, <1>1 DEF DashTyped
    <2>2. answer' \in [Loads -> [Devices -> Row]]
      BY <1>0, <1>1, <1>3 DEF DashTyped
    <2>3. events' \in [Loads -> Seq(Outcome)]
      <3>1. <<>> \in Seq(Outcome)
        BY EmptySeq
      <3> QED BY <1>0, <1>1, <3>1 DEF DashTyped
    <2> QED BY <1>0, <1>1, <2>1, <2>2, <2>3 DEF DashTyped, serverVars
  <1>5. LoadInv'
    <2> SUFFICES ASSUME NEW k \in Loads
                 PROVE  /\ Witnessed(events[k])'
                        /\ \A d \in Devices :
                             /\ answer'[k][d].snapshot => d \in stored'
                             /\ load'[k] = "answered" => Explained(d, answer[k][d].severity)'
      BY DEF LoadInv
    <2>1. CASE k # l
      BY <1>0, <1>1, <1>2, <2>1 DEF LoadInv, DashTyped, Witnessed, Explained, Standing, Ground, serverVars
    <2>2. CASE k = l
      <3>1. /\ load'[k] # "answered" /\ events'[k] \in {events[k], <<>>}
            /\ answer'[k] \in {answer[k], Blank} /\ stored' = stored
        BY <1>0, <1>1, <2>2 DEF DashTyped, serverVars
      <3>2. Witnessed(events[k])'
        BY <1>0, <1>2, <3>1 DEF LoadInv, Witnessed, FailedEvents, Ground
      <3> QED BY <1>0, <1>3, <3>1, <3>2 DEF LoadInv
    <2> QED BY <2>1, <2>2
  <1>6. TaskInv' /\ ContentInv' /\ RowInv'
    BY <1>0, <1>1, <1>2, TaskSame, ContentSame, RowSame DEF ContentInv, hubVars, serverVars
  <1> QED BY <1>4, <1>5, <1>6 DEF DashInv

-----------------------------------------------------------------------------
(* The steps of the stream.                                                *)
\* A frame is the empty state or one of the payloads published so far.
LEMMA FrameFacts ==
  ASSUME DashInv, NEW s \in Streams, Yield(s)
  PROVE  shown'[s] = 0 \/ shown'[s] \in 1..Len(content)
  <1>0. /\ HubTypeOK /\ StreamInv /\ NothingMissed /\ ContentInv
    BY DEF DashInv, HubIInv
  <1>1. state \in Nat /\ Len(content) = state
    BY <1>0, HubAssumption DEF HubTypeOK, ContentInv
  <1>2. CASE YieldSnapshot(s)
    <2>1. shown'[s] = since[s] /\ since[s] \in Nat /\ since[s] =< state
      BY <1>0, <1>2, HubAssumption DEF HubTypeOK, YieldSnapshot, StreamInv
    <2> QED BY <1>1, <2>1
  <1>3. CASE YieldEvent(s)
    <2>1. /\ shown'[s] = Head(inbox[s]) /\ inbox[s] # <<>> /\ inbox[s] \in Seq(Payloads)
          /\ s \in subscribers /\ since[s] \in Nat
      BY <1>0, <1>3, HubAssumption DEF HubTypeOK, YieldEvent, ContentInv
    <2>2. Head(inbox[s]) = inbox[s][1] /\ Len(inbox[s]) \in Nat /\ Len(inbox[s]) > 0
      BY <2>1, TailFacts
    <2>3. Head(inbox[s]) \in Queued(s)
      BY <2>2 DEF Queued
    <2>4. Head(inbox[s]) \in (since[s] + 1)..state
      BY <1>0, <2>1, <2>3 DEF NothingMissed
    <2> QED BY <1>1, <2>1, <2>4
  <1> QED BY <1>2, <1>3 DEF Yield

LEMMA ShowFrameInv ==
  ASSUME DashInv, NEW s \in Streams, ShowFrame(s), HubIInv'
  PROVE  DashInv'
  <1> DEFINE payload == content[shown'[s]]
  <1>0. DashTyped /\ TaskInv /\ ContentInv /\ LoadInv /\ RowInv
    BY DEF DashInv
  <1>1. /\ Yield(s)
        /\ rows' = IF shown'[s] = 0 THEN rows ELSE Patched(payload)
        /\ UNCHANGED <<serverVars, load, events, answer, loaded>>
    BY DEF ShowFrame
  <1>2. Ground
    BY <1>1, GroundSame DEF serverVars
  <1>3. ContentInv'
    <2>1. UNCHANGED <<state, subscribers>>
          /\ \A t \in Streams : stream'[t] \in {"snapshot", "open"} => stream[t] \in {"snapshot", "open"}
      BY <1>1 DEF Yield, YieldSnapshot, YieldEvent, DashInv, HubIInv, HubTypeOK
    <2> QED BY <1>0, <1>1, <1>2, <2>1, ContentSame DEF ContentInv, serverVars
  <1>4. TaskInv' /\ LoadInv'
    BY <1>0, <1>1, <1>2, TaskSame, LoadSame DEF serverVars
  <1>5. CASE shown'[s] = 0
    <2>1. UNCHANGED <<serverVars, pageVars>>
      BY <1>1, <1>5 DEF pageVars
    <2> QED BY <1>0, <1>2, <1>3, <1>4, <2>1, RowSame DEF DashInv, DashTyped, serverVars, pageVars
  <1>6. CASE shown'[s] # 0
    <2>1. payload \in Outcome /\ Grounded(payload)
      <3>1. shown'[s] \in 1..Len(content)
        BY <1>1, <1>6, FrameFacts
      <3> QED BY <1>0, <3>1, ElementOfSeq DEF DashTyped, ContentInv
    <2> DEFINE d == payload.device
               row == [severity |-> IF payload.ok THEN rows[d].severity ELSE "critical",
                       snapshot |-> payload.ok]
    <2>2. d \in Devices /\ payload.ok \in BOOLEAN
      BY <2>1 DEF Outcome
    <2>3. rows' = [rows EXCEPT ![d] = row]
      BY <1>1, <1>6 DEF Patched
    <2>4. row \in Row
      BY <1>0, <2>2 DEF DashTyped, Row, Severities
    <2> HIDE DEF payload
    <2>5. DashTyped'
      BY <1>0, <1>1, <2>2, <2>3, <2>4 DEF DashTyped, serverVars
    <2>6. loaded => Explained(d, row.severity)
      <3>1. CASE payload.ok
        BY <1>0, <2>2, <3>1 DEF RowInv
      <3>2. CASE ~payload.ok
        <4>1. Failed(d) /\ row.severity = "critical"
          BY <2>1, <3>2 DEF Grounded
        <4>2. \A x : Rank("critical") >= Rank(x)
          BY RankFacts
        <4> QED BY <4>1, <4>2 DEF Explained
      <3> QED BY <3>1, <3>2
    <2>7. row.snapshot => d \in stored
      BY <2>1 DEF Grounded
    <2> HIDE DEF d, row
    <2>8. RowInv'
      <3> SUFFICES ASSUME NEW c \in Devices
                   PROVE  /\ rows'[c].snapshot => c \in stored'
                          /\ loaded' => Explained(c, rows[c].severity)'
        BY DEF RowInv
      <3>0. stored' = stored /\ loaded' = loaded
        BY <1>1 DEF serverVars
      <3>1. CASE c = d
        <4>1. rows'[c] = row
          BY <1>0, <2>2, <2>3, <3>1 DEF DashTyped
        <4> QED BY <1>2, <2>6, <2>7, <3>0, <3>1, <4>1 DEF Explained, Standing, Ground
      <3>2. CASE c # d
        <4>1. rows'[c] = rows[c]
          BY <1>0, <2>2, <2>3, <3>2 DEF DashTyped
        <4> QED BY <1>0, <1>2, <3>0, <4>1 DEF RowInv, Explained, Standing, Ground
      <3> QED BY <3>1, <3>2
    <2> QED BY <1>3, <1>4, <2>5, <2>8 DEF DashInv
  <1> QED BY <1>5, <1>6

\* What the hub does alone leaves the log, the store and the page as they are.
LEMMA HubOnlyInv ==
  ASSUME DashInv, HubIInv', UNCHANGED <<serverVars, pageVars, state>>,
         \A s \in Streams : stream'[s] \in {"snapshot", "open"} => s \in subscribers'
  PROVE  DashInv'
  <1>0. DashTyped /\ TaskInv /\ ContentInv /\ LoadInv /\ RowInv
    BY DEF DashInv
  <1>1. Ground
    BY GroundSame DEF serverVars
  <1>2. DashTyped'
    BY <1>0 DEF DashTyped, serverVars, pageVars
  <1> QED BY <1>0, <1>1, <1>2, TaskSame, ContentSame, LoadSame, RowSame
             DEF DashInv, serverVars, pageVars

-----------------------------------------------------------------------------
LEMMA DashStepInv == DashInv /\ [DashNext]_dashVars => DashInv'
  <1> SUFFICES ASSUME DashInv, [DashNext]_dashVars PROVE DashInv'
    OBVIOUS
  <1>0. /\ HubIInv'
        /\ HubTypeOK /\ ContentInv
    BY HubKept DEF DashInv, HubIInv
  <1>1. CASE UNCHANGED dashVars
    BY <1>0, <1>1, HubOnlyInv DEF dashVars, hubVars, ContentInv
  <1>2. ASSUME NEW p \in Publishers, NEW d \in Devices, NEW ok \in BOOLEAN, NEW returned \in BOOLEAN,
               Result(p, d, ok, returned)
        PROVE  DashInv'
    BY <1>0, <1>2, ResultInv
  <1>3. ASSUME NEW p \in Publishers, Store(p) \/ GiveUp(p) \/ PublishResult(p) PROVE DashInv'
    BY <1>0, <1>3, DashStoreInv, GiveUpInv, PublishResultInv
  <1>4. ASSUME NEW p \in Publishers, Delivered(p) PROVE DashInv'
    BY <1>0, <1>4, HubOnlyInv DEF Delivered, PublishReturn, ContentInv
  <1>5. ASSUME NEW p \in Publishers, NEW s \in Streams, Deliver(p, s) PROVE DashInv'
    BY <1>0, <1>5, HubOnlyInv DEF Deliver, Put, ContentInv
  <1>6. ASSUME NEW l \in Loads,
               Ask(l) \/ ReadAudit(l) \/ AnswerTopology(l) \/ ShowTopology(l) \/ LoadFails(l)
        PROVE  DashInv'
    BY <1>0, <1>6, QuietLoadInv, ReadAuditInv, AnswerTopologyInv, ShowTopologyInv
  <1>7. ASSUME NEW s \in Streams, Connect(s) PROVE DashInv'
    BY <1>0, <1>7, HubOnlyInv DEF Connect, Subscribe, ContentInv, HubTypeOK
  <1>8. ASSUME NEW s \in Streams, ShowFrame(s) PROVE DashInv'
    BY <1>0, <1>8, ShowFrameInv
  <1>9. ASSUME NEW s \in Streams, Disconnect(s) \/ Unregister(s) PROVE DashInv'
    BY <1>0, <1>9, HubOnlyInv DEF Disconnect, Unregister, Close, Unsubscribe, ContentInv, HubTypeOK
  <1> QED BY <1>1, <1>2, <1>3, <1>4, <1>5, <1>6, <1>7, <1>8, <1>9 DEF DashNext

LEMMA DashInvariance == DashSpec => []DashInv
  BY DashInitInv, DashStepInv, PTL DEF DashSpec

\* No row of the board claims a snapshot that is not in the store, whichever of
\* load and stream wrote it (app.js applyTopologyMonitoringPatch and
\* loadDashboard against _collection_response).
THEOREM SnapshotsAreStored == DashSpec => []NoPhantomSnapshot
  <1>1. DashInv => NoPhantomSnapshot
    BY DEF DashInv, RowInv, NoPhantomSnapshot
  <1> QED BY <1>1, DashInvariance, PTL

\* No loaded row hides what the inventory and the register say of its device,
\* or is worse than the audit log explains (diagnostics.py assess_device_risks,
\* topology.py _highest_severity, app.js applyTopologyMonitoringPatch).
THEOREM RowsAreExplained == DashSpec => []RowsExplained
  <1>1. DashInv => RowsExplained
    BY DEF DashInv, RowInv, RowsExplained, Explained
  <1> QED BY <1>1, DashInvariance, PTL
=============================================================================

---------------------- MODULE CollectionWorkflowProofs ----------------------
(***************************************************************************)
(* Proofs about CollectionWorkflow, for any number of concurrent requests  *)
(* and any number of plans in a CHECK: the audit log, the store, the hub   *)
(* and the answers agree.                                                  *)
(***************************************************************************)
EXTENDS CollectionWorkflow, SequenceTheorems, TLAPS

Shown(r)     == \E i \in 1..Len(published) : published[i].req = r
Unlogged(r)  == ~LoggedOk(r, TRUE) /\ ~LoggedOk(r, FALSE)
\* What is said of one response that was given to the hub, see PublishedAgrees.
Fits(e) ==
  IF e.ok THEN e.req \in stored ELSE e.req \notin stored /\ LoggedOk(e.req, FALSE)
Untouched(r) == Unlogged(r) /\ r \notin stored /\ ~Shown(r)

\* What is on record of a request at each place of the code it can be in.
Stage(r) ==
  /\ pc[r] # "new" => kind[r] \in Kinds
  /\ pc[r] \notin {"done", "aborted"} => reply[r] = "none" /\ job[r] = "none" /\ ~Shown(r)
  /\ pc[r] \in {"new", "device", "plan", "support", "credential", "ready"} =>
       Untouched(r) /\ r \notin contacted
  /\ pc[r] \in {"raised", "collected", "store", "publish_success", "publish_failure"} => Direct(r)
  /\ pc[r] = "raised" => Untouched(r)
  /\ pc[r] = "collected" => ~LoggedOk(r, FALSE) /\ r \notin stored /\ results[r] # <<>>
  /\ pc[r] = "store" => /\ LoggedOk(r, TRUE) /\ ~LoggedOk(r, FALSE)
                        /\ r \notin stored /\ results[r] = <<>>
  /\ pc[r] = "publish_success" => r \in stored
  /\ pc[r] = "publish_failure" => LoggedOk(r, FALSE) /\ r \notin stored
  /\ job[r] # "none" => kind[r] \in Queued
  /\ r \in stored => Direct(r)

\* The functions of WfTypeOK with their ranges.
Typed ==
  /\ WfTypeOK
  /\ results \in [Requests -> Seq(Outcomes)]

WfInv ==
  /\ Typed
  /\ \A r \in Requests : Stage(r)
  /\ ContactIsAudited
  /\ RefusalIsAudited
  /\ AuditStopsAtFailure
  /\ StoredAfterAudit
  /\ PublishedAgrees

-----------------------------------------------------------------------------
(* What an append does to the log and to the responses published.          *)
LEMMA AuditAppend ==
  ASSUME WfTypeOK, AuditStopsAtFailure, NEW r \in Requests, NEW b \in BOOLEAN,
         Audited(r, b), ~LoggedOk(r, FALSE)
  PROVE  /\ audit' \in Seq([req : Requests, ok : BOOLEAN])
         /\ \A q \in Requests, x \in BOOLEAN :
              LoggedOk(q, x)' <=> LoggedOk(q, x) \/ (q = r /\ x = b)
         /\ AuditStopsAtFailure'
  <1> DEFINE e == [req |-> r, ok |-> b]
  <1>1. /\ audit \in Seq([req : Requests, ok : BOOLEAN])
        /\ audit' = Append(audit, e)
        /\ e \in [req : Requests, ok : BOOLEAN]
    BY DEF WfTypeOK, Audited
  <1>2. /\ audit' \in Seq([req : Requests, ok : BOOLEAN])
        /\ Len(audit) \in Nat
        /\ Len(audit') = Len(audit) + 1
        /\ \A i \in 1..Len(audit) : audit'[i] = audit[i]
        /\ audit'[Len(audit) + 1] = e
    BY <1>1, AppendProperties
  <1>3. ASSUME NEW q \in Requests, NEW x \in BOOLEAN
        PROVE  LoggedOk(q, x)' <=> LoggedOk(q, x) \/ (q = r /\ x = b)
    BY <1>2 DEF LoggedOk
  <1>4. \A i \in 1..Len(audit) : audit[i] \in [req : Requests, ok : BOOLEAN]
    BY <1>1, ElementOfSeq
  <1>5. \A i \in 1..Len(audit) : audit[i].req = r => audit[i].ok
    <2> SUFFICES ASSUME NEW i \in 1..Len(audit), audit[i].req = r, ~audit[i].ok
                 PROVE  FALSE
      OBVIOUS
    <2>1. audit[i] = [req |-> r, ok |-> FALSE]
      BY <1>4
    <2> QED BY <2>1 DEF LoggedOk
  <1>6. AuditStopsAtFailure'
    BY <1>2, <1>5 DEF AuditStopsAtFailure
  <1> QED BY <1>2, <1>3, <1>6

LEMMA SameLog ==
  ASSUME audit' = audit
  PROVE  /\ \A q, x : LoggedOk(q, x)' <=> LoggedOk(q, x)
         /\ AuditStopsAtFailure => AuditStopsAtFailure'
  BY DEF LoggedOk, AuditStopsAtFailure

LEMMA SameShown ==
  ASSUME published' = published
  PROVE  \A q : Shown(q)' <=> Shown(q)
  BY DEF Shown

-----------------------------------------------------------------------------
LEMMA WfInitInv == WfInit => WfInv
  <1> SUFFICES ASSUME WfInit PROVE WfInv
    OBVIOUS
  <1> USE DEF WfInit, Board!BoardInit
  <1>1. Typed
    BY EmptySeq DEF Typed, WfTypeOK, Board!Status, Board!Terminal, Replies
  <1>2. \A r \in Requests : Untouched(r)
    BY DEF Untouched, Unlogged, LoggedOk, Shown
  <1>3. \A r \in Requests : Stage(r)
    BY <1>2 DEF Stage, Untouched
  <1>4. ContactIsAudited /\ RefusalIsAudited /\ AuditStopsAtFailure
          /\ StoredAfterAudit /\ PublishedAgrees
    BY DEF ContactIsAudited, RefusalIsAudited, AuditStopsAtFailure, StoredAfterAudit, PublishedAgrees
  <1> QED BY <1>1, <1>3, <1>4 DEF WfInv

\* A step keeps the invariant when it writes nothing to log, store or hub and
\* answers no refusal: only the stage of the request may be disturbed.
LEMMA QuietStep ==
  ASSUME WfInv, Typed', \A r \in Requests : Stage(r)',
         UNCHANGED <<audit, stored, published>>,
         \A r \in Requests : reply'[r] \in {"400", "500"} => reply[r] = reply'[r],
         \A r \in Requests : Direct(r)' /\ r \in contacted' /\ pc'[r] = "done" =>
           Direct(r) /\ r \in contacted /\ pc[r] = "done",
         \A r \in stored : results'[r] = results[r]
  PROVE  WfInv'
  <1>1. /\ \A q, x : LoggedOk(q, x)' <=> LoggedOk(q, x)
        /\ AuditStopsAtFailure'
    BY SameLog DEF WfInv
  <1>2. ContactIsAudited'
    BY <1>1 DEF WfInv, ContactIsAudited
  <1>3. RefusalIsAudited'
    BY <1>1 DEF WfInv, RefusalIsAudited
  <1>4. StoredAfterAudit'
    BY <1>1 DEF WfInv, StoredAfterAudit
  <1>5. PublishedAgrees'
    BY <1>1 DEF WfInv, PublishedAgrees
  <1> QED BY <1>1, <1>2, <1>3, <1>4, <1>5 DEF WfInv

LEMMA ArriveInv == ASSUME WfInv, NEW r \in Requests, NEW k \in Kinds, Arrive(r, k) PROVE WfInv'
  <1>0. Typed /\ \A q \in Requests : Stage(q)
    BY DEF WfInv
  <1>1. \A q : (\A x : LoggedOk(q, x)' <=> LoggedOk(q, x)) /\ (Shown(q)' <=> Shown(q))
    BY SameLog, SameShown DEF Arrive
  <1>2. Typed'
    BY <1>0 DEF Typed, WfTypeOK, Arrive, Goto, queueVars
  <1>3. \A q \in Requests : Stage(q)'
    BY <1>0, <1>1 DEF Stage, Untouched, Unlogged, Direct, Arrive, Goto, queueVars, Typed, WfTypeOK
  <1>4. stored \subseteq Requests
    BY <1>0 DEF Typed, WfTypeOK
  <1> QED BY <1>0, <1>2, <1>3, <1>4, QuietStep DEF Arrive, Goto, queueVars, Direct, Typed, WfTypeOK

LEMMA PassInv == ASSUME WfInv, NEW r \in Requests, Pass(r) PROVE WfInv'
  <1>0. Typed /\ \A q \in Requests : Stage(q)
    BY DEF WfInv
  <1>1. \A q : (\A x : LoggedOk(q, x)' <=> LoggedOk(q, x)) /\ (Shown(q)' <=> Shown(q))
    BY SameLog, SameShown DEF Pass
  <1>2. Typed'
    BY <1>0 DEF Typed, WfTypeOK, Following, Goto, queueVars, Pass
  <1>3. \A q \in Requests : Stage(q)'
    BY <1>0, <1>1 DEF Stage, Untouched, Unlogged, Direct, Pass, Following, Goto, Answer, queueVars,
                      Kinds, Queued, Typed, WfTypeOK
  <1>4. UNCHANGED <<audit, stored, published>>
    BY DEF Pass
  <1>5. \A q \in Requests : reply'[q] \in {"400", "500"} => reply[q] = reply'[q]
    BY <1>0 DEF Pass, Goto, Answer, Typed, WfTypeOK
  <1>6. \A q \in Requests : Direct(q)' /\ q \in contacted' /\ pc'[q] = "done" =>
          Direct(q) /\ q \in contacted /\ pc[q] = "done"
    BY <1>0 DEF Pass, Following, Goto, Stage, Direct, Queued, Typed, WfTypeOK
  <1>7. \A q \in stored : results'[q] = results[q]
    BY <1>0 DEF Pass, Stage, Direct, Queued, Typed, WfTypeOK
  <1> QED BY <1>2, <1>3, <1>4, <1>5, <1>6, <1>7, QuietStep

LEMMA UnknownDeviceInv == ASSUME WfInv, NEW r \in Requests, UnknownDevice(r) PROVE WfInv'
  <1>0. Typed /\ \A q \in Requests : Stage(q)
    BY DEF WfInv
  <1>1. \A q : (\A x : LoggedOk(q, x)' <=> LoggedOk(q, x)) /\ (Shown(q)' <=> Shown(q))
    BY SameLog, SameShown DEF UnknownDevice
  <1>2. Typed'
    BY <1>0 DEF Typed, WfTypeOK, Goto, Answer, Replies, queueVars, UnknownDevice
  <1>3. \A q \in Requests : Stage(q)'
    BY <1>0, <1>1 DEF Stage, Untouched, Unlogged, Direct, UnknownDevice, Goto, Answer, queueVars,
                      Kinds, Queued, Typed, WfTypeOK
  <1>4. UNCHANGED <<audit, stored, published>>
    BY DEF UnknownDevice
  <1>5. \A q \in Requests : reply'[q] \in {"400", "500"} => reply[q] = reply'[q]
    BY <1>0 DEF UnknownDevice, Goto, Answer, Typed, WfTypeOK
  <1>6. \A q \in Requests : Direct(q)' /\ q \in contacted' /\ pc'[q] = "done" =>
          Direct(q) /\ q \in contacted /\ pc[q] = "done"
    BY <1>0 DEF UnknownDevice, Goto, Stage, Direct, Queued, Typed, WfTypeOK
  <1>7. \A q \in stored : results'[q] = results[q]
    BY <1>0 DEF UnknownDevice, Stage, Direct, Queued, Typed, WfTypeOK
  <1> QED BY <1>2, <1>3, <1>4, <1>5, <1>6, <1>7, QuietStep

LEMMA RunRaisesInv == ASSUME WfInv, NEW r \in Requests, RunRaises(r) PROVE WfInv'
  <1>0. Typed /\ \A q \in Requests : Stage(q)
    BY DEF WfInv
  <1>1. \A q : (\A x : LoggedOk(q, x)' <=> LoggedOk(q, x)) /\ (Shown(q)' <=> Shown(q))
    BY SameLog, SameShown DEF RunRaises
  <1>2. Typed'
    BY <1>0 DEF Typed, WfTypeOK, Goto, Answer, Replies, queueVars, RunRaises
  <1>3. \A q \in Requests : Stage(q)'
    BY <1>0, <1>1 DEF Stage, Untouched, Unlogged, Direct, RunRaises, Goto, Answer, queueVars,
                      Kinds, Queued, Typed, WfTypeOK
  <1>4. UNCHANGED <<audit, stored, published>>
    BY DEF RunRaises
  <1>5. \A q \in Requests : reply'[q] \in {"400", "500"} => reply[q] = reply'[q]
    BY <1>0 DEF RunRaises, Goto, Answer, Typed, WfTypeOK
  <1>6. \A q \in Requests : Direct(q)' /\ q \in contacted' /\ pc'[q] = "done" =>
          Direct(q) /\ q \in contacted /\ pc[q] = "done"
    BY <1>0 DEF RunRaises, Goto, Stage, Direct, Queued, Typed, WfTypeOK
  <1>7. \A q \in stored : results'[q] = results[q]
    BY <1>0 DEF RunRaises, Stage, Direct, Queued, Typed, WfTypeOK
  <1> QED BY <1>2, <1>3, <1>4, <1>5, <1>6, <1>7, QuietStep

LEMMA AbortInv == ASSUME WfInv, NEW r \in Requests, Abort(r) PROVE WfInv'
  <1>0. Typed /\ \A q \in Requests : Stage(q)
    BY DEF WfInv
  <1>1. \A q : (\A x : LoggedOk(q, x)' <=> LoggedOk(q, x)) /\ (Shown(q)' <=> Shown(q))
    BY SameLog, SameShown DEF Abort
  <1>2. Typed'
    BY <1>0 DEF Typed, WfTypeOK, Goto, Answer, Replies, queueVars, Abort
  <1>3. \A q \in Requests : Stage(q)'
    BY <1>0, <1>1 DEF Stage, Untouched, Unlogged, Direct, Abort, Goto, Answer, queueVars,
                      Kinds, Queued, Typed, WfTypeOK
  <1>4. UNCHANGED <<audit, stored, published>>
    BY DEF Abort
  <1>5. \A q \in Requests : reply'[q] \in {"400", "500"} => reply[q] = reply'[q]
    BY <1>0 DEF Abort, Goto, Answer, Typed, WfTypeOK
  <1>6. \A q \in Requests : Direct(q)' /\ q \in contacted' /\ pc'[q] = "done" =>
          Direct(q) /\ q \in contacted /\ pc[q] = "done"
    BY <1>0 DEF Abort, Goto, Stage, Direct, Queued, Typed, WfTypeOK
  <1>7. \A q \in stored : results'[q] = results[q]
    BY <1>0 DEF Abort, Stage, Direct, Queued, Typed, WfTypeOK
  <1> QED BY <1>2, <1>3, <1>4, <1>5, <1>6, <1>7, QuietStep

LEMMA RunInv == ASSUME WfInv, NEW r \in Requests, Run(r) PROVE WfInv'
  <1>0. Typed /\ \A q \in Requests : Stage(q)
    BY DEF WfInv
  <1>1. \A q : (\A x : LoggedOk(q, x)' <=> LoggedOk(q, x)) /\ (Shown(q)' <=> Shown(q))
    BY SameLog, SameShown DEF Run
  <1>8. PICK rs \in PlanResults(kind[r]) : results' = [results EXCEPT ![r] = rs]
    BY DEF Run
  <1>9. rs \in Seq(Outcomes) /\ rs # <<>>
    <2>1. \/ \E n \in 1..MaxPlans : rs \in [1..n -> Outcomes]
          \/ rs \in [1..1 -> Outcomes]
      BY <1>8 DEF PlanResults
    <2>4. \A n \in 1..MaxPlans : n \in Nat \ {0}
      BY WorkflowAssumption
    <2>2. PICK n \in Nat \ {0} : rs \in [1..n -> Outcomes]
      <3>1. CASE \E n \in 1..MaxPlans : rs \in [1..n -> Outcomes]
        BY <2>4, <3>1, Zenon
      <3>2. CASE rs \in [1..1 -> Outcomes]
        <4>1. 1 \in Nat \ {0}
          OBVIOUS
        <4> QED BY <3>2, <4>1, Zenon
      <3> QED BY <2>1, <3>1, <3>2
    <2>3. rs \in Seq(Outcomes) /\ DOMAIN rs = 1..n
      BY <2>2, SeqDef
    <2> QED BY <2>2, <2>3, EmptySeq
  <1>2. Typed'
    BY <1>0, <1>8, <1>9 DEF Typed, WfTypeOK, Run, Goto, queueVars
  <1>3. \A q \in Requests : Stage(q)'
    BY <1>0, <1>1, <1>8, <1>9 DEF Stage, Untouched, Unlogged, Direct, Run, Goto, queueVars,
                      Kinds, Queued, Typed, WfTypeOK
  <1>4. UNCHANGED <<audit, stored, published>>
    BY DEF Run
  <1>5. \A q \in Requests : reply'[q] \in {"400", "500"} => reply[q] = reply'[q]
    BY DEF Run
  <1>6. \A q \in Requests : Direct(q)' /\ q \in contacted' /\ pc'[q] = "done" =>
          Direct(q) /\ q \in contacted /\ pc[q] = "done"
    BY <1>0 DEF Run, Goto, Direct, Typed, WfTypeOK
  <1>7. \A q \in stored : results'[q] = results[q]
    BY <1>0, <1>8 DEF Run, Stage, Untouched, Typed, WfTypeOK
  <1> QED BY <1>2, <1>3, <1>4, <1>5, <1>6, <1>7, QuietStep

LEMMA EnqueueInv == ASSUME WfInv, NEW r \in Requests, Enqueue(r) PROVE WfInv'
  <1>0. Typed /\ \A q \in Requests : Stage(q)
    BY DEF WfInv
  <1>1. \A q : (\A x : LoggedOk(q, x)' <=> LoggedOk(q, x)) /\ (Shown(q)' <=> Shown(q))
    BY SameLog, SameShown DEF Enqueue
  <1>8. job' = [job EXCEPT ![r] = "queued"] /\ job' \in [Requests -> Board!Status]
    BY <1>0 DEF Enqueue, Board!Post, Board!Status, Typed, WfTypeOK
  <1>2. Typed'
    BY <1>0, <1>8 DEF Typed, WfTypeOK, Enqueue, Goto, Answer, Replies
  <1>3. \A q \in Requests : Stage(q)'
    BY <1>0, <1>1, <1>8 DEF Stage, Untouched, Unlogged, Direct, Enqueue, Goto, Answer,
                      Kinds, Queued, Typed, WfTypeOK
  <1>4. UNCHANGED <<audit, stored, published>>
    BY DEF Enqueue
  <1>5. \A q \in Requests : reply'[q] \in {"400", "500"} => reply[q] = reply'[q]
    BY <1>0 DEF Enqueue, Goto, Answer, Typed, WfTypeOK
  <1>6. \A q \in Requests : Direct(q)' /\ q \in contacted' /\ pc'[q] = "done" =>
          Direct(q) /\ q \in contacted /\ pc[q] = "done"
    BY <1>0 DEF Enqueue, Goto, Stage, Direct, Queued, Typed, WfTypeOK
  <1>7. \A q \in stored : results'[q] = results[q]
    BY <1>0 DEF Enqueue, Stage, Direct, Queued, Typed, WfTypeOK
  <1> QED BY <1>2, <1>3, <1>4, <1>5, <1>6, <1>7, QuietStep

LEMMA JobStartInv == ASSUME WfInv, NEW r \in Requests, JobStart(r) PROVE WfInv'
  <1>0. Typed /\ \A q \in Requests : Stage(q)
    BY DEF WfInv
  <1>1. \A q : (\A x : LoggedOk(q, x)' <=> LoggedOk(q, x)) /\ (Shown(q)' <=> Shown(q))
    BY SameLog, SameShown DEF JobStart
  <1>8. /\ job[r] = "queued" /\ job' = [job EXCEPT ![r] = "running"]
        /\ job' \in [Requests -> Board!Status]
    BY <1>0 DEF JobStart, Board!Start, Board!Status, Typed, WfTypeOK
  <1>2. Typed'
    BY <1>0, <1>8 DEF Typed, WfTypeOK, JobStart
  <1>3. \A q \in Requests : Stage(q)'
    BY <1>0, <1>1, <1>8 DEF Stage, Untouched, Unlogged, Direct, JobStart,
                      Kinds, Queued, Typed, WfTypeOK
  <1>4. UNCHANGED <<audit, stored, published>>
    BY DEF JobStart
  <1>5. \A q \in Requests : reply'[q] \in {"400", "500"} => reply[q] = reply'[q]
    BY <1>0 DEF JobStart, Goto, Answer, Typed, WfTypeOK
  <1>6. \A q \in Requests : Direct(q)' /\ q \in contacted' /\ pc'[q] = "done" =>
          Direct(q) /\ q \in contacted /\ pc[q] = "done"
    BY <1>0, <1>8 DEF JobStart, Goto, Stage, Direct, Queued, Typed, WfTypeOK
  <1>7. \A q \in stored : results'[q] = results[q]
    BY <1>0, <1>8 DEF JobStart, Stage, Direct, Queued, Typed, WfTypeOK
  <1> QED BY <1>2, <1>3, <1>4, <1>5, <1>6, <1>7, QuietStep

LEMMA JobEndInv == ASSUME WfInv, NEW r \in Requests, JobEnd(r) PROVE WfInv'
  <1>0. Typed /\ \A q \in Requests : Stage(q)
    BY DEF WfInv
  <1>1. \A q : (\A x : LoggedOk(q, x)' <=> LoggedOk(q, x)) /\ (Shown(q)' <=> Shown(q))
    BY SameLog, SameShown DEF JobEnd
  <1>8. PICK s \in Board!Terminal :
          /\ job[r] = "running" /\ job' = [job EXCEPT ![r] = s]
          /\ job' \in [Requests -> Board!Status]
    BY <1>0 DEF JobEnd, Board!End, Board!Terminal, Board!Status, Typed, WfTypeOK
  <1>9. /\ results' \in [Requests -> Seq(Outcomes)]
        /\ \A q \in Requests \ {r} : results'[q] = results[q]
    <2>1. CASE UNCHANGED results
      BY <1>0, <2>1 DEF Typed
    <2>2. CASE \E ok \in Outcomes : results' = [results EXCEPT ![r] = <<ok>>]
      BY <1>0, <2>2 DEF Typed
    <2> QED BY <2>1, <2>2 DEF JobEnd
  <1>2. Typed'
    BY <1>0, <1>8, <1>9 DEF Typed, WfTypeOK, JobEnd
  <1>3. \A q \in Requests : Stage(q)'
    BY <1>0, <1>1, <1>8, <1>9 DEF Stage, Untouched, Unlogged, Direct, JobEnd,
                      Kinds, Queued, Typed, WfTypeOK
  <1>4. UNCHANGED <<audit, stored, published>>
    BY DEF JobEnd
  <1>5. \A q \in Requests : reply'[q] \in {"400", "500"} => reply[q] = reply'[q]
    BY <1>0 DEF JobEnd, Goto, Answer, Typed, WfTypeOK
  <1>6. \A q \in Requests : Direct(q)' /\ q \in contacted' /\ pc'[q] = "done" =>
          Direct(q) /\ q \in contacted /\ pc[q] = "done"
    BY <1>0, <1>8, <1>9 DEF JobEnd, Goto, Stage, Direct, Queued, Typed, WfTypeOK
  <1>7. \A q \in stored : results'[q] = results[q]
    BY <1>0, <1>8, <1>9 DEF JobEnd, Stage, Direct, Queued, Typed, WfTypeOK
  <1> QED BY <1>2, <1>3, <1>4, <1>5, <1>6, <1>7, QuietStep

-----------------------------------------------------------------------------
\* A step that appends one event keeps the invariant when the request had no
\* failure on record and nothing in the store, and when a refusal it answers is
\* the first thing said of the request.
LEMMA LoggingStep ==
  ASSUME WfInv, NEW r \in Requests, NEW b \in BOOLEAN, Audited(r, b),
         ~LoggedOk(r, FALSE), r \notin stored,
         Typed', \A q \in Requests : Stage(q)',
         UNCHANGED <<kind, contacted, stored, published>>,
         \A q \in Requests \ {r} : pc'[q] = pc[q] /\ reply'[q] = reply[q] /\ results'[q] = results[q],
         reply'[r] \in {"400", "500"} => ~b /\ Untouched(r)
  PROVE  WfInv'
  <1>0. WfTypeOK /\ stored \subseteq Requests
    BY DEF WfInv, Typed, WfTypeOK
  <1>1. /\ \A q \in Requests, x \in BOOLEAN : LoggedOk(q, x)' <=> LoggedOk(q, x) \/ (q = r /\ x = b)
        /\ AuditStopsAtFailure'
    BY <1>0, AuditAppend DEF WfInv
  <1>2. ContactIsAudited'
    <2> SUFFICES ASSUME NEW q \in Requests, Direct(q)', q \in contacted', pc'[q] = "done"
                 PROVE  LoggedOk(q, TRUE)' \/ LoggedOk(q, FALSE)'
      BY DEF ContactIsAudited
    <2>1. CASE q = r
      BY <1>1, <2>1
    <2>2. CASE q # r
      BY <1>1, <2>2 DEF WfInv, ContactIsAudited, Direct
    <2> QED BY <2>1, <2>2
  <1>3. RefusalIsAudited'
    <2> SUFFICES ASSUME NEW q \in Requests, reply'[q] \in {"400", "500"}
                 PROVE  /\ LoggedOk(q, FALSE)' /\ ~LoggedOk(q, TRUE)'
                        /\ q \notin stored' /\ ~Shown(q)'
      BY DEF RefusalIsAudited, Shown
    <2>0. Shown(q)' <=> Shown(q)
      BY SameShown
    <2>1. CASE q = r
      BY <1>1, <2>0, <2>1 DEF Untouched, Unlogged
    <2>2. CASE q # r
      BY <1>1, <2>0, <2>2 DEF WfInv, RefusalIsAudited, Shown
    <2> QED BY <2>1, <2>2
  <1>4. StoredAfterAudit'
    <2> SUFFICES ASSUME NEW q \in stored
                 PROVE  LoggedOk(q, TRUE)' /\ ~LoggedOk(q, FALSE)' /\ results'[q] = <<>>
      BY DEF StoredAfterAudit
    <2> QED BY <1>0, <1>1 DEF WfInv, StoredAfterAudit
  <1>5. PublishedAgrees'
    <2>1. ASSUME NEW i \in 1..Len(published) PROVE published[i].req \in Requests
      <3>1. published \in Seq([req : Requests, ok : BOOLEAN])
        BY <1>0 DEF WfTypeOK
      <3>2. published[i] \in [req : Requests, ok : BOOLEAN]
        BY <3>1, ElementOfSeq
      <3> QED BY <3>2
    <2> QED BY <1>1, <2>1 DEF WfInv, PublishedAgrees
  <1> QED BY <1>1, <1>2, <1>3, <1>4, <1>5 DEF WfInv

LEMMA RefuseInv == ASSUME WfInv, NEW r \in Requests, Refuse(r) PROVE WfInv'
  <1>0. Typed /\ (\A q \in Requests : Stage(q)) /\ Untouched(r)
    BY DEF WfInv, Refuse, Stage
  <1>1. Audited(r, FALSE) /\ \A q : Shown(q)' <=> Shown(q)
    BY SameShown DEF Refuse
  <1>2. /\ audit' \in Seq([req : Requests, ok : BOOLEAN])
        /\ \A q \in Requests, x \in BOOLEAN : LoggedOk(q, x)' <=> LoggedOk(q, x) \/ (q = r /\ x = FALSE)
    BY <1>0, <1>1, AuditAppend DEF WfInv, Typed, Untouched, Unlogged
  <1>3. Typed'
    BY <1>0, <1>2 DEF Typed, WfTypeOK, Refuse, Goto, Answer, Replies, queueVars
  <1>4. \A q \in Requests : Stage(q)'
    BY <1>0, <1>1, <1>2 DEF Stage, Untouched, Unlogged, Direct, Refuse, Goto, Answer, queueVars,
                            Typed, WfTypeOK
  <1>5. /\ UNCHANGED <<kind, contacted, stored, published>>
        /\ \A q \in Requests \ {r} : pc'[q] = pc[q] /\ reply'[q] = reply[q] /\ results'[q] = results[q]
    BY <1>0 DEF Refuse, Goto, Answer, Typed, WfTypeOK
  <1> QED BY <1>0, <1>1, <1>3, <1>4, <1>5, LoggingStep DEF Untouched, Unlogged

LEMMA AnswerRaiseInv == ASSUME WfInv, NEW r \in Requests, AnswerRaise(r) PROVE WfInv'
  <1>0. Typed /\ (\A q \in Requests : Stage(q)) /\ Untouched(r)
    BY DEF WfInv, AnswerRaise, Stage
  <1>1. Audited(r, FALSE) /\ \A q : Shown(q)' <=> Shown(q)
    BY SameShown DEF AnswerRaise
  <1>2. /\ audit' \in Seq([req : Requests, ok : BOOLEAN])
        /\ \A q \in Requests, x \in BOOLEAN : LoggedOk(q, x)' <=> LoggedOk(q, x) \/ (q = r /\ x = FALSE)
    BY <1>0, <1>1, AuditAppend DEF WfInv, Typed, Untouched, Unlogged
  <1>3. Typed'
    BY <1>0, <1>2 DEF Typed, WfTypeOK, AnswerRaise, Goto, Answer, Replies, queueVars
  <1>4. \A q \in Requests : Stage(q)'
    BY <1>0, <1>1, <1>2 DEF Stage, Untouched, Unlogged, Direct, AnswerRaise, Goto, Answer, queueVars,
                            Typed, WfTypeOK
  <1>5. /\ UNCHANGED <<kind, contacted, stored, published>>
        /\ \A q \in Requests \ {r} : pc'[q] = pc[q] /\ reply'[q] = reply[q] /\ results'[q] = results[q]
    BY <1>0 DEF AnswerRaise, Goto, Answer, Typed, WfTypeOK
  <1> QED BY <1>0, <1>1, <1>3, <1>4, <1>5, LoggingStep DEF Untouched, Unlogged

LEMMA AuditResultInv == ASSUME WfInv, NEW r \in Requests, AuditResult(r) PROVE WfInv'
  <1> DEFINE b    == Head(results[r])
             next == IF ~b THEN "publish_failure"
                     ELSE IF Len(results[r]) > 1 THEN "collected" ELSE "store"
  <1>0. /\ Typed /\ \A q \in Requests : Stage(q)
        /\ ~LoggedOk(r, FALSE) /\ r \notin stored /\ reply[r] = "none"
    BY DEF WfInv, AuditResult, Stage
  <1>1. Audited(r, b) /\ \A q : Shown(q)' <=> Shown(q)
    BY SameShown DEF AuditResult
  <1>2. /\ b \in BOOLEAN
        /\ Tail(results[r]) \in Seq(Outcomes)
        /\ Len(results[r]) > 1 => Tail(results[r]) # <<>>
        /\ ~(Len(results[r]) > 1) => Tail(results[r]) = <<>>
    <2>1. results[r] \in Seq(Outcomes) /\ results[r] # <<>>
      BY <1>0 DEF Typed, AuditResult
    <2>2. Len(results[r]) \in Nat
      BY <2>1, LenProperties
    <2>3. /\ b \in Outcomes
          /\ Tail(results[r]) \in Seq(Outcomes)
          /\ Len(Tail(results[r])) = Len(results[r]) - 1
      BY <2>1, HeadTailProperties
    <2>4. b \in BOOLEAN
      BY <2>3 DEF Outcomes
    <2>5. Len(results[r]) > 0
      BY <2>1, <2>2, EmptySeq
    <2>6. Tail(results[r]) = <<>> <=> Len(Tail(results[r])) = 0
      BY <2>3, EmptySeq
    <2>7. Len(results[r]) > 1 <=> Len(Tail(results[r])) # 0
      <3> DEFINE n == Len(results[r])
                 m == Len(Tail(results[r]))
      <3>1. n \in Nat /\ m = n - 1 /\ n > 0
        BY <2>2, <2>3, <2>5
      <3> HIDE DEF n, m
      <3>2. n > 1 <=> m # 0
        BY <3>1
      <3> QED BY <3>2 DEF n, m
    <2> QED BY <2>3, <2>4, <2>6, <2>7, Zenon
  <1>3. /\ audit' \in Seq([req : Requests, ok : BOOLEAN])
        /\ \A q \in Requests, x \in BOOLEAN : LoggedOk(q, x)' <=> LoggedOk(q, x) \/ (q = r /\ x = b)
    BY <1>0, <1>1, <1>2, AuditAppend DEF WfInv, Typed
  <1>4. /\ pc' = [pc EXCEPT ![r] = next]
        /\ results' = [results EXCEPT ![r] = Tail(results[r])]
        /\ next \in {"publish_failure", "collected", "store"}
        /\ UNCHANGED <<kind, contacted, stored, published, reply, job, view>>
    BY <1>0 DEF AuditResult, Goto, queueVars, Typed, WfTypeOK
  <1>5. Typed'
    BY <1>0, <1>2, <1>3, <1>4 DEF Typed, WfTypeOK
  <1>6. \A q \in Requests : Stage(q)'
    <2> SUFFICES ASSUME NEW q \in Requests PROVE Stage(q)'
      OBVIOUS
    <2>0. pc[r] = "collected"
      BY DEF AuditResult
    <2>1. CASE q # r
      BY <1>0, <1>1, <1>3, <1>4, <2>1 DEF Stage, Untouched, Unlogged, Direct, Typed, WfTypeOK
    <2>2. CASE q = r
      <3>1. /\ Direct(r)' /\ kind'[r] \in Kinds
            /\ reply'[r] = "none" /\ job'[r] = "none" /\ ~Shown(r)' /\ r \notin stored'
        BY <1>0, <1>1, <1>4, <2>0 DEF Stage, Direct
      <3>2. pc'[r] = next /\ results'[r] = Tail(results[r])
        BY <1>0, <1>4 DEF Typed, WfTypeOK
      <3>3. next = "publish_failure" => LoggedOk(r, FALSE)'
        BY <1>2, <1>3
      <3>4. next \in {"collected", "store"} => ~LoggedOk(r, FALSE)' /\ LoggedOk(r, TRUE)'
        BY <1>0, <1>2, <1>3
      <3>5. /\ next = "collected" => Tail(results[r]) # <<>>
            /\ next = "store" => Tail(results[r]) = <<>>
        BY <1>2
      <3> HIDE DEF next
      <3> QED BY <1>4, <2>2, <3>1, <3>2, <3>3, <3>4, <3>5 DEF Stage
    <2> QED BY <2>1, <2>2
  <1>7. \A q \in Requests \ {r} : pc'[q] = pc[q] /\ reply'[q] = reply[q] /\ results'[q] = results[q]
    BY <1>0, <1>4 DEF Typed, WfTypeOK
  <1>8. reply'[r] \notin {"400", "500"}
    BY <1>0, <1>4
  <1> QED BY <1>0, <1>1, <1>2, <1>4, <1>5, <1>6, <1>7, <1>8, LoggingStep

-----------------------------------------------------------------------------
LEMMA StoreInv == ASSUME WfInv, NEW r \in Requests, Store(r) PROVE WfInv'
  <1>0. /\ Typed /\ \A q \in Requests : Stage(q)
        /\ pc[r] = "store" /\ Direct(r) /\ reply[r] = "none" /\ ~Shown(r)
        /\ LoggedOk(r, TRUE) /\ ~LoggedOk(r, FALSE) /\ results[r] = <<>>
    BY DEF WfInv, Store, Stage
  <1>1. /\ \A q, x : LoggedOk(q, x)' <=> LoggedOk(q, x)
        /\ \A q : Shown(q)' <=> Shown(q)
        /\ AuditStopsAtFailure'
    BY SameLog, SameShown DEF Store, WfInv
  <1>2. Typed'
    BY <1>0 DEF Typed, WfTypeOK, Store, Goto, queueVars
  <1>3. \A q \in Requests : Stage(q)'
    BY <1>0, <1>1 DEF Stage, Untouched, Unlogged, Direct, Store, Goto, queueVars, Typed, WfTypeOK
  <1>4. ContactIsAudited'
    BY <1>0, <1>1 DEF WfInv, ContactIsAudited, Direct, Store, Goto, Typed, WfTypeOK
  <1>5. RefusalIsAudited'
    BY <1>0, <1>1 DEF WfInv, RefusalIsAudited, Store
  <1>6. StoredAfterAudit'
    BY <1>0, <1>1 DEF WfInv, StoredAfterAudit, Store
  <1>7. PublishedAgrees'
    <2>1. ASSUME NEW i \in 1..Len(published) PROVE published[i].req # r
      BY <1>0 DEF Shown
    <2> QED BY <1>0, <1>1, <2>1 DEF WfInv, PublishedAgrees, Store
  <1> QED BY <1>1, <1>2, <1>3, <1>4, <1>5, <1>6, <1>7 DEF WfInv

LEMMA PublishInv == ASSUME WfInv, NEW r \in Requests, Publish(r) PROVE WfInv'
  <1> DEFINE ok == pc[r] = "publish_success"
             e  == [req |-> r, ok |-> ok]
  <1>0. /\ Typed /\ \A q \in Requests : Stage(q)
        /\ Direct(r) /\ pc[r] \in {"publish_success", "publish_failure"}
        /\ ok => r \in stored
        /\ ~ok => r \notin stored /\ LoggedOk(r, FALSE)
    BY DEF WfInv, Publish, Stage
  <1>1. /\ \A q, x : LoggedOk(q, x)' <=> LoggedOk(q, x)
        /\ AuditStopsAtFailure'
    BY SameLog DEF Publish, WfInv
  <1>2. /\ published \in Seq([req : Requests, ok : BOOLEAN])
        /\ published' = Append(published, e)
        /\ e \in [req : Requests, ok : BOOLEAN]
    BY <1>0 DEF Typed, WfTypeOK, Publish
  <1>3. /\ published' \in Seq([req : Requests, ok : BOOLEAN])
        /\ Len(published) \in Nat
        /\ Len(published') = Len(published) + 1
        /\ \A i \in 1..Len(published) : published'[i] = published[i]
        /\ published'[Len(published) + 1] = e
    BY <1>2, AppendProperties
  <1>4. \A q : Shown(q)' <=> Shown(q) \/ q = r
    BY <1>3 DEF Shown
  <1>5. /\ reply' = [reply EXCEPT ![r] = IF ok THEN "success" ELSE "failure"]
        /\ pc' = [pc EXCEPT ![r] = "done"]
        /\ UNCHANGED <<kind, results, contacted, audit, stored, job, view>>
    BY DEF Publish, Answer, Goto, queueVars
  <1>6. Typed'
    BY <1>0, <1>3, <1>5 DEF Typed, WfTypeOK, Replies
  <1>7. \A q \in Requests : Stage(q)'
    BY <1>0, <1>1, <1>4, <1>5 DEF Stage, Untouched, Unlogged, Direct, Typed, WfTypeOK
  <1>8. ContactIsAudited'
    BY <1>0, <1>1, <1>5 DEF WfInv, ContactIsAudited, StoredAfterAudit, Direct, Typed, WfTypeOK
  <1>9. RefusalIsAudited'
    <2> SUFFICES ASSUME NEW q \in Requests, reply'[q] \in {"400", "500"}
                 PROVE  /\ LoggedOk(q, FALSE)' /\ ~LoggedOk(q, TRUE)'
                        /\ q \notin stored' /\ ~Shown(q)'
      BY DEF RefusalIsAudited, Shown
    <2>1. q # r /\ reply'[q] = reply[q]
      BY <1>0, <1>5 DEF Typed, WfTypeOK
    <2> QED BY <1>1, <1>4, <1>5, <2>1 DEF WfInv, RefusalIsAudited, Shown
  <1>10. StoredAfterAudit'
    BY <1>1, <1>5 DEF WfInv, StoredAfterAudit
  <1>11. PublishedAgrees'
    <2>1. ASSUME NEW i \in 1..Len(published') PROVE Fits(published[i])'
      <3>0. \A q : (LoggedOk(q, FALSE)' <=> LoggedOk(q, FALSE)) /\ (q \in stored' <=> q \in stored)
        BY <1>1, <1>5
      <3>1. CASE i \in 1..Len(published)
        <4>1. Fits(published[i])
          BY <3>1 DEF WfInv, PublishedAgrees, Fits
        <4>2. published'[i] = published[i]
          BY <1>3, <3>1
        <4> QED BY <3>0, <4>1, <4>2 DEF Fits
      <3>2. CASE i = Len(published) + 1
        <4>1. published'[i] = e /\ e.req = r /\ e.ok = ok
          BY <1>3, <3>2
        <4>2. Fits(e)
          BY <1>0 DEF Fits
        <4> QED BY <3>0, <4>1, <4>2 DEF Fits
      <3> QED BY <1>3, <3>1, <3>2
    <2> QED BY <2>1 DEF PublishedAgrees, Fits
  <1> QED BY <1>1, <1>6, <1>7, <1>8, <1>9, <1>10, <1>11 DEF WfInv

LEMMA StutterInv == ASSUME WfInv, UNCHANGED wfVars PROVE WfInv'
  <1>0. Typed /\ \A q \in Requests : Stage(q)
    BY DEF WfInv
  <1>1. \A q : (\A x : LoggedOk(q, x)' <=> LoggedOk(q, x)) /\ (Shown(q)' <=> Shown(q))
    BY SameLog, SameShown DEF wfVars
  <1>2. Typed'
    BY <1>0 DEF Typed, WfTypeOK, wfVars
  <1>3. \A q \in Requests : Stage(q)'
    BY <1>0, <1>1 DEF Stage, Untouched, Unlogged, Direct, wfVars
  <1> QED BY <1>2, <1>3, QuietStep DEF wfVars, Direct

LEMMA WfStepInv == WfInv /\ [WfNext]_wfVars => WfInv'
  <1> SUFFICES ASSUME WfInv, [WfNext]_wfVars PROVE WfInv'
    OBVIOUS
  <1>1. CASE UNCHANGED wfVars
    BY <1>1, StutterInv
  <1>2. CASE WfNext
    <2> PICK r \in Requests : \/ \E k \in Kinds : Arrive(r, k)
                              \/ Handle(r) \/ JobStart(r) \/ JobEnd(r)
      BY <1>2 DEF WfNext
    <2>1. CASE \E k \in Kinds : Arrive(r, k)
      BY <2>1, ArriveInv
    <2>2. CASE Handle(r)
      BY <2>2, PassInv, UnknownDeviceInv, RefuseInv, RunInv, RunRaisesInv, AnswerRaiseInv,
         AuditResultInv, StoreInv, PublishInv, AbortInv, EnqueueInv DEF Handle
    <2>3. CASE JobStart(r)
      BY <2>3, JobStartInv
    <2>4. CASE JobEnd(r)
      BY <2>4, JobEndInv
    <2> QED BY <2>1, <2>2, <2>3, <2>4
  <1> QED BY <1>1, <1>2

\* WfInv holds throughout, however many requests run at once.
THEOREM WorkflowInvariant == WfSpec => []WfInv
  <1> QED BY WfInitInv, WfStepInv, PTL DEF WfSpec

\* The types of the workflow's state (collection_workflow.py), for any number of
\* requests and of plans in a CHECK.
THEOREM WorkflowTypeCorrect == WfSpec => []WfTypeOK
  <1>1. WfInv => WfTypeOK
    BY DEF WfInv, Typed
  <1> QED BY <1>1, WorkflowInvariant, PTL

\* Whatever the interleaving, collect and check answer no client whose device
\* they contacted without an audit event (collection_workflow.py, collect and check).
THEOREM EveryContactIsAudited == WfSpec => []ContactIsAudited
  <1>1. WfInv => ContactIsAudited
    BY DEF WfInv
  <1> QED BY <1>1, WorkflowInvariant, PTL

\* A request answered 400 or 500 by the workflow is a failure in the audit log
\* and nowhere else (the _or_fail methods and the except clauses).
THEOREM EveryRefusalIsAudited == WfSpec => []RefusalIsAudited
  <1>1. WfInv => RefusalIsAudited
    BY DEF WfInv
  <1> QED BY <1>1, WorkflowInvariant, PTL

\* The first failed result of a CHECK, and every refusal, is the last event of
\* its request in the audit log (the loop of check).
THEOREM FailureIsLast == WfSpec => []AuditStopsAtFailure
  <1>1. WfInv => AuditStopsAtFailure
    BY DEF WfInv
  <1> QED BY <1>1, WorkflowInvariant, PTL

\* No observation is in the store before all its results are audited as
\* successes (the order of the calls in collect and check).
THEOREM AuditIsWrittenAhead == WfSpec => []StoredAfterAudit
  <1>1. WfInv => StoredAfterAudit
    BY DEF WfInv
  <1> QED BY <1>1, WorkflowInvariant, PTL

\* The responses the hub was given agree with the store and with the audit log,
\* in any interleaving of the requests.
THEOREM HubAgreesWithRecords == WfSpec => []PublishedAgrees
  <1>1. WfInv => PublishedAgrees
    BY DEF WfInv
  <1> QED BY <1>1, WorkflowInvariant, PTL
=============================================================================

------------------------ MODULE CollectionWorkflow ------------------------
(***************************************************************************)
(* services/collection_workflow.py: the four POST requests that reach a    *)
(* device (collect, check and their queued forms), and the trail each      *)
(* leaves in the audit log, the observation store and the monitoring hub.  *)
(* Requests run in threads of the server's pool and interleave at every    *)
(* step.  The store and the hub have modules of their own: here a store    *)
(* call either completes or raises, and a publish is one step.  The queue  *)
(* is the JobBoard that CollectionQueue implements.                        *)
(***************************************************************************)
EXTENDS Naturals, Sequences, FiniteSets, SequencesExt

CONSTANTS
  Requests,   \* the POST requests; a queued request's job has the same name
  MaxPlans    \* the largest number of plans in a CHECK

ASSUME WorkflowAssumption == MaxPlans \in Nat \ {0}

VARIABLES
  kind,       \* kind[r]: which endpoint, "none" before the request arrives
  pc,         \* where the request is
  results,    \* results[r]: the success of each result not yet audited; for
              \* a job, of what the adapter returned
  contacted,  \* the requests for which the command executor was called
  audit,      \* the audit log: [req, ok] events in the order appended
  stored,     \* the requests whose observation was stored
  published,  \* the responses given to the hub: [req, ok], in order
  reply,      \* reply[r]: the answer to the client
  job,        \* job[r]: the status of the queued job of r
  view        \* the job board's view, see JobBoard

wfVars == <<kind, pc, results, contacted, audit, stored, published, reply, job, view>>

Board == INSTANCE JobBoard WITH Clients <- Requests, Jobs <- Requests, board <- job

Queued == {"queued_collect", "queued_check"}
Kinds  == {"collect", "check"} \cup Queued
Replies == {"none", "queued", "success", "failure", "400", "404", "500", "uncaught"}

\* The checks a request passes, in the order of the code; a CHECK has no
\* purpose that could be refused.
Following(k, stage) ==
  CASE stage = "device"  -> IF k \in {"check", "queued_check"} THEN "support" ELSE "plan"
    [] stage = "plan"    -> "support"
    [] stage = "support" -> "credential"
    [] OTHER             -> "ready"

Outcomes == BOOLEAN
PlanResults(k) ==
  IF k = "check" THEN UNION {[1..n -> Outcomes] : n \in 1..MaxPlans} ELSE [1..1 -> Outcomes]

WfTypeOK ==
  /\ kind \in [Requests -> Kinds \cup {"none"}]
  /\ pc \in [Requests -> {"new", "device", "plan", "support", "credential", "ready",
                          "raised", "collected", "store", "publish_success",
                          "publish_failure", "done", "aborted"}]
  /\ \A r \in Requests : results[r] \in Seq(Outcomes)
  /\ contacted \subseteq Requests
  /\ audit \in Seq([req : Requests, ok : BOOLEAN])
  /\ stored \subseteq Requests
  /\ published \in Seq([req : Requests, ok : BOOLEAN])
  /\ reply \in [Requests -> Replies]
  /\ job \in [Requests -> Board!Status]

WfInit ==
  /\ kind = [r \in Requests |-> "none"]
  /\ pc = [r \in Requests |-> "new"]
  /\ results = [r \in Requests |-> <<>>]
  /\ contacted = {}
  /\ audit = <<>>
  /\ stored = {}
  /\ published = <<>>
  /\ reply = [r \in Requests |-> "none"]
  /\ Board!BoardInit

-----------------------------------------------------------------------------
Goto(r, label)   == pc' = [pc EXCEPT ![r] = label]
Answer(r, text)  == reply' = [reply EXCEPT ![r] = text]
\* Mutant: the event is written without its success.
AuditedWithoutSuccess(r, ok) == audit' = Append(audit, [req |-> r])
Audited(r, ok)   == audit' = Append(audit, [req |-> r, ok |-> ok])
Log(events, r)   == SelectSeq(events, LAMBDA e : e.req = r)
queueVars        == <<job, view>>

Arrive(r, k) ==
  /\ pc[r] = "new"
  /\ kind' = [kind EXCEPT ![r] = k]
  /\ Goto(r, "device")
  /\ UNCHANGED <<results, contacted, audit, stored, published, reply, queueVars>>

(***************************************************************************)
(* The checks before the device is contacted.                              *)
(***************************************************************************)
Pass(r) ==
  /\ pc[r] \in {"device", "plan", "support", "credential"}
  /\ Goto(r, Following(kind[r], pc[r]))
  /\ UNCHANGED <<kind, results, contacted, audit, stored, published, reply, queueVars>>

\* _device_or_fail: answered, not audited.
UnknownDevice(r) ==
  /\ pc[r] = "device"
  /\ Answer(r, "404")
  /\ Goto(r, "done")
  /\ UNCHANGED <<kind, results, contacted, audit, stored, published, queueVars>>

\* Mutant: a refusal is answered without an audit event.
RefuseSilently(r) ==
  /\ pc[r] \in {"plan", "support", "credential"}
  /\ Answer(r, IF pc[r] = "credential" THEN "500" ELSE "400")
  /\ Goto(r, "done")
  /\ UNCHANGED <<kind, results, contacted, audit, stored, published, queueVars>>

\* _build_plan_or_fail, _require_supported, _credential_or_fail: audited first.
Refuse(r) ==
  /\ pc[r] \in {"plan", "support", "credential"}
  /\ Audited(r, FALSE)
  /\ Answer(r, IF pc[r] = "credential" THEN "500" ELSE "400")
  /\ Goto(r, "done")
  /\ UNCHANGED <<kind, results, contacted, stored, published, queueVars>>

(***************************************************************************)
(* collect and check: the executor is called in the request's own thread.  *)
(***************************************************************************)
\* It returns one result, or for a CHECK with an executor that has only run,
\* one for each plan; the whole tuple is there before the first is audited.
Run(r) ==
  /\ pc[r] = "ready"
  /\ kind[r] \notin Queued
  /\ contacted' = contacted \cup {r}
  /\ \E rs \in PlanResults(kind[r]) : results' = [results EXCEPT ![r] = rs]
  /\ Goto(r, "collected")
  /\ UNCHANGED <<kind, audit, stored, published, reply, queueVars>>

\* It raises, a timeout for example, possibly after some commands were sent.
RunRaises(r) ==
  /\ pc[r] = "ready"
  /\ kind[r] \notin Queued
  /\ contacted' = contacted \cup {r}
  /\ Goto(r, "raised")
  /\ UNCHANGED <<kind, results, audit, stored, published, reply, queueVars>>

\* Mutant: the except clause does not write the failure audit.
AnswerRaiseUnaudited(r) ==
  /\ pc[r] = "raised"
  /\ Answer(r, "500")
  /\ Goto(r, "done")
  /\ UNCHANGED <<kind, results, contacted, audit, stored, published, queueVars>>

AnswerRaise(r) ==
  /\ pc[r] = "raised"
  /\ Audited(r, FALSE)
  /\ Answer(r, "500")
  /\ Goto(r, "done")
  /\ UNCHANGED <<kind, results, contacted, stored, published, queueVars>>

\* Mutants: the loop of check goes on after a failed result; a result is not
\* audited when another follows; the observation is not stored.
AuditResultGoesOn(r) ==
  /\ pc[r] = "collected"
  /\ results[r] # <<>>
  /\ Audited(r, Head(results[r]))
  /\ results' = [results EXCEPT ![r] = Tail(@)]
  /\ Goto(r, IF Len(results[r]) > 1 THEN "collected"
             ELSE IF Head(results[r]) THEN "store" ELSE "publish_failure")
  /\ UNCHANGED <<kind, contacted, stored, published, reply, queueVars>>

AuditResultSkipsStore(r) ==
  /\ pc[r] = "collected"
  /\ results[r] # <<>>
  /\ Audited(r, Head(results[r]))
  /\ results' = [results EXCEPT ![r] = Tail(@)]
  /\ Goto(r, IF ~Head(results[r]) THEN "publish_failure"
             ELSE IF Len(results[r]) > 1 THEN "collected" ELSE "publish_success")
  /\ UNCHANGED <<kind, contacted, stored, published, reply, queueVars>>

\* The oldest result is audited; the first failed one ends the request.
AuditResult(r) ==
  /\ pc[r] = "collected"
  /\ results[r] # <<>>
  /\ Audited(r, Head(results[r]))
  /\ results' = [results EXCEPT ![r] = Tail(@)]
  /\ Goto(r, IF ~Head(results[r]) THEN "publish_failure"
             ELSE IF Len(results[r]) > 1 THEN "collected" ELSE "store")
  /\ UNCHANGED <<kind, contacted, stored, published, reply, queueVars>>

\* Mutant: the observation is stored as soon as there are results, before
\* they are audited.
StoreEarly(r) ==
  /\ pc[r] \in {"collected", "store"}
  /\ stored' = stored \cup {r}
  /\ Goto(r, IF pc[r] = "store" THEN "publish_success" ELSE "collected")
  /\ UNCHANGED <<kind, results, contacted, audit, published, reply, queueVars>>

Store(r) ==
  /\ pc[r] = "store"
  /\ stored' = stored \cup {r}
  /\ Goto(r, "publish_success")
  /\ UNCHANGED <<kind, results, contacted, audit, published, reply, queueVars>>

Publish(r) ==
  /\ pc[r] \in {"publish_success", "publish_failure"}
  /\ LET ok == pc[r] = "publish_success"
     IN  /\ published' = Append(published, [req |-> r, ok |-> ok])
         /\ Answer(r, IF ok THEN "success" ELSE "failure")
  /\ Goto(r, "done")
  /\ UNCHANGED <<kind, results, contacted, audit, stored, queueVars>>

\* The inventory cannot be read, the audit or the observation files cannot be
\* written, the port trace made of the observations cannot be built, the
\* executor raises what the except clauses do not name (a ValueError, text that
\* cannot be decoded), or the queue has been shut down and refuses the job: the
\* exception is not caught and the server answers 500 on its own.
Abort(r) ==
  /\ \/ pc[r] \in {"device", "plan", "support", "credential", "raised", "collected",
                   "store", "publish_success"}
     \/ pc[r] = "ready" /\ kind[r] \in Queued
  /\ Answer(r, "uncaught")
  /\ Goto(r, "aborted")
  /\ UNCHANGED <<kind, results, contacted, audit, stored, published, queueVars>>

(***************************************************************************)
(* enqueue_collect and enqueue_check: the plans go to the queue and the    *)
(* worker's adapter call is all that happens later.                        *)
(***************************************************************************)
Enqueue(r) ==
  /\ pc[r] = "ready"
  /\ kind[r] \in Queued
  /\ Board!Post(r, r)
  /\ Answer(r, "queued")
  /\ Goto(r, "done")
  /\ UNCHANGED <<kind, results, contacted, audit, stored, published>>

JobStart(r) ==
  /\ Board!Start(r)
  /\ contacted' = contacted \cup {r}
  /\ UNCHANGED <<kind, pc, results, audit, stored, published, reply>>

\* The adapter raises, or it returns a result, be its returncode zero or not:
\* in both cases of the latter the job has "succeeded".
JobEnd(r) ==
  /\ \/ Board!End(r, "failed") /\ UNCHANGED results
     \/ /\ Board!End(r, "succeeded")
        /\ \E ok \in Outcomes : results' = [results EXCEPT ![r] = <<ok>>]
  /\ UNCHANGED <<kind, pc, contacted, audit, stored, published, reply>>

-----------------------------------------------------------------------------
Handle(r) ==
  \/ Pass(r)  \/ UnknownDevice(r) \/ Refuse(r)
  \/ Run(r)   \/ RunRaises(r)     \/ AnswerRaise(r) \/ AuditResult(r)
  \/ Store(r) \/ Publish(r)       \/ Abort(r)       \/ Enqueue(r)

WfNext ==
  \E r \in Requests :
    \/ \E k \in Kinds : Arrive(r, k)
    \/ Handle(r)
    \/ JobStart(r) \/ JobEnd(r)

WfSpec == WfInit /\ [][WfNext]_wfVars

-----------------------------------------------------------------------------
LoggedOk(r, ok) == \E i \in 1..Len(audit) : audit[i] = [req |-> r, ok |-> ok]
Direct(r)       == kind[r] \in {"collect", "check"}

\* A device contacted by collect or check leaves an audit event by the time the
\* workflow answers, whether the executor returned or raised one of the errors
\* that the workflow catches.  (An exception it does not catch may end the
\* request without an event: Abort, after which pc is not "done".)
ContactIsAudited ==
  \A r \in Requests :
    Direct(r) /\ r \in contacted /\ pc[r] = "done" =>
      LoggedOk(r, TRUE) \/ LoggedOk(r, FALSE)

\* A request that the workflow refused or failed (400, 500) is in the audit
\* log as a failure and left nothing in the store or on the monitoring page.
RefusalIsAudited ==
  \A r \in Requests : reply[r] \in {"400", "500"} =>
    /\ LoggedOk(r, FALSE) /\ ~LoggedOk(r, TRUE)
    /\ r \notin stored
    /\ \A i \in 1..Len(published) : published[i].req # r

\* A failure is the last thing the audit log says of a request, although every
\* plan of a CHECK has been run by then: no result after the first failed one
\* is audited.
AuditStopsAtFailure ==
  \A i, k \in 1..Len(audit) : i < k /\ audit[i].req = audit[k].req => audit[i].ok

\* The trail is written ahead: an observation is in the store only when the
\* success of every result behind it is in the audit log, at every moment, so
\* that a crash between the two loses the observation and not the event.
StoredAfterAudit ==
  \A r \in stored : LoggedOk(r, TRUE) /\ ~LoggedOk(r, FALSE) /\ results[r] = <<>>

\* What the monitoring page shows as a success has its observation in the
\* store, and what it shows as a failure has none and is audited as one.
PublishedAgrees ==
  \A i \in 1..Len(published) :
    LET e == published[i]
    IN  IF e.ok THEN e.req \in stored
        ELSE e.req \notin stored /\ LoggedOk(e.req, FALSE)

\* README: "Collection attempts are appended to logs/collection_audit.jsonl".
\* A queued collection contacts the device and is not in the audit log.
AttemptsAreAudited ==
  \A r \in Requests :
    r \in contacted /\ (job[r] \in Board!Terminal \/ (Direct(r) /\ pc[r] = "done")) =>
      LoggedOk(r, TRUE) \/ LoggedOk(r, FALSE)
=============================================================================

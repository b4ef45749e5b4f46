-------------------------- MODULE CollectionQueue --------------------------
(***************************************************************************)
(* collector/queue.py: jobs submitted by API requests are run by the       *)
(* threads of a ThreadPoolExecutor, and one lock guards the job table.     *)
(*                                                                         *)
(* A critical section that writes one thing, or only reads, is one step    *)
(* that needs the lock to be free.  Those that do several things are split *)
(* into the steps between which another thread could run, and hold the     *)
(* lock across them: submit inserts the job, hands it to the executor and  *)
(* copies the snapshot it returns; the end of _run_job writes the status   *)
(* and then the results or the error.  adapter.collect runs without the    *)
(* lock.                                                                   *)
(***************************************************************************)
EXTENDS Naturals, Sequences, FiniteSets

CONSTANTS
  Clients,   \* the API request threads
  Workers,   \* the threads of the executor (max_workers of them)
  Jobs,      \* the job ids there can be: the bound on the number of submits
  None       \* nobody, or no job

ASSUME QueueAssumption ==
  /\ Clients \cap Workers = {}
  /\ None \notin Clients \cup Workers \cup Jobs
  /\ Workers # {}   \* ThreadPoolExecutor refuses max_workers <= 0

VARIABLES
  lock,      \* who holds self._lock, or None
  status,    \* status[j]: _jobs[j].status, "none" when j is not in _jobs
  outcome,   \* outcome[j]: which of results and error is set
  pool,      \* the executor's work queue
  pc,        \* where each client and each worker is
  job,       \* the job each of them is working on
  phase,     \* the executor: "open", "stopping" (shutdown called), "down"
  view       \* view[c][j]: the last snapshot of j returned to client c

vars == <<lock, status, outcome, pool, pc, job, phase, view>>

Terminal == {"succeeded", "failed"}
Status   == {"none", "queued", "running"} \cup Terminal
Outcome  == {"none", "results", "error"}

Threads    == Clients \cup Workers
ClientPc   == {"idle", "inserted", "enqueued"}
WorkerPc   == {"idle", "picked", "collecting", "collected", "raised",
               "finishing", "exited"}

\* Someone outside holds the job's id: only submit's answer gives it away.
Known(j) == \E c \in Clients : view[c][j].status # "none"

TypeOK ==
  /\ lock \in Threads \cup {None}
  /\ status \in [Jobs -> Status]
  /\ outcome \in [Jobs -> Outcome]
  /\ pool \in Seq(Jobs)
  /\ pc \in [Threads -> ClientPc \cup WorkerPc]
  /\ \A c \in Clients : pc[c] \in ClientPc
  /\ \A w \in Workers : pc[w] \in WorkerPc
  /\ job \in [Threads -> Jobs \cup {None}]
  /\ phase \in {"open", "stopping", "down"}
  /\ view \in [Clients -> [Jobs -> [status : Status, outcome : Outcome]]]

Init ==
  /\ lock = None
  /\ status = [j \in Jobs |-> "none"]
  /\ outcome = [j \in Jobs |-> "none"]
  /\ pool = <<>>
  /\ pc = [t \in Threads |-> "idle"]
  /\ job = [t \in Threads |-> None]
  /\ phase = "open"
  /\ view = [c \in Clients |->
               [j \in Jobs |-> [status |-> "none", outcome |-> "none"]]]

-----------------------------------------------------------------------------
Goto(t, label) == pc' = [pc EXCEPT ![t] = label]
Copy(c, j) ==
  view' = [view EXCEPT ![c][j] = [status |-> status[j], outcome |-> outcome[j]]]

(***************************************************************************)
(* submit                                                                  *)
(***************************************************************************)
SubmitInsert(c, j) ==
  /\ pc[c] = "idle"
  /\ lock = None
  /\ status[j] = "none"
  /\ lock' = c
  /\ status' = [status EXCEPT ![j] = "queued"]
  /\ job' = [job EXCEPT ![c] = j]
  /\ Goto(c, "inserted")
  /\ UNCHANGED <<outcome, pool, phase, view>>

SubmitEnqueue(c) ==
  /\ pc[c] = "inserted"
  /\ phase = "open"
  /\ pool' = Append(pool, job[c])
  /\ Goto(c, "enqueued")
  /\ UNCHANGED <<lock, status, outcome, job, phase, view>>

\* Mutant: the error of a stopped executor is swallowed and the job answered.
SubmitSwallowsError(c) ==
  /\ pc[c] = "inserted"
  /\ phase # "open"
  /\ Copy(c, job[c])
  /\ lock' = None
  /\ job' = [job EXCEPT ![c] = None]
  /\ Goto(c, "idle")
  /\ UNCHANGED <<status, outcome, pool, phase>>

\* The executor was shut down: its submit raises RuntimeError through the
\* with block.  The job stays in _jobs as "queued" and nobody will run it.
SubmitRaises(c) ==
  /\ pc[c] = "inserted"
  /\ phase # "open"
  /\ lock' = None
  /\ job' = [job EXCEPT ![c] = None]
  /\ Goto(c, "idle")
  /\ UNCHANGED <<status, outcome, pool, phase, view>>

SubmitReturn(c) ==
  /\ pc[c] = "enqueued"
  /\ Copy(c, job[c])
  /\ lock' = None
  /\ job' = [job EXCEPT ![c] = None]
  /\ Goto(c, "idle")
  /\ UNCHANGED <<status, outcome, pool, phase>>

(***************************************************************************)
(* get: any client that holds the id may poll.                             *)
(***************************************************************************)
\* Mutant: get does not take the lock.
GetUnlocked(c, j) ==
  /\ pc[c] = "idle"
  /\ Known(j)
  /\ Copy(c, j)
  /\ UNCHANGED <<lock, status, outcome, pool, pc, job, phase>>

Get(c, j) ==
  /\ pc[c] = "idle"
  /\ lock = None
  /\ Known(j)
  /\ Copy(c, j)
  /\ UNCHANGED <<lock, status, outcome, pool, pc, job, phase>>

(***************************************************************************)
(* A worker of the executor takes the oldest work item and runs _run_job.  *)
(***************************************************************************)
\* Mutant: the work item is read and left in the work queue.
TakeKeepsItem(w) ==
  /\ pc[w] = "idle"
  /\ pool # <<>>
  /\ job' = [job EXCEPT ![w] = Head(pool)]
  /\ Goto(w, "picked")
  /\ UNCHANGED <<lock, status, outcome, pool, phase, view>>

Take(w) ==
  /\ pc[w] = "idle"
  /\ pool # <<>>
  /\ job' = [job EXCEPT ![w] = Head(pool)]
  /\ pool' = Tail(pool)
  /\ Goto(w, "picked")
  /\ UNCHANGED <<lock, status, outcome, phase, view>>

\* Mutant: the start of _run_job does not take the lock.
MarkRunningUnlocked(w) ==
  /\ pc[w] = "picked"
  /\ status' = [status EXCEPT ![job[w]] = "running"]
  /\ Goto(w, "collecting")
  /\ UNCHANGED <<lock, outcome, pool, job, phase, view>>

MarkRunning(w) ==
  /\ pc[w] = "picked"
  /\ lock = None
  /\ status' = [status EXCEPT ![job[w]] = "running"]
  /\ Goto(w, "collecting")
  /\ UNCHANGED <<lock, outcome, pool, job, phase, view>>

\* adapter.collect returns results or raises, both outside the lock.
Collect(w) ==
  /\ pc[w] = "collecting"
  /\ \E label \in {"collected", "raised"} : Goto(w, label)
  /\ UNCHANGED <<lock, status, outcome, pool, job, phase, view>>

\* Mutants: a failed job is put back to "queued"; a status is misspelt.
FinishRequeues(w) ==
  /\ pc[w] \in {"collected", "raised"}
  /\ lock = None
  /\ lock' = w
  /\ status' = [status EXCEPT ![job[w]] =
                  IF pc[w] = "collected" THEN "succeeded" ELSE "queued"]
  /\ Goto(w, "finishing")
  /\ UNCHANGED <<outcome, pool, job, phase, view>>

FinishMisspelt(w) ==
  /\ pc[w] \in {"collected", "raised"}
  /\ lock = None
  /\ lock' = w
  /\ status' = [status EXCEPT ![job[w]] = pc[w]]
  /\ Goto(w, "finishing")
  /\ UNCHANGED <<outcome, pool, job, phase, view>>

FinishStatus(w) ==
  /\ pc[w] \in {"collected", "raised"}
  /\ lock = None
  /\ lock' = w
  /\ status' = [status EXCEPT ![job[w]] =
                  IF pc[w] = "collected" THEN "succeeded" ELSE "failed"]
  /\ Goto(w, "finishing")
  /\ UNCHANGED <<outcome, pool, job, phase, view>>

FinishOutcome(w) ==
  /\ pc[w] = "finishing"
  /\ outcome' = [outcome EXCEPT ![job[w]] =
                   IF status[job[w]] = "succeeded" THEN "results" ELSE "error"]
  /\ lock' = None
  /\ job' = [job EXCEPT ![w] = None]
  /\ Goto(w, "idle")
  /\ UNCHANGED <<status, pool, phase, view>>

(***************************************************************************)
(* shutdown(wait=True), called once by the application's lifespan: no new  *)
(* work is accepted, the queued work is still run, and the call returns    *)
(* when every worker has left.                                             *)
(***************************************************************************)
\* Mutant: shutdown keeps self._lock while it waits for the workers.
ShutdownUnderLock ==
  /\ phase = "open"
  /\ lock = None
  /\ lock' \in Clients
  /\ phase' = "stopping"
  /\ UNCHANGED <<status, outcome, pool, pc, job, view>>

Shutdown ==
  /\ phase = "open"
  /\ phase' = "stopping"
  /\ UNCHANGED <<lock, status, outcome, pool, pc, job, view>>

\* Mutant: a worker leaves although work is waiting (cancel_futures).
WorkerExitEarly(w) ==
  /\ pc[w] = "idle"
  /\ phase = "stopping"
  /\ Goto(w, "exited")
  /\ UNCHANGED <<lock, status, outcome, pool, job, phase, view>>

WorkerExit(w) ==
  /\ pc[w] = "idle"
  /\ phase = "stopping"
  /\ pool = <<>>
  /\ Goto(w, "exited")
  /\ UNCHANGED <<lock, status, outcome, pool, job, phase, view>>

\* Mutant: shutdown(wait=False).
ShutdownNoWait ==
  /\ phase = "stopping"
  /\ phase' = "down"
  /\ UNCHANGED <<lock, status, outcome, pool, pc, job, view>>

ShutdownReturn ==
  /\ phase = "stopping"
  /\ \A w \in Workers : pc[w] = "exited"
  /\ phase' = "down"
  /\ UNCHANGED <<lock, status, outcome, pool, pc, job, view>>

-----------------------------------------------------------------------------
Submit(c) == SubmitEnqueue(c) \/ SubmitRaises(c) \/ SubmitReturn(c)

Work(w) == \/ Take(w) \/ MarkRunning(w) \/ Collect(w)
           \/ FinishStatus(w) \/ FinishOutcome(w) \/ WorkerExit(w)

Next ==
  \/ \E c \in Clients, j \in Jobs : SubmitInsert(c, j) \/ Get(c, j)
  \/ \E c \in Clients : Submit(c)
  \/ \E w \in Workers : Work(w)
  \/ Shutdown
  \/ ShutdownReturn

Spec == Init /\ [][Next]_vars

(***************************************************************************)
(* A thread that can take its next step takes it: the operating system     *)
(* schedules every thread.  For Collect this says that adapter.collect     *)
(* ends, which telnet.py guarantees with a 120 s limit on the subprocess.  *)
(* Nothing obliges a client to submit or to poll, or the application to    *)
(* shut down.                                                              *)
(***************************************************************************)
Fairness ==
  /\ \A c \in Clients : WF_vars(Submit(c))
  /\ \A w \in Workers : WF_vars(Work(w))
  /\ WF_vars(ShutdownReturn)

FairSpec == Spec /\ Fairness

-----------------------------------------------------------------------------
(***************************************************************************)
(* Safety                                                                  *)
(***************************************************************************)

\* submit answers "queued" (tests/test_collector_queue.py asserts it) however
\* fast a worker picks the job up: a worker may already have it while submit
\* still holds the lock, and must not have touched its status.
SubmitAnswersQueued ==
  \A c \in Clients : pc[c] = "enqueued" =>
      status[job[c]] = "queued" /\ outcome[job[c]] = "none"

\* Every snapshot a client ever received is coherent: "succeeded" comes with
\* the results and "failed" with the error, and the earlier states with
\* neither, although status and outcome are written one after the other.
SnapshotsCoherent ==
  \A c \in Clients, j \in Jobs :
    /\ view[c][j].status = "succeeded" <=> view[c][j].outcome = "results"
    /\ view[c][j].status = "failed"    <=> view[c][j].outcome = "error"

Carriers(j) == {w \in Workers : job[w] = j}
InPool(j)   == \E i \in 1..Len(pool) : pool[i] = j

\* A device session is opened once for a job: a job is never at two workers,
\* never waiting while a worker has it, and never twice in the work queue.
RunOnce ==
  /\ \A v, w \in Workers : job[v] = job[w] /\ job[v] # None => v = w
  /\ \A w \in Workers, i \in 1..Len(pool) : job[w] # pool[i]
  /\ \A i, k \in 1..Len(pool) : pool[i] = pool[k] => i = k

\* A job whose id a client holds is never forgotten: until it has ended it is
\* in the work queue or with a worker that has not left.  (A submit that
\* raised leaves a "queued" entry nobody will run, but nobody knows its id.)
KnownJobsCarried ==
  \A j \in Jobs : Known(j) /\ status[j] \notin Terminal =>
      \/ InPool(j) /\ \E w \in Workers : pc[w] # "exited"
      \/ \E w \in Workers : job[w] = j

\* Once shutdown has returned, every job a client knows about has ended: the
\* pending ones were drained, not dropped.
DrainedWhenDown ==
  phase = "down" => \A j \in Jobs : Known(j) => status[j] \in Terminal

(***************************************************************************)
(* Refinement of JobBoard.  A job is on the board once somebody knows its  *)
(* id, that is from the moment submit releases the lock; and while a       *)
(* worker is between its two writes the job still counts as running.       *)
(***************************************************************************)
AbsStatus(j) ==
  IF ~Known(j) THEN "none"
  ELSE IF \E w \in Workers : pc[w] = "finishing" /\ job[w] = j THEN "running"
  ELSE status[j]

Board == INSTANCE JobBoard WITH board <- [j \in Jobs |-> AbsStatus(j)]

\* The queue implements the job board: posting, ending and reading a job are
\* atomic to everybody outside, in every interleaving of the critical sections.
ImplementsJobBoard == Board!BoardSpec

(***************************************************************************)
(* Liveness                                                                *)
(***************************************************************************)

\* A job whose id was handed out ends, also when the application shuts down
\* while the job waits in the work queue.
KnownJobsEnd == \A j \in Jobs : Known(j) ~> status[j] \in Terminal

\* shutdown(wait=True) returns: no worker it waits for needs anything that is
\* held while it waits.
ShutdownReturns == phase = "stopping" ~> phase = "down"
=============================================================================

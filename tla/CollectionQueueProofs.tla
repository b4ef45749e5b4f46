----------------------- MODULE CollectionQueueProofs -----------------------
(***************************************************************************)
(* Proofs about CollectionQueue, for any clients, workers and jobs: type   *)
(* correctness, an inductive invariant, the safety invariants that follow  *)
(* from it, and the refinement of JobBoard.                                *)
(***************************************************************************)
EXTENDS CollectionQueue, SequenceTheorems, TLAPS

\* The lock is held exactly by a client inside submit and by a worker between
\* the two writes that end its job.
LockInv ==
  /\ \A c \in Clients : pc[c] \in {"inserted", "enqueued"} <=> lock = c
  /\ \A w \in Workers : pc[w] = "finishing" <=> lock = w

JobInv ==
  /\ \A c \in Clients : pc[c] \in {"inserted", "enqueued"} <=> job[c] # None
  /\ \A w \in Workers : pc[w] \in {"idle", "exited"} <=> job[w] = None

\* A client has just handed j to the executor and still holds the lock.
Handing(j) == \E c \in Clients : pc[c] = "enqueued" /\ job[c] = j

Fresh(j) == status[j] = "queued" /\ outcome[j] = "none"

ClientInv ==
  /\ \A c \in Clients : job[c] # None => Fresh(job[c]) /\ ~Known(job[c])
  /\ \A c \in Clients : pc[c] = "inserted" =>
        ~InPool(job[c]) /\ \A w \in Workers : job[w] # job[c]

PoolInv == \A j \in Jobs : InPool(j) => Fresh(j) /\ (Known(j) \/ Handing(j))

WorkerInv ==
  \A w \in Workers :
    /\ pc[w] = "picked" =>
         Fresh(job[w]) /\ (Known(job[w]) \/ Handing(job[w]))
    /\ pc[w] \in {"collecting", "collected", "raised"} =>
         status[job[w]] = "running" /\ outcome[job[w]] = "none" /\ Known(job[w])
    /\ pc[w] = "finishing" =>
         status[job[w]] \in Terminal /\ outcome[job[w]] = "none" /\ Known(job[w])

Coherent(s, o) == /\ s = "succeeded" <=> o = "results"
                  /\ s = "failed"    <=> o = "error"

\* Only the job whose end is half written is incoherent.
OutcomeInv ==
  \A j \in Jobs : \/ Coherent(status[j], outcome[j])
                  \/ \E w \in Workers : pc[w] = "finishing" /\ job[w] = j

CarriedInv ==
  \A j \in Jobs : status[j] \notin Terminal /\ (Known(j) \/ Handing(j)) =>
                     InPool(j) \/ \E w \in Workers : job[w] = j

\* A job a client has seen is in the table.
KnownInv == \A j \in Jobs : Known(j) => status[j] # "none"

ExitInv ==
  /\ \A w \in Workers : pc[w] = "exited" => phase # "open" /\ pool = <<>>
  /\ phase = "down" => \A w \in Workers : pc[w] = "exited"

IInv ==
  /\ TypeOK
  /\ LockInv
  /\ JobInv
  /\ ClientInv
  /\ PoolInv
  /\ WorkerInv
  /\ OutcomeInv
  /\ RunOnce
  /\ CarriedInv
  /\ KnownInv
  /\ SnapshotsCoherent
  /\ ExitInv
-----------------------------------------------------------------------------
(***************************************************************************)
(* Type correctness                                                        *)
(***************************************************************************)
LEMMA InitTypeOK == Init => TypeOK
  BY QueueAssumption DEF Init, TypeOK, Threads, ClientPc, WorkerPc, Status, Outcome

LEMMA NextTypeOK == TypeOK /\ JobInv /\ [Next]_vars => TypeOK'
  <1> SUFFICES ASSUME TypeOK, JobInv, [Next]_vars PROVE TypeOK'
    OBVIOUS
  <1> USE QueueAssumption DEF TypeOK, Threads, ClientPc, WorkerPc, Status, Terminal,
          Outcome, Goto, Copy
  <1>1. ASSUME NEW c \in Clients, NEW j \in Jobs, SubmitInsert(c, j) PROVE TypeOK'
    BY <1>1 DEF SubmitInsert
  <1>2. ASSUME NEW c \in Clients, NEW j \in Jobs, Get(c, j) PROVE TypeOK'
    BY <1>2 DEF Get
  <1>3. ASSUME NEW c \in Clients, SubmitEnqueue(c) PROVE TypeOK'
    BY <1>3 DEF SubmitEnqueue, JobInv
  <1>4. ASSUME NEW c \in Clients, SubmitRaises(c) PROVE TypeOK'
    BY <1>4 DEF SubmitRaises
  <1>5. ASSUME NEW c \in Clients, SubmitReturn(c) PROVE TypeOK'
    <2>1. job[c] \in Jobs
      BY <1>5 DEF SubmitReturn, JobInv
    <2>2. [status |-> status[job[c]], outcome |-> outcome[job[c]]]
             \in [status : Status, outcome : Outcome]
      BY <2>1
    <2>3. view' \in [Clients -> [Jobs -> [status : Status, outcome : Outcome]]]
      BY <1>5, <2>1, <2>2 DEF SubmitReturn
    <2>4. lock' = None /\ pc' = [pc EXCEPT ![c] = "idle"] /\ job' = [job EXCEPT ![c] = None]
      BY <1>5 DEF SubmitReturn
    <2> QED
      BY <1>5, <2>3, <2>4 DEF SubmitReturn
  <1>6. ASSUME NEW w \in Workers, Take(w) PROVE TypeOK'
    BY <1>6 DEF Take
  <1>7. ASSUME NEW w \in Workers, MarkRunning(w) PROVE TypeOK'
    BY <1>7 DEF MarkRunning
  <1>8. ASSUME NEW w \in Workers, Collect(w) PROVE TypeOK'
    BY <1>8 DEF Collect
  <1>9. ASSUME NEW w \in Workers, FinishStatus(w) PROVE TypeOK'
    BY <1>9 DEF FinishStatus
  <1>10. ASSUME NEW w \in Workers, FinishOutcome(w) PROVE TypeOK'
    BY <1>10 DEF FinishOutcome
  <1>11. ASSUME NEW w \in Workers, WorkerExit(w) PROVE TypeOK'
    BY <1>11 DEF WorkerExit
  <1>12. CASE Shutdown
    BY <1>12 DEF Shutdown
  <1>13. CASE ShutdownReturn
    BY <1>13 DEF ShutdownReturn
  <1>14. CASE UNCHANGED vars
    BY <1>14 DEF vars
  <1> QED
    BY <1>1, <1>2, <1>3, <1>4, <1>5, <1>6, <1>7, <1>8, <1>9, <1>10, <1>11, <1>12,
       <1>13, <1>14 DEF Next, Submit, Work

LEMMA NextJobInv == TypeOK /\ JobInv /\ [Next]_vars => JobInv'
  <1> SUFFICES ASSUME TypeOK, JobInv, [Next]_vars PROVE JobInv'
    OBVIOUS
  <1> USE QueueAssumption DEF TypeOK, JobInv, Threads, ClientPc, WorkerPc, Goto
  <1>1. ASSUME NEW c \in Clients, NEW j \in Jobs, SubmitInsert(c, j) PROVE JobInv'
    BY <1>1 DEF SubmitInsert
  <1>2. ASSUME NEW c \in Clients, NEW j \in Jobs, Get(c, j) PROVE JobInv'
    BY <1>2 DEF Get
  <1>3. ASSUME NEW c \in Clients, SubmitEnqueue(c) PROVE JobInv'
    BY <1>3 DEF SubmitEnqueue
  <1>4. ASSUME NEW c \in Clients, SubmitRaises(c) PROVE JobInv'
    BY <1>4 DEF SubmitRaises
  <1>5. ASSUME NEW c \in Clients, SubmitReturn(c) PROVE JobInv'
    BY <1>5 DEF SubmitReturn
  <1>6. ASSUME NEW w \in Workers, Take(w) PROVE JobInv'
    BY <1>6, HeadTailProperties DEF Take
  <1>7. ASSUME NEW w \in Workers, MarkRunning(w) PROVE JobInv'
    BY <1>7 DEF MarkRunning
  <1>8. ASSUME NEW w \in Workers, Collect(w) PROVE JobInv'
    BY <1>8 DEF Collect
  <1>9. ASSUME NEW w \in Workers, FinishStatus(w) PROVE JobInv'
    BY <1>9 DEF FinishStatus
  <1>10. ASSUME NEW w \in Workers, FinishOutcome(w) PROVE JobInv'
    BY <1>10 DEF FinishOutcome
  <1>11. ASSUME NEW w \in Workers, WorkerExit(w) PROVE JobInv'
    BY <1>11 DEF WorkerExit
  <1>12. CASE Shutdown
    BY <1>12 DEF Shutdown
  <1>13. CASE ShutdownReturn
    BY <1>13 DEF ShutdownReturn
  <1>14. CASE UNCHANGED vars
    BY <1>14 DEF vars
  <1> QED
    BY <1>1, <1>2, <1>3, <1>4, <1>5, <1>6, <1>7, <1>8, <1>9, <1>10, <1>11, <1>12,
       <1>13, <1>14 DEF Next, Submit, Work

\* Every variable of the queue keeps its type, whatever the numbers of
\* clients, workers and jobs (collector/queue.py).
THEOREM TypeCorrect == Spec => []TypeOK
  <1>1. Init => JobInv
    BY QueueAssumption DEF Init, JobInv, Threads
  <1> QED
    BY <1>1, InitTypeOK, NextTypeOK, NextJobInv, PTL DEF Spec

-----------------------------------------------------------------------------
(* The invariant is inductive. *)

LEMMA KnownSame == UNCHANGED view => \A j \in Jobs : Known(j)' <=> Known(j)
  BY DEF Known

LEMMA KnownCopy ==
  ASSUME TypeOK, NEW c \in Clients, NEW j \in Jobs, Copy(c, j), status[j] # "none"
  PROVE  \A k \in Jobs : Known(k)' <=> Known(k) \/ k = j
  BY DEF TypeOK, Copy, Known

LEMMA InPoolSame == UNCHANGED pool => \A j \in Jobs : InPool(j)' <=> InPool(j)
  BY DEF InPool

LEMMA InPoolAppend ==
  ASSUME TypeOK, NEW j \in Jobs, pool' = Append(pool, j)
  PROVE  \A k \in Jobs : InPool(k)' <=> InPool(k) \/ k = j
  BY AppendProperties DEF TypeOK, InPool

\* Taking the head of a work queue without duplicates leaves the other jobs.
LEMMA InPoolTail ==
  ASSUME TypeOK, RunOnce, pool # <<>>, pool' = Tail(pool)
  PROVE  /\ Head(pool) \in Jobs
         /\ \A k \in Jobs : InPool(k)' <=> InPool(k) /\ k # Head(pool)
         /\ InPool(Head(pool))
  <1>1. /\ Head(pool) \in Jobs
        /\ Head(pool) = pool[1]
        /\ Len(pool) \in Nat /\ Len(pool) > 0
        /\ Len(pool') = Len(pool) - 1
        /\ \A i \in 1..Len(pool') : pool'[i] = pool[i + 1]
    BY HeadTailProperties, LenProperties DEF TypeOK
  <1>2. \A i \in 2..Len(pool) : i - 1 \in 1..Len(pool') /\ pool'[i - 1] = pool[i]
    BY <1>1
  <1>3. ASSUME NEW k \in Jobs, InPool(k)' PROVE InPool(k) /\ k # Head(pool)
    BY <1>1, <1>3 DEF InPool, RunOnce
  <1>4. ASSUME NEW k \in Jobs, InPool(k), k # Head(pool) PROVE InPool(k)'
    BY <1>1, <1>2, <1>4 DEF InPool
  <1> QED
    BY <1>1, <1>3, <1>4 DEF InPool

LEMMA InitIInv == Init => IInv
  <1> SUFFICES ASSUME Init PROVE IInv
    OBVIOUS
  <1>1. TypeOK
    BY InitTypeOK
  <1>2. \A j \in Jobs : ~Known(j) /\ ~InPool(j)
    BY DEF Init, Known, InPool
  <1>3. LockInv /\ JobInv /\ ClientInv /\ ExitInv /\ RunOnce
    BY QueueAssumption DEF Init, LockInv, JobInv, ClientInv, ExitInv, RunOnce, Threads
  <1>4. PoolInv /\ CarriedInv /\ KnownInv
    BY <1>2 DEF Init, PoolInv, CarriedInv, KnownInv, Handing, Threads
  <1>5. WorkerInv /\ OutcomeInv /\ SnapshotsCoherent
    BY DEF Init, WorkerInv, OutcomeInv, SnapshotsCoherent, Coherent, Threads
  <1> QED
    BY <1>1, <1>3, <1>4, <1>5 DEF IInv

LEMMA NotWaiting ==
  ASSUME RunOnce, NEW w \in Workers
  PROVE  ~InPool(job[w])
  BY DEF RunOnce, InPool

LEMMA SubmitInsertIInv ==
  ASSUME IInv, TypeOK', JobInv', NEW c \in Clients, NEW j \in Jobs, SubmitInsert(c, j)
  PROVE  IInv'
  <1> USE QueueAssumption DEF IInv, TypeOK, JobInv, Threads, Goto, Fresh, SubmitInsert
  <1>1. \A k \in Jobs : Known(k)' <=> Known(k)
    BY KnownSame
  <1>2. \A k \in Jobs : InPool(k)' <=> InPool(k)
    BY InPoolSame
  <1>3. \A k \in Jobs : ~Handing(k) /\ ~Handing(k)'
    BY DEF Handing, LockInv
  <1>4. LockInv'
    BY DEF LockInv
  <1>5. ClientInv'
    <2>1. ~Known(j) /\ ~InPool(j)
      BY DEF KnownInv, PoolInv
    <2>2. \A w \in Workers : job[w] # j
      BY DEF WorkerInv, LockInv, Terminal, WorkerPc
    <2>3. Coherent(status[j], outcome[j])
      BY DEF OutcomeInv, LockInv
    <2>4. outcome[j] = "none"
      BY <2>3 DEF Coherent, Outcome
    <2> QED
      BY <1>1, <1>2, <2>1, <2>2, <2>4 DEF ClientInv, LockInv
  <1>6. PoolInv'
    BY <1>1, <1>2, <1>3 DEF PoolInv
  <1>7. WorkerInv'
    BY <1>1, <1>3 DEF WorkerInv, Terminal
  <1>8. OutcomeInv'
    BY DEF OutcomeInv, Coherent, Terminal, WorkerInv
  <1>9. RunOnce'
    BY DEF RunOnce
  <1>10. CarriedInv'
    BY <1>1, <1>2, <1>3 DEF CarriedInv, Terminal
  <1>11. KnownInv'
    BY <1>1 DEF KnownInv, Terminal
  <1>12. SnapshotsCoherent'
    BY DEF SnapshotsCoherent
  <1>13. ExitInv'
    BY DEF ExitInv
  <1> QED
    BY <1>4, <1>5, <1>6, <1>7, <1>8, <1>9, <1>10, <1>11, <1>12, <1>13

LEMMA SubmitEnqueueIInv ==
  ASSUME IInv, TypeOK', JobInv', NEW c \in Clients, SubmitEnqueue(c)
  PROVE  IInv'
  <1> USE QueueAssumption DEF IInv, TypeOK, JobInv, Threads, Goto, Fresh, SubmitEnqueue
  <1>1. \A k \in Jobs : Known(k)' <=> Known(k)
    BY KnownSame
  <1>2. \A k \in Jobs : InPool(k)' <=> InPool(k) \/ k = job[c]
    BY InPoolAppend
  <1>3. \A k \in Jobs : ~Handing(k) /\ (Handing(k)' <=> k = job[c])
    BY DEF Handing, LockInv
  <1>4. LockInv'
    BY DEF LockInv
  <1>5. ClientInv'
    BY <1>1, <1>2 DEF ClientInv, LockInv
  <1>6. PoolInv'
    BY <1>1, <1>2, <1>3 DEF PoolInv, ClientInv
  <1>7. WorkerInv'
    <2>1. \A w \in Workers : job[w] # None => job[w] \in Jobs
      OBVIOUS
    <2>2. /\ UNCHANGED <<status, outcome>>
          /\ \A w \in Workers : pc'[w] = pc[w] /\ job'[w] = job[w]
      OBVIOUS
    <2> QED
      BY <1>1, <1>3, <2>1, <2>2 DEF WorkerInv
  <1>8. OutcomeInv'
    BY DEF OutcomeInv, Coherent, Terminal, WorkerInv
  <1>9. RunOnce'
    BY AppendProperties DEF RunOnce, InPool, ClientInv
  <1>10. CarriedInv'
    BY <1>1, <1>2, <1>3 DEF CarriedInv, Terminal, ClientInv
  <1>11. KnownInv'
    BY <1>1 DEF KnownInv, Terminal, ClientInv
  <1>12. SnapshotsCoherent'
    BY DEF SnapshotsCoherent
  <1>13. ExitInv'
    BY DEF ExitInv
  <1> QED
    BY <1>4, <1>5, <1>6, <1>7, <1>8, <1>9, <1>10, <1>11, <1>12, <1>13

LEMMA SubmitRaisesIInv ==
  ASSUME IInv, TypeOK', JobInv', NEW c \in Clients, SubmitRaises(c)
  PROVE  IInv'
  <1> USE QueueAssumption DEF IInv, TypeOK, JobInv, Threads, Goto, Fresh, SubmitRaises
  <1>1. \A k \in Jobs : Known(k)' <=> Known(k)
    BY KnownSame
  <1>2. \A k \in Jobs : InPool(k)' <=> InPool(k)
    BY InPoolSame
  <1>3. \A k \in Jobs : ~Handing(k) /\ ~Handing(k)'
    BY DEF Handing, LockInv
  <1>4. LockInv'
    BY DEF LockInv
  <1>5. ClientInv'
    BY <1>1, <1>2 DEF ClientInv, LockInv
  <1>6. PoolInv'
    BY <1>1, <1>2, <1>3 DEF PoolInv
  <1>7. WorkerInv'
    BY <1>1, <1>3 DEF WorkerInv, Terminal
  <1>8. OutcomeInv'
    BY DEF OutcomeInv, Coherent, Terminal, WorkerInv
  <1>9. RunOnce'
    BY DEF RunOnce
  <1>10. CarriedInv'
    BY <1>1, <1>2, <1>3 DEF CarriedInv, Terminal
  <1>11. KnownInv'
    BY <1>1 DEF KnownInv, Terminal
  <1>12. SnapshotsCoherent'
    BY DEF SnapshotsCoherent
  <1>13. ExitInv'
    BY DEF ExitInv
  <1> QED
    BY <1>4, <1>5, <1>6, <1>7, <1>8, <1>9, <1>10, <1>11, <1>12, <1>13

LEMMA SubmitReturnIInv ==
  ASSUME IInv, TypeOK', JobInv', NEW c \in Clients, SubmitReturn(c)
  PROVE  IInv'
  <1> USE QueueAssumption DEF IInv, TypeOK, JobInv, Threads, Goto, Fresh, SubmitReturn
  <1>1. \A k \in Jobs : Known(k)' <=> Known(k) \/ k = job[c]
    BY KnownCopy DEF ClientInv
  <1>2. \A k \in Jobs : InPool(k)' <=> InPool(k)
    BY InPoolSame
  <1>3. \A k \in Jobs : (Handing(k) <=> k = job[c]) /\ ~Handing(k)'
    BY DEF Handing, LockInv
  <1>4. LockInv'
    BY DEF LockInv
  <1>5. ClientInv'
    BY <1>1, <1>2 DEF ClientInv, LockInv
  <1>6. PoolInv'
    BY <1>1, <1>2, <1>3 DEF PoolInv, ClientInv
  <1>7. WorkerInv'
    <2>1. \A w \in Workers : job[w] # None => job[w] \in Jobs
      OBVIOUS
    <2>2. /\ UNCHANGED <<status, outcome>>
          /\ \A w \in Workers : pc'[w] = pc[w] /\ job'[w] = job[w]
      OBVIOUS
    <2>3. ASSUME NEW w \in Workers, pc[w] = "picked" PROVE Known(job[w])'
      BY <1>1, <1>3, <2>1, <2>3 DEF WorkerInv
    <2>4. ASSUME NEW w \in Workers, job[w] # None, Known(job[w])
          PROVE  Known(job[w])'
      BY <1>1, <2>1, <2>4
    <2> QED
      BY <2>2, <2>3, <2>4 DEF WorkerInv
  <1>8. OutcomeInv'
    BY DEF OutcomeInv, Coherent, Terminal, WorkerInv
  <1>9. RunOnce'
    BY DEF RunOnce
  <1>10. CarriedInv'
    BY <1>1, <1>2, <1>3 DEF CarriedInv, Terminal, ClientInv
  <1>11. KnownInv'
    BY <1>1 DEF KnownInv, Terminal, ClientInv
  <1>12. SnapshotsCoherent'
    BY DEF SnapshotsCoherent, Copy, OutcomeInv, Coherent, LockInv, ClientInv
  <1>13. ExitInv'
    BY DEF ExitInv
  <1> QED
    BY <1>4, <1>5, <1>6, <1>7, <1>8, <1>9, <1>10, <1>11, <1>12, <1>13

LEMMA GetIInv ==
  ASSUME IInv, TypeOK', JobInv', NEW c \in Clients, NEW j \in Jobs, Get(c, j)
  PROVE  IInv'
  <1> USE QueueAssumption DEF IInv, TypeOK, JobInv, Threads, Goto, Fresh, Get
  <1>1. \A k \in Jobs : Known(k)' <=> Known(k)
    BY KnownCopy DEF KnownInv
  <1>2. \A k \in Jobs : InPool(k)' <=> InPool(k)
    BY InPoolSame
  <1>3. \A k \in Jobs : ~Handing(k) /\ ~Handing(k)'
    BY DEF Handing, LockInv
  <1>4. LockInv'
    BY DEF LockInv
  <1>5. ClientInv'
    BY <1>1, <1>2 DEF ClientInv, LockInv
  <1>6. PoolInv'
    BY <1>1, <1>2, <1>3 DEF PoolInv
  <1>7. WorkerInv'
    BY <1>1, <1>3 DEF WorkerInv, Terminal
  <1>8. OutcomeInv'
    BY DEF OutcomeInv, Coherent, Terminal, WorkerInv
  <1>9. RunOnce'
    BY DEF RunOnce
  <1>10. CarriedInv'
    BY <1>1, <1>2, <1>3 DEF CarriedInv, Terminal
  <1>11. KnownInv'
    BY <1>1 DEF KnownInv, Terminal
  <1>12. SnapshotsCoherent'
    BY DEF SnapshotsCoherent, Copy, OutcomeInv, Coherent, LockInv, ClientInv
  <1>13. ExitInv'
    BY DEF ExitInv
  <1> QED
    BY <1>4, <1>5, <1>6, <1>7, <1>8, <1>9, <1>10, <1>11, <1>12, <1>13

LEMMA TakeIInv ==
  ASSUME IInv, TypeOK', JobInv', NEW w \in Workers, Take(w)
  PROVE  IInv'
  <1> USE QueueAssumption DEF IInv, TypeOK, JobInv, Threads, Goto, Fresh, Take
  <1>1. \A k \in Jobs : Known(k)' <=> Known(k)
    BY KnownSame
  <1>2. \A k \in Jobs : InPool(k)' <=> InPool(k) /\ k # Head(pool)
    BY InPoolTail
  <1>3. \A k \in Jobs : Handing(k)' <=> Handing(k)
    BY DEF Handing
  <1>4. LockInv'
    BY InPoolTail DEF LockInv
  <1>5. ClientInv'
    BY <1>1, <1>2, InPoolTail DEF ClientInv, LockInv
  <1>6. PoolInv'
    BY <1>1, <1>2, <1>3, InPoolTail DEF PoolInv
  <1>7. WorkerInv'
    BY <1>1, <1>3, InPoolTail DEF WorkerInv, Terminal, PoolInv
  <1>8. OutcomeInv'
    BY InPoolTail DEF OutcomeInv, Coherent, Terminal, WorkerInv
  <1>9. RunOnce'
    BY InPoolTail, HeadTailProperties DEF RunOnce
  <1>10. CarriedInv'
    BY <1>1, <1>2, <1>3, InPoolTail DEF CarriedInv, Terminal
  <1>11. KnownInv'
    BY <1>1, InPoolTail DEF KnownInv, Terminal
  <1>12. SnapshotsCoherent'
    BY InPoolTail DEF SnapshotsCoherent
  <1>13. ExitInv'
    BY InPoolTail DEF ExitInv
  <1> QED
    BY <1>4, <1>5, <1>6, <1>7, <1>8, <1>9, <1>10, <1>11, <1>12, <1>13

LEMMA MarkRunningIInv ==
  ASSUME IInv, TypeOK', JobInv', NEW w \in Workers, MarkRunning(w)
  PROVE  IInv'
  <1> USE QueueAssumption DEF IInv, TypeOK, JobInv, Threads, Goto, Fresh, MarkRunning
  <1>1. \A k \in Jobs : Known(k)' <=> Known(k)
    BY KnownSame
  <1>2. \A k \in Jobs : InPool(k)' <=> InPool(k)
    BY InPoolSame
  <1>3. \A k \in Jobs : ~Handing(k) /\ ~Handing(k)'
    BY DEF Handing, LockInv
  <1>4. LockInv'
    BY DEF LockInv, WorkerInv, RunOnce, PoolInv
  <1>5. ClientInv'
    BY <1>1, <1>2 DEF ClientInv, LockInv, WorkerInv, RunOnce, PoolInv
  <1>6. PoolInv'
    BY <1>1, <1>2, <1>3, NotWaiting DEF PoolInv, WorkerInv, RunOnce, LockInv
  <1>7. WorkerInv'
    BY <1>1, <1>3 DEF WorkerInv, Terminal, RunOnce, LockInv, PoolInv
  <1>8. OutcomeInv'
    BY DEF OutcomeInv, Coherent, Terminal, WorkerInv, RunOnce, LockInv, PoolInv
  <1>9. RunOnce'
    BY DEF RunOnce, WorkerInv, LockInv, PoolInv
  <1>10. CarriedInv'
    BY <1>1, <1>2, <1>3 DEF CarriedInv, Terminal, WorkerInv, RunOnce, LockInv, PoolInv
  <1>11. KnownInv'
    BY <1>1 DEF KnownInv, Terminal, WorkerInv, RunOnce, LockInv, PoolInv
  <1>12. SnapshotsCoherent'
    BY DEF SnapshotsCoherent, WorkerInv, RunOnce, LockInv, PoolInv
  <1>13. ExitInv'
    BY DEF ExitInv, WorkerInv, RunOnce, LockInv, PoolInv
  <1> QED
    BY <1>4, <1>5, <1>6, <1>7, <1>8, <1>9, <1>10, <1>11, <1>12, <1>13

LEMMA CollectIInv ==
  ASSUME IInv, TypeOK', JobInv', NEW w \in Workers, Collect(w)
  PROVE  IInv'
  <1> USE QueueAssumption DEF IInv, TypeOK, JobInv, Threads, Goto, Fresh, Collect
  <1>1. \A k \in Jobs : Known(k)' <=> Known(k)
    BY KnownSame
  <1>2. \A k \in Jobs : InPool(k)' <=> InPool(k)
    BY InPoolSame
  <1>3. \A k \in Jobs : Handing(k)' <=> Handing(k)
    BY DEF Handing
  <1>4. LockInv'
    BY DEF LockInv
  <1>5. ClientInv'
    BY <1>1, <1>2 DEF ClientInv, LockInv
  <1>6. PoolInv'
    BY <1>1, <1>2, <1>3 DEF PoolInv
  <1>7. WorkerInv'
    BY <1>1, <1>3 DEF WorkerInv, Terminal
  <1>8. OutcomeInv'
    BY DEF OutcomeInv, Coherent, Terminal, WorkerInv
  <1>9. RunOnce'
    BY DEF RunOnce
  <1>10. CarriedInv'
    BY <1>1, <1>2, <1>3 DEF CarriedInv, Terminal
  <1>11. KnownInv'
    BY <1>1 DEF KnownInv, Terminal
  <1>12. SnapshotsCoherent'
    BY DEF SnapshotsCoherent
  <1>13. ExitInv'
    BY DEF ExitInv
  <1> QED
    BY <1>4, <1>5, <1>6, <1>7, <1>8, <1>9, <1>10, <1>11, <1>12, <1>13

LEMMA FinishStatusIInv ==
  ASSUME IInv, TypeOK', JobInv', NEW w \in Workers, FinishStatus(w)
  PROVE  IInv'
  <1> USE QueueAssumption DEF IInv, TypeOK, JobInv, Threads, Goto, Fresh, FinishStatus
  <1>1. \A k \in Jobs : Known(k)' <=> Known(k)
    BY KnownSame
  <1>2. \A k \in Jobs : InPool(k)' <=> InPool(k)
    BY InPoolSame
  <1>3. \A k \in Jobs : ~Handing(k) /\ ~Handing(k)'
    BY DEF Handing, LockInv
  <1>4. LockInv'
    BY DEF LockInv, WorkerInv, RunOnce, PoolInv
  <1>5. ClientInv'
    BY <1>1, <1>2 DEF ClientInv, LockInv, WorkerInv, RunOnce, PoolInv
  <1>6. PoolInv'
    BY <1>1, <1>2, <1>3, NotWaiting DEF PoolInv, WorkerInv, RunOnce, LockInv
  <1>7. WorkerInv'
    BY <1>1, <1>3 DEF WorkerInv, Terminal, RunOnce, LockInv, PoolInv
  <1>8. OutcomeInv'
    BY DEF OutcomeInv, Coherent, Terminal, WorkerInv, RunOnce, LockInv, PoolInv
  <1>9. RunOnce'
    BY DEF RunOnce, WorkerInv, LockInv, PoolInv
  <1>10. CarriedInv'
    BY <1>1, <1>2, <1>3 DEF CarriedInv, Terminal, WorkerInv, RunOnce, LockInv, PoolInv
  <1>11. KnownInv'
    BY <1>1 DEF KnownInv, Terminal, WorkerInv, RunOnce, LockInv, PoolInv
  <1>12. SnapshotsCoherent'
    BY DEF SnapshotsCoherent, WorkerInv, RunOnce, LockInv, PoolInv
  <1>13. ExitInv'
    BY DEF ExitInv, WorkerInv, RunOnce, LockInv, PoolInv
  <1> QED
    BY <1>4, <1>5, <1>6, <1>7, <1>8, <1>9, <1>10, <1>11, <1>12, <1>13

LEMMA FinishOutcomeIInv ==
  ASSUME IInv, TypeOK', JobInv', NEW w \in Workers, FinishOutcome(w)
  PROVE  IInv'
  <1> USE QueueAssumption DEF IInv, TypeOK, JobInv, Threads, Goto, Fresh, FinishOutcome
  <1>1. \A k \in Jobs : Known(k)' <=> Known(k)
    BY KnownSame
  <1>2. \A k \in Jobs : InPool(k)' <=> InPool(k)
    BY InPoolSame
  <1>3. \A k \in Jobs : ~Handing(k) /\ ~Handing(k)'
    BY DEF Handing, LockInv
  <1>4. LockInv'
    BY DEF LockInv, WorkerInv, RunOnce, PoolInv
  <1>5. ClientInv'
    BY <1>1, <1>2 DEF ClientInv, LockInv, WorkerInv, RunOnce, PoolInv
  <1>6. PoolInv'
    BY <1>1, <1>2, <1>3, NotWaiting DEF PoolInv, WorkerInv, RunOnce, LockInv
  <1>7. WorkerInv'
    BY <1>1, <1>3 DEF WorkerInv, Terminal, RunOnce, LockInv, PoolInv
  <1>8. OutcomeInv'
    BY DEF OutcomeInv, Coherent, Terminal, WorkerInv, RunOnce, LockInv, PoolInv
  <1>9. RunOnce'
    BY DEF RunOnce, WorkerInv, LockInv, PoolInv
  <1>10. CarriedInv'
    BY <1>1, <1>2, <1>3 DEF CarriedInv, Terminal, WorkerInv, RunOnce, LockInv, PoolInv
  <1>11. KnownInv'
    BY <1>1 DEF KnownInv, Terminal, WorkerInv, RunOnce, LockInv, PoolInv
  <1>12. SnapshotsCoherent'
    BY DEF SnapshotsCoherent, WorkerInv, RunOnce, LockInv, PoolInv
  <1>13. ExitInv'
    BY DEF ExitInv, WorkerInv, RunOnce, LockInv, PoolInv
  <1> QED
    BY <1>4, <1>5, <1>6, <1>7, <1>8, <1>9, <1>10, <1>11, <1>12, <1>13

LEMMA WorkerExitIInv ==
  ASSUME IInv, TypeOK', JobInv', NEW w \in Workers, WorkerExit(w)
  PROVE  IInv'
  <1> USE QueueAssumption DEF IInv, TypeOK, JobInv, Threads, Goto, Fresh, WorkerExit
  <1>1. \A k \in Jobs : Known(k)' <=> Known(k)
    BY KnownSame
  <1>2. \A k \in Jobs : InPool(k)' <=> InPool(k)
    BY InPoolSame
  <1>3. \A k \in Jobs : Handing(k)' <=> Handing(k)
    BY DEF Handing
  <1>4. LockInv'
    BY DEF LockInv
  <1>5. ClientInv'
    BY <1>1, <1>2 DEF ClientInv, LockInv
  <1>6. PoolInv'
    BY <1>1, <1>2, <1>3 DEF PoolInv
  <1>7. WorkerInv'
    BY <1>1, <1>3 DEF WorkerInv, Terminal
  <1>8. OutcomeInv'
    BY DEF OutcomeInv, Coherent, Terminal, WorkerInv
  <1>9. RunOnce'
    BY DEF RunOnce
  <1>10. CarriedInv'
    BY <1>1, <1>2, <1>3 DEF CarriedInv, Terminal
  <1>11. KnownInv'
    BY <1>1 DEF KnownInv, Terminal
  <1>12. SnapshotsCoherent'
    BY DEF SnapshotsCoherent
  <1>13. ExitInv'
    BY DEF ExitInv
  <1> QED
    BY <1>4, <1>5, <1>6, <1>7, <1>8, <1>9, <1>10, <1>11, <1>12, <1>13

LEMMA ShutdownIInv ==
  ASSUME IInv, TypeOK', JobInv', Shutdown
  PROVE  IInv'
  <1> USE QueueAssumption DEF IInv, TypeOK, JobInv, Threads, Goto, Fresh, Shutdown
  <1>1. \A k \in Jobs : Known(k)' <=> Known(k)
    BY KnownSame
  <1>2. \A k \in Jobs : InPool(k)' <=> InPool(k)
    BY InPoolSame
  <1>3. \A k \in Jobs : Handing(k)' <=> Handing(k)
    BY DEF Handing
  <1>4. LockInv'
    BY DEF LockInv
  <1>5. ClientInv'
    BY <1>1, <1>2 DEF ClientInv, LockInv
  <1>6. PoolInv'
    BY <1>1, <1>2, <1>3 DEF PoolInv
  <1>7. WorkerInv'
    BY <1>1, <1>3 DEF WorkerInv, Terminal
  <1>8. OutcomeInv'
    BY DEF OutcomeInv, Coherent, Terminal, WorkerInv
  <1>9. RunOnce'
    BY DEF RunOnce
  <1>10. CarriedInv'
    BY <1>1, <1>2, <1>3 DEF CarriedInv, Terminal
  <1>11. KnownInv'
    BY <1>1 DEF KnownInv, Terminal
  <1>12. SnapshotsCoherent'
    BY DEF SnapshotsCoherent
  <1>13. ExitInv'
    BY DEF ExitInv
  <1> QED
    BY <1>4, <1>5, <1>6, <1>7, <1>8, <1>9, <1>10, <1>11, <1>12, <1>13

LEMMA ShutdownReturnIInv ==
  ASSUME IInv, TypeOK', JobInv', ShutdownReturn
  PROVE  IInv'
  <1> USE QueueAssumption DEF IInv, TypeOK, JobInv, Threads, Goto, Fresh, ShutdownReturn
  <1>1. \A k \in Jobs : Known(k)' <=> Known(k)
    BY KnownSame
  <1>2. \A k \in Jobs : InPool(k)' <=> InPool(k)
    BY InPoolSame
  <1>3. \A k \in Jobs : Handing(k)' <=> Handing(k)
    BY DEF Handing
  <1>4. LockInv'
    BY DEF LockInv
  <1>5. ClientInv'
    BY <1>1, <1>2 DEF ClientInv, LockInv
  <1>6. PoolInv'
    BY <1>1, <1>2, <1>3 DEF PoolInv
  <1>7. WorkerInv'
    BY <1>1, <1>3 DEF WorkerInv, Terminal
  <1>8. OutcomeInv'
    BY DEF OutcomeInv, Coherent, Terminal, WorkerInv
  <1>9. RunOnce'
    BY DEF RunOnce
  <1>10. CarriedInv'
    BY <1>1, <1>2, <1>3 DEF CarriedInv, Terminal
  <1>11. KnownInv'
    BY <1>1 DEF KnownInv, Terminal
  <1>12. SnapshotsCoherent'
    BY DEF SnapshotsCoherent
  <1>13. ExitInv'
    BY DEF ExitInv
  <1> QED
    BY <1>4, <1>5, <1>6, <1>7, <1>8, <1>9, <1>10, <1>11, <1>12, <1>13

LEMMA NextIInv == IInv /\ [Next]_vars => IInv'
  <1> SUFFICES ASSUME IInv, [Next]_vars PROVE IInv'
    OBVIOUS
  <1>0. TypeOK' /\ JobInv'
    BY NextTypeOK, NextJobInv DEF IInv
  <1>1. ASSUME NEW c \in Clients, NEW j \in Jobs, SubmitInsert(c, j) PROVE IInv'
    BY <1>0, <1>1, SubmitInsertIInv
  <1>2. ASSUME NEW c \in Clients, NEW j \in Jobs, Get(c, j) PROVE IInv'
    BY <1>0, <1>2, GetIInv
  <1>3. ASSUME NEW c \in Clients, Submit(c) PROVE IInv'
    BY <1>0, <1>3, SubmitEnqueueIInv, SubmitRaisesIInv, SubmitReturnIInv DEF Submit
  <1>4. ASSUME NEW w \in Workers, Work(w) PROVE IInv'
    BY <1>0, <1>4, TakeIInv, MarkRunningIInv, CollectIInv, FinishStatusIInv,
       FinishOutcomeIInv, WorkerExitIInv DEF Work
  <1>5. CASE Shutdown
    BY <1>0, <1>5, ShutdownIInv
  <1>6. CASE ShutdownReturn
    BY <1>0, <1>6, ShutdownReturnIInv
  <1>7. CASE UNCHANGED vars
    BY <1>7 DEF vars, IInv, TypeOK, LockInv, JobInv, ClientInv, PoolInv, WorkerInv,
       OutcomeInv, RunOnce, CarriedInv, KnownInv, SnapshotsCoherent, ExitInv, Known,
       InPool, Handing, Fresh, Coherent
  <1> QED
    BY <1>1, <1>2, <1>3, <1>4, <1>5, <1>6, <1>7 DEF Next

LEMMA Invariance == Spec => []IInv
  BY InitIInv, NextIInv, PTL DEF Spec

-----------------------------------------------------------------------------
(***************************************************************************)
(* The safety invariants                                                   *)
(***************************************************************************)

\* submit always answers "queued": the lock it holds keeps the worker that
\* already has the job from marking it (CollectionQueue.submit, _run_job).
THEOREM AnswersQueued == Spec => []SubmitAnswersQueued
  <1>1. IInv => SubmitAnswersQueued
    BY QueueAssumption DEF IInv, JobInv, ClientInv, Fresh, SubmitAnswersQueued
  <1> QED
    BY <1>1, Invariance, PTL

\* No client is ever given a status without its results or error, or the
\* reverse (CollectionQueue.get against the two writes that end _run_job).
THEOREM CoherentSnapshots == Spec => []SnapshotsCoherent
  BY Invariance, PTL DEF IInv

\* A job is run by one worker, once (CollectionQueue.submit and the executor).
THEOREM RunsOnce == Spec => []RunOnce
  BY Invariance, PTL DEF IInv

\* No job a client knows about is dropped while it has not ended, also when
\* submit and shutdown race (CollectionQueue.submit, shutdown).
THEOREM KnownCarried == Spec => []KnownJobsCarried
  <1>1. IInv => KnownJobsCarried
    <2> SUFFICES ASSUME IInv, NEW j \in Jobs, Known(j), status[j] \notin Terminal
                 PROVE  \/ InPool(j) /\ \E w \in Workers : pc[w] # "exited"
                        \/ \E w \in Workers : job[w] = j
      BY DEF KnownJobsCarried
    <2>1. InPool(j) \/ \E w \in Workers : job[w] = j
      BY DEF IInv, CarriedInv
    <2>2. InPool(j) => pool # <<>>
      BY DEF InPool
    <2>3. pool # <<>> => \A w \in Workers : pc[w] # "exited"
      BY DEF IInv, ExitInv
    <2> QED
      BY <2>1, <2>2, <2>3, QueueAssumption
  <1> QED
    BY <1>1, Invariance, PTL

\* When shutdown returns, the jobs clients know about have ended: the queued
\* ones were run, not cancelled (CollectionQueue.shutdown).
THEOREM Drained == Spec => []DrainedWhenDown
  <1>1. IInv => DrainedWhenDown
    <2> SUFFICES ASSUME IInv, phase = "down", NEW j \in Jobs, Known(j)
                 PROVE  status[j] \in Terminal
      BY DEF DrainedWhenDown
    <2>1. \A w \in Workers : pc[w] = "exited" /\ pool = <<>> /\ job[w] = None
      BY DEF IInv, ExitInv, JobInv
    <2>2. ~InPool(j) /\ \A w \in Workers : job[w] # j
      BY <2>1, QueueAssumption DEF InPool
    <2> QED
      BY <2>2 DEF IInv, CarriedInv
  <1> QED
    BY <1>1, Invariance, PTL

-----------------------------------------------------------------------------
(***************************************************************************)
(* Refinement: every step of the queue is a step of the job board or leaves *)
(* it alone.                                                               *)
(***************************************************************************)
AbsBoard == [j \in Jobs |-> AbsStatus(j)]

\* With the lock free nobody is between two writes: the board shows the table.
LEMMA AbsUnlocked ==
  ASSUME IInv, lock = None
  PROVE  /\ \A j \in Jobs : AbsStatus(j) = IF Known(j) THEN status[j] ELSE "none"
         /\ \A j \in Jobs : Coherent(status[j], outcome[j])
  BY QueueAssumption DEF IInv, LockInv, OutcomeInv, AbsStatus

\* A step that changes no view and no status, and neither begins nor finishes
\* a half-written end, leaves the board alone.
LEMMA AbsSame ==
  ASSUME UNCHANGED <<view, status>>,
         \A w \in Workers, j \in Jobs :
           (pc[w] = "finishing" /\ job[w] = j)' <=> (pc[w] = "finishing" /\ job[w] = j)
  PROVE  UNCHANGED <<AbsBoard, view>>
  <1>1. \A j \in Jobs : Known(j)' <=> Known(j)
    BY KnownSame
  <1>2. \A j \in Jobs : AbsStatus(j)' = AbsStatus(j)
    BY <1>1 DEF AbsStatus
  <1> QED
    BY <1>2 DEF AbsBoard

\* A coherent pair is the snapshot the board would give.
LEMMA CoherentSnapshot ==
  ASSUME NEW s \in Status, NEW o \in Outcome, Coherent(s, o)
  PROVE  [status |-> s, outcome |-> o] = Board!Snapshot(s)
  BY DEF Coherent, Outcome, Status, Terminal, Board!Snapshot, Board!OutcomeOf

LEMMA SubmitInsertStep ==
  ASSUME IInv, IInv', NEW c \in Clients, NEW j \in Jobs, SubmitInsert(c, j)
  PROVE  UNCHANGED <<AbsBoard, view>>
  <1> USE QueueAssumption DEF SubmitInsert
  <1>1. \A k \in Jobs : Known(k)' <=> Known(k)
    BY KnownSame
  <1>2. \A k \in Jobs : AbsStatus(k) = IF Known(k) THEN status[k] ELSE "none"
    BY AbsUnlocked
  <1>3. ~Known(j) /\ \A k \in Jobs : k # j => status'[k] = status[k]
    BY DEF IInv, KnownInv, TypeOK
  <1>4. \A w \in Workers : pc'[w] # "finishing"
    BY DEF IInv, LockInv, Goto, TypeOK, Threads
  <1>5. \A k \in Jobs : AbsStatus(k)' = IF Known(k) THEN status'[k] ELSE "none"
    BY <1>1, <1>4 DEF AbsStatus
  <1> QED
    BY <1>2, <1>3, <1>5 DEF AbsBoard

LEMMA SubmitReturnStep ==
  ASSUME IInv, IInv', NEW c \in Clients, SubmitReturn(c)
  PROVE  \E j \in Jobs : Board!Post(c, j)
  <1> DEFINE j == job[c]
  <1> USE QueueAssumption DEF SubmitReturn
  <1>1. j \in Jobs /\ ~Known(j) /\ Fresh(j)
    BY DEF IInv, JobInv, ClientInv, TypeOK, Threads
  <1>2. \A k \in Jobs : Known(k)' <=> Known(k) \/ k = j
    BY <1>1, KnownCopy DEF IInv, Fresh
  <1>3. \A w \in Workers : pc[w] # "finishing" /\ pc'[w] # "finishing"
    BY DEF IInv, LockInv, Goto, TypeOK, Threads
  <1>4. \A k \in Jobs : AbsStatus(k) = IF Known(k) THEN status[k] ELSE "none"
    BY <1>3 DEF AbsStatus
  <1>5. \A k \in Jobs : AbsStatus(k)' = IF Known(k) \/ k = j THEN status[k] ELSE "none"
    BY <1>2, <1>3 DEF AbsStatus
  <1>6. AbsBoard' = [AbsBoard EXCEPT ![j] = "queued"] /\ AbsBoard[j] = "none"
    BY <1>1, <1>4, <1>5 DEF AbsBoard, Fresh
  <1>7. view' = [view EXCEPT ![c][j] = Board!Snapshot("queued")]
    BY <1>1 DEF Copy, Fresh, Board!Snapshot, Board!OutcomeOf
  <1> QED
    BY <1>1, <1>6, <1>7 DEF Board!Post, Board!Show, AbsBoard

LEMMA GetStep ==
  ASSUME IInv, IInv', NEW c \in Clients, NEW j \in Jobs, Get(c, j)
  PROVE  Board!Read(c, j)
  <1> USE DEF Get
  <1>1. \A k \in Jobs : AbsStatus(k) = IF Known(k) THEN status[k] ELSE "none"
    BY AbsUnlocked
  <1>2. status[j] # "none"
    BY DEF IInv, KnownInv
  <1>3. \A k \in Jobs : Known(k)' <=> Known(k)
    BY <1>2, KnownCopy DEF IInv
  <1>4. \A k \in Jobs : AbsStatus(k)' = AbsStatus(k)
    BY <1>3 DEF AbsStatus
  <1>5. view' = [view EXCEPT ![c][j] = Board!Snapshot(status[j])]
    BY AbsUnlocked, CoherentSnapshot DEF Copy, IInv, TypeOK
  <1> QED
    BY <1>1, <1>2, <1>4, <1>5 DEF Board!Read, Board!Show

LEMMA MarkRunningStep ==
  ASSUME IInv, IInv', NEW w \in Workers, MarkRunning(w)
  PROVE  \E j \in Jobs : Board!Start(j)
  <1> DEFINE j == job[w]
  <1> USE QueueAssumption DEF MarkRunning
  <1>1. j \in Jobs /\ Fresh(j) /\ (Known(j) \/ Handing(j))
    BY DEF IInv, JobInv, WorkerInv, TypeOK, Threads
  <1>2. ~Handing(j)
    BY DEF IInv, LockInv, Handing
  <1>3. \A k \in Jobs : Known(k)' <=> Known(k)
    BY KnownSame
  <1>4. \A k \in Jobs : AbsStatus(k) = IF Known(k) THEN status[k] ELSE "none"
    BY AbsUnlocked
  <1>5. \A k \in Jobs : AbsStatus(k)' = IF Known(k) THEN status'[k] ELSE "none"
    BY <1>3, AbsUnlocked DEF AbsStatus, IInv, LockInv, TypeOK, Threads, Goto
  <1>6. /\ status[j] = "queued" /\ status'[j] = "running"
        /\ \A k \in Jobs : k # j => status'[k] = status[k]
    BY <1>1 DEF Fresh, IInv, TypeOK
  <1>7. AbsBoard[j] = "queued" /\ AbsBoard' = [AbsBoard EXCEPT ![j] = "running"]
    BY <1>1, <1>2, <1>4, <1>5, <1>6 DEF AbsBoard
  <1> QED
    BY <1>1, <1>7 DEF Board!Start, AbsBoard

LEMMA FinishStatusStep ==
  ASSUME IInv, IInv', NEW w \in Workers, FinishStatus(w)
  PROVE  UNCHANGED <<AbsBoard, view>>
  <1> DEFINE j == job[w]
  <1> USE QueueAssumption DEF FinishStatus
  <1>1. j \in Jobs /\ status[j] = "running" /\ Known(j)
    BY DEF IInv, JobInv, WorkerInv, TypeOK, Threads
  <1>2. \A k \in Jobs : Known(k)' <=> Known(k)
    BY KnownSame
  <1>3. \A k \in Jobs : AbsStatus(k) = IF Known(k) THEN status[k] ELSE "none"
    BY AbsUnlocked
  <1>4. \A v \in Workers : pc'[v] = "finishing" <=> v = w
    BY DEF IInv, LockInv
  <1>5. AbsStatus(j)' = "running"
    BY <1>1, <1>2, <1>4 DEF AbsStatus
  <1>6. \A k \in Jobs : k # j => AbsStatus(k)' = AbsStatus(k)
    BY <1>2, <1>3, <1>4 DEF AbsStatus, IInv, TypeOK
  <1> QED
    BY <1>1, <1>3, <1>5, <1>6 DEF AbsBoard

LEMMA FinishOutcomeStep ==
  ASSUME IInv, IInv', NEW w \in Workers, FinishOutcome(w)
  PROVE  \E j \in Jobs, s \in Board!Terminal : Board!End(j, s)
  <1> DEFINE j == job[w]
  <1> USE QueueAssumption DEF FinishOutcome
  <1>1. j \in Jobs /\ status[j] \in Terminal /\ Known(j)
    BY DEF IInv, JobInv, WorkerInv, TypeOK, Threads
  <1>2. \A k \in Jobs : Known(k)' <=> Known(k)
    BY KnownSame
  <1>3. \A v \in Workers : (pc[v] = "finishing" <=> v = w) /\ pc'[v] # "finishing"
    BY DEF IInv, LockInv
  <1>4. \A k \in Jobs : AbsStatus(k)' = IF Known(k) THEN status[k] ELSE "none"
    BY <1>2, <1>3 DEF AbsStatus
  <1>5. \A k \in Jobs : k # j => AbsStatus(k) = IF Known(k) THEN status[k] ELSE "none"
    BY <1>3 DEF AbsStatus
  <1>6. AbsStatus(j) = "running"
    BY <1>1, <1>3 DEF AbsStatus
  <1>7. AbsBoard[j] = "running" /\ AbsBoard' = [AbsBoard EXCEPT ![j] = status[j]]
    BY <1>1, <1>4, <1>5, <1>6 DEF AbsBoard
  <1> QED
    BY <1>1, <1>7 DEF Board!End, AbsBoard, Terminal, Board!Terminal

LEMMA BoardStep ==
  ASSUME IInv, IInv', [Next]_vars
  PROVE  [Board!BoardNext]_<<AbsBoard, view>>
  <1> USE QueueAssumption DEF Board!BoardNext
  <1>0. /\ pc \in [Threads -> ClientPc \cup WorkerPc]
        /\ \A w \in Workers : pc[w] = "finishing" => job[w] # None
    BY DEF IInv, TypeOK, JobInv
  <1>1. ASSUME NEW c \in Clients, NEW j \in Jobs, SubmitInsert(c, j)
        PROVE  UNCHANGED <<AbsBoard, view>>
    BY <1>1, SubmitInsertStep
  <1>2. ASSUME NEW c \in Clients, NEW j \in Jobs, Get(c, j) PROVE Board!BoardNext
    BY <1>2, GetStep
  <1>3. ASSUME NEW c \in Clients, SubmitEnqueue(c) \/ SubmitRaises(c)
        PROVE  UNCHANGED <<AbsBoard, view>>
    BY <1>0, <1>3, AbsSame DEF SubmitEnqueue, SubmitRaises, Goto, Threads, IInv, TypeOK
  <1>4. ASSUME NEW c \in Clients, SubmitReturn(c) PROVE Board!BoardNext
    BY <1>4, SubmitReturnStep
  <1>5. ASSUME NEW w \in Workers, Take(w) \/ Collect(w) \/ WorkerExit(w)
        PROVE  UNCHANGED <<AbsBoard, view>>
    BY <1>0, <1>5, AbsSame DEF Take, Collect, WorkerExit, Goto, Threads, IInv, TypeOK
  <1>6. ASSUME NEW w \in Workers, MarkRunning(w) PROVE Board!BoardNext
    BY <1>6, MarkRunningStep
  <1>7. ASSUME NEW w \in Workers, FinishStatus(w) PROVE UNCHANGED <<AbsBoard, view>>
    BY <1>7, FinishStatusStep
  <1>8. ASSUME NEW w \in Workers, FinishOutcome(w) PROVE Board!BoardNext
    BY <1>8, FinishOutcomeStep
  <1>9. CASE Shutdown \/ ShutdownReturn
    BY <1>9, AbsSame DEF Shutdown, ShutdownReturn
  <1>10. CASE UNCHANGED vars
    BY <1>10, AbsSame DEF vars
  <1> QED
    BY <1>1, <1>2, <1>3, <1>4, <1>5, <1>6, <1>7, <1>8, <1>9, <1>10
       DEF Next, Submit, Work

\* The queue implements the job board: to everybody outside, posting a job,
\* ending it and reading it are single steps (CollectionQueue against JobBoard).
THEOREM QueueRefinesBoard == Spec => ImplementsJobBoard
  <1>1. Init => Board!BoardInit
    BY DEF Init, Board!BoardInit, Board!Snapshot, Board!OutcomeOf, AbsStatus, Known
  <1>2. IInv /\ IInv' /\ [Next]_vars => [Board!BoardNext]_(Board!boardVars)
    BY BoardStep DEF Board!boardVars, AbsBoard
  <1> QED
    BY <1>1, <1>2, Invariance, PTL DEF Spec, ImplementsJobBoard, Board!BoardSpec

=============================================================================

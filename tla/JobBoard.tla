------------------------------ MODULE JobBoard ------------------------------
(***************************************************************************)
(* What the collection queue promises to the people who use it: a board of *)
(* jobs, each of which is posted once, run once and ends with a result or  *)
(* an error, and on which a client reads a job's status together with the  *)
(* outcome that belongs to it.  Posting, finishing and reading are single  *)
(* steps here.  CollectionQueue, which has a lock, a thread pool and       *)
(* multi-step critical sections, is shown to implement this module.        *)
(***************************************************************************)

CONSTANTS
  Clients,  \* the API requests that submit jobs and poll them
  Jobs      \* the job ids (uuid4().hex in the code: never reused)

VARIABLES
  board,    \* board[j]: the status of job j, "none" before it is posted
  view      \* view[c][j]: the last snapshot of job j that client c was given

boardVars == <<board, view>>

Terminal == {"succeeded", "failed"}
Status   == {"none", "queued", "running"} \cup Terminal

\* The outcome that belongs to a status: results to "succeeded" and an error
\* text to "failed"; before that a job has neither.
OutcomeOf(s) == CASE s = "succeeded" -> "results"
                  [] s = "failed"    -> "error"
                  [] OTHER           -> "none"

Snapshot(s) == [status |-> s, outcome |-> OutcomeOf(s)]

BoardInit ==
  /\ board = [j \in Jobs |-> "none"]
  /\ view  = [c \in Clients |-> [j \in Jobs |-> Snapshot("none")]]

-----------------------------------------------------------------------------
Show(c, j, s) == view' = [view EXCEPT ![c][j] = Snapshot(s)]

\* A job is posted: the answer to the client says "queued".
Post(c, j) ==
  /\ board[j] = "none"
  /\ board' = [board EXCEPT ![j] = "queued"]
  /\ Show(c, j, "queued")

Start(j) ==
  /\ board[j] = "queued"
  /\ board' = [board EXCEPT ![j] = "running"]
  /\ UNCHANGED view

End(j, s) ==
  /\ board[j] = "running"
  /\ s \in Terminal
  /\ board' = [board EXCEPT ![j] = s]
  /\ UNCHANGED view

Read(c, j) ==
  /\ board[j] # "none"
  /\ Show(c, j, board[j])
  /\ UNCHANGED board

BoardNext ==
  \/ \E c \in Clients, j \in Jobs : Post(c, j) \/ Read(c, j)
  \/ \E j \in Jobs : Start(j) \/ \E s \in Terminal : End(j, s)

BoardSpec == BoardInit /\ [][BoardNext]_boardVars
=============================================================================

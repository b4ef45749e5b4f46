--------------------------- MODULE MonitoringHub ---------------------------
(***************************************************************************)
(* services/monitoring.py: request threads publish the result of a         *)
(* collection or CHECK, and every open /events/monitoring stream receives  *)
(* it.  publish and event_stream run in threads of the server's pool.      *)
(*                                                                         *)
(* A payload is represented by the number of the publish call that carried *)
(* it, counted in the order in which the calls took the lock; 0 is the     *)
(* empty state.  The text and the other fields of the payload, the         *)
(* keepalive comments and the 15 s timeout of the queue, which change no   *)
(* state, are left out.                                                    *)
(***************************************************************************)
EXTENDS Naturals, Sequences, FiniteSets

CONSTANTS
  Publishers,    \* the request threads that call publish
  Streams,       \* the event streams that may be opened
  MaxPublishes   \* bound on the number of publish calls

ASSUME HubAssumption == MaxPublishes \in Nat

VARIABLES
  state,        \* _state: the payload that /monitoring/latest answers
  subscribers,  \* _subscribers: the streams whose queue is registered
  putting,      \* putting[p]: the payload p is delivering, 0 when p is idle
  targets,      \* targets[p]: the subscribers p has still to put it to
  stream,       \* stream[s]: "new", "snapshot", "open", "closed" or "gone"
  inbox,        \* inbox[s]: the queue of stream s
  since,        \* since[s]: the payload copied when s was registered
  seen,         \* seen[s]: the payloads s has yielded as events (history)
  shown         \* shown[s]: the last payload s has yielded

hubVars == <<state, subscribers, putting, targets, stream, inbox, since, seen, shown>>

Payloads == 1..MaxPublishes

HubTypeOK ==
  /\ state \in 0..MaxPublishes
  /\ subscribers \subseteq Streams
  /\ putting \in [Publishers -> 0..MaxPublishes]
  /\ targets \in [Publishers -> SUBSET Streams]
  /\ stream \in [Streams -> {"new", "snapshot", "open", "closed", "gone"}]
  /\ inbox \in [Streams -> Seq(Payloads)]
  /\ since \in [Streams -> 0..MaxPublishes]
  /\ seen \in [Streams -> SUBSET Payloads]
  /\ shown \in [Streams -> 0..MaxPublishes]

HubInit ==
  /\ state = 0
  /\ subscribers = {}
  /\ putting = [p \in Publishers |-> 0]
  /\ targets = [p \in Publishers |-> {}]
  /\ stream = [s \in Streams |-> "new"]
  /\ inbox = [s \in Streams |-> <<>>]
  /\ since = [s \in Streams |-> 0]
  /\ seen = [s \in Streams |-> {}]
  /\ shown = [s \in Streams |-> 0]

-----------------------------------------------------------------------------
(***************************************************************************)
(* publish: under the lock the state is replaced and the subscribers are   *)
(* copied; the puts follow one by one without the lock, in the arbitrary   *)
(* order of a set.                                                         *)
(***************************************************************************)
\* Mutants: the payload delivered is the one the new one replaces; only the
\* streams that already yielded their snapshot are copied.
PublishPrevious(p) ==
  /\ putting[p] = 0
  /\ state < MaxPublishes
  /\ state' = state + 1
  /\ putting' = [putting EXCEPT ![p] = state]
  /\ targets' = [targets EXCEPT ![p] = subscribers]
  /\ UNCHANGED <<subscribers, stream, inbox, since, seen, shown>>

PublishToOpen(p) ==
  /\ putting[p] = 0
  /\ state < MaxPublishes
  /\ state' = state + 1
  /\ putting' = [putting EXCEPT ![p] = state + 1]
  /\ targets' = [targets EXCEPT ![p] = {s \in subscribers : stream[s] = "open"}]
  /\ UNCHANGED <<subscribers, stream, inbox, since, seen, shown>>

Publish(p) ==
  /\ putting[p] = 0
  /\ state < MaxPublishes
  /\ state' = state + 1
  /\ putting' = [putting EXCEPT ![p] = state + 1]
  /\ targets' = [targets EXCEPT ![p] = subscribers]
  /\ UNCHANGED <<subscribers, stream, inbox, since, seen, shown>>

\* Mutants: the put is repeated for the same subscriber; it stores nothing.
PutTwice(p, s) ==
  /\ s \in targets[p]
  /\ inbox' = [inbox EXCEPT ![s] = Append(@, putting[p])]
  /\ targets' \in {targets, [targets EXCEPT ![p] = @ \ {s}]}
  /\ Len(inbox[s]) < MaxPublishes
  /\ UNCHANGED <<state, subscribers, putting, stream, since, seen, shown>>

PutOverwrites(p, s) ==
  /\ s \in targets[p]
  /\ inbox' = [inbox EXCEPT ![s] = <<putting[p]>>]
  /\ targets' = [targets EXCEPT ![p] = @ \ {s}]
  /\ UNCHANGED <<state, subscribers, putting, stream, since, seen, shown>>

Put(p, s) ==
  /\ s \in targets[p]
  /\ inbox' = [inbox EXCEPT ![s] = Append(@, putting[p])]
  /\ targets' = [targets EXCEPT ![p] = @ \ {s}]
  /\ UNCHANGED <<state, subscribers, putting, stream, since, seen, shown>>

PublishReturn(p) ==
  /\ putting[p] # 0
  /\ targets[p] = {}
  /\ putting' = [putting EXCEPT ![p] = 0]
  /\ UNCHANGED <<state, subscribers, targets, stream, inbox, since, seen, shown>>

(***************************************************************************)
(* event_stream: the queue is registered and the state copied in one       *)
(* critical section; then the copy and the queued payloads are yielded.    *)
(***************************************************************************)
Subscribe(s) ==
  /\ stream[s] = "new"
  /\ stream' = [stream EXCEPT ![s] = "snapshot"]
  /\ subscribers' = subscribers \cup {s}
  /\ since' = [since EXCEPT ![s] = state]
  /\ UNCHANGED <<state, putting, targets, inbox, seen, shown>>

YieldSnapshot(s) ==
  /\ stream[s] = "snapshot"
  /\ stream' = [stream EXCEPT ![s] = "open"]
  /\ shown' = [shown EXCEPT ![s] = since[s]]
  /\ UNCHANGED <<state, subscribers, putting, targets, inbox, since, seen>>

YieldEvent(s) ==
  /\ stream[s] = "open"
  /\ inbox[s] # <<>>
  /\ inbox' = [inbox EXCEPT ![s] = Tail(@)]
  /\ seen' = [seen EXCEPT ![s] = @ \cup {Head(inbox[s])}]
  /\ shown' = [shown EXCEPT ![s] = Head(inbox[s])]
  /\ UNCHANGED <<state, subscribers, putting, targets, stream, since>>

\* The client goes away; the generator's finally clause runs later, when the
\* thread that waits in the queue's get has come back.
Close(s) ==
  /\ stream[s] \in {"snapshot", "open"}
  /\ stream' = [stream EXCEPT ![s] = "closed"]
  /\ UNCHANGED <<state, subscribers, putting, targets, inbox, since, seen, shown>>

\* Mutant: the finally clause does not discard the queue.
UnsubscribeLeaks(s) ==
  /\ stream[s] = "closed"
  /\ stream' = [stream EXCEPT ![s] = "gone"]
  /\ UNCHANGED <<state, subscribers, putting, targets, inbox, since, seen, shown>>

Unsubscribe(s) ==
  /\ stream[s] = "closed"
  /\ stream' = [stream EXCEPT ![s] = "gone"]
  /\ subscribers' = subscribers \ {s}
  /\ UNCHANGED <<state, putting, targets, inbox, since, seen, shown>>

-----------------------------------------------------------------------------
Yield(s) == YieldSnapshot(s) \/ YieldEvent(s)

HubNext ==
  \/ \E p \in Publishers : Publish(p) \/ PublishReturn(p)
  \/ \E p \in Publishers, s \in Streams : Put(p, s)
  \/ \E s \in Streams : Subscribe(s) \/ Yield(s) \/ Close(s) \/ Unsubscribe(s)

HubSpec == HubInit /\ [][HubNext]_hubVars

\* A publisher that has begun delivers and returns (put never blocks on an
\* unbounded queue), and the server pulls an open stream and closes a
\* broken one.  Nobody has to publish, subscribe or leave.
HubFairness ==
  /\ \A p \in Publishers : WF_hubVars(PublishReturn(p))
  /\ \A p \in Publishers, s \in Streams : WF_hubVars(Put(p, s))
  /\ \A s \in Streams : WF_hubVars(Yield(s)) /\ WF_hubVars(Unsubscribe(s))

FairHubSpec == HubSpec /\ HubFairness

-----------------------------------------------------------------------------
Queued(s)  == {inbox[s][i] : i \in 1..Len(inbox[s])}
Pending(s) == {putting[p] : p \in {q \in Publishers : s \in targets[q]}}

\* Nothing is lost between the snapshot and the events: every payload
\* published after the snapshot of a registered stream has been yielded, waits
\* in its queue, or is about to be put there, and none from before the snapshot.
NothingMissed ==
  \A s \in subscribers :
    seen[s] \cup Queued(s) \cup Pending(s) = (since[s] + 1)..state

\* Nothing is delivered twice: a payload is in one of the three places only,
\* once in the queue, and in the hands of one publisher.
NothingTwice ==
  \A s \in subscribers :
    /\ seen[s] \cap Queued(s) = {}
    /\ Pending(s) \cap (seen[s] \cup Queued(s)) = {}
    /\ \A i, k \in 1..Len(inbox[s]) : inbox[s][i] = inbox[s][k] => i = k
    /\ \A p, q \in Publishers :
         s \in targets[p] \cap targets[q] /\ putting[p] = putting[q] => p = q

\* A payload published while a stream is registered is yielded by it unless
\* the client leaves first.
EachPayloadArrives ==
  \A s \in Streams, v \in Payloads :
    s \in subscribers /\ v = state /\ v > since[s]
      ~> v \in seen[s] \/ stream[s] \in {"closed", "gone"}

\* The queue of a client that went away does not stay registered for ever.
ClosedStreamsLeave ==
  \A s \in Streams : stream[s] = "closed" ~> s \notin subscribers

\* When all is delivered, an open stream shows the result /monitoring/latest
\* would answer, the promise of the page ("stream the latest server-side
\* result here").  Two publishers that put in the opposite order of their
\* critical sections break it.
StreamShowsLatest ==
  \A s \in Streams :
    stream[s] = "open" /\ inbox[s] = <<>> /\ Pending(s) = {} => shown[s] = state
=============================================================================

------------------------ MODULE MonitoringHubProofs ------------------------
(***************************************************************************)
(* Proofs about MonitoringHub, for any publishers, streams and number of   *)
(* publish calls: every stream receives each payload published after its   *)
(* snapshot, once.                                                         *)
(***************************************************************************)
EXTENDS MonitoringHub, SequenceTheorems, TLAPS

\* A publisher that still has targets carries a published payload, no two
\* publishers carry the same one, and it is younger than the snapshot of every
\* stream it is meant for.
PublisherInv ==
  /\ \A p \in Publishers : putting[p] <= state
  /\ \A p \in Publishers : targets[p] # {} => putting[p] # 0
  /\ \A p, q \in Publishers : putting[p] = putting[q] /\ putting[p] # 0 => p = q
  /\ \A p \in Publishers : \A s \in targets[p] : putting[p] > since[s]

\* A stream that was not opened yet is known to nobody and holds nothing.
StreamInv ==
  /\ \A s \in Streams : since[s] <= state
  /\ \A s \in Streams : stream[s] = "new" =>
       /\ s \notin subscribers
       /\ inbox[s] = <<>>
       /\ seen[s] = {}
       /\ \A p \in Publishers : s \notin targets[p]

HubIInv ==
  /\ HubTypeOK
  /\ PublisherInv
  /\ StreamInv
  /\ NothingMissed
  /\ NothingTwice

-----------------------------------------------------------------------------
(* What a put and a get do to the payloads waiting in a queue. *)

LEMMA QueuedAppend ==
  ASSUME HubTypeOK, NEW s \in Streams, NEW v \in Payloads,
         inbox' = [inbox EXCEPT ![s] = Append(@, v)]
  PROVE  /\ inbox' \in [Streams -> Seq(Payloads)]
         /\ Queued(s)' = Queued(s) \cup {v}
         /\ \A t \in Streams \ {s} : inbox'[t] = inbox[t] /\ Queued(t)' = Queued(t)
         /\ (\A i, k \in 1..Len(inbox[s]) : inbox[s][i] = inbox[s][k] => i = k)
              /\ v \notin Queued(s)
            => \A i, k \in 1..Len(inbox'[s]) : inbox'[s][i] = inbox'[s][k] => i = k
  <1>1. /\ inbox[s] \in Seq(Payloads)
        /\ inbox'[s] = Append(inbox[s], v)
        /\ \A t \in Streams \ {s} : inbox'[t] = inbox[t]
    BY DEF HubTypeOK
  <1>2. /\ inbox'[s] \in Seq(Payloads)
        /\ Len(inbox[s]) \in Nat
        /\ Len(inbox'[s]) = Len(inbox[s]) + 1
        /\ \A i \in 1..Len(inbox[s]) : inbox'[s][i] = inbox[s][i]
        /\ inbox'[s][Len(inbox[s]) + 1] = v
    BY <1>1, AppendProperties
  <1>3. inbox' \in [Streams -> Seq(Payloads)]
    BY <1>1, <1>2 DEF HubTypeOK
  <1>4. Queued(s)' = Queued(s) \cup {v}
    BY <1>2 DEF Queued
  <1>5. \A t \in Streams \ {s} : Queued(t)' = Queued(t)
    BY <1>1 DEF Queued
  <1> QED
    BY <1>1, <1>2, <1>3, <1>4, <1>5 DEF Queued

LEMMA TailFacts ==
  ASSUME NEW S, NEW q \in Seq(S), q # <<>>
  PROVE  /\ Head(q) \in S
         /\ Head(q) = q[1]
         /\ Tail(q) \in Seq(S)
         /\ Len(q) \in Nat /\ Len(q) > 0
         /\ Len(Tail(q)) = Len(q) - 1
         /\ \A i \in 1..Len(Tail(q)) : Tail(q)[i] = q[i + 1]
  BY HeadTailProperties, LenProperties

LEMMA QueuedTail ==
  ASSUME HubTypeOK, NEW s \in Streams, inbox[s] # <<>>,
         \A i, k \in 1..Len(inbox[s]) : inbox[s][i] = inbox[s][k] => i = k,
         inbox' = [inbox EXCEPT ![s] = Tail(@)]
  PROVE  /\ inbox' \in [Streams -> Seq(Payloads)]
         /\ Head(inbox[s]) \in Payloads
         /\ Queued(s) = Queued(s)' \cup {Head(inbox[s])}
         /\ Head(inbox[s]) \notin Queued(s)'
         /\ \A t \in Streams \ {s} : inbox'[t] = inbox[t] /\ Queued(t)' = Queued(t)
         /\ \A i, k \in 1..Len(inbox'[s]) : inbox'[s][i] = inbox'[s][k] => i = k
  <1> DEFINE q == inbox[s]
             r == inbox'[s]
  <1>1. /\ q \in Seq(Payloads) /\ q # <<>>
        /\ r = Tail(q)
        /\ \A i, k \in 1..Len(q) : q[i] = q[k] => i = k
        /\ \A t \in Streams \ {s} : inbox'[t] = inbox[t]
    BY DEF HubTypeOK
  <1>2. /\ Queued(s) = {q[i] : i \in 1..Len(q)}
        /\ Queued(s)' = {r[i] : i \in 1..Len(r)}
        /\ \A t \in Streams \ {s} : Queued(t)' = Queued(t)
    BY <1>1 DEF Queued
  <1>3. r \in Seq(Payloads) => inbox' \in [Streams -> Seq(Payloads)]
    BY DEF HubTypeOK
  <1> HIDE DEF q, r
  <1>4. /\ Head(q) \in Payloads
        /\ Head(q) = q[1]
        /\ r \in Seq(Payloads)
        /\ Len(q) \in Nat /\ Len(q) > 0
        /\ Len(r) = Len(q) - 1
        /\ \A i \in 1..Len(r) : r[i] = q[i + 1]
    BY <1>1, TailFacts
  <1>5. \A v \in Queued(s)' : v \in Queued(s) /\ v # Head(q)
    BY <1>1, <1>2, <1>4
  <1>6. ASSUME NEW i \in 1..Len(q), i # 1 PROVE q[i] \in Queued(s)'
    <2>1. i - 1 \in 1..Len(r) /\ r[i - 1] = q[i]
      BY <1>4, <1>6
    <2> QED
      BY <1>2, <2>1
  <1>7. Queued(s) = Queued(s)' \cup {Head(q)}
    <2>1. \A i \in 1..Len(q) : q[i] \in Queued(s)' \cup {Head(q)}
      BY <1>4, <1>6
    <2>2. 1 \in 1..Len(q)
      BY <1>4
    <2> QED
      BY <1>2, <1>4, <1>5, <2>1, <2>2
  <1>8. \A i, k \in 1..Len(r) : r[i] = r[k] => i = k
    BY <1>1, <1>4
  <1> QED
    BY <1>1, <1>2, <1>3, <1>4, <1>5, <1>7, <1>8 DEF q, r

LEMMA InboxSame ==
  UNCHANGED inbox => \A s \in Streams : inbox'[s] = inbox[s] /\ Queued(s)' = Queued(s)
  BY DEF Queued

LEMMA PendingSame ==
  UNCHANGED <<putting, targets>> => \A s \in Streams : Pending(s)' = Pending(s)
  BY DEF Pending

-----------------------------------------------------------------------------
LEMMA HubInitIInv == HubInit => HubIInv
  BY HubAssumption DEF HubInit, HubIInv, HubTypeOK, PublisherInv, StreamInv,
     NothingMissed, NothingTwice, Payloads

LEMMA PublishIInv ==
  ASSUME HubIInv, NEW p \in Publishers, Publish(p)
  PROVE  HubIInv'
  <1> USE HubAssumption DEF HubIInv, Publish
  <1>1. HubTypeOK'
    BY DEF HubTypeOK
  <1>2. PublisherInv'
    BY DEF HubTypeOK, PublisherInv, StreamInv
  <1>3. StreamInv'
    BY DEF HubTypeOK, StreamInv
  <1>4. targets[p] = {}
    BY DEF PublisherInv
  <1>5. \A s \in Streams : inbox'[s] = inbox[s] /\ Queued(s)' = Queued(s)
    BY InboxSame
  <1>6. \A s \in subscribers : Pending(s)' = Pending(s) \cup {state + 1}
    BY <1>4 DEF Pending, HubTypeOK
  <1>7. \A s \in subscribers :
          (since[s] + 1)..(state + 1) = ((since[s] + 1)..state) \cup {state + 1}
    BY DEF HubTypeOK, StreamInv
  <1>8. NothingMissed'
    BY <1>5, <1>6, <1>7 DEF NothingMissed, HubTypeOK
  <1>9. NothingTwice'
    BY <1>4, <1>5, <1>6 DEF NothingTwice, NothingMissed, PublisherInv, HubTypeOK
  <1> QED
    BY <1>1, <1>2, <1>3, <1>8, <1>9

LEMMA PutIInv ==
  ASSUME HubIInv, NEW p \in Publishers, NEW s \in Streams, Put(p, s)
  PROVE  HubIInv'
  <1> DEFINE v == putting[p]
  <1> USE DEF HubIInv, Put
  <1>1. v \in Payloads /\ v <= state /\ v \in Pending(s) /\ stream[s] # "new"
    BY DEF HubTypeOK, PublisherInv, StreamInv, Payloads, Pending
  <1>2. /\ targets' = [targets EXCEPT ![p] = @ \ {s}]
        /\ targets'[p] = targets[p] \ {s}
        /\ \A q \in Publishers \ {p} : targets'[q] = targets[q]
    BY DEF HubTypeOK
  <1>3. \A q \in Publishers : s \in targets[q] /\ putting[q] = v => q = p
    BY <1>1 DEF PublisherInv, Payloads
  <1>4. Pending(s)' = Pending(s) \ {v} /\ \A t \in Streams \ {s} : Pending(t)' = Pending(t)
    BY <1>2, <1>3 DEF Pending
  <1>5. /\ inbox' \in [Streams -> Seq(Payloads)]
        /\ Queued(s)' = Queued(s) \cup {v}
        /\ \A t \in Streams \ {s} : inbox'[t] = inbox[t] /\ Queued(t)' = Queued(t)
        /\ (\A i, k \in 1..Len(inbox[s]) : inbox[s][i] = inbox[s][k] => i = k)
             /\ v \notin Queued(s)
           => \A i, k \in 1..Len(inbox'[s]) : inbox'[s][i] = inbox'[s][k] => i = k
    BY <1>1, QueuedAppend
  <1>6. HubTypeOK'
    BY <1>2, <1>5 DEF HubTypeOK
  <1>7. PublisherInv'
    BY <1>2 DEF HubTypeOK, PublisherInv
  <1>8. StreamInv'
    BY <1>1, <1>2, <1>5 DEF StreamInv
  <1>9. NothingMissed'
    <2>1. seen[s] \cup Queued(s)' \cup Pending(s)' = seen[s] \cup Queued(s) \cup Pending(s)
      BY <1>1, <1>4, <1>5
    <2>2. \A t \in Streams :
            seen[t] \cup Queued(t)' \cup Pending(t)' = seen[t] \cup Queued(t) \cup Pending(t)
      BY <1>4, <1>5, <2>1
    <2> QED
      BY <2>2 DEF NothingMissed, HubTypeOK
  <1>10. NothingTwice'
    BY <1>1, <1>2, <1>4, <1>5 DEF NothingTwice, HubTypeOK
  <1> QED
    BY <1>6, <1>7, <1>8, <1>9, <1>10

LEMMA PublishReturnIInv ==
  ASSUME HubIInv, NEW p \in Publishers, PublishReturn(p)
  PROVE  HubIInv'
  <1> USE DEF HubIInv, PublishReturn
  <1>0. HubTypeOK'
    BY HubAssumption DEF HubTypeOK
  <1>1. StreamInv' /\ PublisherInv'
    BY DEF HubTypeOK, StreamInv, PublisherInv
  <1>2. \A s \in Streams : inbox'[s] = inbox[s] /\ Queued(s)' = Queued(s)
    BY InboxSame
  <1>3. \A s \in Streams : Pending(s)' = Pending(s)
    BY DEF Pending, HubTypeOK
  <1>4. NothingMissed'
    BY <1>2, <1>3 DEF NothingMissed, HubTypeOK
  <1>5. NothingTwice'
    BY <1>2, <1>3 DEF NothingTwice, HubTypeOK
  <1> QED
    BY <1>0, <1>1, <1>4, <1>5

LEMMA SubscribeIInv ==
  ASSUME HubIInv, NEW s \in Streams, Subscribe(s)
  PROVE  HubIInv'
  <1> USE DEF HubIInv, Subscribe
  <1>1. HubTypeOK' /\ StreamInv' /\ PublisherInv'
    BY DEF HubTypeOK, StreamInv, PublisherInv
  <1>2. \A t \in Streams : /\ inbox'[t] = inbox[t] /\ Queued(t)' = Queued(t)
                           /\ Pending(t)' = Pending(t)
    BY InboxSame, PendingSame
  <1>3. seen[s] = {} /\ Queued(s) = {} /\ Pending(s) = {}
    BY DEF StreamInv, Queued, Pending
  <1>4. (state + 1)..state = {}
    BY DEF HubTypeOK
  <1>5. NothingMissed'
    BY <1>2, <1>3, <1>4 DEF NothingMissed, HubTypeOK
  <1>6. NothingTwice'
    BY <1>2, <1>3 DEF NothingTwice, StreamInv, HubTypeOK
  <1> QED
    BY <1>1, <1>5, <1>6

LEMMA YieldEventIInv ==
  ASSUME HubIInv, NEW s \in Streams, YieldEvent(s)
  PROVE  HubIInv'
  <1> DEFINE v == Head(inbox[s])
  <1> USE DEF HubIInv, YieldEvent
  <1>1. CASE s \in subscribers
    <2>1. \A i, k \in 1..Len(inbox[s]) : inbox[s][i] = inbox[s][k] => i = k
      BY <1>1 DEF NothingTwice
    <2>2. /\ inbox' \in [Streams -> Seq(Payloads)]
          /\ v \in Payloads
          /\ Queued(s) = Queued(s)' \cup {v}
          /\ v \notin Queued(s)'
          /\ \A t \in Streams \ {s} : inbox'[t] = inbox[t] /\ Queued(t)' = Queued(t)
          /\ \A i, k \in 1..Len(inbox'[s]) : inbox'[s][i] = inbox'[s][k] => i = k
      BY <2>1, QueuedTail
    <2>3. \A t \in Streams : Pending(t)' = Pending(t)
      BY PendingSame
    <2>4. seen'[s] = seen[s] \cup {v} /\ \A t \in Streams \ {s} : seen'[t] = seen[t]
      BY DEF HubTypeOK
    <2>5. HubTypeOK'
      BY <2>2, <2>4 DEF HubTypeOK, Payloads
    <2>6. PublisherInv' /\ StreamInv'
      BY <2>2, <2>4 DEF PublisherInv, StreamInv
    <2>7. NothingMissed'
      BY <2>2, <2>3, <2>4 DEF NothingMissed, HubTypeOK
    <2>8. NothingTwice'
      BY <2>2, <2>3, <2>4 DEF NothingTwice, HubTypeOK
    <2> QED
      BY <2>5, <2>6, <2>7, <2>8
  <1>2. CASE s \notin subscribers
    <2>1. v \in Payloads /\ Tail(inbox[s]) \in Seq(Payloads)
      BY TailFacts DEF HubTypeOK
    <2>2. HubTypeOK'
      BY <2>1 DEF HubTypeOK, Payloads
    <2>3. PublisherInv' /\ StreamInv'
      BY DEF PublisherInv, StreamInv, HubTypeOK
    <2>4. \A t \in subscribers : /\ inbox'[t] = inbox[t] /\ Queued(t)' = Queued(t)
                                 /\ Pending(t)' = Pending(t) /\ seen'[t] = seen[t]
      BY <1>2 DEF Queued, Pending, HubTypeOK
    <2>5. NothingMissed' /\ NothingTwice'
      BY <2>4 DEF NothingMissed, NothingTwice
    <2> QED
      BY <2>2, <2>3, <2>5
  <1> QED
    BY <1>1, <1>2

\* Steps that move no payload: the snapshot, the client's leaving, the
\* finally clause.
LEMMA QuietIInv ==
  ASSUME HubIInv, NEW s \in Streams,
         YieldSnapshot(s) \/ Close(s) \/ Unsubscribe(s)
  PROVE  HubIInv'
  <1> USE DEF HubIInv, YieldSnapshot, Close, Unsubscribe
  <1>1. /\ subscribers' \subseteq subscribers
        /\ UNCHANGED <<state, putting, targets, inbox, since, seen>>
        /\ \A t \in Streams : stream'[t] = "new" => stream[t] = "new"
    BY DEF HubTypeOK
  <1>2. HubTypeOK'
    BY DEF HubTypeOK
  <1>3. PublisherInv' /\ StreamInv'
    BY <1>1 DEF PublisherInv, StreamInv
  <1>4. \A t \in Streams : Queued(t)' = Queued(t) /\ Pending(t)' = Pending(t)
    BY <1>1, InboxSame, PendingSame
  <1>5. NothingMissed' /\ NothingTwice'
    BY <1>1, <1>4 DEF NothingMissed, NothingTwice, HubTypeOK
  <1> QED
    BY <1>2, <1>3, <1>5

LEMMA HubNextIInv == HubIInv /\ [HubNext]_hubVars => HubIInv'
  <1> SUFFICES ASSUME HubIInv, [HubNext]_hubVars PROVE HubIInv'
    OBVIOUS
  <1>1. ASSUME NEW p \in Publishers, Publish(p) \/ PublishReturn(p) PROVE HubIInv'
    BY <1>1, PublishIInv, PublishReturnIInv
  <1>2. ASSUME NEW p \in Publishers, NEW s \in Streams, Put(p, s) PROVE HubIInv'
    BY <1>2, PutIInv
  <1>3. ASSUME NEW s \in Streams,
               Subscribe(s) \/ Yield(s) \/ Close(s) \/ Unsubscribe(s)
        PROVE  HubIInv'
    BY <1>3, SubscribeIInv, YieldEventIInv, QuietIInv DEF Yield
  <1>4. CASE UNCHANGED hubVars
    <2>1. \A t \in Streams : Queued(t)' = Queued(t) /\ Pending(t)' = Pending(t)
      BY <1>4, InboxSame, PendingSame DEF hubVars
    <2>2. HubTypeOK' /\ PublisherInv' /\ StreamInv'
      BY <1>4 DEF hubVars, HubIInv, HubTypeOK, PublisherInv, StreamInv
    <2>3. NothingMissed' /\ NothingTwice'
      BY <1>4, <2>1 DEF hubVars, HubIInv, HubTypeOK, NothingMissed, NothingTwice
    <2> QED
      BY <2>2, <2>3 DEF HubIInv
  <1> QED
    BY <1>1, <1>2, <1>3, <1>4 DEF HubNext

LEMMA HubInvariance == HubSpec => []HubIInv
  BY HubInitIInv, HubNextIInv, PTL DEF HubSpec

-----------------------------------------------------------------------------
\* The hub's variables keep their types, whatever the number of publishers,
\* streams and publish calls (services/monitoring.py).
THEOREM HubTypeCorrect == HubSpec => []HubTypeOK
  BY HubInvariance, PTL DEF HubIInv

\* No payload falls between a stream's snapshot and its events
\* (MonitoringHub.publish against event_stream).
THEOREM HubMissesNothing == HubSpec => []NothingMissed
  BY HubInvariance, PTL DEF HubIInv

\* No payload reaches a stream twice (MonitoringHub.publish, event_stream).
THEOREM HubRepeatsNothing == HubSpec => []NothingTwice
  BY HubInvariance, PTL DEF HubIInv
=============================================================================

----------------------- MODULE OperationsPageProofs -----------------------
(***************************************************************************)
(* Proofs about OperationsPage, for any inventory, any purposes and any    *)
(* number of handlers under way at once.                                   *)
(***************************************************************************)
EXTENDS OperationsPage, SequenceTheorems, TLAPS

Waits == {"devices", "context", "purposes", "plan", "collecting", "checking"}
Words == Purposes \cup {"", "check"}
Tasks == [at : {"free"} \cup Waits, device : Inventory \cup {None}, purpose : Words,
          shown : Plans, last : BOOLEAN]

\* A slot without a request is free, requests for purposes and plans are about a
\* device, and the CHECK button goes with the selection.
SelectionInv ==
  /\ CheckButtonFits
  /\ \A s \in Slots :
       /\ task[s].at = "free" => task[s] = Free
       /\ task[s].at \in {"purposes", "plan"} => task[s].device \in Inventory

\* What Collect would send is on display, or it is what CHECK left behind.
Matching == purpose # "check" => plan = [device |-> selected, purpose |-> purpose]
Listed   == \A p \in options : p \in ToSet(PurposesOf[selected])

\* While the user waits there is one handler at most; what its next answer may
\* rely on, by the request it awaits.
AtWait(s) ==
  /\ task[s].at = "devices"  => (canCollect => Matching) /\ Listed
  /\ task[s].at = "purposes" => ~canCollect /\ options = {} /\ task[s].device = selected
  /\ task[s].at = "plan"     => /\ task[s].device = selected /\ task[s].purpose = purpose /\ Listed
                                /\ purpose \notin ToSet(PurposesOf[selected]) => (canCollect => Matching)
  /\ task[s].at = "collecting" => Matching /\ Listed
  /\ task[s].at = "checking" => purpose = "check" /\ Listed

CalmInv ==
  calm =>
    /\ \A s, t \in Slots : task[s] # Free /\ task[t] # Free => s = t
    /\ \A s \in Slots : AtWait(s)
    /\ Idle => (canCollect => Matching) /\ Listed

PageInv == PageTypeOK /\ SelectionInv /\ CalmInv

-----------------------------------------------------------------------------
\* PageTypeOK but for the handlers.
PanelsOK ==
  /\ selected \in Inventory \cup {None}
  /\ purpose \in Words
  /\ options \subseteq Purposes
  /\ plan \in Plans
  /\ canCollect \in BOOLEAN /\ canCheck \in BOOLEAN /\ calm \in BOOLEAN
  /\ result \in {"none", "ready", "running", "answer"}

LEMMA Truth == ASSUME NEW b, NEW x, NEW S, b = (x \in S) PROVE b \in BOOLEAN
  <1>1. CASE x \in S
    BY <1>1
  <1>2. CASE x \notin S
    BY <1>2
  <1> QED BY <1>1, <1>2

LEMMA TypeParts == /\ PanelsOK /\ task \in [Slots -> Tasks] <=> PageTypeOK
                   /\ PanelsOK' /\ task' \in [Slots -> Tasks] => PageTypeOK'
  <1>1. Tasks = [at : {"free", "devices", "context", "purposes", "plan", "collecting", "checking"},
                 device : Inventory \cup {None}, purpose : Purposes \cup {"", "check"},
                 shown : Plans, last : BOOLEAN]
    <2>1. {"free"} \cup Waits =
            {"free", "devices", "context", "purposes", "plan", "collecting", "checking"}
      BY DEF Waits
    <2> QED BY <2>1, Zenon DEF Tasks, Words
  <1> QED BY <1>1, Zenon DEF PanelsOK, PageTypeOK, Words

LEMMA PageTypeTasks == PageTypeOK => task \in [Slots -> Tasks]
  BY DEF PageTypeOK, Tasks, Waits, Words

LEMMA FreeFacts == Free.at = "free" /\ Free \in Tasks
  BY DEF Free, Tasks, Words, Plans

LEMMA WaitFacts ==
  /\ Waits = {"devices", "context", "purposes", "plan", "collecting", "checking"}
  /\ "" \in Words /\ "check" \in Words /\ "free" \notin Waits /\ None \in Inventory \cup {None}
  BY DEF Waits, Words

LEMMA AwaitFacts ==
  ASSUME PageTypeOK, NEW s \in Slots, NEW at \in Waits, NEW d \in Inventory \cup {None},
         NEW p \in Words, Await(s, at, d, p)
  PROVE  /\ task' \in [Slots -> Tasks]
         /\ task'[s].at = at /\ task'[s].device = d /\ task'[s].purpose = p
         /\ task'[s] # Free
         /\ \A t \in Slots \ {s} : task'[t] = task[t]
  <1>1. task \in [Slots -> Tasks] /\ plan \in Plans
    BY PageTypeTasks DEF PageTypeOK
  <1>2. task'[s] = [at |-> at, device |-> d, purpose |-> p, shown |-> plan, last |-> task[s].last]
    BY <1>1 DEF Await, Tasks
  <1>6. task'[s].at = at /\ task'[s].device = d /\ task'[s].purpose = p
    BY <1>2
  <1>3. task' = [task EXCEPT ![s] = task'[s]]
    BY <1>1 DEF Await, Tasks
  <1>4. task'[s] \in Tasks
    BY <1>1, <1>2 DEF Tasks
  <1>5. task'[s] # Free
    <2>1. task'[s].at = at
      BY <1>2
    <2>2. Free.at = "free"
      BY DEF Free
    <2>3. at # "free"
      BY DEF Waits
    <2> QED BY <2>1, <2>2, <2>3
  <1> QED BY <1>1, <1>3, <1>4, <1>5, <1>6

LEMMA DoneFacts ==
  ASSUME PageTypeOK, NEW s \in Slots, Done(s)
  PROVE  /\ task' \in [Slots -> Tasks]
         /\ task'[s] = Free
         /\ \A t \in Slots \ {s} : task'[t] = task[t]
  <1>1. task \in [Slots -> Tasks]
    BY PageTypeTasks
  <1>2. Free \in Tasks
    BY DEF Free, Tasks, Words, Plans
  <1> QED BY <1>1, <1>2 DEF Done

LEMMA PurposeFacts ==
  ASSUME NEW d \in Inventory
  PROVE  /\ ToSet(PurposesOf[d]) \subseteq Purposes
         /\ Head(PurposesOf[d]) \in ToSet(PurposesOf[d])
  <1>1. PurposesOf[d] \in Seq(Purposes) /\ PurposesOf[d] # <<>>
    BY PageAssumption
  <1>2. ToSet(PurposesOf[d]) \subseteq Purposes
    BY DEF Purposes
  <1>3. Head(PurposesOf[d]) = PurposesOf[d][1] /\ 1 \in DOMAIN PurposesOf[d]
    BY <1>1, EmptySeq, LenProperties
  <1> QED BY <1>2, <1>3 DEF ToSet

\* The CHECK button when a handler that is no CHECK goes on, and when the button
\* is set anew.
LEMMA ButtonKept ==
  ASSUME SelectionInv, NEW s \in Slots, task[s].at # "checking", UNCHANGED <<selected, canCheck>>,
         \A t \in Slots \ {s} : task'[t] = task[t]
  PROVE  CheckButtonFits'
  BY DEF SelectionInv, CheckButtonFits

LEMMA ButtonSet == ASSUME canCheck' = (selected' \in Collectable) PROVE CheckButtonFits'
  BY DEF CheckButtonFits

-----------------------------------------------------------------------------
(* A handler starts, goes on to its next request, or ends: the rest of the *)
(* page's calm invariant is about that handler alone.                      *)
LEMMA CalmAwait ==
  ASSUME PageInv, NEW s \in Slots, calm' => calm, calm' => task[s] # Free \/ Idle,
         task' \in [Slots -> Tasks], task'[s] # Free,
         \A t \in Slots \ {s} : task'[t] = task[t],
         calm' => AtWait(s)'
  PROVE  CalmInv'
  <1> SUFFICES ASSUME calm'
               PROVE  /\ \A u, t \in Slots : task'[u] # Free /\ task'[t] # Free => u = t
                      /\ \A u \in Slots : AtWait(u)'
                      /\ ~Idle'
    BY DEF CalmInv, Free
  <1>1. \A t \in Slots \ {s} : task[t] = Free /\ task'[t] = Free
    BY DEF PageInv, CalmInv, Idle
  <1>2. \A t \in Slots \ {s} : AtWait(t)'
    BY <1>1, FreeFacts DEF AtWait
  <1> QED BY <1>1, <1>2 DEF Idle, Free

LEMMA CalmDone ==
  ASSUME PageInv, NEW s \in Slots, calm' => calm, task[s] # Free,
         task' \in [Slots -> Tasks], task'[s] = Free,
         \A t \in Slots \ {s} : task'[t] = task[t],
         calm' => ((canCollect => Matching) /\ Listed)'
  PROVE  CalmInv'
  <1> SUFFICES ASSUME calm'
               PROVE  /\ \A u, t \in Slots : task'[u] # Free /\ task'[t] # Free => u = t
                      /\ \A u \in Slots : AtWait(u)'
                      /\ ((canCollect => Matching) /\ Listed)'
    BY DEF CalmInv
  <1>1. \A t \in Slots : task'[t] = Free
    BY DEF PageInv, CalmInv
  <1>2. \A t \in Slots : AtWait(t)'
    BY <1>1, FreeFacts DEF AtWait
  <1> QED BY <1>1, <1>2

LEMMA PageInitInv == PageInit => PageInv
  <1> SUFFICES ASSUME PageInit PROVE PageInv
    OBVIOUS
  <1>1. PICK s \in Slots : task = [t \in Slots |-> IF t = s THEN [Free EXCEPT !.at = "devices"] ELSE Free]
    BY DEF PageInit
  <1>2. Free \in Tasks /\ [Free EXCEPT !.at = "devices"] \in Tasks /\ [Free EXCEPT !.at = "devices"].at = "devices"
    BY DEF Free, Tasks, Words, Plans, Waits
  <1>3. /\ task \in [Slots -> Tasks] /\ task[s].at = "devices"
        /\ \A t \in Slots \ {s} : task[t] = Free
    BY <1>1, <1>2
  <1>4. PageTypeOK
    BY <1>3 DEF PageInit, PageTypeOK, Plans, Tasks, Words, Waits
  <1>5. SelectionInv
    <2>1. CheckButtonFits
      BY PageAssumption DEF PageInit, CheckButtonFits
    <2> QED BY <1>3, <2>1, FreeFacts DEF SelectionInv
  <1>6. CalmInv
    <2>1. ~canCollect /\ options = {} /\ task[s] # Free
      BY <1>3, FreeFacts DEF PageInit
    <2>2. \A t \in Slots : AtWait(t)
      BY <1>3, <2>1, FreeFacts DEF AtWait, Listed
    <2> QED BY <1>3, <2>1, <2>2 DEF CalmInv, Idle
  <1> QED BY <1>4, <1>5, <1>6 DEF PageInv

\* What a handler that the user starts may rely on.
LEMMA UserFacts ==
  ASSUME PageInv, NEW s \in Slots, ByUser(s)
  PROVE  /\ task[s] = Free /\ task[s].at = "free" /\ calm' \in BOOLEAN /\ (calm' => calm /\ Idle)
         /\ calm' => (canCollect => Matching) /\ Listed
  <1>1. Free.at = "free"
    BY DEF Free
  <1>2. calm' \in BOOLEAN /\ (calm' => calm /\ Idle)
    BY DEF ByUser, PageInv, PageTypeOK
  <1> QED BY <1>1, <1>2 DEF ByUser, PageInv, CalmInv

LEMMA SelectInv == ASSUME PageInv, NEW s \in Slots, NEW d \in Inventory \cup {None}, Select(s, d) PROVE PageInv'
  <1> DEFINE t0 == [Free EXCEPT !.at = "context", !.last = TRUE]
  <1>0. PageTypeOK /\ SelectionInv /\ task \in [Slots -> Tasks] /\ None \notin Inventory
    BY PageTypeTasks, PageAssumption DEF PageInv
  <1>1. /\ task[s] = Free /\ calm' \in BOOLEAN /\ (calm' => calm /\ Idle)
    BY UserFacts DEF Select
  <1>2. t0 \in Tasks /\ t0.at = "context" /\ t0 # Free
    <2>1. t0 \in Tasks /\ t0.at = "context" /\ Free.at = "free"
      BY DEF Free, Tasks, Words, Plans, Waits
    <2> QED BY <2>1
  <1>3. /\ task' \in [Slots -> Tasks] /\ task'[s] = t0
        /\ \A t \in Slots \ {s} : task'[t] = task[t]
    BY <1>0, <1>2 DEF Select
  <1>4. PageTypeOK'
    <2>1. canCheck' \in BOOLEAN
      BY DEF Select
    <2>2. PanelsOK'
      BY <1>0, <1>1, <2>1, TypeParts DEF PanelsOK, Select, Plans
    <2> QED BY <1>3, <2>2, TypeParts
  <1>5. SelectionInv'
    BY <1>0, <1>1, <1>2, <1>3, ButtonSet DEF SelectionInv, Select
  <1>6. AtWait(s)'
    BY <1>2, <1>3 DEF AtWait
  <1>7. CalmInv'
    BY <1>1, <1>2, <1>3, <1>6, CalmAwait
  <1> QED BY <1>4, <1>5, <1>7 DEF PageInv

LEMMA RefreshInv == ASSUME PageInv, NEW s \in Slots, Refresh(s) PROVE PageInv'
  <1>0. PageTypeOK /\ SelectionInv /\ None \notin Inventory
    BY PageAssumption DEF PageInv
  <1>1. /\ task[s] = Free /\ calm' \in BOOLEAN /\ (calm' => calm /\ Idle)
        /\ calm' => (canCollect => Matching) /\ Listed
    BY UserFacts DEF Refresh
  <1>2. /\ task' \in [Slots -> Tasks] /\ task'[s].at = "devices" /\ task'[s] # Free
        /\ \A t \in Slots \ {s} : task'[t] = task[t]
    <2>1. Await(s, "devices", None, "") /\ "devices" \in Waits
      BY WaitFacts DEF Refresh
    <2> QED BY <1>0, <2>1, WaitFacts, AwaitFacts
  <1>3. PageTypeOK'
    <2>1. PanelsOK'
      BY <1>0, <1>1, TypeParts DEF PanelsOK, Refresh
    <2> QED BY <1>2, <2>1, TypeParts
  <1>4. SelectionInv'
    BY <1>0, <1>1, <1>2, ButtonKept, FreeFacts DEF SelectionInv, Refresh
  <1>5. calm' => AtWait(s)'
    BY <1>1, <1>2 DEF AtWait, Refresh, Matching, Listed
  <1>6. CalmInv'
    BY <1>1, <1>2, <1>5, CalmAwait
  <1> QED BY <1>3, <1>4, <1>6 DEF PageInv

-----------------------------------------------------------------------------
(* What the user does.                                                     *)
LEMMA ChangePurposeInv == ASSUME PageInv, NEW s \in Slots, NEW p \in options, ChangePurpose(s, p) PROVE PageInv'
  <1>0. /\ PageTypeOK /\ SelectionInv /\ None \notin Inventory
        /\ selected \in Inventory \cup {None} /\ p \in Words
    BY PageAssumption DEF PageInv, PageTypeOK, SelectionInv, ChangePurpose, Words
  <1>1. /\ task[s] = Free /\ task[s].at = "free" /\ calm' \in BOOLEAN /\ (calm' => calm /\ Idle)
        /\ calm' => (canCollect => Matching) /\ Listed
    BY UserFacts DEF ChangePurpose
  <1>2. /\ task' \in [Slots -> Tasks]
        /\ \A t \in Slots \ {s} : task'[t] = task[t]
        /\ \/ task'[s] = Free
           \/ task'[s].at = "plan" /\ task'[s] # Free /\ task'[s].device = selected
              /\ task'[s].purpose = p /\ selected # None
    <2>1. CASE selected = None
      <3>1. Done(s)
        BY <2>1 DEF ChangePurpose, AwaitPlan
      <3> QED BY <1>0, <3>1, DoneFacts
    <2>2. CASE selected # None
      <3>1. Await(s, "plan", selected, p) /\ "plan" \in Waits
        BY <2>2, WaitFacts DEF ChangePurpose, AwaitPlan
      <3> QED BY <1>0, <2>2, <3>1, AwaitFacts
    <2> QED BY <2>1, <2>2
  <1>3. PageTypeOK'
    <2>1. PanelsOK'
      BY <1>0, <1>1, TypeParts, PageAssumption DEF PanelsOK, ChangePurpose, Plans, Words
    <2> QED BY <1>2, <2>1, TypeParts
  <1>4. SelectionInv'
    BY <1>0, <1>1, <1>2, FreeFacts, ButtonKept DEF SelectionInv, ChangePurpose
  <1>5. calm' => AtWait(s)' /\ ((canCollect => Matching) /\ Listed)'
    BY <1>0, <1>1, <1>2, FreeFacts DEF AtWait, ChangePurpose, Matching, Listed
  <1>6. CalmInv'
    <2>1. CASE task'[s] = Free
      <3>1. ASSUME calm' PROVE \A t \in Slots : task'[t] = Free
        BY <1>1, <1>2, <2>1, <3>1 DEF Idle
      <3>2. ASSUME calm' PROVE \A t \in Slots : AtWait(t)'
        BY <3>1, <3>2, FreeFacts DEF AtWait
      <3> QED BY <1>5, <3>1, <3>2 DEF CalmInv
    <2>2. CASE task'[s] # Free
      BY <1>1, <1>2, <1>5, <2>2, CalmAwait
    <2> QED BY <2>1, <2>2
  <1> QED BY <1>3, <1>4, <1>6 DEF PageInv

LEMMA LoadPlanInv == ASSUME PageInv, NEW s \in Slots, LoadPlan(s) PROVE PageInv'
  <1>0. /\ PageTypeOK /\ SelectionInv /\ None \notin Inventory
        /\ selected \in Inventory /\ purpose \in Words
    BY PageAssumption DEF PageInv, PageTypeOK, SelectionInv, LoadPlan, Words
  <1>1. /\ task[s] = Free /\ task[s].at = "free" /\ calm' \in BOOLEAN /\ (calm' => calm /\ Idle)
        /\ calm' => (canCollect => Matching) /\ Listed
    BY UserFacts DEF LoadPlan
  <1>2. /\ task' \in [Slots -> Tasks] /\ task'[s].at = "plan" /\ task'[s] # Free
        /\ task'[s].device = selected /\ task'[s].purpose = purpose
        /\ \A t \in Slots \ {s} : task'[t] = task[t]
    <2>1. Await(s, "plan", selected, purpose) /\ "plan" \in Waits
      BY WaitFacts DEF LoadPlan, AwaitPlan
    <2> QED BY <1>0, <2>1, AwaitFacts
  <1>3. PageTypeOK'
    <2>1. PanelsOK'
      BY <1>0, <1>1, TypeParts, PageAssumption DEF PanelsOK, LoadPlan, Plans, Words
    <2> QED BY <1>2, <2>1, TypeParts
  <1>4. SelectionInv'
    BY <1>0, <1>1, <1>2, ButtonKept DEF SelectionInv, LoadPlan
  <1>5. calm' => AtWait(s)'
    BY <1>0, <1>1, <1>2 DEF AtWait, LoadPlan, Matching, Listed
  <1>6. CalmInv'
    BY <1>1, <1>2, <1>5, CalmAwait
  <1> QED BY <1>3, <1>4, <1>6 DEF PageInv

LEMMA DiagnoseInv == ASSUME PageInv, NEW s \in Slots, Diagnose(s) PROVE PageInv'
  <1>0. /\ PageTypeOK /\ SelectionInv /\ None \notin Inventory
        /\ selected \in Inventory /\ "interfaces" \in Words
    BY PageAssumption DEF PageInv, PageTypeOK, SelectionInv, Diagnose, Words
  <1>1. /\ task[s] = Free /\ task[s].at = "free" /\ calm' \in BOOLEAN /\ (calm' => calm /\ Idle)
        /\ calm' => (canCollect => Matching) /\ Listed
    BY UserFacts DEF Diagnose
  <1>2. /\ task' \in [Slots -> Tasks] /\ task'[s].at = "plan" /\ task'[s] # Free
        /\ task'[s].device = selected /\ task'[s].purpose = "interfaces"
        /\ \A t \in Slots \ {s} : task'[t] = task[t]
    <2>1. Await(s, "plan", selected, "interfaces") /\ "plan" \in Waits
      BY WaitFacts DEF Diagnose, AwaitPlan
    <2> QED BY <1>0, <2>1, AwaitFacts
  <1>3. PageTypeOK'
    <2>1. PanelsOK'
      BY <1>0, <1>1, TypeParts, PageAssumption DEF PanelsOK, Diagnose, Plans, Words
    <2> QED BY <1>2, <2>1, TypeParts
  <1>4. SelectionInv'
    BY <1>0, <1>1, <1>2, ButtonKept DEF SelectionInv, Diagnose
  <1>5. calm' => AtWait(s)'
    BY <1>0, <1>1, <1>2 DEF AtWait, Diagnose, Matching, Listed
  <1>6. CalmInv'
    BY <1>1, <1>2, <1>5, CalmAwait
  <1> QED BY <1>3, <1>4, <1>6 DEF PageInv

LEMMA CollectInv == ASSUME PageInv, NEW s \in Slots, Collect(s) PROVE PageInv'
  <1>0. /\ PageTypeOK /\ SelectionInv /\ None \notin Inventory
        /\ selected \in Inventory /\ purpose \in Words
    BY PageAssumption DEF PageInv, PageTypeOK, SelectionInv, Collect, Words
  <1>1. /\ task[s] = Free /\ task[s].at = "free" /\ calm' \in BOOLEAN /\ (calm' => calm /\ Idle)
        /\ calm' => (canCollect => Matching) /\ Listed
    BY UserFacts DEF Collect
  <1>2. /\ task' \in [Slots -> Tasks] /\ task'[s].at = "collecting" /\ task'[s] # Free
        /\ task'[s].device = selected /\ task'[s].purpose = purpose
        /\ \A t \in Slots \ {s} : task'[t] = task[t]
    <2>1. Await(s, "collecting", selected, purpose) /\ "collecting" \in Waits
      BY WaitFacts DEF Collect, AwaitPlan
    <2> QED BY <1>0, <2>1, AwaitFacts
  <1>3. PageTypeOK'
    <2>1. PanelsOK'
      BY <1>0, <1>1, TypeParts, PageAssumption DEF PanelsOK, Collect, Plans, Words
    <2> QED BY <1>2, <2>1, TypeParts
  <1>4. SelectionInv'
    BY <1>0, <1>1, <1>2, ButtonKept DEF SelectionInv, Collect
  <1>5. calm' => AtWait(s)'
    BY <1>0, <1>1, <1>2 DEF AtWait, Collect, Matching, Listed
  <1>6. CalmInv'
    BY <1>1, <1>2, <1>5, CalmAwait
  <1> QED BY <1>3, <1>4, <1>6 DEF PageInv

LEMMA CheckInv == ASSUME PageInv, NEW s \in Slots, Check(s) PROVE PageInv'
  <1>0. /\ PageTypeOK /\ SelectionInv /\ None \notin Inventory
        /\ selected \in Inventory /\ "check" \in Words
    BY PageAssumption DEF PageInv, PageTypeOK, SelectionInv, Check, Words
  <1>1. /\ task[s] = Free /\ task[s].at = "free" /\ calm' \in BOOLEAN /\ (calm' => calm /\ Idle)
        /\ calm' => (canCollect => Matching) /\ Listed
    BY UserFacts DEF Check
  <1>2. /\ task' \in [Slots -> Tasks] /\ task'[s].at = "checking" /\ task'[s] # Free
        /\ task'[s].device = selected /\ task'[s].purpose = "check"
        /\ \A t \in Slots \ {s} : task'[t] = task[t]
    <2>1. Await(s, "checking", selected, "check") /\ "checking" \in Waits
      BY WaitFacts DEF Check, AwaitPlan
    <2> QED BY <1>0, <2>1, AwaitFacts
  <1>3. PageTypeOK'
    <2>1. PanelsOK'
      BY <1>0, <1>1, TypeParts, PageAssumption DEF PanelsOK, Check, Plans, Words
    <2> QED BY <1>2, <2>1, TypeParts
  <1>4. SelectionInv'
    BY <1>0, <1>1, <1>2 DEF SelectionInv, CheckButtonFits, Check
  <1>5. calm' => AtWait(s)'
    BY <1>0, <1>1, <1>2 DEF AtWait, Check, Matching, Listed
  <1>6. CalmInv'
    BY <1>1, <1>2, <1>5, CalmAwait
  <1> QED BY <1>3, <1>4, <1>6 DEF PageInv

-----------------------------------------------------------------------------
(* What the answers do.                                                    *)
LEMMA AnswerFacts ==
  ASSUME PageInv, NEW s \in Slots, NEW at \in Waits, Answered(s, at)
  PROVE  /\ task[s] # Free /\ task[s].at = at /\ calm' = calm
         /\ calm => AtWait(s)
         /\ task[s].device \in Inventory \cup {None} /\ task[s].purpose \in Words
  <1>1. task[s] \in Tasks
    BY PageTypeTasks DEF PageInv
  <1> QED BY <1>1, FreeFacts, WaitFacts DEF Answered, PageInv, CalmInv, Tasks

LEMMA DevicesAnswerInv == ASSUME PageInv, NEW s \in Slots, DevicesAnswer(s) PROVE PageInv'
  <1>0. /\ PageTypeOK /\ SelectionInv /\ None \notin Inventory /\ "devices" \in Waits
    BY PageAssumption, WaitFacts DEF PageInv
  <1>1. /\ task[s] # Free /\ task[s].at = "devices" /\ calm' = calm /\ (calm => AtWait(s))
    BY <1>0, AnswerFacts DEF DevicesAnswer
  <1>2. selected' \in Inventory \cup {None}
    BY <1>0 DEF DevicesAnswer, PageTypeOK
  <1>3. /\ task' \in [Slots -> Tasks] /\ task'[s].at = "context" /\ task'[s] # Free
        /\ task'[s].device = None /\ task'[s].purpose = ""
        /\ \A t \in Slots \ {s} : task'[t] = task[t]
    <2>1. Await(s, "context", None, "") /\ "context" \in Waits
      BY WaitFacts DEF DevicesAnswer, AwaitPlan
    <2> QED BY <1>0, <1>2, <2>1, WaitFacts, AwaitFacts
  <1>4. PageTypeOK'
    <2>0. canCheck' \in BOOLEAN
      <3>1. canCheck' = (selected' \in Collectable)
        BY DEF DevicesAnswer
      <3> QED BY <3>1, Truth
    <2>1. PanelsOK'
      BY <1>0, <1>1, <1>2, <2>0, TypeParts DEF PanelsOK, DevicesAnswer, Words
    <2> QED BY <1>3, <2>1, TypeParts
  <1>5. SelectionInv'
    BY <1>0, <1>1, <1>2, <1>3, ButtonSet DEF SelectionInv, DevicesAnswer
  <1>6. calm' => AtWait(s)'
    BY <1>1, <1>2, <1>3 DEF AtWait, DevicesAnswer, Listed
  <1>7. CalmInv'
    BY <1>1, <1>3, <1>6, CalmAwait
  <1> QED BY <1>4, <1>5, <1>7 DEF PageInv

LEMMA ContextAnswerInv == ASSUME PageInv, NEW s \in Slots, ContextAnswer(s) PROVE PageInv'
  <1>0. /\ PageTypeOK /\ SelectionInv /\ None \notin Inventory /\ "context" \in Waits
    BY PageAssumption, WaitFacts DEF PageInv
  <1>1. /\ task[s] # Free /\ task[s].at = "context" /\ calm' = calm /\ (calm => AtWait(s))
        /\ selected \in Inventory \cup {None}
    BY <1>0, AnswerFacts DEF ContextAnswer, PageTypeOK
  <1>2. \/ /\ task'[s].at = "purposes" /\ task'[s] # Free /\ task'[s].device = selected
           /\ selected # None
        \/ task'[s] = Free
    <2>1. CASE selected # None
      <3>1. Await(s, "purposes", selected, "") /\ "purposes" \in Waits
        BY <2>1, WaitFacts DEF ContextAnswer
      <3> QED BY <1>0, <1>1, <2>1, <3>1, WaitFacts, AwaitFacts
    <2>2. CASE selected = None
      BY <1>0, <2>2, DoneFacts DEF ContextAnswer
    <2> QED BY <2>1, <2>2
  <1>3. task' \in [Slots -> Tasks] /\ \A t \in Slots \ {s} : task'[t] = task[t]
    <2>1. CASE selected # None
      <3>1. Await(s, "purposes", selected, "") /\ "purposes" \in Waits
        BY <2>1, WaitFacts DEF ContextAnswer
      <3> QED BY <1>0, <1>1, <2>1, <3>1, WaitFacts, AwaitFacts
    <2>2. CASE selected = None
      BY <1>0, <2>2, DoneFacts DEF ContextAnswer
    <2> QED BY <2>1, <2>2
  <1>4. PageTypeOK'
    <2>1. PanelsOK'
      BY <1>0, <1>1, TypeParts DEF PanelsOK, ContextAnswer, Ready, Words
    <2> QED BY <1>3, <2>1, TypeParts
  <1>5. SelectionInv'
    BY <1>0, <1>1, <1>2, <1>3, FreeFacts, ButtonKept DEF SelectionInv, ContextAnswer
  <1>6. CalmInv'
    <2>1. ((canCollect => Matching) /\ Listed)'
      BY DEF ContextAnswer, Listed
    <2>2. CASE task'[s] # Free
      <3>1. AtWait(s)'
        BY <1>2, <2>2 DEF AtWait, ContextAnswer
      <3> QED BY <1>1, <1>3, <2>2, <3>1, CalmAwait
    <2>3. CASE task'[s] = Free
      BY <1>1, <1>3, <2>1, <2>3, CalmDone
    <2> QED BY <2>2, <2>3
  <1> QED BY <1>4, <1>5, <1>6 DEF PageInv

LEMMA PurposesAnswerInv == ASSUME PageInv, NEW s \in Slots, PurposesAnswer(s) PROVE PageInv'
  <1>0. /\ PageTypeOK /\ SelectionInv /\ None \notin Inventory /\ "purposes" \in Waits
    BY PageAssumption, WaitFacts DEF PageInv
  <1>1. /\ task[s] # Free /\ task[s].at = "purposes" /\ calm' = calm /\ (calm => AtWait(s))
    BY <1>0, AnswerFacts DEF PurposesAnswer
  <1>2. /\ selected \in Inventory \cup {None} /\ task[s].device \in Inventory
        /\ ToSet(PurposesOf[task[s].device]) \subseteq Purposes
        /\ purpose' \in ToSet(PurposesOf[task[s].device]) /\ purpose' \in Words
    <2>1. selected \in Inventory \cup {None} /\ task[s].device \in Inventory
      BY <1>0, <1>1 DEF SelectionInv, PageTypeOK
    <2> QED BY <2>1, PurposeFacts DEF PurposesAnswer, Words
  <1>3. /\ task' \in [Slots -> Tasks]
        /\ \A t \in Slots \ {s} : task'[t] = task[t]
        /\ \/ task'[s] = Free /\ selected = None
           \/ task'[s].at = "plan" /\ task'[s] # Free /\ task'[s].device = selected
              /\ task'[s].purpose = purpose' /\ selected # None
    <2>1. CASE selected = None
      <3>1. Done(s)
        BY <2>1 DEF PurposesAnswer, AwaitPlan
      <3> QED BY <1>0, <2>1, <3>1, DoneFacts
    <2>2. CASE selected # None
      <3>1. Await(s, "plan", selected, purpose') /\ "plan" \in Waits
        BY <2>2, WaitFacts DEF PurposesAnswer, AwaitPlan
      <3> QED BY <1>0, <1>2, <2>2, <3>1, WaitFacts, AwaitFacts
    <2> QED BY <2>1, <2>2
  <1>4. PageTypeOK'
    <2>1. PanelsOK'
      BY <1>0, <1>1, <1>2, TypeParts DEF PanelsOK, PurposesAnswer, Ready, Words
    <2> QED BY <1>3, <2>1, TypeParts
  <1>5. SelectionInv'
    BY <1>0, <1>1, <1>2, <1>3, FreeFacts, ButtonKept DEF SelectionInv, PurposesAnswer
  <1>6. CalmInv'
    <2>1. CASE selected = None
      BY <1>0, <1>1, <1>2, <2>1 DEF AtWait, CalmInv
    <2>2. CASE selected # None
      <3>1. calm' => AtWait(s)'
        BY <1>1, <1>2, <1>3, <2>2 DEF AtWait, PurposesAnswer, Listed
      <3> QED BY <1>1, <1>3, <2>2, <3>1, CalmAwait
    <2> QED BY <2>1, <2>2
  <1> QED BY <1>4, <1>5, <1>6 DEF PageInv

LEMMA PlanAnswerInv == ASSUME PageInv, NEW s \in Slots, PlanAnswer(s) PROVE PageInv'
  <1>0. /\ PageTypeOK /\ SelectionInv /\ None \notin Inventory /\ "plan" \in Waits
    BY PageAssumption, WaitFacts DEF PageInv
  <1>1. /\ task[s] # Free /\ task[s].at = "plan" /\ calm' = calm /\ (calm => AtWait(s))
        /\ task[s].device \in Inventory \cup {None} /\ task[s].purpose \in Words
        /\ selected \in Inventory \cup {None}
    BY <1>0, AnswerFacts DEF PlanAnswer, SelectionInv, PageTypeOK
  <1>2. /\ task' \in [Slots -> Tasks] /\ task'[s] = Free
        /\ \A t \in Slots \ {s} : task'[t] = task[t]
    BY <1>0, DoneFacts DEF PlanAnswer
  <1>3. plan' \in Plans
    <2>1. task[s].device \in Inventory
      BY <1>0, <1>1 DEF SelectionInv
    <2> QED BY <2>1, PurposeFacts DEF PlanAnswer, Plans
  <1>4. PageTypeOK'
    <2>1. canCheck' \in BOOLEAN /\ canCollect' \in BOOLEAN
      <3>1. canCollect' = (selected \in Collectable) /\ canCheck' = canCheck
        BY DEF PlanAnswer
      <3>2. canCheck \in BOOLEAN /\ canCollect \in BOOLEAN
        BY <1>0 DEF PageTypeOK
      <3> QED BY <3>1, <3>2, Truth
    <2>2. PanelsOK'
      BY <1>0, <1>1, <1>3, <2>1, TypeParts DEF PanelsOK, PlanAnswer, Ready, Words
    <2> QED BY <1>2, <2>2, TypeParts
  <1>5. SelectionInv'
    BY <1>0, <1>1, <1>2, FreeFacts, ButtonKept DEF SelectionInv, PlanAnswer
  <1>6. calm' => ((canCollect => Matching) /\ Listed)'
    BY <1>1 DEF AtWait, PlanAnswer, Matching, Listed
  <1>7. CalmInv'
    BY <1>1, <1>2, <1>6, CalmDone
  <1> QED BY <1>4, <1>5, <1>7 DEF PageInv

LEMMA PlanRefusedInv == ASSUME PageInv, NEW s \in Slots, PlanRefused(s) PROVE PageInv'
  <1>0. /\ PageTypeOK /\ SelectionInv /\ None \notin Inventory /\ "plan" \in Waits
    BY PageAssumption, WaitFacts DEF PageInv
  <1>1. /\ task[s] # Free /\ task[s].at = "plan" /\ calm' = calm /\ (calm => AtWait(s))
        /\ task[s].device \in Inventory \cup {None} /\ task[s].purpose \in Words
        /\ selected \in Inventory \cup {None}
    BY <1>0, AnswerFacts DEF PlanRefused, SelectionInv, PageTypeOK
  <1>2. /\ task' \in [Slots -> Tasks] /\ task'[s] = Free
        /\ \A t \in Slots \ {s} : task'[t] = task[t]
    BY <1>0, DoneFacts DEF PlanRefused
  <1>4. PageTypeOK'
    <2>1. canCheck' \in BOOLEAN /\ canCollect' \in BOOLEAN
      BY <1>0 DEF PlanRefused, PageTypeOK
    <2>2. PanelsOK'
      BY <1>0, <1>1, <2>1, TypeParts DEF PanelsOK, PlanRefused, ShowAnswer, Words
    <2> QED BY <1>2, <2>2, TypeParts
  <1>5. SelectionInv'
    BY <1>0, <1>1, <1>2, FreeFacts, ButtonKept DEF SelectionInv, PlanRefused
  <1>6. calm' => ((canCollect => Matching) /\ Listed)'
    BY <1>1 DEF AtWait, PlanRefused, Matching, Listed
  <1>7. CalmInv'
    BY <1>1, <1>2, <1>6, CalmDone
  <1> QED BY <1>4, <1>5, <1>7 DEF PageInv

LEMMA CollectAnswerInv == ASSUME PageInv, NEW s \in Slots, CollectAnswer(s) PROVE PageInv'
  <1>0. /\ PageTypeOK /\ SelectionInv /\ None \notin Inventory /\ "collecting" \in Waits
    BY PageAssumption, WaitFacts DEF PageInv
  <1>1. /\ task[s] # Free /\ task[s].at = "collecting" /\ calm' = calm /\ (calm => AtWait(s))
        /\ task[s].device \in Inventory \cup {None} /\ task[s].purpose \in Words
        /\ selected \in Inventory \cup {None}
    BY <1>0, AnswerFacts DEF CollectAnswer, SelectionInv, PageTypeOK
  <1>2. /\ task' \in [Slots -> Tasks] /\ task'[s] = Free
        /\ \A t \in Slots \ {s} : task'[t] = task[t]
    BY <1>0, DoneFacts DEF CollectAnswer
  <1>4. PageTypeOK'
    <2>1. canCheck' \in BOOLEAN /\ canCollect' \in BOOLEAN
      BY <1>0 DEF CollectAnswer, PageTypeOK
    <2>2. PanelsOK'
      BY <1>0, <1>1, <2>1, TypeParts DEF PanelsOK, CollectAnswer, ShowAnswer, Words
    <2> QED BY <1>2, <2>2, TypeParts
  <1>5. SelectionInv'
    BY <1>0, <1>1, <1>2, FreeFacts, ButtonKept DEF SelectionInv, CollectAnswer
  <1>6. calm' => ((canCollect => Matching) /\ Listed)'
    BY <1>1 DEF AtWait, CollectAnswer, Matching, Listed
  <1>7. CalmInv'
    BY <1>1, <1>2, <1>6, CalmDone
  <1> QED BY <1>4, <1>5, <1>7 DEF PageInv

LEMMA CheckAnswerInv == ASSUME PageInv, NEW s \in Slots, CheckAnswer(s) PROVE PageInv'
  <1>0. /\ PageTypeOK /\ SelectionInv /\ None \notin Inventory /\ "checking" \in Waits
    BY PageAssumption, WaitFacts DEF PageInv
  <1>1. /\ task[s] # Free /\ task[s].at = "checking" /\ calm' = calm /\ (calm => AtWait(s))
        /\ task[s].device \in Inventory \cup {None} /\ task[s].purpose \in Words
        /\ selected \in Inventory \cup {None}
    BY <1>0, AnswerFacts DEF CheckAnswer, SelectionInv, PageTypeOK
  <1>2. /\ task' \in [Slots -> Tasks] /\ task'[s] = Free
        /\ \A t \in Slots \ {s} : task'[t] = task[t]
    BY <1>0, DoneFacts DEF CheckAnswer
  <1>4. PageTypeOK'
    <2>1. canCheck' \in BOOLEAN /\ canCollect' \in BOOLEAN
      <3>1. canCheck' = (selected \in Collectable) /\ canCollect' = canCollect
        BY DEF CheckAnswer
      <3>2. canCheck \in BOOLEAN /\ canCollect \in BOOLEAN
        BY <1>0 DEF PageTypeOK
      <3> QED BY <3>1, <3>2, Truth
    <2>2. PanelsOK'
      BY <1>0, <1>1, <2>1, TypeParts DEF PanelsOK, CheckAnswer, ShowAnswer, Words
    <2> QED BY <1>2, <2>2, TypeParts
  <1>5. SelectionInv'
    BY <1>0, <1>1, <1>2, FreeFacts, ButtonSet DEF SelectionInv, CheckAnswer
  <1>6. calm' => ((canCollect => Matching) /\ Listed)'
    BY <1>1 DEF AtWait, CheckAnswer, Matching, Listed
  <1>7. CalmInv'
    BY <1>1, <1>2, <1>6, CalmDone
  <1> QED BY <1>4, <1>5, <1>7 DEF PageInv

LEMMA LoadFailsInv == ASSUME PageInv, NEW s \in Slots, LoadFails(s) PROVE PageInv'
  <1>0. PageTypeOK /\ SelectionInv
    BY DEF PageInv
  <1>1. /\ task' \in [Slots -> Tasks] /\ task'[s] = Free
        /\ \A t \in Slots \ {s} : task'[t] = task[t]
    BY <1>0, DoneFacts DEF LoadFails
  <1>2. PageTypeOK'
    <2>1. PanelsOK'
      BY <1>0, TypeParts DEF PanelsOK, LoadFails
    <2> QED BY <1>1, <2>1, TypeParts
  <1>3. SelectionInv'
    BY <1>0, <1>1, FreeFacts, ButtonKept DEF SelectionInv, LoadFails
  <1>4. CalmInv'
    BY DEF LoadFails, CalmInv
  <1> QED BY <1>2, <1>3, <1>4 DEF PageInv

-----------------------------------------------------------------------------
LEMMA PageStepInv == PageInv /\ [PageNext]_pageVars => PageInv'
  <1> SUFFICES ASSUME PageInv, [PageNext]_pageVars PROVE PageInv'
    OBVIOUS
  <1>1. CASE UNCHANGED pageVars
    <2>0. PageTypeOK /\ SelectionInv /\ CalmInv
      BY DEF PageInv
    <2>1. PageTypeOK'
      BY <1>1, <2>0 DEF pageVars, PageTypeOK
    <2>2. SelectionInv'
      BY <1>1, <2>0 DEF pageVars, SelectionInv, CheckButtonFits
    <2>3. CalmInv'
      BY <1>1, <2>0 DEF pageVars, CalmInv, AtWait, Idle, Matching, Listed
    <2> QED BY <2>1, <2>2, <2>3 DEF PageInv
  <1>2. CASE PageNext
    <2> PICK s \in Slots : UserActs(s) \/ AnswerComes(s)
      BY <1>2 DEF PageNext
    <2>1. CASE UserActs(s)
      BY <2>1, SelectInv, ChangePurposeInv, RefreshInv, LoadPlanInv, DiagnoseInv, CollectInv,
         CheckInv DEF UserActs
    <2>2. CASE AnswerComes(s)
      BY <2>2, DevicesAnswerInv, ContextAnswerInv, PurposesAnswerInv, PlanAnswerInv,
         PlanRefusedInv, CollectAnswerInv, CheckAnswerInv, LoadFailsInv DEF AnswerComes
    <2> QED BY <2>1, <2>2
  <1> QED BY <1>1, <1>2

LEMMA PageInvariance == PageSpec => []PageInv
  BY PageInitInv, PageStepInv, PTL DEF PageSpec

\* The page's variables keep their types, however many handlers overlap (app.js).
THEOREM PageTypeCorrect == PageSpec => []PageTypeOK
  BY PageInvariance, PTL DEF PageInv

\* CHECK is offered for a collectable selection and for no other, except while
\* one is under way, for any inventory and any number of overlapping handlers
\* (app.js updateCheckButton and its callers, checkSelectedDevice).
THEOREM CheckIsOfferedRightly == PageSpec => []CheckButtonFits
  <1>1. PageInv => CheckButtonFits
    BY DEF PageInv, SelectionInv
  <1> QED BY <1>1, PageInvariance, PTL

\* A user who waits for the page, and whose requests succeed, is shown the plan
\* of the selected device and purpose when Collect is enabled (app.js
\* loadCommandPlan, collectSelected, selectDevice).
THEOREM DisplayedPlanIsCurrent == PageSpec => []ShownPlanIsCurrent
  <1>1. PageInv => ShownPlanIsCurrent
    BY DEF PageInv, CalmInv, ShownPlanIsCurrent, Matching
  <1> QED BY <1>1, PageInvariance, PTL
=============================================================================

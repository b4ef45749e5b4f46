--------------------------- MODULE OperationsPage ---------------------------
(***************************************************************************)
(* static/app.js on the operations page: the handlers that select a        *)
(* device, load its purposes and its command plan, run CHECK or Collect    *)
(* and show the result.  JavaScript runs one handler at a time, but every  *)
(* await lets the others run: a handler is cut at its requests, and what   *)
(* it does between two answers is one step.  Answers come in any order.    *)
(*                                                                         *)
(* Requests whose answers only fill panels (diagnostics, neighbours,       *)
(* dashboard, audit log) are left out after the last write of a handler,   *)
(* and are one wait, "context", when the handler goes on after them.       *)
(***************************************************************************)
EXTENDS Naturals, Sequences, SequencesExt

CONSTANTS
  Inventory,    \* the devices the inventory may have
  Collectable,  \* the devices the server marks collectable
  PurposesOf,   \* PurposesOf[d]: what /vendors/.../purposes answers for d
  Slots,        \* handlers that may be under way at once: a bound
  None

Purposes == UNION {ToSet(PurposesOf[d]) : d \in Inventory}

ASSUME PageAssumption ==
  /\ Collectable \subseteq Inventory
  /\ None \notin Inventory /\ "" \notin Purposes /\ "check" \notin Purposes
  /\ \A d \in Inventory : PurposesOf[d] \in Seq(Purposes) \ {<<>>}

VARIABLES
  selected,    \* state.selectedDevice
  purpose,     \* state.selectedPurpose, "" for none
  options,     \* the purposes listed in the select element
  plan,        \* state.latestPlan, the commands on display: [device, purpose]
  canCollect,  \* the Collect button is enabled
  canCheck,    \* the CHECK button is enabled
  result,      \* what the result panel is about
  task,        \* task[s]: the handler in slot s and the request it awaits
  calm         \* so far the user acted only while nothing was under way and
               \* no request failed (history variable)

pageVars == <<selected, purpose, options, plan, canCollect, canCheck, result, task, calm>>

NoPlan  == [device |-> None, purpose |-> ""]
Free    == [at |-> "free", device |-> None, purpose |-> "", shown |-> NoPlan, last |-> FALSE]
Plans   == {NoPlan} \cup [device : Inventory, purpose : Purposes]

Idle == \A s \in Slots : task[s] = Free

PageTypeOK ==
  /\ selected \in Inventory \cup {None}
  /\ purpose \in Purposes \cup {"", "check"}
  /\ options \subseteq Purposes
  /\ plan \in Plans
  /\ canCollect \in BOOLEAN /\ canCheck \in BOOLEAN /\ calm \in BOOLEAN
  /\ result \in {"none", "ready", "running", "answer"}
  /\ task \in [Slots ->
       [at : {"free", "devices", "context", "purposes", "plan", "collecting", "checking"},
        device : Inventory \cup {None}, purpose : Purposes \cup {"", "check"},
        shown : Plans, last : BOOLEAN]]

\* The page loads: the first handler awaits /devices.
PageInit ==
  /\ selected = None
  /\ purpose = ""
  /\ options = {}
  /\ plan = NoPlan
  /\ canCollect = FALSE
  /\ canCheck = FALSE
  /\ result = "none"
  /\ \E s \in Slots : task = [t \in Slots |-> IF t = s THEN [Free EXCEPT !.at = "devices"] ELSE Free]
  /\ calm = TRUE

-----------------------------------------------------------------------------
\* A handler awaits the answer to a request about device d and purpose p;
\* "last" tells selectDevice, which writes the result panel when it is done.
Await(s, at, d, p) ==
  task' = [task EXCEPT ![s].at = at, ![s].device = d, ![s].purpose = p, ![s].shown = plan]
Done(s)   == task' = [task EXCEPT ![s] = Free]
Ready(s)  == result' = IF task[s].last THEN "ready" ELSE result
ByUser(s) == task[s] = Free /\ calm' = (calm /\ Idle)

(***************************************************************************)
(* What the user does.                                                     *)
(***************************************************************************)
\* A row of the inventory or of the board, or a search result, whose device the
\* page may have no record of: d is None then.
Select(s, d) ==
  /\ ByUser(s)
  /\ selected' = d
  /\ plan' = NoPlan
  /\ canCheck' = (d \in Collectable)
  /\ task' = [task EXCEPT ![s] = [Free EXCEPT !.at = "context", !.last = TRUE]]
  /\ UNCHANGED <<purpose, options, canCollect, result>>

Refresh(s) ==
  /\ ByUser(s)
  /\ Await(s, "devices", None, "")
  /\ UNCHANGED <<selected, purpose, options, plan, canCollect, canCheck, result>>

\* loadCommandPlan up to its request; p is the selected purpose by then.
AwaitPlan(s, p) == IF selected = None THEN Done(s) ELSE Await(s, "plan", selected, p)

\* Mutant: the plan of the earlier purpose stays and Collect stays enabled.
ChangePurposeOnly(s, p) ==
  /\ ByUser(s)
  /\ p \in options
  /\ purpose' = p
  /\ UNCHANGED <<selected, options, plan, canCollect, canCheck, result, task>>

ChangePurpose(s, p) ==
  /\ ByUser(s)
  /\ p \in options
  /\ purpose' = p
  /\ plan' = NoPlan
  /\ canCollect' = FALSE
  /\ AwaitPlan(s, p)
  /\ UNCHANGED <<selected, options, canCheck, result>>

\* The Plan button is enabled while the select element has entries.
LoadPlan(s) ==
  /\ ByUser(s)
  /\ options # {} /\ selected # None
  /\ AwaitPlan(s, purpose)
  /\ UNCHANGED <<selected, purpose, options, plan, canCollect, canCheck, result>>

\* diagnoseSelectedPort, of a port that a search has put on display.
Diagnose(s) ==
  /\ ByUser(s)
  /\ "interfaces" \in options /\ selected # None
  /\ purpose' = "interfaces"
  /\ AwaitPlan(s, "interfaces")
  /\ UNCHANGED <<selected, options, plan, canCollect, canCheck, result>>

\* A device that is not collectable only gets a message.
Collect(s) ==
  /\ ByUser(s)
  /\ canCollect /\ purpose # ""
  /\ selected \in Collectable
  /\ canCollect' = FALSE
  /\ result' = "running"
  /\ Await(s, "collecting", selected, purpose)
  /\ UNCHANGED <<selected, purpose, options, plan, canCheck>>

Check(s) ==
  /\ ByUser(s)
  /\ canCheck
  /\ selected \in Collectable
  /\ canCheck' = FALSE
  /\ purpose' = "check"
  /\ result' = "running"
  /\ Await(s, "checking", selected, "check")
  /\ UNCHANGED <<selected, options, plan, canCollect>>

(***************************************************************************)
(* What the answers do.                                                    *)
(***************************************************************************)
Answered(s, at) == task[s].at = at /\ UNCHANGED calm

\* loadDevices selects the first device of the list when none is selected; it
\* keeps the selection if the list has it still.
DevicesAnswer(s) ==
  /\ Answered(s, "devices")
  /\ selected' \in IF selected = None THEN Inventory ELSE {selected, None}
  /\ canCheck' = (selected' \in Collectable)
  /\ Await(s, "context", None, "")
  /\ UNCHANGED <<purpose, options, plan, canCollect, result>>

\* The panels are filled: loadPurposes up to its request.
ContextAnswer(s) ==
  /\ Answered(s, "context")
  /\ options' = {}
  /\ purpose' = ""
  /\ canCollect' = FALSE
  /\ \/ selected # None /\ Await(s, "purposes", selected, "") /\ UNCHANGED result
     \/ selected = None /\ Done(s) /\ Ready(s)
  /\ UNCHANGED <<selected, plan, canCheck>>

\* Mutant: the option is shown but state.selectedPurpose is left to the user.
PurposesAnswerUnselected(s) ==
  /\ Answered(s, "purposes")
  /\ options' = options \cup ToSet(PurposesOf[task[s].device])
  /\ purpose' = "undefined"
  /\ canCollect' = FALSE
  /\ AwaitPlan(s, purpose')
  /\ IF selected = None THEN Ready(s) ELSE UNCHANGED result
  /\ UNCHANGED <<selected, plan, canCheck>>

\* The answer's purposes are appended to the list and the first is selected,
\* and the plan for whatever device is selected now is asked for.
PurposesAnswer(s) ==
  /\ Answered(s, "purposes")
  /\ options' = options \cup ToSet(PurposesOf[task[s].device])
  /\ purpose' = Head(PurposesOf[task[s].device])
  /\ canCollect' = FALSE
  /\ AwaitPlan(s, purpose')
  /\ IF selected = None THEN Ready(s) ELSE UNCHANGED result
  /\ UNCHANGED <<selected, plan, canCheck>>

\* The plan is stored whatever is selected by now.
PlanAnswer(s) ==
  /\ Answered(s, "plan")
  /\ task[s].purpose \in ToSet(PurposesOf[task[s].device])
  /\ plan' = [device |-> task[s].device, purpose |-> task[s].purpose]
  /\ canCollect' = (selected \in Collectable)
  /\ Ready(s)
  /\ Done(s)
  /\ UNCHANGED <<selected, purpose, options, canCheck>>

\* The server knows no such purpose for the device: 400, the handler ends.
PlanRefused(s) ==
  /\ Answered(s, "plan")
  /\ task[s].purpose \notin ToSet(PurposesOf[task[s].device])
  /\ Done(s)
  /\ UNCHANGED <<selected, purpose, options, plan, canCollect, canCheck, result>>

ShowAnswer == result' = "answer"

\* Mutant: the button is enabled after a result, not in a finally clause.
CollectAnswerStuck(s) ==
  /\ Answered(s, "collecting")
  /\ ShowAnswer
  /\ canCollect' \in {canCollect, TRUE}
  /\ Done(s)
  /\ UNCHANGED <<selected, purpose, options, plan, canCheck>>

\* A result or an error: both are shown, and both end in the finally clause.
CollectAnswer(s) ==
  /\ Answered(s, "collecting")
  /\ ShowAnswer
  /\ canCollect' = TRUE
  /\ Done(s)
  /\ UNCHANGED <<selected, purpose, options, plan, canCheck>>

\* Mutant: as Collect does, the button is enabled whatever is selected by now.
CheckAnswerEnables(s) ==
  /\ Answered(s, "checking")
  /\ ShowAnswer
  /\ canCheck' = TRUE
  /\ Done(s)
  /\ UNCHANGED <<selected, purpose, options, plan, canCollect>>

CheckAnswer(s) ==
  /\ Answered(s, "checking")
  /\ ShowAnswer
  /\ canCheck' = (selected \in Collectable)
  /\ Done(s)
  /\ UNCHANGED <<selected, purpose, options, plan, canCollect>>

\* A request for data fails: the handler ends where it is.
LoadFails(s) ==
  /\ task[s].at \in {"devices", "context", "purposes", "plan"}
  /\ calm' = FALSE
  /\ Done(s)
  /\ UNCHANGED <<selected, purpose, options, plan, canCollect, canCheck, result>>

-----------------------------------------------------------------------------
UserActs(s) ==
  \/ \E d \in Inventory \cup {None} : Select(s, d)
  \/ \E p \in options : ChangePurpose(s, p)
  \/ Refresh(s) \/ LoadPlan(s) \/ Diagnose(s) \/ Collect(s) \/ Check(s)

AnswerComes(s) ==
  \/ DevicesAnswer(s) \/ ContextAnswer(s) \/ PurposesAnswer(s) \/ PlanAnswer(s)
  \/ PlanRefused(s) \/ CollectAnswer(s) \/ CheckAnswer(s) \/ LoadFails(s)

PageNext == \E s \in Slots : UserActs(s) \/ AnswerComes(s)

PageSpec == PageInit /\ [][PageNext]_pageVars

\* The server answers every request or the connection breaks: collections are
\* limited to 120 s by telnet.py.  The user need not do anything.
FairPageSpec == PageSpec /\ \A s \in Slots : WF_pageVars(AnswerComes(s))

-----------------------------------------------------------------------------
\* CHECK is offered exactly for a collectable selection, whichever handlers have
\* changed the selection since a CHECK took the button away, save that it may
\* be missing while one is under way.
CheckButtonFits ==
  /\ canCheck => selected \in Collectable
  /\ selected \in Collectable => canCheck \/ \E s \in Slots : task[s].at = "checking"

\* For a user who waits for the page, and while no request fails, the commands
\* on display when Collect is enabled are those of the selected device and
\* purpose; the purpose that CHECK leaves behind is the exception.
ShownPlanIsCurrent ==
  calm /\ Idle /\ canCollect /\ purpose # "check" =>
    plan = [device |-> selected, purpose |-> purpose]

\* Collect and CHECK come to an end on the page, be it with an error: an answer
\* or the next selection replaces "running", and the button is given back.
RunningEnds ==
  /\ result = "running" ~> result # "running"
  /\ \A s \in Slots : task[s].at = "collecting" ~> canCollect
  /\ \A s \in Slots : task[s].at = "checking" ~> canCheck = (selected \in Collectable)

\* "Review the allowlisted commands, then click Collect when ready": what
\* Collect sends is what is on display.  Even a user who waits sees this fail:
\* CHECK leaves "check" as the selected purpose and Collect enabled.
CollectSendsShownPlan ==
  \A s \in Slots : calm /\ task[s].at = "collecting" =>
    task[s].shown = [device |-> task[s].device, purpose |-> task[s].purpose]
=============================================================================

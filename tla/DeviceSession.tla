---------------------------- MODULE DeviceSession ----------------------------
(***************************************************************************)
(* One collection from one device: collector/telnet.py checks the command  *)
(* plan and starts scripts/backbone_telnet_readonly.ps1, which logs in,    *)
(* sends the commands and prints what it receives under one header each.   *)
(* The script never knows whether a device has finished: it waits for a    *)
(* prompt, and when none comes in time it goes on with what it has.        *)
(*                                                                         *)
(* The device is external.  It prints one line at a time and takes the     *)
(* next line typed to it when it has nothing left to print, so that the    *)
(* script may be ahead of it by any amount.  A timer may fire at any time  *)
(* at which the text awaited is not there.  Telnet options and the enable  *)
(* dialogue, which telnet.py never asks for, are left out.                 *)
(***************************************************************************)
EXTENDS CommandPolicy, PortParsing, Assessment

CONSTANTS
  Vendor,     \* the vendor of the device, in the inventory
  Offers,     \* the plan lists a caller may hand to the collector
  Motd,       \* the lines the device prints when it is connected
  Tables,     \* Tables[c]: the lines the device prints for command c
  PageSize,   \* the lines of a page
  MaxTimers   \* bound on the timers that fire on a device that has yet to answer

VARIABLES
  plan,      \* the combined commands of the plans
  pc,        \* what the script waits for, or "offered" or "done"
  next,      \* the index of the command that is sent next
  got,       \* the lines received by the wait in progress
  sections,  \* what has been printed: a sequence of [cmd, text]
  outcome,   \* "none", "refused", "ok", "failed" or "timeout"
  late,      \* how many timers of the script have fired, up to the bound (history)
  accepts,   \* the device accepts the user and the password
  obeys,     \* the device obeys "terminal length 0"
  mode,      \* the device: "user", "pass", "shell", "more" or "closed"
  paging,    \* it stops after each page
  saying,    \* the lines it has still to print
  held,      \* the lines after the page it has stopped at
  typed,     \* the lines sent and not yet taken by it
  said,      \* the lines printed and not yet received
  taken,     \* the lines it has taken in its shell (history)
  paged      \* it has stopped at a page (history)

scriptVars == <<pc, next, got, sections, outcome, late>>
deviceVars == <<accepts, obeys, mode, paging, saying, held, taken, paged>>
sesVars    == <<plan, scriptVars, deviceVars, typed, said>>

Token(kind, word) ==
  [kind |-> kind, first |-> word, second |-> "", words |-> 1, interface |-> FALSE,
   state |-> Absent, mbps |-> NoSpeed, errors |-> 0, mac |-> Absent, port |-> Absent, ip |-> Absent]
Prompt   == Token("prompt", PromptWord)
AskUser  == Token("askuser", "Username:")
AskPass  == Token("askpass", "Password:")
Rejected == Token("rejected", "failed")
More     == Token("more", "--More--")
Dialogue == {Prompt, AskUser, AskPass, Rejected, More}

\* A command has three words or more, a login line one.
Echo(line) ==
  [Token("echo", line[1]) EXCEPT !.second = line[2],
                                 !.words = IF line[1] \in {"show", "terminal"} THEN 3 ELSE 1]

User     == <<"user", "">>
Password == <<"password", "">>
Space    == <<"space", "">>
Exit     == <<"exit", "">>

\* The device prints tables for commands that may be asked, none for the one
\* that turns paging off, and no line of them or of its message of the day reads
\* as a word of the dialogue.
ASSUME SessionAssumption ==
  /\ {PageSize, MaxTimers} \subseteq Nat \ {0}
  /\ DOMAIN Tables \subseteq AllowedCommands(Vendor) \ {Quiet}
  /\ \A text \in {Motd} \cup {Tables[c] : c \in DOMAIN Tables} :
       /\ text \in Seq(ToSet(text))
       /\ \A line \in ToSet(text) : line.kind \notin {word.kind : word \in Dialogue}

\* What is printed before a status can be asked does not look like one, and the
\* table of the statuses has one row for a port.
ASSUME TablesAssumption ==
  /\ \A text \in {Motd} \cup {Tables[c] : c \in DOMAIN Tables \cap {Show("version"), Show("hostname")}} :
       StatusRows(text) = {}
  /\ StatusTable \in DOMAIN Tables =>
       \A row, other \in StatusRows(Tables[StatusTable]) : row.first = other.first => row = other

\* A caller hands over one plan of policy.py, for whichever vendor and purpose,
\* or the plans of a CHECK, the interfaces first, or a change.
ASSUME OffersAssumption ==
  \A o \in Offers :
    \/ \E v \in Vendors : \E p \in AllowedPurposes(v) : \E commands \in Plans(v, p) : o = <<commands>>
    \/ \E v \in Vendors :
         /\ o \in Seq(ToSet(o)) \ {<<>>} /\ o[1] \in Plans(v, "interfaces")
         /\ \A commands \in ToSet(o) : \E p \in AllowedPurposes(v) : commands \in Plans(v, p)
    \/ \E x \in Interfaces, s \in AdminStates : o = <<ChangeCommands(x, s)>>

Table(c)    == IF c \in DOMAIN Tables THEN Tables[c] ELSE <<>>
Greeting(m) ==
  Motd \o (IF m = "user" THEN <<AskUser>> ELSE IF m = "pass" THEN <<AskPass>> ELSE <<Prompt>>)

SesTypeOK ==
  /\ plan \in {UniqueCommands(o) : o \in Offers}
  /\ pc \in {"offered", "banner", "name", "blind", "login", "command", "page", "done"}
  /\ next \in 1..(Len(plan) + 1)
  /\ outcome \in {"none", "refused", "ok", "failed", "timeout"}
  /\ mode \in {"user", "pass", "shell", "more", "closed"}
  /\ late \in 0..MaxTimers /\ {accepts, obeys, paging, paged} \subseteq BOOLEAN
  /\ \A i \in DOMAIN sections : sections[i].cmd = plan[i]

SesInit ==
  /\ plan \in {UniqueCommands(o) : o \in Offers}
  /\ pc = "offered" /\ next = 1 /\ got = <<>> /\ sections = <<>> /\ outcome = "none" /\ late = 0
  /\ accepts \in BOOLEAN /\ obeys \in BOOLEAN
  /\ mode \in {"user", "pass", "shell"} /\ paging = TRUE
  /\ saying = Greeting(mode) /\ held = <<>>
  /\ typed = <<>> /\ said = <<>> /\ taken = <<>> /\ paged = FALSE

-----------------------------------------------------------------------------
(* The device.                                                             *)
Say ==
  /\ saying # <<>>
  /\ said' = Append(said, Head(saying))
  /\ saying' = Tail(saying)
  /\ UNCHANGED <<plan, scriptVars, accepts, obeys, mode, paging, held, taken, paged, typed>>

Takes(line) ==
  /\ saying = <<>>
  /\ typed # <<>> /\ Head(typed) = line
  /\ typed' = Tail(typed)
  /\ UNCHANGED <<plan, scriptVars, accepts, obeys, said>>

\* Any name is asked for its password; that of the user may be let in without
\* one or rejected at once.
TakeName(line) ==
  /\ mode = "user"
  /\ Takes(line)
  /\ \/ mode' = "pass" /\ saying' = <<AskPass>>
     \/ line = User /\ accepts /\ mode' = "shell" /\ saying' = <<Prompt>>
     \/ line = User /\ ~accepts /\ mode' = "user" /\ saying' = <<Rejected, AskUser>>
  /\ UNCHANGED <<paging, held, taken, paged>>

\* Whatever comes first is judged as the password.
TakePassword(line) ==
  /\ mode = "pass"
  /\ Takes(line)
  /\ IF accepts /\ line = Password
     THEN mode' = "shell" /\ saying' = <<Prompt>>
     ELSE mode' = "user"  /\ saying' = <<Rejected, AskUser>>
  /\ UNCHANGED <<paging, held, taken, paged>>

\* A line in the shell is echoed and prints its table, or the first page of it.
TakeCommand(line) ==
  LET stops == paging /\ Len(Table(line)) > PageSize
  IN  /\ mode = "shell" /\ line # Space
      /\ Takes(line)
      /\ taken' = Append(taken, line)
      /\ paging' = (paging /\ ~(obeys /\ line = Quiet))
      /\ paged' = (paged \/ stops)
      /\ IF stops
         THEN /\ mode' = "more"
              /\ saying' = <<Echo(line)>> \o SubSeq(Table(line), 1, PageSize) \o <<More>>
              /\ held' = SubSeq(Table(line), PageSize + 1, Len(Table(line)))
         ELSE /\ saying' = <<Echo(line)>> \o Table(line) \o <<Prompt>>
              /\ UNCHANGED <<mode, held>>

\* A blank goes on with the page; at a prompt it is typed and nothing else.
TakeSpace ==
  /\ mode \in {"shell", "more"}
  /\ Takes(Space)
  /\ mode' = "shell" /\ held' = <<>>
  /\ saying' = IF mode = "more" THEN held \o <<Prompt>> ELSE <<>>
  /\ UNCHANGED <<paging, taken, paged>>

Hangup ==
  /\ pc # "done" /\ mode # "closed"
  /\ mode' = "closed" /\ saying' = <<>>
  /\ UNCHANGED <<plan, scriptVars, accepts, obeys, paging, held, taken, paged, typed, said>>

-----------------------------------------------------------------------------
(* telnet.py                                                               *)
\* Mutant: the commands are not validated again.
AcceptUnvalidated ==
  /\ pc = "offered"
  /\ pc' = "banner"
  /\ UNCHANGED <<plan, next, got, sections, outcome, late, deviceVars, typed, said>>
\* run: validated before the script is started.
Accept ==
  /\ pc = "offered" /\ Valid(Vendor, plan)
  /\ pc' = "banner"
  /\ UNCHANGED <<plan, next, got, sections, outcome, late, deviceVars, typed, said>>

Refuse ==
  /\ pc = "offered" /\ ~Valid(Vendor, plan)
  /\ pc' = "done" /\ outcome' = "refused"
  /\ UNCHANGED <<plan, next, got, sections, late, deviceVars, typed, said>>

Running == pc \notin {"offered", "done"}

\* subprocess.run kills the script; what it has printed is not used.
Kill ==
  /\ Running
  /\ pc' = "done" /\ outcome' = "timeout" /\ sections' = <<>>
  /\ UNCHANGED <<plan, next, got, late, deviceVars, typed, said>>

\* The connection cannot be made, or breaks while the script writes to it.
Break ==
  /\ Running /\ (pc = "banner" \/ mode = "closed")
  /\ pc' = "done" /\ outcome' = "failed"
  /\ UNCHANGED <<plan, next, got, sections, late, deviceVars, typed, said>>

-----------------------------------------------------------------------------
(* The script: Wait-For collects what comes until it holds what is awaited *)
(* or the timer fires, and the script goes on with "got" either way.       *)
Has(text, kind) == \E i \in DOMAIN text : text[i].kind = kind
AtPrompt(text)  == text # <<>> /\ Last(text).kind = "prompt"
Awaited ==
  \/ AtPrompt(got) /\ pc # "blind"
  \/ Has(got, "askuser")  /\ pc = "banner"
  \/ Has(got, "askpass")  /\ pc \in {"banner", "name", "blind", "login"}
  \/ Has(got, "rejected") /\ pc \in {"name", "login"}
  \/ Has(got, "more")     /\ pc \in {"command", "page"}

Receive ==
  /\ Running /\ ~Awaited
  /\ said # <<>>
  /\ got' = got \o said /\ said' = <<>>
  /\ UNCHANGED <<plan, pc, next, sections, outcome, late, deviceVars, typed>>

Silent == mode = "closed" \/ (saying = <<>> /\ typed = <<>>)

Fires ==
  /\ ~Awaited
  /\ late < MaxTimers \/ Silent
  /\ late' = Min({late + 1, MaxTimers})

Over(label) ==
  /\ pc = label
  /\ \/ Awaited /\ UNCHANGED late
     \/ Fires /\ said = <<>>
  /\ UNCHANGED <<plan, deviceVars, said>>

Type(line)   == typed' = IF mode = "closed" THEN typed ELSE Append(typed, line)
\* Mutant: the text of the last wait is kept.
AwaitWithText(label) == pc' = label /\ UNCHANGED <<got, outcome>>
Await(label) == pc' = label /\ got' = <<>> /\ UNCHANGED outcome
SendCommand(n) ==
  IF n <= Len(plan) THEN Type(plan[n]) /\ Await("command")
  ELSE Type(Exit) /\ pc' = "done" /\ outcome' = "ok" /\ got' = <<>>
Fail == pc' = "done" /\ outcome' = "failed" /\ UNCHANGED <<got, typed>>

\* One more read before the text is judged takes what has come meanwhile, also
\* after the timer.  A greeting without any word of the dialogue is taken for a
\* login under way.
Banner ==
  LET banner == got \o said
      asked  == Has(banner, "askuser") \/ Has(banner, "askpass")
  IN  /\ pc = "banner"
      /\ (Awaited /\ UNCHANGED late) \/ Fires
      /\ said' = <<>>
      /\ \/ Has(banner, "askuser") /\ Type(User) /\ Await("name")
         \/ ~Has(banner, "askuser") /\ Has(banner, "askpass") /\ Type(Password) /\ Await("login")
         \/ ~asked /\ AtPrompt(banner) /\ SendCommand(1)
         \/ ~asked /\ ~AtPrompt(banner) /\ banner # <<>> /\ Await("login") /\ UNCHANGED typed
         \/ banner = <<>> /\ Type(User) /\ Await("blind")
      /\ UNCHANGED <<plan, deviceVars, next, sections>>

\* What is no refusal and no prompt is answered with the password.
Name ==
  /\ Over("name")
  /\ \/ Has(got, "rejected") /\ Fail
     \/ ~Has(got, "rejected") /\ AtPrompt(got) /\ ~Has(got, "askpass") /\ SendCommand(1)
     \/ /\ ~Has(got, "rejected") /\ (~AtPrompt(got) \/ Has(got, "askpass"))
        /\ Type(Password) /\ Await("login")
  /\ UNCHANGED <<next, sections>>

Blind ==
  /\ Over("blind")
  /\ Type(Password) /\ Await("login")
  /\ UNCHANGED <<next, sections>>

\* No answer at all is taken for a login.
Login ==
  /\ Over("login")
  /\ IF Has(got, "askpass") \/ Has(got, "rejected") THEN Fail ELSE SendCommand(1)
  /\ UNCHANGED <<next, sections>>

\* Mutants: the text goes under the header of the next command; the command
\* is sent again while no prompt has come.
CommandMislabelled ==
  /\ Over("command") /\ ~Has(got, "more")
  /\ sections' = Append(sections, [cmd |-> plan[(next % Len(plan)) + 1], text |-> got])
  /\ next' = next + 1
  /\ SendCommand(next + 1)
CommandRepeated ==
  /\ Over("command") /\ ~Has(got, "more")
  /\ IF AtPrompt(got)
     THEN /\ sections' = Append(sections, [cmd |-> plan[next], text |-> got])
          /\ next' = next + 1
          /\ SendCommand(next + 1)
     ELSE UNCHANGED <<sections, next, pc, got, outcome, typed>>
Command ==
  /\ Over("command") /\ ~Has(got, "more")
  /\ sections' = Append(sections, [cmd |-> plan[next], text |-> got])
  /\ next' = next + 1
  /\ SendCommand(next + 1)

\* The loop over the pages tests all the text received so far, so that once
\* it has seen a page prompt it never ends; what it collects is not modelled.
\* It types one blank per wait; here no second one before the first is taken.
NextPage ==
  /\ \/ Over("command") /\ Has(got, "more")
     \/ Over("page")
  /\ typed' = IF typed = <<>> /\ mode # "closed" THEN <<Space>> ELSE typed
  /\ Await("page")
  /\ UNCHANGED <<next, sections>>

-----------------------------------------------------------------------------
Device ==
  \/ Say \/ TakeSpace
  \/ \E line \in ToSet(typed) : TakeName(line) \/ TakePassword(line) \/ TakeCommand(line)
Script == Accept \/ Refuse \/ Receive \/ Banner \/ Name \/ Blind \/ Login \/ Command \/ NextPage

SesNext == Device \/ Hangup \/ Script \/ Kill \/ Break
SesSpec == SesInit /\ [][SesNext]_sesVars

\* The device and the script go on; nothing is said of the timer of telnet.py.
FairSesSpec == SesSpec /\ WF_sesVars(Device) /\ WF_sesVars(Script)

-----------------------------------------------------------------------------
Complete == [i \in DOMAIN plan |->
               [cmd |-> plan[i], text |-> <<Echo(plan[i])>> \o Table(plan[i]) \o <<Prompt>>]]

\* A collection that succeeded without a timer firing has under each header
\* the whole answer to that command and nothing else.  (With a timer it has
\* not: the text is printed under later headers, or not at all.)
SectionsAreAnswers == outcome = "ok" /\ late = 0 => sections = Complete

\* check_response and the collect response: what is concluded of a result.
Report(ok, text) ==
  LET ports == IF ok THEN ParsePorts(text) ELSE <<>>
  IN  [findings |-> InterfaceFindings(ports), items |-> CheckItems(ok, ports), summary |-> Summary(ports)]

\* Whichever timers fired and however the login went, a port that is reported as
\* slow or disabled is so on the device, and CHECK warns of no other low speed:
\* text under a wrong header is under a later one, and whatever a plan asks
\* before the status prints nothing that reads as a status.
StatusesAreTrue ==
  outcome = "ok" =>
    LET found == Report(TRUE, sections)
        true  == Report(TRUE, Complete)
    IN  /\ \A what \in {"low_speed", "disabled"} :
             /\ found.findings[what] \subseteq true.findings[what]
             /\ found.summary[what] <= true.summary[what]
        /\ found.items.low_speed = "warn" => true.items.low_speed = "warn"

\* README: "Allowlisted read-only command plans only".  What the device takes
\* in its shell is a command allowed for its vendor or a misplaced login line,
\* whatever plan was offered and however the login went.
OnlyReadOnly == \A line \in ToSet(taken) : Valid(Vendor, <<line>>) \/ line \in {User, Password, Exit}

\* The endless loop over the pages is kept away by the plans: each begins by
\* turning the pages off, and no misplaced line puts a table before that.
PagedOnlyIfDisobeyed == paged => ~obeys

\* Every wait of the script ends and the script with it, without the timer of
\* telnet.py, unless the device pages.
SessionEnds == <>(pc = "done" \/ paged)
=============================================================================

# Network AI MVP: verification project

NETWORK-AI-MVP is a read-only collector for network switches. A FastAPI server
builds allowlisted command plans, runs them over Telnet through a PowerShell
script, parses and stores what comes back, keeps an audit log, and serves two
browser pages. This directory holds TLA+ modules for the parts of it that keep
state or run concurrently, the TLC configurations that check them on small
instances, and proofs that TLAPS checks for every value of the constants.
`PROJECT.json` ties each definition to the source lines it stands for and lists
the runs, the mutants that show each property can fail, the hazards and the
theorems.

Paths below are relative to the Python package `src/network_ai_mvp/`.

## 1. The system

### Components

| Component | State it keeps | Operations | What makes it correct |
|---|---|---|---|
| Collection queue (`collector/queue.py`) | job table, futures, executor's work queue, one lock; in memory | `submit`, `get`, `shutdown`, `_run_job` on worker threads | a job handed out is run once and ends, also across a shutdown; whoever polls sees a status with the outcome that belongs to it |
| Collection workflow (`services/collection_workflow.py`, `services/collection.py`, the POST routes of `api.py`) | none of its own: it writes the audit log, the store and the hub | `collect`, `check`, `enqueue_collect`, `enqueue_check` | log, store, hub and answer tell the same story, through every refusal and failure |
| Observation store (`observations.py`) | four JSON files per device: raw, history, `latest.json`, `index.json`; no lock | `store_collection_observation`, `read_latest_observation`, `read_observation_index` | index ordered and never dangling, a record readable once stored |
| Monitoring hub (`services/monitoring.py`) | latest payload, set of subscriber queues, one lock | `publish`, `latest`, `event_stream` | a stream misses nothing and repeats nothing after its snapshot |
| Topology (`services/topology.py`, `neighbors.py`) | none: computed from inventory, observations, reference file | `build_topology` | links keep every port; managed exactly if the far end is in the inventory |
| Operations page (`static/app.js`) | selected device and purpose, plan on display, enabled buttons, result panel, dashboard rows | event handlers cut at every `await`; the dashboard's event stream | what is shown and what is sent agree; CHECK and Collect are offered when they may be used |
| Monitoring page (`static/monitoring.js`) | the rendered payload | one fetch and one event stream | the newest result stays on display |
| Audit log (`audit.py`) | an append-only JSONL file | `append_audit_event`, `read_audit_events` (the last n), redaction | every attempt is on record, no secret is |
| Assessment (`diagnostics.py`, `thresholds.py`, `services/check.py`) | none | findings and check items of a device | the three readings of one counter agree |
| Command and write policy (`policy.py`, `write_policy.py`, `services/change.py`, `auth.py`) | allowlists | `build_command_plan`, `assert_command_allowed`, change planning | nothing but allowlisted read-only commands reach a device |
| Telnet adapter (`collector/telnet.py`, `executor.py`) | none | one subprocess with a limit of 120 s per call | returns one result or raises, and returns in time |
| PowerShell session (`scripts/backbone_telnet_readonly.ps1`) | a socket and a buffer | the login dialogue and the commands | only listed commands are sent, prompts are matched |
| Parsers (`parsers.py`) | none | sections, tables, joined ports | text of another table under a header does not make up the status of a port |
| Inventory, credentials, correlation, search | none | reading files and text | left out, see section 8 |

### How they interact

A POST runs in a thread of the server's pool, so any number of requests
interleave. `collect` and `check` call the executor in that thread, then append
to the audit log, store the observation and publish to the hub, in that order.
The queued forms make the same checks and then `submit` the plans; a worker
thread calls the adapter later and the client polls `get`. Each open
`/events/monitoring` request is a generator that waits on its own queue in the
hub; publishers put to these queues. The pages call the API with `fetch` and
hold one event stream. `/topology` reads the store, the reference file and the
audit log. Nothing but the two locks named above orders any of this.

### What is hard about it

* Concurrency under a lock that covers only part of an operation: `publish`
  puts after it has released the lock, `submit` hands the job to a worker while
  it holds it, the end of `_run_job` writes twice.
* Concurrency under no lock: every file of the store is emptied and rewritten
  in place by whoever comes, while others read.
* Shutdown against queued and running jobs and against a `submit` under way.
* Partial failure: five effects of one request, each of which may raise.
* Asynchronous handlers in the page that read `state.selectedDevice` and
  `state.selectedPurpose` before an `await` and write the answer after it.
* Order dependence in the merge of links, which mutates the first of a group.
* A dialogue with a device that has no end marks: the script waits for text that
  looks like a prompt, and goes on when a timer fires although the device has
  not finished.
* Health rows with two writers, a load whose answer is older than what the event
  stream has patched meanwhile, and a stream that breaks and is opened again.

`hazards` in `PROJECT.json` lists them line by line with the properties that
would catch each going wrong, and says of the others why no property does yet.

## 2. The modules

| Module | Models | Variables and what they are in the code |
|---|---|---|
| `JobBoard` | the promise of the queue: post, start, end and read a job in single steps | `board` the status of each job, `view` the last snapshot each client got |
| `CollectionQueue` | `CollectionQueue` and the executor behind it | `lock` = `_lock`, `status`/`outcome` = a `_CollectionJob`, `pool` the executor's work queue, `pc`/`job` where each thread is, `phase` the executor's shutdown |
| `MonitoringHub` | `MonitoringHub` | `state` = `_state`, `subscribers` = `_subscribers`, `inbox` the queues, `putting`/`targets` a `publish` between two puts, `stream` where a generator is, `shown` what a client has on screen |
| `ObservationStore` | the store of one device, write by write | `raw`, `history`, `latest`, `index` the files, `pc`/`run`/`records` the locals of a call |
| `CollectionWorkflow` | the four POST requests, composed with `JobBoard` for the queued ones | `pc` the stage of a request, `results` those not yet audited, `audit`, `stored`, `published`, `reply` its trail, `job`/`view` the board |
| `Topology` | the edges of `build_topology` and the loop of `_merge_edges` | `edges` the list, `next` the loop index, `groups` = `grouped`, `links` the `link_type`s |
| `OperationsPage` | the handlers of `app.js` for selecting, planning, CHECK and Collect | `selected`, `purpose`, `plan` = fields of `state`; `options`, `canCollect`, `canCheck`, `result` = what the elements show; `task` the handlers that await an answer |
| `CommandPolicy` | `policy.py`, `write_policy.py`, `services/change.py`, the plans of a CHECK | none: operators (`Valid`, `Plans`, `CheckPlans`, `UniqueCommands`, `MayPropose`) |
| `PortParsing` | `parsers.py` over lines that carry what its expressions may read of them | none: `ParsePorts`; each table's parser takes from any line, whatever it was printed for, what it finds there |
| `Assessment` | `thresholds.py`, `services/check.py`, `diagnostics.py`, the severity of a node, the window of the audit log | none: operators (`InterfaceFindings`, `CheckItems`, `Summary`, `Assess`, `Highest`, `Recent`) |
| `DeviceSession` | `collector/telnet.py` and the PowerShell script against a device, composed with the three modules above | `plan`, `pc`, `next`, `got`, `sections`, `outcome` the script; `mode`, `saying`, `held`, `paging` the device; `typed`, `said` what is under way between them |
| `Dashboard` | the health board, from the audit log to the row: `collection_workflow.py`, `/topology`, the stream and `app.js`, composed with `MonitoringHub` and `Assessment` | `audit`, `stored` the records, `task`, `content` the request threads (`GiveUp` ends one after a success has been audited: another result of the CHECK, or a write that fails), `load`, `events`, `answer` a `/topology` request, `rows` = `state.dashboardDevices` |
| `MC...` | constants for TLC | |
| `CollectionQueueProofs`, `MonitoringHubProofs`, `CollectionWorkflowProofs`, `ObservationStoreProofs`, `OperationsPageProofs`, `TopologyProofs`, `DeviceSessionProofs`, `DashboardProofs` | theorems | |

Conventions:

* **Grain.** A step is what other threads cannot cut in two and get a different
  result. A critical section that does one thing is one step guarded by
  `lock = None`; one that does several holds `lock` across its steps. In the
  page a step runs from one answer to the next `await`, as in the browser. In
  the store the opening of a file (which empties it) and its filling are two
  steps.
* **Data.** Results are successes or failures, payloads are the number of their
  `publish`, a stored record is the run that made it, texts are left out.
* **Reuse.** `CollectionWorkflow` composes with `JobBoard`, not with
  `CollectionQueue`: the refinement proved in section 5 is what makes that
  sound. `Dashboard` extends `MonitoringHub` and uses its actions as they are;
  that the hub inside it still is the hub is proved too.
* **History variables** (`seen`, `since`, `completed`, `alone`, `before`,
  `calm`, the `shown` field of a task, `late`, `taken`, `paged`) only record; no guard of the code reads
  them.
* Definitions commented "Mutant" are not part of any specification. Each is a
  plausible bug that must make the property named in `PROJECT.json` fail.

External behaviour is modelled from how the code uses it: worker threads of
`ThreadPoolExecutor` (`Take`, `WorkerExit`: first in first out, leave when shut
down and out of work), Starlette closing a generator (`Close`), the network
device of `DeviceSession` (it prints line by line, echoes, pages, judges whatever
comes first as the password, may be silent or hang up), and `Path.write_text` (`Fill`: truncate, then write; two texts written to one open
file at once replace or mix).

## 3. The runs

| Run | Module, configuration | Asks | Result |
|---|---|---|---|
| `queue` | `CollectionQueue`, `CollectionQueue.cfg` | is a job lost, run twice, or shown in an incoherent state, whenever the application shuts down; does the queue implement `JobBoard`; does every job handed out end; does shutdown return? | nothing is lost, and it does |
| `hub_delivery` | `MonitoringHub`, `MonitoringHub.cfg` | does a stream get each payload after its snapshot, once, and do closed streams leave? | yes |
| `hub_latest` | `MonitoringHub`, `MonitoringHubLatest.cfg` | does a stream with nothing left to deliver show the latest result? | **no** |
| `store` | `ObservationStore`, `ObservationStore.cfg` | do index and `latest.json` keep their references and order under two writers that may fail anywhere; is a call that ran alone complete? | yes |
| `store_latest` | `ObservationStore`, `ObservationStoreLatest.cfg` | is a reader always answered once something is stored? | **no** |
| `workflow` | `CollectionWorkflow`, `CollectionWorkflow.cfg` | do log, store, hub and answer agree for two concurrent requests of any kind? | yes |
| `workflow_queued` | `CollectionWorkflow`, `CollectionWorkflowQueued.cfg` | is every attempt in the audit log? | **no** |
| `page` | `MCOperationsPage`, `OperationsPage.cfg` | is CHECK offered for collectable selections only, and given back; does a user who waits see the plan of the selection; does "running" end? | yes |
| `page_check` | `MCOperationsPage`, `OperationsPageCheck.cfg` | does Collect send the plan on display? | **no** |
| `topology` | `MCTopology`, `Topology.cfg` | are the merged links the classes of the edges, and managed exactly if their far end is? | yes |
| `session` | `MCDeviceSession`, `DeviceSession.cfg` | is under each header the answer to that command; what is concluded when it is not; what is the device sent; does the session end? | see below |
| `dashboard` | `MCDashboard`, `Dashboard.cfg` | does a row claim a snapshot nobody stored, hide a known risk, or look worse than the log explains; does a published failure reach the row? | no, no, no; yes |

What the `session` run shows: without a timer of the script firing, a successful
collection has the whole answer under each header (`SectionsAreAnswers`). With
one it has not: text is missing, or printed under the header of a later command.
Even then a port that is reported slow or disabled is so on the device, and CHECK
warns of no other low speed (`StatusesAreTrue`): each plan asks for the statuses
before any other table that may read as one. This does not extend to the
counters, see the remarks below. The device's shell takes allowed commands and,
after a login without an answer, the user name or password (`OnlyReadOnly`). The
session ends by itself unless the device pages (`SessionEnds`), and it pages only
if it does not obey `terminal length 0` (`PagedOnlyIfDisobeyed`).

The device may print a message of the day before its first prompt. The script
then reads once more before it judges the greeting (`Banner`), as in the code: a
greeting without a word of the dialogue makes it type nothing and wait for the
login, an empty one makes it type the name unasked. A name is answered by the
question for the password, by the shell or by a refusal.

What the `page` run shows of the buttons: `canCheck` follows the selection
through every handler that changes it while a CHECK is under way, including a
selection that leaves the inventory, and `RunningEnds` looks at both buttons as
well as at the result panel.

### The properties that fail

Each contradicts a sentence of the repository, quoted under `findings`.

* `StreamShowsLatest`: two publishers take the lock in one order and put in the
  other; the stream ends on the older result. Needs two requests that finish
  together.
* `LatestAnsweredOnceStored`: between the truncation and the write of
  `latest.json`, or after a failed write, the API says nothing was ever stored.
* `AttemptsAreAudited`: a queued collection contacts the device and leaves no
  audit event, against `README.md:106`.
* `CollectSendsShownPlan`: load a plan, run CHECK, click Collect. The page sends
  the purpose `check`, because CHECK leaves it in `state.selectedPurpose`.

### Remarks on the code

Met while modelling, and not claimed by any run:

* The kind is part of the key links are merged by (`services/topology.py:160`),
  so a reference link is answered beside the live link between the same two
  devices, although every answer says (line 52) that edges come from live
  snapshots when available, otherwise from reference data. `Key` has the kind as
  the code has it, and `LinksAreClasses` compares it.
* A neighbour outside the inventory is known by its name or, without one, its
  address. If that address were the id of a device the merge would take it for
  that device; `TopologyAssumption` excludes it.
* Once `--More--` is in the text, the loop over the pages of the script tests
  everything received so far and never ends; the timeout of `telnet.py` stops
  it, and the whole result is lost.
* After a timer has fired, the parsers read text of one table as another's.
  `parse_interface_error_counters` takes numbers from columns 1 to 7 of any line
  of eight words (`parsers.py:140`): a status row with a description of two
  words and a VLAN above 1000 under its header is a port with `high_errors`, a
  false alarm. The tables of the run `session` have such a row, which is why
  `StatusesAreTrue` is about statuses only. The prompt with the next echo on its
  line can become a "port" of the description table, and a CHECK item can say
  "ok" of a table that was lost: the absence of a finding shows nothing.
* An exception that is in none of the tuples of `collection_workflow.py:66` and
  `:101`, a failing append to the audit log, and the `RuntimeError` of a `submit`
  after shutdown (line 85 and 188) leave the workflow uncaught. Such a request
  is "aborted" in `CollectionWorkflow` and no property says it was audited.
* `collect_plans` runs every plan of a CHECK before the first result is audited
  (`services/collection.py:75`): a failed result stops what is recorded, not what
  is run.
* A request that raises or is refused is audited and never published, so that a
  connected page learns of it from its next load only. A failed result makes a
  row "critical", the same failure read back from the log makes it "warning":
  which of the two a row shows depends on whether load or event came last.

### Bounds, and why they are enough

* Queue: 2 clients, 2 workers, 2 jobs. Two workers are needed for a race between
  workers, two clients for a poll beside a submit; a job waits in the work queue
  while a worker that could take it has not been scheduled. The safety
  properties and the refinement are proved for any number.
* Hub: 2 publishers, 2 streams, 3 publish calls. Reordering needs two
  publishers; a stream that leaves beside one that stays needs two; three
  payloads put one before, one during and one after a subscription.
* Store: 2 writers, 2 purposes, 2 seconds, 3 calls. Two calls may share a second
  and a purpose, hence a `run_id`, or a second only, or neither; the third call
  meets what the first two left, garbled or not.
* Workflow: 2 requests, at most 3 results of a CHECK: a failure can be first, in
  the middle and last.
* Page: 2 devices, either of which may leave the inventory, one not collectable,
  with different purposes, and at most 2 handlers under way (`Slots`). A third
  would only repeat a race of two answers.
* Topology: 2 devices, up to 3 ports (`PortCount`) with a neighbour out of 6
  (known by address, by name, by id, by address under another name; unknown by
  name or by address), up to 3 reference rows out of 5, two of them of a source
  outside the inventory, one without a status. Three edges of one key, two keys that differ in one part
  only, and a reference edge before live ones all occur.
* Session: a Cisco device with two ports and a row or two in each of six tables,
  among them a status row of eight words and a description that reads as a status,
  a message of the day that it prints when connected, a page of one line
  (`PageSize`), and every plan that a collection of the interfaces or of the port
  endpoints, a CHECK or an approved change can offer. `MaxTimers` is 1: one
  timer may fire on a device that has yet to answer, at any wait, which is enough
  to shift every later answer under a wrong header; on a device that will not
  answer timers fire without a bound.
* Dashboard: 2 devices, one with a warning by its access method and one with a
  known risk, one request thread, 2 connections one after the other, 2 audit
  events (`MaxEvents`) and a window of 1 (`Window`), so that a failure does drop
  out of it, and one `/topology` request at a time that may be overtaken. What
  two request threads and two loads add is covered by the proofs.

`CHECK_DEADLOCK FALSE` is set where the system may really stop: the queue after
shutdown, the hub, the store and the workflow when the bounded calls are used
up, and the merge when it is done. The page has no such setting: its user can
always act.

## 4. Fairness

* Queue: each thread that can take its next step takes it, by the operating
  system's scheduler. For `Collect` this says that `adapter.collect` ends, which
  `collector/telnet.py` ensures with a timeout of 120 s on the subprocess. Weak
  fairness is enough for the lock: a `get` is one step that leaves it free, and
  the number of submits is bounded by `Jobs`, so a waiting thread is shut out
  only finitely often. In an unbounded run this rests on Python's lock not being
  won by others for ever.
* Hub: a publisher that has begun goes on (a put to an unbounded queue never
  blocks) and the server pulls an open stream and closes a broken one.
* Page: a request is answered or its connection breaks. A collection is limited
  by the same 120 s.
* Session: a device that has something to print or to take goes on, and so does
  the script: its timers bound every wait (15 or 20 s). Nothing is assumed of the
  timeout of `telnet.py`, which would make `SessionEnds` trivial, and a device may
  hang up or not as it likes.
* Health board: the fairness of the hub and nothing else.

Nobody is obliged to submit, poll, publish, subscribe, connect, load, leave, click
or shut down. Store, workflow and topology are checked for safety only.

## 5. What is proved

`CollectionQueueProofs`, for any sets of clients, workers and jobs under
`QueueAssumption` (clients and workers are different threads, `None` is none of
them, there is a worker):

* `TypeCorrect`: `TypeOK`, strengthened with `JobInv` (a thread has a job exactly
  while it is in the middle of something), without which `status[job[w]]` need
  not be defined.
* `AnswersQueued`, `CoherentSnapshots`, `RunsOnce`, `KnownCarried`, `Drained`:
  the five safety invariants of `queue`. None is inductive. They follow
  from `IInv`, whose heart is what the lock protects: `LockInv` (who is inside a
  critical section), `WorkerInv` and `PoolInv` (the status of a job by where the
  job is; before submit releases the lock a worker may already hold the job but
  can only be at `picked`), `OutcomeInv` (only the job of a worker between its
  two writes is incoherent) and `ExitInv` (a worker leaves only when the work
  queue is empty and nothing more is accepted). There is one lemma per action.
* `QueueRefinesBoard`: every behaviour of the queue is one of `JobBoard` under
  the mapping `AbsStatus`: a job is on the board from the moment somebody knows
  its id, and counts as running until its outcome is written. Insertion,
  enqueueing, the adapter call and the shutdown are stutters; `SubmitReturn` is
  `Post`, `MarkRunning` is `Start`, `FinishOutcome` is `End`, `Get` is `Read`.

`MonitoringHubProofs`, for any publishers, streams and number of calls under
`HubAssumption`: `HubTypeCorrect`, `HubMissesNothing` and `HubRepeatsNothing`.
The invariant `HubIInv` adds that no two publishers carry the same payload, that
a payload in flight is younger than the snapshot of the streams it is meant for,
and that a stream nobody has opened is empty and unknown.

`CollectionWorkflowProofs`, for any requests and `MaxPlans` positive: all six
properties of the run `workflow`. `WfInv` joins them with `Stage`, which says for
each place in a request what its trail has already and has not yet: without it
nothing connects, say, the store to the audit event two steps earlier. An append
to the log and to the responses is a lemma each.

`ObservationStoreProofs`, for any writers, purposes, clock and calls under
`StoreAssumption`: `StoreTypeCorrect`, `IndexStaysInOrder`, `IndexNeverDangles`,
`ShownRecordHasRaw` and the action property `AloneStoreCompletes`. `StoreInv`
types every file by the runs it may name: `Started` are those whose raw file has
been opened and whose second has come, `Stored` those whose history file has been
opened too, and both only grow. `latest.json` names one of the first, the index
and every list a call has prepared are `Lists` of the second, newest first and
with no `run_id` twice. That a prepared list is one again after the old entry is
dropped and the new one inserted is a matter of `Kept`, a recursive function
(`KeptIs`, `InsertedIs`, `UpdatedIs`). `AloneInv` adds, for a call that no other
has overlapped, how far it has come (`Progress`).

`OperationsPageProofs`, for any inventory, purposes and number of handlers under
`PageAssumption` (each device has purposes, and "check" is none of them):
`PageTypeCorrect`, `CheckIsOfferedRightly` and `DisplayedPlanIsCurrent`.
`SelectionInv` is the part that holds however the handlers race: each of them
that changes the selection sets the CHECK button by it, and a button that is
missing has a CHECK under way that will. `CalmInv` adds what holds for a user who
waits: one handler at most, and for each request it may await, what its answer
may rely on.

`TopologyProofs`, for any inventory, reference files and sightings under
`TopologyAssumption` (ids are texts, addresses are not ids, a reference file does
not use the statuses the program gives): `LinksAreTheClasses` and
`StatusTellsTarget`. `EdgesOK` is what matching ensures of each edge, for which
it must be shown that the last of several devices with one key exists; `KeyIsClass`
says that the key of the merge tells exactly the links apart; `GroupsOK` says
that each group is the class of its first member, and is kept by both turns of
the loop.

`DeviceSessionProofs`, for any vendor, offers, tables, page size, timers and
device behaviour, under these assumptions:

* `SessionAssumption`: tables and the message of the day are lists of lines, the
  tables printed for commands of the allowlist, none for `terminal length 0`, and
  no line reads as a prompt or another word of the dialogue. The last is what the
  script itself relies on; section 8 says what happens to lines that end in `#`.
* `OffersAssumption`: a caller hands over one plan of `policy.py`, of any vendor
  and purpose, or the plans of a CHECK, the interfaces first, or a change of
  `write_policy.py`: the code makes no others. That the first pass the policy of
  their vendor and turn paging off first is `PlansPassTheirPolicy`, that the
  changes never pass is `ChangesAreNeverValid`.
* `TablesAssumption`: the message of the day, the version and the host name do
  not read as the status of a port, and the status table has one row for a port,
  as devices print it. It is used by `ReportedStatusesAreTrue` only.
* `PolicyAssumption`.

The theorems, and the argument of each:

* `ShellTakesReadOnly`: by `SesInv`, what is under way to the device, and what it
  has taken, is a login line or belongs to a plan that was validated.
* `SessionTypeCorrect`: by `TypeInv`, which adds the texts on their way and ties
  the number of headers printed to the place in the plan.
* `ObedientDeviceNeverPages`: by `QuietInv`. The first command of a combined plan
  turns paging off and is typed before every other, so a device that still pages
  has no table to print, unless it took that command for a name or a password;
  then it is `LockedOut`: the script types no password any more, and the device
  never reaches its shell.
* `AnswersStandUnderTheirHeaders`: by `SyncInv`. As long as no timer has fired,
  either the line the script has typed is still to be taken, or what was
  received, is under way and is still to be printed joins to one of the replies
  the device may give to it (`Waits`), cut off at the end if the connection was
  lost. A wait that ends at its text has therefore the whole of it.
* `ReportedStatusesAreTrue`: by `StatusInv`, whatever timers fire and however the
  login goes. As long as the statuses have still to be asked or awaited
  (`ToCome`), nothing that is received, under way, to be printed or typed
  (`AllHonest`, `AllClean`) reads as a status that is not in the device's table of
  them; so what ends up under the header of the statuses does not either. Text
  only slips to later headers, so the argument needs the order of the plans: a
  combined plan asks for nothing but the version and the host name before the
  statuses (`PlanFacts`, from `ReadPlan` for each vendor and `UniqueOrder` for the
  removal of doubles). Such a row is then the one row the complete answer has for
  the port (`StatusFound`), findings are subsets and counts no higher
  (`FindingsHold`).

`DashboardProofs`, for any publishers, streams, devices, risks, loads and window:
`DashboardImplementsHub`, so that `HubMissesNothing` and `HubRepeatsNothing` hold
of the composition, `SnapshotsAreStored` and `RowsAreExplained`. `DashInv` follows
an outcome from the request (`TaskInv`) through the payloads (`ContentInv`) and
through a load whose log and nodes may be old (`LoadInv`) to the row (`RowInv`):
each only carries what store and log explain, and these only grow.

Recursive definitions. No prover here can use the library's induction theorems,
whose parameter is an operator. What `FlattenSeq`, `UniqueCommands` and `Kept`
return for every list is shown without them: a position at which a claim fails
would have a least one (`LeastOne`, from the well-foundedness of `<`), and the
step before it is sound (`Climb`). That a recursive function has its equations at
all follows from `Recursion`, which gets the function by the same argument. For
this `Kept`, `UniqueCommands` and the rows of `PortParsing` are written without
`SelectSeq`, whose definition in the library the provers cannot
open.

Before they were proved the invariants were checked by TLC on the instances
above, or on smaller ones where they quantify over texts.

## 6. What is only model-checked

Every safety property of the passing runs, invariant or action property, is
stated by a theorem. What remains with TLC:

* Liveness (`KnownJobsEnd`, `ShutdownReturns`, `EachPayloadArrives`,
  `ClosedStreamsLeave`, `RunningEnds`, `SessionEnds`, `FailureReachesRow`):
  temporal properties under fairness and `ENABLED` are outside what the installed
  provers can do.
* The four properties that fail: a counterexample is a run.
* The speeds of `thresholds.py` at their threshold: the run `session` has ports
  with 100 and 1000 Mb/s. The theorem compares findings with findings and holds
  for any threshold.

## 7. Plan

Done: what can lose or misreport a collection (`CollectionQueue`, `JobBoard`,
`CollectionWorkflow`, `ObservationStore`, `MonitoringHub`), what is shown
(`OperationsPage`, `Dashboard`, `Topology`), what is sent and concluded
(`CommandPolicy`, `DeviceSession`, `PortParsing`, `Assessment`), and the proofs of
section 5.

Left, in this order:

1. An abstract `LatestResult` that store, hub and page are compared with.
2. The fetch against the stream in `monitoring.js`.
3. The search panel of the operations page, whose answers race like the plans.
4. The trace of `correlation.py`, with its choice among several sightings of one
   address.

## 8. What is not modelled, and why

* The regular expressions of the parsers: what each of them finds in a line is
  given with the line, whatever table the line was printed for. Lines that end in `#` or `>`, which the parsers drop as
  prompts, belong to this.
* Correlation and search: matching of names and addresses in text, no state.
* The monitoring page: one fetch and one stream that render the same payload.
* Telnet option bytes and the enable dialogue, whose credential `telnet.py` never
  passes; `detect_low_speed_ports` and `detect_error_counters`, which only tests
  call.
* Reading CSV, JSON and environment variables: I/O; whether it succeeds is a
  choice of the model (`UnknownDevice`, `Refuse`, `Abort`).
* Building the PowerShell command line, process start-up, HTTP: seen only
  through their results.
* Redaction: a text conversion that no modelled property is about.
* Timestamps of jobs and payloads, keepalive comments, response fields, layout,
  rendering, style.
* Restarts: queue and hub live in memory, so a restart is an initial state; the
  store's files do survive, and `Fail` covers a process that stops between any
  two writes.
* The growth of `_jobs` and `_futures`, which only memory bounds.

-------------------------- MODULE ObservationStore --------------------------
(***************************************************************************)
(* observations.py: store_collection_observation for one device, called by *)
(* several request threads at once on files that no lock guards, and the   *)
(* readers of latest.json and index.json.                                  *)
(*                                                                         *)
(* _write_json is Path.write_text: the file is opened, which empties it,   *)
(* and then written.  So each write is two steps, and between them a       *)
(* reader finds a file it cannot parse.  When two writers have the same    *)
(* file open, the second text overlays the first: it replaces it or, when  *)
(* it is the shorter one, leaves its tail behind and the file is garbled.  *)
(* What the parsers make of the output, the redaction and the summary are  *)
(* left out: a stored record is the run it describes.                      *)
(***************************************************************************)
EXTENDS Integers, Sequences, FiniteSets, SequencesExt

CONSTANTS
  Writers,    \* the request threads that store a result of the device
  Purposes,   \* the purposes collected
  MaxTime,    \* bound on the clock, which ticks in whole seconds
  MaxStores   \* bound on the number of calls

ASSUME StoreAssumption == MaxTime \in Nat \ {0} /\ MaxStores \in Nat

VARIABLES
  clock,      \* current_timestamp(): the UTC second
  stores,     \* the number of calls so far
  pc,         \* where each writer is
  run,        \* run[w]: the run w is storing
  records,    \* records[w]: the index list w has prepared
  raw,        \* raw[id]: raw/<device>/<run_id>.json
  history,    \* history[id]: observations/<device>/<run_id>.json
  latest,     \* observations/<device>/latest.json
  index,      \* observations/<device>/index.json
  completed,  \* the runs whose call returned (history variable)
  alone,      \* alone[w]: no other call overlapped w's call so far (history)
  before      \* before[w]: the index entries when w's call began (history)

files == <<raw, history, latest, index>>
ghosts == <<completed, alone, before>>
storeVars == <<clock, stores, pc, run, records, files, ghosts>>

\* A run is the call that stored it; its run_id is only the second of its
\* timestamp and its purpose, so two calls may have the same.
Runs   == [id : (1..MaxTime) \X Purposes, call : 1..MaxStores]
RunIds == (1..MaxTime) \X Purposes
Time(r) == r.id[1]
NoRun  == [id |-> <<>>, call |-> 0]

\* The contents of a file: nothing yet, emptied, a mixture of two texts, or
\* what was written.
File(kind, data) == [kind |-> kind, data |-> data]
Absent       == File("absent", <<>>)
Emptied      == File("empty", <<>>)
Garbled      == File("garbled", <<>>)
Written(data) == File("written", data)
Readable(f)  == f.kind = "written"

\* write_text after the open: over an empty file the text stands alone, over
\* another writer's text it replaces or mixes.
Fill(f, data) ==
  IF f.kind = "empty" THEN {Written(data)} ELSE {Written(data), Garbled}

\* read_observation_index, and what _update_observation_index starts from.
IndexRecords(f) == IF Readable(f) THEN f.data ELSE <<>>

\* read_latest_observation: None for a missing or unreadable file.
LatestAnswer(f) == IF Readable(f) THEN f.data ELSE NoRun

\* The entries of s that are in S, in their order (a list comprehension).
Kept(s, S) ==
  LET upto[n \in 0..Len(s)] ==
        IF n = 0 THEN <<>>
        ELSE IF s[n] \in S THEN Append(upto[n - 1], s[n]) ELSE upto[n - 1]
  IN  upto[Len(s)]

\* The new record goes to the front and the list is sorted by timestamp,
\* newest first.  The sort is stable and the rest of the list is sorted, so
\* the record lands before the entries of its own second and older.
Newer(s, r) == {x \in ToSet(s) : Time(x) > Time(r)}
Inserted(s, r) == Kept(s, Newer(s, r)) \o <<r>> \o Kept(s, ToSet(s) \ Newer(s, r))

\* Mutants: the old entry of the run_id is kept; the list starts from nothing;
\* only the run_id of the record is put in the list.
UpdatedKeepsDuplicate(s, r) == Inserted(s, r)
UpdatedForgets(s, r) == <<r>>
UpdatedWithId(s, r) == <<[id |-> r.id]>> \o s

Updated(s, r) == Inserted(Kept(s, {x \in ToSet(s) : x.id # r.id}), r)

Busy(w) == pc[w] # "idle"

StoreTypeOK ==
  /\ clock \in 1..MaxTime
  /\ stores \in 0..MaxStores
  /\ pc \in [Writers -> {"idle", "raw_open", "raw_written", "latest_open",
                         "latest_written", "history_open", "history_written",
                         "index_read", "index_open"}]
  /\ run \in [Writers -> Runs \cup {NoRun}]
  /\ records \in [Writers -> Seq(Runs)]
  /\ \A id \in RunIds : raw[id].kind \in {"absent", "empty", "garbled", "written"}
  /\ \A id \in RunIds : Readable(history[id]) => history[id].data \in Runs
  /\ Readable(latest) => latest.data \in Runs
  /\ Readable(index) => index.data \in Seq(Runs)
  /\ completed \subseteq Runs

StoreInit ==
  /\ clock = 1
  /\ stores = 0
  /\ pc = [w \in Writers |-> "idle"]
  /\ run = [w \in Writers |-> NoRun]
  /\ records = [w \in Writers |-> <<>>]
  /\ raw = [id \in RunIds |-> Absent]
  /\ history = [id \in RunIds |-> Absent]
  /\ latest = Absent
  /\ index = Absent
  /\ completed = {}
  /\ alone = [w \in Writers |-> FALSE]
  /\ before = [w \in Writers |-> {}]

-----------------------------------------------------------------------------
Step(w, from, to) == pc[w] = from /\ pc' = [pc EXCEPT ![w] = to]
Me(w) == run[w].id

Tick ==
  /\ clock < MaxTime
  /\ clock' = clock + 1
  /\ UNCHANGED <<stores, pc, run, records, files, ghosts>>

(***************************************************************************)
(* store_collection_observation                                            *)
(***************************************************************************)
\* Mutant: the raw record is not written.
BeginSkipsRaw(w, p) ==
  LET r == [id |-> <<clock, p>>, call |-> stores + 1]
  IN  /\ stores < MaxStores
      /\ Step(w, "idle", "raw_written")
      /\ stores' = stores + 1
      /\ run' = [run EXCEPT ![w] = r]
      /\ UNCHANGED <<clock, records, files, ghosts>>

\* The timestamp is taken and the raw file opened.
Begin(w, p) ==
  LET r == [id |-> <<clock, p>>, call |-> stores + 1]
  IN  /\ stores < MaxStores
      /\ Step(w, "idle", "raw_open")
      /\ stores' = stores + 1
      /\ run' = [run EXCEPT ![w] = r]
      /\ raw' = [raw EXCEPT ![r.id] = Emptied]
      /\ alone' = [v \in Writers |->
                     IF v = w THEN \A u \in Writers : ~Busy(u) ELSE FALSE]
      /\ before' = [before EXCEPT ![w] = ToSet(IndexRecords(index))]
      /\ UNCHANGED <<clock, records, history, latest, index, completed>>

RawFill(w) ==
  /\ Step(w, "raw_open", "raw_written")
  /\ \E f \in Fill(raw[Me(w)], run[w]) : raw' = [raw EXCEPT ![Me(w)] = f]
  /\ UNCHANGED <<clock, stores, run, records, history, latest, index, ghosts>>

LatestOpen(w) ==
  /\ Step(w, "raw_written", "latest_open")
  /\ latest' = Emptied
  /\ UNCHANGED <<clock, stores, run, records, raw, history, index, ghosts>>

LatestFill(w) ==
  /\ Step(w, "latest_open", "latest_written")
  /\ latest' \in Fill(latest, run[w])
  /\ UNCHANGED <<clock, stores, run, records, raw, history, index, ghosts>>

HistoryOpen(w) ==
  /\ Step(w, "latest_written", "history_open")
  /\ history' = [history EXCEPT ![Me(w)] = Emptied]
  /\ UNCHANGED <<clock, stores, run, records, raw, latest, index, ghosts>>

HistoryFill(w) ==
  /\ Step(w, "history_open", "history_written")
  /\ \E f \in Fill(history[Me(w)], run[w]) :
       history' = [history EXCEPT ![Me(w)] = f]
  /\ UNCHANGED <<clock, stores, run, records, raw, latest, index, ghosts>>

\* Mutant: the index is brought up to date before the history file is written.
IndexReadEarly(w) ==
  /\ \/ Step(w, "history_written", "index_read")
     \/ Step(w, "latest_written", "index_read")
  /\ records' = [records EXCEPT ![w] = Updated(IndexRecords(index), run[w])]
  /\ UNCHANGED <<clock, stores, run, files, ghosts>>

\* _update_observation_index reads; an unreadable index counts as empty.
IndexRead(w) ==
  /\ Step(w, "history_written", "index_read")
  /\ records' = [records EXCEPT ![w] = Updated(IndexRecords(index), run[w])]
  /\ UNCHANGED <<clock, stores, run, files, ghosts>>

IndexOpen(w) ==
  /\ Step(w, "index_read", "index_open")
  /\ index' = Emptied
  /\ UNCHANGED <<clock, stores, run, records, raw, history, latest, ghosts>>

Finish(w) ==
  /\ run' = [run EXCEPT ![w] = NoRun]
  /\ records' = [records EXCEPT ![w] = <<>>]

\* The index is written and the call returns.
IndexFill(w) ==
  /\ Step(w, "index_open", "idle")
  /\ index' \in Fill(index, records[w])
  /\ completed' = completed \cup {run[w]}
  /\ Finish(w)
  /\ UNCHANGED <<clock, stores, raw, history, latest, alone, before>>

\* An exception (a full disk, a parser error) leaves the call at any point;
\* the death of the process is all calls leaving.  The files stay as they are.
Fail(w) ==
  /\ Busy(w)
  /\ pc' = [pc EXCEPT ![w] = "idle"]
  /\ Finish(w)
  /\ UNCHANGED <<clock, stores, files, ghosts>>

Store(w) ==
  \/ RawFill(w)     \/ LatestOpen(w) \/ LatestFill(w) \/ HistoryOpen(w)
  \/ HistoryFill(w) \/ IndexRead(w)  \/ IndexOpen(w)  \/ IndexFill(w)

StoreNext ==
  \/ Tick
  \/ \E w \in Writers, p \in Purposes : Begin(w, p)
  \/ \E w \in Writers : Store(w) \/ Fail(w)

StoreSpec == StoreInit /\ [][StoreNext]_storeVars

-----------------------------------------------------------------------------
\* The index a reader gets is in order, newest first, and names a run_id once,
\* whatever updates were lost or garbled on the way.
IndexInOrder ==
  LET s == IndexRecords(index)
  IN  \A i, k \in 1..Len(s) : i < k => /\ Time(s[i]) >= Time(s[k])
                                       /\ s[i].id # s[k].id

\* An index entry never dangles: the raw and the history file it names are on
\* disk, also after a crash or a failed call between two writes.
IndexedFilesExist ==
  LET s == IndexRecords(index)
  IN  \A i \in 1..Len(s) : /\ raw[s[i].id] # Absent
                           /\ history[s[i].id] # Absent

\* The raw output behind the parsed record that readers are shown is on disk.
LatestHasRaw == Readable(latest) => raw[latest.data.id] # Absent

\* A call that no other call overlapped leaves everything in place, whatever
\* garbage earlier failures left: the three records are its own, the readable
\* index has it at its head, and what the index listed before is still there.
AloneStoreIsComplete ==
  [][\A w \in Writers :
       alone[w] /\ run[w] \in completed' \ completed =>
         /\ latest' = Written(run[w])
         /\ raw'[Me(w)] = Written(run[w])
         /\ history'[Me(w)] = Written(run[w])
         /\ Readable(index')
         /\ index'.data # <<>> /\ Head(index'.data) = run[w]
         /\ \A r \in before[w] : r.id # Me(w) => r \in ToSet(index'.data)]_storeVars

\* After a call has stored a record, no reader is told that none is stored (the
\* API answers "No stored parsed observation yet" to a None).  The next call
\* empties latest.json before it writes it, and a failed one leaves it empty.
LatestAnsweredOnceStored ==
  completed # {} => LatestAnswer(latest) # NoRun
=============================================================================

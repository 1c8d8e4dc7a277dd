------------------------------ MODULE StateFiles ------------------------------
(***************************************************************************)
(* The private state of a machine (state_io.rs, state_io/removal.rs,       *)
(* platform/replacement.rs).  A record is a file that is replaced as a     *)
(* whole: staged under a name of its own, synced, renamed over the record, *)
(* and the directory synced.  Readers check whose the file is and read it  *)
(* at the length it had.  What is removed is set aside into a trash        *)
(* directory, which several processes may empty.  Between any two steps    *)
(* the machine may lose its power: what was not synced may be lost.        *)
(***************************************************************************)
EXTENDS Naturals, Sequences, FiniteSets

CONSTANTS
  Writers,         \* each writes one record, its own name
  Readers,
  Emptiers,        \* processes that empty the trash
  Discarded,       \* directories that are set aside
  Ownerships,      \* whose the first record is
  Retries,         \* RETRIES
  EmptyLimit,      \* EMPTY_LIMIT
  MaxPowerLosses,
  MaxStops         \* bound on steps that fail

ASSUME StateFilesAssumption ==
  /\ IsFiniteSet(Writers) /\ IsFiniteSet(Discarded)
  /\ Writers \cap {"first", "nothing", "none", "absent", "refused", "torn"} = {}
  /\ Retries \in Nat /\ EmptyLimit \in Nat

VARIABLES
  concern,         \* a behaviour is about a record or about the trash
  syncing,         \* whether the system syncs directories (not on Windows)
  bodies,          \* of each file: how much of it was written, and was synced
  owner,           \* whose each file is
  current,          \* the file that has the name of the record
  removed,         \* whether somebody removed the record
  renames,         \* the files that had the name since it was last durable, in order
  writing,         \* where a writer is
  drafts,          \* names of staged files that exist
  reader,          \* where a reader is, the file it opened, what was there before
  answer,
  rubbish,         \* the state of each discarded directory
  emptying,        \* of each emptier: where it is, what it has, its attempts
  reported,        \* what it reported as left over
  losses,
  stops

diskVars == <<concern, syncing, bodies, owner, current, removed, renames, drafts>>
trashVars == <<rubbish, emptying, reported>>
stateFileVars == <<diskVars, writing, reader, answer, trashVars, losses, stops>>

First == "first"          \* the record that was there before
NoFile == "nothing"
FileIds == Writers \cup {First, NoFile}
WholeBody == [written |-> "all", synced |-> TRUE]
NoEmptying == [at |-> "idle", has |-> {}, took |-> {}, entry |-> NoFile, tries |-> 0, granted |-> FALSE]

StateFilesInit ==
  /\ concern \in {"record", "trash"}
  /\ syncing \in BOOLEAN /\ removed = FALSE
  /\ bodies = [f \in FileIds |-> IF f = First THEN WholeBody ELSE [written |-> "none", synced |-> FALSE]]
  /\ \E o \in Ownerships : /\ owner = [f \in FileIds |-> IF f = First THEN o ELSE "private"]
                           /\ current = IF o = "absent" THEN NoFile ELSE First
  /\ concern = "trash" => syncing /\ current = NoFile
  /\ renames = <<current>>
  /\ writing = [w \in Writers |-> "start"] /\ drafts = {}
  /\ reader = [r \in Readers |-> [at |-> "start", file |-> NoFile, floor |-> 0]]
  /\ answer = [r \in Readers |-> "none"]
  /\ rubbish = [d \in Discarded |-> "kept"]
  /\ emptying = [e \in Emptiers |-> NoEmptying] /\ reported = [e \in Emptiers |-> {}]
  /\ losses = 0 /\ stops = 0

-----------------------------------------------------------------------------
\* check_file, check_owner: what may be opened as private state.
Opens(f) == owner[f] = "private"
\* remove_file also removes what others can read, but nothing foreign or linked.
Removes(f) == owner[f] \in {"private", "exposed"}

Goes(w, from, to) == writing[w] = from /\ writing' = [writing EXCEPT ![w] = to]

\* write_bytes: the staged file in the directory of the record.
StageRecord(w) ==
  /\ Goes(w, "start", "staged")
  /\ drafts' = drafts \cup {w}
  /\ UNCHANGED <<concern, removed, syncing, bodies, owner, current, renames, reader, answer, trashVars, losses, stops>>

FillRecord(w) ==
  /\ Goes(w, "staged", "filled")
  /\ bodies' = [bodies EXCEPT ![w].written = "all"]
  /\ UNCHANGED <<concern, removed, syncing, owner, current, renames, drafts, reader, answer, trashVars, losses, stops>>

SyncAndCloseLazy(w) ==
  /\ Goes(w, "filled", "synced")
  /\ UNCHANGED <<diskVars, reader, answer, trashVars, losses, stops>>

\* StagedFile::sync_and_close.
SyncAndClose(w) ==
  /\ Goes(w, "filled", "synced")
  /\ bodies' = [bodies EXCEPT ![w].synced = TRUE]
  /\ UNCHANGED <<concern, removed, syncing, owner, current, renames, drafts, reader, answer, trashVars, losses, stops>>

\* StagedFile::replace.
ReplaceRecord(w) ==
  /\ Goes(w, "synced", "replaced")
  /\ current' = w /\ renames' = Append(renames, w) /\ drafts' = drafts \ {w}
  /\ UNCHANGED <<concern, removed, syncing, bodies, owner, reader, answer, trashVars, losses, stops>>

\* sync_dir: what the directory has now is durable.
SyncDirectory(w) ==
  /\ Goes(w, "replaced", "done")
  /\ renames' = IF syncing THEN <<current>> ELSE renames
  /\ UNCHANGED <<concern, removed, syncing, bodies, owner, current, drafts, reader, answer, trashVars, losses, stops>>

\* A step fails: the staged file is removed when it is dropped.
WriteFails(w) ==
  /\ stops < MaxStops /\ stops' = stops + 1
  /\ writing[w] \in {"start", "staged", "filled", "synced", "replaced"}
  /\ writing' = [writing EXCEPT ![w] = "failed"] /\ drafts' = drafts \ {w}
  /\ UNCHANGED <<concern, removed, syncing, bodies, owner, current, renames, reader, answer, trashVars, losses>>

Returned == {w \in Writers : writing[w] = "done"}

\* open_read: an absent record is an answer, one that is not private an error.
OpenRecord(r) ==
  /\ reader[r].at = "start"
  /\ reader' = [reader EXCEPT ![r] = [at |-> IF current = NoFile \/ ~Opens(current) THEN "end" ELSE "open",
                                      file |-> current, floor |-> Cardinality(Returned)]]
  /\ answer' = [answer EXCEPT ![r] = IF current = NoFile THEN "absent"
                                     ELSE IF Opens(current) THEN "none" ELSE "refused"]
  /\ UNCHANGED <<diskVars, writing, trashVars, losses, stops>>

\* read_bytes: the file at the length it had, and nothing behind it.
ReadRecord(r) ==
  /\ reader[r].at = "open"
  /\ reader' = [reader EXCEPT ![r].at = "end"]
  /\ answer' = [answer EXCEPT ![r] = IF bodies[reader[r].file].written = "all"
                                     THEN reader[r].file ELSE "torn"]
  /\ UNCHANGED <<diskVars, writing, trashVars, losses, stops>>

ReadAgain(r) ==
  /\ reader[r].at = "end" /\ losses > 0 /\ reader' = [reader EXCEPT ![r].at = "start"]
  /\ answer' = [answer EXCEPT ![r] = "none"]
  /\ UNCHANGED <<diskVars, writing, trashVars, losses, stops>>

\* remove_file: open, look whose it is, remove the name.
RemoveRecord ==
  /\ stops < MaxStops /\ stops' = stops + 1
  /\ current # NoFile /\ Removes(current)
  /\ current' = NoFile /\ renames' = Append(renames, NoFile) /\ removed' = TRUE
  /\ UNCHANGED <<concern, syncing, bodies, owner, drafts, writing, reader, answer, trashVars, losses>>

-----------------------------------------------------------------------------
\* set_aside: one rename into the trash, under a random name.
SetAsideDirectory(d) ==
  /\ rubbish[d] = "kept"
  /\ \E s \in {"trash", "locked"} : rubbish' = [rubbish EXCEPT ![d] = s]
  /\ UNCHANGED <<diskVars, writing, reader, answer, emptying, reported, losses, stops>>

Trashed == {d \in Discarded : rubbish[d] \in {"trash", "locked"}}

\* empty: as many entries as the limit takes.
ListTrash(e) ==
  /\ emptying[e].at = "idle" /\ reported[e] = {}
  /\ \E has \in SUBSET Trashed :
       /\ Cardinality(has) = (IF Cardinality(Trashed) < EmptyLimit THEN Cardinality(Trashed) ELSE EmptyLimit)
       /\ emptying' = [emptying EXCEPT ![e] = [NoEmptying EXCEPT !.at = "listed", !.has = has, !.took = has]]
  /\ UNCHANGED <<diskVars, writing, reader, answer, rubbish, reported, losses, stops>>

\* What a call has in hand as it turns to the next entry of the trash it took.
Starting(e, d) == [emptying[e] EXCEPT !.has = @ \ {d}, !.at = "removing", !.entry = d, !.tries = 0, !.granted = FALSE]

NextEntry(e) ==
  /\ emptying[e].at = "listed"
  /\ IF emptying[e].has = {} THEN emptying' = [emptying EXCEPT ![e].at = "over"]
     ELSE \E d \in emptying[e].has : emptying' = [emptying EXCEPT ![e] = Starting(e, d)]
  /\ UNCHANGED <<diskVars, writing, reader, answer, rubbish, reported, losses, stops>>

\* after_denial(retry(remove_dir_all)): busy is tried again after a pause, up
\* to the retries; a denial grants the owner write access once and starts over;
\* another error, and a grant that fails, is final.
Again(e) == [emptying EXCEPT ![e].tries = @ + 1]
Granted(e) == [emptying EXCEPT ![e].tries = 0, ![e].granted = TRUE]
Dismiss(e) == [emptying EXCEPT ![e].at = "listed"]

RemoveEntry(e) ==
  /\ emptying[e].at = "removing"
  /\ LET d == emptying[e].entry IN
     \/ /\ rubbish[d] = "trash"
        /\ rubbish' = [rubbish EXCEPT ![d] = "gone"]
        /\ emptying' = Dismiss(e) /\ UNCHANGED <<reported, stops>>
     \/ /\ rubbish[d] \in {"trash", "locked"} /\ stops < MaxStops      \* busy
        /\ stops' = stops + 1
        /\ IF emptying[e].tries < Retries
           THEN emptying' = Again(e) /\ UNCHANGED reported
           ELSE emptying' = Dismiss(e) /\ reported' = [reported EXCEPT ![e] = @ \cup {d}]
        /\ UNCHANGED rubbish
     \/ /\ rubbish[d] = "locked"                                       \* denied
        /\ IF emptying[e].granted
           THEN emptying' = Dismiss(e) /\ reported' = [reported EXCEPT ![e] = @ \cup {d}]
                  /\ UNCHANGED rubbish
           ELSE emptying' = Granted(e) /\ rubbish' = [rubbish EXCEPT ![d] = "trash"]
                  /\ UNCHANGED reported
        /\ UNCHANGED stops
     \/ /\ rubbish[d] \in {"trash", "locked"} /\ stops < MaxStops      \* an error, or no grant
        /\ stops' = stops + 1
        /\ emptying' = Dismiss(e) /\ reported' = [reported EXCEPT ![e] = @ \cup {d}]
        /\ UNCHANGED rubbish
     \/ /\ rubbish[d] = "gone"                                         \* another was faster
        /\ emptying' = Dismiss(e) /\ reported' = [reported EXCEPT ![e] = @ \cup {d}]
        /\ UNCHANGED <<rubbish, stops>>
  /\ UNCHANGED <<diskVars, writing, reader, answer, losses>>

-----------------------------------------------------------------------------
\* The power is lost: the processes end, a body that was not synced is whole,
\* partial or empty, and the record is one of those it was since the last sync.
\* Nothing syncs what was set aside or removed: it may be back where it was.
Survivors(s) == CASE s = "kept" -> {"kept"}
                  [] s = "gone" -> {"gone", "trash", "kept"}
                  [] OTHER -> {s, "kept"}

LosePower ==
  /\ losses < MaxPowerLosses /\ losses' = losses + 1
  /\ \E i \in DOMAIN renames, left \in {"none", "part", "all"} :
       /\ current' = renames[i] /\ renames' = <<renames[i]>>
       /\ bodies' = [f \in FileIds |-> IF bodies[f].synced \/ bodies[f].written = "none" THEN bodies[f]
                                       ELSE [written |-> left, synced |-> TRUE]]
  /\ writing' = [w \in Writers |-> IF writing[w] \in {"done", "failed", "start"} THEN writing[w] ELSE "killed"]
  /\ reader' = [r \in Readers |-> [reader[r] EXCEPT !.at = IF @ = "open" THEN "end" ELSE @]]
  /\ rubbish' \in {left \in [Discarded -> {"kept", "trash", "locked", "gone"}] :
                     \A d \in Discarded : left[d] \in Survivors(rubbish[d])}
  /\ emptying' = [e \in Emptiers |-> NoEmptying] /\ reported' = [e \in Emptiers |-> {}]
  /\ UNCHANGED <<concern, syncing, removed, owner, drafts, answer, stops>>

StateFilesNext ==
  \/ /\ concern = "record"
     /\ \/ \E w \in Writers : StageRecord(w) \/ FillRecord(w) \/ SyncAndClose(w) \/ ReplaceRecord(w)
                                \/ SyncDirectory(w) \/ WriteFails(w)
        \/ \E r \in Readers : OpenRecord(r) \/ ReadRecord(r) \/ ReadAgain(r)
        \/ RemoveRecord
  \/ /\ concern = "trash"
     /\ \/ \E d \in Discarded : SetAsideDirectory(d)
        \/ \E e \in Emptiers : ListTrash(e) \/ NextEntry(e) \/ RemoveEntry(e)
  \/ LosePower

StateFilesSpec == StateFilesInit /\ [][StateFilesNext]_stateFileVars

-----------------------------------------------------------------------------
(***************************************************************************)
(* A record is replaced as a whole and stays.  No reader ever gets a torn  *)
(* record, one that is not private or one that was not meant to be         *)
(* written; once a write has returned and directories are synced, the      *)
(* record is that one or a later one, power losses included; and a record  *)
(* that was there is never simply lost (write_bytes, sync_and_close,       *)
(* replace, read_bytes).  Staged files are left behind by killed writers   *)
(* only.  An emptier that is through its list reported every entry that is *)
(* still there, and took no more than its limit (empty, after_denial,      *)
(* retry).                                                                 *)
(***************************************************************************)
StateFilesSound ==
  /\ \A r \in Readers : answer[r] # "torn"
  /\ \A r \in Readers : answer[r] \in FileIds => owner[answer[r]] = "private"
  /\ current # NoFile => bodies[current].written = "all"
  /\ syncing /\ Returned # {} => current # First /\ (current = NoFile => removed)
  /\ \A r \in Readers : reader[r].at # "start" /\ reader[r].floor > 0 /\ syncing =>
       answer[r] \notin {First, "refused"} /\ (answer[r] = "absent" => removed)
  /\ \A w \in drafts : writing[w] \in {"staged", "filled", "synced", "killed"}
  /\ \A e \in Emptiers :
       /\ Cardinality(emptying[e].took) <= EmptyLimit
       /\ emptying[e].at = "over" => \A d \in emptying[e].took : rubbish[d] = "gone" \/ d \in reported[e]
       /\ emptying[e].tries <= Retries
=============================================================================

-------------------------- MODULE Workshop_proofs ---------------------------
(***************************************************************************)
(* Where jobs and people work: theorems about the files of the state       *)
(* directory, the snapshot of a checkout, the supervision of a proof tool  *)
(* and the rooms of the agents, one component after the other.             *)
(***************************************************************************)
EXTENDS StateFiles, Snapshot, ToolRun, Rooms, FiniteSetTheorems, SequenceTheorems,
        WellFoundedInduction, TLAPS

-----------------------------------------------------------------------------
(***************************************************************************)
(* The private state of a machine, for any writers, readers, emptiers and  *)
(* discarded directories, and any number of failures and power losses.     *)
(*                                                                         *)
(* Whatever had the name of the record since the directory was last synced *)
(* is whole and synced, so it does not matter which of it a power loss     *)
(* leaves.  Once a write has returned, the first record is not among it    *)
(* any more.                                                               *)
(***************************************************************************)

WriterPlaces == {"start", "staged", "filled", "synced", "replaced", "done", "failed", "killed"}

\* The types of the record, its writers and its readers.
RecordTypeOK ==
  /\ syncing \in BOOLEAN /\ removed \in BOOLEAN
  /\ bodies \in [FileIds -> [written : {"none", "part", "all"}, synced : BOOLEAN]]
  /\ current \in FileIds /\ renames \in Seq(FileIds)
  /\ writing \in [Writers -> WriterPlaces] /\ drafts \subseteq Writers
  /\ reader \in [Readers -> [at : {"start", "open", "end"}, file : FileIds, floor : Nat]]
  /\ answer \in [Readers -> FileIds \cup {"none", "absent", "refused", "torn"}]

Lasts(f) == f # NoFile => bodies[f] = WholeBody
Later(f) == f # First /\ (f = NoFile => removed)

\* A body is whole and synced before it may have the name of the record.
BodiesInOrder ==
  /\ \A w \in Writers : /\ writing[w] \in {"filled", "synced", "replaced"} => bodies[w].written = "all"
                        /\ writing[w] \in {"synced", "replaced", "done"} => bodies[w].synced
                        /\ writing[w] = "done" => bodies[w].written = "all"
  /\ Lasts(current) /\ \A i \in 1..Len(renames) : Lasts(renames[i])
  /\ \A w \in drafts : writing[w] \in {"staged", "filled", "synced", "killed"}

\* What was replaced does not come back.
NamesInOrder ==
  /\ \A w \in Writers : writing[w] = "replaced" => Later(current)
  /\ syncing /\ Returned # {} => Later(current) /\ \A i \in 1..Len(renames) : Later(renames[i])

\* What a reader has opened or answered.
ReadersInOrder ==
  /\ \A w \in Writers : owner[w] = "private"
  /\ \A r \in Readers :
       /\ answer[r] # "torn" /\ (answer[r] \in FileIds => owner[answer[r]] = "private")
       /\ reader[r].at = "open" =>
            /\ answer[r] = "none" /\ reader[r].file # NoFile /\ bodies[reader[r].file] = WholeBody
            /\ owner[reader[r].file] = "private"
            /\ syncing /\ reader[r].floor > 0 => reader[r].file # First
       /\ reader[r].at # "start" /\ reader[r].floor > 0 /\ syncing =>
            answer[r] \notin {First, "refused"} /\ (answer[r] = "absent" => removed)

EmptierStates ==
  [at : {"idle", "listed", "removing", "over"}, has : SUBSET Discarded, took : SUBSET Discarded,
   entry : Discarded \cup {NoFile}, tries : 0..Retries, granted : BOOLEAN]

\* Every entry that an emptier took is still before it, gone or reported.
EmptierInOrder(x, state, heard) ==
  /\ Cardinality(x.took) <= EmptyLimit
  /\ x.at = "removing" => x.entry \in Discarded
  /\ x.at = "over" => x.has = {}
  /\ x.at # "idle" => \A d \in x.took : \/ state[d] = "gone" \/ d \in heard \/ d \in x.has
                                        \/ x.at = "removing" /\ d = x.entry

TrashInOrder ==
  /\ rubbish \in [Discarded -> {"kept", "trash", "locked", "gone"}]
  /\ emptying \in [Emptiers -> EmptierStates] /\ reported \in [Emptiers -> SUBSET Discarded]
  /\ \A e \in Emptiers : EmptierInOrder(emptying[e], rubbish, reported[e])

RecordInv == RecordTypeOK /\ BodiesInOrder /\ NamesInOrder /\ ReadersInOrder
StateFilesInv == RecordInv /\ TrashInOrder

-----------------------------------------------------------------------------
\* A writer's name is no other word.
LEMMA WriterNames ==
  ASSUME NEW w \in Writers
  PROVE  w # First /\ w # NoFile /\ w # "none" /\ w # "absent" /\ w # "refused" /\ w # "torn"
  BY StateFilesAssumption DEF First, NoFile

\* Some writer has returned when one is counted.
LEMMA CountedReturned == Cardinality(Returned) \in Nat /\ (Cardinality(Returned) > 0 => Returned # {})
<1>1. IsFiniteSet(Returned)
  BY StateFilesAssumption, FS_Subset DEF Returned
<1> QED
  BY <1>1, FS_CardinalityType, FS_EmptySet

\* The record is as it was and nobody writes.
LEMMA RecordInitially == StateFilesInit => RecordInv
<1> SUFFICES ASSUME StateFilesInit PROVE RecordInv
  OBVIOUS
<1> USE DEF StateFilesInit
<1>1. current \in FileIds /\ (current # NoFile => current = First) /\ renames = <<current>>
  BY DEF FileIds
<1>2. RecordTypeOK
  <2>1. renames \in Seq(FileIds)
    BY <1>1
  <2>2. bodies \in [FileIds -> [written : {"none", "part", "all"}, synced : BOOLEAN]]
    BY DEF WholeBody
  <2>3. writing \in [Writers -> WriterPlaces]
    BY DEF WriterPlaces
  <2>4. reader \in [Readers -> [at : {"start", "open", "end"}, file : FileIds, floor : Nat]]
    BY DEF FileIds
  <2> QED
    BY <1>1, <2>1, <2>2, <2>3, <2>4 DEF RecordTypeOK
<1>3. BodiesInOrder
  <2>1. \A i \in 1..Len(renames) : renames[i] = current
    BY <1>1
  <2>2. current # NoFile => bodies[current] = WholeBody
    BY <1>1 DEF FileIds
  <2>3. \A w \in Writers : writing[w] = "start"
    OBVIOUS
  <2>4. drafts = {}
    OBVIOUS
  <2> HIDE DEF StateFilesInit
  <2> QED
    BY <2>1, <2>2, <2>3, <2>4 DEF BodiesInOrder, Lasts
<1>4. NamesInOrder
  BY DEF NamesInOrder, Returned
<1>5. ReadersInOrder
  BY WriterNames DEF ReadersInOrder, FileIds, First, NoFile
<1> QED
  BY <1>2, <1>3, <1>4, <1>5 DEF RecordInv

\* A name that is added comes after the others.
LEMMA NameAdded ==
  ASSUME RecordTypeOK, NEW f \in FileIds, renames' = Append(renames, f)
  PROVE  /\ renames' \in Seq(FileIds)
         /\ \A i \in 1..Len(renames') : renames'[i] = f \/ (i \in 1..Len(renames) /\ renames'[i] = renames[i])
  BY DEF RecordTypeOK

\* A record of a body that is changed in one field.
LEMMA BodyFields ==
  ASSUME NEW b \in [written : {"none", "part", "all"}, synced : BOOLEAN]
  PROVE  /\ [b EXCEPT !.synced = TRUE] \in [written : {"none", "part", "all"}, synced : BOOLEAN]
         /\ [b EXCEPT !.synced = TRUE].synced /\ [b EXCEPT !.synced = TRUE].written = b.written
         /\ b = WholeBody => [b EXCEPT !.synced = TRUE] = WholeBody
         /\ [b EXCEPT !.written = "all"] \in [written : {"none", "part", "all"}, synced : BOOLEAN]
         /\ [b EXCEPT !.written = "all"].written = "all" /\ [b EXCEPT !.written = "all"].synced = b.synced
         /\ b = WholeBody => [b EXCEPT !.written = "all"] = WholeBody
<1>1. b = [written |-> b.written, synced |-> b.synced] /\ b.written \in {"none", "part", "all"} /\ b.synced \in BOOLEAN
  OBVIOUS
<1>2. [b EXCEPT !.synced = TRUE] = [written |-> b.written, synced |-> TRUE]
  <2>1. ASSUME NEW t PROVE [b EXCEPT !.synced = t] = [written |-> b.written, synced |-> t]
    BY <1>1
  <2> QED
    BY <2>1, Zenon
<1>3. [b EXCEPT !.written = "all"] = [written |-> "all", synced |-> b.synced]
  BY <1>1
<1>4. b = WholeBody => b.written = "all" /\ b.synced = TRUE
  BY DEF WholeBody
<1>5. /\ [b EXCEPT !.synced = TRUE] \in [written : {"none", "part", "all"}, synced : BOOLEAN]
      /\ [b EXCEPT !.written = "all"] \in [written : {"none", "part", "all"}, synced : BOOLEAN]
  BY <1>1, <1>2, <1>3
<1>6. [b EXCEPT !.synced = TRUE].synced /\ [b EXCEPT !.synced = TRUE].written = b.written
  BY <1>2
<1>7. [b EXCEPT !.written = "all"].written = "all" /\ [b EXCEPT !.written = "all"].synced = b.synced
  BY <1>3
<1>8. b = WholeBody => [b EXCEPT !.synced = TRUE] = WholeBody /\ [b EXCEPT !.written = "all"] = WholeBody
  BY <1>2, <1>3, <1>4 DEF WholeBody
<1> QED
  BY <1>5, <1>6, <1>7, <1>8

\* A body that is synced or written differs in that only.
LEMMA BodyWritten ==
  ASSUME RecordTypeOK, NEW w \in Writers,
         bodies' \in {[bodies EXCEPT ![w].synced = TRUE], [bodies EXCEPT ![w].written = "all"]}
  PROVE  /\ bodies' \in [FileIds -> [written : {"none", "part", "all"}, synced : BOOLEAN]]
         /\ \A f \in FileIds : bodies[f] = WholeBody => bodies'[f] = WholeBody
         /\ \A f \in FileIds : bodies[f].synced => bodies'[f].synced
         /\ \A f \in FileIds : bodies[f].written = "all" => bodies'[f].written = "all"
<1>0. w \in FileIds
  BY DEF FileIds
<1>1. CASE bodies' = [bodies EXCEPT ![w].synced = TRUE]
  <2>1. \A f \in FileIds : bodies'[f] = IF f = w THEN [bodies[w] EXCEPT !.synced = TRUE] ELSE bodies[f]
    BY <1>0, <1>1 DEF RecordTypeOK
  <2>2. /\ [bodies[w] EXCEPT !.synced = TRUE] \in [written : {"none", "part", "all"}, synced : BOOLEAN]
        /\ [bodies[w] EXCEPT !.synced = TRUE].synced
        /\ [bodies[w] EXCEPT !.synced = TRUE].written = bodies[w].written
        /\ bodies[w] = WholeBody => [bodies[w] EXCEPT !.synced = TRUE] = WholeBody
    <3>1. bodies[w] \in [written : {"none", "part", "all"}, synced : BOOLEAN]
      BY <1>0 DEF RecordTypeOK
    <3> QED
      BY <3>1, BodyFields
  <2> QED
    BY <1>0, <1>1, <2>1, <2>2 DEF RecordTypeOK
<1>2. CASE bodies' = [bodies EXCEPT ![w].written = "all"]
  <2>1. \A f \in FileIds : bodies'[f] = IF f = w THEN [bodies[w] EXCEPT !.written = "all"] ELSE bodies[f]
    BY <1>0, <1>2 DEF RecordTypeOK
  <2>2. /\ [bodies[w] EXCEPT !.written = "all"] \in [written : {"none", "part", "all"}, synced : BOOLEAN]
        /\ [bodies[w] EXCEPT !.written = "all"].written = "all"
        /\ [bodies[w] EXCEPT !.written = "all"].synced = bodies[w].synced
        /\ bodies[w] = WholeBody => [bodies[w] EXCEPT !.written = "all"] = WholeBody
    <3>1. bodies[w] \in [written : {"none", "part", "all"}, synced : BOOLEAN]
      BY <1>0 DEF RecordTypeOK
    <3> QED
      BY <3>1, BodyFields
  <2> QED
    BY <1>0, <1>2, <2>1, <2>2 DEF RecordTypeOK
<1> QED
  BY <1>1, <1>2

\* A file is staged.
LEMMA StageRecordKeeps ==
  ASSUME RecordInv, NEW w \in Writers, StageRecord(w)
  PROVE  RecordInv'
<1> USE WriterNames DEF RecordInv, diskVars, FileIds, WriterPlaces, StageRecord, Goes
<1>1. RecordTypeOK'
  BY DEF RecordTypeOK
<1>2. BodiesInOrder'
  BY DEF RecordTypeOK, BodiesInOrder, Lasts, WholeBody
<1>3. NamesInOrder'
  BY DEF RecordTypeOK, NamesInOrder, Later, Returned
<1>4. ReadersInOrder'
  BY DEF RecordTypeOK, BodiesInOrder, ReadersInOrder, Lasts, WholeBody, Later
<1> QED
  BY <1>1, <1>2, <1>3, <1>4

\* The staged file is written.
LEMMA FillRecordKeeps ==
  ASSUME RecordInv, NEW w \in Writers, FillRecord(w)
  PROVE  RecordInv'
<1> USE WriterNames DEF RecordInv, diskVars, FileIds, WriterPlaces, FillRecord, Goes
<1>1. RecordTypeOK'
  BY ZenonT(60) DEF RecordTypeOK
<1>2. BodiesInOrder'
  BY DEF RecordTypeOK, BodiesInOrder, Lasts, WholeBody
<1>3. NamesInOrder'
  BY DEF RecordTypeOK, NamesInOrder, Later, Returned
<1>4. ReadersInOrder'
  BY DEF RecordTypeOK, BodiesInOrder, ReadersInOrder, Lasts, WholeBody, Later
<1> QED
  BY <1>1, <1>2, <1>3, <1>4

\* The staged file is synced.
LEMMA SyncAndCloseKeeps ==
  ASSUME RecordInv, NEW w \in Writers, SyncAndClose(w)
  PROVE  RecordInv'
<1> USE WriterNames DEF RecordInv, diskVars, FileIds, WriterPlaces, SyncAndClose, Goes
<1>1. RecordTypeOK'
  BY ZenonT(60) DEF RecordTypeOK
<1>2. BodiesInOrder'
  <2>1. /\ \A f \in FileIds : bodies[f] = WholeBody => bodies'[f] = WholeBody
        /\ \A f \in FileIds : bodies[f].synced => bodies'[f].synced
        /\ \A f \in FileIds : bodies[f].written = "all" => bodies'[f].written = "all"
    BY BodyWritten
  <2>2. bodies'[w].synced
    BY DEF RecordTypeOK
  <2>3. \A v \in Writers : writing'[v] = IF v = w THEN "synced" ELSE writing[v]
    BY DEF RecordTypeOK
  <2>4. current \in FileIds /\ UNCHANGED <<current, renames, drafts>> /\ \A i \in 1..Len(renames) : renames[i] \in FileIds
    BY DEF RecordTypeOK
  <2>5. Lasts(current)' /\ (\A i \in 1..Len(renames) : Lasts(renames[i]))'
    BY <2>1, <2>4 DEF BodiesInOrder, Lasts
  <2>6. \A v \in Writers : /\ writing'[v] \in {"filled", "synced", "replaced"} => bodies'[v].written = "all"
                           /\ writing'[v] \in {"synced", "replaced", "done"} => bodies'[v].synced
                           /\ writing'[v] = "done" => bodies'[v].written = "all"
    BY <2>1, <2>2, <2>3 DEF BodiesInOrder
  <2>7. \A v \in drafts' : writing'[v] \in {"staged", "filled", "synced", "killed"}
    BY <2>3, <2>4 DEF BodiesInOrder, RecordTypeOK
  <2> QED
    BY <2>5, <2>6, <2>7 DEF BodiesInOrder
<1>3. NamesInOrder'
  BY DEF RecordTypeOK, NamesInOrder, Later, Returned
<1>4. ReadersInOrder'
  <2>1. \A f \in FileIds : bodies[f] = WholeBody => bodies'[f] = WholeBody
    BY BodyWritten
  <2> QED
    BY <2>1 DEF RecordTypeOK, ReadersInOrder
<1> QED
  BY <1>1, <1>2, <1>3, <1>4

\* The staged file gets the name of the record.
LEMMA ReplaceRecordKeeps ==
  ASSUME RecordInv, NEW w \in Writers, ReplaceRecord(w)
  PROVE  RecordInv'
<1> USE WriterNames DEF RecordInv, diskVars, FileIds, WriterPlaces, ReplaceRecord, Goes
<1>1. RecordTypeOK'
  BY DEF RecordTypeOK
<1>2. BodiesInOrder'
  <2>1. \A i \in 1..Len(renames') : renames'[i] = w \/ (i \in 1..Len(renames) /\ renames'[i] = renames[i])
    BY NameAdded
  <2>2. bodies[w] = WholeBody /\ bodies' = bodies
    BY DEF RecordTypeOK, BodiesInOrder, WholeBody
  <2> QED
    BY <2>1, <2>2 DEF RecordTypeOK, BodiesInOrder, Lasts
<1>3. NamesInOrder'
  BY DEF RecordTypeOK, NamesInOrder, Later, Returned
<1>4. ReadersInOrder'
  BY DEF RecordTypeOK, BodiesInOrder, ReadersInOrder, Lasts, WholeBody, Later
<1> QED
  BY <1>1, <1>2, <1>3, <1>4

\* The directory is synced.
LEMMA SyncDirectoryKeeps ==
  ASSUME RecordInv, NEW w \in Writers, SyncDirectory(w)
  PROVE  RecordInv'
<1> USE WriterNames DEF RecordInv, diskVars, FileIds, WriterPlaces, SyncDirectory, Goes
<1>1. RecordTypeOK'
  <2> HIDE DEF FileIds
  <2>1. current \in FileIds /\ renames \in Seq(FileIds) /\ renames' \in {<<current>>, renames}
    BY DEF RecordTypeOK
  <2>2. <<current>> \in Seq(FileIds)
    BY <2>1
  <2>3. renames' \in Seq(FileIds)
    BY <2>1, <2>2
  <2> QED
    BY <2>3 DEF RecordTypeOK
<1>2. BodiesInOrder'
  BY DEF RecordTypeOK, BodiesInOrder, Lasts, WholeBody
<1>3. NamesInOrder'
  BY DEF RecordTypeOK, NamesInOrder, Later, Returned
<1>4. ReadersInOrder'
  BY DEF RecordTypeOK, BodiesInOrder, ReadersInOrder, Lasts, WholeBody, Later
<1> QED
  BY <1>1, <1>2, <1>3, <1>4

\* A step of a writer fails.
LEMMA WriteFailsKeeps ==
  ASSUME RecordInv, NEW w \in Writers, WriteFails(w)
  PROVE  RecordInv'
<1> USE WriterNames DEF RecordInv, diskVars, FileIds, WriterPlaces, WriteFails
<1>1. RecordTypeOK'
  BY DEF RecordTypeOK
<1>2. BodiesInOrder'
  BY DEF RecordTypeOK, BodiesInOrder, Lasts, WholeBody
<1>3. NamesInOrder'
  BY DEF RecordTypeOK, NamesInOrder, Later, Returned
<1>4. ReadersInOrder'
  BY DEF RecordTypeOK, BodiesInOrder, ReadersInOrder, Lasts, WholeBody, Later
<1> QED
  BY <1>1, <1>2, <1>3, <1>4

\* A reader opens the record.
LEMMA OpenRecordKeeps ==
  ASSUME RecordInv, NEW r \in Readers, OpenRecord(r)
  PROVE  RecordInv'
<1> USE WriterNames DEF RecordInv, diskVars, FileIds, WriterPlaces, OpenRecord, Opens
<1>1. RecordTypeOK'
  <2>1. PICK at, file, floor : /\ at \in {"open", "end"} /\ file = current /\ floor = Cardinality(Returned)
                                /\ reader' = [reader EXCEPT ![r] = [at |-> at, file |-> file, floor |-> floor]]
    OBVIOUS
  <2>2. [at |-> at, file |-> file, floor |-> floor] \in [at : {"start", "open", "end"}, file : FileIds, floor : Nat]
    BY <2>1, CountedReturned DEF RecordTypeOK
  <2> HIDE DEF OpenRecord
  <2>3. reader' \in [Readers -> [at : {"start", "open", "end"}, file : FileIds, floor : Nat]]
    BY <2>1, <2>2 DEF RecordTypeOK
  <2> QED
    BY <2>3 DEF RecordTypeOK, OpenRecord
<1>2. BodiesInOrder'
  BY DEF RecordTypeOK, BodiesInOrder, Lasts, WholeBody
<1>3. NamesInOrder'
  BY DEF RecordTypeOK, NamesInOrder, Later, Returned
<1>4. ReadersInOrder'
  <2>1. PICK st : /\ st = [at |-> IF current = NoFile \/ ~Opens(current) THEN "end" ELSE "open",
                           file |-> current, floor |-> Cardinality(Returned)]
                  /\ reader' = [reader EXCEPT ![r] = st]
    OBVIOUS
  <2>2. /\ st.at \in {"open", "end"} /\ st.file = current /\ st.floor = Cardinality(Returned)
        /\ st.at = "open" => current # NoFile /\ Opens(current)
    BY <2>1
  <2>3. /\ answer'[r] \in {"absent", "none", "refused"} /\ (st.at = "open" => answer'[r] = "none")
        /\ (answer'[r] = "refused" => current # NoFile /\ ~Opens(current)) /\ (answer'[r] = "absent" => current = NoFile)
    BY <2>1, <2>2 DEF RecordTypeOK, ReadersInOrder
  <2>4. reader'[r] = st /\ \A q \in Readers \ {r} : reader'[q] = reader[q] /\ answer'[q] = answer[q]
    BY <2>1 DEF RecordTypeOK
  <2>5. syncing /\ st.floor > 0 => Later(current)
    BY <2>2, CountedReturned DEF NamesInOrder
  <2>6. current \in Writers \/ current = First \/ current = NoFile
    BY DEF RecordTypeOK
  <2>7. syncing /\ st.floor > 0 => answer'[r] \notin {First, "refused"} /\ (answer'[r] = "absent" => removed)
    BY <2>3, <2>5, <2>6 DEF Later, ReadersInOrder, First
  <2>8. st.at = "open" => bodies[current] = WholeBody /\ owner[current] = "private"
    BY <2>2 DEF BodiesInOrder, Lasts
  <2>9. answer'[r] \notin FileIds /\ answer'[r] # "torn"
    BY <2>3 DEF First, NoFile
  <2> QED
    BY <2>2, <2>3, <2>4, <2>5, <2>7, <2>8, <2>9 DEF ReadersInOrder, Later
<1> QED
  BY <1>1, <1>2, <1>3, <1>4

\* A reader reads what it opened.
LEMMA ReadRecordKeeps ==
  ASSUME RecordInv, NEW r \in Readers, ReadRecord(r)
  PROVE  RecordInv'
<1> USE WriterNames DEF RecordInv, diskVars, FileIds, WriterPlaces, ReadRecord
<1>1. RecordTypeOK'
  BY DEF RecordTypeOK
<1>2. BodiesInOrder'
  BY DEF RecordTypeOK, BodiesInOrder, Lasts, WholeBody
<1>3. NamesInOrder'
  BY DEF RecordTypeOK, NamesInOrder, Later, Returned
<1>4. ReadersInOrder'
  <2>1. /\ answer[r] = "none" /\ reader[r].file # NoFile /\ bodies[reader[r].file] = WholeBody
        /\ owner[reader[r].file] = "private" /\ reader[r].file \in FileIds
        /\ syncing /\ reader[r].floor > 0 => reader[r].file # First
    BY DEF ReadersInOrder, RecordTypeOK
  <2>2. answer'[r] = reader[r].file /\ \A q \in Readers \ {r} : answer'[q] = answer[q]
    BY <2>1 DEF RecordTypeOK, WholeBody
  <2>3. /\ reader'[r].at = "end" /\ reader'[r].floor = reader[r].floor
        /\ \A q \in Readers \ {r} : reader'[q] = reader[q]
    BY DEF RecordTypeOK
  <2>4. answer'[r] \notin {"torn", "refused", "absent"}
    BY <2>1, <2>2 DEF First, NoFile
  <2> HIDE DEF FileIds
  <2> QED
    BY <2>1, <2>2, <2>3, <2>4 DEF ReadersInOrder
<1> QED
  BY <1>1, <1>2, <1>3, <1>4

\* A reader starts over.
LEMMA ReadAgainKeeps ==
  ASSUME RecordInv, NEW r \in Readers, ReadAgain(r)
  PROVE  RecordInv'
<1> USE WriterNames DEF RecordInv, diskVars, FileIds, WriterPlaces, ReadAgain
<1>1. RecordTypeOK'
  <2>1. [reader[r] EXCEPT !.at = "start"] \in [at : {"start", "open", "end"}, file : FileIds, floor : Nat]
    BY ZenonT(60) DEF RecordTypeOK
  <2>2. reader' = [reader EXCEPT ![r] = [reader[r] EXCEPT !.at = "start"]]
    BY DEF RecordTypeOK
  <2>3. reader' \in [Readers -> [at : {"start", "open", "end"}, file : FileIds, floor : Nat]]
    BY <2>1, <2>2 DEF RecordTypeOK
  <2> QED
    BY <2>3 DEF RecordTypeOK
<1>2. BodiesInOrder'
  BY DEF RecordTypeOK, BodiesInOrder, Lasts, WholeBody
<1>3. NamesInOrder'
  BY DEF RecordTypeOK, NamesInOrder, Later, Returned
<1>4. ReadersInOrder'
  <2>1. reader'[r].at = "start" /\ \A q \in Readers \ {r} : reader'[q] = reader[q]
    BY DEF RecordTypeOK
  <2>2. answer'[r] = "none" /\ \A q \in Readers \ {r} : answer'[q] = answer[q]
    BY DEF RecordTypeOK
  <2>3. "none" \notin FileIds
    BY DEF First, NoFile
  <2> HIDE DEF FileIds
  <2> QED
    BY <2>1, <2>2, <2>3 DEF ReadersInOrder
<1> QED
  BY <1>1, <1>2, <1>3, <1>4

\* The record is removed.
LEMMA RemoveRecordKeeps ==
  ASSUME RecordInv, RemoveRecord
  PROVE  RecordInv'
<1> USE WriterNames DEF RecordInv, diskVars, FileIds, WriterPlaces, RemoveRecord, Removes
<1>1. RecordTypeOK'
  BY DEF RecordTypeOK
<1>2. BodiesInOrder'
  BY DEF RecordTypeOK, BodiesInOrder, Lasts, WholeBody
<1>3. NamesInOrder'
  <2>1. \A i \in 1..Len(renames') : renames'[i] = NoFile \/ (i \in 1..Len(renames) /\ renames'[i] = renames[i])
    BY NameAdded
  <2>2. removed' /\ current' = NoFile /\ NoFile # First /\ UNCHANGED <<writing, syncing>>
    BY DEF First, NoFile
  <2>3. Later(current)'
    BY <2>2 DEF Later
  <2>4. \A i \in 1..Len(renames) : Later(renames[i]) => renames[i] # First
    BY DEF Later
  <2> QED
    BY <2>1, <2>2, <2>3, <2>4 DEF NamesInOrder, Later, Returned
<1>4. ReadersInOrder'
  BY DEF RecordTypeOK, BodiesInOrder, ReadersInOrder, Lasts, WholeBody, Later
<1> QED
  BY <1>1, <1>2, <1>3, <1>4

\* The power is lost.
LEMMA LosePowerKeeps ==
  ASSUME RecordInv, LosePower
  PROVE  RecordInv'
<1> USE WriterNames DEF RecordInv, diskVars, FileIds, WriterPlaces, LosePower
<1>1. RecordTypeOK'
  <2> HIDE DEF FileIds
  <2>0. DOMAIN renames = 1..Len(renames)
    BY DEF RecordTypeOK
  <2>1. PICK i \in 1..Len(renames), left \in {"none", "part", "all"} :
          /\ current' = renames[i] /\ renames' = <<renames[i]>>
          /\ bodies' = [f \in FileIds |-> IF bodies[f].synced \/ bodies[f].written = "none" THEN bodies[f]
                                          ELSE [written |-> left, synced |-> TRUE]]
    BY <2>0
  <2>2. renames[i] \in FileIds
    BY DEF RecordTypeOK
  <2>3. bodies' \in [FileIds -> [written : {"none", "part", "all"}, synced : BOOLEAN]]
    BY <2>1 DEF RecordTypeOK
  <2>4. renames' \in Seq(FileIds) /\ current' \in FileIds
    BY <2>1, <2>2
  <2>5. writing' \in [Writers -> WriterPlaces]
    BY DEF RecordTypeOK
  <2>6. reader' \in [Readers -> [at : {"start", "open", "end"}, file : FileIds, floor : Nat]]
    <3>1. ASSUME NEW r \in Readers
          PROVE  [reader[r] EXCEPT !.at = IF @ = "open" THEN "end" ELSE @]
                   \in [at : {"start", "open", "end"}, file : FileIds, floor : Nat]
      <4>1. reader[r] \in [at : {"start", "open", "end"}, file : FileIds, floor : Nat]
        BY DEF RecordTypeOK
      <4> HIDE DEF LosePower
      <4> QED
        BY <4>1
    <3> QED
      BY <3>1
  <2> QED
    BY <2>3, <2>4, <2>5, <2>6 DEF RecordTypeOK
<1>2. BodiesInOrder'
  <2> HIDE DEF FileIds
  <2>0. DOMAIN renames = 1..Len(renames)
    BY DEF RecordTypeOK
  <2>1. PICK i \in 1..Len(renames), left \in {"none", "part", "all"} :
          /\ current' = renames[i] /\ renames' = <<renames[i]>>
          /\ bodies' = [f \in FileIds |-> IF bodies[f].synced \/ bodies[f].written = "none" THEN bodies[f]
                                          ELSE [written |-> left, synced |-> TRUE]]
    BY <2>0
  <2>2. renames[i] \in FileIds
    BY DEF RecordTypeOK
  <2>3. \A f \in FileIds : bodies[f].synced => bodies'[f] = bodies[f]
    BY <2>1
  <2>4. \A j \in 1..Len(renames') : renames'[j] = renames[i]
    BY <2>1
  <2>5. Lasts(current)' /\ (\A j \in 1..Len(renames) : Lasts(renames[j]))'
    <3>1. renames[i] # NoFile => bodies[renames[i]] = WholeBody /\ bodies[renames[i]].synced
      BY DEF BodiesInOrder, Lasts, WholeBody
    <3> QED
      BY <2>1, <2>2, <2>3, <2>4, <3>1 DEF Lasts
  <2>6. \A w \in Writers : writing'[w] \in {"done", "failed", "start", "killed"} /\ (writing'[w] = "done" => writing[w] = "done")
    OBVIOUS
  <2>7. \A w \in drafts' : writing'[w] = "killed"
    BY DEF BodiesInOrder, RecordTypeOK
  <2>8. \A w \in Writers : writing'[w] = "done" => bodies'[w] = bodies[w] /\ bodies[w].synced /\ bodies[w].written = "all"
    BY <2>3, <2>6 DEF BodiesInOrder, FileIds
  <2> QED
    BY <2>5, <2>6, <2>7, <2>8 DEF BodiesInOrder
<1>3. NamesInOrder'
  <2> HIDE DEF FileIds
  <2>0. DOMAIN renames = 1..Len(renames)
    BY DEF RecordTypeOK
  <2>1. PICK i \in 1..Len(renames), left \in {"none", "part", "all"} :
          /\ current' = renames[i] /\ renames' = <<renames[i]>>
          /\ bodies' = [f \in FileIds |-> IF bodies[f].synced \/ bodies[f].written = "none" THEN bodies[f]
                                          ELSE [written |-> left, synced |-> TRUE]]
    BY <2>0
  <2>2. renames[i] \in FileIds
    BY DEF RecordTypeOK
  <2>3. \A j \in 1..Len(renames') : renames'[j] = renames[i]
    BY <2>1
  <2>4. \A w \in Writers : writing'[w] # "replaced" /\ (writing'[w] = "done" <=> writing[w] = "done")
    OBVIOUS
  <2>5. Returned' = Returned
    BY <2>4 DEF Returned
  <2> QED
    BY <2>1, <2>3, <2>4, <2>5 DEF NamesInOrder, Later
<1>4. ReadersInOrder'
  <2>1. /\ UNCHANGED <<syncing, removed, owner, answer>>
        /\ reader' = [r \in Readers |-> [reader[r] EXCEPT !.at = IF @ = "open" THEN "end" ELSE @]]
        /\ \A f \in FileIds : bodies[f].synced => bodies'[f] = bodies[f]
    OBVIOUS
  <2>2. ASSUME NEW r \in Readers
        PROVE  /\ reader'[r].floor = reader[r].floor /\ reader'[r].file = reader[r].file
               /\ reader'[r].at = IF reader[r].at = "open" THEN "end" ELSE reader[r].at
    BY <2>1 DEF RecordTypeOK
  <2>3. ASSUME NEW r \in Readers
        PROVE  /\ reader'[r].at # "open" /\ (reader'[r].at = "start" <=> reader[r].at = "start")
               /\ reader'[r].floor = reader[r].floor
    BY <2>2
  <2> HIDE DEF LosePower, FileIds
  <2> QED
    BY <2>1, <2>3 DEF ReadersInOrder
<1> QED
  BY <1>1, <1>2, <1>3, <1>4

\* Nothing of the trash.
LEMMA TrashInitially == StateFilesInit => TrashInOrder
<1> SUFFICES ASSUME StateFilesInit PROVE TrashInOrder
  OBVIOUS
<1>1. NoEmptying \in EmptierStates
  BY StateFilesAssumption DEF NoEmptying, EmptierStates
<1>2. emptying = [e \in Emptiers |-> NoEmptying] /\ NoEmptying.at = "idle" /\ NoEmptying.took = {}
  BY DEF StateFilesInit, NoEmptying
<1>3. Cardinality({}) <= EmptyLimit
  BY FS_EmptySet, StateFilesAssumption
<1>4. /\ rubbish \in [Discarded -> {"kept", "trash", "locked", "gone"}]
      /\ reported \in [Emptiers -> SUBSET Discarded]
  BY DEF StateFilesInit
<1>5. emptying \in [Emptiers -> EmptierStates]
  BY <1>1, <1>2
<1> QED
  BY <1>2, <1>3, <1>4, <1>5 DEF TrashInOrder, EmptierInOrder

\* The record of an emptier that is changed.
LEMMA EmptierFields ==
  ASSUME NEW b \in EmptierStates, NEW a \in {"idle", "listed", "removing", "over"},
         NEW h \in SUBSET Discarded, NEW n \in Discarded \cup {NoFile},
         NEW t \in 0..Retries, NEW g \in BOOLEAN
  PROVE  /\ [b EXCEPT !.has = h, !.at = a, !.entry = n, !.tries = t, !.granted = g] \in EmptierStates
         /\ [b EXCEPT !.at = a] \in EmptierStates
         /\ [b EXCEPT !.tries = t] \in EmptierStates
         /\ [b EXCEPT !.tries = t, !.granted = g] \in EmptierStates
  BY DEF EmptierStates

\* An emptier whose record was replaced by another one.
LEMMA EmptierMoves ==
  ASSUME TrashInOrder, NEW e \in Emptiers, NEW x \in EmptierStates, emptying' = [emptying EXCEPT ![e] = x],
         rubbish' \in [Discarded -> {"kept", "trash", "locked", "gone"}], reported' \in [Emptiers -> SUBSET Discarded],
         \A d \in Discarded : rubbish[d] = "gone" => rubbish'[d] = "gone",
         \A q \in Emptiers \ {e} : reported'[q] = reported[q],
         EmptierInOrder(x, rubbish', reported'[e])
  PROVE  TrashInOrder'
<1>1. emptying' \in [Emptiers -> EmptierStates] /\ emptying'[e] = x /\ \A q \in Emptiers \ {e} : emptying'[q] = emptying[q]
  BY DEF TrashInOrder
<1>2. ASSUME NEW q \in Emptiers, q # e
      PROVE  EmptierInOrder(emptying'[q], rubbish', reported'[q])
  <2>1. emptying'[q] = emptying[q] /\ emptying[q] \in EmptierStates /\ reported'[q] = reported[q]
    BY <1>1, <1>2 DEF TrashInOrder
  <2>2. emptying[q].took \subseteq Discarded
    BY <2>1 DEF EmptierStates
  <2> QED
    BY <2>1, <2>2 DEF TrashInOrder, EmptierInOrder
<1> QED
  BY <1>1, <1>2 DEF TrashInOrder

\* A directory is set aside.
LEMMA SetAsideKeeps ==
  ASSUME TrashInOrder, NEW d \in Discarded, SetAsideDirectory(d)
  PROVE  TrashInOrder'
<1>1. /\ rubbish' \in [Discarded -> {"kept", "trash", "locked", "gone"}] /\ UNCHANGED <<emptying, reported>>
      /\ \A f \in Discarded : rubbish[f] = "gone" => rubbish'[f] = "gone"
  BY DEF TrashInOrder, SetAsideDirectory
<1>2. \A e \in Emptiers : emptying[e].took \subseteq Discarded
  BY DEF TrashInOrder, EmptierStates
<1> QED
  BY <1>1, <1>2 DEF TrashInOrder, EmptierInOrder

\* An emptier takes no more than its limit.
LEMMA ListTrashKeeps ==
  ASSUME TrashInOrder, NEW e \in Emptiers, ListTrash(e)
  PROVE  TrashInOrder'
<1>1. PICK has \in SUBSET Trashed :
        /\ Cardinality(has) = (IF Cardinality(Trashed) < EmptyLimit THEN Cardinality(Trashed) ELSE EmptyLimit)
        /\ emptying' = [emptying EXCEPT ![e] = [NoEmptying EXCEPT !.at = "listed", !.has = has, !.took = has]]
  BY DEF ListTrash
<1>2. has \in SUBSET Discarded
  BY DEF Trashed
<1>3. Cardinality(has) <= EmptyLimit
  <2>1. Cardinality(Trashed) \in Nat
    BY StateFilesAssumption, FS_Subset, FS_CardinalityType DEF Trashed
  <2> QED
    BY <1>1, <2>1, StateFilesAssumption
<1>4. PICK x : x = [NoEmptying EXCEPT !.at = "listed", !.has = has, !.took = has]
  OBVIOUS
<1>5. emptying' = [emptying EXCEPT ![e] = x]
  BY <1>1, <1>4
<1>6. x.at = "listed" /\ x.has = has /\ x.took = has
  BY <1>4 DEF NoEmptying
<1>7. x \in EmptierStates
  <2>1. NoEmptying \in EmptierStates
    BY StateFilesAssumption DEF NoEmptying, EmptierStates
  <2> QED
    BY <1>2, <1>4, <2>1 DEF EmptierStates
<1>8. UNCHANGED <<rubbish, reported>>
  BY DEF ListTrash
<1>9. /\ rubbish' \in [Discarded -> {"kept", "trash", "locked", "gone"}] /\ reported' \in [Emptiers -> SUBSET Discarded]
  BY <1>8 DEF TrashInOrder
<1>10. EmptierInOrder(x, rubbish', reported'[e])
  BY <1>3, <1>6 DEF EmptierInOrder
<1> QED
  BY <1>5, <1>7, <1>8, <1>9, <1>10, EmptierMoves

\* An emptier goes to its next entry.
LEMMA NextEntryKeeps ==
  ASSUME TrashInOrder, NEW e \in Emptiers, NextEntry(e)
  PROVE  TrashInOrder'
<1>0. /\ UNCHANGED <<rubbish, reported>> /\ emptying[e].at = "listed" /\ emptying[e] \in EmptierStates
      /\ rubbish' \in [Discarded -> {"kept", "trash", "locked", "gone"}] /\ reported' \in [Emptiers -> SUBSET Discarded]
      /\ EmptierInOrder(emptying[e], rubbish, reported[e])
  BY DEF NextEntry, TrashInOrder
<1>1. CASE emptying[e].has = {}
  <2>1. PICK x : x = [emptying[e] EXCEPT !.at = "over"]
    OBVIOUS
  <2>2. emptying' = [emptying EXCEPT ![e] = x]
    BY <1>1, <2>1 DEF NextEntry
  <2>3. x.at = "over" /\ x.has = {} /\ x.took = emptying[e].took /\ x \in EmptierStates
    BY <1>0, <1>1, <2>1 DEF EmptierStates
  <2>4. EmptierInOrder(x, rubbish', reported'[e])
    BY <1>0, <1>1, <2>3 DEF EmptierInOrder
  <2> QED
    BY <1>0, <2>2, <2>3, <2>4, EmptierMoves
<1>2. CASE emptying[e].has # {}
  <2>1. PICK d \in emptying[e].has : emptying' = [emptying EXCEPT ![e] = Starting(e, d)]
    BY <1>2 DEF NextEntry
  <2>2. PICK h : h = emptying[e].has \ {d}
    OBVIOUS
  <2>3. PICK x : x = Starting(e, d)
    OBVIOUS
  <2>4. emptying' = [emptying EXCEPT ![e] = x]
    BY <2>1, <2>3
  <2>9. ASSUME NEW g PROVE [emptying[e] EXCEPT !.has = @ \ {d}, !.at = "removing", !.entry = d, !.tries = 0, !.granted = g]
          = [emptying[e] EXCEPT !.has = h, !.at = "removing", !.entry = d, !.tries = 0, !.granted = g]
    BY <2>2
  <2>10. x = [emptying[e] EXCEPT !.has = h, !.at = "removing", !.entry = d, !.tries = 0, !.granted = FALSE]
    BY <2>3, <2>9, Zenon DEF Starting
  <2>5. /\ x.at = "removing" /\ x.has = h /\ x.took = emptying[e].took /\ x.entry = d
        /\ d \in Discarded /\ h \in SUBSET Discarded
    BY <1>0, <2>2, <2>10 DEF EmptierStates
  <2>6. x \in EmptierStates
    <3>1. 0 \in 0..Retries
      BY StateFilesAssumption
    <3>2. d \in Discarded \cup {NoFile}
      BY <2>5
    <3> QED
      BY <1>0, <2>10, <2>5, <3>1, <3>2, EmptierFields, Zenon
  <2>7. EmptierInOrder(x, rubbish', reported'[e])
    BY <1>0, <2>2, <2>5 DEF EmptierInOrder
  <2> QED
    BY <1>0, <2>4, <2>6, <2>7, EmptierMoves
<1> QED
  BY <1>1, <1>2

\* An emptier removes an entry, tries again, grants itself the access or reports it.
LEMMA RemoveEntryKeeps ==
  ASSUME TrashInOrder, NEW e \in Emptiers, RemoveEntry(e)
  PROVE  TrashInOrder'
<1>1. PICK d : d = emptying[e].entry
  OBVIOUS
<1>2. PICK b : b = emptying[e]
  OBVIOUS
<1>3. /\ b \in EmptierStates /\ b.at = "removing" /\ d = b.entry /\ d \in Discarded
      /\ b.tries \in 0..Retries /\ b.granted \in BOOLEAN
      /\ EmptierInOrder(b, rubbish, reported[e])
  BY <1>1, <1>2 DEF RemoveEntry, TrashInOrder, EmptierStates, EmptierInOrder
<1>4. /\ rubbish \in [Discarded -> {"kept", "trash", "locked", "gone"}] /\ reported \in [Emptiers -> SUBSET Discarded]
      /\ emptying \in [Emptiers -> EmptierStates]
  BY DEF TrashInOrder
<1>5. ASSUME NEW x \in EmptierStates, x.took = b.took, x.has = b.has, emptying' = [emptying EXCEPT ![e] = x],
             \/ x.at = "listed" /\ (rubbish'[d] = "gone" \/ d \in reported'[e])
             \/ x.at = "removing" /\ x.entry = d,
             \/ UNCHANGED rubbish
             \/ \E s \in {"gone", "trash"} : rubbish' = [rubbish EXCEPT ![d] = s] /\ rubbish[d] # "gone",
             UNCHANGED reported \/ reported' = [reported EXCEPT ![e] = @ \cup {d}]
      PROVE  TrashInOrder'
  <2>1. /\ rubbish' \in [Discarded -> {"kept", "trash", "locked", "gone"}]
        /\ \A f \in Discarded : rubbish[f] = "gone" => rubbish'[f] = "gone"
    BY <1>3, <1>4, <1>5
  <2>2. /\ reported' \in [Emptiers -> SUBSET Discarded] /\ \A q \in Emptiers \ {e} : reported'[q] = reported[q]
        /\ reported[e] \subseteq reported'[e]
    BY <1>3, <1>4, <1>5
  <2>3. b.took \subseteq Discarded
    BY <1>3 DEF EmptierStates
  <2>4. EmptierInOrder(x, rubbish', reported'[e])
    BY <1>3, <1>5, <2>1, <2>2, <2>3 DEF EmptierInOrder
  <2> QED
    BY <1>5, <2>1, <2>2, <2>4, EmptierMoves
<1>6. CASE emptying' = Dismiss(e) /\ (rubbish'[d] = "gone" \/ d \in reported'[e])
  <2>1. PICK x : x = [b EXCEPT !.at = "listed"]
    OBVIOUS
  <2>2. x \in EmptierStates /\ x.took = b.took /\ x.has = b.has /\ x.at = "listed"
    BY <1>3, <2>1 DEF EmptierStates
  <2>3. emptying' = [emptying EXCEPT ![e] = x]
    BY <1>2, <1>6, <2>1 DEF Dismiss
  <2>4. /\ \/ UNCHANGED rubbish
           \/ \E s \in {"gone", "trash"} : rubbish' = [rubbish EXCEPT ![d] = s] /\ rubbish[d] # "gone"
        /\ UNCHANGED reported \/ reported' = [reported EXCEPT ![e] = @ \cup {d}]
    BY <1>1, <1>4 DEF RemoveEntry
  <2> QED
    BY <1>5, <1>6, <2>2, <2>3, <2>4
<1>7. CASE emptying' = Again(e) /\ b.tries < Retries /\ UNCHANGED <<rubbish, reported>>
  <2>1. PICK x : x = [b EXCEPT !.tries = @ + 1]
    OBVIOUS
  <2>2. b.tries + 1 \in 0..Retries
    BY <1>3, <1>7, StateFilesAssumption
  <2>3. x \in EmptierStates /\ x.took = b.took /\ x.has = b.has /\ x.at = "removing" /\ x.entry = d
    BY <1>3, <2>1, <2>2 DEF EmptierStates
  <2>4. emptying' = [emptying EXCEPT ![e] = x]
    BY <1>2, <1>7, <2>1 DEF Again
  <2> QED
    BY <1>5, <1>7, <2>3, <2>4
<1>8. CASE emptying' = Granted(e) /\ rubbish[d] = "locked" /\ rubbish' = [rubbish EXCEPT ![d] = "trash"] /\ UNCHANGED reported
  <2>1. ASSUME NEW t \in 0..Retries, NEW g \in BOOLEAN
        PROVE  /\ [b EXCEPT !.tries = t, !.granted = g] \in EmptierStates
               /\ [b EXCEPT !.tries = t, !.granted = g].took = b.took /\ [b EXCEPT !.tries = t, !.granted = g].has = b.has
               /\ [b EXCEPT !.tries = t, !.granted = g].at = "removing" /\ [b EXCEPT !.tries = t, !.granted = g].entry = d
    BY <1>3 DEF EmptierStates
  <2>2. 0 \in 0..Retries
    BY StateFilesAssumption
  <2>3. PICK x : x = [b EXCEPT !.tries = 0, !.granted = TRUE]
    OBVIOUS
  <2>4. x \in EmptierStates /\ x.took = b.took /\ x.has = b.has /\ x.at = "removing" /\ x.entry = d
    BY <2>1, <2>2, <2>3, Zenon
  <2>5. emptying' = [emptying EXCEPT ![e] = x]
    <3>1. ASSUME NEW g
          PROVE  [emptying EXCEPT ![e].tries = 0, ![e].granted = g] = [emptying EXCEPT ![e] = [b EXCEPT !.tries = 0, !.granted = g]]
      BY <1>2, <1>4 DEF EmptierStates
    <3> QED
      BY <1>8, <2>3, <3>1, Zenon DEF Granted
  <2> QED
    BY <1>5, <1>8, <2>4, <2>5
<1>9. \/ emptying' = Dismiss(e) /\ (rubbish'[d] = "gone" \/ d \in reported'[e])
      \/ emptying' = Again(e) /\ b.tries < Retries /\ UNCHANGED <<rubbish, reported>>
      \/ emptying' = Granted(e) /\ rubbish[d] = "locked" /\ rubbish' = [rubbish EXCEPT ![d] = "trash"] /\ UNCHANGED reported
  BY <1>1, <1>2, <1>3, <1>4 DEF RemoveEntry
<1> QED
  BY <1>6, <1>7, <1>8, <1>9

\* A loss of power ends the emptiers.
LEMMA LosePowerTrash ==
  ASSUME TrashInOrder, LosePower
  PROVE  TrashInOrder'
<1>1. /\ emptying' = [e \in Emptiers |-> NoEmptying] /\ reported' = [e \in Emptiers |-> {}]
      /\ rubbish' \in [Discarded -> {"kept", "trash", "locked", "gone"}]
  BY DEF LosePower
<1>2. NoEmptying \in EmptierStates
  BY StateFilesAssumption DEF NoEmptying, EmptierStates
<1>3. NoEmptying.at = "idle" /\ NoEmptying.took = {} /\ Cardinality({}) <= EmptyLimit
  BY FS_EmptySet, StateFilesAssumption DEF NoEmptying
<1>4. emptying' \in [Emptiers -> EmptierStates] /\ reported' \in [Emptiers -> SUBSET Discarded]
  BY <1>1, <1>2
<1> QED
  BY <1>1, <1>3, <1>4 DEF TrashInOrder, EmptierInOrder

\* The trash is not touched.
LEMMA TrashStays ==
  ASSUME TrashInOrder, UNCHANGED trashVars
  PROVE  TrashInOrder'
  BY DEF TrashInOrder, trashVars

\* The record is not touched.
LEMMA RecordStays ==
  ASSUME RecordInv, UNCHANGED <<diskVars, writing, reader, answer>>
  PROVE  RecordInv'
<1> USE DEF RecordInv, diskVars
<1>1. RecordTypeOK'
  BY DEF RecordTypeOK
<1>2. BodiesInOrder'
  BY DEF BodiesInOrder, Lasts
<1>3. NamesInOrder'
  BY DEF NamesInOrder, Later, Returned
<1>4. ReadersInOrder'
  BY DEF ReadersInOrder
<1> QED
  BY <1>1, <1>2, <1>3, <1>4

\* Every step keeps the invariant.
LEMMA StateFilesStep ==
  ASSUME StateFilesInv, [StateFilesNext]_stateFileVars
  PROVE  StateFilesInv'
<1> USE DEF StateFilesInv
<1>1. CASE UNCHANGED stateFileVars
  BY <1>1, RecordStays, TrashStays DEF stateFileVars
<1>2. ASSUME NEW w \in Writers,
             StageRecord(w) \/ FillRecord(w) \/ SyncAndClose(w) \/ ReplaceRecord(w) \/ SyncDirectory(w) \/ WriteFails(w)
      PROVE  StateFilesInv'
  <2>1. UNCHANGED trashVars
    BY <1>2 DEF StageRecord, FillRecord, SyncAndClose, ReplaceRecord, SyncDirectory, WriteFails
  <2> QED
    BY <1>2, <2>1, TrashStays, StageRecordKeeps, FillRecordKeeps, SyncAndCloseKeeps, ReplaceRecordKeeps,
       SyncDirectoryKeeps, WriteFailsKeeps
<1>3. ASSUME NEW r \in Readers, OpenRecord(r) \/ ReadRecord(r) \/ ReadAgain(r)
      PROVE  StateFilesInv'
  <2>1. UNCHANGED trashVars
    BY <1>3 DEF OpenRecord, ReadRecord, ReadAgain
  <2> QED
    BY <1>3, <2>1, TrashStays, OpenRecordKeeps, ReadRecordKeeps, ReadAgainKeeps
<1>4. CASE RemoveRecord
  BY <1>4, TrashStays, RemoveRecordKeeps DEF RemoveRecord
<1>5. ASSUME NEW d \in Discarded, SetAsideDirectory(d)
      PROVE  StateFilesInv'
  <2>1. UNCHANGED <<diskVars, writing, reader, answer>>
    BY <1>5 DEF SetAsideDirectory
  <2> QED
    BY <1>5, <2>1, RecordStays, SetAsideKeeps
<1>6. ASSUME NEW e \in Emptiers, ListTrash(e) \/ NextEntry(e) \/ RemoveEntry(e)
      PROVE  StateFilesInv'
  <2>1. UNCHANGED <<diskVars, writing, reader, answer>>
    BY <1>6 DEF ListTrash, NextEntry, RemoveEntry
  <2> QED
    BY <1>6, <2>1, RecordStays, ListTrashKeeps, NextEntryKeeps, RemoveEntryKeeps
<1>7. CASE LosePower
  BY <1>7, LosePowerKeeps, LosePowerTrash
<1> QED
  BY <1>1, <1>2, <1>3, <1>4, <1>5, <1>6, <1>7 DEF StateFilesNext

\* What the invariant says of readers, the record and the trash.
LEMMA StateFilesInvSound == StateFilesInv => StateFilesSound
<1> SUFFICES ASSUME StateFilesInv PROVE StateFilesSound
  OBVIOUS
<1> USE DEF StateFilesInv, RecordInv
<1>1. \A r \in Readers : answer[r] # "torn"
  BY DEF ReadersInOrder
<1>2. \A r \in Readers : answer[r] \in FileIds => owner[answer[r]] = "private"
  BY DEF ReadersInOrder
<1>3. current # NoFile => bodies[current].written = "all"
  BY DEF BodiesInOrder, Lasts, WholeBody
<1>4. syncing /\ Returned # {} => current # First /\ (current = NoFile => removed)
  BY DEF NamesInOrder, Later
<1>5. \A r \in Readers : reader[r].at # "start" /\ reader[r].floor > 0 /\ syncing =>
        answer[r] \notin {First, "refused"} /\ (answer[r] = "absent" => removed)
  BY DEF ReadersInOrder
<1>6. \A w \in drafts : writing[w] \in {"staged", "filled", "synced", "killed"}
  BY DEF BodiesInOrder
<1>7. ASSUME NEW e \in Emptiers
      PROVE  /\ Cardinality(emptying[e].took) <= EmptyLimit
             /\ emptying[e].at = "over" => \A d \in emptying[e].took : rubbish[d] = "gone" \/ d \in reported[e]
             /\ emptying[e].tries <= Retries
  <2>1. emptying[e] \in EmptierStates /\ EmptierInOrder(emptying[e], rubbish, reported[e])
    BY DEF TrashInOrder
  <2>2. emptying[e].tries <= Retries
    BY <2>1, StateFilesAssumption DEF EmptierStates
  <2> QED
    BY <2>1, <2>2 DEF EmptierInOrder
<1> QED
  BY <1>1, <1>2, <1>3, <1>4, <1>5, <1>6, <1>7 DEF StateFilesSound

(***************************************************************************)
(* Wherever writers are killed, steps fail and the power is lost           *)
(* (state_io.rs, replacement.rs, removal.rs): no reader is ever given half *)
(* of a record or one that is not private, a write that returned is not    *)
(* undone by a power loss, and an emptier reports what it leaves.          *)
(***************************************************************************)
THEOREM StateFilesCorrect == StateFilesSpec => []StateFilesSound
<1>1. StateFilesInit => StateFilesInv
  BY RecordInitially, TrashInitially DEF StateFilesInv
<1>2. StateFilesInv /\ [StateFilesNext]_stateFileVars => StateFilesInv'
  BY StateFilesStep
<1>3. StateFilesInv => StateFilesSound
  BY StateFilesInvSound
<1> QED
  BY <1>1, <1>2, <1>3, PTL DEF StateFilesSpec

-----------------------------------------------------------------------------
(***************************************************************************)
(* What is unpacked elsewhere is the source.                               *)
(***************************************************************************)

OnDisk == [there : BOOLEAN, kind : {"file", "link", "inside", "directory", "absent"},
           head : {0, 1}, tail : {0, 1}, length : Nat]
Entries == [name : STRING \cup {"none"}, head : Nat, tail : Nat]

\* Whoever did not touch a file finds it as it was; only files are touched.
CheckoutInOrder ==
  /\ repository \in {"git", "none", "broken"}
  /\ oddity \in {"file", "link", "inside", "directory", "absent"}
  /\ edited \subseteq Names
  /\ checkout \in [Names -> OnDisk]
  /\ \A n \in Names : n \notin edited => checkout[n] = Fresh(n)
  /\ \A n \in edited : KindOf(n) = "file" /\ checkout[n].kind \in {"file", "link"}

InArchive(n) == \E i \in DOMAIN archived : archived[i].name = n
Wanting(n) == n \in paths \/ InArchive(n)

\* The paths hold every file that belongs to the source and nothing git ignores.
PathsInOrder ==
  /\ packing \in {"called", "listed", "walked", "opened", "sent", "refused"}
  /\ paths \subseteq Names
  /\ repository = "broken" => packing \in {"called", "refused"}
  /\ packing = "listed" /\ repository = "git" =>
       \A n \in Names \ edited : Belongs(n) => n \in paths
  /\ packing \in {"walked", "opened"} =>
       /\ \A n \in paths : StatusOf(n) \in {"tracked", "other"}
       /\ \A n \in Names \ edited : Belongs(n) => Wanting(n)
  /\ packing = "sent" => \A n \in Names \ edited : Belongs(n) => InArchive(n)

\* What was archived belongs to the source, under names that stay apart elsewhere.
ArchiveInOrder ==
  /\ archived \in Seq(Entries) /\ Len(archived) <= SourceLimit
  /\ \A i \in DOMAIN archived :
       /\ Belongs(archived[i].name)
       /\ archived[i].head \in Halves(archived[i].name) /\ archived[i].tail \in Halves(archived[i].name)
  /\ \A i, k \in DOMAIN archived : FoldsTo(archived[i].name) = FoldsTo(archived[k].name) => i = k
  /\ packing = "opened" =>
       /\ open.name \in paths /\ Belongs(open.name) /\ open.half \in Halves(open.name)
       /\ FoldsTo(open.name) \notin Folded /\ Len(archived) < SourceLimit

SentInOrder ==
  /\ packing = "sent" => sent = [bytes |-> archived, digest |-> archived]
  /\ packing # "sent" => sent = Unsent

SenderInOrder == CheckoutInOrder /\ PathsInOrder /\ ArchiveInOrder /\ SentInOrder

-----------------------------------------------------------------------------
\* What a node has is the beginning of what was sent, unless the line failed.
Incoming(at, ln, un) ==
  /\ at # "idle" => packing = "sent"
  /\ at = "idle" => ln = <<>>
  /\ lineFaults = 0 => Len(ln) <= Len(archived) /\ \A i \in 1..Len(ln) : ln[i] = archived[i]
  /\ at \in {"whole", "received", "staged"} => ln = archived
  /\ at \in {"idle", "receiving", "whole"} => un = <<>>
  /\ at \in {"received", "staged"} => Len(un) <= Len(ln) /\ \A i \in 1..Len(un) : un[i] = ln[i]
  /\ at = "staged" => un = archived
  /\ at \in {"refusing", "refused"} => lineFaults > 0

NodesInOrder ==
  /\ lineFaults \in Nat
  /\ line \in [Nodes -> Seq(Entries)] /\ unpacked \in [Nodes -> Seq(Entries)]
  /\ receiver \in [Nodes -> {"idle", "receiving", "whole", "received", "refusing", "refused", "staged", "dead"}]
  /\ \A c \in Nodes : Incoming(receiver[c], line[c], unpacked[c])

\* The file of the call that holds the lock is there, and it is the only one.
LockInOrder ==
  /\ incoming \subseteq Nodes
  /\ \A a, b \in incoming : a = b
  /\ \A c \in Nodes : receiver[c] \in {"receiving", "whole", "received", "refusing"} =>
       incomingLock = c /\ c \in incoming

SnapshotInv == SenderInOrder /\ NodesInOrder /\ LockInOrder

-----------------------------------------------------------------------------
\* A non-empty set of natural numbers has a least element.
LEMMA LeastNumber ==
  ASSUME NEW T \in SUBSET Nat, T # {}
  PROVE  \E x \in T : \A y \in T : x <= y
<1> DEFINE R == OpToRel(<, Nat)
<1>1. IsWellFoundedOn(R, Nat)
  BY NatLessThanWellFounded
<1>2. \A x, y \in Nat : y < x => <<y, x>> \in R
  BY DEF OpToRel
<1> HIDE DEF R
<1>3. PICK x \in T : \A y \in T : ~ (<<y, x>> \in R)
  BY <1>1, WFMin
<1>4. \A y \in T : ~(y < x)
  BY <1>2, <1>3, Zenon
<1>5. \A y \in T : x <= y
  BY <1>4, SMT
<1> QED
  BY <1>5


\* The next source is one of the paths.
LEMMA NextSourceIsPath ==
  ASSUME paths \subseteq Names, paths # {}
  PROVE  NextSource \in paths
<1>1. DOMAIN SourceFiles \subseteq Nat
  BY SnapshotAssumption
<1>2. \A n \in Names : IndexOf(n) \in DOMAIN SourceFiles
  BY DEF Names, IndexOf
<1>3. PICK T : T = {IndexOf(n) : n \in paths}
  OBVIOUS
<1>4. T \in SUBSET Nat /\ T # {}
  BY <1>1, <1>2, <1>3
<1>5. PICK m \in T : \A y \in T : m <= y
  BY <1>4, LeastNumber
<1>6. PICK n \in paths : m = IndexOf(n)
  BY <1>3, <1>5
<1>7. \A o \in paths : IndexOf(n) <= IndexOf(o)
  BY <1>3, <1>5, <1>6
<1> QED
  BY <1>7 DEF NextSource

\* Two sequences of the same length with the same elements are one.
LEMMA SameSequence ==
  ASSUME NEW S, NEW s \in Seq(S), NEW t \in Seq(S), Len(s) = Len(t), \A i \in 1..Len(s) : s[i] = t[i]
  PROVE  s = t
  BY SeqEqual

\* What is on the disk of a file nobody touched.
LEMMA FreshFile ==
  ASSUME CheckoutInOrder, NEW n \in Names, n \notin edited
  PROVE  /\ checkout[n].kind = KindOf(n) /\ checkout[n].head = 0 /\ checkout[n].tail = 0
         /\ (KindOf(n) = "file" => checkout[n].there)
<1>1. PICK b : b = (KindOf(n) # "absent")
  OBVIOUS
<1>2. checkout[n] = Fresh(n)
  BY DEF CheckoutInOrder
<1>3. Fresh(n) = [there |-> b, kind |-> KindOf(n), head |-> 0, tail |-> 0, length |-> 2]
  BY <1>1, Zenon DEF Fresh
<1>4. checkout[n].there = b /\ checkout[n].kind = KindOf(n) /\ checkout[n].head = 0 /\ checkout[n].tail = 0
  BY <1>2, <1>3
<1>5. KindOf(n) = "file" => b
  BY <1>1
<1> QED
  BY <1>4, <1>5

\* A file that is one now was one at first, and its halves are those it had.
LEMMA FileOnDisk ==
  ASSUME CheckoutInOrder, NEW n \in Names
  PROVE  /\ checkout[n].kind = "file" => KindOf(n) = "file"
         /\ checkout[n].head \in Halves(n) /\ checkout[n].tail \in Halves(n)
<1>1. CASE n \in edited
  BY <1>1 DEF CheckoutInOrder, Halves, OnDisk
<1>2. CASE n \notin edited
  BY <1>2, FreshFile DEF Halves
<1> QED
  BY <1>1, <1>2

-----------------------------------------------------------------------------
\* Nothing is archived, sent or received.
LEMMA SnapshotInitially == SnapshotInit => SnapshotInv
<1> SUFFICES ASSUME SnapshotInit PROVE SnapshotInv
  OBVIOUS
<1> USE DEF SnapshotInit
<1>1. CheckoutInOrder
  <2>1. \A n \in Names : KindOf(n) \in {"file", "link", "inside", "directory", "absent"}
    BY SnapshotAssumption DEF KindOf
  <2>2. \A n \in Names : Fresh(n) \in OnDisk
    BY <2>1 DEF Fresh, OnDisk
  <2> QED
    BY <2>2, SnapshotAssumption DEF CheckoutInOrder
<1>2. PathsInOrder
  BY DEF PathsInOrder
<1>3. ArchiveInOrder
  BY SnapshotAssumption DEF ArchiveInOrder
<1>4. SentInOrder
  BY DEF SentInOrder
<1>5. NodesInOrder
  <2>1. <<>> \in Seq(Entries) /\ Len(<<>>) = 0
    OBVIOUS
  <2>2. Len(archived) \in Nat
    BY <1>3 DEF ArchiveInOrder
  <2>3. Incoming("idle", <<>>, <<>>)
    BY <2>1, <2>2 DEF Incoming
  <2> QED
    BY <2>1, <2>3 DEF NodesInOrder
<1>6. LockInOrder
  BY DEF LockInOrder
<1> QED
  BY <1>1, <1>2, <1>3, <1>4, <1>5, <1>6 DEF SnapshotInv, SenderInOrder

\* The sender moves before it has sent: nobody receives yet.
LEMMA ReceiversWait ==
  ASSUME SnapshotInv, UNCHANGED <<receiverVars, lineFaults>>, packing # "sent", archived' \in Seq(Entries)
  PROVE  NodesInOrder' /\ LockInOrder'
<1>1. UNCHANGED <<line, receiver, incoming, incomingLock, unpacked, lineFaults>>
  BY DEF receiverVars
<1>2. LockInOrder'
  BY <1>1 DEF SnapshotInv, LockInOrder
<1>3. ASSUME NEW c \in Nodes PROVE Incoming(receiver[c], line[c], unpacked[c])'
  <2>1. Incoming(receiver[c], line[c], unpacked[c]) /\ receiver[c] = "idle"
    BY DEF SnapshotInv, NodesInOrder, Incoming
  <2>2. line[c] = <<>> /\ unpacked[c] = <<>> /\ Len(<<>>) = 0 /\ Len(archived') \in Nat
    BY <2>1 DEF Incoming
  <2> QED
    BY <1>1, <2>1, <2>2 DEF Incoming
<1> QED
  BY <1>1, <1>2, <1>3 DEF SnapshotInv, NodesInOrder

\* The files are as they were for whoever does not touch them.
LEMMA CheckoutStays ==
  ASSUME CheckoutInOrder, UNCHANGED <<repository, oddity, checkout, edited>>
  PROVE  /\ CheckoutInOrder' /\ \A n : (KindOf(n)' = KindOf(n) /\ Belongs(n)' = Belongs(n) /\ Halves(n)' = Halves(n))
<1>1. \A n : KindOf(n)' = KindOf(n)
  BY DEF KindOf
<1>2. \A n : Fresh(n)' = Fresh(n)
  BY <1>1 DEF Fresh
<1>3. \A n : Belongs(n)' = Belongs(n) /\ Halves(n)' = Halves(n)
  BY <1>1 DEF Belongs, Halves
<1> QED
  BY <1>1, <1>2, <1>3 DEF CheckoutInOrder

\* The archive stays and belongs to the source as before.
LEMMA ArchiveStays ==
  ASSUME ArchiveInOrder, UNCHANGED archived, packing' # "opened",
         \A n : Belongs(n)' = Belongs(n) /\ Halves(n) \subseteq Halves(n)'
  PROVE  ArchiveInOrder' /\ \A n : InArchive(n)' = InArchive(n)
  BY DEF ArchiveInOrder, InArchive

\* The paths git and the walk know of.
LEMMA TrackedKeeps ==
  ASSUME SnapshotInv, Tracked
  PROVE  SnapshotInv'
<1>0. CheckoutInOrder /\ PathsInOrder /\ ArchiveInOrder /\ SentInOrder
  BY DEF SnapshotInv, SenderInOrder
<1>1. /\ packing = "called" /\ packing' \in {"refused", "listed"}
      /\ UNCHANGED <<repository, oddity, open, archived, sent, checkout, receiverVars, edited, lineFaults>>
  BY DEF Tracked
<1>2. CheckoutInOrder' /\ \A n : (KindOf(n)' = KindOf(n) /\ Belongs(n)' = Belongs(n) /\ Halves(n)' = Halves(n))
  BY <1>0, <1>1, CheckoutStays
<1>3. ArchiveInOrder' /\ SentInOrder'
  BY <1>0, <1>1, <1>2, ArchiveStays DEF SentInOrder
<1>4. NodesInOrder' /\ LockInOrder'
  BY <1>1, <1>0, ReceiversWait DEF ArchiveInOrder
<1>5. paths' \subseteq Names
  BY <1>0 DEF Tracked, GitTracked, GitOthers, PathsInOrder
<1>6. repository = "broken" => packing' = "refused"
  BY DEF Tracked
<1>7. ASSUME packing' = "listed", repository = "git", NEW n \in Names \ edited, Belongs(n) PROVE n \in paths'
  <2>1. paths' = GitTracked \cup GitOthers
    BY <1>7 DEF Tracked
  <2>2. KindOf(n) = "file" /\ StatusOf(n) \in {"tracked", "other"}
    BY <1>7 DEF Belongs
  <2>3. checkout[n].kind = "file" /\ checkout[n].there
    BY <1>0, <2>2, FreshFile
  <2> QED
    BY <2>1, <2>2, <2>3 DEF GitTracked, GitOthers, Metadata
<1>8. PathsInOrder'
  BY <1>1, <1>2, <1>5, <1>6, <1>7 DEF PathsInOrder
<1> QED
  BY <1>2, <1>3, <1>4, <1>8 DEF SnapshotInv, SenderInOrder

\* The tree is walked.
LEMMA WalkTreeKeeps ==
  ASSUME SnapshotInv, WalkTree
  PROVE  SnapshotInv'
<1>0. CheckoutInOrder /\ PathsInOrder /\ ArchiveInOrder /\ SentInOrder
  BY DEF SnapshotInv, SenderInOrder
<1>1. /\ packing = "listed" /\ packing' = "walked"
      /\ UNCHANGED <<repository, oddity, open, archived, sent, checkout, receiverVars, edited, lineFaults>>
  BY DEF WalkTree
<1>2. CheckoutInOrder' /\ \A n : (KindOf(n)' = KindOf(n) /\ Belongs(n)' = Belongs(n) /\ Halves(n)' = Halves(n))
  BY <1>0, <1>1, CheckoutStays
<1>3. ArchiveInOrder' /\ SentInOrder'
  BY <1>0, <1>1, <1>2, ArchiveStays DEF SentInOrder
<1>4. NodesInOrder' /\ LockInOrder'
  BY <1>1, <1>0, ReceiversWait DEF ArchiveInOrder
<1>5. paths' \subseteq Names /\ \A n \in paths' : StatusOf(n) \in {"tracked", "other"}
  BY <1>0 DEF WalkTree, Walked, PathsInOrder
<1>6. ASSUME NEW n \in Names \ edited, Belongs(n) PROVE n \in paths'
  <2>2. KindOf(n) = "file" /\ StatusOf(n) \in {"tracked", "other"}
    BY <1>6 DEF Belongs
  <2>3. checkout[n].kind = "file" /\ checkout[n].there
    BY <1>0, <2>2, FreshFile
  <2>4. Exists(n) /\ n \in Walked
    BY <2>2, <2>3 DEF Exists, Walked, Metadata
  <2>5. repository = "git" => n \in paths
    BY <1>0, <1>1, <1>6 DEF PathsInOrder
  <2> QED
    BY <2>4, <2>5 DEF WalkTree
<1>8. PathsInOrder'
  BY <1>0, <1>1, <1>2, <1>5, <1>6 DEF PathsInOrder, Wanting
<1> QED
  BY <1>2, <1>3, <1>4, <1>8 DEF SnapshotInv, SenderInOrder

\* A source is opened, or the archive is refused.
LEMMA OpenSourceKeeps ==
  ASSUME SnapshotInv, OpenSource
  PROVE  SnapshotInv'
<1>0. CheckoutInOrder /\ PathsInOrder /\ ArchiveInOrder /\ SentInOrder
  BY DEF SnapshotInv, SenderInOrder
<1>1. /\ packing = "walked" /\ packing' \in {"opened", "refused"} /\ paths # {}
      /\ UNCHANGED <<repository, oddity, paths, archived, sent, checkout, receiverVars, edited, lineFaults>>
  BY DEF OpenSource
<1>2. CheckoutInOrder' /\ \A n : (KindOf(n)' = KindOf(n) /\ Belongs(n)' = Belongs(n) /\ Halves(n)' = Halves(n))
  BY <1>0, <1>1, CheckoutStays
<1>3. NodesInOrder' /\ LockInOrder'
  BY <1>1, <1>0, ReceiversWait DEF ArchiveInOrder
<1>4. \A n : InArchive(n)' = InArchive(n)
  BY <1>1 DEF InArchive
<1>5. PathsInOrder'
  BY <1>0, <1>1, <1>2, <1>4 DEF PathsInOrder, Wanting
<1>6. SentInOrder'
  BY <1>0, <1>1 DEF SentInOrder
<1>7. CASE packing' = "refused"
  BY <1>0, <1>1, <1>2, <1>3, <1>5, <1>6, <1>7, ArchiveStays DEF SnapshotInv, SenderInOrder
<1>8. CASE packing' = "opened"
  <2>1. PICK n : n = NextSource
    OBVIOUS
  <2>2. n \in paths /\ n \in Names
    BY <1>0, <1>1, <2>1, NextSourceIsPath DEF PathsInOrder
  <2>3. Acceptable(n) /\ open' = [name |-> n, length |-> checkout[n].length, half |-> checkout[n].head]
    BY <1>8, <2>1 DEF OpenSource
  <2>4. open'.name = n /\ open'.half = checkout[n].head
    BY <2>3
  <2>5. Belongs(n) /\ checkout[n].head \in Halves(n)
    BY <1>0, <1>1, <2>2, <2>3, FileOnDisk DEF Acceptable, Belongs, PathsInOrder
  <2>6. FoldsTo(n) \notin Folded /\ Len(archived) < SourceLimit /\ Folded' = Folded
    BY <1>1, <2>3 DEF Acceptable, Folded
  <2>7. ArchiveInOrder'
    BY <1>0, <1>1, <1>2, <2>2, <2>4, <2>5, <2>6 DEF ArchiveInOrder
  <2> QED
    BY <1>2, <1>3, <1>5, <1>6, <2>7 DEF SnapshotInv, SenderInOrder
<1> QED
  BY <1>1, <1>7, <1>8

\* What was opened is read, or the archive is refused.
LEMMA ReadSourceKeeps ==
  ASSUME SnapshotInv, ReadSource
  PROVE  SnapshotInv'
<1>0. CheckoutInOrder /\ PathsInOrder /\ ArchiveInOrder /\ SentInOrder
  BY DEF SnapshotInv, SenderInOrder
<1>1. /\ packing = "opened" /\ packing' \in {"walked", "refused"} /\ paths' = paths \ {open.name}
      /\ UNCHANGED <<repository, oddity, sent, checkout, receiverVars, edited, lineFaults>>
  BY DEF ReadSource
<1>2. CheckoutInOrder' /\ \A n : (KindOf(n)' = KindOf(n) /\ Belongs(n)' = Belongs(n) /\ Halves(n)' = Halves(n))
  BY <1>0, <1>1, CheckoutStays
<1>6. SentInOrder'
  BY <1>0, <1>1 DEF SentInOrder
<1>7. CASE packing' = "refused"
  <2>1. UNCHANGED archived
    BY <1>7 DEF ReadSource
  <2>2. PathsInOrder'
    BY <1>0, <1>1, <1>7 DEF PathsInOrder
  <2>3. NodesInOrder' /\ LockInOrder'
    BY <1>1, <1>0, <2>1, ReceiversWait DEF ArchiveInOrder
  <2> QED
    BY <1>0, <1>2, <1>6, <1>7, <2>1, <2>2, <2>3, ArchiveStays DEF SnapshotInv, SenderInOrder
<1>8. CASE packing' = "walked"
  <2>1. PICK e : e = Entry(checkout[open.name].tail)
    OBVIOUS
  <2>2. archived' = Append(archived, e)
    BY <1>8, <2>1 DEF ReadSource
  <2>3. /\ open.name \in Names /\ open.name \in paths /\ Belongs(open.name) /\ open.half \in Halves(open.name)
        /\ checkout[open.name].tail \in Halves(open.name)
        /\ FoldsTo(open.name) \notin Folded /\ Len(archived) < SourceLimit
    BY <1>0, <1>1, FileOnDisk DEF ArchiveInOrder, PathsInOrder
  <2>4. e.name = open.name /\ e.head = open.half /\ e.tail = checkout[open.name].tail
    BY <2>1 DEF Entry
  <2>5. open.name \in STRING /\ open.half \in Nat /\ checkout[open.name].tail \in Nat
    BY <2>3, SnapshotAssumption DEF Names, Halves
  <2>6. e \in Entries
    BY <2>1, <2>5 DEF Entries, Entry
  <2>7. /\ archived' \in Seq(Entries) /\ Len(archived') = Len(archived) + 1
        /\ DOMAIN archived' = 1..(Len(archived) + 1) /\ DOMAIN archived = 1..Len(archived)
        /\ archived'[Len(archived) + 1] = e
        /\ \A i \in 1..Len(archived) : archived'[i] = archived[i]
        /\ Len(archived) \in Nat
    BY <1>0, <2>2, <2>6 DEF ArchiveInOrder
  <2>8. \A n : InArchive(n)' <=> InArchive(n) \/ n = open.name
    BY <2>4, <2>7 DEF InArchive
  <2>9. PathsInOrder'
    BY <1>0, <1>1, <1>2, <1>8, <2>8 DEF PathsInOrder, Wanting
  <2>10. \A i \in DOMAIN archived : FoldsTo(archived[i].name) # FoldsTo(open.name)
    BY <2>3 DEF Folded
  <2>11. ASSUME NEW i \in DOMAIN archived'
         PROVE  (/\ Belongs(archived[i].name)
                 /\ archived[i].head \in Halves(archived[i].name) /\ archived[i].tail \in Halves(archived[i].name))'
    <3>1. CASE i = Len(archived) + 1
      BY <1>2, <2>3, <2>4, <2>7, <3>1
    <3>2. CASE i \in DOMAIN archived
      BY <1>0, <1>2, <2>7, <3>2 DEF ArchiveInOrder
    <3> QED
      BY <2>7, <3>1, <3>2
  <2>12. ASSUME NEW i \in DOMAIN archived', NEW k \in DOMAIN archived',
                FoldsTo(archived'[i].name) = FoldsTo(archived'[k].name)
         PROVE  i = k
    <3>1. CASE i \in DOMAIN archived /\ k \in DOMAIN archived
      BY <1>0, <2>7, <2>12, <3>1 DEF ArchiveInOrder
    <3>2. CASE i = Len(archived) + 1 /\ k \in DOMAIN archived
      BY <2>4, <2>7, <2>10, <2>12, <3>2
    <3>3. CASE i \in DOMAIN archived /\ k = Len(archived) + 1
      BY <2>4, <2>7, <2>10, <2>12, <3>3
    <3>4. CASE i = Len(archived) + 1 /\ k = Len(archived) + 1
      BY <3>4
    <3> QED
      BY <2>7, <3>1, <3>2, <3>3, <3>4
  <2>13. ArchiveInOrder'
    <3>1. Len(archived') <= SourceLimit
      BY <2>3, <2>7, SnapshotAssumption
    <3> QED
      BY <1>8, <2>7, <2>11, <2>12, <3>1 DEF ArchiveInOrder
  <2>14. NodesInOrder' /\ LockInOrder'
    BY <1>1, <2>7, ReceiversWait
  <2> QED
    BY <1>2, <1>6, <2>9, <2>13, <2>14 DEF SnapshotInv, SenderInOrder
<1> QED
  BY <1>1, <1>7, <1>8

\* The archive is sent.
LEMMA FinishArchiveKeeps ==
  ASSUME SnapshotInv, FinishArchive
  PROVE  SnapshotInv'
<1>0. CheckoutInOrder /\ PathsInOrder /\ ArchiveInOrder /\ SentInOrder
  BY DEF SnapshotInv, SenderInOrder
<1>1. /\ packing = "walked" /\ packing' = "sent" /\ paths = {}
      /\ sent' = [bytes |-> archived, digest |-> archived]
      /\ UNCHANGED <<repository, oddity, paths, open, archived, checkout, receiverVars, edited, lineFaults>>
  BY DEF FinishArchive
<1>2. CheckoutInOrder' /\ \A n : (KindOf(n)' = KindOf(n) /\ Belongs(n)' = Belongs(n) /\ Halves(n)' = Halves(n))
  BY <1>0, <1>1, CheckoutStays
<1>3. ArchiveInOrder' /\ \A n : InArchive(n)' = InArchive(n)
  BY <1>0, <1>1, <1>2, ArchiveStays
<1>4. NodesInOrder' /\ LockInOrder'
  BY <1>1, <1>0, ReceiversWait DEF ArchiveInOrder
<1>5. PathsInOrder'
  BY <1>0, <1>1, <1>2, <1>3 DEF PathsInOrder, Wanting
<1>6. SentInOrder'
  BY <1>1 DEF SentInOrder
<1> QED
  BY <1>2, <1>3, <1>4, <1>5, <1>6 DEF SnapshotInv, SenderInOrder

\* Somebody touches a file while the sender works.
LEMMA TouchFileKeeps ==
  ASSUME SnapshotInv, NEW n \in Names, TouchFile(n)
  PROVE  SnapshotInv'
<1>0. CheckoutInOrder /\ PathsInOrder /\ ArchiveInOrder /\ SentInOrder
  BY DEF SnapshotInv, SenderInOrder
<1>1. /\ packing \notin {"sent", "refused"} /\ n \notin edited /\ edited' = edited \cup {n} /\ checkout[n].kind = "file"
      /\ UNCHANGED <<repository, oddity, packing, paths, open, archived, sent, receiverVars, lineFaults>>
  BY DEF TouchFile, senderVars
<1>2. checkout[n] \in OnDisk /\ KindOf(n) = "file" /\ checkout \in [Names -> OnDisk]
  BY <1>0, <1>1, FileOnDisk DEF CheckoutInOrder
<1>3. PICK x \in OnDisk : checkout' = [checkout EXCEPT ![n] = x] /\ x.kind \in {"file", "link"}
  <2>1. ASSUME NEW d \in OnDisk, d.kind = "file", NEW f
        PROVE  /\ [d EXCEPT !.head = 1, !.tail = 1] \in OnDisk /\ [d EXCEPT !.head = 1, !.tail = 1].kind = "file"
               /\ [d EXCEPT !.length = 3] \in OnDisk /\ [d EXCEPT !.length = 3].kind = "file"
               /\ [d EXCEPT !.kind = "link"] \in OnDisk /\ [d EXCEPT !.kind = "link"].kind = "link"
               /\ (f \in BOOLEAN => [d EXCEPT !.there = f] \in OnDisk) /\ [d EXCEPT !.there = f].kind = "file"
    BY <2>1 DEF OnDisk
  <2>2. \/ checkout' = [checkout EXCEPT ![n] = [checkout[n] EXCEPT !.head = 1, !.tail = 1]]
        \/ checkout' = [checkout EXCEPT ![n] = [checkout[n] EXCEPT !.length = 3]]
        \/ checkout' = [checkout EXCEPT ![n] = [checkout[n] EXCEPT !.there = FALSE]]
        \/ checkout' = [checkout EXCEPT ![n] = [checkout[n] EXCEPT !.kind = "link"]]
    BY DEF TouchFile
  <2>3. FALSE \in BOOLEAN
    OBVIOUS
  <2>4. [checkout[n] EXCEPT !.there = FALSE] \in OnDisk /\ [checkout[n] EXCEPT !.there = FALSE].kind = "file"
    BY <1>1, <1>2, <2>1, <2>3, Zenon
  <2> QED
    BY ZenonT(60), <1>1, <1>2, <2>1, <2>2, <2>4
<1>4. \A m : KindOf(m)' = KindOf(m)
  BY <1>1 DEF KindOf
<1>5. \A m : Fresh(m)' = Fresh(m) /\ Belongs(m)' = Belongs(m)
  BY <1>4 DEF Fresh, Belongs
<1>6. CheckoutInOrder'
  <2>1. checkout' \in [Names -> OnDisk] /\ checkout'[n] = x /\ \A m \in Names : m # n => checkout'[m] = checkout[m]
    BY <1>2, <1>3
  <2> QED
    BY <1>0, <1>1, <1>2, <1>3, <1>4, <1>5, <2>1 DEF CheckoutInOrder
<1>7. \A m : Halves(m) \subseteq Halves(m)' /\ InArchive(m)' = InArchive(m)
  BY <1>1 DEF Halves, InArchive
<1>8. ArchiveInOrder'
  <2>1. Folded' = Folded
    BY <1>1 DEF Folded
  <2> QED
    BY <1>0, <1>1, <1>5, <1>7, <2>1 DEF ArchiveInOrder
<1>9. PathsInOrder'
  BY <1>0, <1>1, <1>5, <1>7 DEF PathsInOrder, Wanting
<1>10. SentInOrder'
  BY <1>0, <1>1 DEF SentInOrder
<1>11. NodesInOrder' /\ LockInOrder'
  BY <1>1, <1>0, ReceiversWait DEF ArchiveInOrder
<1> QED
  BY <1>6, <1>8, <1>9, <1>10, <1>11 DEF SnapshotInv, SenderInOrder

-----------------------------------------------------------------------------
\* A node moves: the sender and the other nodes stay as they are, and the line has
\* failed no less often than before.
LEMMA NodeMoves ==
  ASSUME SnapshotInv, NEW c \in Nodes, UNCHANGED <<senderVars, checkout, edited>>,
         lineFaults' \in Nat, lineFaults <= lineFaults',
         line' \in [Nodes -> Seq(Entries)], unpacked' \in [Nodes -> Seq(Entries)],
         receiver' \in [Nodes -> {"idle", "receiving", "whole", "received", "refusing", "refused", "staged", "dead"}],
         \A d \in Nodes : d # c => /\ line'[d] = line[d] /\ receiver'[d] = receiver[d]
                                   /\ unpacked'[d] = unpacked[d],
         Incoming(receiver[c], line[c], unpacked[c])',
         LockInOrder'
  PROVE  SnapshotInv'
<1>0. CheckoutInOrder /\ PathsInOrder /\ ArchiveInOrder /\ SentInOrder
  BY DEF SnapshotInv, SenderInOrder
<1>1. UNCHANGED <<repository, oddity, packing, paths, open, archived, sent, checkout, edited>>
  BY DEF senderVars
<1>2. CheckoutInOrder' /\ \A n : (KindOf(n)' = KindOf(n) /\ Belongs(n)' = Belongs(n) /\ Halves(n)' = Halves(n))
  BY <1>0, <1>1, CheckoutStays
<1>3. (\A n : InArchive(n)' = InArchive(n)) /\ Folded' = Folded
  BY <1>1 DEF InArchive, Folded
<1>4. PathsInOrder' /\ ArchiveInOrder' /\ SentInOrder'
  BY <1>0, <1>1, <1>2, <1>3 DEF PathsInOrder, Wanting, ArchiveInOrder, SentInOrder
<1>5. ASSUME NEW d \in Nodes PROVE Incoming(receiver[d], line[d], unpacked[d])'
  <2>1. CASE d # c
    <3>1. Incoming(receiver[d], line[d], unpacked[d]) /\ lineFaults \in Nat
      BY DEF SnapshotInv, NodesInOrder
    <3>2. (lineFaults' = 0 => lineFaults = 0) /\ (lineFaults > 0 => lineFaults' > 0)
      BY <3>1
    <3>3. line'[d] = line[d] /\ receiver'[d] = receiver[d] /\ unpacked'[d] = unpacked[d]
      BY <2>1
    <3> QED
      BY <1>1, <3>1, <3>2, <3>3 DEF Incoming
  <2> QED
    BY <2>1
<1>6. NodesInOrder'
  BY <1>5 DEF NodesInOrder
<1> QED
  BY <1>2, <1>4, <1>6 DEF SnapshotInv, SenderInOrder

\* What a node that takes part knows.
LEMMA NodeFacts ==
  ASSUME SnapshotInv, NEW c \in Nodes
  PROVE  /\ Incoming(receiver[c], line[c], unpacked[c]) /\ lineFaults \in Nat
         /\ line \in [Nodes -> Seq(Entries)] /\ unpacked \in [Nodes -> Seq(Entries)]
         /\ line[c] \in Seq(Entries) /\ unpacked[c] \in Seq(Entries)
         /\ receiver \in [Nodes -> {"idle", "receiving", "whole", "received", "refusing", "refused", "staged", "dead"}]
         /\ archived \in Seq(Entries) /\ Len(archived) \in Nat /\ Len(line[c]) \in Nat /\ Len(unpacked[c]) \in Nat
         /\ (packing = "sent" => sent.bytes = archived /\ sent.digest = archived)
         /\ LockInOrder
<1>1. /\ line \in [Nodes -> Seq(Entries)] /\ unpacked \in [Nodes -> Seq(Entries)] /\ archived \in Seq(Entries)
      /\ Incoming(receiver[c], line[c], unpacked[c]) /\ lineFaults \in Nat /\ LockInOrder
      /\ receiver \in [Nodes -> {"idle", "receiving", "whole", "received", "refusing", "refused", "staged", "dead"}]
  BY DEF SnapshotInv, NodesInOrder, SenderInOrder, ArchiveInOrder
<1>2. packing = "sent" => sent.bytes = archived /\ sent.digest = archived
  BY DEF SnapshotInv, SenderInOrder, SentInOrder
<1> QED
  BY <1>1, <1>2

\* A call begins to receive: it clears what dead calls left.
LEMMA BeginReceiveKeeps ==
  ASSUME SnapshotInv, NEW c \in Nodes, BeginReceive(c)
  PROVE  SnapshotInv'
<1>0. /\ receiver[c] = "idle" /\ incomingLock = NoNode /\ sent # Unsent
      /\ incomingLock' = c /\ incoming' = {c}
      /\ receiver' = [receiver EXCEPT ![c] = "receiving"]
      /\ UNCHANGED <<senderVars, checkout, line, unpacked, edited, lineFaults>>
  BY DEF BeginReceive, CleanupOrphans
<1>1. packing = "sent" /\ packing' = "sent" /\ archived' = archived
  BY <1>0 DEF SnapshotInv, SenderInOrder, SentInOrder, senderVars
<1>2. receiver'[c] = "receiving" /\ \A d \in Nodes : d # c => receiver'[d] = receiver[d]
  BY <1>0, NodeFacts
<1>3. Incoming(receiver[c], line[c], unpacked[c])'
  BY <1>0, <1>1, <1>2, NodeFacts DEF Incoming
<1>4. LockInOrder'
  <2>1. ASSUME NEW d \in Nodes, d # c PROVE receiver[d] \notin {"receiving", "whole", "received", "refusing"}
    BY <1>0, NodeFacts, SnapshotAssumption DEF LockInOrder
  <2> QED
    BY <1>0, <1>2, <2>1 DEF LockInOrder
<1>5. receiver' \in [Nodes -> {"idle", "receiving", "whole", "received", "refusing", "refused", "staged", "dead"}]
  BY <1>0, NodeFacts
<1>6. /\ line' \in [Nodes -> Seq(Entries)] /\ unpacked' \in [Nodes -> Seq(Entries)]
      /\ lineFaults' \in Nat /\ lineFaults <= lineFaults'
      /\ \A d \in Nodes : d # c => line'[d] = line[d] /\ unpacked'[d] = unpacked[d]
  BY <1>0, NodeFacts
<1> QED
  BY <1>0, <1>1, <1>2, <1>3, <1>4, <1>5, <1>6, NodeMoves

\* The lock stays with a node that only goes on.
LEMMA LockStays ==
  ASSUME SnapshotInv, NEW c \in Nodes, receiver[c] \in {"receiving", "whole", "received", "refusing"},
         UNCHANGED <<incoming, incomingLock>>,
         \A d \in Nodes : d # c => receiver'[d] = receiver[d]
  PROVE  LockInOrder'
  BY DEF SnapshotInv, LockInOrder

\* A name with two numbers is an entry.
LEMMA EntryTyped ==
  ASSUME NEW s \in STRING \cup {"none"}, NEW i \in Nat, NEW j \in Nat
  PROVE  [name |-> s, head |-> i, tail |-> j] \in Entries
  BY DEF Entries

\* What stands for damage is an entry.
LEMMA WrongEntry == [name |-> "none", head |-> 9, tail |-> 9] \in Entries
<1>1. 9 \in Nat
  OBVIOUS
<1>2. "none" \in STRING \cup {"none"}
  OBVIOUS
<1> QED
  BY <1>1, <1>2, EntryTyped

\* A part comes in, perhaps a wrong one, or the line ends.
LEMMA TakeKeeps ==
  ASSUME SnapshotInv, NEW c \in Nodes, Take(c)
  PROVE  SnapshotInv'
<1>0. /\ receiver[c] = "receiving" /\ Len(line[c]) < Len(sent.bytes)
      /\ UNCHANGED <<senderVars, checkout, incoming, incomingLock, unpacked, edited>>
  BY DEF Take
<1>1. packing = "sent" /\ sent.bytes = archived /\ packing' = "sent" /\ archived' = archived
  BY <1>0, NodeFacts DEF Incoming, senderVars
<1>2. Len(line[c]) + 1 \in 1..Len(archived) /\ 1 \in 1..Len(archived)
  BY <1>0, <1>1, NodeFacts
<1>3. ASSUME NEW e \in Entries, line' = [line EXCEPT ![c] = Append(@, e)], UNCHANGED receiver,
             lineFaults' \in Nat, lineFaults <= lineFaults',
             lineFaults' = 0 => e = archived[Len(line[c]) + 1]
      PROVE  SnapshotInv'
  <2>1. /\ line' \in [Nodes -> Seq(Entries)] /\ line'[c] = Append(line[c], e)
        /\ \A d \in Nodes : d # c => line'[d] = line[d]
    BY <1>3, NodeFacts
  <2>2. /\ Len(line'[c]) = Len(line[c]) + 1 /\ line'[c][Len(line[c]) + 1] = e
        /\ \A i \in 1..Len(line[c]) : line'[c][i] = line[c][i]
    BY <2>1, NodeFacts
  <2>3. lineFaults' = 0 => lineFaults = 0
    BY <1>3, NodeFacts
  <2>4. lineFaults' = 0 => Len(line'[c]) <= Len(archived) /\ \A i \in 1..Len(line'[c]) : line'[c][i] = archived[i]
    BY <1>2, <1>3, <2>2, <2>3, NodeFacts DEF Incoming
  <2>5. Incoming(receiver[c], line[c], unpacked[c])'
    BY <1>0, <1>1, <1>3, <2>4, NodeFacts DEF Incoming
  <2>6. LockInOrder'
    BY <1>0, <1>3, LockStays
  <2> QED
    BY <1>0, <1>3, <2>1, <2>5, <2>6, NodeFacts, NodeMoves
<1>4. CASE line' = [line EXCEPT ![c] = Append(@, sent.bytes[Len(@) + 1])] /\ UNCHANGED <<receiver, lineFaults>>
  <2>1. archived[Len(line[c]) + 1] \in Entries
    BY <1>2, NodeFacts
  <2>2. lineFaults' \in Nat /\ lineFaults <= lineFaults' /\ UNCHANGED receiver
    BY <1>4, NodeFacts
  <2>3. line' = [line EXCEPT ![c] = Append(@, archived[Len(line[c]) + 1])]
    BY <1>1, <1>4
  <2> QED
    BY <1>3, <2>1, <2>2, <2>3
<1>5. ASSUME lineFaults' = lineFaults + 1,
             NEW wrong \in {[name |-> "none", head |-> 9, tail |-> 9], sent.bytes[1]},
             line' = [line EXCEPT ![c] = Append(@, wrong)], UNCHANGED receiver
      PROVE  SnapshotInv'
  <2>0. [name |-> "none", head |-> 9, tail |-> 9] \in Entries
    BY WrongEntry
  <2>1. archived[1] \in Entries
    BY <1>2, NodeFacts
  <2>2. wrong \in Entries
    BY <1>1, <1>5, <2>0, <2>1
  <2>3. lineFaults' \in Nat /\ lineFaults <= lineFaults' /\ lineFaults' # 0
    BY <1>5, NodeFacts
  <2> QED
    BY <1>3, <1>5, <2>2, <2>3
<1>6. CASE /\ lineFaults' = lineFaults + 1 /\ UNCHANGED line
           /\ receiver' = [receiver EXCEPT ![c] = "refusing"]
  <2>1. lineFaults' \in Nat /\ lineFaults <= lineFaults' /\ lineFaults' > 0 /\ lineFaults' # 0
    BY <1>6, NodeFacts
  <2>2. receiver'[c] = "refusing" /\ \A d \in Nodes : d # c => receiver'[d] = receiver[d]
    BY <1>6, NodeFacts
  <2>3. Incoming(receiver[c], line[c], unpacked[c])'
    BY <1>0, <1>1, <1>6, <2>1, <2>2 DEF Incoming
  <2>4. LockInOrder'
    BY <1>0, <2>2, LockStays
  <2>5. receiver' \in [Nodes -> {"idle", "receiving", "whole", "received", "refusing", "refused", "staged", "dead"}]
    BY <1>6, NodeFacts
  <2> QED
    BY <1>0, <1>6, <2>1, <2>2, <2>3, <2>4, <2>5, NodeFacts, NodeMoves
<1> QED
  BY <1>4, <1>5, <1>6 DEF Take

\* The digest is compared.
LEMMA CheckDigestKeeps ==
  ASSUME SnapshotInv, NEW c \in Nodes, CheckDigest(c)
  PROVE  SnapshotInv'
<1>0. /\ receiver[c] = "receiving" /\ Len(line[c]) = Len(sent.bytes)
      /\ receiver' = [receiver EXCEPT ![c] = IF line[c] = sent.digest THEN "whole" ELSE "refusing"]
      /\ UNCHANGED <<senderVars, checkout, line, incoming, incomingLock, unpacked, edited, lineFaults>>
  BY DEF CheckDigest
<1>1. packing = "sent" /\ sent.bytes = archived /\ sent.digest = archived /\ packing' = "sent" /\ archived' = archived
  BY <1>0, NodeFacts DEF Incoming, senderVars
<1>2. receiver'[c] = (IF line[c] = archived THEN "whole" ELSE "refusing") /\ \A d \in Nodes : d # c => receiver'[d] = receiver[d]
  BY <1>0, <1>1, NodeFacts
<1>3. lineFaults = 0 => line[c] = archived
  <2> SUFFICES ASSUME lineFaults = 0 PROVE line[c] = archived
    OBVIOUS
  <2>1. \A i \in 1..Len(line[c]) : line[c][i] = archived[i]
    BY NodeFacts DEF Incoming
  <2> QED
    BY <1>0, <1>1, <2>1, NodeFacts, SameSequence
<1>4. lineFaults \in Nat
  BY NodeFacts
<1>5. Incoming(receiver[c], line[c], unpacked[c])'
  BY <1>0, <1>1, <1>2, <1>3, <1>4, NodeFacts DEF Incoming
<1>6. LockInOrder'
  BY <1>0, <1>2, LockStays
<1>7. receiver' \in [Nodes -> {"idle", "receiving", "whole", "received", "refusing", "refused", "staged", "dead"}]
  BY <1>0, NodeFacts
<1>8. /\ line' \in [Nodes -> Seq(Entries)] /\ unpacked' \in [Nodes -> Seq(Entries)]
      /\ lineFaults' \in Nat /\ lineFaults <= lineFaults'
      /\ \A d \in Nodes : d # c => line'[d] = line[d] /\ unpacked'[d] = unpacked[d]
  BY <1>0, <1>4, NodeFacts
<1> QED
  BY <1>0, <1>1, <1>2, <1>5, <1>6, <1>7, <1>8, NodeMoves

\* Nothing may follow.
LEMMA RequireEndKeeps ==
  ASSUME SnapshotInv, NEW c \in Nodes, RequireEnd(c)
  PROVE  SnapshotInv'
<1>0. /\ receiver[c] = "whole"
      /\ UNCHANGED <<senderVars, checkout, line, incoming, incomingLock, unpacked, edited>>
  BY DEF RequireEnd
<1>1. packing = "sent" /\ packing' = "sent" /\ archived' = archived /\ line[c] = archived /\ unpacked[c] = <<>>
  BY <1>0, NodeFacts DEF Incoming, senderVars
<1>2. PICK to \in {"received", "refusing"} :
        /\ receiver' = [receiver EXCEPT ![c] = to]
        /\ lineFaults' \in Nat /\ lineFaults <= lineFaults' /\ (to = "refusing" => lineFaults' > 0)
        /\ (lineFaults' = 0 => lineFaults = 0)
  BY NodeFacts DEF RequireEnd
<1>3. receiver'[c] = to /\ \A d \in Nodes : d # c => receiver'[d] = receiver[d]
  BY <1>2, NodeFacts
<1>4. Len(<<>>) = 0
  OBVIOUS
<1>5. Incoming(receiver[c], line[c], unpacked[c])'
  BY <1>0, <1>1, <1>2, <1>3, <1>4, NodeFacts DEF Incoming
<1>6. LockInOrder'
  BY <1>0, <1>3, LockStays
<1>7. receiver' \in [Nodes -> {"idle", "receiving", "whole", "received", "refusing", "refused", "staged", "dead"}]
  BY <1>2, NodeFacts
<1> QED
  BY <1>0, <1>2, <1>3, <1>5, <1>6, <1>7, NodeFacts, NodeMoves

\* One more entry is unpacked: what one side archived is within the limits of the other.
LEMMA UnpackKeeps ==
  ASSUME SnapshotInv, NEW c \in Nodes, Unpack(c)
  PROVE  SnapshotInv'
<1>0. /\ receiver[c] = "received" /\ Len(unpacked[c]) < Len(line[c])
      /\ UNCHANGED <<senderVars, checkout, line, incoming, incomingLock, edited, lineFaults>>
  BY DEF Unpack
<1>1. /\ packing = "sent" /\ packing' = "sent" /\ archived' = archived /\ line[c] = archived
      /\ \A i \in 1..Len(unpacked[c]) : unpacked[c][i] = archived[i]
  BY <1>0, NodeFacts DEF Incoming, senderVars
<1>2. PICK k : k = Len(unpacked[c]) + 1
  OBVIOUS
<1>3. k \in 1..Len(archived) /\ ExtractNext(c) = archived[k] /\ archived[k] \in Entries
  BY <1>0, <1>1, <1>2, NodeFacts DEF ExtractNext
<1>4. /\ Len(archived) <= SourceLimit
      /\ \A i, j \in 1..Len(archived) : FoldsTo(archived[i].name) = FoldsTo(archived[j].name) => i = j
  BY NodeFacts DEF SnapshotInv, SenderInOrder, ArchiveInOrder
<1>5. c \in incoming
  BY <1>0, NodeFacts DEF LockInOrder
<1>6. Len(unpacked[c]) < SourceLimit
  BY <1>0, <1>1, <1>4, NodeFacts, SnapshotAssumption
<1>7. \A i \in DOMAIN unpacked[c] : FoldsTo(unpacked[c][i].name) # FoldsTo(ExtractNext(c).name)
  <2> SUFFICES ASSUME NEW i \in DOMAIN unpacked[c], FoldsTo(unpacked[c][i].name) = FoldsTo(archived[k].name) PROVE FALSE
    BY <1>3
  <2>1. i \in 1..Len(unpacked[c]) /\ i \in 1..Len(archived) /\ i # k
    BY <1>0, <1>1, <1>2, NodeFacts
  <2> QED
    BY <1>1, <1>3, <1>4, <2>1
<1>8. unpacked' = [unpacked EXCEPT ![c] = Append(unpacked[c], archived[k])] /\ UNCHANGED receiver
  BY <1>3, <1>5, <1>6, <1>7 DEF Unpack
<1>9. /\ unpacked' \in [Nodes -> Seq(Entries)] /\ unpacked'[c] = Append(unpacked[c], archived[k])
      /\ \A d \in Nodes : d # c => unpacked'[d] = unpacked[d]
  BY <1>3, <1>8, NodeFacts
<1>10. /\ Len(unpacked'[c]) = k /\ unpacked'[c][k] = archived[k]
       /\ \A i \in 1..Len(unpacked[c]) : unpacked'[c][i] = unpacked[c][i]
  BY <1>2, <1>3, <1>9, NodeFacts
<1>11. Len(unpacked'[c]) <= Len(archived) /\ \A i \in 1..Len(unpacked'[c]) : unpacked'[c][i] = archived[i]
  BY <1>1, <1>2, <1>3, <1>10, NodeFacts
<1>12. Incoming(receiver[c], line[c], unpacked[c])'
  BY <1>0, <1>1, <1>8, <1>11, NodeFacts DEF Incoming
<1>13. LockInOrder'
  BY <1>0, <1>8, LockStays
<1>14. lineFaults' \in Nat /\ lineFaults <= lineFaults'
  BY <1>0, NodeFacts
<1> QED
  BY <1>0, <1>8, <1>9, <1>12, <1>13, <1>14, NodeFacts, NodeMoves

\* A call ends: its file goes, then the lock.
LEMMA DropArchiveKeeps ==
  ASSUME SnapshotInv, NEW c \in Nodes, DropArchive(c)
  PROVE  SnapshotInv'
<1>0. /\ receiver[c] = "refusing" \/ (receiver[c] = "received" /\ Len(unpacked[c]) = Len(line[c]))
      /\ receiver' = [receiver EXCEPT ![c] = IF receiver[c] = "refusing" THEN "refused" ELSE "staged"]
      /\ incoming' = incoming \ {c} /\ incomingLock' = NoNode
      /\ UNCHANGED <<senderVars, checkout, line, unpacked, edited, lineFaults>>
  BY DEF DropArchive
<1>1. packing = "sent" /\ packing' = "sent" /\ archived' = archived
  BY <1>0, NodeFacts DEF Incoming, senderVars
<1>2. /\ receiver'[c] = (IF receiver[c] = "refusing" THEN "refused" ELSE "staged")
      /\ \A d \in Nodes : d # c => receiver'[d] = receiver[d]
  BY <1>0, NodeFacts
<1>3. receiver[c] = "received" => unpacked[c] = archived /\ line[c] = archived
  <2> SUFFICES ASSUME receiver[c] = "received" PROVE unpacked[c] = archived /\ line[c] = archived
    OBVIOUS
  <2>1. line[c] = archived /\ Len(unpacked[c]) = Len(archived) /\ \A i \in 1..Len(unpacked[c]) : unpacked[c][i] = archived[i]
    BY <1>0, NodeFacts DEF Incoming
  <2> QED
    BY <2>1, NodeFacts, SameSequence
<1>4. Incoming(receiver[c], line[c], unpacked[c])'
  <2>1. CASE receiver[c] = "refusing"
    BY <1>0, <1>1, <1>2, <2>1, NodeFacts DEF Incoming
  <2>2. CASE receiver[c] = "received"
    BY <1>0, <1>1, <1>2, <1>3, <2>2, NodeFacts DEF Incoming
  <2> QED
    BY <1>0, <2>1, <2>2
<1>5. LockInOrder'
  <2>1. incomingLock = c
    BY <1>0, NodeFacts DEF LockInOrder
  <2>2. ASSUME NEW d \in Nodes, d # c PROVE receiver[d] \notin {"receiving", "whole", "received", "refusing"}
    BY <2>1, <2>2, NodeFacts DEF LockInOrder
  <2>3. incoming' \subseteq Nodes /\ \A a, b \in incoming' : a = b
    BY <1>0, NodeFacts DEF LockInOrder
  <2> QED
    BY <1>2, <2>2, <2>3 DEF LockInOrder
<1>6. receiver' \in [Nodes -> {"idle", "receiving", "whole", "received", "refusing", "refused", "staged", "dead"}]
  BY <1>0, NodeFacts
<1>7. lineFaults' \in Nat /\ lineFaults <= lineFaults'
  BY <1>0, NodeFacts
<1> QED
  BY <1>0, <1>2, <1>4, <1>5, <1>6, <1>7, NodeFacts, NodeMoves

\* A call dies: its lock is free, its file stays.
LEMMA KillNodeKeeps ==
  ASSUME SnapshotInv, NEW c \in Nodes, KillNode(c)
  PROVE  SnapshotInv'
<1>0. /\ lineFaults' = lineFaults + 1
      /\ receiver[c] \in {"receiving", "whole", "received", "refusing"}
      /\ receiver' = [receiver EXCEPT ![c] = "dead"] /\ incomingLock' = NoNode
      /\ UNCHANGED <<senderVars, checkout, line, incoming, unpacked, edited>>
  BY DEF KillNode
<1>1. packing = "sent" /\ packing' = "sent" /\ archived' = archived
  BY <1>0, NodeFacts DEF Incoming, senderVars
<1>2. receiver'[c] = "dead" /\ \A d \in Nodes : d # c => receiver'[d] = receiver[d]
  BY <1>0, NodeFacts
<1>3. lineFaults' \in Nat /\ lineFaults <= lineFaults' /\ lineFaults' # 0
  BY <1>0, NodeFacts
<1>4. Incoming(receiver[c], line[c], unpacked[c])'
  BY <1>0, <1>1, <1>2, <1>3 DEF Incoming
<1>5. LockInOrder'
  <2>1. incomingLock = c
    BY <1>0, NodeFacts DEF LockInOrder
  <2>2. ASSUME NEW d \in Nodes, d # c PROVE receiver[d] \notin {"receiving", "whole", "received", "refusing"}
    BY <2>1, <2>2, NodeFacts DEF LockInOrder
  <2> QED
    BY <1>0, <1>2, <2>2, NodeFacts DEF LockInOrder
<1>6. receiver' \in [Nodes -> {"idle", "receiving", "whole", "received", "refusing", "refused", "staged", "dead"}]
  BY <1>0, NodeFacts
<1> QED
  BY <1>0, <1>2, <1>3, <1>4, <1>5, <1>6, NodeFacts, NodeMoves

-----------------------------------------------------------------------------
\* Every step keeps it.
LEMMA SnapshotStep == SnapshotInv /\ [SnapshotNext]_snapshotVars => SnapshotInv'
<1> SUFFICES ASSUME SnapshotInv, [SnapshotNext]_snapshotVars PROVE SnapshotInv'
  OBVIOUS
<1>1. CASE UNCHANGED snapshotVars
  <2>1. /\ UNCHANGED <<repository, oddity, packing, paths, open, archived, sent, checkout, edited, lineFaults>>
        /\ UNCHANGED <<line, receiver, incoming, incomingLock, unpacked>>
    BY <1>1 DEF snapshotVars, senderVars, receiverVars
  <2>2. CheckoutInOrder' /\ \A n : (KindOf(n)' = KindOf(n) /\ Belongs(n)' = Belongs(n) /\ Halves(n)' = Halves(n))
    BY <2>1, CheckoutStays DEF SnapshotInv, SenderInOrder
  <2>3. (\A n : InArchive(n)' = InArchive(n)) /\ Folded' = Folded
    BY <2>1 DEF InArchive, Folded
  <2>4. PathsInOrder' /\ ArchiveInOrder' /\ SentInOrder'
    BY <2>1, <2>2, <2>3 DEF SnapshotInv, SenderInOrder, PathsInOrder, Wanting, ArchiveInOrder, SentInOrder
  <2>5. NodesInOrder' /\ LockInOrder'
    BY <2>1 DEF SnapshotInv, NodesInOrder, Incoming, LockInOrder
  <2> QED
    BY <2>2, <2>4, <2>5 DEF SnapshotInv, SenderInOrder
<1>2. CASE Tracked
  BY <1>2, TrackedKeeps
<1>3. CASE WalkTree
  BY <1>3, WalkTreeKeeps
<1>4. CASE OpenSource
  BY <1>4, OpenSourceKeeps
<1>5. CASE ReadSource
  BY <1>5, ReadSourceKeeps
<1>6. CASE FinishArchive
  BY <1>6, FinishArchiveKeeps
<1>7. ASSUME NEW n \in Names, TouchFile(n) PROVE SnapshotInv'
  BY <1>7, TouchFileKeeps
<1>8. ASSUME NEW c \in Nodes, \/ BeginReceive(c) \/ Take(c) \/ CheckDigest(c) \/ RequireEnd(c) \/ Unpack(c)
                              \/ DropArchive(c) \/ KillNode(c)
      PROVE  SnapshotInv'
  BY <1>8, BeginReceiveKeeps, TakeKeeps, CheckDigestKeeps, RequireEndKeeps, UnpackKeeps, DropArchiveKeeps, KillNodeKeeps
<1> QED
  BY <1>1, <1>2, <1>3, <1>4, <1>5, <1>6, <1>7, <1>8 DEF SnapshotNext

\* It is what was asked for.
LEMMA SnapshotHolds == SnapshotInv => SnapshotSound
<1> SUFFICES ASSUME SnapshotInv PROVE SnapshotSound
  OBVIOUS
<1>0. CheckoutInOrder /\ PathsInOrder /\ ArchiveInOrder /\ SentInOrder /\ LockInOrder /\ NodesInOrder
  BY DEF SnapshotInv, SenderInOrder
<1>1. ASSUME sent # Unsent
      PROVE  /\ repository # "broken"
             /\ \A n \in Names \ edited : Packed(n) <=> Belongs(n)
             /\ \A i \in DOMAIN sent.bytes :
                  /\ Belongs(sent.bytes[i].name)
                  /\ {sent.bytes[i].head, sent.bytes[i].tail} \subseteq Halves(sent.bytes[i].name)
             /\ \A i, k \in DOMAIN sent.bytes :
                  FoldsTo(sent.bytes[i].name) = FoldsTo(sent.bytes[k].name) => i = k
  <2>1. packing = "sent" /\ sent.bytes = archived
    BY <1>0, <1>1 DEF SentInOrder
  <2>2. \A n \in Names \ edited : Packed(n) <=> Belongs(n)
    BY <1>0, <2>1 DEF PathsInOrder, ArchiveInOrder, InArchive, Packed
  <2> QED
    BY <1>0, <2>1, <2>2 DEF PathsInOrder, ArchiveInOrder
<1>2. ASSUME NEW c \in Nodes
      PROVE  /\ receiver[c] = "staged" => unpacked[c] = sent.bytes
             /\ receiver[c] \in {"refusing", "refused"} => lineFaults > 0
             /\ receiver[c] \in {"receiving", "whole", "received"} => c \in incoming /\ incomingLock = c
  <2>1. Incoming(receiver[c], line[c], unpacked[c]) /\ (packing = "sent" => sent.bytes = archived)
    BY NodeFacts
  <2> QED
    BY <1>0, <2>1 DEF Incoming, LockInOrder
<1>3. Cardinality({c \in incoming : receiver[c] = "dead"}) <= 1
  <2> DEFINE D == {c \in incoming : receiver[c] = "dead"}
  <2>1. CASE D = {}
    BY <2>1, FS_EmptySet
  <2>2. CASE D # {}
    <3>1. PICK d : d \in D
      BY <2>2
    <3>2. D = {d}
      BY <1>0, <3>1 DEF LockInOrder
    <3>3. Cardinality({d}) = 1
      BY FS_Singleton
    <3> HIDE DEF D
    <3> QED
      BY <3>2, <3>3 DEF D
  <2> QED
    BY <2>1, <2>2
<1> QED
  BY <1>1, <1>2, <1>3 DEF SnapshotSound

\* A snapshot that is sent has every file that belongs to the source and that
\* nobody touched, nothing ignored and nothing of the repository itself; a
\* workspace that is staged elsewhere is that snapshot, whatever the line lost,
\* altered or repeated and whichever call died; an undisturbed one is never
\* refused; and what dead calls leave behind does not add up: for every tree,
\* every order of edits and any number of calls that receive (source.rs,
\* source_archive.rs, store.rs).
THEOREM SnapshotCorrect == SnapshotSpec => []SnapshotSound
<1>1. SnapshotInit => SnapshotInv
  BY SnapshotInitially
<1>2. SnapshotInv /\ [SnapshotNext]_snapshotVars => SnapshotInv'
  BY SnapshotStep
<1>3. SnapshotInv => SnapshotSound
  BY SnapshotHolds
<1> QED
  BY <1>1, <1>2, <1>3, PTL DEF SnapshotSpec

-----------------------------------------------------------------------------
(***************************************************************************)
(* A run of a tool is judged by all it did.                                *)
(***************************************************************************)

WatchPlaces == {"start", "claimed", "absent", "ready", "state", "output", "judge", "sleep",
                "reap", "reap refused", "read", "read bytes", "read after", "done"}
Glances == [state : {"none", "unknown", "running", "zero", "other"},
            output : {"none", "unknown", "within", "beyond"}]
Readings == [before : 0..Unread, got : 0..Unread]

WatchTypeOK ==
  /\ watch \in [Watchers -> WatchPlaces]
  /\ evidenceId \in [Watchers -> EvidenceIds \cup {NoId}]
  /\ claims \subseteq EvidenceIds /\ folders \subseteq EvidenceIds
  /\ tool \in [Watchers -> {"none", "running", "exited", "gone"}]
  /\ code \in [Watchers -> {"none", "zero", "other", "signal"}]
  /\ stray \in [Watchers -> BOOLEAN]
  /\ wrote \in [Watchers -> Lengths] /\ length \in [Watchers -> Lengths]
  /\ pauses \in [Watchers -> 0..TimeLimit]
  /\ glance \in [Watchers -> Glances]
  /\ told \in [Watchers -> {"nothing", "not started", "captured", "refused", "wait failed"}]
  /\ reading \in [Watchers -> Readings]
  /\ keptBytes \in [Watchers -> 0..Unread]

\* What a watcher knows of its tool at each place.
Watched(at, t, c, wr, ln, gl, tl, ps) ==
  /\ wr.out <= ln.out /\ wr.err <= ln.err
  /\ at \in {"start", "claimed", "absent", "ready"} => t = "none"
  /\ at \in {"state", "output", "judge", "sleep"} => t \in {"running", "exited"}
  /\ at \in {"state", "output", "judge", "sleep"} /\ t = "exited" => c \in {"zero", "other"}
  /\ at \in {"output", "judge"} /\ gl.state = "zero" => t = "exited" /\ c = "zero"
  /\ at = "judge" /\ gl.state = "zero" /\ gl.output = "within" => WithinOutput(wr)
  /\ at = "judge" => gl.output # "none"
  /\ at = "sleep" => ps < TimeLimit
  /\ at = "reap" => t = "exited" /\ c = "zero" /\ WithinOutput(wr)
  /\ at = "reap refused" => t \in {"running", "exited"}
  /\ at \in {"read", "read bytes", "read after"} => tl = "captured"
  /\ tl # "nothing" => at \in {"read", "read bytes", "read after", "done"}
  /\ at = "done" => tl # "nothing"
  /\ tl = "captured" => t = "gone" /\ c = "zero" /\ WithinOutput(wr)
  /\ tl = "refused" => t = "gone"
  /\ tl = "not started" => t = "none"

AllWatched ==
  \A w \in Watchers :
    Watched(watch[w], tool[w], code[w], wrote[w], length[w], glance[w], told[w], pauses[w])

\* What was admitted is whole.
Admitted ==
  \A w \in Watchers :
    keptBytes[w] # Unread => told[w] = "captured" /\ watch[w] = "done"
                             /\ keptBytes[w] >= wrote[w].out /\ keptBytes[w] <= OutLimit

\* Whoever did not give up has a claim of its own.
Claiming(w) == watch[w] # "start" /\ told[w] # "not started"
ClaimsApart ==
  /\ \A w \in Watchers : Claiming(w) => evidenceId[w] \in claims
  /\ \A v, w \in Watchers : Claiming(v) /\ Claiming(w) /\ evidenceId[v] = evidenceId[w] => v = w

ToolRunInv == WatchTypeOK /\ AllWatched /\ Admitted /\ ClaimsApart

\* Nothing has happened.
LEMMA ToolRunInitially == ToolRunInit => ToolRunInv
<1> SUFFICES ASSUME ToolRunInit PROVE ToolRunInv
  OBVIOUS
<1> USE DEF ToolRunInit, NoLook
<1>1. WatchTypeOK
  BY WatchAssumption DEF WatchTypeOK, WatchPlaces, Lengths, Glances, Readings, Unread
<1>2. AllWatched
  BY DEF AllWatched, Watched
<1>3. Admitted
  BY DEF Admitted
<1>4. ClaimsApart
  BY DEF ClaimsApart, Claiming
<1> QED
  BY <1>1, <1>2, <1>3, <1>4 DEF ToolRunInv

\* The values of one watcher.
NowWatched(w) == Watched(watch[w], tool[w], code[w], wrote[w], length[w], glance[w], told[w], pauses[w])
NowAdmitted(at, wr, tl, kb) ==
  kb # Unread => tl = "captured" /\ at = "done" /\ kb >= wr.out /\ kb <= OutLimit

\* The values of another watcher.
Untouched(v) ==
  /\ watch'[v] = watch[v] /\ tool'[v] = tool[v] /\ code'[v] = code[v] /\ wrote'[v] = wrote[v]
  /\ length'[v] = length[v] /\ glance'[v] = glance[v] /\ told'[v] = told[v] /\ pauses'[v] = pauses[v]
  /\ keptBytes'[v] = keptBytes[v]

\* One watcher and its tool move; the others are as they were.
LEMMA WatcherMoves ==
  ASSUME AllWatched, Admitted, NEW w \in Watchers,
         \A v \in Watchers : v # w => Untouched(v),
         NowWatched(w)', NowAdmitted(watch[w], wrote[w], told[w], keptBytes[w])'
  PROVE  AllWatched' /\ Admitted'
<1>1. ASSUME NEW v \in Watchers PROVE NowWatched(v)'
  BY DEF NowWatched, AllWatched, Untouched
<1>2. ASSUME NEW v \in Watchers PROVE NowAdmitted(watch[v], wrote[v], told[v], keptBytes[v])'
  BY DEF NowAdmitted, Admitted, Untouched
<1> QED
  BY <1>1, <1>2 DEF AllWatched, Admitted, NowWatched, NowAdmitted

\* Claims stay where nobody claims.
LEMMA ClaimsStay ==
  ASSUME ClaimsApart, UNCHANGED <<claims, evidenceId>>, \A v \in Watchers : Claiming(v)' => Claiming(v)
  PROVE  ClaimsApart'
  BY DEF ClaimsApart

\* Lengths are numbers, and so is what was read.
LEMMA LengthsAreNumbers ==
  ASSUME NEW l \in Lengths
  PROVE  l.out \in Nat /\ l.err \in Nat /\ l.out \in 0..Unread
<1>1. l.out \in 0..(OutLimit + 1) /\ l.err \in 0..(ErrLimit + 1)
  BY DEF Lengths
<1>2. ASSUME NEW n \in 0..(OutLimit + 1) PROVE n \in Nat /\ n \in 0..Unread
  BY WatchAssumption DEF Unread
<1>3. ASSUME NEW n \in 0..(ErrLimit + 1) PROVE n \in Nat
  BY WatchAssumption
<1> QED
  BY <1>1, <1>2, <1>3

\* What is within the bounds in the files is so in what the tool wrote.
LEMMA WritesWithin ==
  ASSUME WatchTypeOK, NEW w \in Watchers, NowWatched(w), WithinOutput(length[w])
  PROVE  WithinOutput(wrote[w])
<1>1. /\ wrote[w].out \in Nat /\ wrote[w].err \in Nat /\ length[w].out \in Nat /\ length[w].err \in Nat
  BY LengthsAreNumbers DEF WatchTypeOK
<1>2. wrote[w].out <= length[w].out /\ wrote[w].err <= length[w].err
  BY DEF NowWatched, Watched
<1>3. length[w].out <= OutLimit /\ length[w].err <= ErrLimit
  BY DEF WithinOutput
<1> QED
  BY <1>1, <1>2, <1>3, WatchAssumption DEF WithinOutput

\* The mark of nothing read is a number above the limit.
LEMMA UnreadIsNumber == Unread \in Nat /\ Unread \in 0..Unread /\ OutLimit + 1 \in 0..Unread /\ OutLimit < Unread
  BY WatchAssumption DEF Unread

\* A length that grows within its room is still one.
LEMMA LengthGrows ==
  ASSUME NEW l \in Lengths, NEW ch \in {"out", "err"},
         ch = "out" => l.out <= OutLimit, ch = "err" => l.err <= ErrLimit
  PROVE  /\ Grow(l, ch) \in Lengths
         /\ Grow(l, ch).out = IF ch = "out" THEN l.out + 1 ELSE l.out
         /\ Grow(l, ch).err = IF ch = "err" THEN l.err + 1 ELSE l.err
<1>1. CASE ch = "out"
  BY <1>1, WatchAssumption DEF Grow, Lengths
<1>2. CASE ch = "err"
  BY <1>2, WatchAssumption DEF Grow, Lengths
<1> QED
  BY <1>1, <1>2

\* A watcher claims an identity or gives up.
LEMMA ClaimEvidenceKeeps ==
  ASSUME ToolRunInv, NEW w \in Watchers, ClaimEvidence(w)
  PROVE  ToolRunInv'
<1>0. WatchTypeOK /\ AllWatched /\ Admitted /\ ClaimsApart
  BY DEF ToolRunInv
<1>9. NowWatched(w) /\ NowAdmitted(watch[w], wrote[w], told[w], keptBytes[w])
  BY <1>0 DEF AllWatched, NowWatched, Admitted, NowAdmitted
<1>1. PICK id \in EvidenceIds :
        /\ evidenceId' = [evidenceId EXCEPT ![w] = id]
        /\ \/ /\ id \notin claims /\ claims' = claims \cup {id}
              /\ watch' = [watch EXCEPT ![w] = "claimed"] /\ UNCHANGED told
           \/ /\ watch' = [watch EXCEPT ![w] = "done"] /\ told' = [told EXCEPT ![w] = "not started"]
              /\ UNCHANGED claims
  BY DEF ClaimEvidence, ClaimFree, GoOn, Tell
<1>2. watch[w] = "start" /\ UNCHANGED <<folders, tool, code, stray, wrote, length, pauses, glance, reading, keptBytes>>
  BY DEF ClaimEvidence, processVars, readVars
<1>3. /\ tool' = [tool EXCEPT ![w] = tool[w]] /\ code' = [code EXCEPT ![w] = code[w]]
      /\ wrote' = [wrote EXCEPT ![w] = wrote[w]] /\ length' = [length EXCEPT ![w] = length[w]]
      /\ glance' = [glance EXCEPT ![w] = glance[w]] /\ pauses' = [pauses EXCEPT ![w] = pauses[w]]
      /\ keptBytes' = [keptBytes EXCEPT ![w] = keptBytes[w]]
      /\ told = [told EXCEPT ![w] = told[w]]
  BY <1>0, <1>2 DEF WatchTypeOK
<1>4. /\ evidenceId' \in [Watchers -> EvidenceIds \cup {NoId}] /\ claims' \subseteq EvidenceIds
      /\ folders' \subseteq EvidenceIds
      /\ stray' \in [Watchers -> BOOLEAN] /\ reading' \in [Watchers -> Readings]
  BY <1>0, <1>1, <1>2 DEF WatchTypeOK
<1>6. told[w] = "nothing"
  BY <1>0, <1>2, <1>9 DEF NowWatched, Watched, WatchTypeOK
<1>7. WatchTypeOK' /\ AllWatched' /\ Admitted'
  <2>1. PICK at \in {"claimed", "done"}, tl \in {"nothing", "not started"} :
          /\ watch' = [watch EXCEPT ![w] = at] /\ told' = [told EXCEPT ![w] = tl]
          /\ (at = "done" <=> tl = "not started")
    BY <1>1, <1>3, <1>6
  <2>2. at \in WatchPlaces /\ tl \in {"nothing", "not started", "captured", "refused", "wait failed"}
    BY DEF WatchPlaces
  <2>3. Watched(at, tool[w], code[w], wrote[w], length[w], glance[w], tl, pauses[w]) /\ NowAdmitted(at, wrote[w], tl, keptBytes[w])
    BY <1>2, <1>9, <2>1 DEF NowWatched, Watched, NowAdmitted
  <2> QED
    <3>1. WatchTypeOK'
      BY <1>0, <1>2, <1>4, <2>1, <2>2 DEF WatchTypeOK
    <3>2. ASSUME NEW v \in Watchers, v # w PROVE Untouched(v)
      BY <1>0, <1>2, <2>1, <3>2 DEF WatchTypeOK, Untouched
    <3>3. watch'[w] = at /\ told'[w] = tl
      BY <1>0, <2>1 DEF WatchTypeOK
    <3>4. NowWatched(w)' /\ NowAdmitted(watch[w], wrote[w], told[w], keptBytes[w])'
      BY <1>2, <2>3, <3>3 DEF NowWatched
    <3> QED
      BY <1>0, <3>1, <3>2, <3>4, WatcherMoves
<1>8. ClaimsApart'
  <2>1. evidenceId'[w] = id /\ \A v \in Watchers : v # w => /\ watch'[v] = watch[v] /\ told'[v] = told[v]
                                                         /\ evidenceId'[v] = evidenceId[v]
    BY <1>0, <1>1 DEF WatchTypeOK
  <2>2. ASSUME NEW v \in Watchers, v # w, Claiming(v)' PROVE Claiming(v) /\ evidenceId'[v] \in claims
    BY <1>0, <2>1, <2>2 DEF Claiming, ClaimsApart
  <2>3. claims \subseteq claims'
    BY <1>1
  <2>4. CASE id \notin claims /\ claims' = claims \cup {id}
    BY <1>0, <2>1, <2>2, <2>4 DEF ClaimsApart
  <2>5. CASE told' = [told EXCEPT ![w] = "not started"]
    <3>1. ~Claiming(w)'
      BY <1>0, <2>5 DEF Claiming, WatchTypeOK
    <3> QED
      BY <1>0, <2>1, <2>2, <2>3, <3>1 DEF ClaimsApart
  <2> QED
    BY <1>1, <2>4, <2>5
<1> QED
  BY <1>7, <1>8 DEF ToolRunInv

\* A watcher looks for the directory it claimed.
LEMMA LookForEvidenceKeeps ==
  ASSUME ToolRunInv, NEW w \in Watchers, LookForEvidence(w)
  PROVE  ToolRunInv'
<1>0. WatchTypeOK /\ AllWatched /\ Admitted /\ ClaimsApart
  BY DEF ToolRunInv
<1>9. NowWatched(w)
  BY <1>0 DEF AllWatched, NowWatched
<1>8. NowAdmitted(watch[w], wrote[w], told[w], keptBytes[w])
  BY <1>0 DEF Admitted, NowAdmitted
<1>7. /\ evidenceId' \in [Watchers -> EvidenceIds \cup {NoId}]
      /\ claims' \subseteq EvidenceIds /\ folders' \subseteq EvidenceIds
      /\ stray' \in [Watchers -> BOOLEAN] /\ reading' \in [Watchers -> Readings]
  BY <1>0, <1>9, WatchAssumption DEF LookForEvidence, WatchTypeOK, placeVars, processVars, readVars
<1>11. ASSUME evidenceId[w] \in folders PROVE WatchTypeOK' /\ AllWatched' /\ Admitted'
  <2>1.  /\ watch' = [watch EXCEPT ![w] = "done"]
         /\ tool' = [tool EXCEPT ![w] = tool[w]]
         /\ code' = [code EXCEPT ![w] = code[w]]
         /\ wrote' = [wrote EXCEPT ![w] = wrote[w]]
         /\ length' = [length EXCEPT ![w] = length[w]]
         /\ glance' = [glance EXCEPT ![w] = glance[w]]
         /\ told' = [told EXCEPT ![w] = "not started"]
         /\ pauses' = [pauses EXCEPT ![w] = pauses[w]]
         /\ keptBytes' = [keptBytes EXCEPT ![w] = keptBytes[w]]
    BY <1>0, <1>11 DEF LookForEvidence, WatchTypeOK, GoOn, Tell, placeVars, processVars, readVars
  <2>2.  /\ "done" \in WatchPlaces
         /\ "not started" \in {"nothing", "not started", "captured", "refused", "wait failed"}
    BY <1>0, <1>11, WatchAssumption DEF WatchTypeOK, WatchPlaces, Glances, NoLook, Unread
  <2>3. Watched("done", tool[w], code[w], wrote[w], length[w], glance[w], "not started", pauses[w])
    BY <1>0, <1>9, <1>11, WatchAssumption DEF LookForEvidence, Watched, NowWatched, WatchTypeOK, WithinOutput, CaptureReasons, InTime, Room, NoLook
  <2>4. NowAdmitted("done", wrote[w], "not started", keptBytes[w])
    BY <1>0, <1>8, <1>9, <1>11 DEF LookForEvidence, NowAdmitted, Watched, NowWatched
  <2>5. WatchTypeOK'
    BY <1>0, <1>7, <2>1, <2>2 DEF WatchTypeOK
  <2>6. ASSUME NEW v \in Watchers, v # w PROVE Untouched(v)
    BY <1>0, <2>1, <2>6 DEF WatchTypeOK, Untouched
  <2>7. watch'[w] = "done" /\ tool'[w] = tool[w] /\ code'[w] = code[w] /\ wrote'[w] = wrote[w] /\ length'[w] = length[w] /\ glance'[w] = glance[w] /\ told'[w] = "not started" /\ pauses'[w] = pauses[w] /\ keptBytes'[w] = keptBytes[w]
    BY <1>0, <2>1 DEF WatchTypeOK
  <2>8. NowWatched(w)' /\ NowAdmitted(watch[w], wrote[w], told[w], keptBytes[w])'
    BY <2>3, <2>4, <2>7 DEF NowWatched
  <2> QED
    BY <1>0, <2>5, <2>6, <2>8, WatcherMoves
<1>12. ASSUME evidenceId[w] \notin folders PROVE WatchTypeOK' /\ AllWatched' /\ Admitted'
  <2>1.  /\ watch' = [watch EXCEPT ![w] = "absent"]
         /\ tool' = [tool EXCEPT ![w] = tool[w]]
         /\ code' = [code EXCEPT ![w] = code[w]]
         /\ wrote' = [wrote EXCEPT ![w] = wrote[w]]
         /\ length' = [length EXCEPT ![w] = length[w]]
         /\ glance' = [glance EXCEPT ![w] = glance[w]]
         /\ told' = [told EXCEPT ![w] = told[w]]
         /\ pauses' = [pauses EXCEPT ![w] = pauses[w]]
         /\ keptBytes' = [keptBytes EXCEPT ![w] = keptBytes[w]]
    BY <1>0, <1>12 DEF LookForEvidence, WatchTypeOK, GoOn, Tell, placeVars, processVars, readVars
  <2>2.  /\ "absent" \in WatchPlaces
    BY <1>0, <1>12, WatchAssumption DEF WatchTypeOK, WatchPlaces, Glances, NoLook, Unread
  <2>3. Watched("absent", tool[w], code[w], wrote[w], length[w], glance[w], told[w], pauses[w])
    BY <1>0, <1>9, <1>12, WatchAssumption DEF LookForEvidence, Watched, NowWatched, WatchTypeOK, WithinOutput, CaptureReasons, InTime, Room, NoLook
  <2>4. NowAdmitted("absent", wrote[w], told[w], keptBytes[w])
    BY <1>0, <1>8, <1>9, <1>12 DEF LookForEvidence, NowAdmitted, Watched, NowWatched
  <2>5. WatchTypeOK'
    BY <1>0, <1>7, <2>1, <2>2 DEF WatchTypeOK
  <2>6. ASSUME NEW v \in Watchers, v # w PROVE Untouched(v)
    BY <1>0, <2>1, <2>6 DEF WatchTypeOK, Untouched
  <2>7. watch'[w] = "absent" /\ tool'[w] = tool[w] /\ code'[w] = code[w] /\ wrote'[w] = wrote[w] /\ length'[w] = length[w] /\ glance'[w] = glance[w] /\ told'[w] = told[w] /\ pauses'[w] = pauses[w] /\ keptBytes'[w] = keptBytes[w]
    BY <1>0, <2>1 DEF WatchTypeOK
  <2>8. NowWatched(w)' /\ NowAdmitted(watch[w], wrote[w], told[w], keptBytes[w])'
    BY <2>3, <2>4, <2>7 DEF NowWatched
  <2> QED
    BY <1>0, <2>5, <2>6, <2>8, WatcherMoves
<1>1. WatchTypeOK' /\ AllWatched' /\ Admitted'
  BY <1>11, <1>12 DEF LookForEvidence, Tell, GoOn
<1>2. ClaimsApart'
  <2>1. UNCHANGED <<claims, evidenceId>>
    BY DEF LookForEvidence, placeVars
  <2>2. \A v \in Watchers : Claiming(v)' => Claiming(v)
    BY <1>0, <1>9 DEF LookForEvidence, Claiming, WatchTypeOK, GoOn, Tell, NowWatched, Watched
  <2> QED
    BY <1>0, <2>1, <2>2, ClaimsStay
<1> QED
  BY <1>1, <1>2 DEF ToolRunInv

\* A watcher makes its directory.
LEMMA MakeEvidenceKeeps ==
  ASSUME ToolRunInv, NEW w \in Watchers, MakeEvidence(w)
  PROVE  ToolRunInv'
<1>0. WatchTypeOK /\ AllWatched /\ Admitted /\ ClaimsApart
  BY DEF ToolRunInv
<1>9. NowWatched(w)
  BY <1>0 DEF AllWatched, NowWatched
<1>8. NowAdmitted(watch[w], wrote[w], told[w], keptBytes[w])
  BY <1>0 DEF Admitted, NowAdmitted
<1>7. /\ evidenceId' \in [Watchers -> EvidenceIds \cup {NoId}]
      /\ claims' \subseteq EvidenceIds /\ folders' \subseteq EvidenceIds
      /\ stray' \in [Watchers -> BOOLEAN] /\ reading' \in [Watchers -> Readings]
  <2>1. Claiming(w) /\ evidenceId[w] \in EvidenceIds
    BY <1>0, <1>9 DEF MakeEvidence, NowWatched, Watched, Claiming, ClaimsApart, WatchTypeOK
  <2> QED
    BY <1>0, <2>1 DEF MakeEvidence, WatchTypeOK, processVars, readVars
<1>1. WatchTypeOK' /\ AllWatched' /\ Admitted'
  <2>1.  /\ watch' = [watch EXCEPT ![w] = "ready"]
         /\ tool' = [tool EXCEPT ![w] = tool[w]]
         /\ code' = [code EXCEPT ![w] = code[w]]
         /\ wrote' = [wrote EXCEPT ![w] = wrote[w]]
         /\ length' = [length EXCEPT ![w] = length[w]]
         /\ glance' = [glance EXCEPT ![w] = glance[w]]
         /\ told' = [told EXCEPT ![w] = told[w]]
         /\ pauses' = [pauses EXCEPT ![w] = pauses[w]]
         /\ keptBytes' = [keptBytes EXCEPT ![w] = keptBytes[w]]
    BY <1>0 DEF MakeEvidence, WatchTypeOK, GoOn, Tell, placeVars, processVars, readVars
  <2>2.  /\ "ready" \in WatchPlaces
    BY <1>0, WatchAssumption DEF WatchTypeOK, WatchPlaces, Glances, NoLook, Unread
  <2>3. Watched("ready", tool[w], code[w], wrote[w], length[w], glance[w], told[w], pauses[w])
    BY <1>0, <1>9, WatchAssumption DEF MakeEvidence, Watched, NowWatched, WatchTypeOK, WithinOutput, CaptureReasons, InTime, Room, NoLook
  <2>4. NowAdmitted("ready", wrote[w], told[w], keptBytes[w])
    BY <1>0, <1>8, <1>9 DEF MakeEvidence, NowAdmitted, Watched, NowWatched
  <2>5. WatchTypeOK'
    BY <1>0, <1>7, <2>1, <2>2 DEF WatchTypeOK
  <2>6. ASSUME NEW v \in Watchers, v # w PROVE Untouched(v)
    BY <1>0, <2>1, <2>6 DEF WatchTypeOK, Untouched
  <2>7. watch'[w] = "ready" /\ tool'[w] = tool[w] /\ code'[w] = code[w] /\ wrote'[w] = wrote[w] /\ length'[w] = length[w] /\ glance'[w] = glance[w] /\ told'[w] = told[w] /\ pauses'[w] = pauses[w] /\ keptBytes'[w] = keptBytes[w]
    BY <1>0, <2>1 DEF WatchTypeOK
  <2>8. NowWatched(w)' /\ NowAdmitted(watch[w], wrote[w], told[w], keptBytes[w])'
    BY <2>3, <2>4, <2>7 DEF NowWatched
  <2> QED
    BY <1>0, <2>5, <2>6, <2>8, WatcherMoves
<1>2. ClaimsApart'
  <2>1. UNCHANGED <<claims, evidenceId>>
    BY DEF MakeEvidence, placeVars
  <2>2. \A v \in Watchers : Claiming(v)' => Claiming(v)
    BY <1>0, <1>9 DEF MakeEvidence, Claiming, WatchTypeOK, GoOn, Tell, NowWatched, Watched
  <2> QED
    BY <1>0, <2>1, <2>2, ClaimsStay
<1> QED
  BY <1>1, <1>2 DEF ToolRunInv

\* A tool is started, or is not.
LEMMA StartToolKeeps ==
  ASSUME ToolRunInv, NEW w \in Watchers, StartTool(w)
  PROVE  ToolRunInv'
<1>0. WatchTypeOK /\ AllWatched /\ Admitted /\ ClaimsApart
  BY DEF ToolRunInv
<1>9. NowWatched(w)
  BY <1>0 DEF AllWatched, NowWatched
<1>8. NowAdmitted(watch[w], wrote[w], told[w], keptBytes[w])
  BY <1>0 DEF Admitted, NowAdmitted
<1>7. /\ evidenceId' \in [Watchers -> EvidenceIds \cup {NoId}]
      /\ claims' \subseteq EvidenceIds /\ folders' \subseteq EvidenceIds
      /\ stray' \in [Watchers -> BOOLEAN] /\ reading' \in [Watchers -> Readings]
  BY <1>0, <1>9, WatchAssumption DEF StartTool, WatchTypeOK, placeVars, processVars, readVars
<1>11. ASSUME tool' = [tool EXCEPT ![w] = "running"] /\ watch' = [watch EXCEPT ![w] = "state"] /\ UNCHANGED told PROVE WatchTypeOK' /\ AllWatched' /\ Admitted'
  <2>1.  /\ watch' = [watch EXCEPT ![w] = "state"]
         /\ tool' = [tool EXCEPT ![w] = "running"]
         /\ code' = [code EXCEPT ![w] = code[w]]
         /\ wrote' = [wrote EXCEPT ![w] = wrote[w]]
         /\ length' = [length EXCEPT ![w] = length[w]]
         /\ glance' = [glance EXCEPT ![w] = glance[w]]
         /\ told' = [told EXCEPT ![w] = told[w]]
         /\ pauses' = [pauses EXCEPT ![w] = pauses[w]]
         /\ keptBytes' = [keptBytes EXCEPT ![w] = keptBytes[w]]
    BY <1>0, <1>11 DEF StartTool, WatchTypeOK, GoOn, Tell, placeVars, processVars, readVars
  <2>2.  /\ "state" \in WatchPlaces
         /\ "running" \in {"none", "running", "exited", "gone"}
    BY <1>0, <1>11, WatchAssumption DEF WatchTypeOK, WatchPlaces, Glances, NoLook, Unread
  <2>3. Watched("state", "running", code[w], wrote[w], length[w], glance[w], told[w], pauses[w])
    BY <1>0, <1>9, <1>11, WatchAssumption DEF StartTool, Watched, NowWatched, WatchTypeOK, WithinOutput, CaptureReasons, InTime, Room, NoLook
  <2>4. NowAdmitted("state", wrote[w], told[w], keptBytes[w])
    BY <1>0, <1>8, <1>9, <1>11 DEF StartTool, NowAdmitted, Watched, NowWatched
  <2>5. WatchTypeOK'
    BY <1>0, <1>7, <2>1, <2>2 DEF WatchTypeOK
  <2>6. ASSUME NEW v \in Watchers, v # w PROVE Untouched(v)
    BY <1>0, <2>1, <2>6 DEF WatchTypeOK, Untouched
  <2>7. watch'[w] = "state" /\ tool'[w] = "running" /\ code'[w] = code[w] /\ wrote'[w] = wrote[w] /\ length'[w] = length[w] /\ glance'[w] = glance[w] /\ told'[w] = told[w] /\ pauses'[w] = pauses[w] /\ keptBytes'[w] = keptBytes[w]
    BY <1>0, <2>1 DEF WatchTypeOK
  <2>8. NowWatched(w)' /\ NowAdmitted(watch[w], wrote[w], told[w], keptBytes[w])'
    BY <2>3, <2>4, <2>7 DEF NowWatched
  <2> QED
    BY <1>0, <2>5, <2>6, <2>8, WatcherMoves
<1>12. ASSUME told' = [told EXCEPT ![w] = "not started"] /\ watch' = [watch EXCEPT ![w] = "done"] /\ UNCHANGED tool PROVE WatchTypeOK' /\ AllWatched' /\ Admitted'
  <2>1.  /\ watch' = [watch EXCEPT ![w] = "done"]
         /\ tool' = [tool EXCEPT ![w] = tool[w]]
         /\ code' = [code EXCEPT ![w] = code[w]]
         /\ wrote' = [wrote EXCEPT ![w] = wrote[w]]
         /\ length' = [length EXCEPT ![w] = length[w]]
         /\ glance' = [glance EXCEPT ![w] = glance[w]]
         /\ told' = [told EXCEPT ![w] = "not started"]
         /\ pauses' = [pauses EXCEPT ![w] = pauses[w]]
         /\ keptBytes' = [keptBytes EXCEPT ![w] = keptBytes[w]]
    BY <1>0, <1>12 DEF StartTool, WatchTypeOK, GoOn, Tell, placeVars, processVars, readVars
  <2>2.  /\ "done" \in WatchPlaces
         /\ "not started" \in {"nothing", "not started", "captured", "refused", "wait failed"}
    BY <1>0, <1>12, WatchAssumption DEF WatchTypeOK, WatchPlaces, Glances, NoLook, Unread
  <2>3. Watched("done", tool[w], code[w], wrote[w], length[w], glance[w], "not started", pauses[w])
    BY <1>0, <1>9, <1>12, WatchAssumption DEF StartTool, Watched, NowWatched, WatchTypeOK, WithinOutput, CaptureReasons, InTime, Room, NoLook
  <2>4. NowAdmitted("done", wrote[w], "not started", keptBytes[w])
    BY <1>0, <1>8, <1>9, <1>12 DEF StartTool, NowAdmitted, Watched, NowWatched
  <2>5. WatchTypeOK'
    BY <1>0, <1>7, <2>1, <2>2 DEF WatchTypeOK
  <2>6. ASSUME NEW v \in Watchers, v # w PROVE Untouched(v)
    BY <1>0, <2>1, <2>6 DEF WatchTypeOK, Untouched
  <2>7. watch'[w] = "done" /\ tool'[w] = tool[w] /\ code'[w] = code[w] /\ wrote'[w] = wrote[w] /\ length'[w] = length[w] /\ glance'[w] = glance[w] /\ told'[w] = "not started" /\ pauses'[w] = pauses[w] /\ keptBytes'[w] = keptBytes[w]
    BY <1>0, <2>1 DEF WatchTypeOK
  <2>8. NowWatched(w)' /\ NowAdmitted(watch[w], wrote[w], told[w], keptBytes[w])'
    BY <2>3, <2>4, <2>7 DEF NowWatched
  <2> QED
    BY <1>0, <2>5, <2>6, <2>8, WatcherMoves
<1>1. WatchTypeOK' /\ AllWatched' /\ Admitted'
  BY <1>11, <1>12 DEF StartTool, Tell, GoOn
<1>2. ClaimsApart'
  <2>1. UNCHANGED <<claims, evidenceId>>
    BY DEF StartTool, placeVars
  <2>2. \A v \in Watchers : Claiming(v)' => Claiming(v)
    BY <1>0, <1>9 DEF StartTool, Claiming, WatchTypeOK, GoOn, Tell, NowWatched, Watched
  <2> QED
    BY <1>0, <2>1, <2>2, ClaimsStay
<1> QED
  BY <1>1, <1>2 DEF ToolRunInv

\* A tool writes.
LEMMA ToolWritesKeeps ==
  ASSUME ToolRunInv, NEW w \in Watchers, ToolWrites(w)
  PROVE  ToolRunInv'
<1>0. WatchTypeOK /\ AllWatched /\ Admitted /\ ClaimsApart
  BY DEF ToolRunInv
<1>9. NowWatched(w)
  BY <1>0 DEF AllWatched, NowWatched
<1>8. NowAdmitted(watch[w], wrote[w], told[w], keptBytes[w])
  BY <1>0 DEF Admitted, NowAdmitted
<1>7. /\ evidenceId' \in [Watchers -> EvidenceIds \cup {NoId}]
      /\ claims' \subseteq EvidenceIds /\ folders' \subseteq EvidenceIds
      /\ stray' \in [Watchers -> BOOLEAN] /\ reading' \in [Watchers -> Readings]
  BY <1>0, <1>9, WatchAssumption DEF ToolWrites, WatchTypeOK, placeVars, processVars, readVars
<1>12. PICK x \in {"out", "err"} : /\ Room(w, x) /\ wrote' = [wrote EXCEPT ![w] = Grow(@, x)] /\ length' = [length EXCEPT ![w] = Grow(@, x)]
  BY DEF ToolWrites, Grow
<1>13. /\ Grow(wrote[w], x) \in Lengths /\ Grow(length[w], x) \in Lengths
       /\ Grow(wrote[w], x).out <= Grow(length[w], x).out /\ Grow(wrote[w], x).err <= Grow(length[w], x).err
  <2>1. /\ wrote[w] \in Lengths /\ length[w] \in Lengths
        /\ wrote[w].out \in Nat /\ wrote[w].err \in Nat /\ length[w].out \in Nat /\ length[w].err \in Nat
        /\ wrote[w].out <= length[w].out /\ wrote[w].err <= length[w].err
    BY <1>0, <1>9, LengthsAreNumbers DEF WatchTypeOK, NowWatched, Watched
  <2>2. (x = "out" => length[w].out <= OutLimit) /\ (x = "err" => length[w].err <= ErrLimit)
    BY <1>12 DEF Room
  <2>3. (x = "out" => wrote[w].out <= OutLimit) /\ (x = "err" => wrote[w].err <= ErrLimit)
    BY <2>1, <2>2, WatchAssumption
  <2>4. /\ Grow(wrote[w], x) \in Lengths
        /\ Grow(wrote[w], x).out = IF x = "out" THEN wrote[w].out + 1 ELSE wrote[w].out
        /\ Grow(wrote[w], x).err = IF x = "err" THEN wrote[w].err + 1 ELSE wrote[w].err
    BY <2>1, <2>3, LengthGrows
  <2>5. /\ Grow(length[w], x) \in Lengths
        /\ Grow(length[w], x).out = IF x = "out" THEN length[w].out + 1 ELSE length[w].out
        /\ Grow(length[w], x).err = IF x = "err" THEN length[w].err + 1 ELSE length[w].err
    BY <2>1, <2>2, LengthGrows
  <2> QED
    BY <2>1, <2>4, <2>5
<1>1. WatchTypeOK' /\ AllWatched' /\ Admitted'
  <2>1.  /\ watch' = [watch EXCEPT ![w] = watch[w]]
         /\ tool' = [tool EXCEPT ![w] = tool[w]]
         /\ code' = [code EXCEPT ![w] = code[w]]
         /\ wrote' = [wrote EXCEPT ![w] = Grow(wrote[w], x)]
         /\ length' = [length EXCEPT ![w] = Grow(length[w], x)]
         /\ glance' = [glance EXCEPT ![w] = glance[w]]
         /\ told' = [told EXCEPT ![w] = told[w]]
         /\ pauses' = [pauses EXCEPT ![w] = pauses[w]]
         /\ keptBytes' = [keptBytes EXCEPT ![w] = keptBytes[w]]
    BY <1>0, <1>12 DEF ToolWrites, WatchTypeOK, GoOn, Tell, placeVars, processVars, readVars
  <2>2.  /\ Grow(wrote[w], x) \in Lengths
         /\ Grow(length[w], x) \in Lengths
    BY <1>0, <1>12, WatchAssumption, <1>13 DEF WatchTypeOK, WatchPlaces, Glances, NoLook, Unread
  <2>3. Watched(watch[w], tool[w], code[w], Grow(wrote[w], x), Grow(length[w], x), glance[w], told[w], pauses[w])
    BY <1>0, <1>9, <1>12, WatchAssumption, <1>13  DEF ToolWrites, Watched, NowWatched, WatchTypeOK, WithinOutput, CaptureReasons, InTime, Room, NoLook
  <2>4. NowAdmitted(watch[w], Grow(wrote[w], x), told[w], keptBytes[w])
    BY <1>0, <1>8, <1>9, <1>12, <1>13 DEF ToolWrites, NowAdmitted, Watched, NowWatched
  <2>5. WatchTypeOK'
    BY <1>0, <1>7, <2>1, <2>2 DEF WatchTypeOK
  <2>6. ASSUME NEW v \in Watchers, v # w PROVE Untouched(v)
    BY <1>0, <2>1, <2>6 DEF WatchTypeOK, Untouched
  <2>7. watch'[w] = watch[w] /\ tool'[w] = tool[w] /\ code'[w] = code[w] /\ wrote'[w] = Grow(wrote[w], x) /\ length'[w] = Grow(length[w], x) /\ glance'[w] = glance[w] /\ told'[w] = told[w] /\ pauses'[w] = pauses[w] /\ keptBytes'[w] = keptBytes[w]
    BY <1>0, <2>1 DEF WatchTypeOK
  <2>8. NowWatched(w)' /\ NowAdmitted(watch[w], wrote[w], told[w], keptBytes[w])'
    BY <2>3, <2>4, <2>7 DEF NowWatched
  <2> QED
    BY <1>0, <2>5, <2>6, <2>8, WatcherMoves
<1>2. ClaimsApart'
  <2>1. UNCHANGED <<claims, evidenceId>>
    BY DEF ToolWrites, placeVars
  <2>2. \A v \in Watchers : Claiming(v)' => Claiming(v)
    BY <1>0, <1>9 DEF ToolWrites, Claiming, WatchTypeOK, GoOn, Tell, NowWatched, Watched
  <2> QED
    BY <1>0, <2>1, <2>2, ClaimsStay
<1> QED
  BY <1>1, <1>2 DEF ToolRunInv

\* A tool leaves a descendant behind.
LEMMA ToolForksKeeps ==
  ASSUME ToolRunInv, NEW w \in Watchers, ToolForks(w)
  PROVE  ToolRunInv'
<1>0. WatchTypeOK /\ AllWatched /\ Admitted /\ ClaimsApart
  BY DEF ToolRunInv
<1>9. NowWatched(w)
  BY <1>0 DEF AllWatched, NowWatched
<1>8. NowAdmitted(watch[w], wrote[w], told[w], keptBytes[w])
  BY <1>0 DEF Admitted, NowAdmitted
<1>7. /\ evidenceId' \in [Watchers -> EvidenceIds \cup {NoId}]
      /\ claims' \subseteq EvidenceIds /\ folders' \subseteq EvidenceIds
      /\ stray' \in [Watchers -> BOOLEAN] /\ reading' \in [Watchers -> Readings]
  BY <1>0, <1>9, WatchAssumption DEF ToolForks, WatchTypeOK, placeVars, processVars, readVars
<1>1. WatchTypeOK' /\ AllWatched' /\ Admitted'
  <2>1.  /\ watch' = [watch EXCEPT ![w] = watch[w]]
         /\ tool' = [tool EXCEPT ![w] = tool[w]]
         /\ code' = [code EXCEPT ![w] = code[w]]
         /\ wrote' = [wrote EXCEPT ![w] = wrote[w]]
         /\ length' = [length EXCEPT ![w] = length[w]]
         /\ glance' = [glance EXCEPT ![w] = glance[w]]
         /\ told' = [told EXCEPT ![w] = told[w]]
         /\ pauses' = [pauses EXCEPT ![w] = pauses[w]]
         /\ keptBytes' = [keptBytes EXCEPT ![w] = keptBytes[w]]
    BY <1>0 DEF ToolForks, WatchTypeOK, GoOn, Tell, placeVars, processVars, readVars
  <2>3. Watched(watch[w], tool[w], code[w], wrote[w], length[w], glance[w], told[w], pauses[w])
    BY <1>0, <1>9, WatchAssumption DEF ToolForks, Watched, NowWatched, WatchTypeOK, WithinOutput, CaptureReasons, InTime, Room, NoLook
  <2>4. NowAdmitted(watch[w], wrote[w], told[w], keptBytes[w])
    BY <1>0, <1>8, <1>9 DEF ToolForks, NowAdmitted, Watched, NowWatched
  <2>5. WatchTypeOK'
    BY <1>0, <1>7, <2>1 DEF WatchTypeOK
  <2>6. ASSUME NEW v \in Watchers, v # w PROVE Untouched(v)
    BY <1>0, <2>1, <2>6 DEF WatchTypeOK, Untouched
  <2>7. watch'[w] = watch[w] /\ tool'[w] = tool[w] /\ code'[w] = code[w] /\ wrote'[w] = wrote[w] /\ length'[w] = length[w] /\ glance'[w] = glance[w] /\ told'[w] = told[w] /\ pauses'[w] = pauses[w] /\ keptBytes'[w] = keptBytes[w]
    BY <1>0, <2>1 DEF WatchTypeOK
  <2>8. NowWatched(w)' /\ NowAdmitted(watch[w], wrote[w], told[w], keptBytes[w])'
    BY <2>3, <2>4, <2>7 DEF NowWatched
  <2> QED
    BY <1>0, <2>5, <2>6, <2>8, WatcherMoves
<1>2. ClaimsApart'
  <2>1. UNCHANGED <<claims, evidenceId>>
    BY DEF ToolForks, placeVars
  <2>2. \A v \in Watchers : Claiming(v)' => Claiming(v)
    BY <1>0, <1>9 DEF ToolForks, Claiming, WatchTypeOK, GoOn, Tell, NowWatched, Watched
  <2> QED
    BY <1>0, <2>1, <2>2, ClaimsStay
<1> QED
  BY <1>1, <1>2 DEF ToolRunInv

\* A tool ends.
LEMMA ToolExitsKeeps ==
  ASSUME ToolRunInv, NEW w \in Watchers, ToolExits(w)
  PROVE  ToolRunInv'
<1>0. WatchTypeOK /\ AllWatched /\ Admitted /\ ClaimsApart
  BY DEF ToolRunInv
<1>9. NowWatched(w)
  BY <1>0 DEF AllWatched, NowWatched
<1>8. NowAdmitted(watch[w], wrote[w], told[w], keptBytes[w])
  BY <1>0 DEF Admitted, NowAdmitted
<1>7. /\ evidenceId' \in [Watchers -> EvidenceIds \cup {NoId}]
      /\ claims' \subseteq EvidenceIds /\ folders' \subseteq EvidenceIds
      /\ stray' \in [Watchers -> BOOLEAN] /\ reading' \in [Watchers -> Readings]
  BY <1>0, <1>9, WatchAssumption DEF ToolExits, WatchTypeOK, placeVars, processVars, readVars
<1>12. PICK x \in {"zero", "other"} : /\ code' = [code EXCEPT ![w] = x]
  BY <1>0, <1>9 DEF ToolExits, WatchTypeOK, Glances, NowWatched, Watched, Observed, Readings, Lengths
<1>1. WatchTypeOK' /\ AllWatched' /\ Admitted'
  <2>1.  /\ watch' = [watch EXCEPT ![w] = watch[w]]
         /\ tool' = [tool EXCEPT ![w] = "exited"]
         /\ code' = [code EXCEPT ![w] = x]
         /\ wrote' = [wrote EXCEPT ![w] = wrote[w]]
         /\ length' = [length EXCEPT ![w] = length[w]]
         /\ glance' = [glance EXCEPT ![w] = glance[w]]
         /\ told' = [told EXCEPT ![w] = told[w]]
         /\ pauses' = [pauses EXCEPT ![w] = pauses[w]]
         /\ keptBytes' = [keptBytes EXCEPT ![w] = keptBytes[w]]
    BY <1>0, <1>12 DEF ToolExits, WatchTypeOK, GoOn, Tell, placeVars, processVars, readVars
  <2>2.  /\ "exited" \in {"none", "running", "exited", "gone"}
         /\ x \in {"none", "zero", "other", "signal"}
    BY <1>0, <1>12, WatchAssumption DEF WatchTypeOK, WatchPlaces, Glances, NoLook, Unread
  <2>3. Watched(watch[w], "exited", x, wrote[w], length[w], glance[w], told[w], pauses[w])
    BY <1>0, <1>9, <1>12, WatchAssumption DEF ToolExits, Watched, NowWatched, WatchTypeOK, WithinOutput, CaptureReasons, InTime, Room, NoLook
  <2>4. NowAdmitted(watch[w], wrote[w], told[w], keptBytes[w])
    BY <1>0, <1>8, <1>9, <1>12 DEF ToolExits, NowAdmitted, Watched, NowWatched
  <2>5. WatchTypeOK'
    BY <1>0, <1>7, <2>1, <2>2 DEF WatchTypeOK
  <2>6. ASSUME NEW v \in Watchers, v # w PROVE Untouched(v)
    BY <1>0, <2>1, <2>6 DEF WatchTypeOK, Untouched
  <2>7. watch'[w] = watch[w] /\ tool'[w] = "exited" /\ code'[w] = x /\ wrote'[w] = wrote[w] /\ length'[w] = length[w] /\ glance'[w] = glance[w] /\ told'[w] = told[w] /\ pauses'[w] = pauses[w] /\ keptBytes'[w] = keptBytes[w]
    BY <1>0, <2>1 DEF WatchTypeOK
  <2>8. NowWatched(w)' /\ NowAdmitted(watch[w], wrote[w], told[w], keptBytes[w])'
    BY <2>3, <2>4, <2>7 DEF NowWatched
  <2> QED
    BY <1>0, <2>5, <2>6, <2>8, WatcherMoves
<1>2. ClaimsApart'
  <2>1. UNCHANGED <<claims, evidenceId>>
    BY DEF ToolExits, placeVars
  <2>2. \A v \in Watchers : Claiming(v)' => Claiming(v)
    BY <1>0, <1>9 DEF ToolExits, Claiming, WatchTypeOK, GoOn, Tell, NowWatched, Watched
  <2> QED
    BY <1>0, <2>1, <2>2, ClaimsStay
<1> QED
  BY <1>1, <1>2 DEF ToolRunInv

\* A descendant writes.
LEMMA StrayWritesKeeps ==
  ASSUME ToolRunInv, NEW w \in Watchers, StrayWrites(w)
  PROVE  ToolRunInv'
<1>0. WatchTypeOK /\ AllWatched /\ Admitted /\ ClaimsApart
  BY DEF ToolRunInv
<1>9. NowWatched(w)
  BY <1>0 DEF AllWatched, NowWatched
<1>1. PICK ln : ln = Grow(length[w], "out")
  OBVIOUS
<1>2. ln \in Lengths /\ ln.out >= length[w].out /\ ln.err = length[w].err
  <2>1. length[w] \in Lengths /\ length[w].out \in Nat /\ length[w].out <= OutLimit
    BY <1>0, LengthsAreNumbers DEF WatchTypeOK, StrayWrites, Room
  <2>2. /\ Grow(length[w], "out") \in Lengths
        /\ Grow(length[w], "out").out = length[w].out + 1 /\ Grow(length[w], "out").err = length[w].err
    BY <2>1, LengthGrows
  <2> QED
    BY <1>1, <2>1, <2>2
<1>3. length' = [length EXCEPT ![w] = ln]
  BY <1>1 DEF StrayWrites, Grow
<1>4. UNCHANGED <<watch, tool, code, wrote, glance, told, pauses, keptBytes, claims, folders, evidenceId, stray, reading>>
  BY DEF StrayWrites, placeVars, readVars
<1>5. Watched(watch[w], tool[w], code[w], wrote[w], ln, glance[w], told[w], pauses[w])
  <2>1. wrote[w].out \in Nat /\ length[w].out \in Nat /\ ln.out \in Nat
    BY <1>0, <1>2, LengthsAreNumbers DEF WatchTypeOK
  <2>2. wrote[w].out <= ln.out
    <3>1. wrote[w].out <= length[w].out
      BY <1>9 DEF NowWatched, Watched
    <3> QED
      BY <1>2, <2>1, <3>1
  <2> QED
    BY <1>2, <1>9, <2>2 DEF NowWatched, Watched
<1>6. NowAdmitted(watch[w], wrote[w], told[w], keptBytes[w])
  BY <1>0 DEF Admitted, NowAdmitted
<1>8. WatchTypeOK' /\ AllWatched' /\ Admitted'
  <2>1. WatchTypeOK'
    BY <1>0, <1>2, <1>3, <1>4 DEF WatchTypeOK
  <2>2. ASSUME NEW v \in Watchers, v # w PROVE Untouched(v)
    BY <1>0, <1>3, <1>4, <2>2 DEF WatchTypeOK, Untouched
  <2>3. length'[w] = ln
    BY <1>0, <1>3 DEF WatchTypeOK
  <2>4. NowWatched(w)' /\ NowAdmitted(watch[w], wrote[w], told[w], keptBytes[w])'
    BY <1>4, <1>5, <1>6, <2>3 DEF NowWatched
  <2> QED
    BY <1>0, <2>1, <2>2, <2>4, WatcherMoves
<1>10. ClaimsApart'
  BY <1>0, <1>4, ClaimsStay DEF Claiming
<1> QED
  BY <1>8, <1>10 DEF ToolRunInv

\* A descendant ends.
LEMMA StrayEndsKeeps ==
  ASSUME ToolRunInv, NEW w \in Watchers, StrayEnds(w)
  PROVE  ToolRunInv'
<1>0. WatchTypeOK /\ AllWatched /\ Admitted /\ ClaimsApart
  BY DEF ToolRunInv
<1>9. NowWatched(w)
  BY <1>0 DEF AllWatched, NowWatched
<1>8. NowAdmitted(watch[w], wrote[w], told[w], keptBytes[w])
  BY <1>0 DEF Admitted, NowAdmitted
<1>7. /\ evidenceId' \in [Watchers -> EvidenceIds \cup {NoId}]
      /\ claims' \subseteq EvidenceIds /\ folders' \subseteq EvidenceIds
      /\ stray' \in [Watchers -> BOOLEAN] /\ reading' \in [Watchers -> Readings]
  BY <1>0, <1>9, WatchAssumption DEF StrayEnds, WatchTypeOK, placeVars, processVars, readVars
<1>1. WatchTypeOK' /\ AllWatched' /\ Admitted'
  <2>1.  /\ watch' = [watch EXCEPT ![w] = watch[w]]
         /\ tool' = [tool EXCEPT ![w] = tool[w]]
         /\ code' = [code EXCEPT ![w] = code[w]]
         /\ wrote' = [wrote EXCEPT ![w] = wrote[w]]
         /\ length' = [length EXCEPT ![w] = length[w]]
         /\ glance' = [glance EXCEPT ![w] = glance[w]]
         /\ told' = [told EXCEPT ![w] = told[w]]
         /\ pauses' = [pauses EXCEPT ![w] = pauses[w]]
         /\ keptBytes' = [keptBytes EXCEPT ![w] = keptBytes[w]]
    BY <1>0 DEF StrayEnds, WatchTypeOK, GoOn, Tell, placeVars, processVars, readVars
  <2>3. Watched(watch[w], tool[w], code[w], wrote[w], length[w], glance[w], told[w], pauses[w])
    BY <1>0, <1>9, WatchAssumption DEF StrayEnds, Watched, NowWatched, WatchTypeOK, WithinOutput, CaptureReasons, InTime, Room, NoLook
  <2>4. NowAdmitted(watch[w], wrote[w], told[w], keptBytes[w])
    BY <1>0, <1>8, <1>9 DEF StrayEnds, NowAdmitted, Watched, NowWatched
  <2>5. WatchTypeOK'
    BY <1>0, <1>7, <2>1 DEF WatchTypeOK
  <2>6. ASSUME NEW v \in Watchers, v # w PROVE Untouched(v)
    BY <1>0, <2>1, <2>6 DEF WatchTypeOK, Untouched
  <2>7. watch'[w] = watch[w] /\ tool'[w] = tool[w] /\ code'[w] = code[w] /\ wrote'[w] = wrote[w] /\ length'[w] = length[w] /\ glance'[w] = glance[w] /\ told'[w] = told[w] /\ pauses'[w] = pauses[w] /\ keptBytes'[w] = keptBytes[w]
    BY <1>0, <2>1 DEF WatchTypeOK
  <2>8. NowWatched(w)' /\ NowAdmitted(watch[w], wrote[w], told[w], keptBytes[w])'
    BY <2>3, <2>4, <2>7 DEF NowWatched
  <2> QED
    BY <1>0, <2>5, <2>6, <2>8, WatcherMoves
<1>2. ClaimsApart'
  <2>1. UNCHANGED <<claims, evidenceId>>
    BY DEF StrayEnds, placeVars
  <2>2. \A v \in Watchers : Claiming(v)' => Claiming(v)
    BY <1>0, <1>9 DEF StrayEnds, Claiming, WatchTypeOK, GoOn, Tell, NowWatched, Watched
  <2> QED
    BY <1>0, <2>1, <2>2, ClaimsStay
<1> QED
  BY <1>1, <1>2 DEF ToolRunInv

\* A watcher looks at the process.
LEMMA LookAtStateKeeps ==
  ASSUME ToolRunInv, NEW w \in Watchers, LookAtState(w)
  PROVE  ToolRunInv'
<1>0. WatchTypeOK /\ AllWatched /\ Admitted /\ ClaimsApart
  BY DEF ToolRunInv
<1>9. NowWatched(w)
  BY <1>0 DEF AllWatched, NowWatched
<1>8. NowAdmitted(watch[w], wrote[w], told[w], keptBytes[w])
  BY <1>0 DEF Admitted, NowAdmitted
<1>7. /\ evidenceId' \in [Watchers -> EvidenceIds \cup {NoId}]
      /\ claims' \subseteq EvidenceIds /\ folders' \subseteq EvidenceIds
      /\ stray' \in [Watchers -> BOOLEAN] /\ reading' \in [Watchers -> Readings]
  BY <1>0, <1>9, WatchAssumption DEF LookAtState, WatchTypeOK, placeVars, processVars, readVars
<1>12. PICK x \in Glances : /\ glance' = [glance EXCEPT ![w] = x] /\ x.output = glance[w].output /\ (x.state = "zero" => tool[w] = "exited" /\ code[w] = "zero")
  <2>1. PICK st \in {"unknown", "running", "zero", "other"} :
          /\ glance' = [glance EXCEPT ![w] = [glance[w] EXCEPT !.state = st]]
          /\ (st = "zero" => tool[w] = "exited" /\ code[w] = "zero")
    BY <1>0, <1>9 DEF LookAtState, WatchTypeOK, NowWatched, Watched
  <2>2. /\ [glance[w] EXCEPT !.state = st] \in Glances
        /\ [glance[w] EXCEPT !.state = st].state = st
        /\ [glance[w] EXCEPT !.state = st].output = glance[w].output
    BY <1>0 DEF WatchTypeOK, Glances
  <2> QED
    BY <2>1, <2>2
<1>1. WatchTypeOK' /\ AllWatched' /\ Admitted'
  <2>1.  /\ watch' = [watch EXCEPT ![w] = "output"]
         /\ tool' = [tool EXCEPT ![w] = tool[w]]
         /\ code' = [code EXCEPT ![w] = code[w]]
         /\ wrote' = [wrote EXCEPT ![w] = wrote[w]]
         /\ length' = [length EXCEPT ![w] = length[w]]
         /\ glance' = [glance EXCEPT ![w] = x]
         /\ told' = [told EXCEPT ![w] = told[w]]
         /\ pauses' = [pauses EXCEPT ![w] = pauses[w]]
         /\ keptBytes' = [keptBytes EXCEPT ![w] = keptBytes[w]]
    BY <1>0, <1>12 DEF LookAtState, WatchTypeOK, GoOn, Tell, placeVars, processVars, readVars
  <2>2.  /\ "output" \in WatchPlaces
         /\ x \in Glances
    BY <1>0, <1>12, WatchAssumption DEF WatchTypeOK, WatchPlaces, Glances, NoLook, Unread
  <2>3. Watched("output", tool[w], code[w], wrote[w], length[w], x, told[w], pauses[w])
    BY <1>0, <1>9, <1>12, WatchAssumption DEF LookAtState, Watched, NowWatched, WatchTypeOK, WithinOutput, CaptureReasons, InTime, Room, NoLook
  <2>4. NowAdmitted("output", wrote[w], told[w], keptBytes[w])
    BY <1>0, <1>8, <1>9, <1>12 DEF LookAtState, NowAdmitted, Watched, NowWatched
  <2>5. WatchTypeOK'
    BY <1>0, <1>7, <2>1, <2>2 DEF WatchTypeOK
  <2>6. ASSUME NEW v \in Watchers, v # w PROVE Untouched(v)
    BY <1>0, <2>1, <2>6 DEF WatchTypeOK, Untouched
  <2>7. watch'[w] = "output" /\ tool'[w] = tool[w] /\ code'[w] = code[w] /\ wrote'[w] = wrote[w] /\ length'[w] = length[w] /\ glance'[w] = x /\ told'[w] = told[w] /\ pauses'[w] = pauses[w] /\ keptBytes'[w] = keptBytes[w]
    BY <1>0, <2>1 DEF WatchTypeOK
  <2>8. NowWatched(w)' /\ NowAdmitted(watch[w], wrote[w], told[w], keptBytes[w])'
    BY <2>3, <2>4, <2>7 DEF NowWatched
  <2> QED
    BY <1>0, <2>5, <2>6, <2>8, WatcherMoves
<1>2. ClaimsApart'
  <2>1. UNCHANGED <<claims, evidenceId>>
    BY DEF LookAtState, placeVars
  <2>2. \A v \in Watchers : Claiming(v)' => Claiming(v)
    BY <1>0, <1>9 DEF LookAtState, Claiming, WatchTypeOK, GoOn, Tell, NowWatched, Watched
  <2> QED
    BY <1>0, <2>1, <2>2, ClaimsStay
<1> QED
  BY <1>1, <1>2 DEF ToolRunInv

\* A watcher looks at the outputs.
LEMMA LookAtOutputKeeps ==
  ASSUME ToolRunInv, NEW w \in Watchers, LookAtOutput(w)
  PROVE  ToolRunInv'
<1>0. WatchTypeOK /\ AllWatched /\ Admitted /\ ClaimsApart
  BY DEF ToolRunInv
<1>9. NowWatched(w)
  BY <1>0 DEF AllWatched, NowWatched
<1>8. NowAdmitted(watch[w], wrote[w], told[w], keptBytes[w])
  BY <1>0 DEF Admitted, NowAdmitted
<1>7. /\ evidenceId' \in [Watchers -> EvidenceIds \cup {NoId}]
      /\ claims' \subseteq EvidenceIds /\ folders' \subseteq EvidenceIds
      /\ stray' \in [Watchers -> BOOLEAN] /\ reading' \in [Watchers -> Readings]
  BY <1>0, <1>9, WatchAssumption DEF LookAtOutput, WatchTypeOK, placeVars, processVars, readVars
<1>12. PICK x \in Glances : /\ glance' = [glance EXCEPT ![w] = x] /\ x.state = glance[w].state /\ x.output # "none" /\ (x.output = "within" => WithinOutput(length[w]))
  <2>1. PICK o \in {"unknown", "within", "beyond"} :
          /\ glance' = [glance EXCEPT ![w] = [glance[w] EXCEPT !.output = o]]
          /\ (o = "within" => WithinOutput(length[w]))
    BY DEF LookAtOutput
  <2>2. /\ [glance[w] EXCEPT !.output = o] \in Glances
        /\ [glance[w] EXCEPT !.output = o].state = glance[w].state
        /\ [glance[w] EXCEPT !.output = o].output = o
    BY <1>0 DEF WatchTypeOK, Glances
  <2> QED
    BY <2>1, <2>2
<1>1. WatchTypeOK' /\ AllWatched' /\ Admitted'
  <2>1.  /\ watch' = [watch EXCEPT ![w] = "judge"]
         /\ tool' = [tool EXCEPT ![w] = tool[w]]
         /\ code' = [code EXCEPT ![w] = code[w]]
         /\ wrote' = [wrote EXCEPT ![w] = wrote[w]]
         /\ length' = [length EXCEPT ![w] = length[w]]
         /\ glance' = [glance EXCEPT ![w] = x]
         /\ told' = [told EXCEPT ![w] = told[w]]
         /\ pauses' = [pauses EXCEPT ![w] = pauses[w]]
         /\ keptBytes' = [keptBytes EXCEPT ![w] = keptBytes[w]]
    BY <1>0, <1>12 DEF LookAtOutput, WatchTypeOK, GoOn, Tell, placeVars, processVars, readVars
  <2>2.  /\ "judge" \in WatchPlaces
         /\ x \in Glances
    BY <1>0, <1>12, WatchAssumption DEF WatchTypeOK, WatchPlaces, Glances, NoLook, Unread
  <2>3. Watched("judge", tool[w], code[w], wrote[w], length[w], x, told[w], pauses[w])
    <3>1. x.output = "within" => WithinOutput(wrote[w])
      BY <1>0, <1>9, <1>12, WritesWithin
    <3>2. watch[w] = "output"
      BY DEF LookAtOutput
    <3> QED
      BY <1>9, <1>12, <3>1, <3>2 DEF Watched, NowWatched
  <2>4. NowAdmitted("judge", wrote[w], told[w], keptBytes[w])
    BY <1>0, <1>8, <1>9, <1>12 DEF LookAtOutput, NowAdmitted, Watched, NowWatched
  <2>5. WatchTypeOK'
    BY <1>0, <1>7, <2>1, <2>2 DEF WatchTypeOK
  <2>6. ASSUME NEW v \in Watchers, v # w PROVE Untouched(v)
    BY <1>0, <2>1, <2>6 DEF WatchTypeOK, Untouched
  <2>7. watch'[w] = "judge" /\ tool'[w] = tool[w] /\ code'[w] = code[w] /\ wrote'[w] = wrote[w] /\ length'[w] = length[w] /\ glance'[w] = x /\ told'[w] = told[w] /\ pauses'[w] = pauses[w] /\ keptBytes'[w] = keptBytes[w]
    BY <1>0, <2>1 DEF WatchTypeOK
  <2>8. NowWatched(w)' /\ NowAdmitted(watch[w], wrote[w], told[w], keptBytes[w])'
    BY <2>3, <2>4, <2>7 DEF NowWatched
  <2> QED
    BY <1>0, <2>5, <2>6, <2>8, WatcherMoves
<1>2. ClaimsApart'
  <2>1. UNCHANGED <<claims, evidenceId>>
    BY DEF LookAtOutput, placeVars
  <2>2. \A v \in Watchers : Claiming(v)' => Claiming(v)
    BY <1>0, <1>9 DEF LookAtOutput, Claiming, WatchTypeOK, GoOn, Tell, NowWatched, Watched
  <2> QED
    BY <1>0, <2>1, <2>2, ClaimsStay
<1> QED
  BY <1>1, <1>2 DEF ToolRunInv

\* A watcher judges what it saw.
LEMMA JudgeLookKeeps ==
  ASSUME ToolRunInv, NEW w \in Watchers, JudgeLook(w)
  PROVE  ToolRunInv'
<1>0. WatchTypeOK /\ AllWatched /\ Admitted /\ ClaimsApart
  BY DEF ToolRunInv
<1>9. NowWatched(w)
  BY <1>0 DEF AllWatched, NowWatched
<1>8. NowAdmitted(watch[w], wrote[w], told[w], keptBytes[w])
  BY <1>0 DEF Admitted, NowAdmitted
<1>7. /\ evidenceId' \in [Watchers -> EvidenceIds \cup {NoId}]
      /\ claims' \subseteq EvidenceIds /\ folders' \subseteq EvidenceIds
      /\ stray' \in [Watchers -> BOOLEAN] /\ reading' \in [Watchers -> Readings]
  BY <1>0, <1>9, WatchAssumption DEF JudgeLook, WatchTypeOK, placeVars, processVars, readVars
<1>11. ASSUME CaptureReasons(w) # {}, UNCHANGED <<tool, code>> PROVE WatchTypeOK' /\ AllWatched' /\ Admitted'
  <2>1.  /\ watch' = [watch EXCEPT ![w] = "reap refused"]
         /\ tool' = [tool EXCEPT ![w] = tool[w]]
         /\ code' = [code EXCEPT ![w] = code[w]]
         /\ wrote' = [wrote EXCEPT ![w] = wrote[w]]
         /\ length' = [length EXCEPT ![w] = length[w]]
         /\ glance' = [glance EXCEPT ![w] = glance[w]]
         /\ told' = [told EXCEPT ![w] = told[w]]
         /\ pauses' = [pauses EXCEPT ![w] = pauses[w]]
         /\ keptBytes' = [keptBytes EXCEPT ![w] = keptBytes[w]]
    BY <1>0, <1>11 DEF JudgeLook, WatchTypeOK, GoOn, Tell, placeVars, processVars, readVars
  <2>2.  /\ "reap refused" \in WatchPlaces
    BY <1>0, <1>11, WatchAssumption DEF WatchTypeOK, WatchPlaces, Glances, NoLook, Unread
  <2>3. Watched("reap refused", tool[w], code[w], wrote[w], length[w], glance[w], told[w], pauses[w])
    BY <1>0, <1>9, <1>11, WatchAssumption, LengthsAreNumbers DEF JudgeLook, Watched, NowWatched, WatchTypeOK, WithinOutput, CaptureReasons, InTime, Room, NoLook
  <2>4. NowAdmitted("reap refused", wrote[w], told[w], keptBytes[w])
    BY <1>0, <1>8, <1>9, <1>11 DEF JudgeLook, NowAdmitted, Watched, NowWatched
  <2>5. WatchTypeOK'
    BY <1>0, <1>7, <2>1, <2>2 DEF WatchTypeOK
  <2>6. ASSUME NEW v \in Watchers, v # w PROVE Untouched(v)
    BY <1>0, <2>1, <2>6 DEF WatchTypeOK, Untouched
  <2>7. watch'[w] = "reap refused" /\ tool'[w] = tool[w] /\ code'[w] = code[w] /\ wrote'[w] = wrote[w] /\ length'[w] = length[w] /\ glance'[w] = glance[w] /\ told'[w] = told[w] /\ pauses'[w] = pauses[w] /\ keptBytes'[w] = keptBytes[w]
    BY <1>0, <2>1 DEF WatchTypeOK
  <2>8. NowWatched(w)' /\ NowAdmitted(watch[w], wrote[w], told[w], keptBytes[w])'
    BY <2>3, <2>4, <2>7 DEF NowWatched
  <2> QED
    BY <1>0, <2>5, <2>6, <2>8, WatcherMoves
<1>12. ASSUME CaptureReasons(w) # {}, tool' = [tool EXCEPT ![w] = "exited"], code' = [code EXCEPT ![w] = "signal"] PROVE WatchTypeOK' /\ AllWatched' /\ Admitted'
  <2>1.  /\ watch' = [watch EXCEPT ![w] = "reap refused"]
         /\ tool' = [tool EXCEPT ![w] = "exited"]
         /\ code' = [code EXCEPT ![w] = "signal"]
         /\ wrote' = [wrote EXCEPT ![w] = wrote[w]]
         /\ length' = [length EXCEPT ![w] = length[w]]
         /\ glance' = [glance EXCEPT ![w] = glance[w]]
         /\ told' = [told EXCEPT ![w] = told[w]]
         /\ pauses' = [pauses EXCEPT ![w] = pauses[w]]
         /\ keptBytes' = [keptBytes EXCEPT ![w] = keptBytes[w]]
    BY <1>0, <1>12 DEF JudgeLook, WatchTypeOK, GoOn, Tell, placeVars, processVars, readVars
  <2>2.  /\ "reap refused" \in WatchPlaces
         /\ "exited" \in {"none", "running", "exited", "gone"}
         /\ "signal" \in {"none", "zero", "other", "signal"}
    BY <1>0, <1>12, WatchAssumption DEF WatchTypeOK, WatchPlaces, Glances, NoLook, Unread
  <2>3. Watched("reap refused", "exited", "signal", wrote[w], length[w], glance[w], told[w], pauses[w])
    BY <1>0, <1>9, <1>12, WatchAssumption, LengthsAreNumbers DEF JudgeLook, Watched, NowWatched, WatchTypeOK, WithinOutput, CaptureReasons, InTime, Room, NoLook
  <2>4. NowAdmitted("reap refused", wrote[w], told[w], keptBytes[w])
    BY <1>0, <1>8, <1>9, <1>12 DEF JudgeLook, NowAdmitted, Watched, NowWatched
  <2>5. WatchTypeOK'
    BY <1>0, <1>7, <2>1, <2>2 DEF WatchTypeOK
  <2>6. ASSUME NEW v \in Watchers, v # w PROVE Untouched(v)
    BY <1>0, <2>1, <2>6 DEF WatchTypeOK, Untouched
  <2>7. watch'[w] = "reap refused" /\ tool'[w] = "exited" /\ code'[w] = "signal" /\ wrote'[w] = wrote[w] /\ length'[w] = length[w] /\ glance'[w] = glance[w] /\ told'[w] = told[w] /\ pauses'[w] = pauses[w] /\ keptBytes'[w] = keptBytes[w]
    BY <1>0, <2>1 DEF WatchTypeOK
  <2>8. NowWatched(w)' /\ NowAdmitted(watch[w], wrote[w], told[w], keptBytes[w])'
    BY <2>3, <2>4, <2>7 DEF NowWatched
  <2> QED
    BY <1>0, <2>5, <2>6, <2>8, WatcherMoves
<1>13. ASSUME CaptureReasons(w) = {} /\ glance[w].state = "zero" PROVE WatchTypeOK' /\ AllWatched' /\ Admitted'
  <2>1.  /\ watch' = [watch EXCEPT ![w] = "reap"]
         /\ tool' = [tool EXCEPT ![w] = tool[w]]
         /\ code' = [code EXCEPT ![w] = code[w]]
         /\ wrote' = [wrote EXCEPT ![w] = wrote[w]]
         /\ length' = [length EXCEPT ![w] = length[w]]
         /\ glance' = [glance EXCEPT ![w] = glance[w]]
         /\ told' = [told EXCEPT ![w] = told[w]]
         /\ pauses' = [pauses EXCEPT ![w] = pauses[w]]
         /\ keptBytes' = [keptBytes EXCEPT ![w] = keptBytes[w]]
    BY <1>0, <1>13 DEF JudgeLook, WatchTypeOK, GoOn, Tell, placeVars, processVars, readVars
  <2>2.  /\ "reap" \in WatchPlaces
    BY <1>0, <1>13, WatchAssumption DEF WatchTypeOK, WatchPlaces, Glances, NoLook, Unread
  <2>3. Watched("reap", tool[w], code[w], wrote[w], length[w], glance[w], told[w], pauses[w])
    <3>1. watch[w] = "judge" /\ glance[w].output \in {"unknown", "within", "beyond"}
      BY <1>0, <1>9 DEF JudgeLook, NowWatched, Watched, WatchTypeOK, Glances
    <3>2. glance[w].output = "within"
      BY <1>13, <3>1 DEF CaptureReasons
    <3> QED
      BY <1>9, <1>13, <3>1, <3>2 DEF Watched, NowWatched
  <2>4. NowAdmitted("reap", wrote[w], told[w], keptBytes[w])
    BY <1>0, <1>8, <1>9, <1>13 DEF JudgeLook, NowAdmitted, Watched, NowWatched
  <2>5. WatchTypeOK'
    BY <1>0, <1>7, <2>1, <2>2 DEF WatchTypeOK
  <2>6. ASSUME NEW v \in Watchers, v # w PROVE Untouched(v)
    BY <1>0, <2>1, <2>6 DEF WatchTypeOK, Untouched
  <2>7. watch'[w] = "reap" /\ tool'[w] = tool[w] /\ code'[w] = code[w] /\ wrote'[w] = wrote[w] /\ length'[w] = length[w] /\ glance'[w] = glance[w] /\ told'[w] = told[w] /\ pauses'[w] = pauses[w] /\ keptBytes'[w] = keptBytes[w]
    BY <1>0, <2>1 DEF WatchTypeOK
  <2>8. NowWatched(w)' /\ NowAdmitted(watch[w], wrote[w], told[w], keptBytes[w])'
    BY <2>3, <2>4, <2>7 DEF NowWatched
  <2> QED
    BY <1>0, <2>5, <2>6, <2>8, WatcherMoves
<1>14. ASSUME CaptureReasons(w) = {} /\ glance[w].state # "zero" PROVE WatchTypeOK' /\ AllWatched' /\ Admitted'
  <2>1.  /\ watch' = [watch EXCEPT ![w] = "sleep"]
         /\ tool' = [tool EXCEPT ![w] = tool[w]]
         /\ code' = [code EXCEPT ![w] = code[w]]
         /\ wrote' = [wrote EXCEPT ![w] = wrote[w]]
         /\ length' = [length EXCEPT ![w] = length[w]]
         /\ glance' = [glance EXCEPT ![w] = glance[w]]
         /\ told' = [told EXCEPT ![w] = told[w]]
         /\ pauses' = [pauses EXCEPT ![w] = pauses[w]]
         /\ keptBytes' = [keptBytes EXCEPT ![w] = keptBytes[w]]
    BY <1>0, <1>14 DEF JudgeLook, WatchTypeOK, GoOn, Tell, placeVars, processVars, readVars
  <2>2.  /\ "sleep" \in WatchPlaces
    BY <1>0, <1>14, WatchAssumption DEF WatchTypeOK, WatchPlaces, Glances, NoLook, Unread
  <2>3. Watched("sleep", tool[w], code[w], wrote[w], length[w], glance[w], told[w], pauses[w])
    BY <1>0, <1>9, <1>14, WatchAssumption, LengthsAreNumbers DEF JudgeLook, Watched, NowWatched, WatchTypeOK, WithinOutput, CaptureReasons, InTime, Room, NoLook
  <2>4. NowAdmitted("sleep", wrote[w], told[w], keptBytes[w])
    BY <1>0, <1>8, <1>9, <1>14 DEF JudgeLook, NowAdmitted, Watched, NowWatched
  <2>5. WatchTypeOK'
    BY <1>0, <1>7, <2>1, <2>2 DEF WatchTypeOK
  <2>6. ASSUME NEW v \in Watchers, v # w PROVE Untouched(v)
    BY <1>0, <2>1, <2>6 DEF WatchTypeOK, Untouched
  <2>7. watch'[w] = "sleep" /\ tool'[w] = tool[w] /\ code'[w] = code[w] /\ wrote'[w] = wrote[w] /\ length'[w] = length[w] /\ glance'[w] = glance[w] /\ told'[w] = told[w] /\ pauses'[w] = pauses[w] /\ keptBytes'[w] = keptBytes[w]
    BY <1>0, <2>1 DEF WatchTypeOK
  <2>8. NowWatched(w)' /\ NowAdmitted(watch[w], wrote[w], told[w], keptBytes[w])'
    BY <2>3, <2>4, <2>7 DEF NowWatched
  <2> QED
    BY <1>0, <2>5, <2>6, <2>8, WatcherMoves
<1>1. WatchTypeOK' /\ AllWatched' /\ Admitted'
  BY <1>11, <1>12, <1>13, <1>14 DEF JudgeLook, Tell, GoOn
<1>2. ClaimsApart'
  <2>1. UNCHANGED <<claims, evidenceId>>
    BY DEF JudgeLook, placeVars
  <2>2. \A v \in Watchers : Claiming(v)' => Claiming(v)
    BY <1>0, <1>9 DEF JudgeLook, Claiming, WatchTypeOK, GoOn, Tell, NowWatched, Watched
  <2> QED
    BY <1>0, <2>1, <2>2, ClaimsStay
<1> QED
  BY <1>1, <1>2 DEF ToolRunInv

\* A watcher waits.
LEMMA SleepBetweenKeeps ==
  ASSUME ToolRunInv, NEW w \in Watchers, SleepBetween(w)
  PROVE  ToolRunInv'
<1>0. WatchTypeOK /\ AllWatched /\ Admitted /\ ClaimsApart
  BY DEF ToolRunInv
<1>9. NowWatched(w)
  BY <1>0 DEF AllWatched, NowWatched
<1>8. NowAdmitted(watch[w], wrote[w], told[w], keptBytes[w])
  BY <1>0 DEF Admitted, NowAdmitted
<1>7. /\ evidenceId' \in [Watchers -> EvidenceIds \cup {NoId}]
      /\ claims' \subseteq EvidenceIds /\ folders' \subseteq EvidenceIds
      /\ stray' \in [Watchers -> BOOLEAN] /\ reading' \in [Watchers -> Readings]
  BY <1>0, <1>9, WatchAssumption DEF SleepBetween, WatchTypeOK, placeVars, processVars, readVars
<1>1. WatchTypeOK' /\ AllWatched' /\ Admitted'
  <2>1.  /\ watch' = [watch EXCEPT ![w] = "state"]
         /\ tool' = [tool EXCEPT ![w] = tool[w]]
         /\ code' = [code EXCEPT ![w] = code[w]]
         /\ wrote' = [wrote EXCEPT ![w] = wrote[w]]
         /\ length' = [length EXCEPT ![w] = length[w]]
         /\ glance' = [glance EXCEPT ![w] = NoLook]
         /\ told' = [told EXCEPT ![w] = told[w]]
         /\ pauses' = [pauses EXCEPT ![w] = pauses[w] + 1]
         /\ keptBytes' = [keptBytes EXCEPT ![w] = keptBytes[w]]
    BY <1>0 DEF SleepBetween, WatchTypeOK, GoOn, Tell, placeVars, processVars, readVars
  <2>2.  /\ "state" \in WatchPlaces
         /\ NoLook \in Glances
         /\ pauses[w] + 1 \in 0..TimeLimit
    <3>1. pauses[w] < TimeLimit /\ pauses[w] \in 0..TimeLimit
      BY <1>0, <1>9 DEF SleepBetween, NowWatched, Watched, WatchTypeOK
    <3>2. pauses[w] + 1 \in 0..TimeLimit
      BY <3>1, WatchAssumption
    <3> QED
      BY <3>2 DEF WatchPlaces, Glances, NoLook
  <2>3. Watched("state", tool[w], code[w], wrote[w], length[w], NoLook, told[w], pauses[w] + 1)
    BY <1>0, <1>9, WatchAssumption DEF SleepBetween, Watched, NowWatched, WatchTypeOK, WithinOutput, CaptureReasons, InTime, Room, NoLook
  <2>4. NowAdmitted("state", wrote[w], told[w], keptBytes[w])
    BY <1>0, <1>8, <1>9 DEF SleepBetween, NowAdmitted, Watched, NowWatched
  <2>5. WatchTypeOK'
    BY <1>0, <1>7, <2>1, <2>2 DEF WatchTypeOK
  <2>6. ASSUME NEW v \in Watchers, v # w PROVE Untouched(v)
    BY <1>0, <2>1, <2>6 DEF WatchTypeOK, Untouched
  <2>7. watch'[w] = "state" /\ tool'[w] = tool[w] /\ code'[w] = code[w] /\ wrote'[w] = wrote[w] /\ length'[w] = length[w] /\ glance'[w] = NoLook /\ told'[w] = told[w] /\ pauses'[w] = pauses[w] + 1 /\ keptBytes'[w] = keptBytes[w]
    BY <1>0, <2>1 DEF WatchTypeOK
  <2>8. NowWatched(w)' /\ NowAdmitted(watch[w], wrote[w], told[w], keptBytes[w])'
    BY <2>3, <2>4, <2>7 DEF NowWatched
  <2> QED
    BY <1>0, <2>5, <2>6, <2>8, WatcherMoves
<1>2. ClaimsApart'
  <2>1. UNCHANGED <<claims, evidenceId>>
    BY DEF SleepBetween, placeVars
  <2>2. \A v \in Watchers : Claiming(v)' => Claiming(v)
    BY <1>0, <1>9 DEF SleepBetween, Claiming, WatchTypeOK, GoOn, Tell, NowWatched, Watched
  <2> QED
    BY <1>0, <2>1, <2>2, ClaimsStay
<1> QED
  BY <1>1, <1>2 DEF ToolRunInv

\* A watcher waits for the tool that ended.
LEMMA ReapToolKeeps ==
  ASSUME ToolRunInv, NEW w \in Watchers, ReapTool(w)
  PROVE  ToolRunInv'
<1>0. WatchTypeOK /\ AllWatched /\ Admitted /\ ClaimsApart
  BY DEF ToolRunInv
<1>9. NowWatched(w)
  BY <1>0 DEF AllWatched, NowWatched
<1>8. NowAdmitted(watch[w], wrote[w], told[w], keptBytes[w])
  BY <1>0 DEF Admitted, NowAdmitted
<1>7. /\ evidenceId' \in [Watchers -> EvidenceIds \cup {NoId}]
      /\ claims' \subseteq EvidenceIds /\ folders' \subseteq EvidenceIds
      /\ stray' \in [Watchers -> BOOLEAN] /\ reading' \in [Watchers -> Readings]
  BY <1>0, <1>9, WatchAssumption DEF ReapTool, WatchTypeOK, placeVars, processVars, readVars
<1>11. ASSUME watch[w] = "reap" /\ told' = [told EXCEPT ![w] = "captured"] PROVE WatchTypeOK' /\ AllWatched' /\ Admitted'
  <2>1.  /\ watch' = [watch EXCEPT ![w] = "read"]
         /\ tool' = [tool EXCEPT ![w] = "gone"]
         /\ code' = [code EXCEPT ![w] = code[w]]
         /\ wrote' = [wrote EXCEPT ![w] = wrote[w]]
         /\ length' = [length EXCEPT ![w] = length[w]]
         /\ glance' = [glance EXCEPT ![w] = glance[w]]
         /\ told' = [told EXCEPT ![w] = "captured"]
         /\ pauses' = [pauses EXCEPT ![w] = pauses[w]]
         /\ keptBytes' = [keptBytes EXCEPT ![w] = keptBytes[w]]
    BY <1>0, <1>11 DEF ReapTool, WatchTypeOK, GoOn, Tell, placeVars, processVars, readVars
  <2>2.  /\ "read" \in WatchPlaces
         /\ "gone" \in {"none", "running", "exited", "gone"}
         /\ "captured" \in {"nothing", "not started", "captured", "refused", "wait failed"}
    BY <1>0, <1>11, WatchAssumption DEF WatchTypeOK, WatchPlaces, Glances, NoLook, Unread
  <2>3. Watched("read", "gone", code[w], wrote[w], length[w], glance[w], "captured", pauses[w])
    BY <1>0, <1>9, <1>11, WatchAssumption DEF ReapTool, Watched, NowWatched, WatchTypeOK, WithinOutput, CaptureReasons, InTime, Room, NoLook
  <2>4. NowAdmitted("read", wrote[w], "captured", keptBytes[w])
    BY <1>0, <1>8, <1>9, <1>11 DEF ReapTool, NowAdmitted, Watched, NowWatched
  <2>5. WatchTypeOK'
    BY <1>0, <1>7, <2>1, <2>2 DEF WatchTypeOK
  <2>6. ASSUME NEW v \in Watchers, v # w PROVE Untouched(v)
    BY <1>0, <2>1, <2>6 DEF WatchTypeOK, Untouched
  <2>7. watch'[w] = "read" /\ tool'[w] = "gone" /\ code'[w] = code[w] /\ wrote'[w] = wrote[w] /\ length'[w] = length[w] /\ glance'[w] = glance[w] /\ told'[w] = "captured" /\ pauses'[w] = pauses[w] /\ keptBytes'[w] = keptBytes[w]
    BY <1>0, <2>1 DEF WatchTypeOK
  <2>8. NowWatched(w)' /\ NowAdmitted(watch[w], wrote[w], told[w], keptBytes[w])'
    BY <2>3, <2>4, <2>7 DEF NowWatched
  <2> QED
    BY <1>0, <2>5, <2>6, <2>8, WatcherMoves
<1>12. ASSUME told' = [told EXCEPT ![w] = "refused"] PROVE WatchTypeOK' /\ AllWatched' /\ Admitted'
  <2>1.  /\ watch' = [watch EXCEPT ![w] = "done"]
         /\ tool' = [tool EXCEPT ![w] = "gone"]
         /\ code' = [code EXCEPT ![w] = code[w]]
         /\ wrote' = [wrote EXCEPT ![w] = wrote[w]]
         /\ length' = [length EXCEPT ![w] = length[w]]
         /\ glance' = [glance EXCEPT ![w] = glance[w]]
         /\ told' = [told EXCEPT ![w] = "refused"]
         /\ pauses' = [pauses EXCEPT ![w] = pauses[w]]
         /\ keptBytes' = [keptBytes EXCEPT ![w] = keptBytes[w]]
    BY <1>0, <1>12 DEF ReapTool, WatchTypeOK, GoOn, Tell, placeVars, processVars, readVars
  <2>2.  /\ "done" \in WatchPlaces
         /\ "gone" \in {"none", "running", "exited", "gone"}
         /\ "refused" \in {"nothing", "not started", "captured", "refused", "wait failed"}
    BY <1>0, <1>12, WatchAssumption DEF WatchTypeOK, WatchPlaces, Glances, NoLook, Unread
  <2>3. Watched("done", "gone", code[w], wrote[w], length[w], glance[w], "refused", pauses[w])
    BY <1>0, <1>9, <1>12, WatchAssumption DEF ReapTool, Watched, NowWatched, WatchTypeOK, WithinOutput, CaptureReasons, InTime, Room, NoLook
  <2>4. NowAdmitted("done", wrote[w], "refused", keptBytes[w])
    BY <1>0, <1>8, <1>9, <1>12 DEF ReapTool, NowAdmitted, Watched, NowWatched
  <2>5. WatchTypeOK'
    BY <1>0, <1>7, <2>1, <2>2 DEF WatchTypeOK
  <2>6. ASSUME NEW v \in Watchers, v # w PROVE Untouched(v)
    BY <1>0, <2>1, <2>6 DEF WatchTypeOK, Untouched
  <2>7. watch'[w] = "done" /\ tool'[w] = "gone" /\ code'[w] = code[w] /\ wrote'[w] = wrote[w] /\ length'[w] = length[w] /\ glance'[w] = glance[w] /\ told'[w] = "refused" /\ pauses'[w] = pauses[w] /\ keptBytes'[w] = keptBytes[w]
    BY <1>0, <2>1 DEF WatchTypeOK
  <2>8. NowWatched(w)' /\ NowAdmitted(watch[w], wrote[w], told[w], keptBytes[w])'
    BY <2>3, <2>4, <2>7 DEF NowWatched
  <2> QED
    BY <1>0, <2>5, <2>6, <2>8, WatcherMoves
<1>13. ASSUME told' = [told EXCEPT ![w] = "wait failed"] PROVE WatchTypeOK' /\ AllWatched' /\ Admitted'
  <2>1.  /\ watch' = [watch EXCEPT ![w] = "done"]
         /\ tool' = [tool EXCEPT ![w] = tool[w]]
         /\ code' = [code EXCEPT ![w] = code[w]]
         /\ wrote' = [wrote EXCEPT ![w] = wrote[w]]
         /\ length' = [length EXCEPT ![w] = length[w]]
         /\ glance' = [glance EXCEPT ![w] = glance[w]]
         /\ told' = [told EXCEPT ![w] = "wait failed"]
         /\ pauses' = [pauses EXCEPT ![w] = pauses[w]]
         /\ keptBytes' = [keptBytes EXCEPT ![w] = keptBytes[w]]
    BY <1>0, <1>13 DEF ReapTool, WatchTypeOK, GoOn, Tell, placeVars, processVars, readVars
  <2>2.  /\ "done" \in WatchPlaces
         /\ "wait failed" \in {"nothing", "not started", "captured", "refused", "wait failed"}
    BY <1>0, <1>13, WatchAssumption DEF WatchTypeOK, WatchPlaces, Glances, NoLook, Unread
  <2>3. Watched("done", tool[w], code[w], wrote[w], length[w], glance[w], "wait failed", pauses[w])
    BY <1>0, <1>9, <1>13, WatchAssumption DEF ReapTool, Watched, NowWatched, WatchTypeOK, WithinOutput, CaptureReasons, InTime, Room, NoLook
  <2>4. NowAdmitted("done", wrote[w], "wait failed", keptBytes[w])
    BY <1>0, <1>8, <1>9, <1>13 DEF ReapTool, NowAdmitted, Watched, NowWatched
  <2>5. WatchTypeOK'
    BY <1>0, <1>7, <2>1, <2>2 DEF WatchTypeOK
  <2>6. ASSUME NEW v \in Watchers, v # w PROVE Untouched(v)
    BY <1>0, <2>1, <2>6 DEF WatchTypeOK, Untouched
  <2>7. watch'[w] = "done" /\ tool'[w] = tool[w] /\ code'[w] = code[w] /\ wrote'[w] = wrote[w] /\ length'[w] = length[w] /\ glance'[w] = glance[w] /\ told'[w] = "wait failed" /\ pauses'[w] = pauses[w] /\ keptBytes'[w] = keptBytes[w]
    BY <1>0, <2>1 DEF WatchTypeOK
  <2>8. NowWatched(w)' /\ NowAdmitted(watch[w], wrote[w], told[w], keptBytes[w])'
    BY <2>3, <2>4, <2>7 DEF NowWatched
  <2> QED
    BY <1>0, <2>5, <2>6, <2>8, WatcherMoves
<1>1. WatchTypeOK' /\ AllWatched' /\ Admitted'
  BY <1>11, <1>12, <1>13 DEF ReapTool, Tell, GoOn
<1>2. ClaimsApart'
  <2>1. UNCHANGED <<claims, evidenceId>>
    BY DEF ReapTool, placeVars
  <2>2. \A v \in Watchers : Claiming(v)' => Claiming(v)
    BY <1>0, <1>9 DEF ReapTool, Claiming, WatchTypeOK, GoOn, Tell, NowWatched, Watched
  <2> QED
    BY <1>0, <2>1, <2>2, ClaimsStay
<1> QED
  BY <1>1, <1>2 DEF ToolRunInv

\* A watcher reads the length of the output.
LEMMA ReadLengthKeeps ==
  ASSUME ToolRunInv, NEW w \in Watchers, ReadLength(w)
  PROVE  ToolRunInv'
<1>0. WatchTypeOK /\ AllWatched /\ Admitted /\ ClaimsApart
  BY DEF ToolRunInv
<1>9. NowWatched(w)
  BY <1>0 DEF AllWatched, NowWatched
<1>8. NowAdmitted(watch[w], wrote[w], told[w], keptBytes[w])
  BY <1>0 DEF Admitted, NowAdmitted
<1>7. /\ evidenceId' \in [Watchers -> EvidenceIds \cup {NoId}]
      /\ claims' \subseteq EvidenceIds /\ folders' \subseteq EvidenceIds
      /\ stray' \in [Watchers -> BOOLEAN] /\ reading' \in [Watchers -> Readings]
  <2>1. UNCHANGED <<evidenceId, claims, folders, stray>>
    BY DEF ReadLength, placeVars, processVars
  <2>2. length[w].out \in 0..Unread /\ OutLimit + 1 \in 0..Unread
    BY <1>0, LengthsAreNumbers, UnreadIsNumber DEF WatchTypeOK
  <2>3. UNCHANGED reading \/ \E n \in 0..Unread : reading' = [reading EXCEPT ![w] = [reading[w] EXCEPT !.before = n]]
    BY <2>2 DEF ReadLength
  <2>4. ASSUME NEW r \in Readings, NEW n \in 0..Unread PROVE [r EXCEPT !.before = n] \in Readings
    BY DEF Readings
  <2>5. reading' \in [Watchers -> Readings]
    <3>1. reading \in [Watchers -> Readings] /\ reading[w] \in Readings
      BY <1>0 DEF WatchTypeOK
    <3>2. CASE UNCHANGED reading
      BY <3>1, <3>2
    <3>3. ASSUME NEW n \in 0..Unread, reading' = [reading EXCEPT ![w] = [reading[w] EXCEPT !.before = n]]
          PROVE  reading' \in [Watchers -> Readings]
      <4>1. [reading[w] EXCEPT !.before = n] \in Readings
        BY <2>4, <3>1
      <4> QED
        BY <3>1, <3>3, <4>1
    <3> QED
      BY <2>3, <3>2, <3>3
  <2> QED
    BY <1>0, <2>1, <2>5 DEF WatchTypeOK
<1>11. ASSUME length[w].out > OutLimit PROVE WatchTypeOK' /\ AllWatched' /\ Admitted'
  <2>1.  /\ watch' = [watch EXCEPT ![w] = "done"]
         /\ tool' = [tool EXCEPT ![w] = tool[w]]
         /\ code' = [code EXCEPT ![w] = code[w]]
         /\ wrote' = [wrote EXCEPT ![w] = wrote[w]]
         /\ length' = [length EXCEPT ![w] = length[w]]
         /\ glance' = [glance EXCEPT ![w] = glance[w]]
         /\ told' = [told EXCEPT ![w] = told[w]]
         /\ pauses' = [pauses EXCEPT ![w] = pauses[w]]
         /\ keptBytes' = [keptBytes EXCEPT ![w] = keptBytes[w]]
    BY <1>0, <1>11 DEF ReadLength, WatchTypeOK, GoOn, Tell, placeVars, processVars, readVars
  <2>2.  /\ "done" \in WatchPlaces
    BY <1>0, <1>11, WatchAssumption DEF WatchTypeOK, WatchPlaces, Glances, NoLook, Unread
  <2>3. Watched("done", tool[w], code[w], wrote[w], length[w], glance[w], told[w], pauses[w])
    BY <1>0, <1>9, <1>11, WatchAssumption DEF ReadLength, Watched, NowWatched, WatchTypeOK, WithinOutput, CaptureReasons, InTime, Room, NoLook
  <2>4. NowAdmitted("done", wrote[w], told[w], keptBytes[w])
    BY <1>0, <1>8, <1>9, <1>11 DEF ReadLength, NowAdmitted, Watched, NowWatched
  <2>5. WatchTypeOK'
    BY <1>0, <1>7, <2>1, <2>2 DEF WatchTypeOK
  <2>6. ASSUME NEW v \in Watchers, v # w PROVE Untouched(v)
    BY <1>0, <2>1, <2>6 DEF WatchTypeOK, Untouched
  <2>7. watch'[w] = "done" /\ tool'[w] = tool[w] /\ code'[w] = code[w] /\ wrote'[w] = wrote[w] /\ length'[w] = length[w] /\ glance'[w] = glance[w] /\ told'[w] = told[w] /\ pauses'[w] = pauses[w] /\ keptBytes'[w] = keptBytes[w]
    BY <1>0, <2>1 DEF WatchTypeOK
  <2>8. NowWatched(w)' /\ NowAdmitted(watch[w], wrote[w], told[w], keptBytes[w])'
    BY <2>3, <2>4, <2>7 DEF NowWatched
  <2> QED
    BY <1>0, <2>5, <2>6, <2>8, WatcherMoves
<1>12. ASSUME ~(length[w].out > OutLimit) PROVE WatchTypeOK' /\ AllWatched' /\ Admitted'
  <2>1.  /\ watch' = [watch EXCEPT ![w] = "read bytes"]
         /\ tool' = [tool EXCEPT ![w] = tool[w]]
         /\ code' = [code EXCEPT ![w] = code[w]]
         /\ wrote' = [wrote EXCEPT ![w] = wrote[w]]
         /\ length' = [length EXCEPT ![w] = length[w]]
         /\ glance' = [glance EXCEPT ![w] = glance[w]]
         /\ told' = [told EXCEPT ![w] = told[w]]
         /\ pauses' = [pauses EXCEPT ![w] = pauses[w]]
         /\ keptBytes' = [keptBytes EXCEPT ![w] = keptBytes[w]]
    BY <1>0, <1>12 DEF ReadLength, WatchTypeOK, GoOn, Tell, placeVars, processVars, readVars
  <2>2.  /\ "read bytes" \in WatchPlaces
    BY <1>0, <1>12, WatchAssumption DEF WatchTypeOK, WatchPlaces, Glances, NoLook, Unread
  <2>3. Watched("read bytes", tool[w], code[w], wrote[w], length[w], glance[w], told[w], pauses[w])
    BY <1>0, <1>9, <1>12, WatchAssumption DEF ReadLength, Watched, NowWatched, WatchTypeOK, WithinOutput, CaptureReasons, InTime, Room, NoLook
  <2>4. NowAdmitted("read bytes", wrote[w], told[w], keptBytes[w])
    BY <1>0, <1>8, <1>9, <1>12 DEF ReadLength, NowAdmitted, Watched, NowWatched
  <2>5. WatchTypeOK'
    BY <1>0, <1>7, <2>1, <2>2 DEF WatchTypeOK
  <2>6. ASSUME NEW v \in Watchers, v # w PROVE Untouched(v)
    BY <1>0, <2>1, <2>6 DEF WatchTypeOK, Untouched
  <2>7. watch'[w] = "read bytes" /\ tool'[w] = tool[w] /\ code'[w] = code[w] /\ wrote'[w] = wrote[w] /\ length'[w] = length[w] /\ glance'[w] = glance[w] /\ told'[w] = told[w] /\ pauses'[w] = pauses[w] /\ keptBytes'[w] = keptBytes[w]
    BY <1>0, <2>1 DEF WatchTypeOK
  <2>8. NowWatched(w)' /\ NowAdmitted(watch[w], wrote[w], told[w], keptBytes[w])'
    BY <2>3, <2>4, <2>7 DEF NowWatched
  <2> QED
    BY <1>0, <2>5, <2>6, <2>8, WatcherMoves
<1>1. WatchTypeOK' /\ AllWatched' /\ Admitted'
  BY <1>11, <1>12 DEF ReadLength, Tell, GoOn
<1>2. ClaimsApart'
  <2>1. UNCHANGED <<claims, evidenceId>>
    BY DEF ReadLength, placeVars
  <2>2. \A v \in Watchers : Claiming(v)' => Claiming(v)
    BY <1>0, <1>9 DEF ReadLength, Claiming, WatchTypeOK, GoOn, Tell, NowWatched, Watched
  <2> QED
    BY <1>0, <2>1, <2>2, ClaimsStay
<1> QED
  BY <1>1, <1>2 DEF ToolRunInv

\* A watcher reads the output.
LEMMA ReadBytesKeeps ==
  ASSUME ToolRunInv, NEW w \in Watchers, ReadBytes(w)
  PROVE  ToolRunInv'
<1>0. WatchTypeOK /\ AllWatched /\ Admitted /\ ClaimsApart
  BY DEF ToolRunInv
<1>9. NowWatched(w)
  BY <1>0 DEF AllWatched, NowWatched
<1>8. NowAdmitted(watch[w], wrote[w], told[w], keptBytes[w])
  BY <1>0 DEF Admitted, NowAdmitted
<1>7. /\ evidenceId' \in [Watchers -> EvidenceIds \cup {NoId}]
      /\ claims' \subseteq EvidenceIds /\ folders' \subseteq EvidenceIds
      /\ stray' \in [Watchers -> BOOLEAN] /\ reading' \in [Watchers -> Readings]
  <2>1. UNCHANGED <<evidenceId, claims, folders, stray>>
    BY DEF ReadBytes, placeVars, processVars
  <2>2. length[w].out \in 0..Unread /\ OutLimit + 1 \in 0..Unread
    BY <1>0, LengthsAreNumbers, UnreadIsNumber DEF WatchTypeOK
  <2>3. UNCHANGED reading \/ \E n \in 0..Unread : reading' = [reading EXCEPT ![w] = [reading[w] EXCEPT !.got = n]]
    BY <2>2 DEF ReadBytes
  <2>4. ASSUME NEW r \in Readings, NEW n \in 0..Unread PROVE [r EXCEPT !.got = n] \in Readings
    BY DEF Readings
  <2>5. reading' \in [Watchers -> Readings]
    <3>1. reading \in [Watchers -> Readings] /\ reading[w] \in Readings
      BY <1>0 DEF WatchTypeOK
    <3>2. CASE UNCHANGED reading
      BY <3>1, <3>2
    <3>3. ASSUME NEW n \in 0..Unread, reading' = [reading EXCEPT ![w] = [reading[w] EXCEPT !.got = n]]
          PROVE  reading' \in [Watchers -> Readings]
      <4>1. [reading[w] EXCEPT !.got = n] \in Readings
        BY <2>4, <3>1
      <4> QED
        BY <3>1, <3>3, <4>1
    <3> QED
      BY <2>3, <3>2, <3>3
  <2> QED
    BY <1>0, <2>1, <2>5 DEF WatchTypeOK
<1>1. WatchTypeOK' /\ AllWatched' /\ Admitted'
  <2>1.  /\ watch' = [watch EXCEPT ![w] = "read after"]
         /\ tool' = [tool EXCEPT ![w] = tool[w]]
         /\ code' = [code EXCEPT ![w] = code[w]]
         /\ wrote' = [wrote EXCEPT ![w] = wrote[w]]
         /\ length' = [length EXCEPT ![w] = length[w]]
         /\ glance' = [glance EXCEPT ![w] = glance[w]]
         /\ told' = [told EXCEPT ![w] = told[w]]
         /\ pauses' = [pauses EXCEPT ![w] = pauses[w]]
         /\ keptBytes' = [keptBytes EXCEPT ![w] = keptBytes[w]]
    BY <1>0 DEF ReadBytes, WatchTypeOK, GoOn, Tell, placeVars, processVars, readVars
  <2>2.  /\ "read after" \in WatchPlaces
    BY <1>0, WatchAssumption DEF WatchTypeOK, WatchPlaces, Glances, NoLook, Unread
  <2>3. Watched("read after", tool[w], code[w], wrote[w], length[w], glance[w], told[w], pauses[w])
    BY <1>0, <1>9, WatchAssumption DEF ReadBytes, Watched, NowWatched, WatchTypeOK, WithinOutput, CaptureReasons, InTime, Room, NoLook
  <2>4. NowAdmitted("read after", wrote[w], told[w], keptBytes[w])
    BY <1>0, <1>8, <1>9 DEF ReadBytes, NowAdmitted, Watched, NowWatched
  <2>5. WatchTypeOK'
    BY <1>0, <1>7, <2>1, <2>2 DEF WatchTypeOK
  <2>6. ASSUME NEW v \in Watchers, v # w PROVE Untouched(v)
    BY <1>0, <2>1, <2>6 DEF WatchTypeOK, Untouched
  <2>7. watch'[w] = "read after" /\ tool'[w] = tool[w] /\ code'[w] = code[w] /\ wrote'[w] = wrote[w] /\ length'[w] = length[w] /\ glance'[w] = glance[w] /\ told'[w] = told[w] /\ pauses'[w] = pauses[w] /\ keptBytes'[w] = keptBytes[w]
    BY <1>0, <2>1 DEF WatchTypeOK
  <2>8. NowWatched(w)' /\ NowAdmitted(watch[w], wrote[w], told[w], keptBytes[w])'
    BY <2>3, <2>4, <2>7 DEF NowWatched
  <2> QED
    BY <1>0, <2>5, <2>6, <2>8, WatcherMoves
<1>2. ClaimsApart'
  <2>1. UNCHANGED <<claims, evidenceId>>
    BY DEF ReadBytes, placeVars
  <2>2. \A v \in Watchers : Claiming(v)' => Claiming(v)
    BY <1>0, <1>9 DEF ReadBytes, Claiming, WatchTypeOK, GoOn, Tell, NowWatched, Watched
  <2> QED
    BY <1>0, <2>1, <2>2, ClaimsStay
<1> QED
  BY <1>1, <1>2 DEF ToolRunInv

\* A watcher admits what it read.
LEMMA AdmitBytesKeeps ==
  ASSUME ToolRunInv, NEW w \in Watchers, AdmitBytes(w)
  PROVE  ToolRunInv'
<1>0. WatchTypeOK /\ AllWatched /\ Admitted /\ ClaimsApart
  BY DEF ToolRunInv
<1>9. NowWatched(w)
  BY <1>0 DEF AllWatched, NowWatched
<1>8. NowAdmitted(watch[w], wrote[w], told[w], keptBytes[w])
  BY <1>0 DEF Admitted, NowAdmitted
<1>7. /\ evidenceId' \in [Watchers -> EvidenceIds \cup {NoId}]
      /\ claims' \subseteq EvidenceIds /\ folders' \subseteq EvidenceIds
      /\ stray' \in [Watchers -> BOOLEAN] /\ reading' \in [Watchers -> Readings]
  BY <1>0, <1>9, WatchAssumption DEF AdmitBytes, WatchTypeOK, placeVars, processVars, readVars
<1>12. PICK x \in 0..Unread : /\ keptBytes' = [keptBytes EXCEPT ![w] = x] /\ (x # Unread => x <= OutLimit /\ x = length[w].out)
  <2>1. Unread \in 0..Unread /\ reading[w].got \in 0..Unread
    BY <1>0, UnreadIsNumber DEF WatchTypeOK, Readings
  <2> QED
    BY <2>1 DEF AdmitBytes
<1>1. WatchTypeOK' /\ AllWatched' /\ Admitted'
  <2>1.  /\ watch' = [watch EXCEPT ![w] = "done"]
         /\ tool' = [tool EXCEPT ![w] = tool[w]]
         /\ code' = [code EXCEPT ![w] = code[w]]
         /\ wrote' = [wrote EXCEPT ![w] = wrote[w]]
         /\ length' = [length EXCEPT ![w] = length[w]]
         /\ glance' = [glance EXCEPT ![w] = glance[w]]
         /\ told' = [told EXCEPT ![w] = told[w]]
         /\ pauses' = [pauses EXCEPT ![w] = pauses[w]]
         /\ keptBytes' = [keptBytes EXCEPT ![w] = x]
    BY <1>0, <1>12 DEF AdmitBytes, WatchTypeOK, GoOn, Tell, placeVars, processVars, readVars
  <2>2.  /\ "done" \in WatchPlaces
         /\ x \in 0..Unread
    BY <1>0, <1>12, WatchAssumption DEF WatchTypeOK, WatchPlaces, Glances, NoLook, Unread
  <2>3. Watched("done", tool[w], code[w], wrote[w], length[w], glance[w], told[w], pauses[w])
    BY <1>0, <1>9, <1>12, WatchAssumption DEF AdmitBytes, Watched, NowWatched, WatchTypeOK, WithinOutput, CaptureReasons, InTime, Room, NoLook
  <2>4. NowAdmitted("done", wrote[w], told[w], x)
    BY <1>0, <1>8, <1>9, <1>12 DEF AdmitBytes, NowAdmitted, Watched, NowWatched
  <2>5. WatchTypeOK'
    BY <1>0, <1>7, <2>1, <2>2 DEF WatchTypeOK
  <2>6. ASSUME NEW v \in Watchers, v # w PROVE Untouched(v)
    BY <1>0, <2>1, <2>6 DEF WatchTypeOK, Untouched
  <2>7. watch'[w] = "done" /\ tool'[w] = tool[w] /\ code'[w] = code[w] /\ wrote'[w] = wrote[w] /\ length'[w] = length[w] /\ glance'[w] = glance[w] /\ told'[w] = told[w] /\ pauses'[w] = pauses[w] /\ keptBytes'[w] = x
    BY <1>0, <2>1 DEF WatchTypeOK
  <2>8. NowWatched(w)' /\ NowAdmitted(watch[w], wrote[w], told[w], keptBytes[w])'
    BY <2>3, <2>4, <2>7 DEF NowWatched
  <2> QED
    BY <1>0, <2>5, <2>6, <2>8, WatcherMoves
<1>2. ClaimsApart'
  <2>1. UNCHANGED <<claims, evidenceId>>
    BY DEF AdmitBytes, placeVars
  <2>2. \A v \in Watchers : Claiming(v)' => Claiming(v)
    BY <1>0, <1>9 DEF AdmitBytes, Claiming, WatchTypeOK, GoOn, Tell, NowWatched, Watched
  <2> QED
    BY <1>0, <2>1, <2>2, ClaimsStay
<1> QED
  BY <1>1, <1>2 DEF ToolRunInv

\* Every step keeps it.
LEMMA ToolRunStep == ToolRunInv /\ [ToolRunNext]_toolRunVars => ToolRunInv'
<1> SUFFICES ASSUME ToolRunInv, [ToolRunNext]_toolRunVars PROVE ToolRunInv'
  OBVIOUS
<1>1. CASE UNCHANGED toolRunVars
  BY ZenonT(60), <1>1 DEF toolRunVars, placeVars, processVars, readVars, ToolRunInv, WatchTypeOK, AllWatched, Watched,
              Admitted, ClaimsApart, Claiming
<1>2. ASSUME NEW w \in Watchers, WatcherStep(w) \/ ToolStep(w) PROVE ToolRunInv'
  <2>1. CASE ClaimEvidence(w)
    BY <2>1, ClaimEvidenceKeeps
  <2>2. CASE LookForEvidence(w)
    BY <2>2, LookForEvidenceKeeps
  <2>3. CASE MakeEvidence(w)
    BY <2>3, MakeEvidenceKeeps
  <2>4. CASE StartTool(w)
    BY <2>4, StartToolKeeps
  <2>5. CASE ToolWrites(w)
    BY <2>5, ToolWritesKeeps
  <2>6. CASE ToolForks(w)
    BY <2>6, ToolForksKeeps
  <2>7. CASE ToolExits(w)
    BY <2>7, ToolExitsKeeps
  <2>8. CASE StrayWrites(w)
    BY <2>8, StrayWritesKeeps
  <2>9. CASE StrayEnds(w)
    BY <2>9, StrayEndsKeeps
  <2>10. CASE LookAtState(w)
    BY <2>10, LookAtStateKeeps
  <2>11. CASE LookAtOutput(w)
    BY <2>11, LookAtOutputKeeps
  <2>12. CASE JudgeLook(w)
    BY <2>12, JudgeLookKeeps
  <2>13. CASE SleepBetween(w)
    BY <2>13, SleepBetweenKeeps
  <2>14. CASE ReapTool(w)
    BY <2>14, ReapToolKeeps
  <2>15. CASE ReadLength(w)
    BY <2>15, ReadLengthKeeps
  <2>16. CASE ReadBytes(w)
    BY <2>16, ReadBytesKeeps
  <2>17. CASE AdmitBytes(w)
    BY <2>17, AdmitBytesKeeps
  <2> QED
    BY <1>2, <2>1, <2>2, <2>3, <2>4, <2>5, <2>6, <2>7, <2>8, <2>9, <2>10, <2>11, <2>12, <2>13, <2>14, <2>15, <2>16, <2>17 DEF WatcherStep, ToolStep
<1> QED
  BY <1>1, <1>2 DEF ToolRunNext

\* It is what was asked for.
LEMMA ToolRunHolds == ToolRunInv => ToolRunSound
<1> SUFFICES ASSUME ToolRunInv PROVE ToolRunSound
  OBVIOUS
<1>0. WatchTypeOK /\ AllWatched /\ Admitted /\ ClaimsApart
  BY DEF ToolRunInv
<1>6. ASSUME NEW w \in Watchers PROVE NowWatched(w) /\ pauses[w] \in 0..TimeLimit /\ keptBytes[w] \in 0..Unread
                                      /\ length[w] \in Lengths /\ wrote[w] \in Lengths
  BY <1>0 DEF AllWatched, NowWatched, WatchTypeOK
<1>1. ToolRunTypeOK
  <2>1. ASSUME NEW w \in Watchers PROVE pauses[w] <= TimeLimit
    BY <1>6, WatchAssumption
  <2> QED
    BY <1>0, <1>6, <2>1 DEF ToolRunTypeOK, NowWatched, Watched, WatchTypeOK
<1>2. NoToolLeft
  BY <1>0 DEF NoToolLeft, AllWatched, Watched, WatchTypeOK
<1>3. CapturedWhole
  BY <1>0 DEF CapturedWhole, AllWatched, Watched
<1>4. KeptWhole
  <2> SUFFICES ASSUME NEW w \in Watchers, keptBytes[w] # Unread PROVE keptBytes[w] \in wrote[w].out..OutLimit
    BY DEF KeptWhole
  <2>1. keptBytes[w] >= wrote[w].out /\ keptBytes[w] <= OutLimit
    BY <1>0 DEF Admitted
  <2>2. wrote[w].out \in Nat /\ keptBytes[w] \in Nat
    BY <1>6, WatchAssumption DEF Lengths, Unread
  <2> QED
    BY <2>1, <2>2, WatchAssumption
<1>5. EvidenceApart
  BY <1>0 DEF EvidenceApart, ClaimsApart, Claiming
<1> QED
  BY <1>1, <1>2, <1>3, <1>4, <1>5 DEF ToolRunSound

\* A tool that is run for its output leaves no process behind when its watcher
\* returns, unless the watcher says that it could not wait for it, is taken to have succeeded only when it ended by itself with code zero
\* and wrote no more than it may, its output is admitted whole or not at all
\* whatever a descendant still writes, and no two runs share a directory, for any
\* number of watchers and every limit (proof_tools.rs).
THEOREM ToolRunCorrect == ToolRunSpec => []ToolRunSound
<1>1. ToolRunInit => ToolRunInv
  BY ToolRunInitially
<1>2. ToolRunInv /\ [ToolRunNext]_toolRunVars => ToolRunInv'
  BY ToolRunStep
<1>3. ToolRunInv => ToolRunSound
  BY ToolRunHolds
<1> QED
  BY <1>1, <1>2, <1>3, PTL DEF ToolRunSpec

-----------------------------------------------------------------------------
(***************************************************************************)
(* Messages reach who is in the conversation, shown names name their       *)
(* agents, and threads page without gaps.                                  *)
(***************************************************************************)

\* The directory names agents of machines, with labels machines may have.
DirectoryInOrder ==
  /\ DOMAIN profiles \subseteq AgentIds
  /\ \A o \in DOMAIN labels : labels[o] \in Labels

StampsInOrder == \A p \in posts : p.at \in 1..MaxStamps

\* What was in the thread is still there, and what the reader saw is all that is
\* above its place.
WalkInOrder ==
  /\ ~pager.twice
  /\ pager = NoWalk
     \/ /\ pager.before \in Nat \ {0} /\ pager.seen \subseteq Nat
        /\ pager.start \subseteq ThreadOf(pager.conv)
        /\ \A n \in pager.seen : pager.before <= n
        /\ \A n \in pager.start : pager.before <= n => n \in pager.seen

RoomsInv == DirectoryInOrder /\ StampsInOrder /\ WellRouted /\ WalkInOrder

\* The maximum of a finite non-empty set of natural numbers is its greatest element:
\* a smallest set without one would lose the property with one of its elements.
LEMMA MaxIsGreatest ==
  ASSUME NEW S \in SUBSET Nat, IsFiniteSet(S), S # {}
  PROVE  Max(S) \in S /\ \A y \in S : y <= Max(S)
<1> DEFINE Topped(T) == \E x \in T : \A y \in T : y <= x
           Bad == {T \in SUBSET S : T # {} /\ ~Topped(T)}
<1>1. Bad = {}
  <2> SUFFICES ASSUME Bad # {} PROVE FALSE
    OBVIOUS
  <2> DEFINE Sizes == {Cardinality(T) : T \in Bad}
  <2>1. \A T \in Bad : IsFiniteSet(T) /\ Cardinality(T) \in Nat
    BY FS_Subset, FS_CardinalityType
  <2>2. Sizes \in SUBSET Nat /\ Sizes # {}
    BY <2>1
  <2>3. PICK n \in Sizes : \A k \in Sizes : n <= k
    BY <2>2, LeastNumber
  <2>4. PICK T \in Bad : Cardinality(T) = n
    BY <2>3
  <2>5. PICK x \in T : TRUE
    BY <2>4
  <2> DEFINE U == T \ {x}
  <2>6. Cardinality(U) = n - 1 /\ U \in SUBSET S /\ n \in Nat
    BY <2>1, <2>4, <2>5, FS_RemoveElement
  <2>7. U \notin Bad
    <3> SUFFICES ASSUME U \in Bad PROVE FALSE
      OBVIOUS
    <3>1. Cardinality(U) \in Sizes
      BY Zenon
    <3>2. n <= Cardinality(U)
      BY <2>3, <3>1
    <3> HIDE DEF U
    <3> QED
      BY <2>6, <3>2
  <2>8. CASE U = {}
    <3>1. \A y \in T : y = x /\ x \in Nat
      BY <2>4, <2>5, <2>8
    <3>2. Topped(T)
      BY <2>5, <3>1
    <3> QED
      BY <2>4, <3>2
  <2>9. CASE U # {}
    <3>1. PICK z \in U : \A y \in U : y <= z
      BY <2>6, <2>7, <2>9
    <3>2. x \in Nat /\ z \in Nat /\ z \in T /\ \A y \in T : y \in U \/ y = x
      BY <2>4, <2>5, <3>1
    <3>3. \A y \in T : y \in Nat
      BY <2>4
    <3>4. CASE x <= z
      BY <2>4, <3>1, <3>2, <3>4
    <3>5. CASE z <= x
      BY <2>4, <2>5, <3>1, <3>2, <3>3, <3>5
    <3> QED
      BY <3>2, <3>4, <3>5
  <2> QED
    BY <2>8, <2>9
<1>2. \E x \in S : \A y \in S : x >= y
  BY <1>1
<1> QED
  BY <1>2 DEF Max


\* A thread is a finite set of positions.
LEMMA ThreadIsFinite ==
  ASSUME StampsInOrder, NEW conv
  PROVE  /\ ThreadOf(conv) \subseteq 1..MaxStamps /\ ThreadOf(conv) \subseteq Nat
         /\ IsFiniteSet(ThreadOf(conv)) /\ 0 \notin ThreadOf(conv)
<1>1. ThreadOf(conv) \subseteq 1..MaxStamps
  BY DEF ThreadOf, StampsInOrder
<1>2. IsFiniteSet(1..MaxStamps)
  <2>1. 1 \in Int /\ MaxStamps \in Int
    BY RoomsAssumption
  <2> QED
    BY <2>1, FS_Interval
<1>3. IsFiniteSet(ThreadOf(conv))
  BY <1>1, <1>2, FS_Subset
<1> QED
  BY <1>1, <1>3, RoomsAssumption

\* Positions of messages are numbers, and the next one is too.
LEMMA StampsAreNumbers ==
  ASSUME StampsInOrder
  PROVE  Max(Stamps \cup {0}) \in Nat
<1> DEFINE S == Stamps \cup {0}
<1>1. Stamps \subseteq 1..MaxStamps
  BY DEF Stamps, StampsInOrder
<1>2. S \subseteq 0..MaxStamps /\ S # {}
  BY <1>1, RoomsAssumption
<1>3. IsFiniteSet(0..MaxStamps)
  <2>1. 0 \in Int /\ MaxStamps \in Int
    BY RoomsAssumption
  <2> QED
    BY <2>1, FS_Interval
<1>4. IsFiniteSet(S)
  BY <1>2, <1>3, FS_Subset
<1>5. S \in SUBSET Nat
  BY <1>2
<1> HIDE DEF S
<1>6. Max(S) \in S
  BY <1>2, <1>4, <1>5, MaxIsGreatest
<1> QED
  BY <1>5, <1>6 DEF S

\* A page is made of messages below the place of the reader, its least one is in
\* it, and whatever is below that place and not below the least one is in it.
LEMMA PageIsWhole ==
  ASSUME StampsInOrder, NEW conv, NEW before \in Nat, Page(conv, before) # {}
  PROVE  /\ Page(conv, before) \subseteq Below(conv, before)
         /\ Min(Page(conv, before)) \in Page(conv, before)
         /\ \A n \in Page(conv, before) : Min(Page(conv, before)) <= n
         /\ \A n \in Below(conv, before) : Min(Page(conv, before)) <= n => n \in Page(conv, before)
<1> DEFINE B == Below(conv, before)
           P == Page(conv, before)
           Above(n) == {k \in B : k > n}
<1>1. B \subseteq ThreadOf(conv) /\ P \subseteq B
  BY DEF Below, Page
<1>2. IsFiniteSet(B) /\ B \subseteq Nat /\ P \in SUBSET Nat
  BY <1>1, ThreadIsFinite, FS_Subset
<1>3. \E x \in P : \A y \in P : x <= y
  BY <1>2, LeastNumber
<1>4. Min(P) \in P /\ \A y \in P : Min(P) <= y
  BY <1>3 DEF Min
<1>5. PICK m \in P : m = Min(P)
  BY <1>4
<1>6. Cardinality(Above(m)) < PageLimit /\ m \in Nat
  BY <1>1, <1>2, <1>5 DEF Page
<1>7. ASSUME NEW n \in B, m <= n PROVE n \in P
  <2>1. n \in Nat
    BY <1>2
  <2>2. Above(n) \subseteq Above(m)
    BY <1>2, <1>6, <1>7, <2>1
  <2>3. IsFiniteSet(Above(m))
    BY <1>2, FS_Subset
  <2>4. IsFiniteSet(Above(n)) /\ Cardinality(Above(n)) <= Cardinality(Above(m))
    BY <2>2, <2>3, FS_Subset
  <2>5. Cardinality(Above(n)) \in Nat /\ Cardinality(Above(m)) \in Nat
    BY <2>3, <2>4, FS_CardinalityType
  <2>6. Cardinality(Above(n)) < PageLimit
    BY <1>6, <2>4, <2>5, RoomsAssumption
  <2> QED
    BY <2>6 DEF Page
<1> QED
  BY <1>1, <1>4, <1>5, <1>7

-----------------------------------------------------------------------------
\* The agents of this machine and the guests are known, and nothing was said.
LEMMA RoomsInitially == RoomsInit => RoomsInv
<1> SUFFICES ASSUME RoomsInit PROVE RoomsInv
  OBVIOUS
<1>1. DirectoryInOrder
  BY RoomsAssumption DEF RoomsInit, DirectoryInOrder, AgentIds
<1>2. StampsInOrder /\ WellRouted
  BY DEF RoomsInit, StampsInOrder, WellRouted
<1>3. WalkInOrder
  BY DEF RoomsInit, WalkInOrder, NoWalk
<1> QED
  BY <1>1, <1>2, <1>3 DEF RoomsInv

\* Messages are added only, so a walk stays where it is.
LEMMA PostsAdded ==
  ASSUME RoomsInv, UNCHANGED <<profiles, labels, pager>>, NEW p, posts' = posts \cup {p},
         p.at \in 1..MaxStamps,
         p.audience # {} => /\ p.from \in p.present /\ p.to \subseteq p.present \ {p.from}
                            /\ p.audience = {a.origin : a \in p.present}
  PROVE  RoomsInv'
<1>1. DirectoryInOrder'
  BY DEF RoomsInv, DirectoryInOrder
<1>2. StampsInOrder'
  BY DEF RoomsInv, StampsInOrder
<1>3. WellRouted'
  BY DEF RoomsInv, WellRouted
<1>4. \A conv : ThreadOf(conv) \subseteq ThreadOf(conv)'
  BY DEF ThreadOf
<1>5. WalkInOrder'
  BY <1>4 DEF RoomsInv, WalkInOrder
<1> QED
  BY <1>1, <1>2, <1>3, <1>5 DEF RoomsInv

\* A message is posted by somebody in the conversation, to others in it.
LEMMA SendKeeps ==
  ASSUME RoomsInv, NEW c \in RoomCommands, Send(c)
  PROVE  RoomsInv'
<1> DEFINE conv == command[c].conv
           found == Route(c, conv)
           at == Max(Stamps \cup {0}) + 1
           p == [at |-> at, conv |-> conv, from |-> Me(c), to |-> Recipients(c, found),
                 audience |-> {a.origin : a \in found}, present |-> Participants(conv)]
<1>1. /\ posts' = posts \cup {p} /\ at <= MaxStamps /\ found # {}
      /\ Recipients(c, found) \subseteq found \ {Me(c)}
      /\ UNCHANGED <<profiles, labels, pager>>
  BY DEF Send, Finish
<1>2. found = Participants(conv) /\ Me(c) \in found
  BY <1>1 DEF Route
<1>3. at \in 1..MaxStamps
  <2>1. Max(Stamps \cup {0}) \in Nat
    BY StampsAreNumbers DEF RoomsInv
  <2> QED
    BY <1>1, <2>1, RoomsAssumption
<1>4. /\ p.at = at /\ p.from = Me(c) /\ p.to = Recipients(c, found) /\ p.present = found
      /\ p.audience = {a.origin : a \in found}
  BY <1>2
<1> HIDE DEF p, at, found, conv
<1> QED
  BY <1>1, <1>2, <1>3, <1>4, PostsAdded

\* A peer's message comes.
LEMMA RemotePostKeeps ==
  ASSUME RoomsInv, NEW at \in 1..MaxStamps, NEW r, RemotePost(at, r)
  PROVE  RoomsInv'
<1>1. PICK p : p = [at |-> at, conv |-> r, from |-> "a peer", to |-> {}, audience |-> {}, present |-> {}]
  OBVIOUS
<1>2. posts' = posts \cup {p} /\ UNCHANGED <<profiles, labels, pager>>
  BY <1>1 DEF RemotePost, News
<1>3. p.at = at /\ p.audience = {}
  BY <1>1
<1> QED
  BY <1>2, <1>3, PostsAdded

\* The directory changes, and messages and the reader do not.
LEMMA DirectoryChanges ==
  ASSUME RoomsInv, UNCHANGED <<posts, pager>>, DirectoryInOrder'
  PROVE  RoomsInv'
  BY DEF RoomsInv, StampsInOrder, WellRouted, WalkInOrder, ThreadOf

\* An agent edits its profile.
LEMMA EditProfileKeeps ==
  ASSUME RoomsInv, NEW c \in RoomCommands, EditProfile(c)
  PROVE  RoomsInv'
<1>1. UNCHANGED <<posts, pager, labels>> /\ DOMAIN profiles' = DOMAIN profiles
  BY DEF EditProfile, Finish
<1>2. DirectoryInOrder'
  BY <1>1 DEF RoomsInv, DirectoryInOrder
<1> QED
  BY <1>1, <1>2, DirectoryChanges

\* A machine says what it calls itself.
LEMMA SendCardKeeps ==
  ASSUME RoomsInv, NEW o \in Origins, NEW w \in Labels, SendCard(o, w)
  PROVE  RoomsInv'
<1>1. UNCHANGED <<posts, pager, profiles>>
  BY DEF SendCard, News
<1>2. DirectoryInOrder'
  BY <1>1 DEF RoomsInv, DirectoryInOrder, SendCard
<1> QED
  BY <1>1, <1>2, DirectoryChanges

\* An agent appears or leaves.
LEMMA AppearsKeeps ==
  ASSUME RoomsInv, NEW a \in AgentIds, Appears(a) \/ Leaves(a)
  PROVE  RoomsInv'
<1>1. UNCHANGED <<posts, pager, labels>>
  BY DEF Appears, Leaves, News
<1>2. DOMAIN profiles' \subseteq DOMAIN profiles \cup {a}
  BY DEF Appears, Leaves
<1>3. DirectoryInOrder'
  BY <1>1, <1>2 DEF RoomsInv, DirectoryInOrder
<1> QED
  BY <1>1, <1>3, DirectoryChanges

\* A thread is opened.
LEMMA OpenThreadKeeps ==
  ASSUME RoomsInv, NEW r, OpenThread(r)
  PROVE  RoomsInv'
<1>0. StampsInOrder /\ UNCHANGED <<profiles, labels, posts>> /\ Page(r, 0) # {}
  BY DEF RoomsInv, OpenThread
<1>1. PICK page : page = Page(r, 0)
  OBVIOUS
<1>2. PICK m : m = Min(page)
  OBVIOUS
<1>3. PICK all : all = ThreadOf(r)
  OBVIOUS
<1>4. /\ page \subseteq Below(r, 0) /\ m \in page /\ \A n \in page : m <= n
      /\ \A n \in Below(r, 0) : m <= n => n \in page
  BY <1>0, <1>1, <1>2, PageIsWhole
<1>5. Below(r, 0) = all
  BY <1>3 DEF Below
<1>6. all \subseteq Nat /\ 0 \notin all
  BY <1>0, <1>3, ThreadIsFinite
<1>7. m \in Nat \ {0} /\ page \subseteq Nat
  BY <1>4, <1>5, <1>6
<1>8. pager' = [conv |-> r, start |-> all, seen |-> page, twice |-> FALSE, before |-> m]
  BY <1>1, <1>2, <1>3, Zenon DEF OpenThread
<1>9. pager'.conv = r /\ pager'.start = all /\ pager'.seen = page /\ pager'.before = m /\ ~pager'.twice
  BY <1>8
<1>10. ThreadOf(r)' = all
  BY <1>0, <1>3 DEF ThreadOf
<1>11. WalkInOrder'
  <2>1. pager'.start \subseteq ThreadOf(pager.conv)'
    BY <1>9, <1>10
  <2> QED
    BY <1>4, <1>5, <1>7, <1>9, <2>1 DEF WalkInOrder
<1> QED
  BY <1>0, <1>11 DEF RoomsInv, DirectoryInOrder, StampsInOrder, WellRouted

\* The reader goes on below the oldest message of its page.
LEMMA NextPageKeeps ==
  ASSUME RoomsInv, NextPage
  PROVE  RoomsInv'
<1>0. /\ StampsInOrder /\ UNCHANGED <<profiles, labels, posts>>
      /\ Page(pager.conv, pager.before) # {} /\ pager # NoWalk /\ WalkInOrder
  BY DEF RoomsInv, NextPage
<1>1. PICK page : page = Page(pager.conv, pager.before)
  OBVIOUS
<1>2. PICK m : m = Min(page)
  OBVIOUS
<1>3. /\ pager.before \in Nat \ {0} /\ pager.seen \subseteq Nat
      /\ pager.start \subseteq ThreadOf(pager.conv)
      /\ \A n \in pager.seen : pager.before <= n
      /\ \A n \in pager.start : pager.before <= n => n \in pager.seen
      /\ ~pager.twice
  BY <1>0 DEF WalkInOrder
<1>4. /\ page \subseteq Below(pager.conv, pager.before) /\ m \in page /\ \A n \in page : m <= n
      /\ \A n \in Below(pager.conv, pager.before) : m <= n => n \in page
  BY <1>0, <1>1, <1>2, <1>3, PageIsWhole
<1>5. ThreadOf(pager.conv) \subseteq Nat /\ 0 \notin ThreadOf(pager.conv)
  BY <1>0, ThreadIsFinite
<1>6. Below(pager.conv, pager.before) = {n \in ThreadOf(pager.conv) : n < pager.before}
  BY <1>3 DEF Below
<1>7. /\ page \subseteq Nat /\ m \in Nat \ {0} /\ m < pager.before
      /\ \A n \in page : n < pager.before
  BY <1>4, <1>5, <1>6
<1>8. page \cap pager.seen = {}
  BY <1>3, <1>7
<1>9. PICK s : s = pager.seen \cup page
  OBVIOUS
<1>10. PICK t : t = (pager.twice \/ page \cap pager.seen # {})
  OBVIOUS
<1>11. ~t
  BY <1>3, <1>8, <1>10
<1>12. pager' = [conv |-> pager.conv, start |-> pager.start, seen |-> s, twice |-> t, before |-> m]
  BY <1>1, <1>2, <1>9, <1>10, Zenon DEF NextPage
<1>13. /\ pager'.conv = pager.conv /\ pager'.start = pager.start /\ pager'.seen = s
       /\ pager'.before = m /\ pager'.twice = t
  BY <1>12
<1>14. ThreadOf(pager.conv)' = ThreadOf(pager.conv)
  BY <1>0, <1>13 DEF ThreadOf
<1>15. /\ s \subseteq Nat /\ \A n \in s : m <= n
  <2>1. ASSUME NEW n \in pager.seen PROVE m <= n /\ n \in Nat
    <3>1. pager.before <= n /\ n \in Nat /\ pager.before \in Nat /\ m \in Nat /\ m < pager.before
      BY <1>3, <1>7
    <3> QED
      BY <3>1
  <2> QED
    BY <1>4, <1>7, <1>9, <2>1
<1>16. ASSUME NEW n \in pager.start, m <= n PROVE n \in s
  <2>1. n \in ThreadOf(pager.conv) /\ n \in Nat
    BY <1>3, <1>5
  <2>2. CASE pager.before <= n
    BY <1>3, <1>9, <2>2
  <2>3. CASE n < pager.before
    BY <1>4, <1>6, <1>9, <1>16, <2>1, <2>3
  <2> QED
    BY <1>3, <2>1, <2>2, <2>3
<1>17. WalkInOrder'
  BY <1>3, <1>7, <1>11, <1>13, <1>14, <1>15, <1>16 DEF WalkInOrder
<1> QED
  BY <1>0, <1>17 DEF RoomsInv, DirectoryInOrder, StampsInOrder, WellRouted

\* The other steps leave the directory, the messages and the reader alone.
LEMMA QuietKeeps ==
  ASSUME RoomsInv, UNCHANGED <<posts, pager, profiles, labels>>
  PROVE  RoomsInv'
  BY DirectoryChanges DEF RoomsInv, DirectoryInOrder

\* Every step of a command keeps it.
LEMMA CommandKeeps ==
  ASSUME RoomsInv, NEW c \in RoomCommands, CommandStep(c)
  PROVE  RoomsInv'
<1>1. CASE Send(c)
  BY <1>1, SendKeeps
<1>2. CASE EditProfile(c)
  BY <1>2, EditProfileKeeps
<1>3. CASE ReadPins(c) \/ ReadForProfile(c) \/ Refused(c)
  BY <1>3, QuietKeeps DEF ReadPins, ReadForProfile, Refused
<1>4. CASE ReadForRoom(c) \/ ReadForSend(c)
  <2>1. PICK op, conv, named, text : ReadBook(c, op, conv, named, text)
    BY <1>4 DEF ReadForRoom, ReadForSend
  <2> QED
    BY <2>1, QuietKeeps DEF ReadBook
<1>5. CASE CreateRoom(c) \/ CloseRoom(c)
  BY <1>5, QuietKeeps DEF CreateRoom, CloseRoom, Finish
<1>6. CASE ChangeRoom(c) \/ SetTopic(c)
  <2>1. PICK room : EditRoom(c, room)
    BY <1>6 DEF ChangeRoom, SetTopic
  <2> QED
    BY <2>1, QuietKeeps DEF EditRoom, Finish
<1> QED
  BY <1>1, <1>2, <1>3, <1>4, <1>5, <1>6 DEF CommandStep

\* Whatever comes from outside keeps it.
LEMMA NewsKeeps ==
  ASSUME RoomsInv, NewsStep
  PROVE  RoomsInv'
<1>1. ASSUME NEW w \in Aliases, NEW o \in Origins, PinAlias(w, o) PROVE RoomsInv'
  BY <1>1, QuietKeeps DEF PinAlias, News
<1>2. ASSUME NEW o \in Origins, NEW w \in Labels, SendCard(o, w) PROVE RoomsInv'
  BY <1>2, SendCardKeeps
<1>3. ASSUME NEW a \in AgentIds, Appears(a) \/ Leaves(a) PROVE RoomsInv'
  BY <1>3, AppearsKeeps
<1>4. ASSUME NEW r, NEW ms, RemoteRoom(r, ms) PROVE RoomsInv'
  BY <1>4, QuietKeeps DEF RemoteRoom, News
<1>5. ASSUME NEW at \in 1..MaxStamps, NEW r \in RoomIds, RemotePost(at, r) PROVE RoomsInv'
  BY <1>5, RemotePostKeeps
<1> QED
  BY <1>1, <1>2, <1>3, <1>4, <1>5 DEF NewsStep

\* Every step keeps it.
LEMMA RoomsStep == RoomsInv /\ [RoomsNext]_roomVars => RoomsInv'
<1> SUFFICES ASSUME RoomsInv, [RoomsNext]_roomVars PROVE RoomsInv'
  OBVIOUS
<1>1. CASE UNCHANGED roomVars
  BY <1>1, QuietKeeps DEF roomVars
<1>2. ASSUME NEW c \in RoomCommands, CommandStep(c) PROVE RoomsInv'
  BY <1>2, CommandKeeps
<1>3. CASE NewsStep
  BY <1>3, NewsKeeps
<1>4. ASSUME NEW r \in RoomIds, OpenThread(r) PROVE RoomsInv'
  BY <1>4, OpenThreadKeeps
<1>5. CASE NextPage
  BY <1>5, NextPageKeeps
<1> QED
  BY <1>1, <1>2, <1>3, <1>4, <1>5 DEF RoomsNext

\* A shown name names the agent it is shown for, if its machine is introduced, and
\* is no address of that machine otherwise.
LEMMA LabelsHold == DirectoryInOrder => LabelsNameTheirAgent
<1> SUFFICES ASSUME DirectoryInOrder, NEW a \in DOMAIN profiles, NEW t \in LabelsOf(Book(aliases), a)
             PROVE  /\ a.origin \in Introduced => a \in AgentsNamed(Book(aliases), t)
                    /\ a.origin \notin Introduced =>
                         \A b \in AgentsNamed(Book(aliases), t) : b.origin \in Introduced
  BY DEF LabelsNameTheirAgent
<1> DEFINE o == a.origin
<1>1. a \in AgentIds /\ o \in Origins
  BY DEF DirectoryInOrder, AgentIds
<1>2. PICK w : /\ t = [name |-> a.name, machine |-> w]
               /\ \/ o = ThisOrigin /\ w = "local"
                  \/ w \in DOMAIN aliases /\ aliases[w] = o
                  \/ o \in DOMAIN labels /\ w = labels[o]
                  \/ o \notin Introduced /\ w = ShortOf[o]
  BY DEF LabelsOf, Book, Introduced
<1>3. t.name = a.name /\ t.machine = w
  BY <1>2
<1>4. CASE o \in Introduced
  <2>1. o \in MachinesNamed(Book(aliases), w)
    BY <1>1, <1>2, <1>4, RoomsAssumption DEF MachinesNamed, Book, DirectoryInOrder
  <2> QED
    BY <1>1, <1>3, <1>4, <2>1 DEF AgentsNamed, Book
<1>5. CASE o \notin Introduced
  <2>1. w = ShortOf[o] /\ w \notin Origins /\ w # NoWord
    BY <1>1, <1>2, <1>5, RoomsAssumption DEF Introduced
  <2>2. MachinesNamed(Book(aliases), w) \subseteq Introduced
    BY <2>1 DEF MachinesNamed, Book, Introduced
  <2>3. \A b \in AgentsNamed(Book(aliases), t) : b.origin \in Introduced
    BY <1>3, <2>1, <2>2 DEF AgentsNamed
  <2> QED
    BY <1>5, <2>3
<1> QED
  BY <1>4, <1>5

\* It is what was asked for.
LEMMA RoomsHold == RoomsInv => RoomsSound
<1> SUFFICES ASSUME RoomsInv PROVE RoomsSound
  OBVIOUS
<1>1. NothingSkipped
  BY DEF RoomsInv, WalkInOrder, NothingSkipped, NoWalk
<1> QED
  BY <1>1, LabelsHold DEF RoomsInv, RoomsSound

\* A message is from somebody in the conversation and notifies only others in it
\* when it is committed, whatever changed since the command resolved its
\* addresses; a name the directory shows for an agent of this machine, or of one with an
\* alias or a card, names that agent, whatever machines call themselves and whichever
\* aliases are pinned; and a reader that walks back
\* through a thread sees every message it began with, none twice, for every size
\* of a page and whatever arrives meanwhile (route, notification, agent_label,
\* thread).
THEOREM RoomsCorrect == RoomsSpec => []RoomsSound
<1>1. RoomsInit => RoomsInv
  BY RoomsInitially
<1>2. RoomsInv /\ [RoomsNext]_roomVars => RoomsInv'
  BY RoomsStep
<1>3. RoomsInv => RoomsSound
  BY RoomsHold
<1> QED
  BY <1>1, <1>2, <1>3, PTL DEF RoomsSpec
=============================================================================

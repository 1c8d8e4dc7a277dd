-------------------------- MODULE Processes_proofs ---------------------------
(***************************************************************************)
(* How processes are bounded, started and read: theorems about Slots,      *)
(* Login and Children, one component after the other.                      *)
(***************************************************************************)
EXTENDS Slots, Login, Children, FiniteSetTheorems, TLAPS

-----------------------------------------------------------------------------
(***************************************************************************)
(* The slots and scopes of a resource policy, for any number of workers,   *)
(* jobs and slots: no command runs outside the slots, a job is recorded as *)
(* exited by its own command only, and the command of a worker that lives  *)
(* is left alone by every other worker and reaper.                         *)
(*                                                                         *)
(* The inductive invariant says why.  A slot has one holder, and the slot  *)
(* of a worker that has a launcher records the worker's scope.  A scope    *)
(* with a process that has not outlived its worker is the record of a slot *)
(* whose holder is not about to overwrite it: it is not enough that some   *)
(* slot records the scope, since two holders could both be about to        *)
(* overwrite its only two records.                                         *)
(***************************************************************************)

\* A worker holds a slot from its admission until it is gone, and no two hold the
\* same one.
SlotsHeld ==
  /\ \A w \in Minders : minder[w].slot = 0 <=> minder[w].pc \in {"new", "queued", "gone"}
  /\ \A v, w \in Minders : minder[v].slot = minder[w].slot /\ minder[w].slot # 0 => v = w

\* One worker of a job runs at a time.
OneRun == \A v, w \in Minders : Live(v) /\ Live(w) /\ Job[v] = Job[w] => v = w

\* The processes of a scope are those of its job, and so is its marker.
OwnProcesses ==
  \A s \in Scopes, w \in Minders :
    /\ \A role \in {"leader", "escaped"} : <<w, role>> \in members[s] => Job[w] = s
    /\ marker[s] = w => Job[w] = s

\* From the preparation of its scope on, and as long as it has a launcher, the slot
\* of a worker records its scope.
RecordedFirst ==
  \A w \in Minders :
    /\ minder[w].pc \in {"ready", "bare", "wait"} => slotRecord[minder[w].slot] = Job[w]
    /\ w \in launcher => /\ minder[w].pc \in {"bare", "wait", "drop", "release", "gone"}
                         /\ Live(w) => slotRecord[minder[w].slot] = Job[w]

\* A slot records the scope, and its holder is not about to overwrite the record.
Secured(s) ==
  \E k \in Slots : /\ slotRecord[k] = s
                   /\ \A w \in Minders : minder[w].slot = k => minder[w].pc # "prepare"

\* A scope whose processes have not all outlived their workers is secured.
SecuredScopes ==
  \A s \in Scopes, w \in Minders, role \in {"leader", "escaped"} :
    <<w, role>> \in members[s] => Secured(s) \/ w \in outlived

\* While a worker prepares and runs its command, the marker of its scope is its own
\* or that of a worker whose command has outlived it.
FreshMarker ==
  \A w \in Minders :
    minder[w].pc \in {"ready", "bare", "wait", "complete"} =>
      marker[Job[w]] \in {NoMinder, w} \cup outlived

\* A job that is run by one worker only is recorded in no slot but its worker's.
RecordedByHolder ==
  \A w \in Minders, k \in Slots :
    Alone(w) /\ minder[w].pc # "gone" /\ slotRecord[k] = Job[w] => minder[w].slot = k

SlotsInv ==
  /\ SlotsTypeOK /\ SlotsHeld /\ OneRun /\ OwnProcesses /\ RecordedFirst
  /\ SecuredScopes /\ FreshMarker /\ RecordedByHolder /\ OwnExit

-----------------------------------------------------------------------------
\* At first every slot is free and every scope empty.
LEMMA SlotsInitially == SlotsInit => SlotsInv
  BY SlotsAssumption
     DEF SlotsInit, SlotsInv, SlotsTypeOK, MinderStates, SlotsHeld, OneRun, OwnProcesses, RecordedFirst, SecuredScopes,
         FreshMarker, RecordedByHolder, OwnExit, Live

\* What worker w, its command and its reaper do.
StepOf(w) == SlotStep(w) \/ Process(w) \/ ReapGroup(w) \/ ReapScope(w)

\* A scope that is stopped is left empty and without a marker; one that cannot be
\* stopped stays as it is, and no other scope changes.
LEMMA StopScope ==
  ASSUME SlotsTypeOK, NEW s \in Scopes \cup {NoScope}, StopOrFail(s)
  PROVE  /\ members' \in [Scopes -> SUBSET (Minders \X {"leader", "escaped"})]
         /\ marker' \in [Scopes -> Minders \cup {NoMinder}]
         /\ \A t \in Scopes : /\ members'[t] \subseteq members[t]
                              /\ marker'[t] \in {marker[t], NoMinder}
                              /\ t # s => members'[t] = members[t]
                              /\ t = s /\ Stop(s) => members'[t] = {}
<1>1. CASE Stop(s)
  BY <1>1, SlotsAssumption DEF Stop, SlotsTypeOK
<1>2. CASE UNCHANGED <<members, marker>> /\ ~Stop(s)
  BY <1>2 DEF SlotsTypeOK
<1> QED
  BY <1>1, <1>2 DEF StopOrFail

\* The death of a process group takes the launcher and the leader of one worker.
LEMMA KilledGroup ==
  ASSUME SlotsTypeOK, NEW w \in Minders, GroupKilled(w)
  PROVE  /\ members' \in [Scopes -> SUBSET (Minders \X {"leader", "escaped"})]
         /\ launcher' \subseteq launcher
         /\ \A t \in Scopes : /\ members'[t] \subseteq members[t]
                              /\ members[t] \ members'[t] \subseteq {<<w, "leader">>}
  BY DEF GroupKilled, SlotsTypeOK

\* A worker that goes on to another point keeps its type, whatever it has found.
LEMMA MovedMinder ==
  ASSUME minder \in [Minders -> MinderStates], NEW w \in Minders,
         NEW pc \in {"queued", "prepare", "ready", "bare", "wait", "complete", "drop", "release"},
         NEW found \in {"none", "exited", "exited_other", "launch_failed", "killed", "memory_limit_exceeded"},
         minder' \in {[minder EXCEPT ![w].pc = pc], [minder EXCEPT ![w].pc = pc, ![w].found = found]}
  PROVE  minder' \in [Minders -> MinderStates]
  BY DEF MinderStates

\* Every step keeps the types.
LEMMA SlotsTypesKept ==
  ASSUME SlotsTypeOK, SlotsHeld, NEW w \in Minders, StepOf(w)
  PROVE  SlotsTypeOK'
<1> USE SlotsAssumption DEF SlotsTypeOK
<1>1. CASE BeginScope(w)
  BY SMTT(30), <1>1 DEF BeginScope, Go, SlotAt, MinderStates
<1>2. CASE TryAdmit(w)
  BY <1>2 DEF TryAdmit, SlotAt, LockFree, MinderStates
<1>3. CASE StopPrevious(w)
  <2>1. PICK s \in Scopes \cup {NoScope} : StopOrFail(s) /\ s = slotRecord[minder[w].slot]
    BY <1>3 DEF StopPrevious, StopOrFail, SlotAt, SlotsHeld, MinderStates
  <2> QED
    BY SMTT(30), <1>3, <2>1, StopScope DEF StopPrevious, SlotAt, Go, MinderStates
<1>4. CASE PrepareScope(w)
  <2>1. minder[w].slot \in Slots /\ Job[w] \in Scopes
    BY <1>4 DEF PrepareScope, SlotAt, SlotsHeld, MinderStates
  <2>2. minder' \in [Minders -> MinderStates]
    BY <1>4, MovedMinder DEF PrepareScope, Go
  <2>3. /\ slotRecord' \in [Slots -> Scopes \cup {NoScope}]
        /\ marker' \in [Scopes -> Minders \cup {NoMinder}]
    BY <1>4, <2>1 DEF PrepareScope
  <2> QED
    BY <1>4, <2>2, <2>3 DEF PrepareScope
<1>5. CASE GiveUp(w)
  BY <1>5, MovedMinder DEF GiveUp, Go
<1>6. CASE SpawnScope(w)
  BY SMTT(30), <1>6 DEF SpawnScope, SlotAt, Go, MinderStates
<1>7. CASE GuardScope(w)
  BY SMTT(30), <1>7 DEF GuardScope, SlotAt, Go, MinderStates
<1>8. CASE GuardFails(w)
  <2>1. minder' \in [Minders -> MinderStates]
    BY <1>8, MovedMinder DEF GuardFails, Go
  <2> QED
    BY <1>8, <2>1, KilledGroup DEF GuardFails
<1>9. CASE Cancel(w)
  BY <1>9 DEF Cancel, Watching, MinderStates
<1>10. CASE KillScope(w)
  BY SMTT(30), <1>10 DEF KillScope, Watching, MinderStates
<1>11. CASE KillGroup(w)
  <2>1. PICK end \in {"killed", "broken"} : minder' = [minder EXCEPT ![w].watch = end]
    BY <1>11 DEF KillGroup
  <2>2. GroupKilled(w) \/ UNCHANGED <<launcher, members>>
    BY <1>11 DEF KillGroup
  <2>3. minder' \in [Minders -> MinderStates]
    BY <2>1 DEF MinderStates
  <2> QED
    BY <1>11, <2>2, <2>3, KilledGroup DEF KillGroup
<1>12. CASE Wait(w)
  BY SMTT(30), <1>12 DEF Wait, SlotAt, Running, Go, MinderStates
<1>13. CASE Completion(w)
  <2>1. PICK s \in Scopes : StopOrFail(s) /\ s = Job[w]
    BY <1>13 DEF Completion, StopOrFail
  <2>2. PICK found \in {"killed", "exited", "exited_other", "launch_failed", "memory_limit_exceeded"} :
          minder' = [minder EXCEPT ![w].pc = "drop", ![w].found = found]
    BY <1>13 DEF Completion
  <2>3. minder' \in [Minders -> MinderStates]
    BY <2>2, MovedMinder
  <2>4. reaper' \in [Minders -> {"none", "guards", "group", "scope"}]
    BY <1>13 DEF Completion
  <2> QED
    BY <1>13, <2>1, <2>3, <2>4, StopScope DEF Completion
<1>14. CASE Abandon(w)
  BY <1>14 DEF Abandon, WatchOver, Go, MinderStates
<1>15. CASE DropGroup(w)
  <2>1. PICK s \in Scopes : StopOrFail(s) /\ s = Job[w]
    BY <1>15 DEF DropGroup
  <2>2. reaper' \in [Minders -> {"none", "guards", "group", "scope"}]
    BY <1>15 DEF DropGroup, Alarm
  <2>3. members' \in [Scopes -> SUBSET (Minders \X {"leader", "escaped"})] /\ marker' \in [Scopes -> Minders \cup {NoMinder}]
    BY <2>1, StopScope
  <2>4. minder' \in [Minders -> MinderStates]
    BY <1>15, MovedMinder DEF DropGroup, Go
  <2> QED
    BY <1>15, <2>2, <2>3, <2>4 DEF DropGroup
<1>16. CASE DropPermit(w)
  <2>1. PICK s \in Scopes \cup {NoScope} : StopOrFail(s) /\ s = slotRecord[minder[w].slot]
    BY <1>16 DEF DropPermit, StopOrFail, SlotAt, SlotsHeld, MinderStates
  <2> QED
    BY <1>16, <2>1, StopScope DEF DropPermit, SlotAt, LeaveScope, ScopeGone, MinderStates
<1>17. CASE Crash(w)
  BY <1>17 DEF Crash, Live, Alarm, LeaveScope, ScopeGone, MinderStates
<1>18. CASE JoinScope(w)
  BY <1>18 DEF JoinScope, Outlived, Live
<1>19. CASE Escape(w)
  BY <1>19 DEF Escape, Leads
<1>20. CASE Report(w)
  BY <1>20 DEF Report, Leads
<1>21. CASE Exit(w)
  BY <1>21 DEF Exit, Leads, Outlived, Live
<1>22. CASE ReapGroup(w)
  BY <1>22, KilledGroup DEF ReapGroup
<1>23. CASE ReapScope(w)
  <2>1. PICK s \in Scopes \cup {NoScope} : StopOrFail(s) /\ s = Job[w]
    BY <1>23 DEF ReapScope, StopOrFail, SlotAt
  <2> QED
    BY <1>23, <2>1, StopScope DEF ReapScope
<1> QED
  BY <1>1, <1>2, <1>3, <1>4, <1>5, <1>6, <1>7, <1>8, <1>9, <1>10, <1>11, <1>12, <1>13, <1>14, <1>15,
     <1>16, <1>17, <1>18, <1>19, <1>20, <1>21, <1>22, <1>23 DEF StepOf, SlotStep, Process

\* A worker's step touches its own worker and reaper only.  Scopes gain processes,
\* markers, records and launchers in one kind of step each, and nobody ceases to have
\* outlived its worker.
LEMMA StepEffects ==
  ASSUME SlotsTypeOK, SlotsHeld, NEW w \in Minders, StepOf(w)
  PROVE  /\ \A v \in Minders \ {w} : minder'[v] = minder[v] /\ reaper'[v] = reaper[v]
         /\ ~PrepareScope(w) => slotRecord' = slotRecord
         /\ ~SpawnScope(w) => launcher' \subseteq launcher
         /\ ~JoinScope(w) /\ ~Escape(w) => \A s \in Scopes : members'[s] \subseteq members[s]
         /\ ~Exit(w) => \A s \in Scopes : marker'[s] \in {marker[s], NoMinder}
         /\ outlived \subseteq outlived'
<1> USE SlotsAssumption DEF SlotsTypeOK, MinderStates
<1>1. CASE BeginScope(w)
  BY <1>1 DEF BeginScope, Go, SlotAt
<1>2. CASE TryAdmit(w)
  BY <1>2 DEF TryAdmit, SlotAt, LockFree
<1>3. CASE StopPrevious(w)
  <2>1. PICK s \in Scopes \cup {NoScope} : StopOrFail(s) /\ s = slotRecord[minder[w].slot]
    BY <1>3 DEF StopPrevious, StopOrFail, SlotAt, SlotsHeld, MinderStates
  <2> QED
    BY <1>3, <2>1, StopScope DEF StopPrevious, SlotAt, Go
<1>4. CASE PrepareScope(w)
  BY <1>4 DEF PrepareScope, SlotAt, Go
<1>5. CASE GiveUp(w)
  BY <1>5 DEF GiveUp, Go
<1>6. CASE SpawnScope(w)
  BY <1>6 DEF SpawnScope, SlotAt, Go
<1>7. CASE GuardScope(w)
  BY <1>7 DEF GuardScope, SlotAt, Go
<1>8. CASE GuardFails(w)
  BY <1>8, KilledGroup DEF GuardFails, SlotAt, Go
<1>9. CASE Cancel(w)
  BY <1>9 DEF Cancel, Watching
<1>10. CASE KillScope(w)
  BY <1>10 DEF KillScope, Watching
<1>11. CASE KillGroup(w)
  BY <1>11, KilledGroup DEF KillGroup, Watching, SlotAt
<1>12. CASE Wait(w)
  BY <1>12 DEF Wait, SlotAt, Running, Go
<1>13. CASE Completion(w)
  <2>1. PICK s \in Scopes \cup {NoScope} : StopOrFail(s) /\ s = Job[w]
    BY <1>13 DEF Completion, StopOrFail, SlotAt
  <2> QED
    BY <1>13, <2>1, StopScope DEF Completion, SlotAt
<1>14. CASE Abandon(w)
  BY <1>14 DEF Abandon, WatchOver, Go
<1>15. CASE DropGroup(w)
  <2>1. PICK s \in Scopes \cup {NoScope} : StopOrFail(s) /\ s = Job[w]
    BY <1>15 DEF DropGroup, StopOrFail, SlotAt
  <2> QED
    BY <1>15, <2>1, StopScope DEF DropGroup, SlotAt, Alarm, Go
<1>16. CASE DropPermit(w)
  <2>1. PICK s \in Scopes \cup {NoScope} : StopOrFail(s) /\ s = slotRecord[minder[w].slot]
    BY <1>16 DEF DropPermit, StopOrFail, SlotAt, SlotsHeld, MinderStates
  <2> QED
    BY <1>16, <2>1, StopScope DEF DropPermit, SlotAt, LeaveScope, ScopeGone
<1>17. CASE Crash(w)
  BY <1>17 DEF Crash, Live, Alarm, LeaveScope, ScopeGone
<1>18. CASE JoinScope(w)
  BY <1>18 DEF JoinScope, Outlived, Live
<1>19. CASE Escape(w)
  BY <1>19 DEF Escape, Leads
<1>20. CASE Report(w)
  BY <1>20 DEF Report, Leads
<1>21. CASE Exit(w)
  BY <1>21 DEF Exit, Leads, Outlived, Live
<1>22. CASE ReapGroup(w)
  BY <1>22, KilledGroup DEF ReapGroup
<1>23. CASE ReapScope(w)
  <2>1. PICK s \in Scopes \cup {NoScope} : StopOrFail(s) /\ s = Job[w]
    BY <1>23 DEF ReapScope, StopOrFail, SlotAt
  <2> QED
    BY <1>23, <2>1, StopScope DEF ReapScope
<1> QED
  BY <1>1, <1>2, <1>3, <1>4, <1>5, <1>6, <1>7, <1>8, <1>9, <1>10, <1>11, <1>12, <1>13, <1>14, <1>15,
     <1>16, <1>17, <1>18, <1>19, <1>20, <1>21, <1>22, <1>23 DEF StepOf, SlotStep, Process

\* Points at which a worker holds no slot.
Idle == {"new", "queued", "gone"}

\* How a worker moves: it takes a slot when it is admitted and loses it with its end;
\* each stage is reached from the ones before it.
LEMMA StepMoves ==
  ASSUME SlotsTypeOK, NEW w \in Minders, StepOf(w)
  PROVE  LET m == minder[w]
             n == minder'[w]
         IN /\ \/ TryAdmit(w) \/ n = ScopeGone
               \/ n.slot = m.slot /\ (n.pc \in Idle <=> m.pc \in Idle)
            /\ n.pc \notin {"new", "gone"} /\ ~BeginScope(w) => m.pc \notin {"new", "gone"}
            /\ m.pc = "gone" => n.pc = "gone"
            /\ n.pc = "prepare" /\ ~StopPrevious(w) => n = m
            /\ n.pc \in {"ready", "bare", "wait"} /\ ~PrepareScope(w) => m.pc \in {"ready", "bare", "wait"}
            /\ n.pc \in {"ready", "bare", "wait", "complete"} /\ ~PrepareScope(w) =>
                 m.pc \in {"ready", "bare", "wait", "complete"}
            /\ w \in launcher' /\ ~SpawnScope(w) /\ m.pc \in {"bare", "wait", "drop", "release", "gone"} =>
                 n.pc \in {"bare", "wait", "drop", "release", "gone"}
            /\ n.found \in {m.found, "none"} \/ Completion(w)
<1> USE DEF SlotsTypeOK, MinderStates, Idle
<1>1. CASE BeginScope(w)
  BY <1>1 DEF BeginScope, Go, SlotAt
<1>2. CASE TryAdmit(w)
  <2>1. PICK k \in Slots : minder' = [minder EXCEPT ![w].pc = "admitted", ![w].slot = k]
    BY <1>2 DEF TryAdmit
  <2>2. minder'[w] = [minder[w] EXCEPT !.pc = "admitted", !.slot = k]
    BY <2>1
  <2>3. minder[w].pc = "queued" /\ launcher' = launcher
    BY <1>2 DEF TryAdmit, SlotAt
  <2>4. minder'[w].pc = "admitted" /\ minder'[w].found = minder[w].found
    BY <2>2
  <2> QED
    BY <1>2, <2>3, <2>4
<1>3. CASE StopPrevious(w)
  BY <1>3 DEF StopPrevious, SlotAt, Go
<1>4. CASE PrepareScope(w)
  BY <1>4 DEF PrepareScope, SlotAt, Go
<1>5. CASE GiveUp(w)
  BY <1>5 DEF GiveUp, Go
<1>6. CASE SpawnScope(w)
  BY <1>6 DEF SpawnScope, SlotAt, Go
<1>7. CASE GuardScope(w)
  BY <1>7 DEF GuardScope, SlotAt, Go
<1>8. CASE GuardFails(w)
  BY <1>8 DEF GuardFails, SlotAt, Go
<1>9. CASE Cancel(w)
  BY <1>9 DEF Cancel, Watching
<1>10. CASE KillScope(w)
  BY <1>10 DEF KillScope, Watching
<1>11. CASE KillGroup(w)
  BY <1>11 DEF KillGroup, Watching, SlotAt
<1>12. CASE Wait(w)
  BY <1>12 DEF Wait, SlotAt, Running, Go
<1>13. CASE Completion(w)
  <2>1. PICK found : minder' = [minder EXCEPT ![w].pc = "drop", ![w].found = found]
    BY <1>13 DEF Completion
  <2> QED
    BY ZenonT(60), <1>13, <2>1 DEF Completion, SlotAt
<1>14. CASE Abandon(w)
  BY <1>14 DEF Abandon, WatchOver, Go
<1>15. CASE DropGroup(w)
  BY <1>15 DEF DropGroup, SlotAt, Alarm, Go
<1>16. CASE DropPermit(w)
  BY <1>16 DEF DropPermit, SlotAt, LeaveScope, ScopeGone
<1>17. CASE Crash(w)
  BY <1>17 DEF Crash, Live, Alarm, LeaveScope, ScopeGone
<1>18. CASE JoinScope(w)
  BY <1>18 DEF JoinScope, Live
<1>19. CASE Escape(w)
  BY <1>19 DEF Escape
<1>20. CASE Report(w)
  BY <1>20 DEF Report
<1>21. CASE Exit(w)
  BY <1>21 DEF Exit, Live
<1>22. CASE ReapGroup(w)
  BY <1>22 DEF ReapGroup
<1>23. CASE ReapScope(w)
  BY <1>23 DEF ReapScope
<1> QED
  BY <1>1, <1>2, <1>3, <1>4, <1>5, <1>6, <1>7, <1>8, <1>9, <1>10, <1>11, <1>12, <1>13, <1>14, <1>15,
     <1>16, <1>17, <1>18, <1>19, <1>20, <1>21, <1>22, <1>23 DEF StepOf, SlotStep, Process

-----------------------------------------------------------------------------
\* A slot has one holder.
LEMMA SlotsHeldKept ==
  ASSUME SlotsInv, SlotsTypeOK', NEW w \in Minders, StepOf(w)
  PROVE  SlotsHeld'
<1> USE DEF SlotsInv, SlotsTypeOK, MinderStates
<1>1. \A v \in Minders \ {w} : minder'[v] = minder[v]
  BY StepEffects
<1>2. CASE TryAdmit(w)
  BY <1>1, <1>2, SlotsAssumption DEF TryAdmit, LockFree, SlotAt, SlotsHeld
<1>3. CASE minder'[w] = ScopeGone
  <2>1. minder'[w].slot = 0 /\ minder'[w].pc = "gone"
    BY <1>3 DEF ScopeGone
  <2> HIDE DEF SlotsTypeOK
  <2> QED
    BY <1>1, <2>1 DEF SlotsHeld
<1>4. CASE minder'[w].slot = minder[w].slot /\ (minder'[w].pc \in Idle <=> minder[w].pc \in Idle)
  <2>1. minder'[w].pc \in {"new", "queued", "gone"} <=> minder[w].pc \in {"new", "queued", "gone"}
    BY <1>4 DEF Idle
  <2>2. \A v \in Minders : minder'[v].slot = minder[v].slot
    BY <1>1, <1>4
  <2>3. \A v \in Minders : minder'[v].pc \in {"new", "queued", "gone"} <=> minder[v].pc \in {"new", "queued", "gone"}
    BY <1>1, <2>1
  <2> HIDE DEF SlotsTypeOK
  <2> QED
    BY <2>2, <2>3 DEF SlotsHeld
<1> QED
  BY <1>2, <1>3, <1>4, StepMoves

\* A worker begins only when no other run of its job lives.
LEMMA OneRunKept ==
  ASSUME SlotsInv, SlotsTypeOK', NEW w \in Minders, StepOf(w)
  PROVE  OneRun'
<1> USE DEF SlotsInv, SlotsTypeOK, MinderStates
<1>1. \A v \in Minders \ {w} : minder'[v] = minder[v]
  BY StepEffects
<1>2. CASE BeginScope(w)
  BY <1>1, <1>2 DEF BeginScope, OneRun, Live
<1>3. CASE ~BeginScope(w)
  <2>1. minder'[w].pc \notin {"new", "gone"} => minder[w].pc \notin {"new", "gone"}
    BY <1>3, StepMoves
  <2> QED
    BY <1>1, <2>1 DEF OneRun, Live
<1> QED
  BY <1>2, <1>3

\* A process enters the scope of its worker's job and no other, and records its exit
\* there.
LEMMA OwnProcessesKept ==
  ASSUME SlotsInv, SlotsTypeOK', NEW w \in Minders, StepOf(w)
  PROVE  OwnProcesses'
<1> USE DEF SlotsInv, SlotsTypeOK, MinderStates
<1> SUFFICES ASSUME NEW s \in Scopes, NEW v \in Minders, NEW role \in {"leader", "escaped"}
             PROVE  /\ <<v, role>> \in members'[s] => Job[v] = s
                    /\ marker'[s] = v => Job[v] = s
  BY DEF OwnProcesses
<1>1. <<v, role>> \in members'[s] => Job[v] = s
  <2>1. CASE JoinScope(w)
    BY <2>1, SlotsAssumption DEF JoinScope, OwnProcesses
  <2>2. CASE Escape(w)
    BY <2>2, SlotsAssumption DEF Escape, OwnProcesses
  <2>3. CASE ~JoinScope(w) /\ ~Escape(w)
    BY <2>3, StepEffects DEF OwnProcesses
  <2> QED
    BY <2>1, <2>2, <2>3
<1>2. marker'[s] = v => Job[v] = s
  <2>0. marker[s] = v => Job[v] = s
    BY DEF OwnProcesses
  <2>1. CASE Exit(w)
    BY <2>0, <2>1, SlotsAssumption DEF Exit
  <2>2. CASE ~Exit(w)
    BY <2>0, <2>2, StepEffects, SlotsAssumption
  <2> QED
    BY <2>1, <2>2
<1> QED
  BY <1>1, <1>2

\* The record of a slot is overwritten by its holder only, with the holder's scope and
\* before its launcher starts.
LEMMA RecordedFirstKept ==
  ASSUME SlotsInv, SlotsTypeOK', NEW w \in Minders, StepOf(w)
  PROVE  RecordedFirst'
<1> USE DEF SlotsInv, SlotsTypeOK, MinderStates
<1>1. \A v \in Minders \ {w} : minder'[v] = minder[v]
  BY StepEffects
<1>2. CASE PrepareScope(w)
  BY <1>1, <1>2, SlotsAssumption DEF PrepareScope, SlotAt, Go, RecordedFirst, SlotsHeld, Live
<1>3. CASE SpawnScope(w)
  BY <1>1, <1>3 DEF SpawnScope, SlotAt, Go, RecordedFirst, SlotsHeld, Live
<1>4. CASE ~PrepareScope(w) /\ ~SpawnScope(w)
  <2>1. slotRecord' = slotRecord /\ launcher' \subseteq launcher
    BY <1>4, StepEffects
  <2>2. /\ minder'[w].pc \in {"ready", "bare", "wait"} => minder[w].pc \in {"ready", "bare", "wait"}
        /\ w \in launcher' /\ minder[w].pc \in {"bare", "wait", "drop", "release", "gone"} =>
             minder'[w].pc \in {"bare", "wait", "drop", "release", "gone"}
        /\ minder[w].pc = "gone" => minder'[w].pc = "gone"
    BY <1>4, StepMoves
  <2>3. minder'[w].pc \in Idle \/ minder'[w].slot = minder[w].slot \/ minder[w].pc = "queued"
    <3>1. CASE TryAdmit(w)
      BY <3>1 DEF TryAdmit, SlotAt
    <3>2. CASE minder'[w] = ScopeGone
      BY <3>2 DEF ScopeGone, Idle
    <3> QED
      BY <3>1, <3>2, StepMoves
  <2> QED
    BY <1>1, <2>1, <2>2, <2>3 DEF RecordedFirst, Live, Idle
<1> QED
  BY <1>2, <1>3, <1>4

\* A scope that a command joins is secured by the slot of its worker; the record that
\* secures it is overwritten only after the scope was stopped.
LEMMA SecuredScopesKept ==
  ASSUME SlotsInv, SlotsTypeOK', NEW w \in Minders, StepOf(w)
  PROVE  SecuredScopes'
<1> USE DEF SlotsInv, SlotsTypeOK, MinderStates
<1> SUFFICES ASSUME NEW s \in Scopes, NEW v \in Minders, NEW role \in {"leader", "escaped"},
                    <<v, role>> \in members'[s], v \notin outlived'
             PROVE  Secured(s)'
  BY DEF SecuredScopes
<1>0. s # NoScope /\ v \notin outlived /\ \A u \in Minders \ {w} : minder'[u] = minder[u]
  BY StepEffects, SlotsAssumption
<1>1. CASE JoinScope(w)
  <2>1. CASE <<v, role>> \in members[s]
    <3>1. Secured(s)
      BY <1>0, <2>1 DEF SecuredScopes
    <3> QED
      BY <1>1, <3>1 DEF JoinScope, Secured
  <2>2. CASE <<v, role>> \notin members[s]
    <3>1. v = w /\ s = Job[w] /\ Live(w) /\ w \in launcher
      BY <1>1, <2>2, SlotsAssumption DEF JoinScope, Outlived
    <3>2. slotRecord[minder[w].slot] = s /\ minder[w].slot \in Slots /\ minder[w].pc # "prepare"
      BY <3>1 DEF RecordedFirst, SlotsHeld, Live
    <3>3. \A u \in Minders : minder[u].slot = minder[w].slot => minder[u].pc # "prepare"
      BY <3>2, SlotsAssumption DEF SlotsHeld
    <3> QED
      BY <1>1, <3>2, <3>3 DEF JoinScope, Secured
  <2> QED
    BY <2>1, <2>2
<1>2. CASE Escape(w)
  <2>1. \E e \in {"leader", "escaped"} : <<v, e>> \in members[s]
    <3>1. CASE <<v, role>> \in members[s]
      BY <3>1
    <3>2. CASE <<v, role>> \notin members[s]
      <4>1. v = w /\ s = Job[w]
        BY <1>2, <3>2, SlotsAssumption DEF Escape
      <4>2. PICK t \in Scopes : <<w, "leader">> \in members[t]
        BY <1>2 DEF Escape, Leads
      <4> QED
        BY <4>1, <4>2 DEF OwnProcesses
    <3> QED
      BY <3>1, <3>2
  <2> QED
    <3>1. Secured(s)
      BY <1>0, <2>1 DEF SecuredScopes
    <3> QED
      BY <1>2, <3>1 DEF Escape, Secured
<1>3. CASE ~JoinScope(w) /\ ~Escape(w)
  <2>1. <<v, role>> \in members[s]
    BY <1>3, StepEffects
  <2>2. PICK k \in Slots : slotRecord[k] = s /\ \A u \in Minders : minder[u].slot = k => minder[u].pc # "prepare"
    BY <1>0, <2>1 DEF SecuredScopes, Secured
  <2>3. CASE StopPrevious(w)
    <3>1. s # slotRecord[minder[w].slot]
      BY <2>3, <1>0 DEF StopPrevious, Stop, SlotAt
    <3>2. slotRecord' = slotRecord /\ minder'[w].slot = minder[w].slot
      BY <2>3 DEF StopPrevious, Go
    <3> QED
      BY SMTT(30), <1>0, <2>2, <3>1, <3>2 DEF Secured
  <2>4. CASE PrepareScope(w)
    <3>1. minder[w].slot # k
      BY <2>2, <2>4 DEF PrepareScope, SlotAt
    <3>2. slotRecord'[k] = s /\ minder'[w].slot = minder[w].slot
      BY <2>2, <2>4, <3>1 DEF PrepareScope, Go
    <3> QED
      BY <1>0, <2>2, <3>1, <3>2 DEF Secured
  <2>5. CASE ~StopPrevious(w) /\ ~PrepareScope(w)
    <3>1. slotRecord' = slotRecord /\ (minder'[w].pc = "prepare" => minder'[w] = minder[w])
      BY <2>5, StepEffects, StepMoves
    <3> QED
      BY <1>0, <2>2, <3>1 DEF Secured
  <2> QED
    BY <2>3, <2>4, <2>5
<1> QED
  BY <1>1, <1>2, <1>3

\* The marker of a scope is removed when a worker prepares it; an exit that comes while
\* another run of the job lives is that of a worker that is gone.
LEMMA FreshMarkerKept ==
  ASSUME SlotsInv, SlotsTypeOK', NEW w \in Minders, StepOf(w)
  PROVE  FreshMarker'
<1> USE DEF SlotsInv, SlotsTypeOK, MinderStates
<1>1. outlived \subseteq outlived' /\ \A v \in Minders \ {w} : minder'[v] = minder[v]
  BY StepEffects
<1>2. CASE PrepareScope(w)
  <2>1. \A v \in Minders : marker'[Job[v]] \in {marker[Job[v]], NoMinder} /\ (v = w => marker'[Job[v]] = NoMinder)
    BY <1>2, SlotsAssumption DEF PrepareScope
  <2> QED
    BY <1>1, <2>1 DEF FreshMarker
<1>3. CASE Exit(w)
  <2>1. /\ minder' = minder
        /\ \A v \in Minders : marker'[Job[v]] = marker[Job[v]] \/ (Job[v] = Job[w] /\ marker'[Job[v]] = w)
    BY <1>3, SlotsAssumption DEF Exit
  <2>2. Live(w) \/ w \in outlived'
    BY <1>3 DEF Exit, Outlived
  <2> QED
    BY <1>1, <2>1, <2>2 DEF FreshMarker, OneRun, Live
<1>4. CASE ~PrepareScope(w) /\ ~Exit(w)
  <2>1. \A v \in Minders : marker'[Job[v]] \in {marker[Job[v]], NoMinder}
    BY <1>4, StepEffects, SlotsAssumption
  <2>2. minder'[w].pc \in {"ready", "bare", "wait", "complete"} => minder[w].pc \in {"ready", "bare", "wait", "complete"}
    BY <1>4, StepMoves
  <2> QED
    BY <1>1, <2>1, <2>2 DEF FreshMarker
<1> QED
  BY <1>2, <1>3, <1>4

\* A worker prepares one slot in its life.
LEMMA RecordedByHolderKept ==
  ASSUME SlotsInv, SlotsTypeOK', NEW w \in Minders, StepOf(w)
  PROVE  RecordedByHolder'
<1> USE DEF SlotsInv, SlotsTypeOK, MinderStates
<1> SUFFICES ASSUME NEW v \in Minders, NEW k \in Slots, Alone(v), minder'[v].pc # "gone", slotRecord'[k] = Job[v]
             PROVE  minder'[v].slot = k
  BY DEF RecordedByHolder, Alone
<1>1. \A u \in Minders \ {w} : minder'[u] = minder[u]
  BY StepEffects
<1>2. minder[v].pc # "gone"
  BY <1>1, StepMoves
<1>3. CASE PrepareScope(w)
  BY <1>1, <1>2, <1>3 DEF PrepareScope, SlotAt, Go, Alone, RecordedByHolder
<1>4. CASE ~PrepareScope(w)
  <2>1. slotRecord[k] = Job[v]
    BY <1>4, StepEffects
  <2>2. minder[v].slot = k
    BY <1>2, <2>1 DEF RecordedByHolder
  <2>3. ~(v = w /\ TryAdmit(w))
    BY <2>2, SlotsAssumption DEF TryAdmit, SlotAt, SlotsHeld
  <2> QED
    BY <1>1, <2>2, <2>3, StepMoves DEF ScopeGone
<1> QED
  BY <1>3, <1>4

\* A worker that reads a marker which is not its own reads that of a command that has
\* outlived its worker.
LEMMA OwnExitKept ==
  ASSUME SlotsInv, SlotsTypeOK', NEW w \in Minders, StepOf(w)
  PROVE  OwnExit'
<1> USE DEF SlotsInv, SlotsTypeOK, MinderStates
<1>1. outlived \subseteq outlived' /\ \A v \in Minders \ {w} : minder'[v] = minder[v]
  BY StepEffects
<1>2. CASE Completion(w)
  <2>1. minder'[w].found = "exited_other" => marker[Job[w]] \notin {NoMinder, w}
    BY <1>2 DEF Completion
  <2>2. marker[Job[w]] \in {NoMinder, w} \/ (marker[Job[w]] \in outlived \ {w} /\ Job[marker[Job[w]]] = Job[w])
    BY ZenonT(60), <1>2, SlotsAssumption DEF Completion, SlotAt, FreshMarker, OwnProcesses
  <2> QED
    BY <1>1, <2>1, <2>2 DEF OwnExit
<1>3. CASE ~Completion(w)
  <2>1. minder'[w].found \in {minder[w].found, "none"}
    BY <1>3, StepMoves
  <2> QED
    BY <1>1, <2>1 DEF OwnExit
<1> QED
  BY <1>2, <1>3

\* Every step keeps the invariant.
LEMMA SlotsNextKeeps == SlotsInv /\ [SlotsNext]_slotVars => SlotsInv'
<1>1. ASSUME SlotsInv, NEW w \in Minders, StepOf(w)
      PROVE  SlotsInv'
  <2>1. SlotsTypeOK'
    BY <1>1, SlotsTypesKept DEF SlotsInv
  <2> QED
    BY <1>1, <2>1, SlotsHeldKept, OneRunKept, OwnProcessesKept, RecordedFirstKept, SecuredScopesKept,
       FreshMarkerKept, RecordedByHolderKept, OwnExitKept DEF SlotsInv
<1>2. ASSUME SlotsInv, UNCHANGED slotVars
      PROVE  SlotsInv'
  BY <1>2 DEF slotVars, SlotsInv, SlotsTypeOK, SlotsHeld, OneRun, OwnProcesses, RecordedFirst, SecuredScopes,
              Secured, FreshMarker, RecordedByHolder, OwnExit, Live, Alone
<1> QED
  BY <1>1, <1>2 DEF SlotsNext, StepOf

\* The invariant holds in every state.
LEMMA SlotsInvariant == SlotsSpec => []SlotsInv
  BY SlotsInitially, SlotsNextKeeps, PTL DEF SlotsSpec

-----------------------------------------------------------------------------
\* No command runs outside the recorded scope of a slot, and a job is recorded as
\* exited by its own command only, whatever workers, launchers and reapers die and
\* whatever scope cannot be stopped, unless a launcher or a command has outlived its
\* worker (slots.rs, scope.rs, worker.rs).
THEOREM SlotsCorrect == SlotsSpec => []SlotsSound
<1>1. SlotsInv => SlotsSound
  <2> SUFFICES ASSUME SlotsInv, NEW s \in Scopes, ~Recorded(s), NEW p \in members[s]
               PROVE  p[1] \in outlived
    BY DEF SlotsSound, SlotsInv, WithinSlots
  <2>1. PICK v \in Minders, role \in {"leader", "escaped"} : p = <<v, role>>
    BY DEF SlotsInv, SlotsTypeOK
  <2> QED
    BY <2>1 DEF SlotsInv, SecuredScopes, Secured, Recorded
<1> QED
  BY <1>1, SlotsInvariant, PTL

\* The command of a worker that lives is stopped by no step of another worker or of
\* another's reaper, unless that one runs the same job (stop_previous, Reaper::reap).
THEOREM CommandUndisturbed == SlotsSpec => Undisturbed
<1> DEFINE Kept ==
      \A w \in Minders :
        /\ Live(w) /\ Alone(w) /\ <<w, "leader">> \in members[Job[w]]
        /\ \E v \in Minders \ {w} : minder'[v] # minder[v] \/ reaper'[v] # reaper[v]
        => <<w, "leader">> \in members'[Job[w]]
<1>1. SlotsInv /\ [SlotsNext]_slotVars => [Kept]_slotVars
  <2> SUFFICES ASSUME SlotsInv, NEW u \in Minders, StepOf(u), NEW w \in Minders,
                      Live(w), Alone(w), <<w, "leader">> \in members[Job[w]],
                      NEW v \in Minders \ {w}, minder'[v] # minder[v] \/ reaper'[v] # reaper[v]
               PROVE  <<w, "leader">> \in members'[Job[w]]
    BY DEF SlotsNext, StepOf
  <2> USE DEF SlotsInv, SlotsTypeOK, MinderStates
  <2>1. u = v /\ Job[v] # Job[w] /\ Job[w] \in Scopes
    BY StepEffects, SlotsAssumption DEF Alone
  <2>2. minder[v].slot # 0 => slotRecord[minder[v].slot] # Job[w]
    BY SlotsAssumption DEF RecordedByHolder, SlotsHeld, Live
  <2>3. CASE StopPrevious(v)
    BY <2>2, <2>3 DEF StopPrevious, Stop, SlotAt, SlotsHeld
  <2>4. CASE DropPermit(v)
    <3>1. PICK s \in Scopes \cup {NoScope} : StopOrFail(s) /\ s = slotRecord[minder[v].slot] /\ s # Job[w]
      BY <2>2, <2>4, SlotsAssumption DEF DropPermit, SlotAt, SlotsHeld
    <3> QED
      BY <2>1, <3>1, StopScope
  <2>5. CASE Completion(v) \/ DropGroup(v) \/ ReapScope(v) \/ KillScope(v)
    BY <2>1, <2>5, SlotsAssumption DEF Completion, DropGroup, ReapScope, KillScope, StopOrFail, Stop
  <2>6. CASE GuardFails(v) \/ KillGroup(v) \/ ReapGroup(v)
    BY <2>1, <2>6 DEF GuardFails, KillGroup, ReapGroup, GroupKilled
  <2>7. CASE JoinScope(v) \/ Escape(v) \/ Exit(v)
    BY <2>1, <2>7 DEF JoinScope, Escape, Exit
  <2> QED
    BY <2>1, <2>3, <2>4, <2>5, <2>6, <2>7
       DEF StepOf, SlotStep, Process, BeginScope, TryAdmit, PrepareScope, GiveUp, SpawnScope, GuardScope,
           Cancel, Wait, Abandon, Crash, Report
<1> QED
  BY <1>1, SlotsInvariant, PTL DEF SlotsSpec, Undisturbed

-----------------------------------------------------------------------------
(***************************************************************************)
(* The start of workers through the login session, for any requests, jobs, *)
(* services and deaths.                                                    *)
(*                                                                         *)
(* Locks give most of it: the serve lock makes the service that binds the  *)
(* only one, the alive lock makes a worker the only one of its job, and    *)
(* the launch lock makes a request the only one that starts a worker.  The *)
(* hard part is a refused request whose job runs all the same.  Whoever    *)
(* holds the launch lock took it while the job was accepted, so a request  *)
(* that had reached a service before has died since, and its worker is the *)
(* one that runs; and a request that is refused after its own worker has   *)
(* reported was refused because the thread of the service died.            *)
(***************************************************************************)

Dialogues ==
  [to : Services \cup {NoService}, frame : {"none", "half", "whole"}, answer : {"none", "ready", "refused"}]

\* The points of a request that holds the launch lock of its job.
Holding == {"prepare", "look", "connect", "write", "half", "wait", "refusing"}

\* The types of the services, the requests, the workers and the jobs.
LoginTypeOK ==
  /\ service \in [Services -> {"off", "asked", "elsewhere", "alone", "cleared", "listening", "refused", "dead"}]
  /\ startedIn \in [Services -> SessionKinds]
  /\ caller \in [Callers -> Holding \cup {"called", "nothing", "started", "refused", "dead"}]
  /\ dialogue \in [Callers -> Dialogues]
  /\ thread \in [Callers -> {"none", "read", "launch", "accept", "refuse", "done", "dead"}]
  /\ supervisor \in [Callers -> {"none", "spawned", "attached", "ready", "running", "gone"}]
  /\ launchLock \in [LaunchedJobs -> Callers \cup {NoCaller}]
  /\ aliveLock \in [LaunchedJobs -> Callers \cup {NoCaller}]
  /\ jobPhase \in [LaunchedJobs -> {"accepted", "starting", "running", "launch_failed", "lost", "ended"}]
  /\ announced \subseteq Callers

\* A service binds under the serve lock, and only in the desktop session.
ServesAlone ==
  \A s \in Services :
    /\ service[s] \in {"alone", "cleared", "listening"} => serveLock = s
    /\ service[s] = "listening" => socket = s
    /\ service[s] \in {"asked", "alone", "cleared", "listening"} => startedIn[s] = "Aqua"

\* Where a request stands tells how far its connection has come.
RequestInOrder(c) ==
  /\ caller[c] \in Holding => launchLock[JobOf(c)] = c
  /\ caller[c] \in {"called", "nothing", "prepare", "look", "connect"} => thread[c] = "none"
  /\ caller[c] \in {"called", "nothing", "prepare", "look", "connect", "write", "half"} =>
       dialogue[c].frame # "whole"
  /\ caller[c] \in {"refusing", "refused"} => thread[c] \in {"none", "dead", "done"}
  /\ caller[c] = "started" => dialogue[c].answer = "ready"

\* Where the thread of a service stands tells what the worker has done.
ThreadInOrder(c) ==
  /\ thread[c] = "none" => dialogue[c].to = NoService
  /\ thread[c] \in {"none", "read"} => supervisor[c] = "none"
  /\ thread[c] # "none" => dialogue[c].to \in Services /\ startedIn[dialogue[c].to] = "Aqua"
  /\ dialogue[c].answer # "none" <=> thread[c] = "done"
  /\ thread[c] = "accept" \/ dialogue[c].answer = "ready" => c \in announced
  /\ thread[c] = "refuse" \/ dialogue[c].answer = "refused" =>
       c \notin announced /\ supervisor[c] \in {"none", "gone"}

\* A worker was started for a valid request and holds the alive lock of its job.
WorkerInOrder(c) ==
  /\ supervisor[c] # "none" => Valid(c)
  /\ supervisor[c] \in {"attached", "ready", "running"} =>
       aliveLock[JobOf(c)] = c /\ jobPhase[JobOf(c)] # "accepted"
  /\ c \in announced => supervisor[c] \in {"ready", "running", "gone"} /\ jobPhase[JobOf(c)] # "accepted"
  /\ supervisor[c] \in {"ready", "running"} => c \in announced
  /\ c \in announced /\ caller[c] \in {"refusing", "refused"} => thread[c] = "dead"

CallersInOrder == \A c \in Callers : RequestInOrder(c) /\ ThreadInOrder(c) /\ WorkerInOrder(c)

\* A job runs because a worker of it has reported.
RunningReported ==
  \A j \in LaunchedJobs : jobPhase[j] = "running" => \E o \in announced : JobOf(o) = j

\* A request that reached a service before another took the launch lock has died.
DiedBefore ==
  \A c, o \in Callers :
    caller[c] \in Holding /\ o # c /\ JobOf(o) = JobOf(c) /\ thread[o] # "none" => caller[o] = "dead"

\* What a refused request leaves behind.
RefusedLeaves ==
  \A c \in Callers :
    caller[c] = "refused" =>
      /\ jobPhase[JobOf(c)] \notin {"accepted", "starting"}
      /\ jobPhase[JobOf(c)] = "running" =>
           \E o \in announced : JobOf(o) = JobOf(c) /\ (thread[o] = "dead" \/ caller[o] = "dead")

LoginInv ==
  LoginTypeOK /\ ServesAlone /\ CallersInOrder /\ RunningReported /\ DiedBefore /\ RefusedLeaves
-----------------------------------------------------------------------------
\* The job of a request.
LEMMA JobLaunched == \A c \in Callers : JobOf(c) \in LaunchedJobs
BY DEF LaunchedJobs

\* A dialogue whose frame is written is one.
LEMMA FrameTyped == \A d \in Dialogues, f \in {"half", "whole"} : [d EXCEPT !.frame = f] \in Dialogues
BY DEF Dialogues

\* The invariant holds initially.
LEMMA LoginInitially == LoginInit => LoginInv
<1> SUFFICES ASSUME LoginInit PROVE LoginInv
  OBVIOUS
<1>1. Unconnected \in Dialogues /\ Unconnected.frame = "none" /\ Unconnected.answer = "none"
      /\ Unconnected.to = NoService
  BY DEF Unconnected, Dialogues
<1>2. LoginTypeOK
  BY <1>1 DEF LoginInit, LoginTypeOK
<1>3. CallersInOrder
  BY <1>1 DEF LoginInit, CallersInOrder, RequestInOrder, ThreadInOrder, WorkerInOrder, Holding
<1> QED
  BY <1>2, <1>3 DEF LoginInit, LoginInv, ServesAlone, RunningReported, DiedBefore, RefusedLeaves, Holding

\* A service asks which session it was started in.
LEMMA AskManagerKeeps ==
  ASSUME LoginInv, NEW s \in Services, AskManager(s)
  PROVE  LoginInv'
<1> USE JobLaunched, LoginAssumption DEF LoginInv, LoginTypeOK, Holding, loginServiceVars, jobVars, AskManager
<1>1. LoginTypeOK'
  BY DEF Dialogues
<1>2. ServesAlone'
  BY DEF ServesAlone
<1>3. CallersInOrder'
  BY DEF CallersInOrder, RequestInOrder, ThreadInOrder, WorkerInOrder, Dialogues, Valid
<1>4. RunningReported'
  BY DEF RunningReported
<1>5. DiedBefore'
  BY DEF DiedBefore, CallersInOrder, RequestInOrder, ThreadInOrder, WorkerInOrder
<1>6. RefusedLeaves'
  BY DEF RefusedLeaves, CallersInOrder, RequestInOrder, ThreadInOrder, WorkerInOrder
<1> QED
  BY <1>1, <1>2, <1>3, <1>4, <1>5, <1>6

\* A service takes the serve lock when nobody has it.
LEMMA TakeServeLockKeeps ==
  ASSUME LoginInv, NEW s \in Services, TakeServeLock(s)
  PROVE  LoginInv'
<1> USE JobLaunched, LoginAssumption DEF LoginInv, LoginTypeOK, Holding, loginServiceVars, jobVars, TakeServeLock
<1>1. LoginTypeOK'
  BY DEF Dialogues
<1>2. ServesAlone'
  BY DEF ServesAlone
<1>3. CallersInOrder'
  BY DEF CallersInOrder, RequestInOrder, ThreadInOrder, WorkerInOrder, Dialogues, Valid
<1>4. RunningReported'
  BY DEF RunningReported
<1>5. DiedBefore'
  BY DEF DiedBefore, CallersInOrder, RequestInOrder, ThreadInOrder, WorkerInOrder
<1>6. RefusedLeaves'
  BY DEF RefusedLeaves, CallersInOrder, RequestInOrder, ThreadInOrder, WorkerInOrder
<1> QED
  BY <1>1, <1>2, <1>3, <1>4, <1>5, <1>6

\* Only the holder of the serve lock takes a socket away.
LEMMA ClearSocketKeeps ==
  ASSUME LoginInv, NEW s \in Services, ClearSocket(s)
  PROVE  LoginInv'
<1> USE JobLaunched, LoginAssumption DEF LoginInv, LoginTypeOK, Holding, loginServiceVars, jobVars, ClearSocket
<1>1. LoginTypeOK'
  BY SMTT(30) DEF Dialogues
<1>2. ServesAlone'
  BY DEF ServesAlone
<1>3. CallersInOrder'
  BY DEF CallersInOrder, RequestInOrder, ThreadInOrder, WorkerInOrder, Dialogues, Valid
<1>4. RunningReported'
  BY DEF RunningReported
<1>5. DiedBefore'
  BY DEF DiedBefore, CallersInOrder, RequestInOrder, ThreadInOrder, WorkerInOrder
<1>6. RefusedLeaves'
  BY DEF RefusedLeaves, CallersInOrder, RequestInOrder, ThreadInOrder, WorkerInOrder
<1> QED
  BY <1>1, <1>2, <1>3, <1>4, <1>5, <1>6

\* Only the holder of the serve lock binds.
LEMMA BindSocketKeeps ==
  ASSUME LoginInv, NEW s \in Services, BindSocket(s)
  PROVE  LoginInv'
<1> USE JobLaunched, LoginAssumption DEF LoginInv, LoginTypeOK, Holding, loginServiceVars, jobVars, BindSocket
<1>1. LoginTypeOK'
  BY DEF Dialogues
<1>2. ServesAlone'
  BY DEF ServesAlone
<1>3. CallersInOrder'
  BY DEF CallersInOrder, RequestInOrder, ThreadInOrder, WorkerInOrder, Dialogues, Valid
<1>4. RunningReported'
  BY DEF RunningReported
<1>5. DiedBefore'
  BY DEF DiedBefore, CallersInOrder, RequestInOrder, ThreadInOrder, WorkerInOrder
<1>6. RefusedLeaves'
  BY DEF RefusedLeaves, CallersInOrder, RequestInOrder, ThreadInOrder, WorkerInOrder
<1> QED
  BY <1>1, <1>2, <1>3, <1>4, <1>5, <1>6

\* The threads of a service die with it.
LEMMA ServiceDiesKeeps ==
  ASSUME LoginInv, NEW s \in Services, ServiceDies(s)
  PROVE  LoginInv'
<1> USE JobLaunched, LoginAssumption DEF LoginInv, LoginTypeOK, Holding, loginServiceVars, jobVars, ServiceDies, Ended
<1>1. LoginTypeOK'
  BY DEF Dialogues
<1>2. ServesAlone'
  BY DEF ServesAlone
<1>3. CallersInOrder'
  BY DEF CallersInOrder, RequestInOrder, ThreadInOrder, WorkerInOrder, Dialogues, Valid
<1>4. RunningReported'
  BY DEF RunningReported
<1>5. DiedBefore'
  BY DEF DiedBefore, CallersInOrder, RequestInOrder, ThreadInOrder, WorkerInOrder
<1>6. RefusedLeaves'
  BY DEF RefusedLeaves, CallersInOrder, RequestInOrder, ThreadInOrder, WorkerInOrder
<1> QED
  BY <1>1, <1>2, <1>3, <1>4, <1>5, <1>6

\* A request takes the launch lock of an accepted job; whoever reached a service before is dead.
LEMMA TakeLaunchLockKeeps ==
  ASSUME LoginInv, NEW c \in Callers, TakeLaunchLock(c)
  PROVE  LoginInv'
<1> USE JobLaunched, LoginAssumption DEF LoginInv, LoginTypeOK, Holding, loginServiceVars, jobVars, TakeLaunchLock, Told
<1>1. LoginTypeOK'
  <2>1. CASE jobPhase[JobOf(c)] = "accepted"
    <3>1. jobPhase' \in [LaunchedJobs -> {"accepted", "starting", "running", "launch_failed", "lost", "ended"}]
      BY <2>1
    <3>2. launchLock' \in [LaunchedJobs -> Callers \cup {NoCaller}]
      BY <2>1
    <3> QED
      BY <2>1, <3>1, <3>2
  <2>2. CASE ~(jobPhase[JobOf(c)] = "accepted")
    BY SMTT(30), <2>2 DEF Dialogues
  <2> QED
    BY <2>1, <2>2
<1>2. ServesAlone'
  BY DEF ServesAlone
<1>3. CallersInOrder'
  BY DEF CallersInOrder, RequestInOrder, ThreadInOrder, WorkerInOrder, Dialogues, Valid
<1>4. RunningReported'
  BY DEF RunningReported
<1>5. DiedBefore'
  BY DEF DiedBefore, RefusedLeaves, CallersInOrder, RequestInOrder, ThreadInOrder, WorkerInOrder
<1>6. RefusedLeaves'
  BY DEF RefusedLeaves, CallersInOrder, RequestInOrder, ThreadInOrder, WorkerInOrder
<1> QED
  BY <1>1, <1>2, <1>3, <1>4, <1>5, <1>6

\* A request that fits its frame goes on.
LEMMA PrepareHandoffKeeps ==
  ASSUME LoginInv, NEW c \in Callers, PrepareHandoff(c)
  PROVE  LoginInv'
<1> USE JobLaunched, LoginAssumption DEF LoginInv, LoginTypeOK, Holding, loginServiceVars, jobVars, PrepareHandoff, Steps
<1>1. LoginTypeOK'
  BY DEF Dialogues
<1>2. ServesAlone'
  BY DEF ServesAlone
<1>3. CallersInOrder'
  BY DEF CallersInOrder, RequestInOrder, ThreadInOrder, WorkerInOrder, Dialogues, Valid
<1>4. RunningReported'
  BY DEF RunningReported
<1>5. DiedBefore'
  BY DEF DiedBefore, CallersInOrder, RequestInOrder, ThreadInOrder, WorkerInOrder
<1>6. RefusedLeaves'
  BY DEF RefusedLeaves, CallersInOrder, RequestInOrder, ThreadInOrder, WorkerInOrder
<1> QED
  BY <1>1, <1>2, <1>3, <1>4, <1>5, <1>6

\* A request looks for the desktop session.
LEMMA CheckDesktopKeeps ==
  ASSUME LoginInv, NEW c \in Callers, CheckDesktop(c)
  PROVE  LoginInv'
<1> USE JobLaunched, LoginAssumption DEF LoginInv, LoginTypeOK, Holding, loginServiceVars, jobVars, CheckDesktop, Steps
<1>1. LoginTypeOK'
  BY DEF Dialogues
<1>2. ServesAlone'
  BY DEF ServesAlone
<1>3. CallersInOrder'
  BY DEF CallersInOrder, RequestInOrder, ThreadInOrder, WorkerInOrder, Dialogues, Valid
<1>4. RunningReported'
  BY DEF RunningReported
<1>5. DiedBefore'
  BY DEF DiedBefore, CallersInOrder, RequestInOrder, ThreadInOrder, WorkerInOrder
<1>6. RefusedLeaves'
  BY DEF RefusedLeaves, CallersInOrder, RequestInOrder, ThreadInOrder, WorkerInOrder
<1> QED
  BY <1>1, <1>2, <1>3, <1>4, <1>5, <1>6

\* A request gets a thread of a service that listens.
LEMMA ConnectKeeps ==
  ASSUME LoginInv, NEW c \in Callers, Connect(c)
  PROVE  LoginInv'
<1> USE JobLaunched, LoginAssumption DEF LoginInv, LoginTypeOK, Holding, loginServiceVars, jobVars, Connect, Steps, Listening
<1>1. LoginTypeOK'
  <2>1. CASE Listening = {}
    BY <2>1 DEF Dialogues
  <2>2. CASE ~(Listening = {})
    <3>1. PICK s \in Services : dialogue' = [dialogue EXCEPT ![c].to = s]
      BY <2>2
    <3>2. [dialogue[c] EXCEPT !.to = s] \in Dialogues
      BY DEF Dialogues
    <3>3. dialogue' \in [Callers -> Dialogues]
      BY <3>1, <3>2
    <3> QED
      BY <2>2, <3>3
  <2> QED
    BY <2>1, <2>2
<1>2. ServesAlone'
  BY DEF ServesAlone
<1>3. CallersInOrder'
  <2>1. CASE Listening = {}
    BY <2>1 DEF CallersInOrder, RequestInOrder, ThreadInOrder, WorkerInOrder, Dialogues, Valid
  <2>2. CASE ~(Listening = {})
    BY <2>2 DEF CallersInOrder, RequestInOrder, ThreadInOrder, WorkerInOrder, Dialogues, Valid, ServesAlone
  <2> QED
    BY <2>1, <2>2
<1>4. RunningReported'
  BY DEF RunningReported
<1>5. DiedBefore'
  BY DEF DiedBefore, CallersInOrder, RequestInOrder, ThreadInOrder, WorkerInOrder
<1>6. RefusedLeaves'
  BY DEF RefusedLeaves, CallersInOrder, RequestInOrder, ThreadInOrder, WorkerInOrder
<1> QED
  BY <1>1, <1>2, <1>3, <1>4, <1>5, <1>6

\* A request writes its frame in parts.
LEMMA WriteFrameKeeps ==
  ASSUME LoginInv, NEW c \in Callers, WriteFrame(c)
  PROVE  LoginInv'
<1> USE JobLaunched, LoginAssumption DEF LoginInv, LoginTypeOK, Holding, loginServiceVars, jobVars, WriteFrame, Steps, Ended
<1>1. LoginTypeOK'
  <2>1. CASE Ended(c)
    BY <2>1 DEF Dialogues
  <2>2. CASE ~(Ended(c))
    <3>1. PICK f \in {"half", "whole"} : dialogue' = [dialogue EXCEPT ![c].frame = f]
      BY <2>2
    <3>2. [dialogue[c] EXCEPT !.frame = f] \in Dialogues
      BY FrameTyped
    <3>3. dialogue' \in [Callers -> Dialogues]
      BY <3>1, <3>2
    <3> QED
      BY <2>2, <3>3
  <2> QED
    BY <2>1, <2>2
<1>2. ServesAlone'
  BY DEF ServesAlone
<1>3. CallersInOrder'
  BY SMTT(30) DEF CallersInOrder, RequestInOrder, ThreadInOrder, WorkerInOrder, Dialogues, Valid
<1>4. RunningReported'
  BY DEF RunningReported
<1>5. DiedBefore'
  BY DEF DiedBefore, CallersInOrder, RequestInOrder, ThreadInOrder, WorkerInOrder
<1>6. RefusedLeaves'
  BY DEF RefusedLeaves, CallersInOrder, RequestInOrder, ThreadInOrder, WorkerInOrder
<1> QED
  BY <1>1, <1>2, <1>3, <1>4, <1>5, <1>6

\* A request reads its answer or the end of the connection.
LEMMA ReadAnswerKeeps ==
  ASSUME LoginInv, NEW c \in Callers, ReadAnswer(c)
  PROVE  LoginInv'
<1> USE JobLaunched, LoginAssumption DEF LoginInv, LoginTypeOK, Holding, loginServiceVars, jobVars, ReadAnswer, Free, Ended
<1>1. LoginTypeOK'
  BY DEF Dialogues
<1>2. ServesAlone'
  BY DEF ServesAlone
<1>3. CallersInOrder'
  BY DEF CallersInOrder, RequestInOrder, ThreadInOrder, WorkerInOrder, Dialogues, Valid
<1>4. RunningReported'
  BY DEF RunningReported
<1>5. DiedBefore'
  BY DEF DiedBefore, CallersInOrder, RequestInOrder, ThreadInOrder, WorkerInOrder
<1>6. RefusedLeaves'
  BY DEF RefusedLeaves, CallersInOrder, RequestInOrder, ThreadInOrder, WorkerInOrder
<1> QED
  BY <1>1, <1>2, <1>3, <1>4, <1>5, <1>6

\* A refused request ends the job, unless a worker of it has reported.
LEMMA RefuseSubmissionKeeps ==
  ASSUME LoginInv, NEW c \in Callers, RefuseSubmission(c)
  PROVE  LoginInv'
<1> USE JobLaunched, LoginAssumption DEF LoginInv, LoginTypeOK, Holding, loginServiceVars, jobVars, RefuseSubmission, Free, LaunchFailed
<1>1. LoginTypeOK'
  BY DEF Dialogues
<1>2. ServesAlone'
  BY DEF ServesAlone
<1>3. CallersInOrder'
  BY DEF CallersInOrder, RequestInOrder, ThreadInOrder, WorkerInOrder, Dialogues, Valid
<1>4. RunningReported'
  BY DEF RunningReported
<1>5. DiedBefore'
  BY DEF DiedBefore, CallersInOrder, RequestInOrder, ThreadInOrder, WorkerInOrder
<1>6. RefusedLeaves'
  BY DEF RefusedLeaves, RunningReported, DiedBefore, CallersInOrder, RequestInOrder, ThreadInOrder, WorkerInOrder
<1> QED
  BY <1>1, <1>2, <1>3, <1>4, <1>5, <1>6

\* A worker is only started for a valid request.
LEMMA ReceiveRequestKeeps ==
  ASSUME LoginInv, NEW c \in Callers, ReceiveRequest(c)
  PROVE  LoginInv'
<1> USE JobLaunched, LoginAssumption DEF LoginInv, LoginTypeOK, Holding, loginServiceVars, jobVars, ReceiveRequest, Valid
<1>1. LoginTypeOK'
  <2>1. CASE thread' = [thread EXCEPT ![c] = "launch"]
    BY <2>1 DEF Dialogues
  <2>2. CASE thread' = [thread EXCEPT ![c] = "refuse"]
    BY <2>2 DEF Dialogues
  <2> QED
    BY <2>1, <2>2
<1>2. ServesAlone'
  BY DEF ServesAlone
<1>3. CallersInOrder'
  <2>1. CASE /\ Valid(c) /\ thread' = [thread EXCEPT ![c] = "launch"]
             /\ supervisor' = [supervisor EXCEPT ![c] = "spawned"]
    BY <2>1 DEF CallersInOrder, RequestInOrder, ThreadInOrder, WorkerInOrder, Dialogues, Valid
  <2>2. CASE thread' = [thread EXCEPT ![c] = "refuse"] /\ UNCHANGED supervisor
    BY <2>2 DEF CallersInOrder, RequestInOrder, ThreadInOrder, WorkerInOrder, Dialogues, Valid, ServesAlone
  <2> QED
    BY <2>1, <2>2
<1>4. RunningReported'
  BY DEF RunningReported
<1>5. DiedBefore'
  BY DEF DiedBefore, CallersInOrder, RequestInOrder, ThreadInOrder, WorkerInOrder
<1>6. RefusedLeaves'
  BY DEF RefusedLeaves, CallersInOrder, RequestInOrder, ThreadInOrder, WorkerInOrder
<1> QED
  BY <1>1, <1>2, <1>3, <1>4, <1>5, <1>6

\* The thread waits for the report of its worker.
LEMMA AwaitReadyKeeps ==
  ASSUME LoginInv, NEW c \in Callers, AwaitReady(c)
  PROVE  LoginInv'
<1> USE JobLaunched, LoginAssumption DEF LoginInv, LoginTypeOK, Holding, loginServiceVars, jobVars, AwaitReady
<1>1. LoginTypeOK'
  BY DEF Dialogues
<1>2. ServesAlone'
  BY DEF ServesAlone
<1>3. CallersInOrder'
  BY DEF CallersInOrder, RequestInOrder, ThreadInOrder, WorkerInOrder, Dialogues, Valid
<1>4. RunningReported'
  BY DEF RunningReported
<1>5. DiedBefore'
  BY DEF DiedBefore, CallersInOrder, RequestInOrder, ThreadInOrder, WorkerInOrder
<1>6. RefusedLeaves'
  BY DEF RefusedLeaves, CallersInOrder, RequestInOrder, ThreadInOrder, WorkerInOrder
<1> QED
  BY <1>1, <1>2, <1>3, <1>4, <1>5, <1>6

\* The thread answers what the worker did.
LEMMA ReplyToKeeps ==
  ASSUME LoginInv, NEW c \in Callers, ReplyTo(c)
  PROVE  LoginInv'
<1> USE JobLaunched, LoginAssumption DEF LoginInv, LoginTypeOK, Holding, loginServiceVars, jobVars, ReplyTo
<1>1. LoginTypeOK'
  BY SMTT(30) DEF Dialogues
<1>2. ServesAlone'
  BY DEF ServesAlone
<1>3. CallersInOrder'
  BY DEF CallersInOrder, RequestInOrder, ThreadInOrder, WorkerInOrder, Dialogues, Valid
<1>4. RunningReported'
  BY DEF RunningReported
<1>5. DiedBefore'
  BY DEF DiedBefore, CallersInOrder, RequestInOrder, ThreadInOrder, WorkerInOrder
<1>6. RefusedLeaves'
  BY DEF RefusedLeaves, CallersInOrder, RequestInOrder, ThreadInOrder, WorkerInOrder
<1> QED
  BY <1>1, <1>2, <1>3, <1>4, <1>5, <1>6

\* A worker takes the alive lock of an accepted job.
LEMMA AttachKeeps ==
  ASSUME LoginInv, NEW c \in Callers, Attach(c)
  PROVE  LoginInv'
<1> USE JobLaunched, LoginAssumption DEF LoginInv, LoginTypeOK, Holding, loginServiceVars, jobVars, Attach
<1>1. LoginTypeOK'
  <2>1. CASE aliveLock[JobOf(c)] = NoCaller /\ jobPhase[JobOf(c)] = "accepted"
    <3>1. jobPhase' \in [LaunchedJobs -> {"accepted", "starting", "running", "launch_failed", "lost", "ended"}]
      BY <2>1
    <3>2. aliveLock' \in [LaunchedJobs -> Callers \cup {NoCaller}]
      BY <2>1
    <3> QED
      BY <2>1, <3>1, <3>2
  <2>2. CASE ~(aliveLock[JobOf(c)] = NoCaller /\ jobPhase[JobOf(c)] = "accepted")
    BY <2>2 DEF Dialogues
  <2> QED
    BY <2>1, <2>2
<1>2. ServesAlone'
  BY DEF ServesAlone
<1>3. CallersInOrder'
  BY DEF CallersInOrder, RequestInOrder, ThreadInOrder, WorkerInOrder, Dialogues, Valid
<1>4. RunningReported'
  BY DEF RunningReported
<1>5. DiedBefore'
  BY DEF DiedBefore, CallersInOrder, RequestInOrder, ThreadInOrder, WorkerInOrder
<1>6. RefusedLeaves'
  BY DEF RefusedLeaves, CallersInOrder, RequestInOrder, ThreadInOrder, WorkerInOrder
<1> QED
  BY <1>1, <1>2, <1>3, <1>4, <1>5, <1>6

\* A worker reports to a thread that waits for it, or gives up.
LEMMA AnnounceReadyKeeps ==
  ASSUME LoginInv, NEW c \in Callers, AnnounceReady(c)
  PROVE  LoginInv'
<1> USE JobLaunched, LoginAssumption DEF LoginInv, LoginTypeOK, Holding, loginServiceVars, jobVars, AnnounceReady, Departs, LaunchFailed
<1>1. LoginTypeOK'
  <2>1. CASE thread[c] = "launch"
    BY <2>1 DEF Dialogues
  <2>2. CASE ~(thread[c] = "launch")
    <3>1. jobPhase' \in [LaunchedJobs -> {"accepted", "starting", "running", "launch_failed", "lost", "ended"}]
      BY <2>2
    <3>2. aliveLock' \in [LaunchedJobs -> Callers \cup {NoCaller}]
      BY <2>2
    <3> QED
      BY <2>2, <3>1, <3>2
  <2> QED
    BY <2>1, <2>2
<1>2. ServesAlone'
  BY DEF ServesAlone
<1>3. CallersInOrder'
  BY DEF CallersInOrder, RequestInOrder, ThreadInOrder, WorkerInOrder, Dialogues, Valid
<1>4. RunningReported'
  BY DEF RunningReported
<1>5. DiedBefore'
  BY DEF DiedBefore, CallersInOrder, RequestInOrder, ThreadInOrder, WorkerInOrder
<1>6. RefusedLeaves'
  BY DEF RefusedLeaves, CallersInOrder, RequestInOrder, ThreadInOrder, WorkerInOrder
<1> QED
  BY <1>1, <1>2, <1>3, <1>4, <1>5, <1>6

\* A worker runs its command unless the job has failed meanwhile.
LEMMA RunCommandKeeps ==
  ASSUME LoginInv, NEW c \in Callers, RunCommand(c)
  PROVE  LoginInv'
<1> USE JobLaunched, LoginAssumption DEF LoginInv, LoginTypeOK, Holding, loginServiceVars, jobVars, RunCommand, Departs, LaunchFailed
<1>1. LoginTypeOK'
  <2>1. CASE jobPhase[JobOf(c)] = "starting"
    <3>1. /\ supervisor' = [supervisor EXCEPT ![c] = "running"] /\ UNCHANGED aliveLock
          /\ jobPhase' = [jobPhase EXCEPT ![JobOf(c)] = "running"]
      BY <2>1
    <3>2. supervisor' \in [Callers -> {"none", "spawned", "attached", "ready", "running", "gone"}]
      BY <3>1
    <3>3. jobPhase' \in [LaunchedJobs -> {"accepted", "starting", "running", "launch_failed", "lost", "ended"}]
      BY <3>1
    <3> QED
      BY <3>1, <3>2, <3>3
  <2>2. CASE ~(jobPhase[JobOf(c)] = "starting")
    <3>1. jobPhase' \in [LaunchedJobs -> {"accepted", "starting", "running", "launch_failed", "lost", "ended"}]
      BY <2>2
    <3>2. aliveLock' \in [LaunchedJobs -> Callers \cup {NoCaller}]
      BY <2>2
    <3> QED
      BY <2>2, <3>1, <3>2
  <2> QED
    BY <2>1, <2>2
<1>2. ServesAlone'
  BY DEF ServesAlone
<1>3. CallersInOrder'
  BY DEF CallersInOrder, RequestInOrder, ThreadInOrder, WorkerInOrder, Dialogues, Valid
<1>4. RunningReported'
  BY DEF RunningReported, CallersInOrder, WorkerInOrder
<1>5. DiedBefore'
  BY DEF DiedBefore, CallersInOrder, RequestInOrder, ThreadInOrder, WorkerInOrder
<1>6. RefusedLeaves'
  BY DEF RefusedLeaves, CallersInOrder, RequestInOrder, ThreadInOrder, WorkerInOrder
<1> QED
  BY <1>1, <1>2, <1>3, <1>4, <1>5, <1>6

\* The command ends.
LEMMA CommandEndsKeeps ==
  ASSUME LoginInv, NEW c \in Callers, CommandEnds(c)
  PROVE  LoginInv'
<1> USE JobLaunched, LoginAssumption DEF LoginInv, LoginTypeOK, Holding, loginServiceVars, jobVars, CommandEnds, Departs
<1>1. LoginTypeOK'
  BY DEF Dialogues
<1>2. ServesAlone'
  BY DEF ServesAlone
<1>3. CallersInOrder'
  BY DEF CallersInOrder, RequestInOrder, ThreadInOrder, WorkerInOrder, Dialogues, Valid
<1>4. RunningReported'
  BY DEF RunningReported
<1>5. DiedBefore'
  BY DEF DiedBefore, CallersInOrder, RequestInOrder, ThreadInOrder, WorkerInOrder
<1>6. RefusedLeaves'
  BY DEF RefusedLeaves, CallersInOrder, RequestInOrder, ThreadInOrder, WorkerInOrder
<1> QED
  BY <1>1, <1>2, <1>3, <1>4, <1>5, <1>6

\* A request dies and gives the launch lock back.
LEMMA CallerDiesKeeps ==
  ASSUME LoginInv, NEW c \in Callers, CallerDies(c)
  PROVE  LoginInv'
<1> USE JobLaunched, LoginAssumption DEF LoginInv, LoginTypeOK, Holding, loginServiceVars, jobVars, CallerDies, Free
<1>1. LoginTypeOK'
  BY DEF Dialogues
<1>2. ServesAlone'
  BY DEF ServesAlone
<1>3. CallersInOrder'
  BY DEF CallersInOrder, RequestInOrder, ThreadInOrder, WorkerInOrder, Dialogues, Valid
<1>4. RunningReported'
  BY DEF RunningReported
<1>5. DiedBefore'
  BY DEF DiedBefore, CallersInOrder, RequestInOrder, ThreadInOrder, WorkerInOrder
<1>6. RefusedLeaves'
  BY DEF RefusedLeaves, CallersInOrder, RequestInOrder, ThreadInOrder, WorkerInOrder
<1> QED
  BY <1>1, <1>2, <1>3, <1>4, <1>5, <1>6

\* A worker dies and gives the alive lock back.
LEMMA WorkerDiesKeeps ==
  ASSUME LoginInv, NEW c \in Callers, WorkerDies(c)
  PROVE  LoginInv'
<1> USE JobLaunched, LoginAssumption DEF LoginInv, LoginTypeOK, Holding, loginServiceVars, jobVars, WorkerDies
<1>1. LoginTypeOK'
  BY DEF Dialogues
<1>2. ServesAlone'
  BY DEF ServesAlone
<1>3. CallersInOrder'
  BY DEF CallersInOrder, RequestInOrder, ThreadInOrder, WorkerInOrder, Dialogues, Valid
<1>4. RunningReported'
  BY DEF RunningReported
<1>5. DiedBefore'
  BY DEF DiedBefore, CallersInOrder, RequestInOrder, ThreadInOrder, WorkerInOrder
<1>6. RefusedLeaves'
  BY DEF RefusedLeaves, CallersInOrder, RequestInOrder, ThreadInOrder, WorkerInOrder
<1> QED
  BY <1>1, <1>2, <1>3, <1>4, <1>5, <1>6

\* Nothing depends on the desktop once a request has looked.
LEMMA DesktopChangesKeeps ==
  ASSUME LoginInv, DesktopChanges \/ UNCHANGED loginVars
  PROVE  LoginInv'
<1>1. UNCHANGED <<startedIn, service, serveLock, socket, handoff, caller, dialogue, thread, supervisor,
                  launchLock, aliveLock, jobPhase, announced>>
  BY DEF DesktopChanges, loginVars, loginServiceVars, jobVars
<1> QED
  BY <1>1 DEF LoginInv, LoginTypeOK, ServesAlone, CallersInOrder, RequestInOrder, ThreadInOrder,
              WorkerInOrder, RunningReported, DiedBefore, RefusedLeaves, Valid

-----------------------------------------------------------------------------
\* The invariant holds in every state.
LEMMA LoginInvariant == LoginSpec => []LoginInv
<1>1. ASSUME LoginInv, [LoginNext]_loginVars PROVE LoginInv'
  <2>1. ASSUME NEW s \in Services,
               AskManager(s) \/ TakeServeLock(s) \/ ClearSocket(s) \/ BindSocket(s) \/ ServiceDies(s)
        PROVE  LoginInv'
    BY <1>1, <2>1, AskManagerKeeps, TakeServeLockKeeps, ClearSocketKeeps, BindSocketKeeps, ServiceDiesKeeps
  <2>2. ASSUME NEW c \in Callers,
               \/ TakeLaunchLock(c) \/ PrepareHandoff(c) \/ CheckDesktop(c) \/ Connect(c) \/ WriteFrame(c)
               \/ ReadAnswer(c) \/ RefuseSubmission(c)
        PROVE  LoginInv'
    BY <1>1, <2>2, TakeLaunchLockKeeps, PrepareHandoffKeeps, CheckDesktopKeeps, ConnectKeeps,
       WriteFrameKeeps, ReadAnswerKeeps, RefuseSubmissionKeeps
  <2>3. ASSUME NEW c \in Callers,
               \/ ReceiveRequest(c) \/ AwaitReady(c) \/ ReplyTo(c)
               \/ Attach(c) \/ AnnounceReady(c) \/ RunCommand(c) \/ CommandEnds(c)
               \/ CallerDies(c) \/ WorkerDies(c)
        PROVE  LoginInv'
    BY <1>1, <2>3, ReceiveRequestKeeps, AwaitReadyKeeps, ReplyToKeeps, AttachKeeps, AnnounceReadyKeeps,
       RunCommandKeeps, CommandEndsKeeps, CallerDiesKeeps, WorkerDiesKeeps
  <2> QED
    BY <1>1, <2>1, <2>2, <2>3, DesktopChangesKeeps DEF LoginNext
<1> QED
  BY <1>1, LoginInitially, PTL DEF LoginSpec

\* However requests, services and workers interleave and die: a live socket is never
\* taken away, a request is told of success only after its worker has reported to a
\* service of the desktop session, a job has at most one worker and only for a valid
\* request, and a refused request leaves no job that could still start (login.rs,
\* worker_handoff.rs, start_worker_using).
THEOREM LoginCorrect == LoginSpec => []LoginSound
<1>1. LoginInv => LoginSound
  <2> SUFFICES ASSUME LoginInv PROVE LoginSound
    OBVIOUS
  <2>1. \A s \in Services : service[s] = "listening" => socket = s /\ serveLock = s
    BY DEF LoginInv, ServesAlone
  <2>2. \A j \in LaunchedJobs : Cardinality(Supervised(j)) <= 1
    <3> SUFFICES ASSUME NEW j \in LaunchedJobs PROVE Cardinality(Supervised(j)) <= 1
      OBVIOUS
    <3>1. Supervised(j) \subseteq {aliveLock[j]}
      BY DEF Supervised, LoginInv, CallersInOrder, WorkerInOrder
    <3>2. IsFiniteSet({aliveLock[j]}) /\ Cardinality({aliveLock[j]}) = 1
      BY FS_Singleton
    <3>3. Cardinality(Supervised(j)) <= Cardinality({aliveLock[j]})
      BY <3>1, <3>2, FS_Subset
    <3> QED
      BY <3>2, <3>3
  <2>3. \A c \in Callers :
          /\ caller[c] = "started" => c \in announced /\ startedIn[dialogue[c].to] = "Aqua"
          /\ supervisor[c] # "none" => Valid(c)
    BY DEF LoginInv, CallersInOrder, RequestInOrder, ThreadInOrder, WorkerInOrder
  <2>4. \A c \in Callers :
          /\ caller[c] = "refused" => jobPhase[JobOf(c)] \notin {"accepted", "starting"}
          /\ (caller[c] = "refused" /\ jobPhase[JobOf(c)] = "running") =>
               \E o \in announced : JobOf(o) = JobOf(c) /\ (thread[o] = "dead" \/ caller[o] = "dead")
    BY DEF LoginInv, RefusedLeaves
  <2> QED
    BY <2>1, <2>2, <2>3, <2>4 DEF LoginSound
<1> QED
  BY <1>1, LoginInvariant, PTL

-----------------------------------------------------------------------------
(***************************************************************************)
(* A child process and its output, for any limit of a stream, room of a    *)
(* pipe and number of faults.                                              *)
(*                                                                         *)
(* Of what was written to a pipe every byte is kept, dropped or still in   *)
(* the pipe, and a reader that met the end of its stream leaves nothing    *)
(* in it and nobody who could write; this gives the answers.  Signals go   *)
(* to the right group because the identifier is only given away after the  *)
(* leader was waited for, and the mutex of the child says so before.       *)
(***************************************************************************)

\* The types of the run, its streams and its group.
ChildrenTypeOK ==
  /\ kind \in {"tool", "complete", "provider"}
  /\ runStage \in {"command", "spawn", "capture", "waitchild", "await", "remaining", "reap", "down", "join",
                   "returned", "dead"}
  /\ readerOf \in [Streams -> {"none", "reading", "over", "failed", "ended", "large", "lost"}]
  /\ pipe \in [Streams -> Nat] /\ output \in [Streams -> Nat]
  /\ captured \in [Streams -> Nat] /\ omitted \in [Streams -> Nat]
  /\ leader \in {"none", "alive", "ended", "reaped"} /\ descendant \in {"none", "alive", "ended"}
  /\ taken \in BOOLEAN /\ reused \in BOOLEAN /\ misfired \in BOOLEAN

NobodyAlive == leader # "alive" /\ descendant # "alive"

\* How far the caller has come tells what has become of the child.
StageInOrder ==
  /\ runStage \in {"command", "spawn"} => leader = "none" /\ \A s \in Streams : readerOf[s] = "none"
  /\ leader = "none" => descendant = "none"
  /\ runStage \in {"capture", "waitchild"} => kind # "provider"
  /\ runStage \in {"await", "remaining", "reap", "down"} => kind = "provider"
  /\ runStage \in {"capture", "waitchild", "await", "remaining", "reap", "down", "join"} =>
       \A s \in Streams : Piped(s) => readerOf[s] # "none"
  /\ runStage \in {"remaining", "reap"} => leader = "ended" /\ taken
  /\ kind = "provider" /\ runStage \in {"reap", "down", "join", "returned"} => NobodyAlive
  /\ kind # "provider" /\ runStage \in {"waitchild", "join"} => readerOf["out"] \in {"ended", "failed"}

\* The identifier of the group is only given away after the child was marked as taken.
GroupInOrder ==
  /\ taken => leader \in {"ended", "reaped"}
  /\ reused => leader = "reaped"
  /\ kind = "provider" /\ leader = "reaped" =>
       taken \/ (readerOf["out"] = "none" /\ runStage = "returned")
  /\ warden = "acted" => runStage = "dead" /\ (reused \/ NobodyAlive)
  /\ ~misfired

\* Every byte is kept, dropped or in the pipe, and a reader that ended has met the end.
StreamsInOrder ==
  \A s \in Streams :
    /\ Piped(s) => output[s] = captured[s] + omitted[s] + pipe[s]
    /\ readerOf[s] = "ended" /\ runStage # "dead" => EndOfStream(s)
    /\ readerOf[s] \in {"large", "lost"} => leader # "alive"
    /\ kind = "provider" => omitted[s] = 0 /\ captured[s] <= StreamLimit + 1
    /\ kind # "provider" => captured[s] <= StreamLimit /\ (omitted[s] > 0 => captured[s] = StreamLimit)
    /\ captured[s] > StreamLimit => readerOf[s] \in {"over", "large"} \/ runStage = "dead"
    /\ runStage = "dead" => readerOf[s] = "ended"

\* An outcome of the child is only returned after its output was read to the end.
ResultInOrder ==
  runResult \in {"success", "failed"} =>
    /\ runStage = "returned" /\ readerOf["out"] = "ended"
    /\ kind # "provider" => readerOf["err"] = "ended"
    /\ kind = "complete" => omitted["out"] = 0

ChildrenInv == ChildrenTypeOK /\ StageInOrder /\ GroupInOrder /\ StreamsInOrder /\ ResultInOrder
-----------------------------------------------------------------------------
\* The invariant holds initially.
LEMMA ChildrenInitially == ChildrenInit => ChildrenInv
<1> SUFFICES ASSUME ChildrenInit PROVE ChildrenInv
  OBVIOUS
<1>1. ChildrenTypeOK
  BY ChildrenAssumption DEF ChildrenInit, ChildrenTypeOK, Streams
<1> QED
  BY <1>1, ChildrenAssumption
     DEF ChildrenInit, ChildrenInv, StageInOrder, GroupInOrder, StreamsInOrder, ResultInOrder, Streams, Piped

\* A session that cannot be resumed or a program that is missing ends the run.
LEMMA BuildCommandKeeps ==
  ASSUME ChildrenInv, BuildCommand
  PROVE  ChildrenInv'
<1> USE ChildrenAssumption DEF ChildrenInv, ChildrenTypeOK, Streams, requestVars, streamVars, memberVars,
        groupVars, BuildCommand
<1>1. ChildrenTypeOK'
  BY DEF StageInOrder
<1>2. StageInOrder'
  BY DEF StageInOrder, GroupInOrder, StreamsInOrder, Piped, NobodyAlive, EndOfStream
<1>3. GroupInOrder'
  BY DEF StageInOrder, GroupInOrder, StreamsInOrder, NobodyAlive
<1>4. StreamsInOrder'
  BY DEF StageInOrder, GroupInOrder, StreamsInOrder, Piped, EndOfStream
<1>5. ResultInOrder'
  BY DEF StageInOrder, StreamsInOrder, ResultInOrder, EndOfStream
<1> QED
  BY <1>1, <1>2, <1>3, <1>4, <1>5

\* A child comes to life with a reader for each of its pipes.
LEMMA SpawnChildKeeps ==
  ASSUME ChildrenInv, SpawnChild
  PROVE  ChildrenInv'
<1> USE ChildrenAssumption DEF ChildrenInv, ChildrenTypeOK, Streams, requestVars, streamVars, memberVars,
        groupVars, SpawnChild
<1>1. ChildrenTypeOK'
  BY DEF StageInOrder
<1>2. StageInOrder'
  BY DEF StageInOrder, GroupInOrder, StreamsInOrder, Piped, NobodyAlive, EndOfStream
<1>3. GroupInOrder'
  BY DEF StageInOrder, GroupInOrder, StreamsInOrder, NobodyAlive
<1>4. StreamsInOrder'
  BY DEF StageInOrder, GroupInOrder, StreamsInOrder, Piped, EndOfStream
<1>5. ResultInOrder'
  BY DEF StageInOrder, StreamsInOrder, ResultInOrder, EndOfStream
<1> QED
  BY <1>1, <1>2, <1>3, <1>4, <1>5

\* Only a leader that is alive has descendants.
LEMMA ForkKeeps ==
  ASSUME ChildrenInv, Fork
  PROVE  ChildrenInv'
<1> USE ChildrenAssumption DEF ChildrenInv, ChildrenTypeOK, Streams, requestVars, streamVars, memberVars,
        groupVars, Fork
<1>1. ChildrenTypeOK'
  BY DEF StageInOrder
<1>2. StageInOrder'
  BY DEF StageInOrder, GroupInOrder, StreamsInOrder, Piped, NobodyAlive, EndOfStream
<1>3. GroupInOrder'
  BY DEF StageInOrder, GroupInOrder, StreamsInOrder, NobodyAlive
<1>4. StreamsInOrder'
  BY DEF StageInOrder, GroupInOrder, StreamsInOrder, Piped, EndOfStream
<1>5. ResultInOrder'
  BY DEF StageInOrder, StreamsInOrder, ResultInOrder, EndOfStream
<1> QED
  BY <1>1, <1>2, <1>3, <1>4, <1>5

\* The leader ends and keeps its identifier.
LEMMA LeaderEndsKeeps ==
  ASSUME ChildrenInv, LeaderEnds
  PROVE  ChildrenInv'
<1> USE ChildrenAssumption DEF ChildrenInv, ChildrenTypeOK, Streams, requestVars, streamVars, memberVars,
        groupVars, LeaderEnds
<1>1. ChildrenTypeOK'
  BY DEF StageInOrder
<1>2. StageInOrder'
  BY DEF StageInOrder, GroupInOrder, StreamsInOrder, Piped, NobodyAlive, EndOfStream
<1>3. GroupInOrder'
  BY DEF StageInOrder, GroupInOrder, StreamsInOrder, NobodyAlive
<1>4. StreamsInOrder'
  BY DEF StageInOrder, GroupInOrder, StreamsInOrder, Piped, EndOfStream
<1>5. ResultInOrder'
  BY DEF StageInOrder, StreamsInOrder, ResultInOrder, EndOfStream
<1> QED
  BY <1>1, <1>2, <1>3, <1>4, <1>5

\* A descendant writes to the pipe of the output.
LEMMA DescendantWritesKeeps ==
  ASSUME ChildrenInv, DescendantWrites
  PROVE  ChildrenInv'
<1> USE ChildrenAssumption DEF ChildrenInv, ChildrenTypeOK, Streams, requestVars, streamVars, memberVars,
        groupVars, DescendantWrites, Writes
<1>1. ChildrenTypeOK'
  BY DEF StageInOrder
<1>2. StageInOrder'
  BY DEF StageInOrder, GroupInOrder, StreamsInOrder, Piped, NobodyAlive, EndOfStream
<1>3. GroupInOrder'
  BY DEF StageInOrder, GroupInOrder, StreamsInOrder, NobodyAlive
<1>4. StreamsInOrder'
  BY DEF StageInOrder, GroupInOrder, StreamsInOrder, Piped, EndOfStream
<1>5. ResultInOrder'
  BY DEF StageInOrder, StreamsInOrder, ResultInOrder, EndOfStream
<1> QED
  BY <1>1, <1>2, <1>3, <1>4, <1>5

\* A descendant ends.
LEMMA DescendantEndsKeeps ==
  ASSUME ChildrenInv, DescendantEnds
  PROVE  ChildrenInv'
<1> USE ChildrenAssumption DEF ChildrenInv, ChildrenTypeOK, Streams, requestVars, streamVars, memberVars,
        groupVars, DescendantEnds
<1>1. ChildrenTypeOK'
  BY DEF StageInOrder
<1>2. StageInOrder'
  BY DEF StageInOrder, GroupInOrder, StreamsInOrder, Piped, NobodyAlive, EndOfStream
<1>3. GroupInOrder'
  BY DEF StageInOrder, GroupInOrder, StreamsInOrder, NobodyAlive
<1>4. StreamsInOrder'
  BY DEF StageInOrder, GroupInOrder, StreamsInOrder, Piped, EndOfStream
<1>5. ResultInOrder'
  BY DEF StageInOrder, StreamsInOrder, ResultInOrder, EndOfStream
<1> QED
  BY <1>1, <1>2, <1>3, <1>4, <1>5

\* The leader writes to one of its streams.
LEMMA LeaderWritesKeeps ==
  ASSUME ChildrenInv, NEW s \in Streams, LeaderWrites(s)
  PROVE  ChildrenInv'
<1> USE ChildrenAssumption DEF ChildrenInv, ChildrenTypeOK, Streams, requestVars, streamVars, memberVars,
        groupVars, LeaderWrites, Writes
<1>1. ChildrenTypeOK'
  BY DEF StageInOrder
<1>2. StageInOrder'
  BY DEF StageInOrder, GroupInOrder, StreamsInOrder, Piped, NobodyAlive, EndOfStream
<1>3. GroupInOrder'
  BY DEF StageInOrder, GroupInOrder, StreamsInOrder, NobodyAlive
<1>4. StreamsInOrder'
  BY DEF StageInOrder, GroupInOrder, StreamsInOrder, Piped, EndOfStream
<1>5. ResultInOrder'
  BY DEF StageInOrder, StreamsInOrder, ResultInOrder, EndOfStream
<1> QED
  BY <1>1, <1>2, <1>3, <1>4, <1>5

\* The reader of a tool keeps a byte or drops it.
LEMMA CaptureSomeKeeps ==
  ASSUME ChildrenInv, NEW s \in Streams, CaptureSome(s)
  PROVE  ChildrenInv'
<1> USE ChildrenAssumption DEF ChildrenInv, ChildrenTypeOK, Streams, requestVars, streamVars, memberVars,
        groupVars, CaptureSome, ReaderGoes
<1>1. ChildrenTypeOK'
  BY DEF StageInOrder
<1>2. StageInOrder'
  BY DEF StageInOrder, GroupInOrder, StreamsInOrder, Piped, NobodyAlive, EndOfStream
<1>3. GroupInOrder'
  BY DEF StageInOrder, GroupInOrder, StreamsInOrder, NobodyAlive
<1>4. StreamsInOrder'
  <2>0. /\ pipe' = [pipe EXCEPT ![s] = @ - 1] /\ output' = output /\ readerOf' = readerOf
        /\ UNCHANGED <<kind, runStage, leader, descendant>> /\ kind # "provider"
        /\ pipe[s] \in Nat \ {0} /\ captured[s] \in Nat /\ omitted[s] \in Nat
    OBVIOUS
  <2>1. CASE captured[s] < StreamLimit
    <3>1. captured' = [captured EXCEPT ![s] = captured[s] + 1] /\ omitted' = omitted
      BY <2>1
    <3> QED
      BY <2>0, <2>1, <3>1 DEF StreamsInOrder, Piped, EndOfStream
  <2>2. CASE ~(captured[s] < StreamLimit)
    <3>1. omitted' = [omitted EXCEPT ![s] = omitted[s] + 1] /\ captured' = captured
      BY <2>2
    <3>2. captured[s] = StreamLimit
      BY <2>2, <2>0 DEF StreamsInOrder
    <3> QED
      BY <2>0, <3>1, <3>2 DEF StreamsInOrder, Piped, EndOfStream
  <2> QED
    BY <2>1, <2>2
<1>5. ResultInOrder'
  BY DEF StageInOrder, StreamsInOrder, ResultInOrder, EndOfStream
<1> QED
  BY <1>1, <1>2, <1>3, <1>4, <1>5

\* A reader meets the end of its stream.
LEMMA ReadEndKeeps ==
  ASSUME ChildrenInv, NEW s \in Streams, ReadEnd(s)
  PROVE  ChildrenInv'
<1> USE ChildrenAssumption DEF ChildrenInv, ChildrenTypeOK, Streams, requestVars, streamVars, memberVars,
        groupVars, ReadEnd, ReaderGoes, EndOfStream
<1>1. ChildrenTypeOK'
  BY DEF StageInOrder
<1>2. StageInOrder'
  BY DEF StageInOrder, GroupInOrder, StreamsInOrder, Piped, NobodyAlive, EndOfStream
<1>3. GroupInOrder'
  BY DEF StageInOrder, GroupInOrder, StreamsInOrder, NobodyAlive
<1>4. StreamsInOrder'
  BY DEF StageInOrder, GroupInOrder, StreamsInOrder, Piped, EndOfStream
<1>5. ResultInOrder'
  BY DEF StageInOrder, StreamsInOrder, ResultInOrder, EndOfStream
<1> QED
  BY <1>1, <1>2, <1>3, <1>4, <1>5

\* A read fails.
LEMMA ReadFailsKeeps ==
  ASSUME ChildrenInv, NEW s \in Streams, ReadFails(s)
  PROVE  ChildrenInv'
<1> USE ChildrenAssumption DEF ChildrenInv, ChildrenTypeOK, Streams, requestVars, streamVars, memberVars,
        groupVars, ReadFails, ReaderGoes
<1>1. ChildrenTypeOK'
  BY DEF StageInOrder
<1>2. StageInOrder'
  BY DEF StageInOrder, GroupInOrder, StreamsInOrder, Piped, NobodyAlive, EndOfStream
<1>3. GroupInOrder'
  BY DEF StageInOrder, GroupInOrder, StreamsInOrder, NobodyAlive
<1>4. StreamsInOrder'
  BY DEF StageInOrder, GroupInOrder, StreamsInOrder, Piped, EndOfStream
<1>5. ResultInOrder'
  BY DEF StageInOrder, StreamsInOrder, ResultInOrder, EndOfStream
<1> QED
  BY <1>1, <1>2, <1>3, <1>4, <1>5

\* The reader of a provider keeps a byte, one beyond the limit at most.
LEMMA ReadSomeKeeps ==
  ASSUME ChildrenInv, ReadSome
  PROVE  ChildrenInv'
<1> USE ChildrenAssumption DEF ChildrenInv, ChildrenTypeOK, Streams, requestVars, streamVars, memberVars,
        groupVars, ReadSome, ReaderGoes
<1>1. ChildrenTypeOK'
  BY DEF StageInOrder
<1>2. StageInOrder'
  BY DEF StageInOrder, GroupInOrder, StreamsInOrder, Piped, NobodyAlive, EndOfStream
<1>3. GroupInOrder'
  BY DEF StageInOrder, GroupInOrder, StreamsInOrder, NobodyAlive
<1>4. StreamsInOrder'
  <2>0. /\ pipe' = [pipe EXCEPT !["out"] = pipe["out"] - 1] /\ output' = output /\ omitted' = omitted
        /\ captured' = [captured EXCEPT !["out"] = captured["out"] + 1]
        /\ UNCHANGED <<kind, runStage, leader, descendant>> /\ kind = "provider"
        /\ pipe["out"] \in Nat \ {0} /\ captured["out"] \in Nat
    OBVIOUS
  <2>1. captured["out"] <= StreamLimit /\ runStage # "dead"
    BY DEF StreamsInOrder
  <2>2. \A t \in Streams : /\ Piped(t)' => output'[t] = captured'[t] + omitted'[t] + pipe'[t]
                           /\ readerOf'[t] = "ended" /\ runStage' # "dead" => EndOfStream(t)'
                           /\ readerOf'[t] \in {"large", "lost"} => leader' # "alive"
    BY <2>0 DEF StreamsInOrder, Piped, EndOfStream
  <2>3. /\ captured'["out"] <= StreamLimit + 1
        /\ captured'["out"] > StreamLimit => readerOf'["out"] = "over"
    <3>1. CASE captured["out"] < StreamLimit
      BY <2>0, <3>1
    <3>2. CASE ~(captured["out"] < StreamLimit)
      <4>1. readerOf' = [readerOf EXCEPT !["out"] = "over"]
        BY <3>2
      <4> QED
        BY <2>0, <2>1, <4>1
    <3> QED
      BY <3>1, <3>2
  <2>4. captured'["err"] = captured["err"] /\ readerOf'["err"] = readerOf["err"]
    BY <2>0
  <2>5. \A t \in Streams : /\ omitted'[t] = 0 /\ captured'[t] <= StreamLimit + 1
                           /\ captured'[t] > StreamLimit => readerOf'[t] \in {"over", "large"}
    BY <2>0, <2>1, <2>3, <2>4 DEF StreamsInOrder
  <2> QED
    BY <2>0, <2>1, <2>2, <2>5 DEF StreamsInOrder
<1>5. ResultInOrder'
  BY DEF StageInOrder, StreamsInOrder, ResultInOrder, EndOfStream
<1> QED
  BY <1>1, <1>2, <1>3, <1>4, <1>5

\* The reader stops a child that nobody has waited for.
LEMMA StopChildKeeps ==
  ASSUME ChildrenInv, StopChild
  PROVE  ChildrenInv'
<1> USE ChildrenAssumption DEF ChildrenInv, ChildrenTypeOK, Streams, requestVars, streamVars, memberVars,
        groupVars, StopChild, SignalGroup, GroupEnds
<1>1. ChildrenTypeOK'
  BY DEF StageInOrder
<1>2. StageInOrder'
  BY DEF StageInOrder, GroupInOrder, StreamsInOrder, Piped, NobodyAlive, EndOfStream
<1>3. GroupInOrder'
  BY DEF StageInOrder, GroupInOrder, StreamsInOrder, NobodyAlive
<1>4. StreamsInOrder'
  BY DEF StageInOrder, GroupInOrder, StreamsInOrder, Piped, EndOfStream
<1>5. ResultInOrder'
  BY DEF StageInOrder, StreamsInOrder, ResultInOrder, EndOfStream
<1> QED
  BY <1>1, <1>2, <1>3, <1>4, <1>5

\* The caller marks the child as taken.
LEMMA AwaitLeaderKeeps ==
  ASSUME ChildrenInv, AwaitLeader
  PROVE  ChildrenInv'
<1> USE ChildrenAssumption DEF ChildrenInv, ChildrenTypeOK, Streams, requestVars, streamVars, memberVars,
        groupVars, AwaitLeader
<1>1. ChildrenTypeOK'
  BY DEF StageInOrder
<1>2. StageInOrder'
  BY DEF StageInOrder, GroupInOrder, StreamsInOrder, Piped, NobodyAlive, EndOfStream
<1>3. GroupInOrder'
  BY DEF StageInOrder, GroupInOrder, StreamsInOrder, NobodyAlive
<1>4. StreamsInOrder'
  BY DEF StageInOrder, GroupInOrder, StreamsInOrder, Piped, EndOfStream
<1>5. ResultInOrder'
  BY DEF StageInOrder, StreamsInOrder, ResultInOrder, EndOfStream
<1> QED
  BY <1>1, <1>2, <1>3, <1>4, <1>5

\* The group is ended while its leader keeps the identifier.
LEMMA KillRemainingKeeps ==
  ASSUME ChildrenInv, KillRemaining
  PROVE  ChildrenInv'
<1> USE ChildrenAssumption DEF ChildrenInv, ChildrenTypeOK, Streams, requestVars, streamVars, memberVars,
        groupVars, KillRemaining, SignalGroup, GroupEnds
<1>1. ChildrenTypeOK'
  BY DEF StageInOrder
<1>2. StageInOrder'
  BY DEF StageInOrder, GroupInOrder, StreamsInOrder, Piped, NobodyAlive, EndOfStream
<1>3. GroupInOrder'
  BY DEF StageInOrder, GroupInOrder, StreamsInOrder, NobodyAlive
<1>4. StreamsInOrder'
  BY DEF StageInOrder, GroupInOrder, StreamsInOrder, Piped, EndOfStream
<1>5. ResultInOrder'
  BY DEF StageInOrder, StreamsInOrder, ResultInOrder, EndOfStream
<1> QED
  BY <1>1, <1>2, <1>3, <1>4, <1>5

\* The leader is waited for.
LEMMA ReapLeaderKeeps ==
  ASSUME ChildrenInv, ReapLeader
  PROVE  ChildrenInv'
<1> USE ChildrenAssumption DEF ChildrenInv, ChildrenTypeOK, Streams, requestVars, streamVars, memberVars,
        groupVars, ReapLeader
<1>1. ChildrenTypeOK'
  BY DEF StageInOrder
<1>2. StageInOrder'
  BY DEF StageInOrder, GroupInOrder, StreamsInOrder, Piped, NobodyAlive, EndOfStream
<1>3. GroupInOrder'
  BY DEF StageInOrder, GroupInOrder, StreamsInOrder, NobodyAlive
<1>4. StreamsInOrder'
  BY DEF StageInOrder, GroupInOrder, StreamsInOrder, Piped, EndOfStream
<1>5. ResultInOrder'
  BY DEF StageInOrder, StreamsInOrder, ResultInOrder, EndOfStream
<1> QED
  BY <1>1, <1>2, <1>3, <1>4, <1>5

\* The reaper is told to stand down.
LEMMA StandDownKeeps ==
  ASSUME ChildrenInv, StandDown
  PROVE  ChildrenInv'
<1> USE ChildrenAssumption DEF ChildrenInv, ChildrenTypeOK, Streams, requestVars, streamVars, memberVars,
        groupVars, StandDown
<1>1. ChildrenTypeOK'
  BY DEF StageInOrder
<1>2. StageInOrder'
  BY DEF StageInOrder, GroupInOrder, StreamsInOrder, Piped, NobodyAlive, EndOfStream
<1>3. GroupInOrder'
  BY DEF StageInOrder, GroupInOrder, StreamsInOrder, NobodyAlive
<1>4. StreamsInOrder'
  BY DEF StageInOrder, GroupInOrder, StreamsInOrder, Piped, EndOfStream
<1>5. ResultInOrder'
  BY DEF StageInOrder, StreamsInOrder, ResultInOrder, EndOfStream
<1> QED
  BY <1>1, <1>2, <1>3, <1>4, <1>5

\* The output of a tool was read.
LEMMA CapturedOutKeeps ==
  ASSUME ChildrenInv, CapturedOut
  PROVE  ChildrenInv'
<1> USE ChildrenAssumption DEF ChildrenInv, ChildrenTypeOK, Streams, requestVars, streamVars, memberVars,
        groupVars, CapturedOut
<1>1. ChildrenTypeOK'
  BY DEF StageInOrder
<1>2. StageInOrder'
  BY DEF StageInOrder, GroupInOrder, StreamsInOrder, Piped, NobodyAlive, EndOfStream
<1>3. GroupInOrder'
  BY DEF StageInOrder, GroupInOrder, StreamsInOrder, NobodyAlive
<1>4. StreamsInOrder'
  BY DEF StageInOrder, GroupInOrder, StreamsInOrder, Piped, EndOfStream
<1>5. ResultInOrder'
  BY DEF StageInOrder, StreamsInOrder, ResultInOrder, EndOfStream
<1> QED
  BY <1>1, <1>2, <1>3, <1>4, <1>5

\* A tool is waited for.
LEMMA WaitToolKeeps ==
  ASSUME ChildrenInv, WaitTool
  PROVE  ChildrenInv'
<1> USE ChildrenAssumption DEF ChildrenInv, ChildrenTypeOK, Streams, requestVars, streamVars, memberVars,
        groupVars, WaitTool
<1>1. ChildrenTypeOK'
  BY DEF StageInOrder
<1>2. StageInOrder'
  BY DEF StageInOrder, GroupInOrder, StreamsInOrder, Piped, NobodyAlive, EndOfStream
<1>3. GroupInOrder'
  BY DEF StageInOrder, GroupInOrder, StreamsInOrder, NobodyAlive
<1>4. StreamsInOrder'
  BY DEF StageInOrder, GroupInOrder, StreamsInOrder, Piped, EndOfStream
<1>5. ResultInOrder'
  BY DEF StageInOrder, StreamsInOrder, ResultInOrder, EndOfStream
<1> QED
  BY <1>1, <1>2, <1>3, <1>4, <1>5

\* The outcome is put together after the last reader has ended.
LEMMA JoinKeeps ==
  ASSUME ChildrenInv, Join
  PROVE  ChildrenInv'
<1> USE ChildrenAssumption DEF ChildrenInv, ChildrenTypeOK, Streams, requestVars, streamVars, memberVars,
        groupVars, Join, ToolOutcome, ProviderOutcome
<1>1. ChildrenTypeOK'
  BY DEF StageInOrder
<1>2. StageInOrder'
  BY DEF StageInOrder, GroupInOrder, StreamsInOrder, Piped, NobodyAlive, EndOfStream
<1>3. GroupInOrder'
  BY DEF StageInOrder, GroupInOrder, StreamsInOrder, NobodyAlive
<1>4. StreamsInOrder'
  BY DEF StageInOrder, GroupInOrder, StreamsInOrder, Piped, EndOfStream
<1>5. ResultInOrder'
  <2>1. CASE kind = "provider"
    BY <2>1 DEF ResultInOrder
  <2>2. CASE kind # "provider"
    <3>1. readerOf["out"] \in {"ended", "failed"} /\ readerOf["err"] \in {"ended", "failed"}
      BY <2>2 DEF StageInOrder
    <3>2. readerOf["out"] = "failed" \/ readerOf["err"] = "failed" \/ (kind = "complete" /\ omitted["out"] > 0) =>
            runResult' = "error"
      BY <2>2
    <3>3. omitted["out"] \in Nat /\ UNCHANGED <<kind, readerOf, omitted>> /\ runStage' = "returned"
      OBVIOUS
    <3> QED
      BY <2>2, <3>1, <3>2, <3>3 DEF ResultInOrder
  <2> QED
    BY <2>1, <2>2
<1> QED
  BY <1>1, <1>2, <1>3, <1>4, <1>5

\* This process dies and its pipes are closed.
LEMMA ThisDiesKeeps ==
  ASSUME ChildrenInv, ThisDies
  PROVE  ChildrenInv'
<1> USE ChildrenAssumption DEF ChildrenInv, ChildrenTypeOK, Streams, requestVars, streamVars, memberVars,
        groupVars, ThisDies
<1>1. ChildrenTypeOK'
  BY DEF StageInOrder
<1>2. StageInOrder'
  BY DEF StageInOrder, GroupInOrder, StreamsInOrder, Piped, NobodyAlive, EndOfStream
<1>3. GroupInOrder'
  BY DEF StageInOrder, GroupInOrder, StreamsInOrder, NobodyAlive
<1>4. StreamsInOrder'
  BY DEF StageInOrder, GroupInOrder, StreamsInOrder, Piped, EndOfStream
<1>5. ResultInOrder'
  BY DEF StageInOrder, StreamsInOrder, ResultInOrder, EndOfStream
<1> QED
  BY <1>1, <1>2, <1>3, <1>4, <1>5

\* The reaper ends the group of a process that died.
LEMMA ReaperActsKeeps ==
  ASSUME ChildrenInv, ReaperActs
  PROVE  ChildrenInv'
<1> USE ChildrenAssumption DEF ChildrenInv, ChildrenTypeOK, Streams, requestVars, streamVars, memberVars,
        groupVars, ReaperActs, GroupEnds
<1>1. ChildrenTypeOK'
  BY DEF StageInOrder
<1>2. StageInOrder'
  BY DEF StageInOrder, GroupInOrder, StreamsInOrder, Piped, NobodyAlive, EndOfStream
<1>3. GroupInOrder'
  BY DEF StageInOrder, GroupInOrder, StreamsInOrder, NobodyAlive
<1>4. StreamsInOrder'
  BY DEF StageInOrder, GroupInOrder, StreamsInOrder, Piped, EndOfStream
<1>5. ResultInOrder'
  BY DEF StageInOrder, StreamsInOrder, ResultInOrder, EndOfStream
<1> QED
  BY <1>1, <1>2, <1>3, <1>4, <1>5

\* The identifier is given away when nobody has it.
LEMMA ReuseIdKeeps ==
  ASSUME ChildrenInv, ReuseId
  PROVE  ChildrenInv'
<1> USE ChildrenAssumption DEF ChildrenInv, ChildrenTypeOK, Streams, requestVars, streamVars, memberVars,
        groupVars, ReuseId
<1>1. ChildrenTypeOK'
  BY DEF StageInOrder
<1>2. StageInOrder'
  BY DEF StageInOrder, GroupInOrder, StreamsInOrder, Piped, NobodyAlive, EndOfStream
<1>3. GroupInOrder'
  BY DEF StageInOrder, GroupInOrder, StreamsInOrder, NobodyAlive
<1>4. StreamsInOrder'
  BY DEF StageInOrder, GroupInOrder, StreamsInOrder, Piped, EndOfStream
<1>5. ResultInOrder'
  BY DEF StageInOrder, StreamsInOrder, ResultInOrder, EndOfStream
<1> QED
  BY <1>1, <1>2, <1>3, <1>4, <1>5

\* Every step keeps the invariant.
LEMMA ChildrenStep ==
  ASSUME ChildrenInv, [ChildrenNext]_childrenVars
  PROVE  ChildrenInv'
<1>1. CASE UNCHANGED childrenVars
  BY <1>1 DEF childrenVars, ChildrenInv, ChildrenTypeOK, StageInOrder, GroupInOrder, StreamsInOrder, ResultInOrder,
              NobodyAlive, Piped, EndOfStream
<1>2. CASE BuildCommand \/ SpawnChild \/ Fork \/ LeaderEnds \/ DescendantWrites \/ DescendantEnds
  BY <1>2, BuildCommandKeeps, SpawnChildKeeps, ForkKeeps, LeaderEndsKeeps, DescendantWritesKeeps,
     DescendantEndsKeeps
<1>3. CASE \E s \in Streams : LeaderWrites(s) \/ CaptureSome(s) \/ ReadEnd(s) \/ ReadFails(s)
  BY <1>3, LeaderWritesKeeps, CaptureSomeKeeps, ReadEndKeeps, ReadFailsKeeps
<1>4. CASE ReadSome \/ StopChild \/ AwaitLeader \/ KillRemaining \/ ReapLeader \/ StandDown
  BY <1>4, ReadSomeKeeps, StopChildKeeps, AwaitLeaderKeeps, KillRemainingKeeps, ReapLeaderKeeps, StandDownKeeps
<1>5. CASE CapturedOut \/ WaitTool \/ Join \/ ThisDies \/ ReaperActs \/ ReuseId
  BY <1>5, CapturedOutKeeps, WaitToolKeeps, JoinKeeps, ThisDiesKeeps, ReaperActsKeeps, ReuseIdKeeps
<1> QED
  BY <1>1, <1>2, <1>3, <1>4, <1>5 DEF ChildrenNext

\* What the invariant says of the answer, the pipes and the group.
LEMMA ChildrenInvSound == ChildrenInv => ChildrenSound
<1> SUFFICES ASSUME ChildrenInv PROVE ChildrenSound
  OBVIOUS
<1> USE ChildrenAssumption DEF ChildrenInv, ChildrenTypeOK, Streams
<1>1. ASSUME runResult \in {"success", "failed"}, NEW s \in Streams, Piped(s)
      PROVE  captured[s] + omitted[s] = output[s]
  <2>1. runStage = "returned" /\ readerOf[s] = "ended"
    BY <1>1 DEF ResultInOrder, Piped
  <2>2. pipe[s] = 0 /\ output[s] = captured[s] + omitted[s] + pipe[s]
    BY <1>1, <2>1 DEF StreamsInOrder, EndOfStream
  <2> QED
    BY <2>2
<1>2. runResult = "success" /\ kind = "provider" => captured["out"] = output["out"] /\ output["out"] <= StreamLimit
  <2> SUFFICES ASSUME runResult = "success", kind = "provider"
               PROVE  captured["out"] = output["out"] /\ output["out"] <= StreamLimit
    OBVIOUS
  <2>1. captured["out"] + omitted["out"] = output["out"] /\ omitted["out"] = 0
    BY <1>1 DEF Piped, StreamsInOrder
  <2>2. runStage = "returned" /\ readerOf["out"] = "ended"
    BY DEF ResultInOrder
  <2>3. ~(captured["out"] > StreamLimit)
    BY <2>2 DEF StreamsInOrder
  <2> QED
    BY <2>1, <2>3
<1>3. runResult = "success" /\ kind = "complete" => captured["out"] = output["out"]
  BY <1>1 DEF Piped, ResultInOrder
<1>4. runResult \in {"success", "failed"} /\ kind # "provider" =>
        \A s \in Streams : captured[s] + omitted[s] = output[s] /\ (omitted[s] > 0 => captured[s] = StreamLimit)
  BY <1>1 DEF Piped, StreamsInOrder
<1>5. \A s \in Streams : captured[s] <= StreamLimit + (IF kind = "provider" THEN 1 ELSE 0)
  BY DEF StreamsInOrder
<1>6. ~Stuck
  <2> SUFFICES ASSUME Stuck PROVE FALSE
    OBVIOUS
  <2>1. PICK s \in Streams : /\ Piped(s) /\ pipe[s] = PipeRoom
                             /\ readerOf[s] \notin {"reading", "over", "failed"} /\ leader = "alive"
    BY DEF Stuck
  <2>2. readerOf[s] # "none" /\ runStage # "dead"
    BY <2>1 DEF Stuck, StageInOrder
  <2>3. readerOf[s] \notin {"large", "lost"}
    BY <2>1 DEF StreamsInOrder
  <2>4. readerOf[s] # "ended"
    BY <2>1, <2>2 DEF StreamsInOrder, EndOfStream
  <2> QED
    BY <2>1, <2>2, <2>3, <2>4
<1>7. kind = "provider" /\ (runStage = "returned" \/ (warden = "acted" /\ ~reused)) =>
        leader # "alive" /\ descendant # "alive"
  BY DEF StageInOrder, GroupInOrder, NobodyAlive
<1>8. ~misfired
  BY DEF GroupInOrder
<1> QED
  BY <1>2, <1>3, <1>4, <1>5, <1>6, <1>7, <1>8 DEF ChildrenSound

(***************************************************************************)
(* Whatever a child and its descendant write, in whichever order the       *)
(* readers, the caller and the reaper take their steps, and wherever a     *)
(* read fails or this process dies (process.rs: run_tool, Group;           *)
(* process/chat.rs: run): the answer is the output or an error, nobody     *)
(* waits for room in a pipe that no reader empties, and only the group of  *)
(* the child is signalled.                                                 *)
(***************************************************************************)
THEOREM ChildrenCorrect == ChildrenSpec => []ChildrenSound
<1>1. ChildrenInit => ChildrenInv
  BY ChildrenInitially
<1>2. ChildrenInv /\ [ChildrenNext]_childrenVars => ChildrenInv'
  BY ChildrenStep
<1>3. ChildrenInv => ChildrenSound
  BY ChildrenInvSound
<1> QED
  BY <1>1, <1>2, <1>3, PTL DEF ChildrenSpec
=============================================================================

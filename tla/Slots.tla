-------------------------------- MODULE Slots --------------------------------
(***************************************************************************)
(* The slots of a Linux resource policy and the scopes commands run in.    *)
(*                                                                         *)
(* A worker holds the file lock of a slot while its command runs in a      *)
(* systemd scope named after the job.  The name is recorded in the slot    *)
(* before the command starts, so the next holder can stop what a dead      *)
(* worker left behind.  The command is started through a launcher, which   *)
(* asks systemd for the scope and then becomes the command: until it has   *)
(* joined its scope it is only a member of the worker's process group.     *)
(* Slots and scopes are shared by the stores and the builds of a user.     *)
(***************************************************************************)
EXTENDS Naturals, FiniteSets

CONSTANTS
  Minders,   \* workers; each runs one job
  Scopes,    \* scope names
  Job,       \* the scope of each worker; shared when a removed job is submitted again
  Slots,     \* the slots of the policy, positive numbers
  NoScope, NoMinder

ASSUME SlotsAssumption ==
  /\ Slots \subseteq Nat \ {0} /\ Job \in [Minders -> Scopes]
  /\ NoScope \notin Scopes /\ NoMinder \notin Minders

VARIABLES
  minder,    \* program counter, slot held (0 without) and cancellation watch of each
             \* worker, and how it found its command to have ended
  slotRecord, \* slot-N.scope: the scope last recorded in each slot
  launcher,  \* launchers that have not joined their scope
  members,   \* the processes of each scope: <<worker, "leader" or "escaped">>
  marker,    \* SCOPE.started: the worker whose command recorded its exit there
  reaper,    \* what the reaper of each worker does
  outlived   \* history: workers whose launcher joined its scope, or whose command
             \* exited, after they were gone

slotVars == <<minder, slotRecord, launcher, members, marker, reaper, outlived>>

SlotsInit ==
  /\ minder = [w \in Minders |-> [pc |-> "new", slot |-> 0, watch |-> "on", found |-> "none"]]
  /\ slotRecord = [k \in Slots |-> NoScope]
  /\ launcher = {}
  /\ members = [s \in Scopes |-> {}]
  /\ marker = [s \in Scopes |-> NoMinder]
  /\ reaper = [w \in Minders |-> "none"]
  /\ outlived = {}

-----------------------------------------------------------------------------
\* The leader of the process group, and all of it; a process that left the group
\* stays in the scope.
Leads(w) == \E s \in Scopes : <<w, "leader">> \in members[s]
Running(w) == w \in launcher \/ Leads(w)

GroupKilled(w) ==
  /\ launcher' = launcher \ {w}
  /\ members' = [s \in Scopes |-> members[s] \ {<<w, "leader">>}]

\* Stop and clean up a scope: all its processes are killed and it is checked to
\* be empty, then its marker is removed.
Stop(s) ==
  /\ members' = IF s = NoScope THEN members ELSE [members EXCEPT ![s] = {}]
  /\ marker' = IF s = NoScope THEN marker ELSE [marker EXCEPT ![s] = NoMinder]

StopOrFail(s) == Stop(s) \/ UNCHANGED <<members, marker>>

Go(w, pc) == minder' = [minder EXCEPT ![w].pc = pc]
SlotAt(w, pc) == minder[w].pc = pc
Live(w) == minder[w].pc \notin {"new", "gone"}
Outlived(w) == IF Live(w) THEN outlived ELSE outlived \cup {w}

-----------------------------------------------------------------------------
\* Admission

\* A worker has the worker lock of its job.
BeginScope(w) ==
  /\ SlotAt(w, "new")
  /\ \A v \in Minders : Job[v] = Job[w] => ~Live(v)
  /\ Go(w, "queued")
  /\ UNCHANGED <<slotRecord, launcher, members, marker, reaper, outlived>>

LockFree(k) == \A w \in Minders : minder[w].slot # k

\* Mistake: the lock of the slot is not asked for.
TryAdmitShared(w) ==
  /\ SlotAt(w, "queued")
  /\ \E k \in Slots : minder' = [minder EXCEPT ![w].pc = "admitted", ![w].slot = k]
  /\ UNCHANGED <<slotRecord, launcher, members, marker, reaper, outlived>>

TryAdmit(w) ==
  /\ SlotAt(w, "queued")
  /\ \E k \in Slots : LockFree(k) /\ minder' = [minder EXCEPT ![w].pc = "admitted", ![w].slot = k]
  /\ UNCHANGED <<slotRecord, launcher, members, marker, reaper, outlived>>

\* Mistake: what the previous holder left is not stopped.
StopPreviousNot(w) ==
  /\ SlotAt(w, "admitted")
  /\ Go(w, "prepare")
  /\ UNCHANGED <<slotRecord, launcher, members, marker, reaper, outlived>>

StopPrevious(w) ==
  /\ SlotAt(w, "admitted")
  /\ Stop(slotRecord[minder[w].slot])
  /\ Go(w, "prepare")
  /\ UNCHANGED <<slotRecord, launcher, reaper, outlived>>

PrepareScope(w) ==
  /\ SlotAt(w, "prepare")
  /\ slotRecord' = [slotRecord EXCEPT ![minder[w].slot] = Job[w]]
  /\ marker' = [marker EXCEPT ![Job[w]] = NoMinder]
  /\ Go(w, "ready")
  /\ UNCHANGED <<launcher, members, reaper, outlived>>

\* A scope cannot be stopped, the slice does not match, or the job is cancelled.
GiveUp(w) ==
  /\ minder[w].pc \in {"admitted", "prepare", "ready"}
  /\ Go(w, "release")
  /\ UNCHANGED <<slotRecord, launcher, members, marker, reaper, outlived>>

-----------------------------------------------------------------------------
\* The command

SpawnScope(w) ==
  /\ SlotAt(w, "ready")
  /\ launcher' = launcher \cup {w}
  /\ Go(w, "bare")
  /\ UNCHANGED <<slotRecord, members, marker, reaper, outlived>>

GuardScope(w) ==
  /\ SlotAt(w, "bare")
  /\ reaper' = [reaper EXCEPT ![w] = "guards"]
  /\ Go(w, "wait")
  /\ UNCHANGED <<slotRecord, launcher, members, marker, outlived>>

GuardFails(w) ==
  /\ SlotAt(w, "bare")
  /\ GroupKilled(w)
  /\ Go(w, "release")
  /\ UNCHANGED <<slotRecord, marker, reaper, outlived>>

\* External: systemd makes the scope, unless there is one of that name.
JoinScope(w) ==
  LET s == Job[w]
  IN  /\ w \in launcher
      /\ launcher' = launcher \ {w}
      /\ members' = IF members[s] = {} THEN [members EXCEPT ![s] = {<<w, "leader">>}] ELSE members
      /\ outlived' = Outlived(w)
      /\ UNCHANGED <<minder, slotRecord, marker, reaper>>

\* A descendant of the command starts its own session.
Escape(w) ==
  LET s == Job[w]
  IN  /\ Leads(w)
      /\ members' = [members EXCEPT ![s] = @ \cup {<<w, "escaped">>}]
      /\ UNCHANGED <<minder, slotRecord, launcher, marker, reaper, outlived>>

\* job-exec has started the command and records it, over what it finds there.
Report(w) ==
  LET s == Job[w]
  IN  /\ Leads(w) /\ marker[s] # NoMinder
      /\ marker' = [marker EXCEPT ![s] = NoMinder]
      /\ UNCHANGED <<minder, slotRecord, launcher, members, reaper, outlived>>

\* The command ends and job-exec records its exit, or job-exec itself fails.
Exit(w) ==
  LET s == Job[w]
  IN  /\ Leads(w)
      /\ members' = [members EXCEPT ![s] = @ \ {<<w, "leader">>}]
      /\ \E left \in {w, marker[s]} : marker' = [marker EXCEPT ![s] = left]
      /\ outlived' = Outlived(w)
      /\ UNCHANGED <<minder, slotRecord, launcher, reaper>>

\* The watch sees the cancellation or breaks, and kills.  It may see it between the
\* end of the command and its own end.
Watching(w, watch) == minder[w].pc \in {"wait", "complete"} /\ minder[w].watch = watch
WatchOver(w) == minder[w].watch \in {"on", "killed", "broken"}

Cancel(w) ==
  /\ Watching(w, "on")
  /\ minder' = [minder EXCEPT ![w].watch = "scope"]
  /\ UNCHANGED <<slotRecord, launcher, members, marker, reaper, outlived>>

\* A scope that cannot be stopped ends the watch: the group is not killed.
KillScope(w) ==
  /\ Watching(w, "scope")
  /\ \/ /\ members' = [members EXCEPT ![Job[w]] = {}]
        /\ minder' = [minder EXCEPT ![w].watch = "group"]
     \/ /\ minder' = [minder EXCEPT ![w].watch = "broken"]
        /\ UNCHANGED members
  /\ UNCHANGED <<slotRecord, launcher, marker, reaper, outlived>>

\* A broken watch kills like a cancelled one and then fails.  A reaped leader is
\* left alone.
KillGroup(w) ==
  /\ Watching(w, "group")
  /\ IF SlotAt(w, "wait") THEN GroupKilled(w) ELSE UNCHANGED <<launcher, members>>
  /\ \E end \in {"killed", "broken"} : minder' = [minder EXCEPT ![w].watch = end]
  /\ UNCHANGED <<slotRecord, marker, reaper, outlived>>

Wait(w) ==
  /\ SlotAt(w, "wait") /\ ~Running(w)
  /\ Go(w, "complete")
  /\ UNCHANGED <<slotRecord, launcher, members, marker, reaper, outlived>>

\* The scope is stopped before its marker is read, and the reaper stands down.
\* Whether the kernel killed for memory is up to systemd.
Completion(w) ==
  LET s == Job[w]
      exit == IF marker[s] = NoMinder THEN "launch_failed"
              ELSE IF marker[s] = w THEN "exited" ELSE "exited_other"
  IN  /\ SlotAt(w, "complete") /\ minder[w].watch \in {"on", "killed"}
      /\ Stop(s)
      /\ \E found \in IF minder[w].watch = "killed" THEN {"killed"} ELSE {exit, "memory_limit_exceeded"} :
           minder' = [minder EXCEPT ![w].pc = "drop", ![w].found = found]
      /\ reaper' = [reaper EXCEPT ![w] = "none"]
      /\ UNCHANGED <<slotRecord, launcher, outlived>>

\* The start cannot be recorded, the watch has broken, or the completion fails.
Abandon(w) ==
  /\ minder[w].pc \in {"wait", "complete"} /\ WatchOver(w)
  /\ Go(w, "drop")
  /\ UNCHANGED <<slotRecord, launcher, members, marker, reaper, outlived>>

-----------------------------------------------------------------------------
\* Leaving

\* The end of a guarded minder's process closes the input of its reaper.
Alarm(w) == reaper' = [reaper EXCEPT ![w] = IF @ = "guards" THEN "group" ELSE @]

DropGroup(w) ==
  /\ SlotAt(w, "drop")
  /\ StopOrFail(Job[w])
  /\ Alarm(w)
  /\ Go(w, "release")
  /\ UNCHANGED <<slotRecord, launcher, outlived>>

ScopeGone == [pc |-> "gone", slot |-> 0, watch |-> "on", found |-> "none"]
LeaveScope(w) == minder' = [minder EXCEPT ![w] = ScopeGone]

\* The permit stops the scope its slot records before it gives the slot up.
DropPermit(w) ==
  /\ SlotAt(w, "release")
  /\ StopOrFail(slotRecord[minder[w].slot])
  /\ LeaveScope(w)
  /\ UNCHANGED <<slotRecord, launcher, reaper, outlived>>

Crash(w) ==
  /\ Live(w)
  /\ Alarm(w)
  /\ LeaveScope(w)
  /\ UNCHANGED <<slotRecord, launcher, members, marker, outlived>>

ReapGroup(w) ==
  /\ reaper[w] = "group"
  /\ GroupKilled(w)
  /\ reaper' = [reaper EXCEPT ![w] = "scope"]
  /\ UNCHANGED <<minder, slotRecord, marker, outlived>>

ReapScope(w) ==
  /\ reaper[w] = "scope"
  /\ StopOrFail(Job[w])
  /\ reaper' = [reaper EXCEPT ![w] = "none"]
  /\ UNCHANGED <<minder, slotRecord, launcher, outlived>>

-----------------------------------------------------------------------------
SlotStep(w) ==
  \/ BeginScope(w) \/ TryAdmit(w) \/ StopPrevious(w) \/ PrepareScope(w) \/ GiveUp(w) \/ SpawnScope(w) \/ GuardScope(w)
  \/ GuardFails(w) \/ Cancel(w) \/ KillScope(w) \/ KillGroup(w) \/ Wait(w) \/ Completion(w) \/ Abandon(w) \/ DropGroup(w)
  \/ DropPermit(w) \/ Crash(w)

Process(w) == JoinScope(w) \/ Escape(w) \/ Report(w) \/ Exit(w)

SlotsNext == \E w \in Minders : SlotStep(w) \/ Process(w) \/ ReapGroup(w) \/ ReapScope(w)

SlotsSpec == SlotsInit /\ [][SlotsNext]_slotVars

-----------------------------------------------------------------------------
MinderStates == [
  pc : {"new", "queued", "admitted", "prepare", "ready", "bare", "wait", "complete", "drop", "release", "gone"},
  slot : Slots \cup {0}, watch : {"on", "scope", "group", "killed", "broken"},
  found : {"none", "exited", "exited_other", "launch_failed", "killed", "memory_limit_exceeded"}]

SlotsTypeOK ==
  /\ minder \in [Minders -> MinderStates]
  /\ slotRecord \in [Slots -> Scopes \cup {NoScope}]
  /\ launcher \subseteq Minders
  /\ members \in [Scopes -> SUBSET (Minders \X {"leader", "escaped"})]
  /\ marker \in [Scopes -> Minders \cup {NoMinder}]
  /\ reaper \in [Minders -> {"none", "guards", "group", "scope"}]
  /\ outlived \subseteq Minders

Recorded(s) == \E k \in Slots : slotRecord[k] = s
Alone(w) == \A v \in Minders \ {w} : Job[v] # Job[w]

\* No command runs outside the slots: a scope with processes is the recorded scope
\* of a slot, whatever workers died and whatever could not be stopped (prepare,
\* stop_previous).  The exception is a launcher that joins its scope after its
\* worker gave up the slot, and the slot has recorded another scope.
WithinSlots ==
  \A s \in Scopes : members[s] # {} =>
    Recorded(s) \/ \A p \in members[s] : p[1] \in outlived

\* The command of a worker that lives is never stopped by a step of another worker
\* or of another's reaper (stop_previous, Reaper::reap).  A run of the same job is
\* excepted: its reaper stops the scope by its name.
Undisturbed ==
  [][\A w \in Minders :
       /\ Live(w) /\ Alone(w) /\ <<w, "leader">> \in members[Job[w]]
       /\ \E v \in Minders \ {w} : minder'[v] # minder[v] \/ reaper'[v] # reaper[v]
       => <<w, "leader">> \in members'[Job[w]]]_slotVars

\* A job is recorded as exited only by the exit of its own command, never by what
\* an earlier run of the job left (execution_event), unless that run has outlived
\* its worker.
OwnExit ==
  \A w \in Minders : minder[w].found = "exited_other" =>
    \E v \in outlived \ {w} : Job[v] = Job[w]

\* No command runs outside the recorded scope of a slot, and a job is recorded as
\* exited by its own command only, whatever workers and launchers die
\* (slots.rs, scope.rs, worker.rs).
SlotsSound == SlotsTypeOK /\ WithinSlots /\ OwnExit
=============================================================================

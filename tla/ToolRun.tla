------------------------------- MODULE ToolRun -------------------------------
(***************************************************************************)
(* A tool that is run for its output and watched (the first part of        *)
(* xtask/src/proof_tools.rs).  A watcher claims a directory for the        *)
(* evidence, starts the tool with its outputs going to new files there,    *)
(* and looks again and again at the process, at the size of the outputs    *)
(* and at the clock.  Whatever is wrong ends the tool; a tool that ended   *)
(* well has its output read back.  A tool may leave a descendant behind    *)
(* that still holds the outputs.                                           *)
(***************************************************************************)
EXTENDS Naturals, FiniteSets

CONSTANTS
  Watchers,
  Starters,        \* the watchers that come to start a tool
  EvidenceIds,     \* the random identities of evidence directories
  NoId,
  OutLimit,        \* bytes the standard output may have, and the error output
  ErrLimit,
  TimeLimit,       \* pauses between two looks that fit into the deadline
  MaxHitches       \* bound on observations that fail

ASSUME WatchAssumption ==
  /\ Starters \subseteq Watchers /\ NoId \notin EvidenceIds
  /\ OutLimit \in Nat /\ ErrLimit \in Nat /\ TimeLimit \in Nat /\ MaxHitches \in Nat

VARIABLES
  watch,           \* where a watcher is
  evidenceId,      \* the identity it drew
  claims,          \* claim files and directories that exist
  folders,
  tool,            \* the process of the tool, its exit code and a descendant it left
  code,
  stray,
  wrote,           \* what the tool wrote itself
  length,          \* the lengths of the two output files
  pauses,          \* time that has passed
  glance,            \* what the watcher saw at this glance
  told,            \* what the watcher returned
  reading,         \* the length before the reading, and what was read
  keptBytes,            \* bytes that were read and admitted
  hitches

placeVars == <<evidenceId, claims, folders>>
processVars == <<tool, code, stray, wrote, length>>
readVars == <<reading, keptBytes>>
toolRunVars == <<watch, placeVars, processVars, pauses, glance, told, readVars, hitches>>

Unread == OutLimit + 2         \* no bytes were read
Lengths == [out : 0..(OutLimit + 1), err : 0..(ErrLimit + 1)]
NoLook == [state |-> "none", output |-> "none"]

ToolRunInit ==
  /\ watch = [w \in Watchers |-> "start"]
  /\ evidenceId = [w \in Watchers |-> NoId]
  /\ claims = {} /\ folders \in {{i} : i \in EvidenceIds} \cup {{}}
  /\ tool = [w \in Watchers |-> "none"] /\ code = [w \in Watchers |-> "none"]
  /\ stray = [w \in Watchers |-> FALSE]
  /\ wrote = [w \in Watchers |-> [out |-> 0, err |-> 0]] /\ length = wrote
  /\ pauses = [w \in Watchers |-> 0]
  /\ glance = [w \in Watchers |-> NoLook]
  /\ told = [w \in Watchers |-> "nothing"]
  /\ reading = [w \in Watchers |-> [before |-> Unread, got |-> Unread]]
  /\ keptBytes = [w \in Watchers |-> Unread]
  /\ hitches = 0

-----------------------------------------------------------------------------
Tell(w, what) == told' = [told EXCEPT ![w] = what]
GoOn(w, to) == watch' = [watch EXCEPT ![w] = to]

\* Mistake: an identity counts as free while its directory is not there.
ClaimFreeUntilMade(id) == id \notin folders

\* claimed_evidence: the claim is a new file, whatever the directory is.
ClaimFree(id) == id \notin claims

ClaimEvidence(w) ==
  /\ watch[w] = "start"
  /\ \E id \in EvidenceIds :
       /\ evidenceId' = [evidenceId EXCEPT ![w] = id]
       /\ IF ClaimFree(id)
          THEN GoOn(w, "claimed") /\ claims' = claims \cup {id} /\ UNCHANGED told
          ELSE GoOn(w, "done") /\ Tell(w, "not started") /\ UNCHANGED claims
  /\ UNCHANGED <<folders, processVars, pauses, glance, readVars, hitches>>

\* The directory of a claimed identity must not be there yet.
LookForEvidence(w) ==
  /\ watch[w] = "claimed"
  /\ IF evidenceId[w] \in folders
     THEN GoOn(w, "done") /\ Tell(w, "not started")
     ELSE GoOn(w, "absent") /\ UNCHANGED told
  /\ UNCHANGED <<placeVars, processVars, pauses, glance, readVars, hitches>>

\* directory: it is created, and one that is there by now is taken as it is.
MakeEvidence(w) ==
  /\ watch[w] = "absent"
  /\ folders' = folders \cup {evidenceId[w]}
  /\ GoOn(w, "ready")
  /\ UNCHANGED <<evidenceId, claims, processVars, pauses, glance, told, readVars, hitches>>

\* capture_observed: the output files are new; the tool starts, or does not.
StartTool(w) ==
  /\ watch[w] = "ready" /\ w \in Starters
  /\ \/ /\ tool' = [tool EXCEPT ![w] = "running"]
        /\ GoOn(w, "state") /\ UNCHANGED <<told, hitches>>
     \/ /\ hitches < MaxHitches /\ hitches' = hitches + 1
        /\ GoOn(w, "done") /\ Tell(w, "not started") /\ UNCHANGED tool
  /\ UNCHANGED <<placeVars, code, stray, wrote, length, pauses, glance, readVars>>

-----------------------------------------------------------------------------
\* The tool and what it left behind.
Grow(l, channel) == [l EXCEPT ![channel] = @ + 1]
Room(w, channel) == length[w][channel] <= (IF channel = "out" THEN OutLimit ELSE ErrLimit)

ToolWrites(w) ==
  /\ tool[w] = "running"
  /\ \E channel \in {"out", "err"} :
       /\ Room(w, channel)
       /\ wrote' = [wrote EXCEPT ![w] = Grow(@, channel)]
       /\ length' = [length EXCEPT ![w] = Grow(@, channel)]
  /\ UNCHANGED <<watch, placeVars, tool, code, stray, pauses, glance, told, readVars, hitches>>

ToolForks(w) ==
  /\ tool[w] = "running" /\ ~stray[w]
  /\ stray' = [stray EXCEPT ![w] = TRUE]
  /\ UNCHANGED <<watch, placeVars, tool, code, wrote, length, pauses, glance, told, readVars, hitches>>

ToolExits(w) ==
  /\ tool[w] = "running"
  /\ \E c \in {"zero", "other"} : code' = [code EXCEPT ![w] = c]
  /\ tool' = [tool EXCEPT ![w] = "exited"]
  /\ UNCHANGED <<watch, placeVars, stray, wrote, length, pauses, glance, told, readVars, hitches>>

StrayWrites(w) ==
  /\ stray[w] /\ Room(w, "out")
  /\ length' = [length EXCEPT ![w] = Grow(@, "out")]
  /\ UNCHANGED <<watch, placeVars, tool, code, stray, wrote, pauses, glance, told, readVars, hitches>>

StrayEnds(w) ==
  /\ stray[w] /\ stray' = [stray EXCEPT ![w] = FALSE]
  /\ UNCHANGED <<watch, placeVars, tool, code, wrote, length, pauses, glance, told, readVars, hitches>>

-----------------------------------------------------------------------------
\* An observation succeeds, or fails once in a while.
Observed(seen) ==
  \/ seen /\ UNCHANGED hitches
  \/ ~seen /\ hitches < MaxHitches /\ hitches' = hitches + 1

\* try_wait: a tool that has ended is seen with its code.
LookAtState(w) ==
  /\ watch[w] = "state"
  /\ \E seen \in BOOLEAN :
       /\ Observed(seen)
       /\ glance' = [glance EXCEPT ![w].state =
                     IF ~seen THEN "unknown" ELSE IF tool[w] = "running" THEN "running" ELSE code[w]]
  /\ GoOn(w, "output")
  /\ UNCHANGED <<placeVars, processVars, pauses, told, readVars>>

\* output_bounds
WithinOutput(l) == l.out <= OutLimit /\ l.err <= ErrLimit

\* observed_output
LookAtOutput(w) ==
  /\ watch[w] = "output"
  /\ \E seen \in BOOLEAN :
       /\ Observed(seen)
       /\ glance' = [glance EXCEPT ![w].output =
                     IF ~seen THEN "unknown" ELSE IF WithinOutput(length[w]) THEN "within" ELSE "beyond"]
  /\ GoOn(w, "judge")
  /\ UNCHANGED <<placeVars, processVars, pauses, told, readVars>>

\* deadline
InTime(w) == pauses[w] < TimeLimit

\* capture_reasons: what ends a capture.
CaptureReasons(w) ==
  (IF InTime(w) THEN {} ELSE {"deadline"})
    \cup (CASE glance[w].state = "other" -> {"abnormal exit"}
            [] glance[w].state = "unknown" -> {"process observation"}
            [] OTHER -> {})
    \cup (CASE glance[w].output = "beyond" -> {"output bound"}
            [] glance[w].output = "unknown" -> {"output observation"}
            [] OTHER -> {})

\* A tool that was not seen to end is killed, unless the kill fails, and every
\* tool is waited for.
JudgeLook(w) ==
  /\ watch[w] = "judge"
  /\ IF CaptureReasons(w) # {}
     THEN /\ \/ tool[w] = "exited" /\ UNCHANGED <<tool, code, hitches>>
             \/ /\ tool[w] # "exited"
                /\ tool' = [tool EXCEPT ![w] = "exited"] /\ code' = [code EXCEPT ![w] = "signal"]
                /\ UNCHANGED hitches
             \/ /\ tool[w] # "exited" /\ hitches < MaxHitches /\ hitches' = hitches + 1
                /\ UNCHANGED <<tool, code>>
          /\ GoOn(w, "reap refused")
     ELSE /\ GoOn(w, IF glance[w].state = "zero" THEN "reap" ELSE "sleep")
          /\ UNCHANGED <<tool, code, hitches>>
  /\ UNCHANGED <<placeVars, stray, wrote, length, pauses, glance, told, readVars>>

\* POLL_MILLIS between two looks.
SleepBetween(w) ==
  /\ watch[w] = "sleep"
  /\ pauses' = [pauses EXCEPT ![w] = @ + 1]
  /\ glance' = [glance EXCEPT ![w] = NoLook]
  /\ GoOn(w, "state")
  /\ UNCHANGED <<placeVars, processVars, told, readVars, hitches>>

\* wait: it returns once the tool has ended, with the code that was seen, or
\* fails and leaves the tool as it is, which the observation says.
ReapTool(w) ==
  /\ watch[w] \in {"reap", "reap refused"}
  /\ \/ /\ tool[w] = "exited" /\ tool' = [tool EXCEPT ![w] = "gone"]
        /\ Tell(w, IF watch[w] = "reap" THEN "captured" ELSE "refused")
        /\ GoOn(w, IF watch[w] = "reap" THEN "read" ELSE "done")
        /\ UNCHANGED hitches
     \/ /\ hitches < MaxHitches /\ hitches' = hitches + 1
        /\ Tell(w, "wait failed") /\ GoOn(w, "done") /\ UNCHANGED tool
  /\ UNCHANGED <<placeVars, code, stray, wrote, length, pauses, glance, readVars>>

-----------------------------------------------------------------------------
\* bounded_bytes: the length before, at most one byte too many, the length after.
ReadLength(w) ==
  /\ watch[w] = "read"
  /\ IF length[w].out > OutLimit
     THEN GoOn(w, "done") /\ UNCHANGED reading
     ELSE /\ reading' = [reading EXCEPT ![w].before = length[w].out]
          /\ GoOn(w, "read bytes")
  /\ UNCHANGED <<placeVars, processVars, pauses, glance, told, keptBytes, hitches>>

ReadBytes(w) ==
  /\ watch[w] = "read bytes"
  /\ reading' = [reading EXCEPT ![w].got = IF length[w].out <= OutLimit THEN length[w].out
                                           ELSE OutLimit + 1]
  /\ GoOn(w, "read after")
  /\ UNCHANGED <<placeVars, processVars, pauses, glance, told, keptBytes, hitches>>

\* The bytes are admitted only when no length moved.
AdmitBytes(w) ==
  /\ watch[w] = "read after"
  /\ keptBytes' = [keptBytes EXCEPT ![w] =
                IF /\ reading[w].got <= OutLimit
                   /\ reading[w].before = length[w].out
                   /\ length[w].out = reading[w].got
                THEN reading[w].got ELSE Unread]
  /\ GoOn(w, "done")
  /\ UNCHANGED <<placeVars, processVars, pauses, glance, told, reading, hitches>>

-----------------------------------------------------------------------------
WatcherStep(w) ==
  \/ ClaimEvidence(w) \/ LookForEvidence(w) \/ MakeEvidence(w) \/ StartTool(w)
  \/ LookAtState(w) \/ LookAtOutput(w) \/ JudgeLook(w) \/ SleepBetween(w) \/ ReapTool(w)
  \/ ReadLength(w) \/ ReadBytes(w) \/ AdmitBytes(w)

ToolStep(w) == ToolWrites(w) \/ ToolForks(w) \/ ToolExits(w) \/ StrayWrites(w) \/ StrayEnds(w)

ToolRunNext == \E w \in Watchers : WatcherStep(w) \/ ToolStep(w)

ToolRunSpec == ToolRunInit /\ [][ToolRunNext]_toolRunVars

\* The watcher is scheduled; nothing is asked of the tool.
ToolRunFairSpec == ToolRunSpec /\ \A w \in Watchers : WF_toolRunVars(WatcherStep(w))

-----------------------------------------------------------------------------
ToolRunTypeOK ==
  /\ \A w \in Watchers : length[w] \in Lengths /\ wrote[w] \in Lengths
  /\ \A w \in Watchers : wrote[w].out <= length[w].out /\ wrote[w].err <= length[w].err
  /\ \A w \in Watchers : pauses[w] <= TimeLimit /\ keptBytes[w] \in 0..Unread
  /\ claims \subseteq EvidenceIds /\ folders \subseteq EvidenceIds

\* A watcher that returned has left no process of its own behind, running or unreaped,
\* also when the kill failed, unless it says that the wait did.
NoToolLeft ==
  \A w \in Watchers : told[w] \notin {"nothing", "wait failed"} => tool[w] \in {"none", "gone"}

\* A captured tool ended by itself with code zero, and everything it wrote is within the
\* bounds: the process is looked at before the outputs, so nothing is written after the glance.
CapturedWhole ==
  \A w \in Watchers : told[w] = "captured" => code[w] = "zero" /\ WithinOutput(wrote[w])

\* Bytes that are admitted are all the tool wrote, and within the bound, also when a
\* descendant of the tool goes on writing.
KeptWhole ==
  \A w \in Watchers : keptBytes[w] # Unread => keptBytes[w] \in wrote[w].out..OutLimit

\* Two watchers never put their outputs into one directory, at the same time or later.
EvidenceApart ==
  LET Settled == {w \in Watchers : watch[w] \notin {"start", "claimed"} /\ told[w] # "not started"}
  IN  \A v, w \in Settled : evidenceId[v] = evidenceId[w] => v = w

\* A run of a tool for its output (capture, bounded_bytes and evidence of proof_tools.rs):
\* no process is silently left behind, what is captured and admitted is what the tool wrote, whole
\* and within its bounds, and no two runs share a directory.
ToolRunSound ==
  ToolRunTypeOK /\ NoToolLeft /\ CapturedWhole /\ KeptWhole /\ EvidenceApart

=============================================================================

------------------------------- MODULE Children -------------------------------
(***************************************************************************)
(* One child process and its output (process.rs: run_tool, capture, Group; *)
(* process/chat.rs: command, run; bounded.rs; core capture_policy.rs).  A  *)
(* tool is read through two pipes and waited for; the CLI of an AI         *)
(* provider runs in a group of its own with a reaper beside it, its output *)
(* is read up to a limit and its errors go to a file.  The child may have  *)
(* a descendant that writes to the same pipe, pipes fill up, reads fail,   *)
(* this process dies, and the system gives an identifier away again as     *)
(* soon as nobody waits for it any more.                                   *)
(***************************************************************************)
EXTENDS Naturals

CONSTANTS
  ChildKinds,       \* of "tool", "complete" (a tool whose whole output is needed), "provider"
  CliTools,         \* the AI clients
  SessionIds,       \* of "none", "uuid", "word" and "invalid": the session to resume
  StreamLimit,      \* MAX_TOOL_OUTPUT and MAX_OUTPUT
  PipeRoom,         \* what a pipe holds
  MaxWritten,       \* bound on what is written to a stream
  MaxReadFaults     \* bound on reads that fail and on deaths of this process

ASSUME ChildrenAssumption ==
  /\ ChildKinds \subseteq {"tool", "complete", "provider"}
  /\ SessionIds \subseteq {"none", "uuid", "word", "invalid"}
  /\ StreamLimit \in Nat /\ PipeRoom \in Nat \ {0} /\ MaxWritten \in Nat /\ MaxReadFaults \in Nat

Streams == {"out", "err"}

VARIABLES
  kind,             \* what is run
  cli,              \* and, of a provider, with which client and session
  resumed,
  runStage,         \* where the thread that called is
  readerOf,         \* where the reader of each stream is
  pipe,             \* what is in each pipe
  output,           \* what was written to each stream
  captured,         \* what its reader kept
  omitted,          \* what it read and dropped
  leader,           \* "none", "alive", "ended" (not waited for) or "reaped"
  descendant,       \* "none", "alive" or "ended"
  status,           \* of the leader
  childLock,        \* the mutex of the child: "caller" or "nobody"
  taken,            \* ChildState::Reaped
  warden,           \* the reaper: "none", "guard", "down" or "acted"
  reused,           \* the identifier of the group belongs to somebody else
  misfired,         \* this process has signalled somebody else's group
  runResult,        \* what the caller gets
  readFaults

childrenVars == <<kind, cli, resumed, runStage, readerOf, pipe, output, captured, omitted, leader, descendant,
               status, childLock, taken, warden, reused, misfired, runResult, readFaults>>
requestVars == <<kind, cli, resumed>>
streamVars == <<pipe, output, captured, omitted>>
memberVars == <<leader, descendant, status>>
groupVars == <<childLock, taken, warden, reused, misfired>>

ChildrenInit ==
  /\ kind \in ChildKinds
  /\ cli \in CliTools /\ resumed \in SessionIds
  /\ kind # "provider" => resumed = "none"
  /\ runStage = "command" /\ readerOf = [s \in Streams |-> "none"]
  /\ pipe = [s \in Streams |-> 0] /\ output = [s \in Streams |-> 0]
  /\ captured = [s \in Streams |-> 0] /\ omitted = [s \in Streams |-> 0]
  /\ leader = "none" /\ descendant = "none" /\ status = "none"
  /\ childLock = "nobody" /\ taken = FALSE /\ warden = "none" /\ reused = FALSE /\ misfired = FALSE
  /\ runResult = "none" /\ readFaults = 0

-----------------------------------------------------------------------------
\* resumable: a session that the client can be given.
Resumable == resumed \in {"none", "uuid"} \/ (resumed = "word" /\ cli # "codex")

\* command, arguments; find_program may find nothing.
BuildCommand ==
  /\ runStage = "command"
  /\ \/ Resumable /\ runStage' = "spawn" /\ UNCHANGED runResult
     \/ runStage' = "returned" /\ runResult' = IF Resumable THEN "missing" ELSE "session"
  /\ UNCHANGED <<requestVars, readerOf, streamVars, memberVars, groupVars, readFaults>>

Piped(s) == kind # "provider" \/ s = "out"

\* run_tool and Group::spawn_owned: a child whose reaper cannot be started is
\* stopped and waited for.
SpawnChild ==
  /\ runStage = "spawn"
  /\ \/ /\ leader' = "alive" /\ runStage' = IF kind = "provider" THEN "await" ELSE "capture"
        /\ warden' = IF kind = "provider" THEN "guard" ELSE "none"
        /\ readerOf' = [s \in Streams |-> IF Piped(s) THEN "reading" ELSE "none"]
        /\ UNCHANGED runResult
     \/ /\ leader' = "reaped" /\ runStage' = "returned" /\ runResult' = "unguarded"
        /\ kind = "provider" /\ UNCHANGED <<warden, readerOf>>
  /\ UNCHANGED <<requestVars, streamVars, descendant, status, childLock, taken, reused, misfired, readFaults>>

-----------------------------------------------------------------------------
Closed(s) == readerOf[s] \in {"over", "failed", "ended"}

\* A process writes; it waits while the pipe is full, and ends when nobody reads.
Writes(s) ==
  /\ output[s] < MaxWritten
  /\ ~Piped(s) \/ (~Closed(s) /\ pipe[s] < PipeRoom)
  /\ output' = [output EXCEPT ![s] = @ + 1]
  /\ pipe' = IF Piped(s) THEN [pipe EXCEPT ![s] = @ + 1] ELSE pipe

LeaderWrites(s) ==
  /\ leader = "alive" /\ Writes(s)
  /\ UNCHANGED <<requestVars, runStage, readerOf, captured, omitted, memberVars, groupVars, runResult, readFaults>>

DescendantWrites ==
  /\ descendant = "alive" /\ Writes("out")
  /\ UNCHANGED <<requestVars, runStage, readerOf, captured, omitted, memberVars, groupVars, runResult, readFaults>>

Fork ==
  /\ leader = "alive" /\ descendant = "none" /\ descendant' = "alive"
  /\ UNCHANGED <<requestVars, runStage, readerOf, streamVars, leader, status, groupVars, runResult, readFaults>>

\* The leader ends by itself, successfully if its output was taken.
LeaderEnds ==
  /\ leader = "alive" /\ leader' = "ended"
  /\ status' \in (IF \E s \in Streams : Closed(s) THEN {"failed"} ELSE {"success", "failed"})
  /\ UNCHANGED <<requestVars, runStage, readerOf, streamVars, descendant, groupVars, runResult, readFaults>>

DescendantEnds ==
  /\ descendant = "alive" /\ descendant' = "ended"
  /\ UNCHANGED <<requestVars, runStage, readerOf, streamVars, leader, status, groupVars, runResult, readFaults>>

\* Every process of the group is gone.
GroupEnds ==
  /\ leader' = IF leader = "alive" THEN "ended" ELSE leader
  /\ status' = IF leader = "alive" THEN "failed" ELSE status
  /\ descendant' = IF descendant = "alive" THEN "ended" ELSE descendant

\* A signal to the group by its identifier.
SignalGroup ==
  /\ IF reused THEN misfired' = TRUE /\ UNCHANGED memberVars ELSE GroupEnds /\ UNCHANGED misfired

-----------------------------------------------------------------------------
\* Nobody can write any more.
EndOfStream(s) == pipe[s] = 0 /\ leader # "alive" /\ descendant # "alive"

ReaderGoes(s, then) ==
  /\ readerOf' = [readerOf EXCEPT ![s] = then]
  /\ UNCHANGED <<requestVars, runStage, output, memberVars, groupVars, runResult>>

\* bounded::prefix, and then io::copy to a sink: nothing a tool writes stops it.
CaptureSome(s) ==
  /\ kind # "provider" /\ readerOf[s] = "reading" /\ pipe[s] > 0
  /\ pipe' = [pipe EXCEPT ![s] = @ - 1]
  /\ IF captured[s] < StreamLimit
     THEN captured' = [captured EXCEPT ![s] = @ + 1] /\ UNCHANGED omitted
     ELSE omitted' = [omitted EXCEPT ![s] = @ + 1] /\ UNCHANGED captured
  /\ ReaderGoes(s, "reading") /\ UNCHANGED readFaults

\* bounded::read: one byte more than the limit is read.
ReadSome ==
  /\ kind = "provider" /\ readerOf["out"] = "reading" /\ pipe["out"] > 0
  /\ pipe' = [pipe EXCEPT !["out"] = @ - 1] /\ captured' = [captured EXCEPT !["out"] = @ + 1]
  /\ ReaderGoes("out", IF captured["out"] < StreamLimit THEN "reading" ELSE "over")
  /\ UNCHANGED <<omitted, readFaults>>

ReadEnd(s) ==
  /\ readerOf[s] = "reading" /\ EndOfStream(s)
  /\ ReaderGoes(s, "ended") /\ UNCHANGED <<pipe, captured, omitted, readFaults>>

ReadFails(s) ==
  /\ readerOf[s] = "reading" /\ readFaults < MaxReadFaults /\ readFaults' = readFaults + 1
  /\ ReaderGoes(s, "failed") /\ UNCHANGED <<pipe, captured, omitted>>

\* Group::kill by the reader: with the mutex, and only a child nobody waited for.
StopChildUnlocked ==
  /\ readerOf["out"] \in {"over", "failed"} /\ kind = "provider" /\ leader # "none"
  /\ readerOf' = [readerOf EXCEPT !["out"] = IF @ = "over" THEN "large" ELSE "lost"]
  /\ SignalGroup
  /\ UNCHANGED <<requestVars, runStage, streamVars, childLock, taken, warden, reused, runResult, readFaults>>

StopChild ==
  /\ readerOf["out"] \in {"over", "failed"} /\ kind = "provider" /\ childLock = "nobody"
  /\ readerOf' = [readerOf EXCEPT !["out"] = IF @ = "over" THEN "large" ELSE "lost"]
  /\ IF taken THEN UNCHANGED <<memberVars, misfired>> ELSE SignalGroup
  /\ UNCHANGED <<requestVars, runStage, streamVars, childLock, taken, warden, reused, runResult, readFaults>>

-----------------------------------------------------------------------------
\* Group::wait: the leader has ended but keeps its identifier.
AwaitLeader ==
  /\ runStage = "await" /\ leader = "ended" /\ childLock = "nobody"
  /\ childLock' = "caller" /\ taken' = TRUE /\ runStage' = "remaining"
  /\ UNCHANGED <<requestVars, readerOf, streamVars, memberVars, warden, reused, misfired, runResult, readFaults>>

KillRemaining ==
  /\ runStage = "remaining" /\ SignalGroup /\ runStage' = "reap"
  /\ UNCHANGED <<requestVars, readerOf, streamVars, childLock, taken, warden, reused, runResult, readFaults>>

ReapLeader ==
  /\ runStage = "reap" /\ leader' = "reaped" /\ childLock' = "nobody" /\ runStage' = "down"
  /\ UNCHANGED <<requestVars, readerOf, streamVars, descendant, status, taken, warden, reused, misfired,
                 runResult, readFaults>>

StandDown ==
  /\ runStage = "down" /\ warden' = "down" /\ runStage' = "join"
  /\ UNCHANGED <<requestVars, readerOf, streamVars, memberVars, childLock, taken, reused, misfired, runResult,
                 readFaults>>

\* run_tool: the output first, then the child, then the errors.
CapturedOut ==
  /\ runStage = "capture" /\ readerOf["out"] \in {"ended", "failed"} /\ runStage' = "waitchild"
  /\ UNCHANGED <<requestVars, readerOf, streamVars, memberVars, groupVars, runResult, readFaults>>

WaitTool ==
  /\ runStage = "waitchild" /\ leader = "ended" /\ leader' = "reaped" /\ runStage' = "join"
  /\ UNCHANGED <<requestVars, readerOf, streamVars, descendant, status, groupVars, runResult, readFaults>>

\* admit, and the errors in their order.
ToolOutcome ==
  CASE readerOf["out"] = "failed" \/ (kind = "complete" /\ omitted["out"] > 0) -> "error"
    [] readerOf["err"] = "failed" -> "error"
    [] OTHER -> status

ProviderOutcome ==
  CASE readerOf["out"] = "large" -> "too large"
    [] readerOf["out"] = "lost" -> "error"
    [] OTHER -> status

Join ==
  /\ runStage = "join"
  /\ IF kind = "provider"
     THEN readerOf["out"] \in {"ended", "large", "lost"} /\ runResult' = ProviderOutcome
     ELSE readerOf["err"] \in {"ended", "failed"} /\ runResult' = ToolOutcome
  /\ runStage' = "returned"
  /\ UNCHANGED <<requestVars, readerOf, streamVars, memberVars, groupVars, readFaults>>

-----------------------------------------------------------------------------
\* This process dies: its pipes are closed.
ThisDies ==
  /\ runStage \notin {"command", "spawn", "returned", "dead"}
  /\ readFaults < MaxReadFaults /\ readFaults' = readFaults + 1
  /\ runStage' = "dead" /\ runResult' = "died"
  /\ readerOf' = [s \in Streams |-> "ended"] /\ childLock' = "nobody"
  /\ UNCHANGED <<requestVars, streamVars, memberVars, taken, warden, reused, misfired>>

\* Reaper::reap: the end of its input without the word to stand down.
ReaperActs ==
  /\ warden = "guard" /\ runStage = "dead" /\ warden' = "acted"
  /\ IF reused THEN UNCHANGED memberVars ELSE GroupEnds
  /\ UNCHANGED <<requestVars, runStage, readerOf, streamVars, childLock, taken, reused, misfired, runResult, readFaults>>

\* The identifier is given away once the leader was waited for and the group is empty.
ReuseId ==
  /\ leader = "reaped" /\ descendant # "alive" /\ ~reused /\ reused' = TRUE
  /\ UNCHANGED <<requestVars, runStage, readerOf, streamVars, memberVars, childLock, taken, warden, misfired,
                 runResult, readFaults>>

ChildrenNext ==
  \/ BuildCommand \/ SpawnChild \/ Fork \/ LeaderEnds \/ DescendantWrites \/ DescendantEnds
  \/ \E s \in Streams : LeaderWrites(s) \/ CaptureSome(s) \/ ReadEnd(s) \/ ReadFails(s)
  \/ ReadSome \/ StopChild
  \/ AwaitLeader \/ KillRemaining \/ ReapLeader \/ StandDown
  \/ CapturedOut \/ WaitTool \/ Join
  \/ ThisDies \/ ReaperActs \/ ReuseId

ChildrenSpec == ChildrenInit /\ [][ChildrenNext]_childrenVars

-----------------------------------------------------------------------------
\* The two sides wait for each other: the child for room in a pipe that nobody
\* empties, the caller for the child.
Stuck ==
  /\ runStage \in {"capture", "waitchild", "await", "join"}
  /\ \E s \in Streams : /\ Piped(s) /\ pipe[s] = PipeRoom
                        /\ readerOf[s] \notin {"reading", "over", "failed"} /\ leader = "alive"

(***************************************************************************)
(* What a child says is captured whole or refused.  A provider that        *)
(* succeeded is answered for with everything its group wrote, within the   *)
(* limit; a tool with a prefix of it, and where the whole is needed with   *)
(* the whole (bounded::read, capture, admit); no reader keeps more than    *)
(* its limit and the one byte that shows there is more.  Whatever a child  *)
(* writes, nobody is left waiting for room in a pipe.  A run of a provider *)
(* that returns, or whose reaper has acted in time, leaves no process of   *)
(* its group behind, and this process never signals a group that is        *)
(* somebody else's by now (Group::wait, Group::kill).                      *)
(***************************************************************************)
ChildrenSound ==
  /\ runResult = "success" /\ kind = "provider" =>
       captured["out"] = output["out"] /\ output["out"] <= StreamLimit
  /\ runResult = "success" /\ kind = "complete" => captured["out"] = output["out"]
  /\ runResult \in {"success", "failed"} /\ kind # "provider" =>
       \A s \in Streams : captured[s] + omitted[s] = output[s] /\ (omitted[s] > 0 => captured[s] = StreamLimit)
  /\ \A s \in Streams : captured[s] <= StreamLimit + (IF kind = "provider" THEN 1 ELSE 0)
  /\ ~Stuck
  /\ kind = "provider" /\ (runStage = "returned" \/ (warden = "acted" /\ ~reused)) =>
       leader # "alive" /\ descendant # "alive"
  /\ ~misfired
=============================================================================

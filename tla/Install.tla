------------------------------- MODULE Install -------------------------------
(***************************************************************************)
(* Calls of nodes on another machine (transport.rs): the node of the       *)
(* caller's own build answers, and is built and published there when it is *)
(* missing (builds.rs, transport/bootstrap).  Every node removes builds    *)
(* that nobody uses and job stores of formats that nobody uses (store.rs). *)
(***************************************************************************)
EXTENDS Naturals, FiniteSets, FiniteSetsExt

CONSTANTS
  Dialers,          \* calls made from one client machine
  Builds,           \* builds, named by the digest of their source
  BuildOf,          \* the build each call is made from
  FormatOf,         \* the format of each build's job store
  Runs,             \* calls that submit a job; the others say hello
  Timed,            \* calls with a deadline
  NoDialer, NoBuild,
  KeepIdle,         \* builds kept though nobody uses them
  KeepFormats,      \* other formats' stores kept though nobody uses them
  MaxWoes           \* bound on lost connections, crashes and failed removals

ASSUME InstallAssumption ==
  /\ BuildOf \in [Dialers -> Builds]
  /\ NoDialer \notin Dialers /\ NoBuild \notin Builds

Formats == {FormatOf[b] : b \in Builds}

VARIABLES
  attempt,             \* where each call stands, and its outcome
  shell,            \* whether the shell of the machine is known
  installing,       \* the call that holds the install lock of the machine
  installed,        \* each build: absent, whole, or left in part by a removal
  started,          \* the place each build was last started at
  lastStart,            \* the last place given to a build
  selecting,        \* the node that holds the selection lock
  pinned,
  setup,            \* the build whose setup runs on the machine
  node,             \* the node of each call
  publisher,        \* calls whose publish-node runs
  jobs,           \* calls whose job runs, with the nodes that judged its store before
  kept,             \* the formats that have a store
  opened,           \* the place each store was last opened at
  opening,          \* the last place given to a store
  served,           \* how often each request was handled
  orphaned,         \* workers whose store was set aside, with who did it
  woes

attemptVars == <<attempt, shell, installing>>
buildVars == <<installed, started, lastStart, selecting, pinned, setup>>
formatVars == <<kept, opened, opening>>
nodeVars == <<node, publisher, jobs, served, orphaned>>
installVars == <<attemptVars, buildVars, formatVars, nodeVars, woes>>

NoNode == [at |-> "none", holds |-> "no", pinned |-> NoBuild, judged |-> [f \in {} |-> 0],
         place |-> 0]

InstallInit ==
  /\ attempt = [c \in Dialers |-> "shell"] /\ shell = FALSE /\ installing = NoDialer
  /\ installed = [b \in Builds |-> "absent"] /\ started = [b \in Builds |-> 0] /\ lastStart = 0
  /\ selecting = NoDialer /\ pinned = NoBuild /\ setup = NoBuild
  /\ node = [c \in Dialers |-> NoNode]
  /\ publisher = {} /\ jobs = [c \in {} |-> {}] /\ orphaned = [c \in {} |-> NoDialer]
  /\ kept = {} /\ opened = [f \in Formats |-> 0] /\ opening = 0
  /\ served = [c \in Dialers |-> 0] /\ woes = 0

Woe == woes < MaxWoes /\ woes' = woes + 1

-----------------------------------------------------------------------------
(* The call.                                                               *)

\* A call that ends gives the install lock back.
Ends(c, outcome) ==
  /\ attempt' = [attempt EXCEPT ![c] = outcome]
  /\ installing' = IF installing = c THEN NoDialer ELSE installing
  /\ UNCHANGED shell

\* What an exit that was not answered means: only a shell that found no program says that
\* the node is missing.
Failure(status, c) ==
  CASE status = "missing" -> "missing"
    [] status = "unreachable" -> "unreachable"
    [] status = "killed" /\ c \in Timed -> "deadline"
    [] OTHER -> "error"

\* call_with: a node that is missing is installed under the lock of the machine, unless
\* another call installed it meanwhile.
CallFails(c, status) ==
  LET f == Failure(status, c)
  IN IF f # "missing" THEN Ends(c, f)
     ELSE /\ attempt' = [attempt EXCEPT ![c] = IF installing = c THEN "install" ELSE "lock"]
          /\ UNCHANGED <<shell, installing>>

\* shell, detect_shell: the shell is asked for once, and kept when it is one of two.
DetectShell(c) ==
  /\ attempt[c] = "shell"
  /\ \/ Woe /\ ~shell /\ \E outcome \in {"unreachable", "error"} : Ends(c, outcome)
     \/ /\ attempt' = [attempt EXCEPT ![c] = "call"] /\ shell' = TRUE
        /\ UNCHANGED <<installing, woes>>
  /\ UNCHANGED <<buildVars, formatVars, nodeVars>>

\* raw_call and node_command: the shell looks for the program and runs it.
SendCall(c) ==
  /\ attempt[c] \in {"call", "again"}
  /\ \/ Woe /\ Ends(c, "unreachable") /\ UNCHANGED node
     \/ /\ UNCHANGED woes
        /\ IF installed[BuildOf[c]] = "whole"
           THEN /\ node' = [node EXCEPT ![c].at = "starting"]
                /\ attempt' = [attempt EXCEPT ![c] = "await"] /\ UNCHANGED <<shell, installing>>
           ELSE CallFails(c, "missing") /\ UNCHANGED node
  /\ UNCHANGED <<buildVars, formatVars, publisher, jobs, served, orphaned>>

TakeInstallLock(c) ==
  /\ attempt[c] = "lock" /\ installing = NoDialer /\ installing' = c
  /\ UNCHANGED shell
  /\ attempt' = [attempt EXCEPT ![c] = "again"]
  /\ UNCHANGED <<buildVars, formatVars, nodeVars, woes>>

\* exchange_input: the reply counts when it is whole and the node ended well.
TakeReply(c) ==
  /\ attempt[c] = "await" /\ node[c].at = "answered"
  /\ Ends(c, IF served[c] = 1 THEN "ok" ELSE "refused") /\ node' = [node EXCEPT ![c] = NoNode]
  /\ publisher' = publisher \ {c}
  /\ UNCHANGED <<buildVars, formatVars, jobs, served, orphaned, woes>>

\* The connection breaks, or the watchdog ends it at the deadline; the node may go on.
Cut(c) ==
  /\ attempt[c] = "await" /\ Woe /\ CallFails(c, "killed")
  /\ UNCHANGED <<buildVars, formatVars, nodeVars>>
NodeDies(c) ==
  /\ node[c].at \notin {"none", "answered"} /\ Woe
  /\ node' = [node EXCEPT ![c] = NoNode] /\ publisher' = publisher \ {c}
  /\ selecting' = IF selecting = c THEN NoDialer ELSE selecting
  /\ IF attempt[c] = "await" THEN CallFails(c, "other") ELSE UNCHANGED attemptVars
  /\ UNCHANGED <<installed, started, lastStart, pinned, setup, formatVars, jobs, served, orphaned>>
NodeLeaves(c) ==
  /\ node[c].at = "answered" /\ attempt[c] # "await"
  /\ node' = [node EXCEPT ![c] = NoNode] /\ publisher' = publisher \ {c}
  /\ UNCHANGED <<attemptVars, buildVars, formatVars, jobs, served, orphaned, woes>>

-----------------------------------------------------------------------------
(* Builds on the machine.                                                  *)

BuildUsers(b) ==
  {c \in Dialers : BuildOf[c] = b /\ (node[c].holds # "no" \/ c \in publisher \/ c \in DOMAIN jobs)}
InUse(b) == BuildUsers(b) # {} \/ setup = b

\* bootstrap: the source is sent and built.
Bootstrap(c) ==
  /\ attempt[c] = "install"
  /\ \/ Woe /\ Ends(c, "error")
     \/ attempt' = [attempt EXCEPT ![c] = "publish"] /\ UNCHANGED <<shell, installing, woes>>
  /\ UNCHANGED <<buildVars, formatVars, nodeVars>>

\* builds::admit: the build is published and held under the selection lock, or the one that is
\* there is held.  What a removal left in part is refused.  The first node is started.
AdmitBuild(c) ==
  /\ attempt[c] = "publish" /\ selecting = NoDialer
  /\ IF installed[BuildOf[c]] = "part" THEN Ends(c, "error") /\ UNCHANGED <<installed, publisher, node>>
     ELSE /\ installed' = [installed EXCEPT ![BuildOf[c]] = "whole"]
          /\ publisher' = publisher \cup {c}
          /\ node' = [node EXCEPT ![c] = [NoNode EXCEPT !.at = "starting"]]
          /\ attempt' = [attempt EXCEPT ![c] = "await"] /\ UNCHANGED <<shell, installing>>
  /\ UNCHANGED <<started, lastStart, selecting, pinned, setup, formatVars, jobs, served, orphaned,
                 woes>>

\* hold_current: a node that finds its directory gone goes on without holding it.
HoldBuild(c) ==
  LET b == BuildOf[c]
  IN /\ node[c].at = "starting" /\ selecting = NoDialer
     /\ IF installed[b] = "absent" THEN UNCHANGED <<started, lastStart>>
        ELSE lastStart' = lastStart + 1 /\ started' = [started EXCEPT ![b] = lastStart + 1]
     /\ node' = [node EXCEPT ![c].at = "prune", ![c].holds = IF installed[b] = "absent" THEN "no" ELSE installed[b]]
     /\ UNCHANGED <<attemptVars, installed, selecting, pinned, setup, formatVars, publisher,
                    jobs, served, orphaned, woes>>

\* A build is taken for idle whoever uses it.
IdleBuildAnyway(c, b) ==
  /\ b \notin {BuildOf[c], node[c].pinned} /\ installed[b] # "absent"

\* prune_entries: what it may remove is not its own build, not the pinned one, and its usage
\* lock is free.
IdleBuild(c, b) ==
  /\ b \notin {BuildOf[c], node[c].pinned} /\ installed[b] # "absent"
  /\ ~InUse(b)

\* retention::beyond_newest.
BeyondNewest(items, place, keep) ==
  {i \in items : Cardinality({j \in items : place[j] > place[i]}) >= keep}

\* The selection lock is held from the reading of the pin to the last removal; setup writes
\* the pin without it.
PruneBegins(c) ==
  /\ node[c].at = "prune" /\ selecting = NoDialer /\ selecting' = c
  /\ node' = [node EXCEPT ![c].at = "pruning", ![c].pinned = pinned]
  /\ UNCHANGED <<attemptVars, installed, started, lastStart, pinned, setup, formatVars, publisher,
                 jobs, served, orphaned, woes>>
PruneBuilds(c) ==
  LET beyond == BeyondNewest({b \in Builds : IdleBuild(c, b)}, started, KeepIdle)
  IN /\ node[c].at = "pruning" /\ selecting' = NoDialer
     /\ \/ installed' = [b \in Builds |-> IF b \in beyond THEN "absent" ELSE installed[b]]
           /\ UNCHANGED woes
        \/ /\ Woe
           /\ \E gone \in SUBSET beyond, b \in beyond :
                installed' = [x \in Builds |-> IF x = b THEN "part"
                                               ELSE IF x \in gone THEN "absent" ELSE installed[x]]
     /\ node' = [node EXCEPT ![c].at = "judge", ![c].pinned = NoBuild]
     /\ UNCHANGED <<attemptVars, started, lastStart, pinned, setup, formatVars, publisher, jobs,
                    served, orphaned>>

\* chat setup runs from an installed build, pins it and ends.
SetupBegins(b) ==
  /\ setup = NoBuild /\ pinned = NoBuild /\ installed[b] = "whole" /\ selecting = NoDialer
  /\ setup' = b /\ lastStart' = lastStart + 1 /\ started' = [started EXCEPT ![b] = lastStart + 1]
  /\ UNCHANGED <<attemptVars, installed, selecting, pinned, formatVars, nodeVars, woes>>
SetupPins ==
  /\ setup # NoBuild /\ pinned' = setup /\ setup' = NoBuild
  /\ UNCHANGED <<attemptVars, installed, started, lastStart, selecting, formatVars, nodeVars, woes>>

-----------------------------------------------------------------------------
(* Job stores of other formats, and the request.                           *)

\* store::in_use: some lock in the store is held.
Busy(f) == \E c \in DOMAIN jobs : FormatOf[BuildOf[c]] = f /\ c \notin DOMAIN orphaned

\* prune_other_formats looks at the stores one after the other.
Judge(c, f) ==
  /\ node[c].at = "judge" /\ f \in kept \ {FormatOf[BuildOf[c]]}
  /\ f \notin DOMAIN node[c].judged /\ ~Busy(f)
  /\ node' = [node EXCEPT ![c].judged = [g \in DOMAIN @ \cup {f} |->
                                          IF g = f THEN opened[f] ELSE @[g]]]
  /\ UNCHANGED <<attemptVars, buildVars, formatVars, publisher, jobs, served, orphaned, woes>>

\* Those beyond the newest are set aside, as they were judged.
SetAsideStores(c) ==
  LET judged == node[c].judged
      beyond == BeyondNewest(DOMAIN judged, judged, KeepFormats)
  IN /\ node[c].at = "judge"
     /\ \A f \in kept \ {FormatOf[BuildOf[c]]} : f \in DOMAIN judged \/ Busy(f)
     /\ kept' = kept \ beyond
     /\ LET under == {w \in DOMAIN jobs : FormatOf[BuildOf[w]] \in beyond /\ w \notin DOMAIN orphaned}
        IN orphaned' = [w \in DOMAIN orphaned \cup under |-> IF w \in under THEN c ELSE orphaned[w]]
     /\ node' = [node EXCEPT ![c].at = "serve", ![c].judged = NoNode.judged]
     /\ UNCHANGED <<attemptVars, buildVars, opened, opening, publisher, jobs, served, woes>>

\* node and app::handle.  Store::open creates the directories, takes a place under a lock and
\* writes it down after.
Hello(c) ==
  /\ node[c].at = "serve" /\ c \notin Runs
  /\ served' = [served EXCEPT ![c] = @ + 1] /\ node' = [node EXCEPT ![c].at = "answered"]
  /\ UNCHANGED <<attemptVars, buildVars, formatVars, publisher, jobs, orphaned, woes>>
OpenStore(c) ==
  /\ node[c].at = "serve" /\ c \in Runs
  /\ kept' = kept \cup {FormatOf[BuildOf[c]]} /\ opening' = opening + 1
  /\ node' = [node EXCEPT ![c].at = "opened", ![c].place = opening + 1]
  /\ UNCHANGED <<attemptVars, buildVars, opened, publisher, jobs, served, orphaned, woes>>
RecordOpening(c) ==
  LET f == FormatOf[BuildOf[c]]
  IN /\ node[c].at = "opened"
     /\ opened' = IF f \in kept THEN [opened EXCEPT ![f] = node[c].place] ELSE opened
     /\ node' = [node EXCEPT ![c].at = IF f \in kept THEN "admit" ELSE "answered"]
     /\ UNCHANGED <<attemptVars, buildVars, kept, opening, publisher, jobs, served, orphaned, woes>>

\* The job is recorded and its worker started from the program of the node.
RunJob(c) ==
  LET b == BuildOf[c]
      f == FormatOf[b]
      before == {n \in Dialers : f \in DOMAIN node[n].judged}
  IN /\ node[c].at = "admit"
     /\ served' = IF f \in kept THEN [served EXCEPT ![c] = @ + 1] ELSE served
     /\ jobs' = IF f \in kept /\ installed[b] = "whole"
                  THEN [w \in DOMAIN jobs \cup {c} |-> IF w = c THEN before ELSE jobs[w]]
                  ELSE jobs
     /\ node' = [node EXCEPT ![c].at = "answered"]
     /\ UNCHANGED <<attemptVars, buildVars, formatVars, publisher, orphaned, woes>>

WorkerEnds(c) ==
  /\ c \in DOMAIN jobs
  /\ jobs' = [w \in DOMAIN jobs \ {c} |-> jobs[w]]
  /\ orphaned' = [w \in DOMAIN orphaned \ {c} |-> orphaned[w]]
  /\ UNCHANGED <<attemptVars, buildVars, formatVars, node, publisher, served, woes>>

InstallNext ==
  \/ \E c \in Dialers :
       \/ DetectShell(c) \/ SendCall(c) \/ TakeInstallLock(c) \/ TakeReply(c) \/ Cut(c) \/ NodeDies(c) \/ NodeLeaves(c)
       \/ Bootstrap(c) \/ AdmitBuild(c) \/ HoldBuild(c) \/ PruneBegins(c) \/ PruneBuilds(c)
       \/ SetAsideStores(c) \/ Hello(c) \/ OpenStore(c) \/ RecordOpening(c) \/ RunJob(c)
       \/ WorkerEnds(c) \/ \E f \in Formats : Judge(c, f)
  \/ SetupPins \/ \E b \in Builds : SetupBegins(b)

InstallSpec == InstallInit /\ [][InstallNext]_installVars

-----------------------------------------------------------------------------
\* The build of a process that holds it is left as the process found it, whatever other
\* nodes remove (builds::prune, hold_executable, admit).
BuildsKept ==
  /\ \A c \in Dialers : node[c].holds # "no" => installed[BuildOf[c]] = node[c].holds
  /\ \A c \in publisher : installed[BuildOf[c]] = "whole"
  /\ setup # NoBuild => installed[setup] = "whole"

\* A request is handled at most once, however its connection ends, and a caller that is
\* told of success was served (call_with, failure, exchange_input).
ServedOnce ==
  \A c \in Dialers :
    /\ served[c] <= 1 /\ (attempt[c] = "ok" => served[c] = 1)
    /\ served[c] = 1 => attempt[c] \notin {"lock", "again", "install", "publish"}

\* The store of a running job is only set aside by a node that judged it before the job was
\* started (prune_other_formats, in_use).
StoresJudged == \A w \in DOMAIN orphaned : orphaned[w] \in jobs[w]

\* What other machines do with a build, a request and a store leaves those in use alone
\* (builds.rs, transport.rs, store.rs).
InstallSound == BuildsKept /\ ServedOnce /\ StoresJudged
=============================================================================

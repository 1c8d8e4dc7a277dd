----------------------------- MODULE MCWorkbench -----------------------------
(***************************************************************************)
(* Components that work on their own, for TLC: what surrounds the jobs and *)
(* the chat.  A behaviour chooses one of them and only that one moves.     *)
(***************************************************************************)
EXTENDS TLC, Setup, Jsonc, Quoting, ToolRun, Proving, CiScope, CiTasks, StateFiles, Snapshot,
        Rooms

CONSTANTS
  o1, p1, p2, u1,              \* an operator, two installed programs, an entry of the user
  s1, s2, s3, s4, h1, h2, n1   \* sources and harnesses of the proofs

VARIABLE part

\* Two operators install two different programs.
ProgramOf(o) == IF o = o1 THEN p1 ELSE p2
OwnEntries == <<u1>>
ServerPath == <<"mcp", "dj">>
Characters == {"a", " ", "\"", "\\", "'", "%", "$", ";", "&", Control, Typographic}

\* s2 breaks a proof, s3 forgets to register one, in s4 a control does not fail.
HarnessesOf(s) == {h1, h2, n1}
RegisteredIn(s) == IF s = s3 THEN <<h1, n1>> ELSE <<h1, h2, n1>>
HoldIn(s) == IF s = s2 THEN {h2, n1} ELSE {h1, h2, n1}
SaneIn(a, s) == s # s4 \/ a # "refinement"
CrateOf(h) == "core"
FamilyNamed(h) == IF h = h2 THEN "other" ELSE "native default"

\* Two names that differ in case only, one file git does not track, a hidden and an ignored one.
SourceNames == <<"A", "a", "b", "c", "h", "x">>
SourceStatus(n) ==
  CASE n \in {"A", "a", "c"} -> "tracked" [] n = "b" -> "other" [] n = "h" -> "hidden" [] OTHER -> "ignored"
LowerCase(n) == IF n = "A" THEN "a" ELSE n

\* The machine t is known by an agent of its own before it sends a card.
ShortNames == [o \in Origins |-> IF o = "t" THEN "M" ELSE "short"]
OneGuest == {[name |-> "y", origin |-> "t"]}
BoundAs == [c \in {"c1", "c2"} |-> IF c = "c1" THEN "x" ELSE "y"]
SameLetters(v, w) == v = w \/ {v, w} = {"m", "M"}

-----------------------------------------------------------------------------
Parts == {"setup", "jsonc", "quoting", "toolrun", "proving", "scope", "tasks", "files", "snapshot",
          "rooms"}
benchVars == <<part, setupVars, jsoncVars, quotingVars, toolRunVars, provingVars, scopeVars, tasksVars,
               stateFileVars, snapshotVars, roomVars>>

\* What may differ at first does so only in the component that moves.  A push and a
\* pull request are planned alike, so the latter has the least change only, and a push
\* of two refs has no untracked files.
Unless(p, fixed) == IF part = p THEN TRUE ELSE fixed

BenchInit ==
  /\ part \in Parts
  /\ Unless("scope", course = "push" /\ setting = [host |-> "windows", refs |-> <<>>])
  /\ ScopeInit
  /\ Unless("scope", desk.changed = {} /\ desk.untracked = {})
  /\ course # "push" /\ setting.ref.diff # {"doc"} => setting.event = "push"
  /\ course = "push" => Len(setting.refs) < 2 \/ desk.untracked = {}
  /\ Unless("setup", manager = "systemd") /\ SetupInit
  /\ Unless("jsonc", tree = <<>> /\ text = <<>>) /\ JsoncInit
  /\ QuotingInit
  /\ Unless("toolrun", folders = {}) /\ ToolRunInit
  /\ Unless("proving", source = s1 /\ selector = "all" /\ temper = "honest")
  /\ ProvingInit
  /\ (selector = "native-default" => source = s2) /\ (temper # "honest" => selector = "native-default")
  /\ Unless("tasks", errand = "build" /\ links = Plainly) /\ TasksInit
  /\ Unless("tasks", running[1][1] = "root")
  /\ Unless("files", concern = "trash") /\ StateFilesInit
  /\ Unless("snapshot", repository = "git" /\ oddity = "file") /\ SnapshotInit
  /\ RoomsInit

Still(p, v) == IF part = p THEN TRUE ELSE UNCHANGED v

\* The operators are alike but for their programs: o1 gives the first command.  The
\* file of a client that is not there is read by nobody, and stays as it is.
Distinctly ==
  /\ starts = 0 => \A o \in Operators \ {o1} : left'[o] = <<>>
  /\ "opencode" \notin Present => files'["opencode"] = files["opencode"]

BenchNext ==
  /\ \/ part = "setup" /\ SetupNext /\ Distinctly
     \/ part = "jsonc" /\ JsoncNext
     \/ part = "quoting" /\ QuotingNext
     \/ part = "toolrun" /\ ToolRunNext
     \/ part = "proving" /\ ProvingNext
     \/ part = "scope" /\ ScopeNext
     \/ part = "tasks" /\ TasksNext
     \/ part = "files" /\ StateFilesNext
     \/ part = "snapshot" /\ SnapshotNext
     \/ part = "rooms" /\ RoomsNext
  /\ UNCHANGED part
  /\ Still("setup", setupVars) /\ Still("jsonc", jsoncVars) /\ Still("quoting", quotingVars)
  /\ Still("toolrun", toolRunVars) /\ Still("proving", provingVars) /\ Still("scope", scopeVars)
  /\ Still("tasks", tasksVars) /\ Still("files", stateFileVars) /\ Still("snapshot", snapshotVars)
  /\ Still("rooms", roomVars)

BenchSpec == BenchInit /\ [][BenchNext]_benchVars

-----------------------------------------------------------------------------
\* A command of the setup that succeeds leaves the service and the clients as it
\* says, for its own program, and never touches what the user wrote (setup.rs).
RegisteredSound == part = "setup" => SetupSound

\* What domyjob writes for others to read is read back as it was meant: an edit
\* of a commented configuration file changes its own member and nothing else
\* (jsonc.rs), and a word quoted for a service manager, a shell or a keychain
\* is read as that word (service.rs, release.rs, process/chat.rs), but for the
\* typographic quotes of PowerShell.
TextSound == (part = "jsonc" => JsoncSound) /\ (part = "quoting" => ReadsBack)

\* A proof stands only for the source and the tools that were really used, with
\* every negative control refused (verification.rs, resource_proofs.rs), what a
\* change needs is checked whichever way it reaches the CI or a hook (ci.rs, the
\* workflows), and a heavy check runs in its place and leaves the cache to its
\* user (ci.rs).
CheckedSound ==
  /\ part = "proving" => ProvingSound
  /\ part = "scope" => ScopeSound
  /\ part = "tasks" => TasksSound
=============================================================================

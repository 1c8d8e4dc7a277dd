------------------------------- MODULE Setup -------------------------------
(***************************************************************************)
(* `domyjob chat setup`, `chat service install | uninstall`, `chat reset`  *)
(* and `chat doctor`: what they write for the service manager of the       *)
(* platform, for the AI clients and into the configuration files of the    *)
(* user, step by step.  Every step is a command of another program or a    *)
(* file that is replaced, so the command may fail or be killed between any *)
(* two of them, be run again, and overlap with another one or with the     *)
(* user's own edits.                                                       *)
(***************************************************************************)
EXTENDS Naturals, Sequences, SequencesExt

CONSTANTS
    Operators,    \* the commands that are run on the machine
    Tasks,        \* of "setup", "install", "uninstall", "reset" and "doctor"
    Program(_),   \* the program (build) that runs the command
    Managers,     \* of "systemd", "launchd" and "task"
    Present,      \* the AI clients whose command is on PATH
    NoProgram,
    NoOperator,
    UserEntries,      \* what the user keeps in the configuration files
    MaxStarts,    \* bounds the commands that are started
    MaxEdits,     \* bounds the edits the user makes while commands run
    MaxFailures    \* bounds failing steps and killed commands

VARIABLES
    manager,  \* the service manager of the platform
    doing,    \* the task of each command
    left,     \* the steps each command still has to take
    copy,     \* the document the command read last
    unit,     \* the service definition on disk
    known,    \* the definition the manager has loaded
    holder,   \* who holds the service lock: program and whether managed
    noted,    \* whether the pid file names the present holder
    listed,   \* the service record of the installation
    launched,  \* the programs the manager was told to start
    enrolled, \* the program each client has registered
    files,    \* the hooks and the OpenCode configuration
    userSaved,     \* the user's entries as the user last saved them
    raced,    \* the files whose latest edit a write has overtaken
    alone,    \* the commands that nothing else has overlapped so far
    last,     \* the command that ended well, nothing having happened since
    starts, edits, failures

serviceVars == <<unit, known, holder, noted, listed, launched>>
setupVars == <<manager, doing, left, copy, serviceVars, enrolled, files, userSaved,
               raced, alone, last, starts, edits, failures>>

UserFiles == {"hooks", "opencode"}
ClientTools == {"claude", "codex"}
Own(p) == [own |-> TRUE, is |-> p]
Alien(e) == [own |-> FALSE, is |-> e]
NoHolder == [program |-> NoProgram, managed |-> FALSE]

Aliens(document) == SelectSeq(document, LAMBDA entry : ~entry.own)

-----------------------------------------------------------------------------
(***************************************************************************)
(* The documents.  The hooks of Codex are groups of which one per event is *)
(* recognised as domyjob's: the others are moved to the front in place,    *)
(* the rest is cut off and the new group appended.  The member of the      *)
(* OpenCode configuration is replaced where it stands or added at the end. *)
(***************************************************************************)
SwapAt(seq, i, j) == [seq EXCEPT ![i] = seq[j], ![j] = seq[i]]

CompactForeign(groups) ==
    FoldLeftDomain(
        LAMBDA done, i :
            IF done.groups[i].own
            THEN done
            ELSE [groups |-> SwapAt(done.groups, done.retained + 1, i),
                  retained |-> done.retained + 1],
        [groups |-> groups, retained |-> 0],
        groups)

ReplaceOwned(groups, p) ==
    LET done == CompactForeign(groups)
    IN  Append(SubSeq(done.groups, 1, done.retained), Own(p))

SetMember(members, p) ==
    IF \E i \in DOMAIN members : members[i].own
    THEN [i \in DOMAIN members |-> IF members[i].own THEN Own(p) ELSE members[i]]
    ELSE Append(members, Own(p))

Wanted(f, document, p) ==
    IF f = "hooks" THEN ReplaceOwned(document, p) ELSE SetMember(document, p)

-----------------------------------------------------------------------------
(***************************************************************************)
(* The steps of each command, in order.  The service is defined and        *)
(* started before its record is written and removed after everything else; *)
(* the steps for a client that is to be repaired come from Ask.            *)
(***************************************************************************)
InstallSteps ==
    CASE manager = "systemd" -> <<"define", "load", "enable", "restart", "linger">>
      [] manager = "launchd" -> <<"define", "bootout", "bootstrap">>
      [] manager = "task" -> <<"register", "start">>

UninstallSteps ==
    (CASE manager = "systemd" -> <<"disable", "undefine", "unload">>
       [] manager = "launchd" -> <<"bootout", "undefine">>
       [] manager = "task" -> <<"unregister">>)
    \o <<"terminate", "unrecord">>

ClientSteps ==
    (IF "claude" \in Present THEN <<"ask claude">> ELSE <<>>)
    \o (IF "codex" \in Present THEN <<"ask codex", "read hooks">> ELSE <<>>)
    \o (IF "opencode" \in Present THEN <<"read opencode">> ELSE <<>>)

ServicePresent == listed # NoProgram \/ holder # NoHolder

\* Mutant: the record is written before the manager has started the service.
StepsOfEarlyRecord(task) ==
    CASE task = "setup" ->
           <<"peers", "record">> \o InstallSteps \o ClientSteps \o <<"sync">>
      [] task = "install" -> <<"record">> \o InstallSteps
      [] task = "uninstall" -> UninstallSteps
      [] task = "reset" -> <<"wipe">>
      [] task = "doctor" -> <<"status">> \o ClientSteps

StepsOf(task) ==
    CASE task = "setup" ->
           <<"peers">> \o InstallSteps \o <<"record">> \o ClientSteps \o <<"sync">>
      [] task = "install" -> InstallSteps \o <<"record">>
      [] task = "uninstall" -> UninstallSteps
      [] task = "reset" ->
           (IF ServicePresent THEN UninstallSteps ELSE <<>>) \o <<"wipe">>
      [] task = "doctor" -> <<"status">> \o ClientSteps

Repairs(o) == doing[o] = "setup"
Tolerated == {"linger", "bootout", "disable", "unload", "unregister", "remove claude",
              "remove codex"}

-----------------------------------------------------------------------------
SetupInit ==
    /\ manager \in Managers
    /\ doing = [o \in Operators |-> "doctor"]
    /\ left = [o \in Operators |-> <<>>]
    /\ copy = [o \in Operators |-> <<>>]
    /\ unit = NoProgram /\ known = NoProgram
    /\ holder = NoHolder /\ noted = FALSE
    /\ listed = NoProgram /\ launched = {}
    /\ enrolled = [c \in ClientTools |-> NoProgram]
    /\ userSaved = [f \in UserFiles |-> UserEntries]
    /\ files = [f \in UserFiles |-> [i \in DOMAIN UserEntries |-> Alien(UserEntries[i])]]
    /\ raced = {}
    /\ alone = {}
    /\ last = NoOperator
    /\ starts = 0 /\ edits = 0 /\ failures = 0

Began(o) == left[o] # <<>>

\* The command starts; a setup first installs its program as the stable one.
StartCommand(o, task) ==
    /\ ~Began(o) /\ starts < MaxStarts
    /\ starts' = starts + 1
    /\ doing' = [doing EXCEPT ![o] = task]
    /\ left' = [left EXCEPT ![o] = StepsOf(task)]
    /\ alone' = IF \A p \in Operators : ~Began(p) THEN {o} ELSE {}
    /\ last' = NoOperator
    /\ UNCHANGED <<copy, serviceVars, enrolled, files, userSaved, raced, edits, failures>>

\* Carries the command of o on: the remaining steps, and whether it ended well.
Onward(o, rest) ==
    /\ left' = [left EXCEPT ![o] = rest]
    /\ last' = IF rest = <<>> /\ o \in alone THEN o ELSE NoOperator
    /\ UNCHANGED <<doing, alone, starts>>

GiveUp(o) ==
    /\ left' = [left EXCEPT ![o] = <<>>]
    /\ last' = NoOperator
    /\ UNCHANGED <<doing, alone, starts>>

\* The program that the manager starts takes the service lock if nobody has it.
TakesLock(at, p) ==
    IF p = NoProgram \/ at # NoHolder THEN at ELSE [program |-> p, managed |-> TRUE]
Stopped(at) == IF at.managed THEN NoHolder ELSE at

ServiceEffect(step, p) ==
    /\ unit' = CASE step = "define" -> p
                 [] step = "undefine" -> NoProgram
                 [] OTHER -> unit
    /\ known' = CASE step = "register" -> p
                  [] step \in {"load", "unload", "bootstrap"} -> unit
                  [] step \in {"bootout", "unregister"} -> NoProgram
                  [] OTHER -> known
    /\ holder' = CASE step = "restart" -> TakesLock(Stopped(holder), known)
                   [] step = "bootstrap" -> TakesLock(Stopped(holder), unit)
                   [] step = "start" -> TakesLock(holder, known)
                   [] step \in {"bootout", "disable"} -> Stopped(holder)
                   [] step = "terminate" -> IF noted THEN NoHolder ELSE holder
                   [] OTHER -> holder
    /\ noted' = (noted /\ holder' = holder)
    /\ listed' = CASE step = "record" -> p
                   [] step = "unrecord" -> NoProgram
                   [] OTHER -> listed
    /\ launched' = IF step \in {"restart", "bootstrap", "start"}
                  THEN launched \cup {p} ELSE launched

\* A step of the service part: its command succeeds, or it fails and is tolerated.
ServiceStep(o) ==
    /\ Began(o)
    /\ LET step == Head(left[o])
       IN  /\ step \in {"define", "load", "enable", "restart", "linger", "bootout",
                        "bootstrap", "register", "start", "disable", "undefine",
                        "unload", "unregister", "terminate", "record", "unrecord"}
           /\ \/ ServiceEffect(step, Program(o)) /\ UNCHANGED failures
              \/ /\ step \in Tolerated /\ failures < MaxFailures
                 /\ failures' = failures + 1
                 /\ UNCHANGED serviceVars
           /\ Onward(o, Tail(left[o]))
    /\ UNCHANGED <<copy, enrolled, files, userSaved, raced, edits>>

-----------------------------------------------------------------------------
ClientOf(step) == IF step \in {"ask claude", "remove claude", "add claude",
                               "verify claude"} THEN "claude" ELSE "codex"

\* client_registration: the client is asked, and repaired when it names another
\* program.  The client refuses to add a server it already has.
Ask(o) ==
    /\ Began(o)
    /\ Head(left[o]) \in {"ask claude", "ask codex"}
    /\ LET c == ClientOf(Head(left[o]))
       IN  Onward(o, (IF Repairs(o) /\ enrolled[c] # Program(o)
                      THEN IF c = "claude"
                           THEN <<"remove claude", "add claude", "verify claude">>
                           ELSE <<"remove codex", "add codex", "verify codex">>
                      ELSE <<>>) \o Tail(left[o]))
    /\ UNCHANGED <<copy, serviceVars, enrolled, files, userSaved, raced, edits, failures>>

RemoveServer(o) ==
    /\ Began(o)
    /\ Head(left[o]) \in {"remove claude", "remove codex"}
    /\ LET c == ClientOf(Head(left[o]))
       IN  \/ enrolled' = [enrolled EXCEPT ![c] = NoProgram] /\ UNCHANGED failures
           \/ /\ failures < MaxFailures
              /\ failures' = failures + 1
              /\ UNCHANGED enrolled
    /\ Onward(o, Tail(left[o]))
    /\ UNCHANGED <<copy, serviceVars, files, userSaved, raced, edits>>

AddServer(o) ==
    /\ Began(o)
    /\ Head(left[o]) \in {"add claude", "add codex"}
    /\ LET c == ClientOf(Head(left[o]))
       IN  IF enrolled[c] = NoProgram
           THEN /\ enrolled' = [enrolled EXCEPT ![c] = Program(o)]
                /\ Onward(o, Tail(left[o]))
           ELSE GiveUp(o) /\ UNCHANGED enrolled
    /\ UNCHANGED <<copy, serviceVars, files, userSaved, raced, edits, failures>>

VerifyServer(o) ==
    /\ Began(o)
    /\ Head(left[o]) \in {"verify claude", "verify codex"}
    /\ IF enrolled[ClientOf(Head(left[o]))] = Program(o)
       THEN Onward(o, Tail(left[o]))
       ELSE GiveUp(o)
    /\ UNCHANGED <<copy, serviceVars, enrolled, files, userSaved, raced, edits, failures>>

-----------------------------------------------------------------------------
FileOf(step) == IF step \in {"read hooks", "replace hooks"} THEN "hooks" ELSE "opencode"

\* The document is read and the wanted one made from it.
ReadDocument(o) ==
    /\ Began(o)
    /\ Head(left[o]) \in {"read hooks", "read opencode"}
    /\ LET f == FileOf(Head(left[o]))
       IN  /\ copy' = [copy EXCEPT ![o] = files[f]]
           /\ Onward(o, (IF Repairs(o) /\ Wanted(f, files[f], Program(o)) # files[f]
                         THEN <<IF f = "hooks" THEN "replace hooks" ELSE "replace opencode">>
                         ELSE <<>>) \o Tail(left[o]))
    /\ UNCHANGED <<serviceVars, enrolled, files, userSaved, raced, edits, failures>>

\* The staged document takes the place of the file, whatever the file is by now.
ReplaceDocument(o) ==
    /\ Began(o)
    /\ Head(left[o]) \in {"replace hooks", "replace opencode"}
    /\ LET f == FileOf(Head(left[o]))
       IN  /\ files' = [files EXCEPT ![f] = Wanted(f, copy[o], Program(o))]
           /\ raced' = IF Aliens(files[f]) = Aliens(copy[o]) THEN raced ELSE raced \cup {f}
    /\ Onward(o, Tail(left[o]))
    /\ UNCHANGED <<copy, serviceVars, enrolled, userSaved, edits, failures>>

\* The steps that only look or that belong to the store.
OtherStep(o) ==
    /\ Began(o)
    /\ Head(left[o]) \in {"peers", "sync", "status", "wipe"}
    /\ Onward(o, Tail(left[o]))
    /\ UNCHANGED <<copy, serviceVars, enrolled, files, userSaved, raced, edits, failures>>

-----------------------------------------------------------------------------
\* A step fails, or the command is killed: what was done stays done.
FailCommand(o) ==
    /\ Began(o) /\ failures < MaxFailures
    /\ failures' = failures + 1
    /\ GiveUp(o)
    /\ UNCHANGED <<copy, serviceVars, enrolled, files, userSaved, raced, edits>>

\* The service that holds the lock writes its pid, or ends; somebody runs
\* `chat serve` by hand.
NotePid ==
    /\ holder # NoHolder /\ ~noted
    /\ noted' = TRUE
    /\ UNCHANGED <<doing, starts, left, copy, unit, known, holder, listed, launched,
                   enrolled, files, userSaved, raced, alone, last, edits, failures>>

ServeByHand(o) ==
    /\ holder = NoHolder /\ edits < MaxEdits
    /\ edits' = edits + 1
    /\ holder' = [program |-> Program(o), managed |-> FALSE]
    /\ noted' = FALSE
    /\ last' = NoOperator
    /\ UNCHANGED <<doing, starts, left, copy, unit, known, listed, launched, enrolled,
                   files, userSaved, raced, alone, failures>>

ServeEnds ==
    /\ holder # NoHolder /\ failures < MaxFailures
    /\ failures' = failures + 1
    /\ holder' = NoHolder
    /\ noted' = FALSE
    /\ last' = NoOperator
    /\ UNCHANGED <<doing, starts, left, copy, unit, known, listed, launched, enrolled,
                   files, userSaved, raced, alone, edits>>

\* The user saves one more entry at the end of a file.
EditDocument(f, e) ==
    /\ edits < MaxEdits
    /\ edits' = edits + 1
    /\ files' = [files EXCEPT ![f] = Append(@, Alien(e))]
    /\ userSaved' = [userSaved EXCEPT ![f] = Append(@, e)]
    /\ alone' = {}
    /\ last' = NoOperator
    /\ UNCHANGED <<doing, starts, left, copy, serviceVars, enrolled, raced, failures>>

SetupNext ==
    /\ UNCHANGED manager
    /\ \/ \E o \in Operators :
             \/ \E task \in Tasks : StartCommand(o, task)
             \/ ServiceStep(o)
             \/ Ask(o)
             \/ RemoveServer(o)
             \/ AddServer(o)
             \/ VerifyServer(o)
             \/ ReadDocument(o)
             \/ ReplaceDocument(o)
             \/ OtherStep(o)
             \/ FailCommand(o)
             \/ ServeByHand(o)
       \/ NotePid
       \/ ServeEnds
       \/ \E f \in UserFiles, e \in Range(UserEntries) : EditDocument(f, e)

SetupSpec == SetupInit /\ [][SetupNext]_setupVars

-----------------------------------------------------------------------------
\* What `chat doctor` of program p looks at, besides whether a service runs.
NoDrift(p) ==
    /\ listed = p
    /\ \A c \in ClientTools \cap Present : enrolled[c] = p
    /\ "codex" \in Present => Wanted("hooks", files["hooks"], p) = files["hooks"]
    /\ "opencode" \in Present => Wanted("opencode", files["opencode"], p) = files["opencode"]

\* A setup that ends well leaves record, clients and their files without what
\* doctor calls drift, whatever failed or killed commands of this or of an older
\* program left behind, and the manager has loaded the definition that the record
\* names.  The service itself may have ended, which doctor would report.
SetupHeals ==
    last \in Operators /\ doing[last] = "setup" =>
        /\ NoDrift(Program(last))
        /\ known = Program(last)
        /\ manager # "task" => unit = known

\* An uninstall that ends well leaves neither definition nor record, unless the
\* manager's command failed and was tolerated.
UninstallClears ==
    last \in Operators /\ doing[last] = "uninstall" =>
        /\ listed = NoProgram /\ unit = NoProgram
        /\ known = NoProgram \/ failures > 0

\* The record, which status and doctor trust, names a program only after the
\* manager has been told to start it.
RecordAfterStart == listed # NoProgram => listed \in launched

\* The user's own entries stay in every file, in their order, whichever command is
\* killed where; only a save between reading and replacing the file is lost.
EntriesKept ==
    \A f \in UserFiles \ raced :
        [i \in DOMAIN Aliens(files[f]) |-> Aliens(files[f])[i].is] = userSaved[f]

\* Setting a machine up, taking it down and failing half way keep what the user
\* and the manager are told consistent.
SetupSound == SetupHeals /\ UninstallClears /\ RecordAfterStart /\ EntriesKept
=============================================================================

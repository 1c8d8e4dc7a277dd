-------------------------------- MODULE Jobs --------------------------------
(***************************************************************************)
(* The job store of one node and the processes that share it: a process    *)
(* per request (run, status, wait, kill, clean) and a worker per started   *)
(* job, which supervises the job's command.  They share nothing but the    *)
(* directory of each job and the file locks in it.  A lock belongs to the  *)
(* file it was opened on: a process that opened the lock of a record keeps *)
(* that lock after the record was removed and published again, so a record *)
(* and its locks are named by the order number of the record.  The section *)
(* under a record's state lock is one step.                                *)
(***************************************************************************)
EXTENDS Naturals, FiniteSets, Sequences

CONSTANTS
  Jobs,          \* job identities, each derived from a submission
  Clients,       \* processes that serve one request after another
  Workers,       \* worker processes
  Requests,      \* contents of a submission
  Operations,    \* requests the clients make
  Limits,        \* BOOLEANs: whether a resource policy may apply to a job
  Resubmitted,   \* whether a submission may arrive after its record was removed
  KeepFinished,  \* finished records an admission keeps (32 in the code)
  KeepWorkspaces, \* finished workspaces an admission keeps (2 in the code)
  MaxRecords,    \* records a store holds (1024 in the code)
  MaxSequence,   \* bound: records published in a behaviour
  NoJob, NoRequest, NoClient, NoWorker

ASSUME JobsAssumption ==
  /\ Operations \subseteq {"run", "status", "wait", "kill", "clean", "sweep"}
  /\ Limits \subseteq BOOLEAN /\ Resubmitted \in BOOLEAN
  /\ {KeepFinished, KeepWorkspaces, MaxRecords, MaxSequence} \subseteq Nat
  /\ NoJob \notin Jobs /\ NoRequest \notin Requests
  /\ NoClient \notin Clients /\ NoWorker \notin Workers

VARIABLES
  phase,      \* the state of each job, "absent" without a record
  spec,       \* the request of the record
  order,      \* the order number of the record, 0 before the first
  cancel,     \* whether the cancel file exists
  workspace,  \* whether the workspace exists
  sequence,   \* order numbers given out
  admission,  \* the holder of the admission lock
  client,     \* what each request process is doing
  worker,     \* what each worker is doing
  command,    \* the command each worker started
  runs        \* history: the order numbers whose command was started, per job

record == <<phase, spec, order, cancel, workspace, sequence>>
vars == <<phase, spec, order, cancel, workspace, sequence, admission, client, worker, command, runs>>

Active == {"queued", "starting", "running"}
Outcomes == {"exited", "launch_failed", "lost", "killed", "memory_limit_exceeded"}
Phases == {"accepted"} \cup Active \cup Outcomes

\* The state after an event, "invalid" where the code refuses the event.
Advance(p, event) ==
  CASE p = "accepted" /\ event = "queued" -> "queued"
    [] p \in {"accepted", "queued"} /\ event = "starting" -> "starting"
    [] p = "starting" /\ event = "spawned" -> "running"
    [] p \in {"accepted"} \cup Active /\ event \in {"launch_failed", "lost", "killed"} -> event
    [] p = "running" /\ event \in {"exited", "memory_limit_exceeded"} -> event
    [] OTHER -> "invalid"

Idle == [pc |-> "idle", op |-> "none", job |-> NoJob, request |-> NoRequest, lock |-> 0,
         alive |-> 0, worker |-> NoWorker, todo |-> {}, victim |-> <<>>]
Gone == [pc |-> "idle", job |-> NoJob, lock |-> 0, limited |-> FALSE, watch |-> "on"]

Init ==
  /\ phase = [j \in Jobs |-> "absent"]
  /\ spec = [j \in Jobs |-> NoRequest]
  /\ order = [j \in Jobs |-> 0]
  /\ cancel = [j \in Jobs |-> FALSE]
  /\ workspace = [j \in Jobs |-> FALSE]
  /\ sequence = 0
  /\ admission = NoClient
  /\ client = [c \in Clients |-> Idle]
  /\ worker = [w \in Workers |-> Gone]
  /\ command = [w \in Workers |-> "none"]
  /\ runs = [j \in Jobs |-> <<>>]

-----------------------------------------------------------------------------
\* Locks.  Only a started worker, or a waiting request for a moment, holds the
\* worker lock of a record.

HoldsLaunch(c) ==
  \/ client[c].pc \in {"drain", "spawn", "ready", "started", "refuse", "kill"}
  \/ client[c].op = "kill" /\ client[c].pc \in {"wait", "held", "reply"}

LaunchFree(n) == \A c \in Clients : HoldsLaunch(c) => client[c].lock # n

AliveFree(n) ==
  /\ \A w \in Workers : worker[w].lock # n
  /\ \A c \in Clients : client[c].pc = "held" => client[c].alive # n

\* What `status` finds: an active job without a live worker is lost.
Status(j) == IF phase[j] \in Active /\ AliveFree(order[j]) THEN "lost" ELSE phase[j]

\* Mistake: a failed launch is recorded whatever the state.
LaunchFailureAlways(j) == IF phase[j] = "absent" THEN "absent" ELSE "launch_failed"

\* What `finish_launch_failure` leaves behind.
LaunchFailure(j) ==
  IF phase[j] \in {"accepted", "queued", "starting"} THEN "launch_failed" ELSE phase[j]

Present == {j \in Jobs : phase[j] # "absent"}

-----------------------------------------------------------------------------
\* Requests

Move(c, pc) == client' = [client EXCEPT ![c].pc = pc]
Done(c) == client' = [client EXCEPT ![c] = Idle]
Become(j, p) == phase' = [phase EXCEPT ![j] = p]

\* Mistake: a wait does not start an accepted job.
ReceiveUnstarted(c) ==
  /\ client[c].pc = "idle"
  /\ \E op \in Operations, j \in Jobs, r \in Requests :
       client' = [client EXCEPT ![c] =
         [Idle EXCEPT !.op = op, !.job = j,
                      !.request = IF op = "run" THEN r ELSE NoRequest,
                      !.pc = CASE op \in {"run", "clean", "sweep"} -> "admission"
                               [] op = "wait" -> "await"
                               [] OTHER -> "open"]]
  /\ UNCHANGED <<record, admission, worker, command, runs>>

\* A request arrives.
Receive(c) ==
  /\ client[c].pc = "idle"
  /\ \E op \in Operations, j \in Jobs, r \in Requests :
       client' = [client EXCEPT ![c] =
         [Idle EXCEPT !.op = op, !.job = j,
                      !.request = IF op = "run" THEN r ELSE NoRequest,
                      !.pc = IF op \in {"run", "clean", "sweep"} THEN "admission" ELSE "open"]]
  /\ UNCHANGED <<record, admission, worker, command, runs>>

\* Mistake: the oldest records are kept.
ReclaimedNewest(finished) ==
  LET older(j) == Cardinality({k \in finished : order[k] < order[j]})
  IN  {<<j, "record">> : j \in {k \in finished : older(k) >= KeepFinished}}

\* Finished jobs with enough newer ones lose their record, or their workspace.
Reclaimed(finished) ==
  LET newer(j) == Cardinality({k \in finished : order[k] > order[j]})
  IN  {<<j, "record">> : j \in {k \in finished : newer(k) >= KeepFinished}}
      \cup {<<j, "workspace">> :
              j \in {k \in finished : newer(k) >= KeepWorkspaces /\ newer(k) < KeepFinished}}

\* A repeated submission attaches to its record when its content is the same.
Repeat(c) ==
  LET j == client[c].job
  IN  /\ client[c].pc = "admission" /\ client[c].op = "run"
      /\ admission = NoClient
      /\ phase[j] # "absent"
      /\ IF spec[j] = client[c].request THEN Move(c, "open") ELSE Done(c)
      /\ UNCHANGED <<record, admission, worker, command, runs>>

\* A new submission first reclaims, which asks for the status of every job.
Reserve(c) ==
  LET j == client[c].job
      reaped == [k \in Jobs |-> Status(k)]
  IN  /\ client[c].pc = "admission" /\ client[c].op = "run"
      /\ admission = NoClient
      /\ phase[j] = "absent"
      /\ Resubmitted \/ order[j] = 0
      /\ phase' = reaped
      /\ admission' = c
      /\ client' = [client EXCEPT ![c].pc = "sweep",
                      ![c].todo = Reclaimed({k \in Jobs : reaped[k] \in Outcomes})]
      /\ UNCHANGED <<spec, order, cancel, workspace, sequence, worker, command, runs>>

Clean(c) ==
  LET j == client[c].job
      targets == IF client[c].op = "clean" THEN {j} ELSE Present
  IN  /\ client[c].pc = "admission" /\ client[c].op \in {"clean", "sweep"}
      /\ admission = NoClient
      /\ IF targets \subseteq Present
           THEN /\ admission' = c
                /\ client' = [client EXCEPT ![c].pc = "sweep", ![c].todo = targets \X {"record"}]
           ELSE Done(c) /\ UNCHANGED admission
      /\ UNCHANGED <<record, worker, command, runs>>

\* Mistake: the record is not asked whether its job has finished.
SetAsideUnchecked(c) ==
  /\ client[c].pc = "sweep"
  /\ \E target \in client[c].todo :
       /\ LaunchFree(order[target[1]])
       /\ client' = [client EXCEPT ![c].pc = "drain", ![c].lock = order[target[1]],
                                   ![c].victim = target, ![c].todo = @ \ {target}]
  /\ UNCHANGED <<record, admission, worker, command, runs>>

\* set_aside_finished takes the launch lock of one job and skips an unfinished one.
SetAsideBegin(c) ==
  /\ client[c].pc = "sweep"
  /\ \E target \in client[c].todo :
       LET j == target[1]
           rest == client[c].todo \ {target}
       IN  /\ LaunchFree(order[j])
           /\ Become(j, Status(j))
           /\ client' = IF Status(j) \in Outcomes
                          THEN [client EXCEPT ![c].pc = "drain", ![c].lock = order[j],
                                              ![c].victim = target, ![c].todo = rest]
                          ELSE [client EXCEPT ![c].todo = rest]
  /\ UNCHANGED <<spec, order, cancel, workspace, sequence, admission, worker, command, runs>>

\* It waits for the worker to leave and gives up both locks.
SetAsideDrain(c) ==
  /\ client[c].pc = "drain"
  /\ AliveFree(client[c].lock)
  /\ client' = [client EXCEPT ![c].pc = "rename", ![c].lock = 0]
  /\ UNCHANGED <<record, admission, worker, command, runs>>

\* Then one rename moves the record or its workspace to the trash.
SetAside(c) ==
  LET j == client[c].victim[1]
      part == client[c].victim[2]
  IN  /\ client[c].pc = "rename"
      /\ workspace' = [workspace EXCEPT ![j] = FALSE]
      /\ phase' = [phase EXCEPT ![j] = IF part = "record" THEN "absent" ELSE @]
      /\ cancel' = [cancel EXCEPT ![j] = IF part = "record" THEN FALSE ELSE @]
      /\ client' = [client EXCEPT ![c].pc = "sweep", ![c].victim = <<>>]
      /\ UNCHANGED <<spec, order, sequence, admission, worker, command, runs>>

\* A rename that fails ends a clean; an admission goes on.
SetAsideFails(c) ==
  /\ client[c].pc = "rename"
  /\ IF client[c].op = "run"
       THEN /\ client' = [client EXCEPT ![c].pc = "sweep", ![c].victim = <<>>]
            /\ UNCHANGED admission
       ELSE Done(c) /\ admission' = NoClient
  /\ UNCHANGED <<record, worker, command, runs>>

Cleaned(c) ==
  /\ client[c].pc = "sweep" /\ client[c].todo = {} /\ client[c].op # "run"
  /\ Done(c)
  /\ admission' = NoClient
  /\ UNCHANGED <<record, worker, command, runs>>

\* One rename publishes the staged record.
Stage(c) ==
  LET j == client[c].job
  IN  /\ client[c].pc = "sweep" /\ client[c].todo = {} /\ client[c].op = "run"
      /\ Cardinality(Present) < MaxRecords
      /\ sequence < MaxSequence
      /\ sequence' = sequence + 1
      /\ order' = [order EXCEPT ![j] = sequence + 1]
      /\ Become(j, "accepted")
      /\ spec' = [spec EXCEPT ![j] = client[c].request]
      /\ workspace' = [workspace EXCEPT ![j] = TRUE]
      /\ Move(c, "open")
      /\ admission' = NoClient
      /\ UNCHANGED <<cancel, worker, command, runs>>

\* A full store, or a record that cannot be staged, refuses the submission.
StageFails(c) ==
  /\ client[c].pc = "sweep" /\ client[c].todo = {} /\ client[c].op = "run"
  /\ Done(c)
  /\ admission' = NoClient
  /\ UNCHANGED <<record, worker, command, runs>>

-----------------------------------------------------------------------------
\* Starting the worker, waiting and killing

\* What a request does once the worker was started, or needed no start.
AfterStart(op) == CASE op = "run" -> "idle" [] op = "status" -> "reply" [] op = "wait" -> "await"
Attached(c) ==
  LET pc == AfterStart(client[c].op)
  IN  IF pc = "idle" THEN Done(c) ELSE client' = [client EXCEPT ![c].pc = pc, ![c].lock = 0,
                                                    ![c].worker = NoWorker]

\* Opens the launch lock of the record it finds.
Open(c) ==
  LET j == client[c].job
  IN  /\ client[c].pc = "open"
      /\ IF phase[j] = "absent" THEN Done(c)
         ELSE client' = [client EXCEPT ![c].pc = "launch", ![c].lock = order[j]]
      /\ UNCHANGED <<record, admission, worker, command, runs>>

\* With the launch lock, only an accepted job gets a worker.
Launch(c) ==
  LET j == client[c].job
  IN  /\ client[c].pc = "launch" /\ client[c].op # "kill"
      /\ LaunchFree(client[c].lock)
      /\ Become(j, Status(j))
      /\ CASE phase[j] = "absent" -> Done(c)
           [] phase[j] = "accepted" -> Move(c, "spawn")
           [] OTHER -> Attached(c)
      /\ UNCHANGED <<spec, order, cancel, workspace, sequence, admission, worker, command, runs>>

SpawnWorker(c) ==
  /\ client[c].pc = "spawn"
  /\ \E w \in Workers :
       /\ worker[w].pc = "idle" /\ command[w] = "none"
       /\ \A d \in Clients : client[d].worker # w
       /\ worker' = [worker EXCEPT ![w] = [Gone EXCEPT !.pc = "open", !.job = client[c].job]]
       /\ client' = [client EXCEPT ![c].pc = "ready", ![c].worker = w]
  /\ UNCHANGED <<record, admission, command, runs>>

\* The worker process cannot be started, or it ends without its ready byte.
LaunchError(c) ==
  /\ \/ client[c].pc = "spawn"
     \/ client[c].pc = "ready" /\ worker[client[c].worker].pc = "idle"
  /\ Move(c, "refuse")
  /\ UNCHANGED <<record, admission, worker, command, runs>>

\* The failed launch is recorded; a refusal of the login session ends the request.
Refuse(c) ==
  LET j == client[c].job
  IN  /\ client[c].pc = "refuse"
      /\ Become(j, LaunchFailure(j))
      /\ \/ phase[j] # "absent" /\ Attached(c)
         \/ Done(c)
      /\ UNCHANGED <<spec, order, cancel, workspace, sequence, admission, worker, command, runs>>

Started(c) ==
  /\ client[c].pc = "started"
  /\ Attached(c)
  /\ UNCHANGED <<record, admission, worker, command, runs>>

\* `wait` opens the worker lock of the record it finds ...
Await(c) ==
  LET j == client[c].job
  IN  /\ client[c].pc = "await"
      /\ IF phase[j] = "absent" THEN Done(c)
         ELSE client' = [client EXCEPT ![c].pc = "wait", ![c].alive = order[j]]
      /\ UNCHANGED <<record, admission, worker, command, runs>>

\* ... holds it for a moment once the worker is gone ...
WaitHold(c) ==
  /\ client[c].pc = "wait"
  /\ AliveFree(client[c].alive)
  /\ Move(c, "held")
  /\ UNCHANGED <<record, admission, worker, command, runs>>

WaitDrop(c) ==
  /\ client[c].pc = "held"
  /\ client' = [client EXCEPT ![c].pc = "reply", ![c].alive = 0]
  /\ UNCHANGED <<record, admission, worker, command, runs>>

\* ... and answers with the status.
Reply(c) ==
  /\ client[c].pc = "reply"
  /\ Become(client[c].job, Status(client[c].job))
  /\ Done(c)
  /\ UNCHANGED <<spec, order, cancel, workspace, sequence, admission, worker, command, runs>>

\* Mistake: a job that is still queued is not cancelled.
KillRunning(c) ==
  LET j == client[c].job
      found == Status(j)
  IN  /\ client[c].pc = "launch" /\ client[c].op = "kill"
      /\ LaunchFree(client[c].lock)
      /\ Become(j, found)
      /\ cancel' = [cancel EXCEPT ![j] = @ \/ found \in {"starting", "running"}]
      /\ CASE found = "accepted" -> Move(c, "kill")
           [] found \in Active ->
                client' = [client EXCEPT ![c].pc = "wait", ![c].alive = order[j]]
           [] OTHER -> Done(c)
      /\ UNCHANGED <<spec, order, workspace, sequence, admission, worker, command, runs>>

\* A kill asks the worker of an active job and waits, with the launch lock.
Kill(c) ==
  LET j == client[c].job
      found == Status(j)
  IN  /\ client[c].pc = "launch" /\ client[c].op = "kill"
      /\ LaunchFree(client[c].lock)
      /\ Become(j, found)
      /\ cancel' = [cancel EXCEPT ![j] = @ \/ found \in Active]
      /\ CASE found = "accepted" -> Move(c, "kill")
           [] found \in Active ->
                client' = [client EXCEPT ![c].pc = "wait", ![c].alive = order[j]]
           [] OTHER -> Done(c)
      /\ UNCHANGED <<spec, order, workspace, sequence, admission, worker, command, runs>>

\* It finishes an accepted job itself.
KillAccepted(c) ==
  LET j == client[c].job
      to == Advance(phase[j], "killed")
  IN  /\ client[c].pc = "kill"
      /\ Become(j, IF to = "invalid" THEN phase[j] ELSE to)
      /\ Done(c)
      /\ UNCHANGED <<spec, order, cancel, workspace, sequence, admission, worker, command, runs>>

\* A request process dies: its locks are free and its end of the pipe is closed.
ClientCrash(c) ==
  /\ client[c].pc # "idle"
  /\ Done(c)
  /\ admission' = IF admission = c THEN NoClient ELSE admission
  /\ UNCHANGED <<record, worker, command, runs>>

-----------------------------------------------------------------------------
\* The worker

WorkerMove(w, pc) == worker' = [worker EXCEPT ![w].pc = pc]

\* The worker ends; the lock is free.  A command it leaves behind is up to the
\* reaper, which sees the end of its input; without a reaper yet it is a stray.
LeftBehind(state) ==
  CASE state \in {"running", "orphan"} -> "orphan"
    [] state \in {"bare", "stray"} -> "stray"
    [] OTHER -> "none"

Leave(w, pc) ==
  /\ worker' = [worker EXCEPT ![w] = [Gone EXCEPT !.pc = pc, !.job = IF pc = "idle" THEN NoJob ELSE worker[w].job]]
  /\ command' = [command EXCEPT ![w] = LeftBehind(@)]

\* Mistake: a refused event is stored all the same.
TransitionUnchecked(w, event, pc) ==
  /\ Become(worker[w].job, Advance(phase[worker[w].job], event))
  /\ IF pc = "idle" THEN Leave(w, "idle") ELSE WorkerMove(w, pc) /\ UNCHANGED command

\* A transition of the worker's job; one that is refused is an error of the worker.
Transition(w, event, pc) ==
  LET j == worker[w].job
      to == Advance(phase[j], event)
  IN  IF to = "invalid" THEN Leave(w, "error") /\ UNCHANGED phase
      ELSE /\ Become(j, to)
           /\ IF pc = "idle" THEN Leave(w, "idle")
              ELSE WorkerMove(w, pc) /\ UNCHANGED command

unmoved == <<spec, order, cancel, workspace, sequence, admission>>

\* Mistake: the guard of the worker lock is dropped at once.
WorkerLockDropped(w) ==
  LET j == worker[w].job
  IN  /\ worker[w].pc = "open"
      /\ CASE phase[j] = "absent" -> Leave(w, "error")
           [] phase[j] # "absent" /\ AliveFree(order[j]) -> WorkerMove(w, "check") /\ UNCHANGED command
           [] OTHER -> Leave(w, "idle")
      /\ UNCHANGED <<phase, unmoved, client, runs>>

\* Without the worker lock there is nothing to do.
WorkerLock(w) ==
  LET j == worker[w].job
  IN  /\ worker[w].pc = "open"
      /\ CASE phase[j] = "absent" -> Leave(w, "error")
           [] phase[j] # "absent" /\ AliveFree(order[j]) ->
                worker' = [worker EXCEPT ![w].pc = "check", ![w].lock = order[j]]
                /\ UNCHANGED command
           [] OTHER -> Leave(w, "idle")
      /\ UNCHANGED <<phase, unmoved, client, runs>>

Check(w) ==
  LET j == worker[w].job
  IN  /\ worker[w].pc = "check"
      /\ Become(j, Status(j))
      /\ CASE phase[j] = "absent" -> Leave(w, "error")
           [] phase[j] = "accepted" ->
                /\ \E limited \in Limits :
                     worker' = [worker EXCEPT ![w].pc = "begin", ![w].limited = limited]
                /\ UNCHANGED command
           [] OTHER -> Leave(w, "idle")
      /\ UNCHANGED <<unmoved, client, runs>>

Begin(w) ==
  /\ worker[w].pc = "begin"
  /\ Transition(w, IF worker[w].limited THEN "queued" ELSE "starting", "announce")
  /\ UNCHANGED <<unmoved, client, runs>>

\* The ready byte needs a reader: with its launcher dead the worker gives up.
Announce(w) ==
  LET launchers == {c \in Clients : client[c].pc = "ready" /\ client[c].worker = w}
  IN  /\ worker[w].pc = "announce"
      /\ IF launchers = {} THEN Leave(w, "error") /\ UNCHANGED client
         ELSE /\ client' = [c \in Clients |->
                              IF c \in launchers THEN [client[c] EXCEPT !.pc = "started"] ELSE client[c]]
              /\ WorkerMove(w, "admit") /\ UNCHANGED command
      /\ UNCHANGED <<phase, unmoved, runs>>

\* Admission waits for a slot of the policy, and looks for a cancellation first.
Admit(w) ==
  /\ worker[w].pc = "admit"
  /\ ~cancel[worker[w].job]
  /\ IF worker[w].limited THEN Transition(w, "starting", "prepare")
     ELSE WorkerMove(w, "prepare") /\ UNCHANGED <<phase, command>>
  /\ UNCHANGED <<unmoved, client, runs>>

Cancelled(w) ==
  /\ worker[w].pc \in {"admit", "prepare"}
  /\ cancel[worker[w].job]
  /\ Transition(w, "killed", "idle")
  /\ UNCHANGED <<unmoved, client, runs>>

Prepare(w) ==
  /\ worker[w].pc = "prepare"
  /\ ~cancel[worker[w].job]
  /\ WorkerMove(w, "spawn")
  /\ UNCHANGED <<record, admission, client, command, runs>>

Spawn(w) ==
  LET j == worker[w].job
  IN  /\ worker[w].pc = "spawn"
      /\ command' = [command EXCEPT ![w] = "bare"]
      /\ runs' = [runs EXCEPT ![j] = Append(@, order[j])]
      /\ WorkerMove(w, "bare")
      /\ UNCHANGED <<record, admission, client>>

\* The reaper is started after the command ...
Guard(w) ==
  /\ worker[w].pc = "bare"
  /\ command' = [command EXCEPT ![w] = IF @ = "bare" THEN "running" ELSE @]
  /\ WorkerMove(w, "spawned")
  /\ UNCHANGED <<record, admission, client, runs>>

\* Mistake: a command that cannot be guarded is started once more.
UnguardedAgain(w) ==
  /\ worker[w].pc = "bare"
  /\ command' = [command EXCEPT ![w] = "ended"]
  /\ WorkerMove(w, "spawn")
  /\ UNCHANGED <<record, admission, client, runs>>

\* ... and a command that cannot be guarded is killed at once.
Unguarded(w) ==
  /\ worker[w].pc = "bare"
  /\ command' = [command EXCEPT ![w] = "ended"]
  /\ WorkerMove(w, "unguarded")
  /\ UNCHANGED <<record, admission, client, runs>>

\* It is a failed launch, like a command that cannot be spawned.
SpawnFails(w) ==
  /\ worker[w].pc \in {"spawn", "unguarded"}
  /\ Transition(w, "launch_failed", "idle")
  /\ UNCHANGED <<unmoved, client, runs>>

Spawned(w) ==
  /\ worker[w].pc = "spawned"
  /\ Transition(w, "spawned", "wait")
  /\ UNCHANGED <<unmoved, client, runs>>

\* The watch thread finds the cancel file and kills the process group.
Watch(w) ==
  /\ worker[w].pc = "wait"
  /\ cancel[worker[w].job] /\ worker[w].watch = "on"
  /\ worker' = [worker EXCEPT ![w].watch = "cancelled"]
  /\ command' = [command EXCEPT ![w] = "ended"]
  /\ UNCHANGED <<record, admission, client, runs>>

\* The watch breaks, or its kill fails.  It tries to kill the command once; the
\* worker reports the error when the command has ended.
WatchBreaks(w) ==
  /\ worker[w].pc = "wait" /\ worker[w].watch = "on"
  /\ worker' = [worker EXCEPT ![w].watch = "broken"]
  /\ command' \in {command, [command EXCEPT ![w] = "ended"]}
  /\ UNCHANGED <<record, admission, client, runs>>

\* The command ends: the worker records what became of it and leaves.
Finish(w) ==
  /\ worker[w].pc = "wait" /\ command[w] = "ended" /\ worker[w].watch # "broken"
  /\ \E event \in IF worker[w].watch = "cancelled" THEN {"killed"}
                  ELSE {"exited"} \cup (IF worker[w].limited
                                          THEN {"memory_limit_exceeded", "launch_failed"} ELSE {}) :
       Transition(w, event, "idle")
  /\ UNCHANGED <<unmoved, client, runs>>

FinishBroken(w) ==
  /\ worker[w].pc = "wait" /\ command[w] = "ended" /\ worker[w].watch = "broken"
  /\ Leave(w, "error")
  /\ UNCHANGED <<record, admission, client, runs>>

Supervising == {"check", "begin", "announce", "admit", "prepare", "spawn", "bare", "spawned",
                "unguarded", "wait"}

\* Any other effect of the worker may fail (a state file, the log, the policy).
Fail(w) ==
  /\ worker[w].pc \in (Supervising \ {"bare"}) \cup {"open"}
  /\ worker[w].pc = "wait" => command[w] = "ended"
  /\ Leave(w, "error")
  /\ UNCHANGED <<record, admission, client, runs>>

\* After it gave up the lock, a failed worker tries to record the failure.
RecordFailure(w) ==
  LET j == worker[w].job
  IN  /\ worker[w].pc = "error"
      /\ phase' \in {phase, [phase EXCEPT ![j] = LaunchFailure(j)]}
      /\ worker' = [worker EXCEPT ![w] = Gone]
      /\ UNCHANGED <<unmoved, client, command, runs>>

WorkerCrash(w) ==
  /\ worker[w].pc # "idle"
  /\ Leave(w, "idle")
  /\ UNCHANGED <<record, admission, client, runs>>

\* External: the command itself ends.
CommandExit(w) ==
  /\ command[w] \in {"bare", "running", "stray"}
  /\ command' = [command EXCEPT ![w] = IF @ = "stray" THEN "none" ELSE "ended"]
  /\ UNCHANGED <<record, admission, client, worker, runs>>

\* The reaper kills what a worker left behind.
Reap(w) ==
  /\ command[w] = "orphan"
  /\ command' = [command EXCEPT ![w] = "none"]
  /\ UNCHANGED <<record, admission, client, worker, runs>>

-----------------------------------------------------------------------------
Serve(c) ==
  \/ Repeat(c) \/ Reserve(c) \/ Clean(c) \/ SetAsideBegin(c) \/ SetAsideDrain(c) \/ SetAside(c)
  \/ SetAsideFails(c) \/ Cleaned(c) \/ Stage(c) \/ StageFails(c) \/ Open(c) \/ Launch(c)
  \/ SpawnWorker(c) \/ LaunchError(c) \/ Refuse(c) \/ Started(c) \/ Await(c) \/ WaitHold(c)
  \/ WaitDrop(c) \/ Reply(c) \/ Kill(c) \/ KillAccepted(c)

Supervise(w) ==
  \/ WorkerLock(w) \/ Check(w) \/ Begin(w) \/ Announce(w) \/ Cancelled(w) \/ Prepare(w)
  \/ Spawn(w) \/ Guard(w) \/ Unguarded(w) \/ SpawnFails(w) \/ Spawned(w) \/ Watch(w) \/ Finish(w)
  \/ FinishBroken(w) \/ RecordFailure(w)

Next ==
  \/ \E c \in Clients : Receive(c) \/ Serve(c) \/ ClientCrash(c)
  \/ \E w \in Workers :
       Supervise(w) \/ Admit(w) \/ WatchBreaks(w) \/ Fail(w) \/ WorkerCrash(w) \/ CommandExit(w) \/ Reap(w)

Spec == Init /\ [][Next]_vars

\* Processes that are not killed go on, the change of a watched file is noticed
\* and a free lock is taken by the one that waits for it.  Nothing is assumed of
\* commands, of free slots, or of requests.
Fairness ==
  /\ \A c \in Clients : WF_vars(Serve(c))
  /\ \A w \in Workers : WF_vars(Supervise(w)) /\ WF_vars(Reap(w))

FairSpec == Spec /\ Fairness

-----------------------------------------------------------------------------
ClientStates == [
  pc : {"idle", "admission", "sweep", "drain", "rename", "open", "launch", "spawn", "ready",
        "started", "refuse", "await", "wait", "held", "reply", "kill"},
  op : Operations \cup {"none"}, job : Jobs \cup {NoJob},
  request : Requests \cup {NoRequest}, lock : 0 .. MaxSequence, alive : 0 .. MaxSequence,
  worker : Workers \cup {NoWorker}, todo : SUBSET (Jobs \X {"record", "workspace"}),
  victim : (Jobs \X {"record", "workspace"}) \cup {<<>>}]

WorkerStates == [
  pc : Supervising \cup {"idle", "open", "error"}, job : Jobs \cup {NoJob},
  lock : 0 .. MaxSequence, limited : BOOLEAN, watch : {"on", "cancelled", "broken"}]

TypeOK ==
  /\ phase \in [Jobs -> Phases \cup {"absent"}]
  /\ spec \in [Jobs -> Requests \cup {NoRequest}]
  /\ order \in [Jobs -> 0 .. MaxSequence]
  /\ cancel \in [Jobs -> BOOLEAN] /\ workspace \in [Jobs -> BOOLEAN]
  /\ sequence \in 0 .. MaxSequence
  /\ admission \in Clients \cup {NoClient}
  /\ client \in [Clients -> ClientStates]
  /\ worker \in [Workers -> WorkerStates]
  /\ command \in [Workers -> {"none", "bare", "running", "ended", "orphan", "stray"}]
  /\ runs \in [Jobs -> Seq(1 .. MaxSequence)]

\* The command of a published record is started at most once, however often its
\* submission is repeated, its workers die and are launched again (run_worker_at_using).
OncePerRecord ==
  \A j \in Jobs : \A a, b \in DOMAIN runs[j] : runs[j][a] = runs[j][b] => a = b

Announced(w) == worker[w].pc \in Supervising \ {"check", "begin", "announce"}

\* Once a worker announced itself, no status, wait, kill or clean takes its job
\* for lost, finishes it or removes its record (status, set_aside_finished).
LiveIsKept ==
  \A w \in Workers : Announced(w) =>
     /\ phase[worker[w].job] \in Active \cup {"launch_failed"}
     /\ order[worker[w].job] = worker[w].lock

\* Once a worker announced itself, its job is active until it records the outcome
\* (finish_launch_failure).
LiveIsActive == \A w \in Workers : Announced(w) => phase[worker[w].job] \in Active

\* A request that waits holds the worker lock only of a job whose worker had its
\* chance: it never keeps a worker from an accepted job (Store::wait).
WaitHarmless ==
  \A c \in Clients : LET j == client[c].job IN
     client[c].pc = "held" => ~(phase[j] = "accepted" /\ order[j] = client[c].alive)

\* A wait or a kill is answered with an outcome (Store::wait, kill_using).
WaitAnswered ==
  [][\A c \in Clients :
       Reply(c) /\ client[c].op \in {"wait", "kill"} =>
         phase'[client[c].job] \in Outcomes \cup {"absent"}]_vars

\* A record or a workspace goes to the trash only when its job has finished and
\* no supervised command is left in it (set_aside_finished).
RemovalIsSafe ==
  [][\A j \in Jobs :
       (phase[j] # "absent" /\ phase'[j] = "absent") \/ (workspace[j] /\ ~workspace'[j]) =>
         /\ phase[j] \in Outcomes
         /\ \A w \in Workers : worker[w].job = j => command[w] \notin {"bare", "running"}]_vars

\* An admission removes a record only with enough newer finished ones (reclaim).
NewestKept ==
  [][\A j \in Jobs :
       /\ phase[j] \in Outcomes /\ phase'[j] = "absent"
       /\ admission # NoClient /\ client[admission].op = "run"
       => Cardinality({k \in Jobs : phase[k] \in Outcomes /\ order[k] > order[j]})
            >= KeepFinished]_vars

\* A kill that waits for a worker is answered, whatever the command does, unless
\* the watch of the worker broke or could not kill (kill_using, CancellationWatch).
KillReturns ==
  \A c \in Clients :
    (client[c].op = "kill" /\ client[c].pc = "wait") ~>
      (client[c].pc = "idle" \/ \E w \in Workers : worker[w].watch = "broken")

Life == INSTANCE JobLife WITH
  Startable <- {"active", "launch_failed"},
  life <- [j \in Jobs |-> IF phase[j] \in Active THEN "active" ELSE phase[j]],
  started <- [j \in Jobs |-> \E k \in DOMAIN runs[j] : runs[j][k] = order[j]]

\* The store keeps its promise about every submission.  A command may start after
\* its launch was recorded as failed, see LiveIsActive.
LifeSpec == Life!Spec
=============================================================================

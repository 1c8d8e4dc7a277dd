-------------------------------- MODULE Login --------------------------------
(***************************************************************************)
(* The start of a worker inside the login session of macOS                 *)
(* (process/login.rs, core worker_handoff.rs and wire.rs, with             *)
(* start_worker_using of app.rs around it).  A request that came over SSH  *)
(* writes one frame to the socket of the chat service of the desktop       *)
(* session and waits for the answer; the service reads, decodes and        *)
(* validates it, starts the worker, waits for its readiness and answers.   *)
(* Services come and go, callers and workers die, and nothing has a limit  *)
(* of time.                                                                *)
(***************************************************************************)
EXTENDS Naturals, FiniteSets

CONSTANTS
  Callers,          \* requests that want a worker
  JobOf(_),         \* the job of a request
  HandoffKinds,     \* of "good", "large" (over 1 MiB), "unknown" (fields of another
                    \* build) and "unlisted" (an environment name that is not allowed)
  Services,         \* starts of the chat service
  SessionKinds,        \* of "Aqua" and "Background": what launchctl says of a service
  NoService,
  NoCaller,
  MaxDeaths         \* bound on processes that die

ASSUME LoginAssumption ==
  /\ HandoffKinds \subseteq {"good", "large", "unknown", "unlisted"}
  /\ NoService \notin Services /\ NoCaller \notin Callers
  /\ MaxDeaths \in Nat

LaunchedJobs == {JobOf(c) : c \in Callers}

VARIABLES
  desktop,          \* the user is logged in to the desktop
  startedIn,         \* of each service: the session it was started in
  service,          \* where a service is
  serveLock,        \* who holds serve.lock
  socket,           \* what is at the path of the socket: "none", "file" or a service
  handoff,          \* of each request: what it will write
  caller,           \* where a request is
  dialogue,            \* of its connection: the service, what was written, the answer
  thread,           \* where the thread of the service for it is
  supervisor,       \* where the worker that was started for it is
  launchLock,       \* of each job: the request that holds its launch lock
  aliveLock,        \* of each job: the request whose worker holds its alive lock
  jobPhase,         \* of each job
  announced,        \* requests whose worker's readiness was read
  deaths

loginVars == <<desktop, startedIn, service, serveLock, socket, handoff, caller, dialogue, thread,
               supervisor, launchLock, aliveLock, jobPhase, announced, deaths>>
loginServiceVars == <<startedIn, service, serveLock, socket>>
jobVars == <<launchLock, aliveLock, jobPhase>>

Unconnected == [to |-> NoService, frame |-> "none", answer |-> "none"]

LoginInit ==
  /\ desktop \in BOOLEAN
  /\ startedIn \in [Services -> SessionKinds]
  /\ service = [s \in Services |-> "off"] /\ serveLock = NoService
  /\ socket \in {"none", "file"}
  /\ handoff \in [Callers -> HandoffKinds]
  /\ caller = [c \in Callers |-> "called"] /\ dialogue = [c \in Callers |-> Unconnected]
  /\ thread = [c \in Callers |-> "none"] /\ supervisor = [c \in Callers |-> "none"]
  /\ launchLock = [j \in LaunchedJobs |-> NoCaller]
  /\ aliveLock = [j \in LaunchedJobs |-> NoCaller]
  /\ jobPhase = [j \in LaunchedJobs |-> "accepted"]
  /\ announced = {} /\ deaths = 0

-----------------------------------------------------------------------------
\* start: only a service of the desktop session serves hand-offs.
AskManager(s) ==
  /\ service[s] = "off"
  /\ service' = [service EXCEPT ![s] = IF startedIn[s] = "Aqua" THEN "asked" ELSE "elsewhere"]
  /\ UNCHANGED <<desktop, startedIn, serveLock, socket, handoff, caller, dialogue, thread, supervisor,
                 jobVars, announced, deaths>>

\* bind: one service at a time.
TakeServeLock(s) ==
  /\ service[s] = "asked"
  /\ IF serveLock = NoService
     THEN serveLock' = s /\ service' = [service EXCEPT ![s] = "alone"]
     ELSE service' = [service EXCEPT ![s] = "refused"] /\ UNCHANGED serveLock
  /\ UNCHANGED <<desktop, startedIn, socket, handoff, caller, dialogue, thread, supervisor, jobVars,
                 announced, deaths>>

\* A socket that is left there goes; anything else ends the service.
ClearSocket(s) ==
  /\ service[s] = "alone"
  /\ IF socket = "file"
     THEN /\ service' = [service EXCEPT ![s] = "refused"] /\ serveLock' = NoService
          /\ UNCHANGED socket
     ELSE /\ service' = [service EXCEPT ![s] = "cleared"] /\ socket' = "none"
          /\ UNCHANGED serveLock
  /\ UNCHANGED <<desktop, startedIn, handoff, caller, dialogue, thread, supervisor, jobVars, announced,
                 deaths>>

BindSocket(s) ==
  /\ service[s] = "cleared"
  /\ IF socket = "none"
     THEN service' = [service EXCEPT ![s] = "listening"] /\ socket' = s /\ UNCHANGED serveLock
     ELSE /\ service' = [service EXCEPT ![s] = "refused"] /\ serveLock' = NoService
          /\ UNCHANGED socket
  /\ UNCHANGED <<desktop, startedIn, handoff, caller, dialogue, thread, supervisor, jobVars, announced,
                 deaths>>

-----------------------------------------------------------------------------
\* Store::status with the launch lock: a job whose worker is gone is lost.
Told(j) == IF jobPhase[j] \in {"starting", "running"} /\ aliveLock[j] = NoCaller
           THEN "lost" ELSE jobPhase[j]

\* Mistake: a job that no worker has taken up is left as it is.
LaunchFailedStarted(j) == IF jobPhase[j] = "starting" THEN "launch_failed" ELSE jobPhase[j]

\* finish_launch_failure.
LaunchFailed(j) == IF jobPhase[j] \in {"accepted", "starting"} THEN "launch_failed" ELSE jobPhase[j]

Free(j) == [launchLock EXCEPT ![j] = NoCaller]

\* start_worker_using: only an accepted job gets a worker.
TakeLaunchLock(c) ==
  LET j == JobOf(c)
  IN  /\ caller[c] = "called" /\ launchLock[j] = NoCaller
      /\ jobPhase' = [jobPhase EXCEPT ![j] = Told(j)]
      /\ IF jobPhase[j] = "accepted"
         THEN launchLock' = [launchLock EXCEPT ![j] = c] /\ caller' = [caller EXCEPT ![c] = "prepare"]
         ELSE caller' = [caller EXCEPT ![c] = "nothing"] /\ UNCHANGED launchLock
      /\ UNCHANGED <<desktop, loginServiceVars, handoff, dialogue, thread, supervisor, aliveLock, announced,
                     deaths>>

\* One step of the caller.
Steps(c, to) ==
  /\ caller' = [caller EXCEPT ![c] = to]
  /\ UNCHANGED <<desktop, loginServiceVars, handoff, thread, supervisor, jobVars, announced, deaths>>

\* wire::frame has a limit.
FitsFrame(c) == handoff[c] # "large"

\* PreparedHandoff::new, before anybody is asked.
PrepareHandoff(c) ==
  /\ caller[c] = "prepare"
  /\ Steps(c, IF FitsFrame(c) THEN "look" ELSE "refusing")
  /\ UNCHANGED dialogue

\* logged_in, and hand_off without a session.
CheckDesktop(c) ==
  /\ caller[c] = "look" /\ Steps(c, IF desktop THEN "connect" ELSE "refusing")
  /\ UNCHANGED dialogue

Listening == {s \in Services : service[s] = "listening" /\ socket = s}

\* The service accepts and gives the connection a thread of its own.
Connect(c) ==
  /\ caller[c] = "connect"
  /\ IF Listening = {}
     THEN Steps(c, "refusing") /\ UNCHANGED dialogue
     ELSE \E s \in Listening :
            /\ caller' = [caller EXCEPT ![c] = "write"]
            /\ dialogue' = [dialogue EXCEPT ![c].to = s]
            /\ thread' = [thread EXCEPT ![c] = "read"]
            /\ UNCHANGED <<desktop, loginServiceVars, handoff, supervisor, jobVars, announced, deaths>>

Ended(c) == thread[c] \in {"dead", "done"}

\* exchange_using: the frame, then the end of the writing half.
WriteFrame(c) ==
  \/ /\ caller[c] = "write" /\ ~Ended(c)
     /\ Steps(c, "half") /\ dialogue' = [dialogue EXCEPT ![c].frame = "half"]
  \/ /\ caller[c] = "half" /\ ~Ended(c)
     /\ Steps(c, "wait") /\ dialogue' = [dialogue EXCEPT ![c].frame = "whole"]
  \/ /\ caller[c] \in {"write", "half"} /\ Ended(c)
     /\ Steps(c, "refusing") /\ UNCHANGED dialogue

\* The answer, or the end of the connection without one.
ReadAnswer(c) ==
  /\ caller[c] = "wait" /\ (dialogue[c].answer # "none" \/ Ended(c))
  /\ caller' = [caller EXCEPT ![c] = IF dialogue[c].answer = "ready" THEN "started" ELSE "refusing"]
  /\ launchLock' = IF dialogue[c].answer = "ready" THEN Free(JobOf(c)) ELSE launchLock
  /\ UNCHANGED <<desktop, loginServiceVars, handoff, dialogue, thread, supervisor, aliveLock, jobPhase,
                 announced, deaths>>

\* The refusal is recorded and reported: refuses_submission.
RefuseSubmission(c) ==
  /\ caller[c] = "refusing"
  /\ caller' = [caller EXCEPT ![c] = "refused"]
  /\ jobPhase' = [jobPhase EXCEPT ![JobOf(c)] = LaunchFailed(JobOf(c))]
  /\ launchLock' = Free(JobOf(c))
  /\ UNCHANGED <<desktop, loginServiceVars, handoff, dialogue, thread, supervisor, aliveLock, announced, deaths>>

-----------------------------------------------------------------------------
\* worker_handoff::start: read, decode and validate, and only then launch.
Valid(c) == dialogue[c].frame = "whole" /\ handoff[c] = "good"
Readable(c) == dialogue[c].frame = "whole" \/ caller[c] \notin {"write", "half"}

ReceiveRequest(c) ==
  /\ thread[c] = "read" /\ Readable(c)
  /\ \/ /\ Valid(c)
        /\ thread' = [thread EXCEPT ![c] = "launch"]
        /\ supervisor' = [supervisor EXCEPT ![c] = "spawned"]
     \/ /\ Valid(c) \/ handoff[c] # "good" \/ dialogue[c].frame # "whole"
        /\ thread' = [thread EXCEPT ![c] = "refuse"] /\ UNCHANGED supervisor
  /\ UNCHANGED <<desktop, loginServiceVars, handoff, caller, dialogue, jobVars, announced, deaths>>

\* launch_worker_command: the ready byte, or the end of the worker's output.
AwaitReady(c) ==
  /\ thread[c] = "launch"
  /\ \/ c \in announced /\ thread' = [thread EXCEPT ![c] = "accept"]
     \/ /\ c \notin announced /\ supervisor[c] = "gone"
        /\ thread' = [thread EXCEPT ![c] = "refuse"]
  /\ UNCHANGED <<desktop, loginServiceVars, handoff, caller, dialogue, supervisor, jobVars, announced, deaths>>

\* reply::complete, to a caller that may be gone.
ReplyTo(c) ==
  /\ thread[c] \in {"accept", "refuse"}
  /\ thread' = [thread EXCEPT ![c] = "done"]
  /\ dialogue' = [dialogue EXCEPT ![c].answer = IF thread[c] = "accept" THEN "ready" ELSE "refused"]
  /\ UNCHANGED <<desktop, loginServiceVars, handoff, caller, supervisor, jobVars, announced, deaths>>

-----------------------------------------------------------------------------
\* run_worker_at_using: one worker, of an accepted job.
Attach(c) ==
  LET j == JobOf(c)
  IN  /\ supervisor[c] = "spawned"
      /\ IF aliveLock[j] = NoCaller /\ jobPhase[j] = "accepted"
         THEN /\ supervisor' = [supervisor EXCEPT ![c] = "attached"]
              /\ aliveLock' = [aliveLock EXCEPT ![j] = c]
              /\ jobPhase' = [jobPhase EXCEPT ![j] = "starting"]
         ELSE supervisor' = [supervisor EXCEPT ![c] = "gone"] /\ UNCHANGED <<aliveLock, jobPhase>>
      /\ UNCHANGED <<desktop, loginServiceVars, handoff, caller, dialogue, thread, launchLock, announced, deaths>>

Departs(c, left) ==
  /\ supervisor' = [supervisor EXCEPT ![c] = "gone"]
  /\ aliveLock' = [aliveLock EXCEPT ![JobOf(c)] = NoCaller]
  /\ jobPhase' = [jobPhase EXCEPT ![JobOf(c)] = left]

\* announce_ready: without a reader the worker gives up.
AnnounceReady(c) ==
  /\ supervisor[c] = "attached"
  /\ IF thread[c] = "launch"
     THEN /\ supervisor' = [supervisor EXCEPT ![c] = "ready"] /\ announced' = announced \cup {c}
          /\ UNCHANGED <<aliveLock, jobPhase>>
     ELSE Departs(c, LaunchFailed(JobOf(c))) /\ UNCHANGED announced
  /\ UNCHANGED <<desktop, loginServiceVars, handoff, caller, dialogue, thread, launchLock, deaths>>

\* run_logged_using: a command whose job has failed meanwhile is stopped again.
RunCommand(c) ==
  /\ supervisor[c] = "ready"
  /\ IF jobPhase[JobOf(c)] = "starting"
     THEN /\ supervisor' = [supervisor EXCEPT ![c] = "running"]
          /\ jobPhase' = [jobPhase EXCEPT ![JobOf(c)] = "running"] /\ UNCHANGED aliveLock
     ELSE Departs(c, LaunchFailed(JobOf(c)))
  /\ UNCHANGED <<desktop, loginServiceVars, handoff, caller, dialogue, thread, launchLock, announced, deaths>>

CommandEnds(c) ==
  /\ supervisor[c] = "running" /\ Departs(c, "ended")
  /\ UNCHANGED <<desktop, loginServiceVars, handoff, caller, dialogue, thread, launchLock, announced, deaths>>

-----------------------------------------------------------------------------
\* Deaths: of a service with all of its threads, of a caller, of a worker.
ServiceDies(s) ==
  /\ deaths < MaxDeaths /\ deaths' = deaths + 1
  /\ service[s] \in {"alone", "cleared", "listening"}
  /\ service' = [service EXCEPT ![s] = "dead"]
  /\ serveLock' = IF serveLock = s THEN NoService ELSE serveLock
  /\ thread' = [c \in Callers |-> IF dialogue[c].to = s /\ ~Ended(c) THEN "dead" ELSE thread[c]]
  /\ UNCHANGED <<desktop, startedIn, socket, handoff, caller, dialogue, supervisor, jobVars, announced>>

CallerDies(c) ==
  /\ deaths < MaxDeaths /\ deaths' = deaths + 1
  /\ caller[c] \notin {"called", "started", "refused", "nothing", "dead"}
  /\ caller' = [caller EXCEPT ![c] = "dead"] /\ launchLock' = Free(JobOf(c))
  /\ UNCHANGED <<desktop, loginServiceVars, handoff, dialogue, thread, supervisor, aliveLock, jobPhase, announced>>

WorkerDies(c) ==
  /\ deaths < MaxDeaths /\ deaths' = deaths + 1
  /\ supervisor[c] \in {"spawned", "attached", "ready", "running"}
  /\ supervisor' = [supervisor EXCEPT ![c] = "gone"]
  /\ aliveLock' = IF aliveLock[JobOf(c)] = c THEN [aliveLock EXCEPT ![JobOf(c)] = NoCaller] ELSE aliveLock
  /\ UNCHANGED <<desktop, loginServiceVars, handoff, caller, dialogue, thread, launchLock, jobPhase, announced>>

\* The user logs out or in.
DesktopChanges ==
  /\ deaths < MaxDeaths /\ deaths' = deaths + 1
  /\ desktop' = ~desktop
  /\ UNCHANGED <<loginServiceVars, handoff, caller, dialogue, thread, supervisor, jobVars, announced>>

LoginNext ==
  \/ \E s \in Services : \/ AskManager(s) \/ TakeServeLock(s) \/ ClearSocket(s) \/ BindSocket(s)
                         \/ ServiceDies(s)
  \/ \E c \in Callers :
       \/ TakeLaunchLock(c) \/ PrepareHandoff(c) \/ CheckDesktop(c) \/ Connect(c) \/ WriteFrame(c)
       \/ ReadAnswer(c) \/ RefuseSubmission(c)
       \/ ReceiveRequest(c) \/ AwaitReady(c) \/ ReplyTo(c)
       \/ Attach(c) \/ AnnounceReady(c) \/ RunCommand(c) \/ CommandEnds(c)
       \/ CallerDies(c) \/ WorkerDies(c)
  \/ DesktopChanges

LoginSpec == LoginInit /\ [][LoginNext]_loginVars

-----------------------------------------------------------------------------
Supervised(j) == {c \in Callers : JobOf(c) = j /\ supervisor[c] \in {"attached", "ready", "running"}}

(***************************************************************************)
(* A hand-off means what the caller is told.  A service that listens is    *)
(* the one at the path of the socket, however many start and die: nobody   *)
(* takes a live socket away (bind).  A caller that is told its worker is   *)
(* up had its readiness read by a service of the desktop session; a worker *)
(* is only started for a whole and valid request, and a job never has two  *)
(* (worker_handoff::start, launch_worker_command, worker_lock).  A caller  *)
(* that was refused leaves no job that could still be started: its job is  *)
(* over, unless its worker had reported and only the answer was lost       *)
(* (start_worker_using, finish_launch_failure).                            *)
(***************************************************************************)
LoginSound ==
  /\ \A s \in Services : service[s] = "listening" => socket = s /\ serveLock = s
  /\ \A c \in Callers :
       /\ caller[c] = "started" => c \in announced /\ startedIn[dialogue[c].to] = "Aqua"
       /\ supervisor[c] # "none" => Valid(c)
       /\ caller[c] = "refused" => jobPhase[JobOf(c)] \notin {"accepted", "starting"}
       /\ (caller[c] = "refused" /\ jobPhase[JobOf(c)] = "running") =>
            \E o \in announced : JobOf(o) = JobOf(c) /\ (thread[o] = "dead" \/ caller[o] = "dead")
  /\ \A j \in LaunchedJobs : Cardinality(Supervised(j)) <= 1
=============================================================================

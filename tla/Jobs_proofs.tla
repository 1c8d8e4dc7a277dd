----------------------------- MODULE Jobs_proofs -----------------------------
(***************************************************************************)
(* What the job store guarantees for any number of jobs, request processes *)
(* and workers.                                                            *)
(*                                                                         *)
(* Shape says what each process may be doing and holds whatever is         *)
(* submitted.  Sound is inductive as long as no submission returns after   *)
(* its record was removed: then a job has one record, a lock is a lock of  *)
(* that record, and the locks exclude what the code wants them to exclude. *)
(* Retained, about the records an admission removes, needs Shape only.     *)
(***************************************************************************)
EXTENDS Jobs, FiniteSetTheorems, WellFoundedInduction, TLAPS

\* A request process in these states holds the admission lock.
Sweeping == {"sweep", "drain", "rename"}

\* What a request process may be doing, by the request it serves.
ClientOK(c) ==
  /\ client[c].pc # "idle" => client[c].job \in Jobs
  /\ client[c].pc \in {"drain", "rename"} => client[c].victim \in Jobs \X {"record", "workspace"}
  /\ client[c].pc \in {"admission"} \cup Sweeping => client[c].op \in {"run", "clean", "sweep"}
  /\ client[c].pc \in {"open", "launch"} => client[c].op \in {"run", "status", "wait", "kill"}
  /\ client[c].pc \in {"spawn", "ready", "started", "refuse", "await"} =>
       client[c].op \in {"run", "status", "wait"}
  /\ client[c].pc = "ready" => client[c].worker \in Workers
  /\ client[c].pc \in Sweeping <=> admission = c

ClientShape == \A c \in Clients : ClientOK(c)

\* A worker beyond its start has a job that was published.
WorkerShape ==
  \A w \in Workers :
    /\ worker[w].pc # "idle" => worker[w].job \in Jobs
    /\ worker[w].pc \in Supervising => order[worker[w].job] # 0

\* A record has a number of its own, and a submission is published where there is none.
Numbered ==
  /\ \A j \in Jobs : order[j] <= sequence /\ (phase[j] # "absent" => order[j] # 0)
  /\ \A j, k \in Jobs : order[j] = order[k] /\ order[j] # 0 => j = k
  /\ \A c \in Clients : client[c].pc \in Sweeping /\ client[c].op = "run" => phase[client[c].job] = "absent"

\* Holds whatever is submitted.
Shape == TypeOK /\ ClientShape /\ WorkerShape /\ Numbered

-----------------------------------------------------------------------------
\* A lock that a process has open is a lock of its job's record.
LocksOf(c) ==
  /\ client[c].pc \in Sweeping /\ client[c].op = "run" => order[client[c].job] = 0
  /\ client[c].pc = "drain" => client[c].lock = order[client[c].victim[1]]
  /\ \/ client[c].pc \in {"launch", "spawn", "ready", "started", "refuse", "kill"}
     \/ client[c].pc \in {"wait", "held", "reply"} /\ client[c].op = "kill"
     => client[c].lock = order[client[c].job] /\ order[client[c].job] # 0
  /\ client[c].pc \in {"wait", "held"} => client[c].alive = order[client[c].job]

Locks ==
  /\ \A c \in Clients : LocksOf(c)
  /\ \A w \in Workers : worker[w].pc \in Supervising => worker[w].lock = order[worker[w].job]

\* A worker lock has one holder among the workers, a launch lock one among the requests.
Exclusive ==
  /\ \A v, w \in Workers :
       worker[v].pc \in Supervising /\ worker[w].pc \in Supervising /\ worker[v].job = worker[w].job
         => v = w
  /\ \A c, d \in Clients :
       HoldsLaunch(c) /\ HoldsLaunch(d) /\ client[c].lock = client[d].lock => c = d

\* A launcher waits for a worker of its job, or for one that is gone.
Link ==
  \A c \in Clients :
    client[c].pc = "ready" =>
      worker[client[c].worker].pc = "idle" \/ worker[client[c].worker].job = client[c].job

\* A published job that is no longer accepted.
Past(j) == order[j] # 0 /\ phase[j] # "accepted"

\* A job leaves "accepted" once, and those who rely on it come after that.
Passed ==
  /\ \A w \in Workers : worker[w].pc \in Supervising \ {"check", "begin"} => Past(worker[w].job)
  /\ \A c \in Clients : client[c].pc \in {"started", "await", "wait", "held"} => Past(client[c].job)

\* The command of a record was started once or not yet.
Unstarted ==
  /\ \A j \in Jobs : runs[j] = <<>> \/ runs[j] = <<order[j]>>
  /\ \A j \in Jobs : ~Past(j) => runs[j] = <<>>
  /\ \A w \in Workers : worker[w].pc \in {"begin", "announce", "admit", "prepare", "spawn"} => runs[worker[w].job] = <<>>

\* A worker that has announced itself or still has a launcher to announce itself to.
Attended(w) ==
  \/ Announced(w)
  \/ worker[w].pc = "announce" /\ \E c \in Clients : client[c].pc = "ready" /\ client[c].worker = w

\* The job of an attended worker is active, or its launch was recorded as failed, and
\* no kill is about to finish it.
Live ==
  \A w \in Workers : Attended(w) =>
    /\ phase[worker[w].job] \in Active \cup {"launch_failed"}
    /\ \A c \in Clients : client[c].pc = "kill" => client[c].job # worker[w].job

\* What is about to be removed has finished, and a worker that comes late only looks at it.
Removal ==
  \A c \in Clients :
    /\ client[c].pc \in {"drain", "rename"} => phase[client[c].victim[1]] \in Outcomes
    /\ client[c].pc = "rename" =>
         \A w \in Workers :
           worker[w].pc \in Supervising /\ worker[w].job = client[c].victim[1] => worker[w].pc = "check"

\* A supervised command has a worker that waits for it.
Supervised ==
  \A w \in Workers : command[w] \in {"bare", "running"} => worker[w].pc \in {"bare", "spawned", "wait"}

\* Inductive, together with Shape, as long as no submission returns.
Sound == Locks /\ Exclusive /\ Link /\ Passed /\ Unstarted /\ Live /\ Removal /\ Supervised

-----------------------------------------------------------------------------
\* What the assumption on the constants gives.
LEMMA Bounds ==
  /\ MaxSequence \in Nat /\ KeepFinished \in Nat /\ 0 \in 0 .. MaxSequence
  /\ "none" \notin Operations /\ NoClient \notin Clients /\ NoWorker \notin Workers /\ NoJob \notin Jobs
BY JobsAssumption

\* The empty store has its shape.
LEMMA InitShape == Init => Shape
<1> SUFFICES ASSUME Init PROVE Shape
  OBVIOUS
<1>1. Idle \in ClientStates /\ Gone \in WorkerStates
  BY Bounds DEF Idle, Gone, ClientStates, WorkerStates, Supervising
<1>2. TypeOK
  BY <1>1, Bounds DEF Init, TypeOK
<1>3. ClientShape /\ WorkerShape /\ Numbered
  BY Bounds DEF Init, ClientShape, ClientOK, WorkerShape, Numbered, Idle, Gone, Sweeping, Supervising
<1> QED
  BY <1>2, <1>3 DEF Shape

\* One request process changes.
OnlyClient(c) ==
  /\ client'[c] \in ClientStates
  /\ client' \in [Clients -> ClientStates]
  /\ \A d \in Clients \ {c} : client'[d] = client[d]

\* One worker changes.
OnlyWorker(w) ==
  /\ worker'[w] \in WorkerStates
  /\ worker' \in [Workers -> WorkerStates]
  /\ \A v \in Workers \ {w} : worker'[v] = worker[v]

\* Jobs go on: from accepted to active to an outcome.
Onward ==
  /\ phase' \in [Jobs -> Phases \cup {"absent"}]
  /\ \A j \in Jobs :
       \/ phase'[j] = phase[j]
       \/ phase[j] \in {"accepted"} \cup Active /\ phase'[j] \in Active \cup Outcomes

ClientPcs == {"idle", "admission", "sweep", "drain", "rename", "open", "launch", "spawn", "ready",
              "started", "refuse", "await", "wait", "held", "reply", "kill"}

\* The types of the fields of a request process.
LEMMA ClientFields ==
  ASSUME NEW p \in ClientStates
  PROVE  /\ p.pc \in ClientPcs /\ p.op \in Operations \cup {"none"} /\ p.job \in Jobs \cup {NoJob}
         /\ p.request \in Requests \cup {NoRequest}
         /\ p.lock \in 0 .. MaxSequence /\ p.alive \in 0 .. MaxSequence
         /\ p.worker \in Workers \cup {NoWorker}
         /\ p.todo \in SUBSET (Jobs \X {"record", "workspace"})
         /\ p.victim \in (Jobs \X {"record", "workspace"}) \cup {<<>>}
BY DEF ClientStates, ClientPcs

\* An update of one request process changes only that one.
LEMMA PutClient ==
  ASSUME TypeOK, NEW c \in Clients, NEW r \in ClientStates, client' = [client EXCEPT ![c] = r]
  PROVE  OnlyClient(c) /\ client'[c] = r
BY DEF TypeOK, OnlyClient

\* An update of one worker changes only that one.
LEMMA PutWorker ==
  ASSUME TypeOK, NEW w \in Workers, NEW r \in WorkerStates, worker' = [worker EXCEPT ![w] = r]
  PROVE  OnlyWorker(w) /\ worker'[w] = r
BY DEF TypeOK, OnlyWorker

\* A step of one request process.
ClientFrame(c) ==
  /\ OnlyClient(c) /\ Onward
  /\ UNCHANGED <<spec, order, sequence, worker, command, runs>>
  /\ cancel' \in [Jobs -> BOOLEAN] /\ workspace' \in [Jobs -> BOOLEAN]
  /\ admission' = admission \/ {admission, admission'} \subseteq {c, NoClient}
  /\ ClientOK(c)'
  /\ client'[c].pc \in Sweeping /\ client'[c].op = "run" => phase[client'[c].job] = "absent"

\* A step of one request process keeps Shape.
LEMMA ClientStep == ASSUME Shape, NEW c \in Clients, ClientFrame(c) PROVE Shape'
<1> USE DEF ClientFrame
<1>1. TypeOK'
  BY DEF Shape, TypeOK, OnlyClient, Onward
<1>2. ClientShape'
  <2> SUFFICES ASSUME NEW d \in Clients PROVE ClientOK(d)'
    BY DEF ClientShape
  <2>1. CASE d = c
    BY <2>1
  <2>2. CASE d # c
    BY <2>2, Bounds DEF Shape, ClientShape, ClientOK, OnlyClient
  <2> QED
    BY <2>1, <2>2
<1>3. WorkerShape'
  BY DEF Shape, WorkerShape
<1>4. Numbered'
  <2>1. \A d \in Clients : client'[d].pc \in Sweeping /\ client'[d].op = "run" => phase[client'[d].job] = "absent"
    BY DEF Shape, Numbered, OnlyClient
  <2>2. \A d \in Clients : client'[d].pc \in Sweeping => client'[d].job \in Jobs
    BY <1>2 DEF ClientShape, ClientOK, Sweeping
  <2>3. \A j \in Jobs : phase'[j] = "absent" <=> phase[j] = "absent"
    BY DEF Onward, Active, Outcomes
  <2> QED
    BY <2>1, <2>2, <2>3 DEF Shape, Numbered
<1> QED
  BY <1>1, <1>2, <1>3, <1>4 DEF Shape

\* What a step of one worker keeps.
LEMMA WorkerStep ==
  ASSUME Shape, NEW w \in Workers, OnlyWorker(w), Onward,
         UNCHANGED <<unmoved, client>>,
         command' \in [Workers -> {"none", "bare", "running", "ended", "orphan", "stray"}],
         runs' \in [Jobs -> Seq(1 .. MaxSequence)],
         worker'[w].pc # "idle" => worker'[w].job \in Jobs,
         worker'[w].pc \in Supervising => order[worker'[w].job] # 0
  PROVE  Shape'
<1> USE DEF unmoved
<1>1. TypeOK'
  BY DEF Shape, TypeOK, OnlyWorker, Onward
<1>2. ClientShape'
  BY DEF Shape, ClientShape, ClientOK
<1>3. WorkerShape'
  BY DEF Shape, WorkerShape, OnlyWorker
<1>4. Numbered'
  <2>1. \A j \in Jobs : phase'[j] = "absent" <=> phase[j] = "absent"
    BY DEF Onward, Active, Outcomes
  <2>2. \A d \in Clients : client[d].pc \in Sweeping => client[d].job \in Jobs
    BY DEF Shape, ClientShape, ClientOK, Sweeping
  <2> QED
    BY <2>1, <2>2 DEF Shape, Numbered
<1> QED
  BY <1>1, <1>2, <1>3, <1>4 DEF Shape

-----------------------------------------------------------------------------
(* What the helpers of the actions do. *)

\* A status is the state, or "lost" for an active job.
LEMMA StatusType ==
  ASSUME TypeOK, NEW j \in Jobs
  PROVE  /\ phase[j] \in Phases \cup {"absent"}
         /\ Status(j) \in Phases \cup {"absent"}
         /\ Status(j) = phase[j] \/ (phase[j] \in Active /\ Status(j) = "lost")
BY DEF TypeOK, Status, Phases, Outcomes

\* An event the code accepts takes an unfinished job onward.
LEMMA AdvanceType ==
  ASSUME NEW p, NEW event
  PROVE  \/ Advance(p, event) = "invalid"
         \/ /\ p \in {"accepted"} \cup Active
            /\ Advance(p, event) \in Active \cup Outcomes
BY DEF Advance, Active, Outcomes

\* A failed launch finishes a job that has not started, and nothing else.
LEMMA LaunchFailureType ==
  ASSUME TypeOK, NEW j \in Jobs
  PROVE  LaunchFailure(j) = phase[j] \/ (phase[j] \in {"accepted"} \cup Active /\ LaunchFailure(j) = "launch_failed")
BY DEF LaunchFailure, Active

\* The state of one job changes.
LEMMA BecomeOnward ==
  ASSUME TypeOK, NEW j, NEW p, Become(j, p),
         \/ p = phase[j]
         \/ phase[j] \in {"accepted"} \cup Active /\ p \in Active \cup Outcomes
  PROVE  Onward /\ (j \in Jobs => phase'[j] = p) /\ \A k \in Jobs \ {j} : phase'[k] = phase[k]
<1>1. phase \in [Jobs -> Phases \cup {"absent"}]
  BY DEF TypeOK
<1>2. CASE j \notin Jobs
  BY <1>1, <1>2 DEF Become, Onward
<1>3. CASE j \in Jobs
  <2>1. p \in Phases \cup {"absent"}
    BY <1>1, <1>3 DEF Phases
  <2> QED
    BY <1>1, <1>3, <2>1 DEF Become, Onward
<1> QED
  BY <1>2, <1>3

\* States that stay go nowhere else.
LEMMA StillOnward == ASSUME TypeOK, UNCHANGED phase PROVE Onward
BY DEF TypeOK, Onward

\* A request goes on with its job and its locks.
LEMMA MoveEffect ==
  ASSUME TypeOK, NEW c \in Clients, NEW pc \in ClientPcs, Move(c, pc)
  PROVE  /\ OnlyClient(c)
         /\ client'[c].pc = pc
         /\ client'[c].op = client[c].op /\ client'[c].job = client[c].job
         /\ client'[c].lock = client[c].lock /\ client'[c].alive = client[c].alive
         /\ client'[c].worker = client[c].worker
<1> DEFINE r == [client[c] EXCEPT !.pc = pc]
<1>1. client \in [Clients -> ClientStates] /\ client[c] \in ClientStates
  BY DEF TypeOK
<1>2. client' = [client EXCEPT ![c] = r]
  BY <1>1 DEF Move
<1>3. /\ r \in ClientStates
      /\ r.pc = pc /\ r.op = client[c].op /\ r.job = client[c].job
      /\ r.lock = client[c].lock /\ r.alive = client[c].alive /\ r.worker = client[c].worker
  BY <1>1 DEF ClientStates, ClientPcs
<1> HIDE DEF r
<1>4. OnlyClient(c) /\ client'[c] = r
  BY <1>2, <1>3, PutClient
<1> QED
  BY <1>3, <1>4

\* A process without a request is in a proper state.
LEMMA IdleType == Idle \in ClientStates /\ Idle.pc = "idle"
BY Bounds DEF Idle, ClientStates

\* A request is over.
LEMMA DoneEffect ==
  ASSUME TypeOK, NEW c \in Clients, Done(c)
  PROVE  OnlyClient(c) /\ client'[c].pc = "idle"
<1>1. client' = [client EXCEPT ![c] = Idle]
  BY DEF Done
<1>2. OnlyClient(c) /\ client'[c] = Idle
  BY <1>1, IdleType, PutClient
<1> QED
  BY <1>2, IdleType

\* A request that needs no worker, or has one, is answered or goes on to wait.
LEMMA AttachedEffect ==
  ASSUME TypeOK, NEW c \in Clients, Attached(c), client[c].op \in {"run", "status", "wait"}
  PROVE  \/ Done(c)
         \/ /\ OnlyClient(c)
            /\ client'[c].pc \in {"reply", "await"}
            /\ client'[c].op = client[c].op /\ client'[c].job = client[c].job
<1> DEFINE pc == AfterStart(client[c].op)
           r == [client[c] EXCEPT !.pc = pc, !.lock = 0, !.worker = NoWorker]
<1>1. pc \in {"idle", "reply", "await"}
  BY DEF AfterStart
<1>2. CASE Done(c)
  BY <1>2
<1>3. CASE pc # "idle" /\ client' = [client EXCEPT ![c].pc = pc, ![c].lock = 0, ![c].worker = NoWorker]
  <2> HIDE DEF pc
  <2>1. client \in [Clients -> ClientStates] /\ client[c] \in ClientStates
    BY DEF TypeOK
  <2>2. client' = [client EXCEPT ![c] = r]
    BY <1>3, <2>1
  <2>3. r \in ClientStates /\ r.pc = pc /\ r.op = client[c].op /\ r.job = client[c].job
    BY <1>1, <2>1, Bounds DEF ClientStates
  <2> HIDE DEF r
  <2>4. OnlyClient(c) /\ client'[c] = r
    BY <2>2, <2>3, PutClient
  <2> QED
    BY <1>1, <1>3, <2>3, <2>4
<1> QED
  BY <1>2, <1>3 DEF Attached

-----------------------------------------------------------------------------
(* What each request does to its process. *)

\* A request arrives: it asks for admission, or opens its record.
LEMMA ReceiveEffect ==
  ASSUME Shape, NEW c \in Clients, Receive(c)
  PROVE  /\ OnlyClient(c)
         /\ client'[c].job \in Jobs
         /\ \/ client'[c].pc = "admission" /\ client'[c].op \in {"run", "clean", "sweep"}
            \/ client'[c].pc = "open" /\ client'[c].op \in {"status", "wait", "kill"}
<1>1. PICK op \in Operations, j \in Jobs, r \in Requests :
        client' = [client EXCEPT ![c] =
          [Idle EXCEPT !.op = op, !.job = j,
                       !.request = IF op = "run" THEN r ELSE NoRequest,
                       !.pc = IF op \in {"run", "clean", "sweep"} THEN "admission" ELSE "open"]]
  BY DEF Receive
<1> DEFINE q == [Idle EXCEPT !.op = op, !.job = j,
                       !.request = IF op = "run" THEN r ELSE NoRequest,
                       !.pc = IF op \in {"run", "clean", "sweep"} THEN "admission" ELSE "open"]
<1>2. op \in {"run", "status", "wait", "kill", "clean", "sweep"}
  BY JobsAssumption
<1>3. /\ q \in ClientStates /\ q.job = j
      /\ \/ q.pc = "admission" /\ q.op \in {"run", "clean", "sweep"}
         \/ q.pc = "open" /\ q.op \in {"status", "wait", "kill"}
  BY <1>2, Bounds DEF Idle, ClientStates
<1> HIDE DEF q
<1>4. OnlyClient(c) /\ client'[c] = q
  BY <1>1, <1>3, PutClient DEF Shape, q
<1> QED
  BY <1>3, <1>4

\* A repeated submission attaches to its record or is refused.
LEMMA RepeatEffect ==
  ASSUME Shape, NEW c \in Clients, Repeat(c)
  PROVE  /\ OnlyClient(c)
         /\ \/ client'[c].pc = "open" /\ client'[c].op = "run" /\ client'[c].job = client[c].job
            \/ client'[c].pc = "idle"
<1>1. CASE Move(c, "open")
  BY <1>1, MoveEffect DEF Repeat, Shape, ClientPcs
<1>2. CASE Done(c)
  BY <1>2, DoneEffect DEF Shape
<1> QED
  BY <1>1, <1>2 DEF Repeat

\* An admission or a clean begins to sweep.
LEMMA SweepEffect ==
  ASSUME Shape, NEW c \in Clients, NEW todo \in SUBSET (Jobs \X {"record", "workspace"}),
         client' = [client EXCEPT ![c].pc = "sweep", ![c].todo = todo]
  PROVE  /\ OnlyClient(c)
         /\ client'[c].pc = "sweep" /\ client'[c].todo = todo
         /\ client'[c].op = client[c].op /\ client'[c].job = client[c].job
<1> DEFINE r == [client[c] EXCEPT !.pc = "sweep", !.todo = todo]
<1>1. client \in [Clients -> ClientStates] /\ client[c] \in ClientStates
  BY DEF Shape, TypeOK
<1>2. client' = [client EXCEPT ![c] = r]
  BY <1>1
<1>3. /\ r \in ClientStates
      /\ r.pc = "sweep" /\ r.todo = todo /\ r.op = client[c].op /\ r.job = client[c].job
  BY <1>1 DEF ClientStates
<1> HIDE DEF r
<1>4. OnlyClient(c) /\ client'[c] = r
  BY <1>2, <1>3, PutClient DEF Shape
<1> QED
  BY <1>3, <1>4

\* A reclaim names records and workspaces of jobs.
LEMMA ReclaimedType ==
  ASSUME NEW finished \in SUBSET Jobs
  PROVE  Reclaimed(finished) \in SUBSET (Jobs \X {"record", "workspace"})
<1> DEFINE newer(j) == Cardinality({k \in finished : order[k] > order[j]})
           records == {<<j, "record">> : j \in {k \in finished : newer(k) >= KeepFinished}}
           trees == {<<j, "workspace">> :
                       j \in {k \in finished : newer(k) >= KeepWorkspaces /\ newer(k) < KeepFinished}}
<1>1. Reclaimed(finished) = records \cup trees
  BY DEF Reclaimed
<1> HIDE DEF newer
<1>2. records \subseteq Jobs \X {"record", "workspace"}
  OBVIOUS
<1>3. trees \subseteq Jobs \X {"record", "workspace"}
  OBVIOUS
<1> HIDE DEF records, trees
<1> QED
  BY <1>1, <1>2, <1>3

\* A new submission sweeps what a reclaim of the states it found names.
LEMMA ReserveEffect ==
  ASSUME Shape, NEW c \in Clients, Reserve(c)
  PROVE  /\ OnlyClient(c) /\ Onward
         /\ client'[c].pc = "sweep" /\ client'[c].op = "run" /\ client'[c].job = client[c].job
         /\ client'[c].todo = Reclaimed({k \in Jobs : phase'[k] \in Outcomes})
         /\ \A k \in Jobs : phase'[k] = Status(k)
<1>1. phase' = [k \in Jobs |-> Status(k)]
  BY DEF Reserve
<1>2. Onward
  <2>1. \A k \in Jobs : /\ Status(k) \in Phases \cup {"absent"}
                        /\ Status(k) = phase[k] \/ (phase[k] \in Active /\ Status(k) = "lost")
    BY StatusType DEF Shape
  <2> QED
    BY <1>1, <2>1 DEF Onward, Outcomes
<1>3. {k \in Jobs : phase'[k] \in Outcomes} = {k \in Jobs : [i \in Jobs |-> Status(i)][k] \in Outcomes}
  BY <1>1
<1>4. Reclaimed({k \in Jobs : phase'[k] \in Outcomes}) \in SUBSET (Jobs \X {"record", "workspace"})
  BY ReclaimedType
<1>5. client' = [client EXCEPT ![c].pc = "sweep", ![c].todo = Reclaimed({k \in Jobs : phase'[k] \in Outcomes})]
  BY <1>3 DEF Reserve
<1>6. client[c].op = "run"
  BY DEF Reserve
<1> QED
  BY <1>1, <1>2, <1>4, <1>5, <1>6, SweepEffect

\* A clean begins to sweep, or finds no record.
LEMMA CleanEffect ==
  ASSUME Shape, NEW c \in Clients, Clean(c)
  PROVE  /\ OnlyClient(c)
         /\ \/ /\ client'[c].pc = "sweep" /\ client'[c].op = client[c].op
               /\ client'[c].job = client[c].job /\ admission' = c
            \/ client'[c].pc = "idle" /\ UNCHANGED admission
<1> DEFINE targets == IF client[c].op = "clean" THEN {client[c].job} ELSE Present
<1>1. CASE targets \subseteq Present /\ admission' = c
           /\ client' = [client EXCEPT ![c].pc = "sweep", ![c].todo = targets \X {"record"}]
  <2>1. targets \X {"record"} \in SUBSET (Jobs \X {"record", "workspace"})
    BY <1>1 DEF Present
  <2> HIDE DEF targets
  <2> QED
    BY <1>1, <2>1, SweepEffect
<1>2. CASE Done(c) /\ UNCHANGED admission
  BY <1>2, DoneEffect DEF Shape
<1> QED
  BY <1>1, <1>2 DEF Clean

\* One target is taken: it is to be drained, or skipped.
LEMMA SetAsideBeginEffect ==
  ASSUME Shape, NEW c \in Clients, SetAsideBegin(c)
  PROVE  /\ OnlyClient(c) /\ Onward
         /\ client'[c].op = client[c].op /\ client'[c].job = client[c].job
         /\ \E target \in client[c].todo :
              LET j == target[1] IN
              /\ target \in Jobs \X {"record", "workspace"} /\ j \in Jobs
              /\ LaunchFree(order[j]) /\ Become(j, Status(j))
              /\ client'[c].todo = client[c].todo \ {target}
              /\ \/ /\ client'[c].pc = "drain" /\ client'[c].lock = order[j]
                    /\ client'[c].victim = target /\ phase'[j] \in Outcomes
                 \/ client'[c].pc = "sweep"
<1>1. client \in [Clients -> ClientStates] /\ client[c] \in ClientStates /\ TypeOK
  BY DEF Shape, TypeOK
<1>2. client[c].todo \in SUBSET (Jobs \X {"record", "workspace"})
  BY <1>1, ClientFields
<1>3. PICK target \in client[c].todo :
        /\ LaunchFree(order[target[1]])
        /\ Become(target[1], Status(target[1]))
        /\ client' = IF Status(target[1]) \in Outcomes
                       THEN [client EXCEPT ![c].pc = "drain", ![c].lock = order[target[1]],
                                           ![c].victim = target, ![c].todo = client[c].todo \ {target}]
                       ELSE [client EXCEPT ![c].todo = client[c].todo \ {target}]
  BY DEF SetAsideBegin
<1> DEFINE j == target[1]
           rest == client[c].todo \ {target}
           d == [client[c] EXCEPT !.pc = "drain", !.lock = order[j], !.victim = target, !.todo = rest]
           s == [client[c] EXCEPT !.todo = rest]
<1>4. /\ target \in Jobs \X {"record", "workspace"} /\ j \in Jobs
      /\ rest \in SUBSET (Jobs \X {"record", "workspace"})
      /\ order[j] \in 0 .. MaxSequence
  BY <1>1, <1>2, <1>3 DEF TypeOK
<1>5. Onward /\ phase'[j] = Status(j)
  BY <1>1, <1>3, <1>4, StatusType, BecomeOnward DEF Outcomes
<1> HIDE DEF rest, j
<1>6. /\ d \in ClientStates /\ d.pc = "drain" /\ d.lock = order[j] /\ d.victim = target
      /\ d.todo = rest /\ d.op = client[c].op /\ d.job = client[c].job
  BY ZenonT(60), <1>1, <1>4 DEF ClientStates
<1>7. /\ s \in ClientStates /\ s.pc = client[c].pc
      /\ s.todo = rest /\ s.op = client[c].op /\ s.job = client[c].job
  BY <1>1, <1>4 DEF ClientStates
<1>8. client[c].pc = "sweep"
  BY DEF SetAsideBegin
<1>9. CASE Status(j) \in Outcomes
  <2>1. client' = [client EXCEPT ![c] = d]
    BY <1>1, <1>3, <1>9 DEF j, rest
  <2> HIDE DEF d
  <2>2. OnlyClient(c) /\ client'[c] = d
    BY <1>1, <1>6, <2>1, PutClient
  <2> QED
    BY <1>3, <1>4, <1>5, <1>6, <1>9, <2>2 DEF j, rest
<1>10. CASE Status(j) \notin Outcomes
  <2>1. client' = [client EXCEPT ![c] = s]
    BY <1>1, <1>3, <1>10 DEF j, rest
  <2> HIDE DEF s
  <2>2. OnlyClient(c) /\ client'[c] = s
    BY <1>1, <1>7, <2>1, PutClient
  <2> QED
    BY <1>3, <1>4, <1>5, <1>7, <1>8, <2>2 DEF j, rest
<1> QED
  BY <1>9, <1>10

\* The worker of the target has left.
LEMMA SetAsideDrainEffect ==
  ASSUME Shape, NEW c \in Clients, SetAsideDrain(c)
  PROVE  /\ OnlyClient(c)
         /\ client'[c].pc = "rename" /\ client'[c].victim = client[c].victim
         /\ client'[c].op = client[c].op /\ client'[c].job = client[c].job /\ client'[c].todo = client[c].todo
<1> DEFINE r == [client[c] EXCEPT !.pc = "rename", !.lock = 0]
<1>1. client \in [Clients -> ClientStates] /\ client[c] \in ClientStates
  BY DEF Shape, TypeOK
<1>2. client' = [client EXCEPT ![c] = r]
  BY <1>1 DEF SetAsideDrain
<1>3. /\ r \in ClientStates /\ r.pc = "rename" /\ r.victim = client[c].victim
      /\ r.op = client[c].op /\ r.job = client[c].job /\ r.todo = client[c].todo
  BY <1>1, Bounds DEF ClientStates
<1> HIDE DEF r
<1>4. OnlyClient(c) /\ client'[c] = r
  BY <1>2, <1>3, PutClient DEF Shape
<1> QED
  BY <1>3, <1>4

\* Back to the sweep after a rename.
LEMMA ResumeEffect ==
  ASSUME Shape, NEW c \in Clients,
         client' = [client EXCEPT ![c].pc = "sweep", ![c].victim = <<>>]
  PROVE  /\ OnlyClient(c)
         /\ client'[c].pc = "sweep" /\ client'[c].todo = client[c].todo
         /\ client'[c].op = client[c].op /\ client'[c].job = client[c].job
<1> DEFINE r == [client[c] EXCEPT !.pc = "sweep", !.victim = <<>>]
<1>1. client \in [Clients -> ClientStates] /\ client[c] \in ClientStates
  BY DEF Shape, TypeOK
<1>2. client' = [client EXCEPT ![c] = r]
  BY <1>1
<1>3. /\ r \in ClientStates
      /\ r.pc = "sweep" /\ r.todo = client[c].todo /\ r.op = client[c].op /\ r.job = client[c].job
  BY ZenonT(60), <1>1 DEF ClientStates
<1> HIDE DEF r
<1>4. OnlyClient(c) /\ client'[c] = r
  BY <1>2, <1>3, PutClient DEF Shape
<1> QED
  BY <1>3, <1>4

\* The process opens a lock and waits for it.
LEMMA OpenEffect ==
  ASSUME Shape, NEW c \in Clients, Open(c)
  PROVE  \/ Done(c)
         \/ /\ OnlyClient(c)
            /\ client'[c].pc = "launch" /\ client'[c].lock = order[client[c].job]
            /\ phase[client[c].job] # "absent"
            /\ client'[c].op = client[c].op /\ client'[c].job = client[c].job
<1> DEFINE j == client[c].job
           r == [client[c] EXCEPT !.pc = "launch", !.lock = order[j]]
<1>1. CASE Done(c)
  BY <1>1
<1>2. CASE phase[j] # "absent" /\ client' = [client EXCEPT ![c].pc = "launch", ![c].lock = order[j]]
  <2>1. client \in [Clients -> ClientStates] /\ client[c] \in ClientStates
    BY DEF Shape, TypeOK
  <2>2. client' = [client EXCEPT ![c] = r]
    BY <1>2, <2>1
  <2>3. j \in Jobs
    BY DEF Open, Shape, ClientShape, ClientOK
  <2>4. order[j] \in 0 .. MaxSequence
    BY <2>3 DEF Shape, TypeOK
  <2>5. /\ r \in ClientStates /\ r.pc = "launch" /\ r.lock = order[j]
        /\ r.op = client[c].op /\ r.job = client[c].job
    BY <2>1, <2>4 DEF ClientStates
  <2> HIDE DEF r
  <2>6. OnlyClient(c) /\ client'[c] = r
    BY <2>2, <2>5, PutClient DEF Shape
  <2> QED
    BY <1>2, <2>5, <2>6
<1> QED
  BY <1>1, <1>2 DEF Open

\* A request waits for the worker lock of its job's record.
LEMMA WaitEffect ==
  ASSUME Shape, NEW c \in Clients, client[c].job \in Jobs,
         client' = [client EXCEPT ![c].pc = "wait", ![c].alive = order[client[c].job]]
  PROVE  /\ OnlyClient(c)
         /\ client'[c].pc = "wait" /\ client'[c].alive = order[client[c].job]
         /\ client'[c].op = client[c].op /\ client'[c].job = client[c].job
         /\ client'[c].lock = client[c].lock
<1> DEFINE r == [client[c] EXCEPT !.pc = "wait", !.alive = order[client[c].job]]
<1>1. client \in [Clients -> ClientStates] /\ client[c] \in ClientStates
  BY DEF Shape, TypeOK
<1>2. client' = [client EXCEPT ![c] = r]
  BY <1>1
<1>3. order[client[c].job] \in 0 .. MaxSequence
  BY DEF Shape, TypeOK
<1>4. /\ r \in ClientStates /\ r.pc = "wait" /\ r.alive = order[client[c].job]
      /\ r.op = client[c].op /\ r.job = client[c].job /\ r.lock = client[c].lock
  BY <1>1, <1>3 DEF ClientStates
<1> HIDE DEF r
<1>5. OnlyClient(c) /\ client'[c] = r
  BY <1>2, <1>4, PutClient DEF Shape
<1> QED
  BY <1>4, <1>5

\* It gives the worker lock back.
LEMMA WaitDropEffect ==
  ASSUME Shape, NEW c \in Clients, WaitDrop(c)
  PROVE  /\ OnlyClient(c)
         /\ client'[c].pc = "reply" /\ client'[c].lock = client[c].lock
         /\ client'[c].op = client[c].op /\ client'[c].job = client[c].job
<1> DEFINE r == [client[c] EXCEPT !.pc = "reply", !.alive = 0]
<1>1. client \in [Clients -> ClientStates] /\ client[c] \in ClientStates
  BY DEF Shape, TypeOK
<1>2. client' = [client EXCEPT ![c] = r]
  BY <1>1 DEF WaitDrop
<1>3. /\ r \in ClientStates /\ r.pc = "reply" /\ r.lock = client[c].lock
      /\ r.op = client[c].op /\ r.job = client[c].job
  BY <1>1, Bounds DEF ClientStates
<1> HIDE DEF r
<1>4. OnlyClient(c) /\ client'[c] = r
  BY <1>2, <1>3, PutClient DEF Shape
<1> QED
  BY <1>3, <1>4

-----------------------------------------------------------------------------
(* What a step of one request process leaves sound. *)

\* The state of a job is kept, looked at, or finished as a failed launch.
Seen == \A j \in Jobs : phase'[j] \in {phase[j], Status(j), LaunchFailure(j)}

\* The same in the next state.
PastNext(j) == order'[j] # 0 /\ phase'[j] # "accepted"

\* What a step of a request process must respect for Sound to survive it.
ClientSafe(c) ==
  /\ LocksOf(c)'
  /\ HoldsLaunch(c)' => (HoldsLaunch(c) /\ client'[c].lock = client[c].lock) \/ LaunchFree(client'[c].lock)
  /\ client'[c].pc # "ready"
  /\ client'[c].pc \in {"started", "await", "wait", "held"} => PastNext(client'[c].job)
  /\ \A w \in Workers : Attended(w) => phase'[worker[w].job] \in Active \cup {"launch_failed"}
  /\ client'[c].pc = "kill" => phase'[client'[c].job] = "accepted"
  /\ client'[c].pc \in {"drain", "rename"} => phase'[client'[c].victim[1]] \in Outcomes
  /\ client'[c].pc = "rename" =>
       \A w \in Workers :
         worker[w].pc \in Supervising /\ worker[w].job = client'[c].victim[1] => worker[w].pc = "check"

\* Whoever is past "accepted" stays so.
LEMMA PastStays ==
  ASSUME Shape, NEW j \in Jobs, Past(j), Onward, UNCHANGED order
  PROVE  PastNext(j)
BY DEF Past, PastNext, Onward, Active, Outcomes

\* An outcome is final.
LEMMA OutcomeStays ==
  ASSUME NEW j \in Jobs, phase[j] \in Outcomes, Onward
  PROVE  phase'[j] = phase[j]
BY DEF Onward, Active, Outcomes

\* A step of one request process that respects what it must keeps Sound.
LEMMA ClientKeeps ==
  ASSUME Shape, Shape', Sound, NEW c \in Clients, ClientFrame(c), ClientSafe(c)
  PROVE  Sound'
<1>1. /\ OnlyClient(c) /\ Onward /\ UNCHANGED <<order, worker, command, runs>>
      /\ \A d \in Clients \ {c} : client'[d] = client[d]
  BY DEF ClientFrame, OnlyClient
<1>2. Locks'
  <2>1. ASSUME NEW d \in Clients PROVE LocksOf(d)'
    <3>1. CASE d = c
      BY <3>1 DEF ClientSafe
    <3>2. CASE d # c
      BY <1>1, <3>2 DEF Sound, Locks, LocksOf
    <3> QED
      BY <3>1, <3>2
  <2>2. \A w \in Workers : worker'[w].pc \in Supervising => worker'[w].lock = order'[worker'[w].job]
    BY <1>1 DEF Sound, Locks
  <2> QED
    BY <2>1, <2>2 DEF Locks
<1>3. Exclusive'
  <2>1. ASSUME NEW d \in Clients \ {c}, HoldsLaunch(c)', HoldsLaunch(d)', client'[c].lock = client'[d].lock
        PROVE  FALSE
    <3>1. HoldsLaunch(d) /\ client[d].lock = client'[c].lock
      BY <1>1, <2>1 DEF HoldsLaunch
    <3>2. ~LaunchFree(client'[c].lock)
      BY <3>1 DEF LaunchFree
    <3> QED
      BY <2>1, <3>1, <3>2 DEF ClientSafe, Sound, Exclusive
  <2>2. ASSUME NEW d \in Clients \ {c}, NEW e \in Clients \ {c}, HoldsLaunch(e)', HoldsLaunch(d)',
               client'[e].lock = client'[d].lock
        PROVE  e = d
    BY <1>1, <2>2 DEF HoldsLaunch, Sound, Exclusive
  <2>3. \A v, w \in Workers :
          worker'[v].pc \in Supervising /\ worker'[w].pc \in Supervising /\ worker'[v].job = worker'[w].job
            => v = w
    BY <1>1 DEF Sound, Exclusive
  <2> QED
    BY <2>1, <2>2, <2>3 DEF Exclusive
<1>4. Link'
  BY <1>1 DEF Sound, Link, ClientSafe
<1>5. Passed'
  <2>1. ASSUME NEW w \in Workers, worker'[w].pc \in Supervising \ {"check", "begin"}
        PROVE  PastNext(worker'[w].job)
    <3>1. worker[w].job \in Jobs /\ Past(worker[w].job)
      BY <1>1, <2>1 DEF Sound, Passed, Shape, WorkerShape, Supervising
    <3> QED
      BY <1>1, <3>1, PastStays
  <2>2. ASSUME NEW d \in Clients, client'[d].pc \in {"started", "await", "wait", "held"}
        PROVE  PastNext(client'[d].job)
    <3>1. CASE d = c
      BY <2>2, <3>1 DEF ClientSafe
    <3>2. CASE d # c
      <4>1. client[d].job \in Jobs /\ Past(client[d].job)
        BY <1>1, <2>2, <3>2 DEF Sound, Passed, Shape, ClientShape, ClientOK
      <4> QED
        BY <1>1, <3>2, <4>1, PastStays
    <3> QED
      BY <3>1, <3>2
  <2> QED
    BY <2>1, <2>2 DEF Passed, Past, PastNext
<1>6. Unstarted'
  <2>1. \A j \in Jobs : ~PastNext(j) => ~Past(j)
    BY <1>1, PastStays
  <2> QED
    BY <1>1, <2>1 DEF Sound, Unstarted, Past, PastNext
<1>7. Live'
  <2> SUFFICES ASSUME NEW w \in Workers, Attended(w)'
               PROVE  /\ phase'[worker'[w].job] \in Active \cup {"launch_failed"}
                      /\ \A d \in Clients : client'[d].pc = "kill" => client'[d].job # worker'[w].job
    BY DEF Live
  <2>1. Attended(w)
    BY <1>1 DEF Attended, Announced, ClientSafe
  <2>2. phase'[worker[w].job] \in Active \cup {"launch_failed"}
    BY <2>1 DEF ClientSafe
  <2>3. \A d \in Clients \ {c} : client[d].pc = "kill" => client[d].job # worker[w].job
    BY <2>1 DEF Sound, Live
  <2>4. client'[c].pc = "kill" => client'[c].job # worker[w].job
    BY <2>2 DEF ClientSafe, Active
  <2> QED
    BY <1>1, <2>2, <2>3, <2>4
<1>8. Removal'
  <2> SUFFICES ASSUME NEW d \in Clients
               PROVE  /\ client'[d].pc \in {"drain", "rename"} => phase'[client'[d].victim[1]] \in Outcomes
                      /\ client'[d].pc = "rename" =>
                           \A w \in Workers :
                             worker'[w].pc \in Supervising /\ worker'[w].job = client'[d].victim[1]
                               => worker'[w].pc = "check"
    BY DEF Removal
  <2>1. CASE d = c
    BY <1>1, <2>1 DEF ClientSafe
  <2>2. CASE d # c
    <3>1. client[d].pc \in {"drain", "rename"} => client[d].victim[1] \in Jobs
      BY DEF Shape, ClientShape, ClientOK
    <3>2. client[d].pc \in {"drain", "rename"} => phase'[client[d].victim[1]] \in Outcomes
      BY <1>1, <3>1, OutcomeStays DEF Sound, Removal
    <3> QED
      BY <1>1, <2>2, <3>2 DEF Sound, Removal
  <2> QED
    BY <2>1, <2>2
<1>9. Supervised'
  BY <1>1 DEF Sound, Supervised
<1> QED
  BY <1>2, <1>3, <1>4, <1>5, <1>6, <1>7, <1>8, <1>9 DEF Sound

\* A worker that supervises keeps the lock of its job, so nobody finds the job lost.
LEMMA SupervisedStatus ==
  ASSUME Sound, NEW w \in Workers, worker[w].pc \in Supervising
  PROVE  Status(worker[w].job) = phase[worker[w].job]
<1>1. worker[w].lock = order[worker[w].job]
  BY DEF Sound, Locks
<1> QED
  BY <1>1 DEF Status, AliveFree

\* Looking at jobs and failed launches leave an attended job as it must be.
LEMMA SeenLive ==
  ASSUME Shape, Sound, Seen, NEW w \in Workers, Attended(w)
  PROVE  phase'[worker[w].job] \in Active \cup {"launch_failed"}
<1>1. worker[w].pc \in Supervising
  BY DEF Attended, Announced, Supervising
<1>2. worker[w].job \in Jobs
  BY <1>1 DEF Shape, WorkerShape, Supervising
<1>3. Status(worker[w].job) = phase[worker[w].job]
  BY <1>1, SupervisedStatus
<1>4. phase[worker[w].job] \in Active \cup {"launch_failed"}
  BY DEF Sound, Live
<1> QED
  BY <1>2, <1>3, <1>4 DEF Seen, LaunchFailure

\* The state of one job becomes what somebody found.
LEMMA BecomeSeen ==
  ASSUME TypeOK, NEW j \in Jobs, NEW p \in {phase[j], Status(j), LaunchFailure(j)}, Become(j, p)
  PROVE  Onward /\ Seen /\ phase'[j] = p
<1>1. p = phase[j] \/ (phase[j] \in {"accepted"} \cup Active /\ p \in Active \cup Outcomes)
  BY StatusType, LaunchFailureType DEF Outcomes
<1>2. Onward /\ phase'[j] = p /\ \A k \in Jobs \ {j} : phase'[k] = phase[k]
  BY <1>1, BecomeOnward
<1> QED
  BY <1>2 DEF Seen

\* States that stay have been looked at.
LEMMA StillSeen == ASSUME TypeOK, UNCHANGED phase PROVE Onward /\ Seen
BY StillOnward DEF Seen

-----------------------------------------------------------------------------
(* Every step of a request process keeps Shape and Sound. *)

\* The fields every step of a request process leaves alone.
LEMMA FrameOf ==
  ASSUME Shape, NEW c \in Clients, OnlyClient(c), Onward,
         UNCHANGED <<spec, order, cancel, workspace, sequence, worker, command, runs>>,
         admission' = admission \/ {admission, admission'} \subseteq {c, NoClient},
         ClientOK(c)',
         client'[c].pc \in Sweeping /\ client'[c].op = "run" => phase[client'[c].job] = "absent"
  PROVE  ClientFrame(c)
BY DEF ClientFrame, Shape, TypeOK

\* A request is answered, or its process dies.
Leaves(c) ==
  /\ OnlyClient(c) /\ client'[c].pc = "idle" /\ Onward
  /\ UNCHANGED <<spec, order, workspace, sequence, worker, command, runs>>
  /\ cancel' \in [Jobs -> BOOLEAN]
  /\ admission' = IF admission = c THEN NoClient ELSE admission

\* It leaves nothing behind.
LEMMA LeaverKeeps ==
  ASSUME Shape, NEW c \in Clients, Leaves(c)
  PROVE  /\ Shape'
         /\ Sound /\ (\A w \in Workers : Attended(w) => phase'[worker[w].job] \in Active \cup {"launch_failed"})
              => Sound'
<1>1. ClientOK(c)'
  BY Bounds DEF Leaves, ClientOK, Sweeping
<1>2. ClientFrame(c)
  BY <1>1 DEF Leaves, ClientFrame, Shape, TypeOK, Sweeping
<1>3. Shape'
  BY <1>2, ClientStep
<1>4. ASSUME Sound,
             \A w \in Workers : Attended(w) => phase'[worker[w].job] \in Active \cup {"launch_failed"}
      PROVE  Sound'
  <2>1. ClientSafe(c)
    BY <1>4 DEF Leaves, ClientSafe, LocksOf, HoldsLaunch, Sweeping
  <2> QED
    BY <1>2, <1>3, <1>4, <2>1, ClientKeeps
<1> QED
  BY <1>3, <1>4

\* A request goes on, outside the admission lock.
Goes(c) ==
  /\ OnlyClient(c) /\ Onward /\ Seen
  /\ UNCHANGED <<spec, order, workspace, sequence, admission, worker, command, runs>>
  /\ cancel' \in [Jobs -> BOOLEAN]
  /\ client[c].pc \notin Sweeping \cup {"idle"}
  /\ client'[c].pc \notin Sweeping \cup {"idle", "admission", "ready"}
  /\ client'[c].job = client[c].job /\ client'[c].op = client[c].op
  /\ client'[c].pc \in {"open", "launch"} => client[c].op \in {"run", "status", "wait", "kill"}
  /\ client'[c].pc \in {"spawn", "started", "refuse", "await"} => client[c].op \in {"run", "status", "wait"}

\* What the step of a request that goes on must respect.
GoesSafe(c) ==
  /\ LocksOf(c)'
  /\ HoldsLaunch(c)' => (HoldsLaunch(c) /\ client'[c].lock = client[c].lock) \/ LaunchFree(client'[c].lock)
  /\ client'[c].pc \in {"started", "await", "wait", "held"} => PastNext(client[c].job)
  /\ client'[c].pc = "kill" => phase'[client[c].job] = "accepted"

\* A request that goes on keeps Shape, and Sound when its locks allow the step.
LEMMA GoerKeeps ==
  ASSUME Shape, NEW c \in Clients, Goes(c)
  PROVE  Shape' /\ (Sound /\ GoesSafe(c) => Sound')
<1>1. ClientOK(c)'
  BY DEF Goes, ClientOK, Sweeping, Shape, ClientShape
<1>2. ClientFrame(c)
  BY <1>1 DEF Goes, ClientFrame, Shape, TypeOK
<1>3. Shape'
  BY <1>2, ClientStep
<1>4. ASSUME Sound, GoesSafe(c) PROVE Sound'
  <2>1. \A w \in Workers : Attended(w) => phase'[worker[w].job] \in Active \cup {"launch_failed"}
    BY <1>4, SeenLive DEF Goes
  <2>2. PastNext(client[c].job) = PastNext(client'[c].job)
    BY DEF Goes
  <2>3. ClientSafe(c)
    BY <1>4, <2>1, <2>2 DEF Goes, GoesSafe, ClientSafe, Sweeping
  <2> QED
    BY <1>2, <1>3, <1>4, <2>3, ClientKeeps
<1> QED
  BY <1>3, <1>4

\* A request process that does not sweep does not hold the admission lock.
LEMMA NoAdmission ==
  ASSUME Shape, NEW c \in Clients, client[c].pc \notin Sweeping
  PROVE  admission # c
BY DEF Shape, ClientShape, ClientOK

\* An arriving request holds nothing yet.
LEMMA ReceiveKeeps ==
  ASSUME Shape, NEW c \in Clients, Receive(c)
  PROVE  Shape' /\ (Sound => Sound')
<1>1. /\ OnlyClient(c) /\ client'[c].job \in Jobs
      /\ \/ client'[c].pc = "admission" /\ client'[c].op \in {"run", "clean", "sweep"}
         \/ client'[c].pc = "open" /\ client'[c].op \in {"status", "wait", "kill"}
  BY ReceiveEffect
<1>2. /\ UNCHANGED <<phase, spec, order, cancel, workspace, sequence, admission, worker, command, runs>>
      /\ client[c].pc = "idle"
  BY DEF Receive, record
<1>3. Onward /\ Seen
  BY <1>2, StillSeen DEF Shape
<1>4. ClientOK(c)'
  BY <1>1, <1>2, NoAdmission DEF ClientOK, Sweeping
<1>5. ClientFrame(c)
  BY <1>1, <1>2, <1>3, <1>4, FrameOf DEF Sweeping
<1>6. Shape'
  BY <1>5, ClientStep
<1>7. ASSUME Sound PROVE Sound'
  <2>1. \A w \in Workers : Attended(w) => phase'[worker[w].job] \in Active \cup {"launch_failed"}
    BY <1>3, <1>7, SeenLive
  <2>2. ClientSafe(c)
    BY <1>1, <2>1 DEF ClientSafe, LocksOf, HoldsLaunch, Sweeping
  <2> QED
    BY <1>5, <1>6, <1>7, <2>2, ClientKeeps
<1> QED
  BY <1>6, <1>7

\* A repeated submission holds nothing yet.
LEMMA RepeatKeeps ==
  ASSUME Shape, NEW c \in Clients, Repeat(c)
  PROVE  Shape' /\ (Sound => Sound')
<1>1. /\ OnlyClient(c)
      /\ \/ client'[c].pc = "open" /\ client'[c].op = "run" /\ client'[c].job = client[c].job
         \/ client'[c].pc = "idle"
  BY RepeatEffect
<1>2. /\ UNCHANGED <<phase, spec, order, cancel, workspace, sequence, admission, worker, command, runs>>
      /\ client[c].pc = "admission"
  BY DEF Repeat, record
<1>3. Onward /\ Seen
  BY <1>2, StillSeen DEF Shape
<1>4. ClientOK(c)'
  BY <1>1, <1>2, NoAdmission DEF ClientOK, Sweeping, Shape, ClientShape
<1>5. ClientFrame(c)
  BY <1>1, <1>2, <1>3, <1>4, FrameOf DEF Sweeping
<1>6. Shape'
  BY <1>5, ClientStep
<1>7. ASSUME Sound PROVE Sound'
  <2>1. \A w \in Workers : Attended(w) => phase'[worker[w].job] \in Active \cup {"launch_failed"}
    BY <1>3, <1>7, SeenLive
  <2>2. ClientSafe(c)
    BY <1>1, <2>1 DEF ClientSafe, LocksOf, HoldsLaunch, Sweeping
  <2> QED
    BY <1>5, <1>6, <1>7, <2>2, ClientKeeps
<1> QED
  BY <1>6, <1>7

\* Sound needs that the submission had no record before.
LEMMA ReserveKeeps ==
  ASSUME Shape, NEW c \in Clients, Reserve(c)
  PROVE  Shape' /\ (Sound /\ ~Resubmitted => Sound')
<1>1. /\ OnlyClient(c) /\ Onward /\ client'[c].pc = "sweep" /\ client'[c].op = "run"
      /\ client'[c].job = client[c].job
      /\ \A k \in Jobs : phase'[k] = Status(k)
  BY ReserveEffect
<1>2. /\ UNCHANGED <<spec, order, cancel, workspace, sequence, worker, command, runs>>
      /\ client[c].pc = "admission" /\ admission = NoClient /\ admission' = c
      /\ phase[client[c].job] = "absent" /\ (Resubmitted \/ order[client[c].job] = 0)
  BY DEF Reserve
<1>3. Seen
  BY <1>1 DEF Seen
<1>4. ClientOK(c)'
  BY <1>1, <1>2 DEF ClientOK, Sweeping, Shape, ClientShape
<1>5. ClientFrame(c)
  BY <1>1, <1>2, <1>4, FrameOf
<1>6. Shape'
  BY <1>5, ClientStep
<1>7. ASSUME Sound, ~Resubmitted PROVE Sound'
  <2>1. \A w \in Workers : Attended(w) => phase'[worker[w].job] \in Active \cup {"launch_failed"}
    BY <1>3, <1>7, SeenLive
  <2>2. ClientSafe(c)
    BY <1>1, <1>2, <1>7, <2>1 DEF ClientSafe, LocksOf, HoldsLaunch, Sweeping
  <2> QED
    BY <1>5, <1>6, <1>7, <2>2, ClientKeeps
<1> QED
  BY <1>6, <1>7

\* A clean takes the admission lock and nothing else.
LEMMA CleanKeeps ==
  ASSUME Shape, NEW c \in Clients, Clean(c)
  PROVE  Shape' /\ (Sound => Sound')
<1>1. /\ OnlyClient(c)
      /\ \/ /\ client'[c].pc = "sweep" /\ client'[c].op = client[c].op
            /\ client'[c].job = client[c].job /\ admission' = c
         \/ client'[c].pc = "idle" /\ UNCHANGED admission
  BY CleanEffect
<1>2. /\ UNCHANGED <<phase, spec, order, cancel, workspace, sequence, worker, command, runs>>
      /\ client[c].pc = "admission" /\ client[c].op \in {"clean", "sweep"} /\ admission = NoClient
  BY DEF Clean, record
<1>3. Onward /\ Seen
  BY <1>2, StillSeen DEF Shape
<1>4. ClientOK(c)'
  BY <1>1, <1>2, Bounds DEF ClientOK, Sweeping, Shape, ClientShape
<1>5. ClientFrame(c)
  BY <1>1, <1>2, <1>3, <1>4, FrameOf DEF Sweeping
<1>6. Shape'
  BY <1>5, ClientStep
<1>7. ASSUME Sound PROVE Sound'
  <2>1. \A w \in Workers : Attended(w) => phase'[worker[w].job] \in Active \cup {"launch_failed"}
    BY <1>3, <1>7, SeenLive
  <2>2. ClientSafe(c)
    BY <1>1, <1>2, <2>1 DEF ClientSafe, LocksOf, HoldsLaunch, Sweeping
  <2> QED
    BY <1>5, <1>6, <1>7, <2>2, ClientKeeps
<1> QED
  BY <1>6, <1>7

\* The launch lock is free, and the job has finished, before the drain begins.
LEMMA SetAsideBeginKeeps ==
  ASSUME Shape, NEW c \in Clients, SetAsideBegin(c)
  PROVE  Shape' /\ (Sound => Sound')
<1>1. OnlyClient(c) /\ Onward /\ client'[c].op = client[c].op /\ client'[c].job = client[c].job
  BY SetAsideBeginEffect
<1>2. PICK target \in client[c].todo :
              /\ target \in Jobs \X {"record", "workspace"} /\ target[1] \in Jobs
              /\ LaunchFree(order[target[1]]) /\ Become(target[1], Status(target[1]))
              /\ \/ /\ client'[c].pc = "drain" /\ client'[c].lock = order[target[1]]
                    /\ client'[c].victim = target /\ phase'[target[1]] \in Outcomes
                 \/ client'[c].pc = "sweep"
  BY SetAsideBeginEffect
<1>3. /\ UNCHANGED <<spec, order, cancel, workspace, sequence, admission, worker, command, runs>>
      /\ client[c].pc = "sweep"
  BY DEF SetAsideBegin
<1>4. Seen
  BY <1>2, BecomeSeen DEF Shape
<1>5. ClientOK(c)'
  BY <1>1, <1>2, <1>3 DEF ClientOK, Sweeping, Shape, ClientShape
<1>6. client[c].op = "run" => phase[client[c].job] = "absent"
  BY <1>3 DEF Shape, Numbered, Sweeping
<1>7. ClientFrame(c)
  BY <1>1, <1>3, <1>5, <1>6, FrameOf
<1>8. Shape'
  BY <1>7, ClientStep
<1>9. ASSUME Sound PROVE Sound'
  <2>1. \A w \in Workers : Attended(w) => phase'[worker[w].job] \in Active \cup {"launch_failed"}
    BY <1>4, <1>9, SeenLive
  <2>2. LocksOf(c)
    BY <1>9 DEF Sound, Locks
  <2>3. ClientSafe(c)
    BY <1>1, <1>2, <1>3, <2>1, <2>2 DEF ClientSafe, LocksOf, HoldsLaunch, Sweeping
  <2> QED
    BY <1>7, <1>8, <1>9, <2>3, ClientKeeps
<1> QED
  BY <1>8, <1>9

\* With the worker lock free, nobody supervises the victim.
LEMMA SetAsideDrainKeeps ==
  ASSUME Shape, NEW c \in Clients, SetAsideDrain(c)
  PROVE  Shape' /\ (Sound => Sound')
<1>1. /\ OnlyClient(c) /\ client'[c].pc = "rename" /\ client'[c].victim = client[c].victim
      /\ client'[c].op = client[c].op /\ client'[c].job = client[c].job
  BY SetAsideDrainEffect
<1>2. /\ UNCHANGED <<phase, spec, order, cancel, workspace, sequence, admission, worker, command, runs>>
      /\ client[c].pc = "drain" /\ AliveFree(client[c].lock)
  BY DEF SetAsideDrain, record
<1>3. Onward /\ Seen
  BY <1>2, StillSeen DEF Shape
<1>4. ClientOK(c)'
  BY <1>1, <1>2 DEF ClientOK, Sweeping, Shape, ClientShape
<1>5. client[c].op = "run" => phase[client[c].job] = "absent"
  BY <1>2 DEF Shape, Numbered, Sweeping
<1>6. ClientFrame(c)
  BY <1>1, <1>2, <1>3, <1>4, <1>5, FrameOf
<1>7. Shape'
  BY <1>6, ClientStep
<1>8. ASSUME Sound PROVE Sound'
  <2>1. \A w \in Workers : Attended(w) => phase'[worker[w].job] \in Active \cup {"launch_failed"}
    BY <1>3, <1>8, SeenLive
  <2>2. LocksOf(c) /\ \A w \in Workers : worker[w].pc \in Supervising => worker[w].lock = order[worker[w].job]
    BY <1>8 DEF Sound, Locks
  <2>3. \A w \in Workers : worker[w].lock # order[client[c].victim[1]]
    BY <1>2, <2>2 DEF LocksOf, AliveFree
  <2>4. phase[client[c].victim[1]] \in Outcomes
    BY <1>2, <1>8 DEF Sound, Removal
  <2>5. LocksOf(c)'
    BY <1>1, <1>2, <2>2 DEF LocksOf, Sweeping
  <2>6. ClientSafe(c)
    BY <1>1, <1>2, <2>1, <2>2, <2>3, <2>4, <2>5 DEF ClientSafe, HoldsLaunch
  <2> QED
    BY <1>6, <1>7, <1>8, <2>6, ClientKeeps
<1> QED
  BY <1>7, <1>8

\* A rename that fails leaves the record as it was.
LEMMA SetAsideFailsKeeps ==
  ASSUME Shape, NEW c \in Clients, SetAsideFails(c)
  PROVE  Shape' /\ (Sound => Sound')
<1>1. /\ UNCHANGED <<phase, spec, order, cancel, workspace, sequence, worker, command, runs>>
      /\ client[c].pc = "rename"
  BY DEF SetAsideFails, record
<1>2. Onward /\ Seen
  BY <1>1, StillSeen DEF Shape
<1>3. admission = c
  BY <1>1 DEF Shape, ClientShape, ClientOK, Sweeping
<1>4. Sound => \A w \in Workers : Attended(w) => phase'[worker[w].job] \in Active \cup {"launch_failed"}
  BY <1>2, SeenLive
<1>5. CASE Done(c) /\ admission' = NoClient
  <2>1. Leaves(c)
    BY <1>1, <1>2, <1>3, <1>5, DoneEffect DEF Leaves, Shape, TypeOK
  <2> QED
    BY <1>4, <2>1, LeaverKeeps
<1>6. CASE /\ client' = [client EXCEPT ![c].pc = "sweep", ![c].victim = <<>>]
           /\ UNCHANGED admission
  <2>1. /\ OnlyClient(c) /\ client'[c].pc = "sweep"
        /\ client'[c].op = client[c].op /\ client'[c].job = client[c].job
    BY <1>6, ResumeEffect
  <2>2. ClientOK(c)'
    BY <1>1, <1>6, <2>1 DEF ClientOK, Sweeping, Shape, ClientShape
  <2>3. client[c].op = "run" => phase[client[c].job] = "absent"
    BY <1>1 DEF Shape, Numbered, Sweeping
  <2>4. ClientFrame(c)
    BY <1>1, <1>2, <1>6, <2>1, <2>2, <2>3, FrameOf
  <2>5. Shape'
    BY <2>4, ClientStep
  <2>6. ASSUME Sound PROVE Sound'
    <3>1. LocksOf(c)
      BY <2>6 DEF Sound, Locks
    <3>2. ClientSafe(c)
      BY <1>1, <1>4, <2>1, <2>6, <3>1 DEF ClientSafe, LocksOf, HoldsLaunch, Sweeping
    <3> QED
      BY <2>4, <2>5, <2>6, <3>2, ClientKeeps
  <2> QED
    BY <2>5, <2>6
<1> QED
  BY <1>5, <1>6 DEF SetAsideFails

\* A request that is refused or answered without another look at a job.
LEMMA QuietLeaver ==
  ASSUME Shape, NEW c \in Clients, Done(c),
         UNCHANGED <<phase, spec, order, cancel, workspace, sequence, worker, command, runs>>,
         admission' = IF admission = c THEN NoClient ELSE admission
  PROVE  Shape' /\ (Sound => Sound')
<1>1. Onward /\ Seen
  BY StillSeen DEF Shape
<1>2. Leaves(c)
  BY <1>1, DoneEffect DEF Leaves, Shape, TypeOK
<1>3. Sound => \A w \in Workers : Attended(w) => phase'[worker[w].job] \in Active \cup {"launch_failed"}
  BY <1>1, SeenLive
<1> QED
  BY <1>2, <1>3, LeaverKeeps

\* A sweep that is over gives the admission lock back.
LEMMA CleanedKeeps ==
  ASSUME Shape, NEW c \in Clients, Cleaned(c) \/ StageFails(c)
  PROVE  Shape' /\ (Sound => Sound')
<1>1. admission = c
  BY DEF Cleaned, StageFails, Shape, ClientShape, ClientOK, Sweeping
<1> QED
  BY <1>1, QuietLeaver DEF Cleaned, StageFails, record

\* A process that dies frees its locks.
LEMMA ClientCrashKeeps ==
  ASSUME Shape, NEW c \in Clients, ClientCrash(c)
  PROVE  Shape' /\ (Sound => Sound')
BY QuietLeaver DEF ClientCrash, record

\* The lock that is opened is the one of the record that is found.
LEMMA OpenKeeps ==
  ASSUME Shape, NEW c \in Clients, Open(c)
  PROVE  Shape' /\ (Sound => Sound')
<1>1. /\ UNCHANGED <<phase, spec, order, cancel, workspace, sequence, admission, worker, command, runs>>
      /\ client[c].pc = "open" /\ client[c].job \in Jobs
      /\ client[c].op \in {"run", "status", "wait", "kill"}
  BY DEF Open, record, Shape, ClientShape, ClientOK
<1>2. admission # c
  BY <1>1, NoAdmission DEF Sweeping
<1>3. CASE Done(c)
  BY <1>1, <1>2, <1>3, QuietLeaver
<1>4. CASE /\ OnlyClient(c)
           /\ client'[c].pc = "launch" /\ client'[c].lock = order[client[c].job]
           /\ phase[client[c].job] # "absent"
           /\ client'[c].op = client[c].op /\ client'[c].job = client[c].job
  <2>1. Onward /\ Seen
    BY <1>1, StillSeen DEF Shape
  <2>2. Goes(c)
    BY <1>1, <1>4, <2>1 DEF Goes, Shape, TypeOK, Sweeping
  <2>3. order[client[c].job] # 0
    BY <1>1, <1>4 DEF Shape, Numbered
  <2>4. GoesSafe(c)
    BY <1>1, <1>4, <2>3 DEF GoesSafe, LocksOf, HoldsLaunch, Sweeping
  <2> QED
    BY <2>2, <2>4, GoerKeeps
<1> QED
  BY <1>3, <1>4, OpenEffect

\* A request whose job changes as it was found, and that is answered.
LEMMA SeeingLeaver ==
  ASSUME Shape, NEW c \in Clients, Done(c), Onward, Seen, client[c].pc \notin Sweeping,
         UNCHANGED <<spec, order, workspace, sequence, admission, worker, command, runs>>,
         cancel' \in [Jobs -> BOOLEAN]
  PROVE  Shape' /\ (Sound => Sound')
<1>1. Leaves(c)
  BY DoneEffect, NoAdmission DEF Leaves, Shape
<1>2. Sound => \A w \in Workers : Attended(w) => phase'[worker[w].job] \in Active \cup {"launch_failed"}
  BY SeenLive
<1> QED
  BY <1>1, <1>2, LeaverKeeps

\* A request that has its worker, or needs none.
LEMMA AttachedKeeps ==
  ASSUME Shape, NEW c \in Clients, Attached(c), Onward, Seen,
         client[c].pc \in {"launch", "refuse", "started"}, client[c].op \in {"run", "status", "wait"},
         UNCHANGED <<spec, order, cancel, workspace, sequence, admission, worker, command, runs>>
  PROVE  Shape' /\ (Sound /\ PastNext(client[c].job) => Sound')
<1>1. client[c].pc \notin Sweeping \cup {"idle"} /\ cancel' \in [Jobs -> BOOLEAN]
  BY DEF Sweeping, Shape, TypeOK
<1>2. CASE Done(c)
  BY <1>1, <1>2, SeeingLeaver
<1>3. CASE /\ OnlyClient(c)
           /\ client'[c].pc \in {"reply", "await"}
           /\ client'[c].op = client[c].op /\ client'[c].job = client[c].job
  <2>1. Goes(c)
    BY <1>1, <1>3 DEF Goes, Sweeping
  <2>2. PastNext(client[c].job) => GoesSafe(c)
    BY <1>3 DEF GoesSafe, LocksOf, HoldsLaunch, Sweeping
  <2> QED
    BY <2>1, <2>2, GoerKeeps
<1> QED
  BY <1>2, <1>3, AttachedEffect DEF Shape

\* A worker is launched for an accepted job only; any other is past that.
LEMMA LaunchKeeps ==
  ASSUME Shape, NEW c \in Clients, Launch(c)
  PROVE  Shape' /\ (Sound => Sound')
<1>1. /\ UNCHANGED <<spec, order, cancel, workspace, sequence, admission, worker, command, runs>>
      /\ client[c].pc = "launch" /\ client[c].job \in Jobs
      /\ client[c].op \in {"run", "status", "wait"}
      /\ LaunchFree(client[c].lock)
      /\ Become(client[c].job, Status(client[c].job))
  BY DEF Launch, Shape, ClientShape, ClientOK
<1>2. Onward /\ Seen
  BY <1>1, BecomeSeen DEF Shape
<1>3. cancel' \in [Jobs -> BOOLEAN] /\ client[c].pc \notin Sweeping
  BY <1>1 DEF Shape, TypeOK, Sweeping
<1>4. CASE Done(c)
  BY <1>1, <1>2, <1>3, <1>4, SeeingLeaver
<1>5. CASE Move(c, "spawn")
  <2>1. /\ OnlyClient(c) /\ client'[c].pc = "spawn" /\ client'[c].lock = client[c].lock
        /\ client'[c].op = client[c].op /\ client'[c].job = client[c].job
    BY <1>5, MoveEffect DEF Shape, ClientPcs
  <2>2. Goes(c)
    BY <1>1, <1>2, <1>3, <2>1 DEF Goes, Sweeping
  <2>3. ASSUME Sound PROVE GoesSafe(c)
    <3>1. LocksOf(c)
      BY <2>3 DEF Sound, Locks
    <3> QED
      BY <1>1, <2>1, <3>1 DEF GoesSafe, LocksOf, HoldsLaunch, Sweeping
  <2> QED
    BY <2>2, <2>3, GoerKeeps
<1>6. CASE phase[client[c].job] \notin {"absent", "accepted"} /\ Attached(c)
  <2>1. Past(client[c].job)
    BY <1>1, <1>6 DEF Past, Shape, Numbered
  <2>2. PastNext(client[c].job)
    BY <1>1, <1>2, <2>1, PastStays
  <2> QED
    BY <1>1, <1>2, <1>6, <2>2, AttachedKeeps
<1> QED
  BY <1>4, <1>5, <1>6 DEF Launch

\* A launcher whose worker does not answer keeps the launch lock.
LEMMA LaunchErrorKeeps ==
  ASSUME Shape, NEW c \in Clients, LaunchError(c)
  PROVE  Shape' /\ (Sound => Sound')
<1>1. /\ UNCHANGED <<phase, spec, order, cancel, workspace, sequence, admission, worker, command, runs>>
      /\ client[c].pc \in {"spawn", "ready"}
      /\ client[c].op \in {"run", "status", "wait"}
  BY DEF LaunchError, record, Shape, ClientShape, ClientOK
<1>2. Onward /\ Seen
  BY <1>1, StillSeen DEF Shape
<1>3. /\ OnlyClient(c) /\ client'[c].pc = "refuse" /\ client'[c].lock = client[c].lock
      /\ client'[c].op = client[c].op /\ client'[c].job = client[c].job
  BY MoveEffect DEF LaunchError, Shape, ClientPcs
<1>4. Goes(c)
  BY <1>1, <1>2, <1>3 DEF Goes, Sweeping, Shape, TypeOK
<1>5. ASSUME Sound PROVE GoesSafe(c)
  <2>1. LocksOf(c)
    BY <1>5 DEF Sound, Locks
  <2> QED
    BY <1>1, <1>3, <2>1 DEF GoesSafe, LocksOf, HoldsLaunch, Sweeping
<1> QED
  BY <1>4, <1>5, GoerKeeps

\* A launch that failed is recorded under the launch lock.
LEMMA RefuseKeeps ==
  ASSUME Shape, NEW c \in Clients, Refuse(c)
  PROVE  Shape' /\ (Sound => Sound')
<1>1. /\ UNCHANGED <<spec, order, cancel, workspace, sequence, admission, worker, command, runs>>
      /\ client[c].pc = "refuse" /\ client[c].job \in Jobs
      /\ client[c].op \in {"run", "status", "wait"}
      /\ Become(client[c].job, LaunchFailure(client[c].job))
  BY DEF Refuse, Shape, ClientShape, ClientOK
<1>2. Onward /\ Seen /\ phase'[client[c].job] = LaunchFailure(client[c].job)
  BY <1>1, BecomeSeen DEF Shape
<1>3. cancel' \in [Jobs -> BOOLEAN] /\ client[c].pc \notin Sweeping
  BY <1>1 DEF Shape, TypeOK, Sweeping
<1>4. CASE Done(c)
  BY <1>1, <1>2, <1>3, <1>4, SeeingLeaver
<1>5. CASE phase[client[c].job] # "absent" /\ Attached(c)
  <2>1. PastNext(client[c].job)
    BY <1>1, <1>2, <1>5 DEF PastNext, LaunchFailure, Shape, Numbered
  <2> QED
    BY <1>1, <1>2, <1>5, <2>1, AttachedKeeps
<1> QED
  BY <1>4, <1>5 DEF Refuse

\* A launcher that has its answer gives the launch lock back.
LEMMA StartedKeeps ==
  ASSUME Shape, NEW c \in Clients, Started(c)
  PROVE  Shape' /\ (Sound => Sound')
<1>1. /\ UNCHANGED <<phase, spec, order, cancel, workspace, sequence, admission, worker, command, runs>>
      /\ client[c].pc = "started" /\ client[c].job \in Jobs
      /\ client[c].op \in {"run", "status", "wait"} /\ Attached(c)
  BY DEF Started, record, Shape, ClientShape, ClientOK
<1>2. Onward /\ Seen
  BY <1>1, StillSeen DEF Shape
<1>3. Sound => PastNext(client[c].job)
  BY <1>1 DEF Sound, Passed, Past, PastNext
<1> QED
  BY <1>1, <1>2, <1>3, AttachedKeeps

\* A wait opens the lock of a record whose worker had its chance.
LEMMA AwaitKeeps ==
  ASSUME Shape, NEW c \in Clients, Await(c)
  PROVE  Shape' /\ (Sound => Sound')
<1>1. /\ UNCHANGED <<phase, spec, order, cancel, workspace, sequence, admission, worker, command, runs>>
      /\ client[c].pc = "await" /\ client[c].job \in Jobs
  BY DEF Await, record, Shape, ClientShape, ClientOK
<1>2. Onward /\ Seen
  BY <1>1, StillSeen DEF Shape
<1>3. cancel' \in [Jobs -> BOOLEAN] /\ client[c].pc \notin Sweeping
  BY <1>1 DEF Shape, TypeOK, Sweeping
<1>4. CASE Done(c)
  BY <1>1, <1>2, <1>3, <1>4, SeeingLeaver
<1>5. CASE client' = [client EXCEPT ![c].pc = "wait", ![c].alive = order[client[c].job]]
  <2>1. /\ OnlyClient(c) /\ client'[c].pc = "wait" /\ client'[c].alive = order[client[c].job]
        /\ client'[c].op = client[c].op /\ client'[c].job = client[c].job
        /\ client'[c].lock = client[c].lock
    BY <1>1, <1>5, WaitEffect
  <2>2. Goes(c)
    BY <1>1, <1>2, <1>3, <2>1 DEF Goes, Sweeping
  <2>3. client[c].op # "kill"
    BY <1>1 DEF Shape, ClientShape, ClientOK
  <2>4. ASSUME Sound PROVE GoesSafe(c)
    <3>1. PastNext(client[c].job)
      BY <1>1, <2>4 DEF Sound, Passed, Past, PastNext
    <3> QED
      BY <1>1, <2>1, <2>3, <3>1 DEF GoesSafe, LocksOf, HoldsLaunch, Sweeping
  <2> QED
    BY <2>2, <2>4, GoerKeeps
<1> QED
  BY <1>4, <1>5 DEF Await

\* It holds that lock once the worker is gone.
LEMMA WaitHoldKeeps ==
  ASSUME Shape, NEW c \in Clients, WaitHold(c)
  PROVE  Shape' /\ (Sound => Sound')
<1>1. /\ UNCHANGED <<phase, spec, order, cancel, workspace, sequence, admission, worker, command, runs>>
      /\ client[c].pc = "wait" /\ client[c].job \in Jobs
  BY DEF WaitHold, record, Shape, ClientShape, ClientOK
<1>2. Onward /\ Seen
  BY <1>1, StillSeen DEF Shape
<1>3. /\ OnlyClient(c) /\ client'[c].pc = "held" /\ client'[c].lock = client[c].lock
      /\ client'[c].op = client[c].op /\ client'[c].job = client[c].job
      /\ client'[c].alive = client[c].alive
  BY MoveEffect DEF WaitHold, Shape, ClientPcs
<1>4. Goes(c)
  BY <1>1, <1>2, <1>3 DEF Goes, Sweeping, Shape, TypeOK
<1>5. ASSUME Sound PROVE GoesSafe(c)
  <2>1. LocksOf(c) /\ PastNext(client[c].job)
    BY <1>1, <1>5 DEF Sound, Locks, Passed, Past, PastNext
  <2> QED
    BY <1>1, <1>3, <2>1 DEF GoesSafe, LocksOf, HoldsLaunch, Sweeping
<1> QED
  BY <1>4, <1>5, GoerKeeps

\* It drops that lock.
LEMMA WaitDropKeeps ==
  ASSUME Shape, NEW c \in Clients, WaitDrop(c)
  PROVE  Shape' /\ (Sound => Sound')
<1>1. /\ UNCHANGED <<phase, spec, order, cancel, workspace, sequence, admission, worker, command, runs>>
      /\ client[c].pc = "held" /\ client[c].job \in Jobs
  BY DEF WaitDrop, record, Shape, ClientShape, ClientOK
<1>2. Onward /\ Seen
  BY <1>1, StillSeen DEF Shape
<1>3. /\ OnlyClient(c) /\ client'[c].pc = "reply" /\ client'[c].lock = client[c].lock
      /\ client'[c].op = client[c].op /\ client'[c].job = client[c].job
  BY WaitDropEffect
<1>4. Goes(c)
  BY <1>1, <1>2, <1>3 DEF Goes, Sweeping, Shape, TypeOK
<1>5. ASSUME Sound PROVE GoesSafe(c)
  <2>1. LocksOf(c)
    BY <1>5 DEF Sound, Locks
  <2> QED
    BY <1>1, <1>3, <2>1 DEF GoesSafe, LocksOf, HoldsLaunch, Sweeping
<1> QED
  BY <1>4, <1>5, GoerKeeps

\* The answer of a request looks at its job only.
LEMMA ReplyKeeps ==
  ASSUME Shape, NEW c \in Clients, Reply(c)
  PROVE  Shape' /\ (Sound => Sound')
<1>1. /\ UNCHANGED <<spec, order, cancel, workspace, sequence, admission, worker, command, runs>>
      /\ client[c].pc = "reply" /\ client[c].job \in Jobs /\ Done(c)
      /\ Become(client[c].job, Status(client[c].job))
  BY DEF Reply, Shape, ClientShape, ClientOK
<1>2. Onward /\ Seen
  BY <1>1, BecomeSeen DEF Shape
<1>3. cancel' \in [Jobs -> BOOLEAN] /\ client[c].pc \notin Sweeping
  BY <1>1 DEF Shape, TypeOK, Sweeping
<1> QED
  BY <1>1, <1>2, <1>3, SeeingLeaver

\* A kill keeps the launch lock while it waits, or finishes an accepted job.
LEMMA KillKeeps ==
  ASSUME Shape, NEW c \in Clients, Kill(c)
  PROVE  Shape' /\ (Sound => Sound')
<1> DEFINE j == client[c].job
<1>1. /\ UNCHANGED <<spec, order, workspace, sequence, admission, worker, command, runs>>
      /\ client[c].pc = "launch" /\ j \in Jobs /\ client[c].op = "kill"
      /\ LaunchFree(client[c].lock)
      /\ Become(j, Status(j))
      /\ cancel' = [cancel EXCEPT ![j] = @ \/ Status(j) \in Active]
      /\ CASE Status(j) = "accepted" -> Move(c, "kill")
           [] Status(j) \in Active -> client' = [client EXCEPT ![c].pc = "wait", ![c].alive = order[j]]
           [] OTHER -> Done(c)
  BY DEF Kill, Shape, ClientShape, ClientOK
<1>2. cancel' \in [Jobs -> BOOLEAN]
  <2>1. cancel \in [Jobs -> BOOLEAN]
    BY DEF Shape, TypeOK
  <2>2. (cancel[j] \/ Status(j) \in Active) \in BOOLEAN
    OBVIOUS
  <2> QED
    BY <1>1, <2>1, <2>2
<1>3. /\ Status(j) = "accepted" => Move(c, "kill")
      /\ Status(j) \in Active => client' = [client EXCEPT ![c].pc = "wait", ![c].alive = order[j]]
      /\ Status(j) \notin {"accepted"} \cup Active => Done(c)
  BY <1>1 DEF Active
<1>4. Onward /\ Seen /\ phase'[j] = Status(j)
  BY <1>1, BecomeSeen DEF Shape
<1>5. client[c].pc \notin Sweeping \cup {"idle"}
  BY <1>1 DEF Sweeping
<1>6. CASE Status(j) = "accepted"
  <2>1. /\ OnlyClient(c) /\ client'[c].pc = "kill" /\ client'[c].lock = client[c].lock
        /\ client'[c].op = client[c].op /\ client'[c].job = j
    BY <1>3, <1>6, MoveEffect DEF Shape, ClientPcs
  <2>2. Goes(c)
    BY <1>1, <1>2, <1>4, <1>5, <2>1 DEF Goes, Sweeping
  <2>3. ASSUME Sound PROVE GoesSafe(c)
    <3>1. LocksOf(c)
      BY <2>3 DEF Sound, Locks
    <3> QED
      BY <1>1, <1>4, <1>6, <2>1, <3>1 DEF GoesSafe, LocksOf, HoldsLaunch, Sweeping
  <2> QED
    BY <2>2, <2>3, GoerKeeps
<1>7. CASE Status(j) \in Active
  <2>1. /\ OnlyClient(c) /\ client'[c].pc = "wait" /\ client'[c].alive = order[j]
        /\ client'[c].op = client[c].op /\ client'[c].job = j
        /\ client'[c].lock = client[c].lock
    BY <1>1, <1>3, <1>7, WaitEffect
  <2>2. Goes(c)
    BY <1>1, <1>2, <1>4, <1>5, <2>1 DEF Goes, Sweeping
  <2>3. ASSUME Sound PROVE GoesSafe(c)
    <3>1. LocksOf(c)
      BY <2>3 DEF Sound, Locks
    <3>2. PastNext(j)
      BY <1>1, <1>4, <1>7, <3>1 DEF PastNext, LocksOf, Active
    <3> QED
      BY <1>1, <2>1, <3>1, <3>2 DEF GoesSafe, LocksOf, HoldsLaunch, Sweeping
  <2> QED
    BY <2>2, <2>3, GoerKeeps
<1>8. CASE Status(j) \notin {"accepted"} \cup Active
  BY <1>1, <1>2, <1>3, <1>4, <1>5, <1>8, SeeingLeaver
<1> QED
  BY <1>6, <1>7, <1>8

\* Nobody attends a job that a kill finishes.
LEMMA KillAcceptedKeeps ==
  ASSUME Shape, NEW c \in Clients, KillAccepted(c)
  PROVE  Shape' /\ (Sound => Sound')
<1> DEFINE j == client[c].job
           to == Advance(phase[j], "killed")
<1>1. /\ UNCHANGED <<spec, order, cancel, workspace, sequence, admission, worker, command, runs>>
      /\ client[c].pc = "kill" /\ j \in Jobs /\ Done(c)
      /\ Become(j, IF to = "invalid" THEN phase[j] ELSE to)
  BY DEF KillAccepted, Shape, ClientShape, ClientOK
<1>2. to = "invalid" \/ (phase[j] \in {"accepted"} \cup Active /\ to \in Active \cup Outcomes)
  BY AdvanceType
<1> HIDE DEF to
<1>3. Onward /\ \A k \in Jobs \ {j} : phase'[k] = phase[k]
  BY <1>1, <1>2, BecomeOnward DEF Shape
<1>4. Leaves(c)
  BY <1>1, <1>3, DoneEffect, NoAdmission DEF Leaves, Shape, TypeOK, Sweeping
<1>5. ASSUME Sound, NEW w \in Workers, Attended(w)
      PROVE  phase'[worker[w].job] \in Active \cup {"launch_failed"}
  <2>1. worker[w].job # j /\ phase[worker[w].job] \in Active \cup {"launch_failed"}
    BY <1>1, <1>5 DEF Sound, Live
  <2>2. worker[w].job \in Jobs
    BY <1>5 DEF Attended, Announced, Shape, WorkerShape, Supervising
  <2> QED
    BY <1>3, <2>1, <2>2
<1> QED
  BY <1>4, <1>5, LeaverKeeps

\* Only one process sweeps.
LEMMA OneSweeper ==
  ASSUME Shape, NEW c \in Clients, client[c].pc \in Sweeping, NEW d \in Clients, client[d].pc \in Sweeping
  PROVE  d = c
BY DEF Shape, ClientShape, ClientOK

\* One rename removes a record or its workspace, and nothing of another job.
LEMMA SetAsideEffect ==
  ASSUME Shape, NEW c \in Clients, SetAside(c)
  PROVE  /\ OnlyClient(c) /\ client[c].pc = "rename" /\ client'[c].pc = "sweep"
         /\ client'[c].op = client[c].op /\ client'[c].job = client[c].job
         /\ client'[c].todo = client[c].todo
         /\ UNCHANGED <<spec, order, sequence, admission, worker, command, runs>>
         /\ client[c].victim[1] \in Jobs
         /\ phase' \in [Jobs -> Phases \cup {"absent"}]
         /\ cancel' \in [Jobs -> BOOLEAN] /\ workspace' \in [Jobs -> BOOLEAN]
         /\ phase'[client[c].victim[1]] \in {phase[client[c].victim[1]], "absent"}
         /\ \A k \in Jobs \ {client[c].victim[1]} :
              phase'[k] = phase[k] /\ workspace'[k] = workspace[k]
<1> DEFINE j == client[c].victim[1]
           part == client[c].victim[2]
<1>1. /\ client[c].pc = "rename"
      /\ workspace' = [workspace EXCEPT ![j] = FALSE]
      /\ phase' = [phase EXCEPT ![j] = IF part = "record" THEN "absent" ELSE @]
      /\ cancel' = [cancel EXCEPT ![j] = IF part = "record" THEN FALSE ELSE @]
      /\ client' = [client EXCEPT ![c].pc = "sweep", ![c].victim = <<>>]
      /\ UNCHANGED <<spec, order, sequence, admission, worker, command, runs>>
  BY DEF SetAside
<1>2. /\ OnlyClient(c) /\ client'[c].pc = "sweep" /\ client'[c].todo = client[c].todo
      /\ client'[c].op = client[c].op /\ client'[c].job = client[c].job
  BY <1>1, ResumeEffect
<1>3. j \in Jobs
  BY <1>1 DEF Shape, ClientShape, ClientOK
<1>4. /\ phase \in [Jobs -> Phases \cup {"absent"}]
      /\ cancel \in [Jobs -> BOOLEAN] /\ workspace \in [Jobs -> BOOLEAN]
  BY DEF Shape, TypeOK
<1> HIDE DEF j, part
<1>5. /\ phase' \in [Jobs -> Phases \cup {"absent"}]
      /\ phase'[j] \in {phase[j], "absent"}
      /\ \A k \in Jobs \ {j} : phase'[k] = phase[k]
  BY <1>1, <1>3, <1>4
<1>6. cancel' \in [Jobs -> BOOLEAN]
  BY <1>1, <1>3, <1>4
<1>7. workspace' \in [Jobs -> BOOLEAN] /\ \A k \in Jobs \ {j} : workspace'[k] = workspace[k]
  BY <1>1, <1>3, <1>4
<1> QED
  BY <1>1, <1>2, <1>3, <1>5, <1>6, <1>7 DEF j

\* The victim has finished and nobody supervises it.
LEMMA SetAsideKeeps ==
  ASSUME Shape, NEW c \in Clients, SetAside(c)
  PROVE  Shape' /\ (Sound => Sound')
<1> DEFINE j == client[c].victim[1]
<1>1. /\ OnlyClient(c) /\ client[c].pc = "rename" /\ client'[c].pc = "sweep"
      /\ client'[c].op = client[c].op /\ client'[c].job = client[c].job
      /\ UNCHANGED <<spec, order, sequence, admission, worker, command, runs>>
      /\ j \in Jobs
      /\ phase' \in [Jobs -> Phases \cup {"absent"}]
      /\ cancel' \in [Jobs -> BOOLEAN] /\ workspace' \in [Jobs -> BOOLEAN]
      /\ phase'[j] \in {phase[j], "absent"}
      /\ \A k \in Jobs \ {j} : phase'[k] = phase[k]
  BY SetAsideEffect
<1>2. \A d \in Clients \ {c} : client'[d] = client[d] /\ client[d].pc \notin Sweeping
  BY <1>1, OneSweeper DEF OnlyClient, Sweeping
<1>3. client[c].op = "run" => phase[client[c].job] = "absent"
  BY <1>1 DEF Shape, Numbered, Sweeping
<1>4. client[c].job \in Jobs
  BY <1>1 DEF Shape, ClientShape, ClientOK
<1> HIDE DEF j
<1>5. Shape'
  <2>1. TypeOK'
    BY <1>1 DEF Shape, TypeOK, OnlyClient
  <2>2. ClientShape'
    <3> SUFFICES ASSUME NEW d \in Clients PROVE ClientOK(d)'
      BY DEF ClientShape
    <3>1. ClientOK(d)
      BY DEF Shape, ClientShape
    <3>2. CASE d = c
      BY <1>1, <3>1, <3>2 DEF ClientOK, Sweeping
    <3>3. CASE d # c
      BY <1>1, <1>2, <3>1, <3>3 DEF ClientOK
    <3> QED
      BY <3>2, <3>3
  <2>3. WorkerShape'
    BY <1>1 DEF Shape, WorkerShape
  <2>4. \A k \in Jobs : phase[k] = "absent" => phase'[k] = "absent"
    BY <1>1
  <2>5. Numbered'
    BY <1>1, <1>2, <1>3, <1>4, <2>4 DEF Shape, Numbered
  <2> QED
    BY <2>1, <2>2, <2>3, <2>5 DEF Shape
<1>6. ASSUME Sound PROVE Sound'
  <2>1. Locks'
    <3>1. ASSUME NEW d \in Clients PROVE LocksOf(d)'
      <4>1. LocksOf(d)
        BY <1>6 DEF Sound, Locks
      <4>2. CASE d = c
        BY <1>1, <4>1, <4>2 DEF LocksOf, Sweeping
      <4>3. CASE d # c
        BY <1>1, <1>2, <4>1, <4>3 DEF LocksOf
      <4> QED
        BY <4>2, <4>3
    <3> QED
      BY <1>1, <1>6, <3>1 DEF Sound, Locks
  <2>2. \A d \in Clients : HoldsLaunch(d)' => HoldsLaunch(d) /\ client'[d].lock = client[d].lock
    <3>1. ~HoldsLaunch(c)'
      BY <1>1 DEF HoldsLaunch
    <3> QED
      BY <1>2, <3>1 DEF HoldsLaunch
  <2>3. Exclusive'
    BY <1>1, <1>6, <2>2 DEF Sound, Exclusive
  <2>4. Link'
    BY <1>1, <1>2, <1>6 DEF Sound, Link
  <2>6. phase[j] \in Outcomes
    BY <1>1, <1>6 DEF Sound, Removal, j
  <2>7. \A k \in Jobs : PastNext(k) <=> Past(k)
    BY <1>1, <2>6 DEF PastNext, Past, Outcomes
  <2>8. Passed'
    <3>1. \A w \in Workers : worker[w].pc \in Supervising \ {"check", "begin"} => PastNext(worker[w].job)
      BY <1>6, <2>7 DEF Sound, Passed, Shape, WorkerShape, Supervising
    <3>2. \A d \in Clients : client'[d].pc \in {"started", "await", "wait", "held"} => PastNext(client'[d].job)
      BY <1>1, <1>2, <1>6, <2>7 DEF Sound, Passed, Shape, ClientShape, ClientOK
    <3> QED
      BY <1>1, <3>1, <3>2 DEF Passed, Past, PastNext
  <2>9. Unstarted'
    BY <1>1, <1>6, <2>7 DEF Sound, Unstarted, Past, PastNext
  <2>10. Live'
    <3> SUFFICES ASSUME NEW w \in Workers, Attended(w)'
                 PROVE  /\ phase'[worker'[w].job] \in Active \cup {"launch_failed"}
                        /\ \A d \in Clients : client'[d].pc = "kill" => client'[d].job # worker'[w].job
      BY DEF Live
    <3>1. Attended(w)
      BY <1>1, <1>2 DEF Attended, Announced
    <3>2. worker[w].pc \in Supervising /\ worker[w].pc # "check"
      BY <3>1 DEF Attended, Announced, Supervising
    <3>3. worker[w].job \in Jobs /\ worker[w].job # j
      BY <1>1, <1>6, <3>2 DEF Sound, Removal, Shape, WorkerShape, Supervising, j
    <3>4. /\ phase[worker[w].job] \in Active \cup {"launch_failed"}
          /\ \A d \in Clients : client[d].pc = "kill" => client[d].job # worker[w].job
      BY <1>6, <3>1 DEF Sound, Live
    <3> QED
      BY <1>1, <1>2, <3>3, <3>4
  <2>11. Removal'
    BY <1>1, <1>2 DEF Removal, Sweeping
  <2>12. Supervised'
    BY <1>1, <1>6 DEF Sound, Supervised
  <2> QED
    BY <2>1, <2>3, <2>4, <2>8, <2>9, <2>10, <2>11, <2>12 DEF Sound
<1> QED
  BY <1>5, <1>6

\* One rename publishes the record under a new number.
LEMMA StageEffect ==
  ASSUME Shape, NEW c \in Clients, Stage(c)
  PROVE  /\ OnlyClient(c) /\ client[c].pc = "sweep" /\ client[c].op = "run" /\ client'[c].pc = "open"
         /\ client'[c].op = client[c].op /\ client'[c].job = client[c].job /\ client[c].job \in Jobs
         /\ UNCHANGED <<cancel, worker, command, runs>>
         /\ sequence \in Nat /\ sequence' = sequence + 1 /\ sequence' \in 0 .. MaxSequence
         /\ admission = c /\ admission' = NoClient
         /\ spec' \in [Jobs -> Requests \cup {NoRequest}]
         /\ order' \in [Jobs -> 0 .. MaxSequence]
         /\ workspace' \in [Jobs -> BOOLEAN]
         /\ phase' \in [Jobs -> Phases \cup {"absent"}]
         /\ phase[client[c].job] = "absent" /\ phase'[client[c].job] = "accepted"
         /\ order'[client[c].job] = sequence + 1
         /\ workspace'[client[c].job] = TRUE
         /\ \A k \in Jobs \ {client[c].job} :
              phase'[k] = phase[k] /\ order'[k] = order[k] /\ workspace'[k] = workspace[k]
<1> DEFINE j == client[c].job
           r == client[c].request
<1>1. /\ client[c].pc = "sweep" /\ client[c].op = "run"
      /\ sequence < MaxSequence /\ sequence' = sequence + 1
      /\ order' = [order EXCEPT ![j] = sequence + 1]
      /\ phase' = [phase EXCEPT ![j] = "accepted"]
      /\ spec' = [spec EXCEPT ![j] = r]
      /\ workspace' = [workspace EXCEPT ![j] = TRUE]
      /\ Move(c, "open") /\ admission' = NoClient
      /\ UNCHANGED <<cancel, worker, command, runs>>
  BY DEF Stage, Become
<1>2. j \in Jobs /\ admission = c
  BY <1>1 DEF Shape, ClientShape, ClientOK, Sweeping
<1>3. phase[j] = "absent"
  BY <1>1 DEF Shape, Numbered, Sweeping
<1>4. OnlyClient(c) /\ client'[c].pc = "open" /\ client'[c].op = client[c].op /\ client'[c].job = j
  BY <1>1, MoveEffect DEF Shape, ClientPcs
<1>5. r \in Requests \cup {NoRequest}
  BY ClientFields DEF Shape, TypeOK
<1>6. /\ phase \in [Jobs -> Phases \cup {"absent"}] /\ spec \in [Jobs -> Requests \cup {NoRequest}]
      /\ order \in [Jobs -> 0 .. MaxSequence] /\ workspace \in [Jobs -> BOOLEAN]
      /\ sequence \in 0 .. MaxSequence
  BY DEF Shape, TypeOK
<1> HIDE DEF j, r
<1>7. sequence \in Nat /\ sequence + 1 \in 0 .. MaxSequence
  BY <1>1, <1>6, Bounds
<1>8. /\ order' \in [Jobs -> 0 .. MaxSequence] /\ order'[j] = sequence + 1
      /\ \A k \in Jobs \ {j} : order'[k] = order[k]
  BY <1>1, <1>2, <1>6, <1>7
<1>9. /\ phase' \in [Jobs -> Phases \cup {"absent"}] /\ phase'[j] = "accepted"
      /\ \A k \in Jobs \ {j} : phase'[k] = phase[k]
  BY <1>1, <1>2, <1>6 DEF Phases
<1>10. spec' \in [Jobs -> Requests \cup {NoRequest}]
  BY <1>1, <1>2, <1>5, <1>6
<1>11. /\ workspace' \in [Jobs -> BOOLEAN] /\ workspace'[j] = TRUE
       /\ \A k \in Jobs \ {j} : workspace'[k] = workspace[k]
  BY <1>1, <1>2, <1>6
<1> QED
  BY <1>1, <1>2, <1>3, <1>4, <1>7, <1>8, <1>9, <1>10, <1>11 DEF j

\* The number of the new record is larger than every other one, and no process
\* has anything of the record open yet.
LEMMA StageKeeps ==
  ASSUME Shape, NEW c \in Clients, Stage(c)
  PROVE  Shape' /\ (Sound => Sound')
<1> DEFINE j == client[c].job
<1>1. /\ OnlyClient(c) /\ client[c].pc = "sweep" /\ client[c].op = "run" /\ client'[c].pc = "open"
      /\ client'[c].op = client[c].op /\ client'[c].job = j /\ j \in Jobs
      /\ UNCHANGED <<cancel, worker, command, runs>>
      /\ sequence \in Nat /\ sequence' = sequence + 1 /\ sequence' \in 0 .. MaxSequence
      /\ admission = c /\ admission' = NoClient
      /\ spec' \in [Jobs -> Requests \cup {NoRequest}]
      /\ order' \in [Jobs -> 0 .. MaxSequence]
      /\ workspace' \in [Jobs -> BOOLEAN]
      /\ phase' \in [Jobs -> Phases \cup {"absent"}]
      /\ phase[j] = "absent" /\ phase'[j] = "accepted"
      /\ order'[j] = sequence + 1
      /\ \A k \in Jobs \ {j} : phase'[k] = phase[k] /\ order'[k] = order[k]
  BY StageEffect
<1>2. \A d \in Clients \ {c} : client'[d] = client[d] /\ client[d].pc \notin Sweeping
  BY <1>1, OneSweeper DEF OnlyClient, Sweeping
<1>3. \A d \in Clients : client'[d].pc \notin Sweeping
  BY <1>1, <1>2 DEF Sweeping
<1> HIDE DEF j
<1>4. Shape'
  <2>1. TypeOK'
    BY <1>1, Bounds DEF Shape, TypeOK, OnlyClient
  <2>2. ClientShape'
    <3> SUFFICES ASSUME NEW d \in Clients PROVE ClientOK(d)'
      BY DEF ClientShape
    <3>1. ClientOK(d)
      BY DEF Shape, ClientShape
    <3>2. d # NoClient
      BY Bounds
    <3>3. CASE d = c
      BY <1>1, <1>3, <3>1, <3>2, <3>3 DEF ClientOK, Sweeping
    <3>4. CASE d # c
      BY <1>1, <1>2, <3>1, <3>2, <3>4 DEF ClientOK
    <3> QED
      BY <3>3, <3>4
  <2>3. WorkerShape'
    BY <1>1 DEF Shape, WorkerShape, Supervising
  <2>4. \A k \in Jobs : order[k] \in Nat /\ order[k] <= sequence
    BY Bounds DEF Shape, TypeOK, Numbered
  <2>5. \A k \in Jobs : order'[k] <= sequence' /\ (phase'[k] # "absent" => order'[k] # 0)
    BY <1>1, <2>4 DEF Shape, Numbered
  <2>6. \A k, l \in Jobs : order'[k] = order'[l] /\ order'[k] # 0 => k = l
    BY <1>1, <2>4 DEF Shape, Numbered
  <2>7. Numbered'
    BY <1>3, <2>5, <2>6 DEF Numbered
  <2> QED
    BY <2>1, <2>2, <2>3, <2>7 DEF Shape
<1>5. ASSUME Sound PROVE Sound'
  <2>1. order[j] = 0
    BY <1>1, <1>5 DEF Sound, Locks, LocksOf, Sweeping, j
  <2>2. \A k \in Jobs : order[k] # 0 => k # j /\ phase'[k] = phase[k] /\ order'[k] = order[k]
    BY <1>1, <2>1
  <2>3. \A w \in Workers : worker[w].pc \in Supervising => worker[w].job \in Jobs /\ order[worker[w].job] # 0
    BY DEF Shape, WorkerShape, Supervising
  <2>4. \A d \in Clients : client[d].pc # "idle" => client[d].job \in Jobs
    BY DEF Shape, ClientShape, ClientOK
  <2>5. \A d \in Clients : client[d].pc \in {"started", "await", "wait", "held"} => order[client[d].job] # 0
    BY <1>5 DEF Sound, Passed, Past
  <2>6. Locks'
    <3>1. ASSUME NEW d \in Clients PROVE LocksOf(d)'
      <4>1. LocksOf(d)
        BY <1>5 DEF Sound, Locks
      <4>2. CASE d = c
        BY <1>1, <4>2 DEF LocksOf, Sweeping
      <4>3. CASE d # c
        BY <1>2, <2>2, <2>4, <2>5, <4>1, <4>3 DEF LocksOf, Sweeping
      <4> QED
        BY <4>2, <4>3
    <3>2. \A w \in Workers : worker[w].pc \in Supervising => worker[w].lock = order'[worker[w].job]
      BY <1>5, <2>2, <2>3 DEF Sound, Locks
    <3> QED
      BY <1>1, <3>1, <3>2 DEF Locks
  <2>7. \A d \in Clients : HoldsLaunch(d)' => HoldsLaunch(d) /\ client'[d].lock = client[d].lock
    <3>1. ~HoldsLaunch(c)'
      BY <1>1 DEF HoldsLaunch
    <3> QED
      BY <1>2, <3>1 DEF HoldsLaunch
  <2>8. Exclusive'
    BY <1>1, <1>5, <2>7 DEF Sound, Exclusive
  <2>9. Link'
    BY <1>1, <1>2, <1>5 DEF Sound, Link
  <2>10. Passed'
    <3>1. \A w \in Workers : worker[w].pc \in Supervising \ {"check", "begin"} => PastNext(worker[w].job)
      BY <1>5, <2>2, <2>3 DEF Sound, Passed, Past, PastNext
    <3>2. \A d \in Clients : client'[d].pc \in {"started", "await", "wait", "held"} => PastNext(client'[d].job)
      BY <1>1, <1>2, <1>5, <2>2, <2>4 DEF Sound, Passed, Past, PastNext
    <3> QED
      BY <1>1, <3>1, <3>2 DEF Passed, Past, PastNext
  <2>11. Unstarted'
    <3>1. runs[j] = <<>>
      BY <1>1, <1>5, <2>1 DEF Sound, Unstarted, Past
    <3>2. \A k \in Jobs \ {j} : PastNext(k) <=> Past(k)
      BY <1>1 DEF Past, PastNext
    <3> QED
      BY <1>1, <1>5, <3>1, <3>2 DEF Sound, Unstarted, Past, PastNext
  <2>12. Live'
    <3> SUFFICES ASSUME NEW w \in Workers, Attended(w)'
                 PROVE  /\ phase'[worker'[w].job] \in Active \cup {"launch_failed"}
                        /\ \A d \in Clients : client'[d].pc = "kill" => client'[d].job # worker'[w].job
      BY DEF Live
    <3>1. Attended(w)
      BY <1>1, <1>2 DEF Attended, Announced
    <3>2. worker[w].pc \in Supervising
      BY <3>1 DEF Attended, Announced, Supervising
    <3>3. /\ phase[worker[w].job] \in Active \cup {"launch_failed"}
          /\ \A d \in Clients : client[d].pc = "kill" => client[d].job # worker[w].job
      BY <1>5, <3>1 DEF Sound, Live
    <3> QED
      BY <1>1, <1>2, <2>2, <2>3, <3>2, <3>3
  <2>13. Removal'
    BY <1>3 DEF Removal, Sweeping
  <2>14. Supervised'
    BY <1>1, <1>5 DEF Sound, Supervised
  <2> QED
    BY <2>6, <2>8, <2>9, <2>10, <2>11, <2>12, <2>13, <2>14 DEF Sound
<1> QED
  BY <1>4, <1>5

\* A worker process starts, with its launcher waiting for its ready byte.
LEMMA SpawnWorkerKeeps ==
  ASSUME Shape, NEW c \in Clients, SpawnWorker(c)
  PROVE  Shape' /\ (Sound => Sound')
<1>1. PICK w \in Workers :
       /\ worker[w].pc = "idle" /\ command[w] = "none"
       /\ \A d \in Clients : client[d].worker # w
       /\ worker' = [worker EXCEPT ![w] = [Gone EXCEPT !.pc = "open", !.job = client[c].job]]
       /\ client' = [client EXCEPT ![c].pc = "ready", ![c].worker = w]
  BY DEF SpawnWorker
<1>2. /\ UNCHANGED <<phase, spec, order, cancel, workspace, sequence, admission, command, runs>>
      /\ client[c].pc = "spawn" /\ client[c].job \in Jobs
      /\ client[c].op \in {"run", "status", "wait"}
  BY DEF SpawnWorker, record, Shape, ClientShape, ClientOK
<1>3. /\ OnlyWorker(w) /\ worker'[w].pc = "open" /\ worker'[w].job = client[c].job
  <2> DEFINE r == [Gone EXCEPT !.pc = "open", !.job = client[c].job]
  <2>1. r \in WorkerStates /\ r.pc = "open" /\ r.job = client[c].job
    BY <1>2, Bounds DEF Gone, WorkerStates, Supervising
  <2> HIDE DEF r
  <2>2. worker' = [worker EXCEPT ![w] = r]
    BY <1>1 DEF r
  <2> QED
    BY <2>1, <2>2, PutWorker DEF Shape
<1>4. /\ OnlyClient(c) /\ client'[c].pc = "ready" /\ client'[c].worker = w
      /\ client'[c].op = client[c].op /\ client'[c].job = client[c].job
      /\ client'[c].lock = client[c].lock
  <2> DEFINE r == [client[c] EXCEPT !.pc = "ready", !.worker = w]
  <2>1. client \in [Clients -> ClientStates] /\ client[c] \in ClientStates
    BY DEF Shape, TypeOK
  <2>2. client' = [client EXCEPT ![c] = r]
    BY <1>1, <2>1
  <2>3. /\ r \in ClientStates /\ r.pc = "ready" /\ r.worker = w
        /\ r.op = client[c].op /\ r.job = client[c].job /\ r.lock = client[c].lock
    BY <2>1 DEF ClientStates
  <2> HIDE DEF r
  <2> QED
    BY <2>2, <2>3, PutClient DEF Shape
<1>5. \A d \in Clients \ {c} : client'[d] = client[d]
  BY <1>4 DEF OnlyClient
<1>6. \A v \in Workers \ {w} : worker'[v] = worker[v]
  BY <1>3 DEF OnlyWorker
<1>7. Shape'
  <2>1. TypeOK'
    BY <1>2, <1>3, <1>4 DEF Shape, TypeOK, OnlyClient, OnlyWorker
  <2>2. ClientShape'
    <3> SUFFICES ASSUME NEW d \in Clients PROVE ClientOK(d)'
      BY DEF ClientShape
    <3>1. ClientOK(d)
      BY DEF Shape, ClientShape
    <3>2. CASE d = c
      BY <1>2, <1>4, <3>1, <3>2 DEF ClientOK, Sweeping
    <3>3. CASE d # c
      BY <1>2, <1>5, <3>1, <3>3 DEF ClientOK
    <3> QED
      BY <3>2, <3>3
  <2>3. WorkerShape'
    BY <1>2, <1>3, <1>6 DEF Shape, WorkerShape, Supervising
  <2>4. \A d \in Clients : client'[d].pc \in Sweeping => client'[d] = client[d]
    BY <1>4, <1>5 DEF Sweeping
  <2>5. Numbered'
    BY <1>2, <2>4 DEF Shape, Numbered
  <2> QED
    BY <2>1, <2>2, <2>3, <2>5 DEF Shape
<1>8. ASSUME Sound PROVE Sound'
  <2>1. Locks'
    <3>1. ASSUME NEW d \in Clients PROVE LocksOf(d)'
      <4>1. LocksOf(d)
        BY <1>8 DEF Sound, Locks
      <4>2. CASE d = c
        BY <1>2, <1>4, <4>1, <4>2 DEF LocksOf, Sweeping
      <4>3. CASE d # c
        BY <1>2, <1>5, <4>1, <4>3 DEF LocksOf
      <4> QED
        BY <4>2, <4>3
    <3>2. \A v \in Workers : worker'[v].pc \in Supervising => worker'[v].lock = order'[worker'[v].job]
      BY <1>2, <1>3, <1>6, <1>8 DEF Sound, Locks, Supervising
    <3> QED
      BY <3>1, <3>2 DEF Locks
  <2>2. \A d \in Clients : HoldsLaunch(d)' => HoldsLaunch(d) /\ client'[d].lock = client[d].lock
    BY <1>2, <1>4, <1>5 DEF HoldsLaunch
  <2>3. \A v \in Workers : worker'[v].pc \in Supervising => worker'[v] = worker[v]
    BY <1>3, <1>6 DEF Supervising
  <2>4. Exclusive'
    BY <1>8, <2>2, <2>3 DEF Sound, Exclusive
  <2>5. Link'
    <3> SUFFICES ASSUME NEW d \in Clients, client'[d].pc = "ready"
                 PROVE  worker'[client'[d].worker].pc = "idle" \/ worker'[client'[d].worker].job = client'[d].job
      BY DEF Link
    <3>1. CASE d = c
      BY <1>3, <1>4, <3>1
    <3>2. CASE d # c
      <4>1. client[d].pc = "ready" /\ client[d].worker \in Workers \ {w}
        BY <1>1, <1>5, <3>2 DEF Shape, ClientShape, ClientOK
      <4> QED
        BY <1>5, <1>6, <1>8, <3>2, <4>1 DEF Sound, Link
    <3> QED
      BY <3>1, <3>2
  <2>6. Passed'
    BY <1>2, <1>4, <1>5, <1>8, <2>3 DEF Sound, Passed, Past
  <2>7. Unstarted'
    BY <1>2, <1>3, <1>6, <1>8 DEF Sound, Unstarted, Past
  <2>8. Live'
    <3> SUFFICES ASSUME NEW v \in Workers, Attended(v)'
                 PROVE  /\ phase'[worker'[v].job] \in Active \cup {"launch_failed"}
                        /\ \A d \in Clients : client'[d].pc = "kill" => client'[d].job # worker'[v].job
      BY DEF Live
    <3>1. v # w /\ worker'[v] = worker[v]
      BY <1>3, <1>6 DEF Attended, Announced, Supervising
    <3>2. Attended(v)
      BY <1>4, <1>5, <3>1 DEF Attended, Announced
    <3> QED
      BY <1>2, <1>4, <1>5, <1>8, <3>1, <3>2 DEF Sound, Live
  <2>9. Removal'
    BY <1>2, <1>4, <1>5, <1>8, <2>3 DEF Sound, Removal
  <2>10. Supervised'
    BY <1>1, <1>2, <1>3, <1>6, <1>8 DEF Sound, Supervised
  <2> QED
    BY <2>1, <2>4, <2>5, <2>6, <2>7, <2>8, <2>9, <2>10 DEF Sound
<1> QED
  BY <1>7, <1>8

-----------------------------------------------------------------------------
(* What a step of a worker does, and that it keeps Shape and Sound. *)

CommandStates == {"none", "bare", "running", "ended", "orphan", "stray"}

\* The command of one worker changes.
OnlyCommand(w) ==
  /\ command' \in [Workers -> CommandStates]
  /\ \A v \in Workers \ {w} : command'[v] = command[v]

\* A worker ends, or reports an error after it gave up its lock.
WorkerLeaves(w) ==
  /\ OnlyWorker(w) /\ OnlyCommand(w)
  /\ worker'[w].pc \in {"idle", "error"}
  /\ worker'[w].pc = "error" => worker'[w].job = worker[w].job
  /\ command'[w] \notin {"bare", "running"}

\* A worker that holds the lock of its job goes on.
WorkerMoves(w, pc) ==
  /\ OnlyWorker(w)
  /\ worker'[w].pc = pc
  /\ worker'[w].job = worker[w].job /\ worker'[w].lock = worker[w].lock

\* A worker that ends leaves no supervised command behind.
LEMMA LeaveEffect ==
  ASSUME TypeOK, NEW w \in Workers, NEW pc \in {"idle", "error"}, Leave(w, pc)
  PROVE  WorkerLeaves(w) /\ worker'[w].pc = pc
<1> DEFINE r == [Gone EXCEPT !.pc = pc, !.job = IF pc = "idle" THEN NoJob ELSE worker[w].job]
<1>1. worker \in [Workers -> WorkerStates] /\ worker[w] \in WorkerStates
  BY DEF TypeOK
<1>2. worker[w].job \in Jobs \cup {NoJob}
  BY <1>1 DEF WorkerStates
<1>3. r \in WorkerStates /\ r.pc = pc /\ (pc = "error" => r.job = worker[w].job)
  BY <1>2, Bounds DEF Gone, WorkerStates
<1>4. worker' = [worker EXCEPT ![w] = r]
  BY DEF Leave
<1> HIDE DEF r
<1>5. OnlyWorker(w) /\ worker'[w] = r
  BY <1>3, <1>4, PutWorker
<1>6. command' = [command EXCEPT ![w] = LeftBehind(command[w])]
  BY DEF Leave
<1>7. LeftBehind(command[w]) \in {"none", "orphan", "stray"}
  BY DEF LeftBehind
<1>8. OnlyCommand(w) /\ command'[w] \notin {"bare", "running"}
  BY <1>6, <1>7 DEF TypeOK, OnlyCommand, CommandStates
<1> QED
  BY <1>3, <1>5, <1>8 DEF WorkerLeaves

\* A worker goes on with its job and its lock.
LEMMA WorkerMoveEffect ==
  ASSUME TypeOK, NEW w \in Workers, NEW pc \in Supervising, WorkerMove(w, pc)
  PROVE  WorkerMoves(w, pc)
<1> DEFINE r == [worker[w] EXCEPT !.pc = pc]
<1>1. worker \in [Workers -> WorkerStates] /\ worker[w] \in WorkerStates
  BY DEF TypeOK
<1>2. worker' = [worker EXCEPT ![w] = r]
  BY <1>1 DEF WorkerMove
<1>3. r \in WorkerStates /\ r.pc = pc /\ r.job = worker[w].job /\ r.lock = worker[w].lock
  BY <1>1 DEF WorkerStates
<1> HIDE DEF r
<1>4. OnlyWorker(w) /\ worker'[w] = r
  BY <1>2, <1>3, PutWorker
<1> QED
  BY <1>3, <1>4 DEF WorkerMoves

\* Nothing is started or ended.
LEMMA SameCommand == ASSUME TypeOK, NEW w \in Workers, UNCHANGED command PROVE OnlyCommand(w)
BY DEF TypeOK, OnlyCommand, CommandStates

\* The worker's event is refused, and the worker fails, or it takes the job onward.
LEMMA TransitionEffect ==
  ASSUME Shape, NEW w \in Workers, worker[w].pc \in Supervising,
         NEW event, NEW pc \in Supervising \cup {"idle"}, Transition(w, event, pc)
  PROVE  /\ Onward /\ \A k \in Jobs \ {worker[w].job} : phase'[k] = phase[k]
         /\ \/ WorkerLeaves(w)
            \/ /\ pc # "idle" /\ WorkerMoves(w, pc) /\ UNCHANGED command
               /\ Advance(phase[worker[w].job], event) # "invalid"
               /\ phase'[worker[w].job] = Advance(phase[worker[w].job], event)
<1> DEFINE j == worker[w].job
           to == Advance(phase[j], event)
<1>1. j \in Jobs /\ TypeOK
  BY DEF Shape, WorkerShape, Supervising
<1>2. CASE to = "invalid"
  <2>1. Leave(w, "error") /\ UNCHANGED phase
    BY <1>2 DEF Transition
  <2> QED
    BY <1>1, <2>1, LeaveEffect, StillOnward
<1>3. CASE to # "invalid"
  <2>1. Become(j, to) /\ IF pc = "idle" THEN Leave(w, "idle") ELSE WorkerMove(w, pc) /\ UNCHANGED command
    BY <1>3 DEF Transition
  <2>2. phase[j] \in {"accepted"} \cup Active /\ to \in Active \cup Outcomes
    BY <1>3, AdvanceType
  <2>3. Onward /\ phase'[j] = to /\ \A k \in Jobs \ {j} : phase'[k] = phase[k]
    BY <1>1, <2>1, <2>2, BecomeOnward
  <2>4. CASE pc = "idle"
    BY <1>1, <2>1, <2>3, <2>4, LeaveEffect
  <2>5. CASE pc # "idle"
    BY <1>1, <1>3, <2>1, <2>3, <2>5, WorkerMoveEffect
  <2> QED
    BY <2>4, <2>5
<1> QED
  BY <1>2, <1>3

\* A step of one worker.
WorkerFrame(w) ==
  /\ OnlyWorker(w) /\ OnlyCommand(w) /\ Onward
  /\ UNCHANGED <<unmoved, client>>
  /\ runs' \in [Jobs -> Seq(1 .. MaxSequence)]
  /\ worker'[w].pc # "idle" => worker[w].pc # "idle" /\ worker'[w].job = worker[w].job
  /\ worker'[w].pc \in Supervising => order[worker[w].job] # 0

\* What such a step must respect for Sound to survive it.
WorkerSafe(w) ==
  /\ worker'[w].pc \in Supervising =>
       /\ worker'[w].lock = order[worker[w].job]
       /\ \A v \in Workers \ {w} : worker[v].pc \in Supervising => worker[v].job # worker[w].job
  /\ worker'[w].pc \in Supervising \ {"check", "begin"} => PastNext(worker[w].job)
  /\ \A v \in Workers \ {w} : Attended(v) => phase'[worker[v].job] \in Active \cup {"launch_failed"}
  /\ Attended(w)' =>
       /\ phase'[worker[w].job] \in Active \cup {"launch_failed"}
       /\ \A c \in Clients : client[c].pc = "kill" => client[c].job # worker[w].job
  /\ worker'[w].pc \in Supervising \ {"check"} =>
       worker[w].pc \in Supervising \ {"check"} \/ phase[worker[w].job] \notin Outcomes
  /\ command'[w] \in {"bare", "running"} => worker'[w].pc \in {"bare", "spawned", "wait"}

\* A step of a worker keeps Shape.
LEMMA WorkerFrameShape == ASSUME Shape, NEW w \in Workers, WorkerFrame(w) PROVE Shape'
<1>1. worker'[w].pc # "idle" => worker'[w].job \in Jobs
  BY DEF WorkerFrame, Shape, WorkerShape
<1>2. worker'[w].pc \in Supervising => order[worker'[w].job] # 0
  BY DEF WorkerFrame, Supervising
<1> QED
  BY <1>1, <1>2, WorkerStep DEF WorkerFrame, OnlyCommand, CommandStates

\* A step that respects what it must keeps Sound.
LEMMA WorkerKeeps ==
  ASSUME Shape, Shape', Sound, NEW w \in Workers, WorkerFrame(w), WorkerSafe(w), Unstarted'
  PROVE  Sound'
<1>1. /\ OnlyWorker(w) /\ Onward /\ UNCHANGED <<order, client>>
      /\ \A v \in Workers \ {w} : worker'[v] = worker[v] /\ command'[v] = command[v]
      /\ worker'[w].pc # "idle" => worker[w].pc # "idle" /\ worker'[w].job = worker[w].job
  BY DEF WorkerFrame, OnlyWorker, OnlyCommand, unmoved
<1>2. Locks'
  <2>1. ASSUME NEW c \in Clients PROVE LocksOf(c)'
    BY <1>1 DEF Sound, Locks, LocksOf
  <2>2. \A v \in Workers : worker'[v].pc \in Supervising => worker'[v].lock = order'[worker'[v].job]
    BY <1>1 DEF Sound, Locks, WorkerSafe, Supervising
  <2> QED
    BY <2>1, <2>2 DEF Locks
<1>3. Exclusive'
  <2>1. \A c, d \in Clients :
          HoldsLaunch(c)' /\ HoldsLaunch(d)' /\ client'[c].lock = client'[d].lock => c = d
    BY <1>1 DEF Sound, Exclusive, HoldsLaunch
  <2>2. ASSUME NEW u \in Workers, NEW v \in Workers, worker'[v].pc \in Supervising,
               worker'[u].pc \in Supervising, worker'[u].job = worker'[v].job
        PROVE  u = v
    BY <1>1, <2>2 DEF Sound, Exclusive, WorkerSafe, Supervising
  <2> QED
    BY <2>1, <2>2 DEF Exclusive
<1>4. Link'
  BY <1>1 DEF Sound, Link, Shape, ClientShape, ClientOK
<1>5. Passed'
  <2>1. ASSUME NEW v \in Workers, worker'[v].pc \in Supervising \ {"check", "begin"}
        PROVE  PastNext(worker'[v].job)
    <3>1. CASE v = w
      BY <1>1, <2>1, <3>1 DEF WorkerSafe, Supervising
    <3>2. CASE v # w
      <4>1. worker[v].job \in Jobs /\ Past(worker[v].job)
        BY <1>1, <2>1, <3>2 DEF Sound, Passed, Shape, WorkerShape, Supervising
      <4> QED
        BY <1>1, <3>2, <4>1, PastStays
    <3> QED
      BY <3>1, <3>2
  <2>2. ASSUME NEW d \in Clients, client'[d].pc \in {"started", "await", "wait", "held"}
        PROVE  PastNext(client'[d].job)
    <3>1. client[d].job \in Jobs /\ Past(client[d].job)
      BY <1>1, <2>2 DEF Sound, Passed, Shape, ClientShape, ClientOK
    <3> QED
      BY <1>1, <3>1, PastStays
  <2> QED
    BY <2>1, <2>2 DEF Passed, Past, PastNext
<1>6. Live'
  <2> SUFFICES ASSUME NEW v \in Workers, Attended(v)'
               PROVE  /\ phase'[worker'[v].job] \in Active \cup {"launch_failed"}
                      /\ \A c \in Clients : client'[c].pc = "kill" => client'[c].job # worker'[v].job
    BY DEF Live
  <2>1. CASE v = w
    <3>1. worker'[w].pc # "idle"
      BY <2>1 DEF Attended, Announced, Supervising
    <3> QED
      BY <1>1, <2>1, <3>1 DEF WorkerSafe
  <2>2. CASE v # w
    <3>1. Attended(v)
      BY <1>1, <2>2 DEF Attended, Announced
    <3> QED
      BY <1>1, <2>2, <3>1 DEF WorkerSafe, Sound, Live
  <2> QED
    BY <2>1, <2>2
<1>7. Removal'
  <2> SUFFICES ASSUME NEW d \in Clients
               PROVE  /\ client[d].pc \in {"drain", "rename"} => phase'[client[d].victim[1]] \in Outcomes
                      /\ client[d].pc = "rename" =>
                           \A v \in Workers :
                             worker'[v].pc \in Supervising /\ worker'[v].job = client[d].victim[1]
                               => worker'[v].pc = "check"
    BY <1>1 DEF Removal
  <2>1. client[d].pc \in {"drain", "rename"} => client[d].victim[1] \in Jobs
    BY DEF Shape, ClientShape, ClientOK
  <2>2. client[d].pc \in {"drain", "rename"} => phase[client[d].victim[1]] \in Outcomes
    BY DEF Sound, Removal
  <2>3. client[d].pc \in {"drain", "rename"} => phase'[client[d].victim[1]] \in Outcomes
    BY <1>1, <2>1, <2>2, OutcomeStays
  <2>4. ASSUME client[d].pc = "rename", NEW v \in Workers, worker'[v].pc \in Supervising,
               worker'[v].job = client[d].victim[1]
        PROVE  worker'[v].pc = "check"
    <3>1. CASE v # w
      BY <1>1, <2>4, <3>1 DEF Sound, Removal
    <3>2. CASE v = w
      <4>1. worker[w].job = client[d].victim[1]
        BY <1>1, <2>4, <3>2 DEF Supervising
      <4> QED
        BY <2>2, <2>4, <3>2, <4>1 DEF Sound, Removal, WorkerSafe
    <3> QED
      BY <3>1, <3>2
  <2> QED
    BY <2>3, <2>4
<1>8. Supervised'
  BY <1>1 DEF Sound, Supervised, WorkerSafe
<1> QED
  BY <1>2, <1>3, <1>4, <1>5, <1>6, <1>7, <1>8 DEF Sound

\* The record of a job's command stays as it is, and so does the worker before it.
LEMMA UnstartedStays ==
  ASSUME Shape, Sound, NEW w \in Workers, WorkerFrame(w), UNCHANGED runs,
         worker'[w].pc \in {"begin", "announce", "admit", "prepare", "spawn"} => runs[worker[w].job] = <<>>
  PROVE  Unstarted'
<1>1. /\ Onward /\ UNCHANGED <<order, runs>>
      /\ \A v \in Workers \ {w} : worker'[v] = worker[v]
      /\ worker'[w].pc # "idle" => worker'[w].job = worker[w].job
  BY DEF WorkerFrame, OnlyWorker, unmoved
<1>2. \A j \in Jobs : ~PastNext(j) => ~Past(j)
  BY <1>1, PastStays
<1> QED
  BY <1>1, <1>2 DEF Sound, Unstarted, Past, PastNext

\* A worker that supervises a job is the only one, so it alone may finish the job.
LEMMA OthersKept ==
  ASSUME Shape, Sound, NEW w \in Workers, NEW v \in Workers \ {w}, Attended(v),
         \/ Seen
         \/ worker[w].pc \in Supervising /\ \A k \in Jobs \ {worker[w].job} : phase'[k] = phase[k]
  PROVE  phase'[worker[v].job] \in Active \cup {"launch_failed"}
<1>1. CASE Seen
  BY <1>1, SeenLive
<1>2. CASE worker[w].pc \in Supervising /\ \A k \in Jobs \ {worker[w].job} : phase'[k] = phase[k]
  <2>1. worker[v].pc \in Supervising
    BY DEF Attended, Announced, Supervising
  <2>2. worker[v].job \in Jobs
    BY <2>1 DEF Shape, WorkerShape, Supervising
  <2>3. worker[v].job # worker[w].job
    BY <1>2, <2>1 DEF Sound, Exclusive
  <2> QED
    BY <1>2, <2>2, <2>3 DEF Sound, Live
<1> QED
  BY <1>1, <1>2

\* A worker that leaves keeps Shape and Sound.
LEMMA WorkerLeaverKeeps ==
  ASSUME Shape, NEW w \in Workers, WorkerLeaves(w), Onward, UNCHANGED <<unmoved, client, runs>>,
         worker[w].pc # "idle",
         \/ Seen
         \/ worker[w].pc \in Supervising /\ \A k \in Jobs \ {worker[w].job} : phase'[k] = phase[k]
  PROVE  Shape' /\ (Sound => Sound')
<1>1. WorkerFrame(w)
  BY DEF WorkerLeaves, WorkerFrame, Shape, TypeOK, Supervising
<1>2. Shape'
  BY <1>1, WorkerFrameShape
<1>3. ASSUME Sound PROVE Sound'
  <2>1. \A v \in Workers \ {w} : Attended(v) => phase'[worker[v].job] \in Active \cup {"launch_failed"}
    BY <1>3, OthersKept
  <2>2. WorkerSafe(w)
    BY <2>1 DEF WorkerSafe, WorkerLeaves, Attended, Announced, Supervising
  <2>3. Unstarted'
    BY <1>1, <1>3, UnstartedStays DEF WorkerLeaves
  <2> QED
    BY <1>1, <1>2, <1>3, <2>2, <2>3, WorkerKeeps
<1> QED
  BY <1>2, <1>3

\* A worker goes on, and only its job changes.
WorkerGoes(w, pc) ==
  /\ WorkerMoves(w, pc) /\ OnlyCommand(w) /\ Onward
  /\ worker[w].pc \in Supervising /\ pc \in Supervising
  /\ \A k \in Jobs \ {worker[w].job} : phase'[k] = phase[k]
  /\ UNCHANGED <<unmoved, client>>
  /\ runs' \in [Jobs -> Seq(1 .. MaxSequence)]

\* A worker that goes on keeps Shape.
LEMMA WorkerGoerShape ==
  ASSUME Shape, NEW w \in Workers, NEW pc, WorkerGoes(w, pc)
  PROVE  WorkerFrame(w) /\ Shape'
<1>1. WorkerFrame(w)
  BY DEF WorkerGoes, WorkerMoves, WorkerFrame, Shape, WorkerShape, Supervising
<1> QED
  BY <1>1, WorkerFrameShape

\* It keeps Sound when what it relies on at its next step holds.
LEMMA WorkerGoerKeeps ==
  ASSUME Shape, Sound, NEW w \in Workers, NEW pc, WorkerGoes(w, pc), Unstarted',
         command'[w] \in {"bare", "running"} => pc \in {"bare", "spawned", "wait"},
         pc \notin {"check", "begin"} => PastNext(worker[w].job),
         pc # "check" => worker[w].pc # "check" \/ phase[worker[w].job] \notin Outcomes,
         Attended(w)' =>
           /\ phase'[worker[w].job] \in Active \cup {"launch_failed"}
           /\ \A c \in Clients : client[c].pc = "kill" => client[c].job # worker[w].job
  PROVE  Sound'
<1>1. WorkerFrame(w) /\ Shape'
  BY WorkerGoerShape
<1>2. \A v \in Workers \ {w} : Attended(v) => phase'[worker[v].job] \in Active \cup {"launch_failed"}
  BY OthersKept DEF WorkerGoes
<1>3. worker'[w].lock = order[worker[w].job]
  BY DEF WorkerGoes, WorkerMoves, Sound, Locks
<1>4. \A v \in Workers \ {w} : worker[v].pc \in Supervising => worker[v].job # worker[w].job
  BY DEF WorkerGoes, Sound, Exclusive
<1>5. WorkerSafe(w)
  BY <1>2, <1>3, <1>4 DEF WorkerSafe, WorkerGoes, WorkerMoves
<1> QED
  BY <1>1, <1>5, WorkerKeeps

\* An announced worker goes on to supervise its job.
LEMMA AnnouncedKeeps ==
  ASSUME Shape, Sound, NEW w \in Workers, NEW pc, WorkerGoes(w, pc), Announced(w), Unstarted',
         command'[w] \in {"bare", "running"} => pc \in {"bare", "spawned", "wait"},
         pc \notin {"check", "begin", "announce"},
         phase'[worker[w].job] \in {phase[worker[w].job]} \cup Active
  PROVE  Sound'
<1>1. worker[w].job \in Jobs /\ worker[w].pc \in Supervising \ {"check", "begin"}
  BY DEF Announced, Shape, WorkerShape, Supervising
<1>2. PastNext(worker[w].job)
  BY <1>1, PastStays DEF Sound, Passed, WorkerGoes, unmoved
<1>3. Attended(w)
  BY DEF Attended
<1>4. /\ phase[worker[w].job] \in Active \cup {"launch_failed"}
      /\ \A c \in Clients : client[c].pc = "kill" => client[c].job # worker[w].job
  BY <1>3 DEF Sound, Live
<1> QED
  BY <1>1, <1>2, <1>4, WorkerGoerKeeps

\* A worker gets the worker lock only when nobody holds it.
LEMMA WorkerLockKeeps ==
  ASSUME Shape, NEW w \in Workers, WorkerLock(w)
  PROVE  Shape' /\ (Sound => Sound')
<1> DEFINE j == worker[w].job
           r == [worker[w] EXCEPT !.pc = "check", !.lock = order[j]]
<1>1. /\ worker[w].pc = "open" /\ UNCHANGED <<phase, unmoved, client, runs>>
      /\ TypeOK /\ j \in Jobs
  BY DEF WorkerLock, Shape, WorkerShape
<1>2. Onward /\ Seen
  BY <1>1, StillSeen
<1>3. CASE Leave(w, "error") \/ Leave(w, "idle")
  <2>1. WorkerLeaves(w)
    BY <1>1, <1>3, LeaveEffect
  <2> QED
    BY <1>1, <1>2, <2>1, WorkerLeaverKeeps
<1>4. CASE /\ phase[j] # "absent" /\ AliveFree(order[j])
           /\ worker' = [worker EXCEPT ![w].pc = "check", ![w].lock = order[j]]
           /\ UNCHANGED command
  <2>1. worker \in [Workers -> WorkerStates] /\ worker[w] \in WorkerStates /\ order[j] \in 0 .. MaxSequence
    BY <1>1 DEF TypeOK
  <2>2. worker' = [worker EXCEPT ![w] = r]
    BY <1>4, <2>1
  <2>3. r \in WorkerStates /\ r.pc = "check" /\ r.lock = order[j] /\ r.job = j
    BY <2>1 DEF WorkerStates, Supervising
  <2>4. OnlyWorker(w) /\ worker'[w] = r
    <3> HIDE DEF r
    <3> QED
      BY <1>1, <2>2, <2>3, PutWorker
  <2>5. worker'[w].pc = "check" /\ worker'[w].lock = order[j] /\ worker'[w].job = j
    BY <2>3, <2>4
  <2>6. OnlyCommand(w)
    BY <1>1, <1>4, SameCommand
  <2>7. order[j] # 0
    BY <1>1, <1>4 DEF Shape, Numbered
  <2>8. WorkerFrame(w)
    BY <1>1, <1>2, <2>4, <2>5, <2>6, <2>7 DEF WorkerFrame, TypeOK, Supervising
  <2>9. Shape'
    BY <2>8, WorkerFrameShape
  <2>10. ASSUME Sound PROVE Sound'
    <3>1. \A v \in Workers : worker[v].pc \in Supervising => worker[v].job # j
      BY <1>4, <2>10 DEF AliveFree, Sound, Locks
    <3>2. \A v \in Workers \ {w} : Attended(v) => phase'[worker[v].job] \in Active \cup {"launch_failed"}
      BY <1>2, <2>10, SeenLive
    <3>3. ~Attended(w)'
      BY <2>5 DEF Attended, Announced
    <3>4. command[w] \notin {"bare", "running"}
      BY <1>1, <2>10 DEF Sound, Supervised
    <3>5. WorkerSafe(w)
      BY <1>4, <2>5, <3>1, <3>2, <3>3, <3>4 DEF WorkerSafe
    <3>6. Unstarted'
      BY <1>1, <2>5, <2>8, <2>10, UnstartedStays
    <3> QED
      BY <2>8, <2>9, <2>10, <3>5, <3>6, WorkerKeeps
  <2> QED
    BY <2>9, <2>10
<1> QED
  BY <1>3, <1>4 DEF WorkerLock

\* With its lock, a worker goes on only for an accepted job.
LEMMA CheckKeeps ==
  ASSUME Shape, NEW w \in Workers, Check(w)
  PROVE  Shape' /\ (Sound => Sound')
<1> DEFINE j == worker[w].job
<1>1. /\ worker[w].pc = "check" /\ UNCHANGED <<unmoved, client, runs>> /\ Become(j, Status(j))
      /\ TypeOK /\ j \in Jobs
  BY DEF Check, Shape, WorkerShape
<1>2. Onward /\ Seen /\ phase'[j] = Status(j)
  BY <1>1, BecomeSeen
<1>3. CASE Leave(w, "error") \/ Leave(w, "idle")
  <2>1. WorkerLeaves(w)
    BY <1>1, <1>3, LeaveEffect
  <2> QED
    BY <1>1, <1>2, <2>1, WorkerLeaverKeeps
<1>4. CASE /\ phase[j] = "accepted" /\ UNCHANGED command
           /\ \E limited \in Limits : worker' = [worker EXCEPT ![w].pc = "begin", ![w].limited = limited]
  <2>1. PICK limited \in Limits : worker' = [worker EXCEPT ![w].pc = "begin", ![w].limited = limited]
    BY <1>4
  <2> DEFINE r == [worker[w] EXCEPT !.pc = "begin", !.limited = limited]
  <2>2. worker \in [Workers -> WorkerStates] /\ worker[w] \in WorkerStates /\ limited \in BOOLEAN
    BY <1>1, JobsAssumption DEF TypeOK
  <2>3. worker' = [worker EXCEPT ![w] = r]
    BY <2>1, <2>2
  <2>4. r \in WorkerStates /\ r.pc = "begin" /\ r.lock = worker[w].lock /\ r.job = j
    BY <2>2 DEF WorkerStates, Supervising
  <2>5. WorkerMoves(w, "begin")
    <3> HIDE DEF r
    <3> QED
      BY <1>1, <2>3, <2>4, PutWorker DEF WorkerMoves
  <2>6. phase'[j] = "accepted" /\ \A k \in Jobs \ {j} : phase'[k] = phase[k]
    <3>1. Status(j) = phase[j]
      BY <1>4 DEF Status, Active
    <3> QED
      BY <1>1, <1>2, <1>4, <3>1, BecomeOnward
  <2>7. OnlyCommand(w)
    BY <1>1, <1>4, SameCommand
  <2>8. WorkerGoes(w, "begin")
    BY <1>1, <1>2, <1>4, <2>5, <2>6, <2>7 DEF WorkerGoes, TypeOK, Supervising
  <2>9. WorkerFrame(w) /\ Shape'
    BY <2>8, WorkerGoerShape
  <2>10. ASSUME Sound PROVE Sound'
    <3>1. command'[w] \notin {"bare", "running"}
      BY <1>1, <1>4, <2>10 DEF Sound, Supervised
    <3>2. runs[j] = <<>>
      BY <1>1, <1>4, <2>10 DEF Sound, Unstarted, Past
    <3>3. Unstarted'
      BY <1>1, <2>9, <2>10, <3>2, UnstartedStays
    <3>4. ~Attended(w)'
      BY <2>5 DEF Attended, Announced, WorkerMoves
    <3> QED
      BY <1>1, <1>4, <2>8, <2>10, <3>1, <3>3, <3>4, WorkerGoerKeeps DEF Outcomes
  <2> QED
    BY <2>9, <2>10
<1> QED
  BY <1>3, <1>4 DEF Check

\* A worker whose launcher still waits is not killed behind the launcher's back:
\* a kill of the job would hold the launch lock the launcher holds.
LEMMA LauncherExcludesKill ==
  ASSUME Shape, Sound, NEW w \in Workers, worker[w].pc # "idle",
         NEW c \in Clients, client[c].pc = "ready", client[c].worker = w,
         NEW d \in Clients, client[d].pc = "kill"
  PROVE  client[d].job # worker[w].job
<1> SUFFICES ASSUME client[d].job = worker[w].job PROVE FALSE
  OBVIOUS
<1>1. client[c].job = client[d].job
  BY DEF Sound, Link
<1>2. client[c].lock = order[client[c].job] /\ client[d].lock = order[client[d].job]
  BY DEF Sound, Locks, LocksOf
<1>3. HoldsLaunch(c) /\ HoldsLaunch(d)
  BY DEF HoldsLaunch
<1>4. c = d
  BY <1>1, <1>2, <1>3 DEF Sound, Exclusive
<1> QED
  BY <1>4

\* The first event of a worker takes its job from accepted to active.
LEMMA BeginKeeps ==
  ASSUME Shape, NEW w \in Workers, Begin(w)
  PROVE  Shape' /\ (Sound => Sound')
<1> DEFINE j == worker[w].job
           event == IF worker[w].limited THEN "queued" ELSE "starting"
<1>1. /\ worker[w].pc = "begin" /\ worker[w].pc \in Supervising /\ UNCHANGED <<unmoved, client, runs>>
      /\ TypeOK /\ j \in Jobs /\ order[j] # 0 /\ Transition(w, event, "announce")
  BY DEF Begin, Shape, WorkerShape, Supervising
<1>2. event \in {"queued", "starting"} /\ "announce" \in Supervising
  BY DEF Supervising
<1> HIDE DEF event
<1>3. /\ Onward /\ \A k \in Jobs \ {j} : phase'[k] = phase[k]
      /\ \/ WorkerLeaves(w)
         \/ /\ WorkerMoves(w, "announce") /\ UNCHANGED command
            /\ Advance(phase[j], event) # "invalid" /\ phase'[j] = Advance(phase[j], event)
  BY <1>1, <1>2, TransitionEffect
<1>4. CASE WorkerLeaves(w)
  BY <1>1, <1>3, <1>4, WorkerLeaverKeeps
<1>5. CASE /\ WorkerMoves(w, "announce") /\ UNCHANGED command
           /\ Advance(phase[j], event) # "invalid" /\ phase'[j] = Advance(phase[j], event)
  <2>1. phase'[j] \in Active
    BY <1>2, <1>5 DEF Advance, Active
  <2>2. OnlyCommand(w)
    BY <1>1, <1>5, SameCommand
  <2>3. WorkerGoes(w, "announce")
    BY <1>1, <1>2, <1>3, <1>5, <2>2 DEF WorkerGoes, TypeOK
  <2>4. WorkerFrame(w) /\ Shape'
    BY <2>3, WorkerGoerShape
  <2>5. ASSUME Sound PROVE Sound'
    <3>1. command'[w] \notin {"bare", "running"}
      BY <1>1, <1>5, <2>5 DEF Sound, Supervised
    <3>2. Unstarted'
      BY <1>1, <2>4, <2>5, UnstartedStays DEF Sound, Unstarted
    <3>3. PastNext(j)
      BY <1>1, <2>1 DEF PastNext, unmoved, Active
    <3>4. Attended(w)' => \A d \in Clients : client[d].pc = "kill" => client[d].job # j
      <4> SUFFICES ASSUME Attended(w)', NEW d \in Clients, client[d].pc = "kill" PROVE client[d].job # j
        OBVIOUS
      <4>1. PICK c \in Clients : client[c].pc = "ready" /\ client[c].worker = w
        BY <1>1, <1>5 DEF Attended, Announced, WorkerMoves
      <4> QED
        BY <1>1, <2>5, <4>1, LauncherExcludesKill
    <3> QED
      BY <1>1, <2>1, <2>3, <2>5, <3>1, <3>2, <3>3, <3>4, WorkerGoerKeeps
  <2> QED
    BY <2>4, <2>5
<1> QED
  BY <1>3, <1>4, <1>5

\* A worker that records an outcome and ends.
LEMMA FinisherKeeps ==
  ASSUME Shape, NEW w \in Workers, worker[w].pc \in Supervising, NEW event,
         Transition(w, event, "idle"), UNCHANGED <<unmoved, client, runs>>
  PROVE  Shape' /\ (Sound => Sound')
<1>1. /\ Onward /\ \A k \in Jobs \ {worker[w].job} : phase'[k] = phase[k]
      /\ WorkerLeaves(w)
  BY TransitionEffect
<1> QED
  BY <1>1, WorkerLeaverKeeps DEF Supervising

\* A cancelled worker records the kill and leaves.
LEMMA CancelledKeeps ==
  ASSUME Shape, NEW w \in Workers, Cancelled(w)
  PROVE  Shape' /\ (Sound => Sound')
BY FinisherKeeps DEF Cancelled, Supervising

\* A worker that cannot start its command records it and leaves.
LEMMA SpawnFailsKeeps ==
  ASSUME Shape, NEW w \in Workers, SpawnFails(w)
  PROVE  Shape' /\ (Sound => Sound')
BY FinisherKeeps DEF SpawnFails, Supervising

\* A worker records the outcome of its command and leaves.
LEMMA FinishKeeps ==
  ASSUME Shape, NEW w \in Workers, Finish(w)
  PROVE  Shape' /\ (Sound => Sound')
<1>1. PICK event : Transition(w, event, "idle")
  BY DEF Finish
<1> QED
  BY <1>1, FinisherKeeps DEF Finish, Supervising

\* A worker that gives up without a word.
LEMMA QuitterKeeps ==
  ASSUME Shape, NEW w \in Workers, worker[w].pc # "idle", NEW pc \in {"idle", "error"}, Leave(w, pc),
         UNCHANGED <<phase, unmoved, client, runs>>
  PROVE  Shape' /\ (Sound => Sound')
<1>1. WorkerLeaves(w)
  BY LeaveEffect DEF Shape
<1>2. Onward /\ Seen
  BY StillSeen DEF Shape
<1> QED
  BY <1>1, <1>2, WorkerLeaverKeeps

\* A worker that fails or dies gives up its lock, and its command is nobody's.
LEMMA QuitKeeps ==
  ASSUME Shape, NEW w \in Workers, FinishBroken(w) \/ Fail(w) \/ WorkerCrash(w)
  PROVE  Shape' /\ (Sound => Sound')
BY QuitterKeeps DEF FinishBroken, Fail, WorkerCrash, Supervising, record, unmoved

\* An announced worker that goes on before or after its command keeps Shape and Sound.
LEMMA AnnouncedGoes ==
  ASSUME Shape, NEW w \in Workers, Announced(w), NEW pc \in Supervising \ {"check", "begin", "announce"},
         WorkerMoves(w, pc), OnlyCommand(w), Onward, UNCHANGED <<unmoved, client, runs>>,
         \A k \in Jobs \ {worker[w].job} : phase'[k] = phase[k],
         phase'[worker[w].job] \in {phase[worker[w].job]} \cup Active,
         pc \in {"admit", "prepare", "spawn"} =>
           worker[w].pc \in {"admit", "prepare", "spawn"} /\ UNCHANGED command,
         pc = "unguarded" => command'[w] \notin {"bare", "running"}
  PROVE  Shape' /\ (Sound => Sound')
<1>1. worker[w].pc \in Supervising
  BY DEF Announced
<1>2. WorkerGoes(w, pc)
  BY <1>1 DEF WorkerGoes, Shape, TypeOK
<1>3. WorkerFrame(w) /\ Shape'
  BY <1>2, WorkerGoerShape
<1>4. ASSUME Sound PROVE Sound'
  <2>1. pc \in {"begin", "announce", "admit", "prepare", "spawn"} => runs[worker[w].job] = <<>>
    BY <1>4 DEF Sound, Unstarted
  <2>2. Unstarted'
    BY <1>3, <1>4, <2>1, UnstartedStays DEF WorkerMoves
  <2>3. command'[w] \in {"bare", "running"} => pc \in {"bare", "spawned", "wait"}
    BY <1>4 DEF Sound, Supervised, Supervising
  <2> QED
    BY <1>2, <1>4, <2>2, <2>3, AnnouncedKeeps
<1> QED
  BY <1>3, <1>4

\* A worker that is not cancelled goes on to start its command.
LEMMA PrepareKeeps ==
  ASSUME Shape, NEW w \in Workers, Prepare(w)
  PROVE  Shape' /\ (Sound => Sound')
<1>1. TypeOK /\ Announced(w) /\ UNCHANGED <<phase, unmoved, client, command, runs>>
  BY DEF Prepare, Announced, Supervising, record, unmoved, Shape
<1>2. WorkerMoves(w, "spawn")
  BY <1>1, WorkerMoveEffect DEF Prepare, Supervising
<1>3. OnlyCommand(w) /\ Onward
  BY <1>1, SameCommand, StillOnward
<1> QED
  BY <1>1, <1>2, <1>3, AnnouncedGoes DEF Prepare, Supervising

\* A worker with a slot goes on to prepare its command.
LEMMA AdmitKeeps ==
  ASSUME Shape, NEW w \in Workers, Admit(w)
  PROVE  Shape' /\ (Sound => Sound')
<1>1. TypeOK /\ Announced(w) /\ worker[w].pc \in Supervising /\ UNCHANGED <<unmoved, client, runs>>
  BY DEF Admit, Announced, Supervising, Shape
<1>2. CASE WorkerMove(w, "prepare") /\ UNCHANGED <<phase, command>>
  <2>1. WorkerMoves(w, "prepare")
    BY <1>1, <1>2, WorkerMoveEffect DEF Supervising
  <2>2. OnlyCommand(w) /\ Onward
    BY <1>1, <1>2, SameCommand, StillOnward
  <2> QED
    BY <1>1, <1>2, <2>1, <2>2, AnnouncedGoes DEF Admit, Supervising
<1>3. CASE Transition(w, "starting", "prepare")
  <2>1. /\ Onward /\ \A k \in Jobs \ {worker[w].job} : phase'[k] = phase[k]
        /\ \/ WorkerLeaves(w)
           \/ /\ WorkerMoves(w, "prepare") /\ UNCHANGED command
              /\ Advance(phase[worker[w].job], "starting") # "invalid"
              /\ phase'[worker[w].job] = Advance(phase[worker[w].job], "starting")
    BY <1>1, <1>3, TransitionEffect DEF Supervising
  <2>2. CASE WorkerLeaves(w)
    BY <1>1, <2>1, <2>2, WorkerLeaverKeeps DEF Supervising
  <2>3. CASE /\ WorkerMoves(w, "prepare") /\ UNCHANGED command
             /\ Advance(phase[worker[w].job], "starting") # "invalid"
             /\ phase'[worker[w].job] = Advance(phase[worker[w].job], "starting")
    <3>1. phase'[worker[w].job] \in Active
      BY <2>3 DEF Advance, Active
    <3>2. OnlyCommand(w)
      BY <1>1, <2>3, SameCommand
    <3> QED
      BY <1>1, <2>1, <2>3, <3>1, <3>2, AnnouncedGoes DEF Admit, Supervising
  <2> QED
    BY <2>1, <2>2, <2>3
<1> QED
  BY <1>2, <1>3 DEF Admit

\* A worker records that its command runs.
LEMMA SpawnedKeeps ==
  ASSUME Shape, NEW w \in Workers, Spawned(w)
  PROVE  Shape' /\ (Sound => Sound')
<1>1. TypeOK /\ Announced(w) /\ worker[w].pc \in Supervising /\ UNCHANGED <<unmoved, client, runs>>
  BY DEF Spawned, Announced, Supervising, Shape
<1>2. /\ Onward /\ \A k \in Jobs \ {worker[w].job} : phase'[k] = phase[k]
      /\ \/ WorkerLeaves(w)
         \/ /\ WorkerMoves(w, "wait") /\ UNCHANGED command
            /\ Advance(phase[worker[w].job], "spawned") # "invalid"
            /\ phase'[worker[w].job] = Advance(phase[worker[w].job], "spawned")
  BY <1>1, TransitionEffect DEF Spawned, Supervising
<1>3. CASE WorkerLeaves(w)
  BY <1>1, <1>2, <1>3, WorkerLeaverKeeps DEF Supervising
<1>4. CASE /\ WorkerMoves(w, "wait") /\ UNCHANGED command
           /\ Advance(phase[worker[w].job], "spawned") # "invalid"
           /\ phase'[worker[w].job] = Advance(phase[worker[w].job], "spawned")
  <2>1. phase'[worker[w].job] \in Active
    BY <1>4 DEF Advance, Active
  <2>2. OnlyCommand(w)
    BY <1>1, <1>4, SameCommand
  <2> QED
    BY <1>1, <1>2, <1>4, <2>1, <2>2, AnnouncedGoes DEF Supervising
<1> QED
  BY <1>2, <1>3, <1>4

\* The command of a worker ends or gets its reaper.
LEMMA SetCommand ==
  ASSUME TypeOK, NEW w \in Workers, NEW state \in CommandStates, command' = [command EXCEPT ![w] = state]
  PROVE  OnlyCommand(w) /\ command'[w] = state
BY DEF TypeOK, OnlyCommand, CommandStates

\* A command gets its reaper, or is killed without one.
LEMMA GuardKeeps ==
  ASSUME Shape, NEW w \in Workers, Guard(w) \/ Unguarded(w)
  PROVE  Shape' /\ (Sound => Sound')
<1>1. /\ TypeOK /\ Announced(w) /\ worker[w].pc = "bare" /\ UNCHANGED <<phase, unmoved, client, runs>>
  BY DEF Guard, Unguarded, Announced, Supervising, record, unmoved, Shape
<1>2. Onward
  BY <1>1, StillOnward
<1>3. CASE Guard(w)
  <2>1. WorkerMoves(w, "spawned")
    BY <1>1, <1>3, WorkerMoveEffect DEF Guard, Supervising
  <2>2. OnlyCommand(w)
    <3>1. command' = [command EXCEPT ![w] = IF command[w] = "bare" THEN "running" ELSE command[w]]
      BY <1>3 DEF Guard
    <3>2. (IF command[w] = "bare" THEN "running" ELSE command[w]) \in CommandStates
      BY <1>1 DEF TypeOK, CommandStates
    <3> QED
      BY <1>1, <3>1, <3>2, SetCommand
  <2> QED
    BY <1>1, <1>2, <2>1, <2>2, AnnouncedGoes DEF Supervising
<1>4. CASE Unguarded(w)
  <2>1. WorkerMoves(w, "unguarded")
    BY <1>1, <1>4, WorkerMoveEffect DEF Unguarded, Supervising
  <2>2. OnlyCommand(w) /\ command'[w] = "ended"
    BY <1>1, <1>4, SetCommand DEF Unguarded, CommandStates
  <2> QED
    BY <1>1, <1>2, <2>1, <2>2, AnnouncedGoes DEF Supervising
<1> QED
  BY <1>3, <1>4

\* The watch of a worker kills its command, or breaks.
LEMMA WatchKeeps ==
  ASSUME Shape, NEW w \in Workers, Watch(w) \/ WatchBreaks(w)
  PROVE  Shape' /\ (Sound => Sound')
<1>1. /\ TypeOK /\ Announced(w) /\ worker[w].pc = "wait" /\ UNCHANGED <<phase, unmoved, client, runs>>
  BY DEF Watch, WatchBreaks, Announced, Supervising, record, unmoved, Shape
<1>2. Onward
  BY <1>1, StillOnward
<1>3. PICK watch \in {"cancelled", "broken"} : worker' = [worker EXCEPT ![w].watch = watch]
  BY DEF Watch, WatchBreaks
<1> DEFINE r == [worker[w] EXCEPT !.watch = watch]
<1>4. worker \in [Workers -> WorkerStates] /\ worker[w] \in WorkerStates
  BY <1>1 DEF TypeOK
<1>5. worker' = [worker EXCEPT ![w] = r]
  BY <1>3, <1>4
<1>6. r \in WorkerStates /\ r.pc = "wait" /\ r.job = worker[w].job /\ r.lock = worker[w].lock
  BY <1>1, <1>4 DEF WorkerStates
<1>7. WorkerMoves(w, "wait")
  <2> HIDE DEF r
  <2> QED
    BY <1>1, <1>5, <1>6, PutWorker DEF WorkerMoves
<1>8. OnlyCommand(w)
  <2>1. CASE UNCHANGED command
    BY <1>1, <2>1, SameCommand
  <2>2. CASE command' = [command EXCEPT ![w] = "ended"]
    BY <1>1, <2>2, SetCommand DEF CommandStates
  <2> QED
    BY <2>1, <2>2 DEF Watch, WatchBreaks
<1> QED
  BY <1>1, <1>2, <1>7, <1>8, AnnouncedGoes DEF Supervising

\* A failed worker, without its lock, records a failed launch at most.
LEMMA RecordFailureKeeps ==
  ASSUME Shape, NEW w \in Workers, RecordFailure(w)
  PROVE  Shape' /\ (Sound => Sound')
<1> DEFINE j == worker[w].job
<1>1. /\ TypeOK /\ worker[w].pc = "error" /\ j \in Jobs /\ UNCHANGED <<unmoved, client, command, runs>>
      /\ worker' = [worker EXCEPT ![w] = Gone]
  BY DEF RecordFailure, Shape, WorkerShape
<1>2. Onward /\ Seen
  <2>1. CASE UNCHANGED phase
    BY <1>1, <2>1, StillSeen
  <2>2. CASE Become(j, LaunchFailure(j))
    BY <1>1, <2>2, BecomeSeen
  <2> QED
    BY <2>1, <2>2 DEF RecordFailure, Become
<1>3. Gone \in WorkerStates /\ Gone.pc = "idle"
  BY Bounds DEF Gone, WorkerStates
<1>4. OnlyWorker(w) /\ worker'[w].pc = "idle"
  BY <1>1, <1>3, PutWorker
<1>5. WorkerFrame(w)
  BY <1>1, <1>2, <1>4, SameCommand DEF WorkerFrame, TypeOK, Supervising
<1>6. Shape'
  BY <1>5, WorkerFrameShape
<1>7. ASSUME Sound PROVE Sound'
  <2>1. command[w] \notin {"bare", "running"}
    BY <1>1, <1>7 DEF Sound, Supervised
  <2>2. WorkerLeaves(w)
    BY <1>1, <1>4, <2>1, SameCommand DEF WorkerLeaves
  <2> QED
    BY <1>1, <1>2, <1>7, <2>2, WorkerLeaverKeeps
<1> QED
  BY <1>6, <1>7

\* The one start of a command: the worker that does it is alone with a job whose
\* command was not started.
LEMMA SpawnKeeps ==
  ASSUME Shape, NEW w \in Workers, Spawn(w)
  PROVE  Shape' /\ (Sound => Sound')
<1> DEFINE j == worker[w].job
<1>1. /\ TypeOK /\ Announced(w) /\ worker[w].pc = "spawn" /\ worker[w].pc \in Supervising
      /\ UNCHANGED <<phase, unmoved, client>> /\ j \in Jobs /\ order[j] # 0
  BY DEF Spawn, Announced, Supervising, record, unmoved, Shape, WorkerShape
<1>2. Onward
  BY <1>1, StillOnward
<1>3. WorkerMoves(w, "bare")
  BY <1>1, WorkerMoveEffect DEF Spawn, Supervising
<1>4. OnlyCommand(w) /\ command'[w] = "bare"
  BY <1>1, SetCommand DEF Spawn, CommandStates
<1>5. runs' = [runs EXCEPT ![j] = Append(runs[j], order[j])]
  BY DEF Spawn
<1>6. runs' \in [Jobs -> Seq(1 .. MaxSequence)]
  <2>1. order[j] \in 1 .. MaxSequence /\ runs[j] \in Seq(1 .. MaxSequence)
    BY <1>1, Bounds DEF TypeOK
  <2>2. Append(runs[j], order[j]) \in Seq(1 .. MaxSequence)
    BY <2>1
  <2> QED
    BY <1>1, <1>5, <2>2 DEF TypeOK
<1>7. WorkerGoes(w, "bare")
  BY <1>1, <1>2, <1>3, <1>4, <1>6 DEF WorkerGoes, Supervising
<1>8. Shape'
  BY <1>7, WorkerGoerShape
<1>9. ASSUME Sound PROVE Sound'
  <2>1. runs[j] = <<>>
    BY <1>1, <1>9 DEF Sound, Unstarted
  <2>2. runs'[j] = <<order[j]>>
    BY <1>1, <1>5, <2>1 DEF TypeOK
  <2>3. \A k \in Jobs \ {j} : runs'[k] = runs[k]
    BY <1>1, <1>5 DEF TypeOK
  <2>4. Past(j) /\ PastNext(j)
    BY <1>1, <1>9 DEF Sound, Passed, Past, PastNext, unmoved
  <2>5. Unstarted'
    <3>1. \A k \in Jobs : runs'[k] = <<>> \/ runs'[k] = <<order[k]>>
      BY <1>9, <2>2, <2>3 DEF Sound, Unstarted
    <3>2. \A k \in Jobs : ~PastNext(k) => runs'[k] = <<>>
      BY <1>1, <1>9, <2>3, <2>4 DEF Sound, Unstarted, Past, PastNext, unmoved
    <3>3. ASSUME NEW v \in Workers, worker'[v].pc \in {"begin", "announce", "admit", "prepare", "spawn"}
          PROVE  runs'[worker'[v].job] = <<>>
      <4>1. v # w /\ worker'[v] = worker[v]
        BY <1>3, <3>3 DEF WorkerMoves, OnlyWorker
      <4>2. worker[v].pc \in Supervising /\ worker[v].job \in Jobs
        BY <3>3, <4>1 DEF Supervising, Shape, WorkerShape
      <4>3. worker[v].job # j
        BY <1>1, <1>9, <4>1, <4>2 DEF Sound, Exclusive
      <4> QED
        BY <1>9, <2>3, <3>3, <4>1, <4>2, <4>3 DEF Sound, Unstarted
    <3> QED
      BY <1>1, <3>1, <3>2, <3>3 DEF Unstarted, Past, PastNext, unmoved
  <2> QED
    BY <1>1, <1>4, <1>7, <1>9, <2>5, AnnouncedKeeps
<1> QED
  BY <1>8, <1>9

\* Commands end by themselves or by their reaper; nothing is started.
LEMMA CommandKeeps ==
  ASSUME Shape, NEW w \in Workers, CommandExit(w) \/ Reap(w)
  PROVE  Shape' /\ (Sound => Sound')
<1>1. /\ TypeOK
      /\ UNCHANGED <<phase, spec, order, cancel, workspace, sequence, admission, client, worker, runs>>
  BY DEF CommandExit, Reap, record, Shape
<1>2. PICK state \in {"none", "ended"} : command' = [command EXCEPT ![w] = state]
  BY DEF CommandExit, Reap
<1>3. OnlyCommand(w) /\ command'[w] = state
  BY <1>1, <1>2, SetCommand DEF CommandStates
<1>4. Shape'
  BY <1>1, <1>3 DEF Shape, TypeOK, ClientShape, ClientOK, WorkerShape, Numbered, OnlyCommand, CommandStates
<1>5. ASSUME Sound PROVE Sound'
  <2>1. Locks' /\ Exclusive' /\ Link'
    BY <1>1, <1>5 DEF Sound, Locks, LocksOf, Exclusive, HoldsLaunch, Link
  <2>2. Passed' /\ Unstarted'
    BY <1>1, <1>5 DEF Sound, Passed, Unstarted, Past
  <2>3. Live' /\ Removal'
    BY <1>1, <1>5 DEF Sound, Live, Attended, Announced, Removal
  <2>4. Supervised'
    BY <1>1, <1>2, <1>3, <1>5 DEF Sound, Supervised, OnlyCommand
  <2> QED
    BY <2>1, <2>2, <2>3, <2>4 DEF Sound
<1> QED
  BY <1>4, <1>5

\* The ready byte: the worker goes on and the launcher that reads it is done.
LEMMA AnnounceKeeps ==
  ASSUME Shape, NEW w \in Workers, Announce(w)
  PROVE  Shape' /\ (Sound => Sound')
<1> DEFINE launchers == {c \in Clients : client[c].pc = "ready" /\ client[c].worker = w}
           told(c) == [client[c] EXCEPT !.pc = "started"]
<1>1. /\ TypeOK /\ worker[w].pc = "announce" /\ worker[w].pc \in Supervising
      /\ UNCHANGED <<phase, unmoved, runs>> /\ worker[w].job \in Jobs
  BY DEF Announce, Shape, WorkerShape, Supervising
<1>2. CASE Leave(w, "error") /\ UNCHANGED client
  BY <1>1, <1>2, QuitterKeeps
<1>3. CASE /\ launchers # {} /\ WorkerMove(w, "admit") /\ UNCHANGED command
           /\ client' = [c \in Clients |-> IF c \in launchers THEN told(c) ELSE client[c]]
  <2>1. client \in [Clients -> ClientStates]
    BY <1>1 DEF TypeOK
  <2>2. ASSUME NEW c \in launchers
        PROVE  /\ told(c) \in ClientStates /\ told(c).pc = "started"
               /\ told(c).op = client[c].op /\ told(c).job = client[c].job /\ told(c).lock = client[c].lock
    <3>1. client[c] \in ClientStates
      BY <2>1, <2>2
    <3> QED
      BY <3>1 DEF ClientStates
  <2> HIDE DEF told
  <2>3. \A c \in Clients \ launchers : client'[c] = client[c]
    BY <1>3
  <2>4. ASSUME NEW c \in launchers
        PROVE  /\ c \in Clients /\ client[c].pc = "ready" /\ client[c].worker = w
               /\ client'[c].pc = "started" /\ client'[c].op = client[c].op
               /\ client'[c].job = client[c].job /\ client'[c].lock = client[c].lock
    BY <1>3, <2>2
  <2>5. client' \in [Clients -> ClientStates]
    BY <1>3, <2>1, <2>2
  <2>6. WorkerMoves(w, "admit")
    BY <1>1, <1>3, WorkerMoveEffect DEF Supervising
  <2>7. /\ worker' \in [Workers -> WorkerStates]
        /\ worker'[w].pc = "admit" /\ worker'[w].job = worker[w].job /\ worker'[w].lock = worker[w].lock
        /\ \A v \in Workers \ {w} : worker'[v] = worker[v]
    BY <2>6 DEF WorkerMoves, OnlyWorker
  <2> HIDE DEF launchers
  <2>8. Shape'
    <3>1. TypeOK'
      BY <1>1, <1>3, <2>5, <2>7 DEF TypeOK, unmoved
    <3>2. ClientShape'
      <4> SUFFICES ASSUME NEW c \in Clients PROVE ClientOK(c)'
        BY DEF ClientShape
      <4>0. ClientOK(c)
        BY DEF Shape, ClientShape
      <4>1. CASE c \in launchers
        BY <1>1, <4>0, <4>1, <2>4 DEF ClientOK, Sweeping, unmoved
      <4>2. CASE c \notin launchers
        BY <1>1, <4>0, <4>2, <2>3 DEF ClientOK, unmoved
      <4> QED
        BY <4>1, <4>2
    <3>3. WorkerShape'
      BY <1>1, <2>7 DEF Shape, WorkerShape, Supervising, unmoved
    <3>4. Numbered'
      <4>1. \A c \in Clients : client'[c].pc \in Sweeping /\ client'[c].op = "run" => phase[client'[c].job] = "absent"
        BY <2>3, <2>4 DEF Shape, Numbered, Sweeping
      <4> QED
        BY <1>1, <4>1 DEF Shape, Numbered, unmoved
    <3> QED
      BY <3>1, <3>2, <3>3, <3>4 DEF Shape
  <2>9. ASSUME Sound PROVE Sound'
    <3>0. UNCHANGED <<phase, order, runs, command>>
      BY <1>1, <1>3 DEF unmoved
    <3>1. Locks'
      <4>1. ASSUME NEW c \in Clients PROVE LocksOf(c)'
        <5>0. LocksOf(c)
          BY <2>9 DEF Sound, Locks
        <5>1. CASE c \in launchers
          BY <3>0, <5>0, <5>1, <2>4 DEF LocksOf, Sweeping
        <5>2. CASE c \notin launchers
          BY <3>0, <5>0, <5>2, <2>3 DEF LocksOf
        <5> QED
          BY <5>1, <5>2
      <4>2. \A v \in Workers : worker'[v].pc \in Supervising => worker'[v].lock = order'[worker'[v].job]
        BY <1>1, <3>0, <2>7, <2>9 DEF Sound, Locks
      <4> QED
        BY <4>1, <4>2 DEF Locks
    <3>2. Exclusive'
      <4>1. \A c \in Clients : HoldsLaunch(c)' => HoldsLaunch(c) /\ client'[c].lock = client[c].lock
        BY <2>3, <2>4 DEF HoldsLaunch
      <4> QED
        BY <1>1, <4>1, <2>7, <2>9 DEF Sound, Exclusive
    <3>3. \A c \in Clients : client'[c].pc = "ready" => client'[c] = client[c]
      BY <2>3, <2>4
    <3>4. Link'
      BY <1>1, <3>3, <2>7, <2>9 DEF Sound, Link, Shape, ClientShape, ClientOK
    <3>5. Passed'
      <4>1. ASSUME NEW v \in Workers, worker'[v].pc \in Supervising \ {"check", "begin"}
            PROVE  Past(worker'[v].job)
        BY <1>1, <4>1, <2>7, <2>9 DEF Sound, Passed
      <4>2. ASSUME NEW c \in Clients, client'[c].pc \in {"started", "await", "wait", "held"}
            PROVE  Past(client'[c].job)
        <5>1. CASE c \in launchers
          <6>1. client'[c].job = worker[w].job
            BY <1>1, <2>4, <2>9, <5>1 DEF Sound, Link
          <6> QED
            BY <1>1, <2>9, <6>1 DEF Sound, Passed
        <5>2. CASE c \notin launchers
          BY <2>3, <2>9, <4>2, <5>2 DEF Sound, Passed
        <5> QED
          BY <5>1, <5>2
      <4> QED
        BY <3>0, <4>1, <4>2 DEF Passed, Past
    <3>6. Unstarted'
      BY <1>1, <3>0, <2>7, <2>9 DEF Sound, Unstarted, Past
    <3>7. Live'
      <4> SUFFICES ASSUME NEW v \in Workers, Attended(v)'
                   PROVE  /\ phase[worker'[v].job] \in Active \cup {"launch_failed"}
                          /\ \A c \in Clients : client'[c].pc = "kill" => client'[c].job # worker'[v].job
        BY <3>0 DEF Live
      <4>1. worker'[v].job = worker[v].job
        BY <2>7
      <4>2. Attended(v)
        <5>1. CASE v = w
          <6>1. PICK c \in Clients : c \in launchers
            BY <1>3 DEF launchers
          <6> QED
            BY <1>1, <5>1, <6>1, <2>4 DEF Attended
        <5>2. CASE v # w
          BY <2>7, <3>3, <5>2 DEF Attended, Announced
        <5> QED
          BY <5>1, <5>2
      <4>3. \A c \in Clients : client'[c].pc = "kill" => client'[c] = client[c]
        BY <2>3, <2>4
      <4> QED
        BY <2>9, <4>1, <4>2, <4>3 DEF Sound, Live
    <3>8. Removal'
      <4>1. \A c \in Clients : client'[c].pc \in {"drain", "rename"} => client'[c] = client[c]
        BY <2>3, <2>4
      <4> QED
        BY <1>1, <2>7, <2>9, <3>0, <4>1 DEF Sound, Removal
    <3>9. Supervised'
      BY <1>1, <2>7, <2>9, <3>0 DEF Sound, Supervised
    <3> QED
      BY <3>1, <3>2, <3>4, <3>5, <3>6, <3>7, <3>8, <3>9 DEF Sound
  <2> QED
    BY <2>8, <2>9
<1> QED
  BY <1>2, <1>3 DEF Announce

-----------------------------------------------------------------------------
(* The invariants. *)

\* Every step keeps Shape, and keeps Sound as long as no submission returns after
\* its record was removed.
LEMMA NextKeeps ==
  ASSUME Shape, [Next]_vars
  PROVE  Shape' /\ (Sound /\ ~Resubmitted => Sound')
<1>1. CASE UNCHANGED vars
  <2>1. Shape'
    BY <1>1 DEF vars, Shape, TypeOK, ClientShape, ClientOK, WorkerShape, Numbered
  <2>2. Sound => Sound'
    <3> SUFFICES ASSUME Sound PROVE Sound'
      OBVIOUS
    <3>1. Locks' /\ Exclusive' /\ Link'
      BY <1>1 DEF vars, Sound, Locks, LocksOf, Exclusive, HoldsLaunch, Link
    <3>2. Passed' /\ Unstarted' /\ Supervised'
      BY <1>1 DEF vars, Sound, Passed, Unstarted, Past, Supervised
    <3>3. Live' /\ Removal'
      BY <1>1 DEF vars, Sound, Live, Attended, Announced, Removal
    <3> QED
      BY <3>1, <3>2, <3>3 DEF Sound
  <2> QED
    BY <2>1, <2>2
<1>2. ASSUME NEW c \in Clients, Receive(c) \/ Serve(c) \/ ClientCrash(c)
      PROVE  Shape' /\ (Sound /\ ~Resubmitted => Sound')
  <2>1. CASE Receive(c) \/ ClientCrash(c) \/ Repeat(c) \/ Reserve(c) \/ Clean(c)
    BY <2>1, ReceiveKeeps, ClientCrashKeeps, RepeatKeeps, ReserveKeeps, CleanKeeps
  <2>2. CASE SetAsideBegin(c) \/ SetAsideDrain(c) \/ SetAside(c) \/ SetAsideFails(c)
    BY <2>2, SetAsideBeginKeeps, SetAsideDrainKeeps, SetAsideKeeps, SetAsideFailsKeeps
  <2>3. CASE Cleaned(c) \/ Stage(c) \/ StageFails(c) \/ Open(c) \/ Launch(c) \/ SpawnWorker(c)
    BY <2>3, CleanedKeeps, StageKeeps, OpenKeeps, LaunchKeeps, SpawnWorkerKeeps
  <2>4. CASE LaunchError(c) \/ Refuse(c) \/ Started(c) \/ Await(c) \/ WaitHold(c)
    BY <2>4, LaunchErrorKeeps, RefuseKeeps, StartedKeeps, AwaitKeeps, WaitHoldKeeps
  <2>5. CASE WaitDrop(c) \/ Reply(c) \/ Kill(c) \/ KillAccepted(c)
    BY <2>5, WaitDropKeeps, ReplyKeeps, KillKeeps, KillAcceptedKeeps
  <2> QED
    BY <1>2, <2>1, <2>2, <2>3, <2>4, <2>5 DEF Serve
<1>3. ASSUME NEW w \in Workers,
             \/ Supervise(w) \/ Admit(w) \/ WatchBreaks(w) \/ Fail(w) \/ WorkerCrash(w)
             \/ CommandExit(w) \/ Reap(w)
      PROVE  Shape' /\ (Sound => Sound')
  <2>1. CASE WorkerLock(w) \/ Check(w) \/ Begin(w) \/ Announce(w) \/ Admit(w) \/ Cancelled(w)
    BY <2>1, WorkerLockKeeps, CheckKeeps, BeginKeeps, AnnounceKeeps, AdmitKeeps, CancelledKeeps
  <2>2. CASE Prepare(w) \/ Spawn(w) \/ Guard(w) \/ Unguarded(w) \/ SpawnFails(w) \/ Spawned(w)
    BY <2>2, PrepareKeeps, SpawnKeeps, GuardKeeps, SpawnFailsKeeps, SpawnedKeeps
  <2>3. CASE Watch(w) \/ WatchBreaks(w) \/ Finish(w) \/ FinishBroken(w) \/ Fail(w) \/ WorkerCrash(w)
    BY <2>3, WatchKeeps, FinishKeeps, QuitKeeps
  <2>4. CASE RecordFailure(w) \/ CommandExit(w) \/ Reap(w)
    BY <2>4, RecordFailureKeeps, CommandKeeps
  <2> QED
    BY <1>3, <2>1, <2>2, <2>3, <2>4 DEF Supervise
<1> QED
  BY <1>1, <1>2, <1>3 DEF Next

\* Nothing is going on in an empty store.
LEMMA InitSound == Init => Sound
<1> SUFFICES ASSUME Init PROVE Sound
  OBVIOUS
<1>1. /\ \A c \in Clients : client[c].pc = "idle" /\ client[c].op = "none"
      /\ \A w \in Workers : worker[w].pc = "idle" /\ command[w] = "none"
      /\ \A j \in Jobs : runs[j] = <<>>
  BY DEF Init, Idle, Gone
<1>2. Locks /\ Exclusive /\ Link
  BY <1>1 DEF Locks, LocksOf, Exclusive, HoldsLaunch, Link, Sweeping, Supervising
<1>3. Passed /\ Unstarted /\ Supervised
  BY <1>1 DEF Passed, Unstarted, Supervised, Supervising
<1>4. Live /\ Removal
  BY <1>1 DEF Live, Attended, Announced, Removal, Supervising
<1> QED
  BY <1>2, <1>3, <1>4 DEF Sound

\* The store, its requests and its workers keep to their shape.
LEMMA ShapeInvariant == Spec => []Shape
<1>1. Init => Shape
  BY InitShape
<1>2. Shape /\ [Next]_vars => Shape'
  BY NextKeeps
<1> QED
  BY <1>1, <1>2, PTL DEF Spec

\* Without resubmission the locks do what the code wants of them.
LEMMA SoundInvariant == ASSUME ~Resubmitted PROVE Spec => [](Shape /\ Sound)
<1>1. Init => Shape /\ Sound
  BY InitShape, InitSound
<1>2. Shape /\ Sound /\ [Next]_vars => Shape' /\ Sound'
  BY NextKeeps
<1> QED
  BY <1>1, <1>2, PTL DEF Spec

-----------------------------------------------------------------------------
(* The theorems. *)

\* Every variable keeps its type, whatever is submitted (the state files of Store,
\* the requests and the workers).
THEOREM JobsTypeCorrect == Spec => []TypeOK
<1>1. Shape => TypeOK
  BY DEF Shape
<1> QED
  BY <1>1, ShapeInvariant, PTL

\* Once a worker announced itself, no request takes its job for lost, finishes it
\* behind its back or removes its record (status, set_aside_finished).
THEOREM LiveJobIsKept == ASSUME ~Resubmitted PROVE Spec => []LiveIsKept
<1>1. Shape /\ Sound => LiveIsKept
  <2> SUFFICES ASSUME Shape, Sound, NEW w \in Workers, Announced(w)
               PROVE  /\ phase[worker[w].job] \in Active \cup {"launch_failed"}
                      /\ order[worker[w].job] = worker[w].lock
    BY DEF LiveIsKept
  <2>1. worker[w].pc \in Supervising /\ Attended(w)
    BY DEF Announced, Attended
  <2> QED
    BY <2>1 DEF Sound, Live, Locks
<1> QED
  BY <1>1, SoundInvariant, PTL

\* A waiting request never keeps a worker from an accepted job (Store::wait).
THEOREM WaitIsHarmless == ASSUME ~Resubmitted PROVE Spec => []WaitHarmless
<1>1. Shape /\ Sound => WaitHarmless
  BY DEF WaitHarmless, Sound, Passed, Past
<1> QED
  BY <1>1, SoundInvariant, PTL

\* The command of a record is started at most once, however many requests and
\* workers try (run_worker_at_using).
THEOREM StartedOnce == ASSUME ~Resubmitted PROVE Spec => []OncePerRecord
<1>1. Shape /\ Sound => OncePerRecord
  <2> SUFFICES ASSUME Sound, NEW j \in Jobs, NEW a \in DOMAIN runs[j], NEW b \in DOMAIN runs[j]
               PROVE  a = b
    BY DEF OncePerRecord
  <2>1. runs[j] = <<>> \/ runs[j] = <<order[j]>>
    BY DEF Sound, Unstarted
  <2>2. DOMAIN <<>> = {} /\ DOMAIN <<order[j]>> = {1}
    OBVIOUS
  <2> QED
    BY <2>1, <2>2
<1> QED
  BY <1>1, SoundInvariant, PTL

-----------------------------------------------------------------------------
(* What a step does to the records. *)

kept == <<order, workspace, runs>>

\* Jobs are looked at: some active ones are found lost.
Losing == /\ phase' \in [Jobs -> Phases \cup {"absent"}]
          /\ \A j \in Jobs : phase'[j] \in {phase[j], Status(j)}

\* One job goes on.
Advancing(j) ==
  /\ phase' \in [Jobs -> Phases \cup {"absent"}]
  /\ \A k \in Jobs \ {j} : phase'[k] = phase[k]
  /\ phase'[j] = phase[j] \/ (phase[j] \in {"accepted"} \cup Active /\ phase'[j] \in Active \cup Outcomes)

\* The states change in one of these ways; only a stage publishes and only a
\* removal removes.
Ordinary ==
  \/ UNCHANGED <<phase, kept>>
  \/ Losing /\ UNCHANGED kept
  \/ \E j \in Jobs : Advancing(j) /\ UNCHANGED kept

\* One job becomes what it is found to be or what an event makes of it.
LEMMA BecomeAdvancing ==
  ASSUME TypeOK, NEW j \in Jobs, NEW p, Become(j, p),
         \/ p = phase[j]
         \/ phase[j] \in {"accepted"} \cup Active /\ p \in Active \cup Outcomes
  PROVE  Advancing(j)
BY BecomeOnward DEF Advancing, Onward

\* A status, and a failed launch, are such changes.
LEMMA BecomeFound ==
  ASSUME TypeOK, NEW j \in Jobs, NEW p \in {Status(j), LaunchFailure(j)}, Become(j, p)
  PROVE  Advancing(j)
<1>1. p = phase[j] \/ (phase[j] \in {"accepted"} \cup Active /\ p \in Active \cup Outcomes)
  BY StatusType, LaunchFailureType DEF Outcomes
<1> QED
  BY <1>1, BecomeAdvancing

\* A request other than a stage or a removal.
LEMMA ClientStepKind ==
  ASSUME Shape, NEW c \in Clients, Receive(c) \/ Serve(c) \/ ClientCrash(c), ~Stage(c), ~SetAside(c)
  PROVE  Ordinary
<1>1. TypeOK /\ (client[c].pc # "idle" => client[c].job \in Jobs)
  BY DEF Shape, ClientShape, ClientOK
<1>2. CASE \/ Receive(c) \/ ClientCrash(c) \/ Repeat(c) \/ Clean(c) \/ SetAsideDrain(c) \/ SetAsideFails(c)
           \/ Cleaned(c) \/ StageFails(c) \/ Open(c)
  BY <1>2 DEF Ordinary, kept, record, Receive, ClientCrash, Repeat, Clean, SetAsideDrain, SetAsideFails,
              Cleaned, StageFails, Open
<1>3. CASE \/ SpawnWorker(c) \/ LaunchError(c) \/ Started(c) \/ Await(c) \/ WaitHold(c) \/ WaitDrop(c)
  BY <1>3 DEF Ordinary, kept, record, SpawnWorker, LaunchError, Started, Await, WaitHold, WaitDrop
<1>4. CASE Reserve(c)
  <2>1. phase' = [k \in Jobs |-> Status(k)] /\ UNCHANGED kept
    BY <1>4 DEF Reserve, kept
  <2>2. Losing
    BY <1>1, <2>1, StatusType DEF Losing
  <2> QED
    BY <2>1, <2>2 DEF Ordinary
<1>5. CASE SetAsideBegin(c)
  <2>1. PICK target \in client[c].todo : Become(target[1], Status(target[1]))
    BY <1>5 DEF SetAsideBegin
  <2>2. target[1] \in Jobs
    BY <1>1, <2>1, ClientFields DEF TypeOK
  <2>3. Advancing(target[1])
    BY <1>1, <2>1, <2>2, BecomeFound
  <2> QED
    BY <1>5, <2>2, <2>3 DEF Ordinary, SetAsideBegin, kept
<1>6. CASE Launch(c) \/ Reply(c) \/ Kill(c)
  <2>1. client[c].job \in Jobs /\ Become(client[c].job, Status(client[c].job)) /\ UNCHANGED kept
    BY <1>1, <1>6 DEF Launch, Reply, Kill, kept
  <2> QED
    BY <1>1, <2>1, BecomeFound DEF Ordinary
<1>7. CASE Refuse(c)
  <2>1. client[c].job \in Jobs /\ Become(client[c].job, LaunchFailure(client[c].job)) /\ UNCHANGED kept
    BY <1>1, <1>7 DEF Refuse, kept
  <2> QED
    BY <1>1, <2>1, BecomeFound DEF Ordinary
<1>8. CASE KillAccepted(c)
  <2> DEFINE j == client[c].job
             to == Advance(phase[j], "killed")
             p == IF to = "invalid" THEN phase[j] ELSE to
  <2>1. j \in Jobs /\ Become(j, p) /\ UNCHANGED kept
    BY <1>1, <1>8 DEF KillAccepted, kept
  <2>2. p = phase[j] \/ (phase[j] \in {"accepted"} \cup Active /\ p \in Active \cup Outcomes)
    BY AdvanceType
  <2> HIDE DEF p
  <2> QED
    BY <1>1, <2>1, <2>2, BecomeAdvancing DEF Ordinary
<1> QED
  BY <1>2, <1>3, <1>4, <1>5, <1>6, <1>7, <1>8 DEF Serve

\* An event of a worker, and its refusal, are such changes.
LEMMA TransitionKind ==
  ASSUME Shape, NEW w \in Workers, worker[w].job \in Jobs, NEW event, NEW pc, Transition(w, event, pc)
  PROVE  Advancing(worker[w].job)
<1> DEFINE j == worker[w].job
           to == Advance(phase[j], event)
<1>1. CASE to = "invalid"
  BY <1>1 DEF Transition, Advancing, Shape, TypeOK
<1>2. CASE to # "invalid"
  <2>1. Become(j, to)
    BY <1>2 DEF Transition
  <2>2. phase[j] \in {"accepted"} \cup Active /\ to \in Active \cup Outcomes
    BY <1>2, AdvanceType
  <2> QED
    BY <2>1, <2>2, BecomeAdvancing DEF Shape
<1> QED
  BY <1>1, <1>2

\* A worker's step other than the start of a command.
LEMMA WorkerStepKind ==
  ASSUME Shape, NEW w \in Workers,
         \/ Supervise(w) \/ Admit(w) \/ WatchBreaks(w) \/ Fail(w) \/ WorkerCrash(w)
         \/ CommandExit(w) \/ Reap(w),
         ~Spawn(w)
  PROVE  Ordinary
<1>1. TypeOK /\ (worker[w].pc # "idle" => worker[w].job \in Jobs)
  BY DEF Shape, WorkerShape
<1>2. CASE \/ WorkerLock(w) \/ Announce(w) \/ Prepare(w) \/ Guard(w) \/ Unguarded(w) \/ Watch(w)
           \/ WatchBreaks(w) \/ FinishBroken(w) \/ Fail(w) \/ WorkerCrash(w) \/ CommandExit(w) \/ Reap(w)
  BY <1>2 DEF Ordinary, kept, record, unmoved, WorkerLock, Announce, Prepare, Guard, Unguarded, Watch,
              WatchBreaks, FinishBroken, Fail, WorkerCrash, CommandExit, Reap
<1>3. CASE Check(w)
  <2>1. worker[w].job \in Jobs /\ Become(worker[w].job, Status(worker[w].job)) /\ UNCHANGED kept
    BY <1>1, <1>3 DEF Check, kept, unmoved
  <2> QED
    BY <1>1, <2>1, BecomeFound DEF Ordinary
<1>4. CASE RecordFailure(w)
  <2>1. worker[w].job \in Jobs /\ UNCHANGED kept
    BY <1>1, <1>4 DEF RecordFailure, kept, unmoved
  <2>2. CASE UNCHANGED phase
    BY <2>1, <2>2 DEF Ordinary
  <2>3. CASE Become(worker[w].job, LaunchFailure(worker[w].job))
    BY <1>1, <2>1, <2>3, BecomeFound DEF Ordinary
  <2> QED
    BY <1>4, <2>2, <2>3 DEF RecordFailure, Become
<1>5. CASE Begin(w) \/ Cancelled(w) \/ SpawnFails(w) \/ Spawned(w) \/ Finish(w) \/ Admit(w)
  <2>1. worker[w].job \in Jobs /\ UNCHANGED kept
    BY <1>1, <1>5 DEF Begin, Cancelled, SpawnFails, Spawned, Finish, Admit, kept, unmoved
  <2>2. UNCHANGED phase \/ \E event, pc : Transition(w, event, pc)
    BY <1>5 DEF Begin, Cancelled, SpawnFails, Spawned, Finish, Admit
  <2> QED
    BY <2>1, <2>2, TransitionKind DEF Ordinary
<1> QED
  BY <1>2, <1>3, <1>4, <1>5 DEF Supervise

\* The ways a step changes the records.
LEMMA StepKinds ==
  ASSUME Shape, [Next]_vars
  PROVE  \/ Ordinary
         \/ \E c \in Clients : Stage(c) \/ SetAside(c)
         \/ \E w \in Workers : Spawn(w)
<1>1. CASE UNCHANGED vars
  BY <1>1 DEF vars, kept, Ordinary
<1>2. ASSUME NEW c \in Clients, Receive(c) \/ Serve(c) \/ ClientCrash(c)
      PROVE  Ordinary \/ Stage(c) \/ SetAside(c)
  BY <1>2, ClientStepKind
<1>3. ASSUME NEW w \in Workers,
             \/ Supervise(w) \/ Admit(w) \/ WatchBreaks(w) \/ Fail(w) \/ WorkerCrash(w)
             \/ CommandExit(w) \/ Reap(w)
      PROVE  Ordinary \/ Spawn(w)
  BY <1>3, WorkerStepKind
<1> QED
  BY <1>1, <1>2, <1>3 DEF Next, Ordinary

\* A record or a workspace goes to the trash only when its job has finished and no
\* supervised command is left in it (set_aside_finished).
THEOREM RemovedWhenSafe == ASSUME ~Resubmitted PROVE Spec => RemovalIsSafe
<1> DEFINE A == \A j \in Jobs :
                  (phase[j] # "absent" /\ phase'[j] = "absent") \/ (workspace[j] /\ ~workspace'[j]) =>
                    /\ phase[j] \in Outcomes
                    /\ \A w \in Workers : worker[w].job = j => command[w] \notin {"bare", "running"}
<1>1. Shape /\ Sound /\ [Next]_vars => A
  <2> SUFFICES ASSUME Shape, Sound, [Next]_vars, NEW j \in Jobs,
                      (phase[j] # "absent" /\ phase'[j] = "absent") \/ (workspace[j] /\ ~workspace'[j])
               PROVE  /\ phase[j] \in Outcomes
                      /\ \A w \in Workers : worker[w].job = j => command[w] \notin {"bare", "running"}
    OBVIOUS
  <2>1. TypeOK
    BY DEF Shape
  <2>2. CASE Ordinary
    BY <2>1, <2>2, StatusType DEF Ordinary, kept, Losing, Advancing, Active, Outcomes
  <2>3. ASSUME NEW c \in Clients, Stage(c) PROVE FALSE
    BY <2>1, <2>3 DEF Stage, Become, TypeOK
  <2>4. ASSUME NEW w \in Workers, Spawn(w) PROVE FALSE
    BY <2>4 DEF Spawn, record
  <2>5. ASSUME NEW c \in Clients, SetAside(c)
        PROVE  /\ phase[j] \in Outcomes
               /\ \A w \in Workers : worker[w].job = j => command[w] \notin {"bare", "running"}
    <3>1. client[c].pc = "rename" /\ j = client[c].victim[1]
      BY <2>1, <2>5 DEF SetAside, TypeOK
    <3>2. phase[j] \in Outcomes
      BY <3>1 DEF Sound, Removal
    <3>3. \A w \in Workers : worker[w].job = j => command[w] \notin {"bare", "running"}
      BY <3>1 DEF Sound, Removal, Supervised, Supervising
    <3> QED
      BY <3>2, <3>3
  <2> QED
    BY <2>2, <2>3, <2>4, <2>5, StepKinds
<1> HIDE DEF A
<1>2. Spec => [][A]_vars
  <2>1. Shape /\ Sound /\ [Next]_vars => [A]_vars
    BY <1>1
  <2> QED
    BY <2>1, SoundInvariant, PTL DEF Spec
<1> QED
  BY <1>2 DEF RemovalIsSafe, A

-----------------------------------------------------------------------------
(* The store implements JobLife. *)

\* The state of each submission as JobLife sees it, and whether its command started.
lifeNow == [j \in Jobs |-> IF phase[j] \in Active THEN "active" ELSE phase[j]]
startedNow == [j \in Jobs |-> \E k \in DOMAIN runs[j] : runs[j][k] = order[j]]

\* The command of a record was started exactly when the history is not empty.
LEMMA StartedMeans ==
  ASSUME Sound
  PROVE  startedNow = [j \in Jobs |-> runs[j] # <<>>]
<1> SUFFICES ASSUME NEW j \in Jobs
             PROVE  (\E k \in DOMAIN runs[j] : runs[j][k] = order[j]) <=> runs[j] # <<>>
  BY Zenon DEF startedNow
<1>1. runs[j] = <<>> \/ runs[j] = <<order[j]>>
  BY DEF Sound, Unstarted
<1>2. DOMAIN <<>> = {} /\ DOMAIN <<order[j]>> = {1} /\ <<order[j]>>[1] = order[j] /\ <<order[j]>> # <<>>
  OBVIOUS
<1> QED
  BY <1>1, <1>2

\* The same in the next state.
LEMMA StartedNext ==
  ASSUME Sound'
  PROVE  startedNow' = [j \in Jobs |-> runs'[j] # <<>>]
<1> SUFFICES ASSUME NEW j \in Jobs
             PROVE  (\E k \in DOMAIN runs'[j] : runs'[j][k] = order'[j]) <=> runs'[j] # <<>>
  BY Zenon DEF startedNow
<1>1. runs'[j] = <<>> \/ runs'[j] = <<order'[j]>>
  BY DEF Sound, Unstarted
<1>2. DOMAIN <<>> = {} /\ DOMAIN <<order'[j]>> = {1} /\ <<order'[j]>>[1] = order'[j] /\ <<order'[j]>> # <<>>
  OBVIOUS
<1> QED
  BY <1>1, <1>2

\* As long as no command starts, JobLife sees none start.
LEMMA StartedSame == ASSUME Sound, Sound', UNCHANGED runs PROVE UNCHANGED startedNow
BY StartedMeans, StartedNext, Zenon

\* The states an update of one job leads to.
LEMMA LifeOfOne ==
  ASSUME TypeOK, TypeOK', NEW j \in Jobs, \A k \in Jobs \ {j} : phase'[k] = phase[k]
  PROVE  /\ lifeNow' = [lifeNow EXCEPT ![j] = IF phase'[j] \in Active THEN "active" ELSE phase'[j]]
         /\ lifeNow[j] = IF phase[j] \in Active THEN "active" ELSE phase[j]
BY DEF lifeNow

\* Every step of the store is a step of JobLife or leaves it as it is.
LEMMA LifeStep ==
  ASSUME Shape, Shape', Sound, Sound', [Next]_vars
  PROVE  Life!Next \/ UNCHANGED <<lifeNow, startedNow>>
<1>1. TypeOK /\ TypeOK'
  BY DEF Shape
<1>2. CASE UNCHANGED <<phase, kept>>
  BY <1>2 DEF kept, lifeNow, startedNow
<1>3. CASE Losing /\ UNCHANGED kept
  <2>1. UNCHANGED startedNow
    BY <1>3 DEF kept, startedNow
  <2>2. lifeNow' \in [Jobs -> {"absent", "accepted", "active"} \cup Outcomes]
    BY <1>1 DEF TypeOK, lifeNow, Phases
  <2>3. \A j \in Jobs : lifeNow'[j] = lifeNow[j] \/ (lifeNow[j] = "active" /\ lifeNow'[j] = "lost")
    <3> SUFFICES ASSUME NEW j \in Jobs
                 PROVE  lifeNow'[j] = lifeNow[j] \/ (lifeNow[j] = "active" /\ lifeNow'[j] = "lost")
      OBVIOUS
    <3>1. phase'[j] = phase[j] \/ (phase[j] \in Active /\ phase'[j] = "lost")
      BY <1>1, <1>3, StatusType DEF Losing
    <3> QED
      BY <3>1 DEF lifeNow, Active
  <2>4. Life!Lose
    BY <2>1, <2>2, <2>3 DEF Life!Lose, lifeNow, startedNow
  <2> QED
    BY <2>4 DEF Life!Next
<1>4. ASSUME NEW j \in Jobs, Advancing(j), UNCHANGED kept
      PROVE  Life!Next \/ UNCHANGED <<lifeNow, startedNow>>
  <2>1. UNCHANGED startedNow
    BY <1>4 DEF kept, startedNow
  <2>2. /\ lifeNow' = [lifeNow EXCEPT ![j] = IF phase'[j] \in Active THEN "active" ELSE phase'[j]]
        /\ lifeNow[j] = IF phase[j] \in Active THEN "active" ELSE phase[j]
    BY <1>1, <1>4, LifeOfOne DEF Advancing
  <2>3. CASE phase'[j] = phase[j] \/ (phase[j] \in Active /\ phase'[j] \in Active)
    <3>1. UNCHANGED lifeNow
      BY <2>2, <2>3 DEF lifeNow
    <3> QED
      BY <2>1, <3>1
  <2>4. CASE phase[j] = "accepted" /\ phase'[j] \in Active
    <3>1. lifeNow[j] = "accepted" /\ lifeNow' = [lifeNow EXCEPT ![j] = "active"]
      BY <2>2, <2>4 DEF Active
    <3>2. Life!Attach(j)
      BY <2>1, <3>1 DEF Life!Attach, Life!LifeBecomes, lifeNow, startedNow
    <3> QED
      BY <3>2 DEF Life!Next
  <2>5. CASE phase[j] \in {"accepted"} \cup Active /\ phase'[j] \in Outcomes
    <3>1. lifeNow[j] \in {"accepted", "active"} /\ lifeNow' = [lifeNow EXCEPT ![j] = phase'[j]]
      BY <2>2, <2>5 DEF Active, Outcomes
    <3>2. \E outcome \in Outcomes : lifeNow' = [lifeNow EXCEPT ![j] = outcome]
      BY <2>5, <3>1
    <3>3. Life!Finish(j)
      BY <2>1, <3>1, <3>2 DEF Life!Finish, Life!LifeBecomes, lifeNow, startedNow
    <3> QED
      BY <3>3 DEF Life!Next
  <2> QED
    BY <1>4, <2>3, <2>4, <2>5 DEF Advancing
<1>5. ASSUME NEW c \in Clients, Stage(c) PROVE Life!Next
  <2>0. PICK j \in Jobs : j = client[c].job
    BY <1>5, StageEffect
  <2>1. /\ client[c].pc = "sweep" /\ client[c].op = "run" /\ j \in Jobs /\ UNCHANGED runs
        /\ phase[j] = "absent" /\ phase'[j] = "accepted" /\ \A k \in Jobs \ {j} : phase'[k] = phase[k]
    BY <1>5, <2>0, StageEffect
  <2>2. order[j] = 0
    BY <2>0, <2>1 DEF Sound, Locks, LocksOf, Sweeping
  <2>3. runs[j] = <<>>
    BY <2>1, <2>2 DEF Sound, Unstarted, Past
  <2>4. startedNow' = [startedNow EXCEPT ![j] = FALSE]
    <3>1. UNCHANGED startedNow
      BY <2>1, StartedSame
    <3>2. startedNow[j] = FALSE
      BY <2>1, <2>3, StartedMeans, Zenon
    <3> QED
      BY <3>1, <3>2 DEF startedNow
  <2>5. lifeNow[j] = "absent" /\ lifeNow' = [lifeNow EXCEPT ![j] = "accepted"]
    BY <1>1, <2>1, LifeOfOne DEF Active
  <2>6. Life!Submit(j)
    BY <2>4, <2>5 DEF Life!Submit, Life!LifeBecomes, lifeNow, startedNow
  <2> QED
    BY <2>1, <2>6 DEF Life!Next
<1>6. ASSUME NEW c \in Clients, SetAside(c) PROVE Life!Next \/ UNCHANGED <<lifeNow, startedNow>>
  <2>0. PICK j \in Jobs : j = client[c].victim[1]
    BY <1>6, SetAsideEffect
  <2>1. /\ client[c].pc = "rename" /\ j \in Jobs /\ UNCHANGED <<order, runs>>
        /\ phase'[j] \in {phase[j], "absent"} /\ \A k \in Jobs \ {j} : phase'[k] = phase[k]
    BY <1>6, <2>0, SetAsideEffect
  <2>2. UNCHANGED startedNow
    BY <2>1 DEF startedNow
  <2>3. phase[j] \in Outcomes
    BY <2>0, <2>1 DEF Sound, Removal
  <2>4. CASE phase'[j] = "absent"
    <3>1. lifeNow[j] \in Outcomes /\ lifeNow' = [lifeNow EXCEPT ![j] = "absent"]
      BY <1>1, <2>1, <2>3, <2>4, LifeOfOne DEF Active, Outcomes
    <3>2. Life!Remove(j)
      BY <2>2, <3>1 DEF Life!Remove, Life!LifeBecomes, lifeNow, startedNow
    <3> QED
      BY <2>1, <3>2 DEF Life!Next
  <2>5. CASE phase'[j] = phase[j]
    BY <2>1, <2>2, <2>5 DEF lifeNow
  <2> QED
    BY <2>1, <2>4, <2>5
<1>7. ASSUME NEW w \in Workers, Spawn(w) PROVE Life!Next
  <2>0. PICK j \in Jobs : j = worker[w].job
    BY <1>7 DEF Spawn, Shape, WorkerShape
  <2>1. /\ worker[w].pc = "spawn" /\ UNCHANGED <<phase, order>>
        /\ runs' = [runs EXCEPT ![j] = Append(runs[j], order[j])]
    BY <1>7, <2>0 DEF Spawn, record
  <2>2. j \in Jobs /\ Announced(w)
    BY <2>1 DEF Shape, WorkerShape, Announced, Supervising
  <2>3. phase[j] \in Active \cup {"launch_failed"} /\ runs[j] = <<>>
    BY <2>0, <2>1, <2>2 DEF Sound, Live, Attended, Unstarted
  <2>4. runs'[j] # <<>> /\ \A k \in Jobs \ {j} : runs'[k] = runs[k]
    <3>1. runs'[j] = <<order[j]>>
      BY <1>1, <2>1, <2>2, <2>3 DEF TypeOK
    <3>2. \A k \in Jobs \ {j} : runs'[k] = runs[k]
      BY <1>1, <2>1, <2>2 DEF TypeOK
    <3> QED
      BY <3>1, <3>2
  <2>5. UNCHANGED lifeNow /\ lifeNow[j] \in {"active", "launch_failed"}
    BY <2>1, <2>2, <2>3 DEF lifeNow, Active
  <2>6. startedNow[j] = FALSE
    BY <2>2, <2>3, StartedMeans, Zenon
  <2>7. startedNow' = [startedNow EXCEPT ![j] = TRUE]
    <3>1. startedNow' = [k \in Jobs |-> IF k = j THEN TRUE ELSE runs[k] # <<>>]
      BY <2>2, <2>4, StartedNext, Zenon
    <3>2. startedNow = [k \in Jobs |-> runs[k] # <<>>]
      BY StartedMeans
    <3> QED
      BY <2>2, <3>1, <3>2
  <2>8. Life!Start(j)
    BY <2>5, <2>6, <2>7 DEF Life!Start, lifeNow, startedNow
  <2> QED
    BY <2>2, <2>8 DEF Life!Next
<1> QED
  BY <1>2, <1>3, <1>4, <1>5, <1>6, <1>7, StepKinds DEF Ordinary

\* The store implements JobLife: a submission is accepted, attached to, started and
\* finished at most once, and only a finished record is removed, in this order
\* (Store::run, run_worker_at_using, set_aside_finished).
THEOREM ImplementsJobLife == ASSUME ~Resubmitted PROVE Spec => LifeSpec
<1>1. Init => Life!Init
  <2> SUFFICES ASSUME Init PROVE Life!Init
    OBVIOUS
  <2>1. lifeNow = [j \in Jobs |-> "absent"]
    BY DEF Init, lifeNow, Active
  <2>2. startedNow = [j \in Jobs |-> FALSE]
    <3>1. ASSUME NEW j \in Jobs PROVE ~ \E k \in DOMAIN runs[j] : runs[j][k] = order[j]
      <4>1. runs[j] = <<>>
        BY DEF Init
      <4>2. DOMAIN <<>> = {}
        OBVIOUS
      <4> QED
        BY <4>1, <4>2
    <3> QED
      BY <3>1, Zenon DEF startedNow
  <2> QED
    BY <2>1, <2>2 DEF Life!Init, lifeNow, startedNow
<1>2. Shape /\ Sound /\ (Shape /\ Sound)' /\ [Next]_vars =>
        [Life!Next]_<<[j \in Jobs |-> IF phase[j] \in Active THEN "active" ELSE phase[j]],
                      [j \in Jobs |-> \E k \in DOMAIN runs[j] : runs[j][k] = order[j]]>>
  BY LifeStep DEF lifeNow, startedNow
<1> QED
  BY <1>1, <1>2, SoundInvariant, PTL DEF Spec, LifeSpec, Life!Spec

-----------------------------------------------------------------------------
(* An admission keeps the newest finished records. *)

\* A set of natural numbers has a least element.
LEMMA Least ==
  ASSUME NEW T, T \subseteq Nat, T # {}
  PROVE  \E x \in T : \A y \in T : x <= y
<1> DEFINE R == OpToRel(<, Nat)
<1>1. IsWellFoundedOn(R, Nat)
  BY NatLessThanWellFounded
<1>2. \A x, y \in Nat : y < x => <<y, x>> \in R
  BY DEF OpToRel
<1> HIDE DEF R
<1>3. PICK x \in T : \A y \in T : ~ (<<y, x>> \in R)
  BY <1>1, WFMin
<1>4. \A y \in T : ~(y < x)
  BY <1>2, <1>3, Zenon
<1>5. \A y \in T : x <= y
  BY <1>4, SMT
<1> QED
  BY <1>5

\* The members of a set of records that are newer than one.
Newer(F, j) == {k \in F : order[k] > order[j]}

\* Among the finished records newer than a doomed one, enough are not doomed: the
\* newer ones of the newest doomed record.
LEMMA NewestSurvive ==
  ASSUME TypeOK, IsFiniteSet(Jobs), NEW F \in SUBSET Jobs, NEW j \in Jobs,
         Cardinality(Newer(F, j)) >= KeepFinished
  PROVE  Cardinality({k \in Newer(F, j) : Cardinality(Newer(F, k)) < KeepFinished}) >= KeepFinished
<1> DEFINE U == Newer(F, j)
           D == {k \in U : Cardinality(Newer(F, k)) >= KeepFinished}
           S == {k \in U : Cardinality(Newer(F, k)) < KeepFinished}
<1>1. order \in [Jobs -> 0 .. MaxSequence] /\ MaxSequence \in Nat /\ KeepFinished \in Nat
  BY Bounds DEF TypeOK
<1>2. \A k \in Jobs : Newer(F, k) \in SUBSET Jobs
  BY DEF Newer
<1>3. \A k \in Jobs : IsFiniteSet(Newer(F, k)) /\ Cardinality(Newer(F, k)) \in Nat
  BY <1>2, FS_Subset, FS_CardinalityType
<1>4. CASE D = {}
  <2>1. \A k \in U : k \in Jobs /\ Cardinality(Newer(F, k)) \in Nat
    BY <1>2, <1>3
  <2>2. S = U
    BY <1>1, <1>4, <2>1
  <2> QED
    BY <2>2
<1>5. CASE D # {}
  <2>1. \A k \in D : k \in Jobs /\ k \in U
    BY <1>2
  <2> DEFINE T == {Cardinality(Newer(F, k)) : k \in D}
  <2>2. T \subseteq Nat /\ T # {}
    BY <1>3, <1>5, <2>1
  <2>3. PICK x \in T : \A y \in T : x <= y
    BY <2>2, Least
  <2>4. PICK k \in D : x = Cardinality(Newer(F, k))
    BY <2>3
  <2>5. \A m \in D : Cardinality(Newer(F, k)) <= Cardinality(Newer(F, m))
    BY <2>3, <2>4
  <2>6. ASSUME NEW m \in Newer(F, k) PROVE m \in S
    <3>1. m \in F /\ m \in Jobs /\ order[m] > order[k] /\ order[k] > order[j]
      BY <2>1, <2>6 DEF Newer
    <3>2. m \in U
      BY <1>1, <2>1, <3>1 DEF Newer
    <3>3. Newer(F, m) \in SUBSET Newer(F, k) /\ m \notin Newer(F, m)
      BY <1>1, <2>1, <3>1 DEF Newer
    <3>4. Cardinality(Newer(F, m)) <= Cardinality(Newer(F, k)) /\ Cardinality(Newer(F, m)) # Cardinality(Newer(F, k))
      BY <1>3, <2>1, <2>6, <3>3, FS_Subset
    <3>5. Cardinality(Newer(F, m)) \in Nat /\ Cardinality(Newer(F, k)) \in Nat
      BY <1>3, <2>1, <3>1
    <3>6. m \notin D
      BY <2>5, <3>4, <3>5
    <3> QED
      BY <1>1, <3>2, <3>5, <3>6
  <2>7. Newer(F, k) \in SUBSET S /\ S \in SUBSET Jobs
    BY <1>2, <2>6
  <2>8. IsFiniteSet(S) /\ Cardinality(Newer(F, k)) <= Cardinality(S)
    BY <2>7, FS_Subset
  <2>9. Cardinality(S) \in Nat /\ Cardinality(Newer(F, k)) \in Nat /\ Cardinality(Newer(F, k)) >= KeepFinished
    BY <1>3, <2>1, <2>4, <2>8, FS_CardinalityType
  <2> QED
    BY <1>1, <2>8, <2>9
<1> QED
  BY <1>4, <1>5

\* What a sweep is still going to remove.
Marked(c) ==
  client[c].todo \cup (IF client[c].pc \in {"drain", "rename"} THEN {client[c].victim} ELSE {})

\* The finished records that stay and are newer than one.
Staying(c, j) ==
  {k \in Jobs : phase[k] \in Outcomes /\ order[k] > order[j] /\ <<k, "record">> \notin Marked(c)}

\* A sweep of an admission removes a record only with enough newer ones that stay.
RetainedBy(c) ==
  client[c].pc \in Sweeping /\ client[c].op = "run" =>
    \A j \in Jobs : <<j, "record">> \in Marked(c) => Cardinality(Staying(c, j)) >= KeepFinished

Retained == \A c \in Clients : RetainedBy(c)

\* A sweep goes on: it marks nothing new, and what stays stays finished.
LEMMA RetainedStays ==
  ASSUME IsFiniteSet(Jobs), NEW c \in Clients, RetainedBy(c),
         UNCHANGED order,
         client'[c].pc \in Sweeping /\ client'[c].op = "run" =>
           /\ client[c].pc \in Sweeping /\ client[c].op = "run"
           /\ Marked(c)' \subseteq Marked(c)
           /\ \A k \in Jobs :
                phase[k] \in Outcomes /\ <<k, "record">> \notin Marked(c) => phase'[k] \in Outcomes
  PROVE  RetainedBy(c)'
<1> SUFFICES ASSUME client'[c].pc \in Sweeping /\ client'[c].op = "run",
                    NEW j \in Jobs, <<j, "record">> \in Marked(c)'
             PROVE  Cardinality(Staying(c, j)') >= KeepFinished
  BY DEF RetainedBy
<1>1. Cardinality(Staying(c, j)) >= KeepFinished
  BY DEF RetainedBy
<1>2. Staying(c, j) \in SUBSET Staying(c, j)' /\ Staying(c, j)' \in SUBSET Jobs
  BY DEF Staying
<1>3. IsFiniteSet(Staying(c, j)') /\ Cardinality(Staying(c, j)) <= Cardinality(Staying(c, j)')
  BY <1>2, FS_Subset
<1>4. IsFiniteSet(Staying(c, j)) /\ Cardinality(Staying(c, j)) \in Nat /\ Cardinality(Staying(c, j)') \in Nat
  BY <1>2, <1>3, FS_Subset, FS_CardinalityType
<1> QED
  BY <1>1, <1>3, <1>4, Bounds

\* One request process changes, and what it marks for removal only shrinks.
Sweeps(c) ==
  /\ OnlyClient(c)
  /\ client'[c].pc \in Sweeping /\ client'[c].op = "run" =>
       /\ client[c].pc \in Sweeping /\ client[c].op = "run"
       /\ Marked(c)' \subseteq Marked(c)

\* Only an admission that begins marks records.
LEMMA OnlyReserveMarks ==
  ASSUME Shape, NEW c \in Clients, Receive(c) \/ Serve(c) \/ ClientCrash(c), ~Reserve(c)
  PROVE  Sweeps(c)
<1>1. TypeOK
  BY DEF Shape
<1>2. ASSUME Done(c) PROVE Sweeps(c)
  BY <1>1, <1>2, DoneEffect DEF Sweeps, Sweeping
<1>3. ASSUME NEW pc \in ClientPcs \ Sweeping, Move(c, pc) PROVE Sweeps(c)
  BY <1>1, <1>3, MoveEffect DEF Sweeps
<1>4. ASSUME client[c].op \in {"run", "status", "wait"}, Attached(c) PROVE Sweeps(c)
  BY <1>1, <1>2, <1>4, AttachedEffect DEF Sweeps, Sweeping
<1>5. ASSUME client' = [client EXCEPT ![c].pc = "sweep", ![c].victim = <<>>], client[c].pc = "rename"
      PROVE  Sweeps(c)
  BY <1>5, ResumeEffect DEF Sweeps, Sweeping, Marked
<1>6. CASE Receive(c) \/ ClientCrash(c) \/ Repeat(c) \/ Cleaned(c) \/ StageFails(c)
  <2>1. CASE Receive(c)
    BY <2>1, ReceiveEffect DEF Sweeps, Sweeping
  <2>2. CASE Repeat(c)
    BY <2>2, RepeatEffect DEF Sweeps, Sweeping
  <2> QED
    BY <1>2, <1>6, <2>1, <2>2 DEF ClientCrash, Cleaned, StageFails
<1>7. CASE Clean(c)
  BY <1>7, CleanEffect DEF Sweeps, Sweeping, Clean
<1>8. CASE SetAsideBegin(c)
  <2>1. /\ OnlyClient(c) /\ client[c].pc = "sweep" /\ client'[c].op = client[c].op
        /\ \E target \in client[c].todo :
             /\ client'[c].todo = client[c].todo \ {target}
             /\ \/ client'[c].pc = "drain" /\ client'[c].victim = target
                \/ client'[c].pc = "sweep"
    BY <1>8, SetAsideBeginEffect DEF SetAsideBegin
  <2> QED
    BY <2>1 DEF Sweeps, Sweeping, Marked
<1>9. CASE SetAsideDrain(c)
  BY <1>9, SetAsideDrainEffect DEF SetAsideDrain, Sweeps, Sweeping, Marked
<1>10. CASE SetAside(c) \/ SetAsideFails(c)
  BY <1>2, <1>5, <1>10 DEF SetAside, SetAsideFails
<1>11. CASE Stage(c) \/ LaunchError(c) \/ WaitHold(c)
  BY <1>3, <1>11 DEF Stage, LaunchError, WaitHold, ClientPcs, Sweeping
<1>12. CASE Open(c)
  BY <1>2, <1>12, OpenEffect DEF Sweeps, Sweeping
<1>13. CASE Launch(c) \/ Refuse(c) \/ Started(c)
  <2>1. client[c].op \in {"run", "status", "wait"}
    BY <1>13 DEF Launch, Refuse, Started, Shape, ClientShape, ClientOK
  <2>2. Done(c) \/ Move(c, "spawn") \/ Attached(c)
    BY <1>13 DEF Launch, Refuse, Started
  <2> QED
    BY <1>2, <1>3, <1>4, <2>1, <2>2 DEF ClientPcs, Sweeping
<1>14. CASE SpawnWorker(c)
  <2>1. PICK w \in Workers : client' = [client EXCEPT ![c].pc = "ready", ![c].worker = w]
    BY <1>14 DEF SpawnWorker
  <2> DEFINE r == [client[c] EXCEPT !.pc = "ready", !.worker = w]
  <2>2. client \in [Clients -> ClientStates] /\ client[c] \in ClientStates
    BY <1>1 DEF TypeOK
  <2>3. client' = [client EXCEPT ![c] = r]
    BY <2>1, <2>2
  <2>4. r \in ClientStates /\ r.pc = "ready"
    BY <2>2 DEF ClientStates
  <2> HIDE DEF r
  <2>5. OnlyClient(c) /\ client'[c] = r
    BY <1>1, <2>3, <2>4, PutClient
  <2> QED
    BY <2>4, <2>5 DEF Sweeps, Sweeping
<1>15. CASE Await(c) \/ WaitDrop(c) \/ Reply(c) \/ Kill(c) \/ KillAccepted(c)
  <2>1. CASE Await(c)
    <3>1. client[c].job \in Jobs
      BY <2>1 DEF Await, Shape, ClientShape, ClientOK
    <3> QED
      BY <1>2, <2>1, <3>1, WaitEffect DEF Await, Sweeps, Sweeping
  <2>2. CASE WaitDrop(c)
    BY <2>2, WaitDropEffect DEF Sweeps, Sweeping
  <2>3. CASE Kill(c)
    <3>1. Done(c) \/ Move(c, "kill") \/ client' = [client EXCEPT ![c].pc = "wait", ![c].alive = order[client[c].job]]
      BY <2>3 DEF Kill
    <3>2. client[c].job \in Jobs
      BY <2>3 DEF Kill, Shape, ClientShape, ClientOK
    <3>3. CASE client' = [client EXCEPT ![c].pc = "wait", ![c].alive = order[client[c].job]]
      BY <3>2, <3>3, WaitEffect DEF Sweeps, Sweeping
    <3> QED
      BY <1>2, <1>3, <3>1, <3>3 DEF Sweeping, ClientPcs
  <2> QED
    BY <1>2, <1>15, <2>1, <2>2, <2>3 DEF Reply, KillAccepted
<1> QED
  BY <1>6, <1>7, <1>8, <1>9, <1>10, <1>11, <1>12, <1>13, <1>14, <1>15 DEF Serve

\* A worker's step leaves every sweep alone.
LEMMA WorkerSweeps ==
  ASSUME Shape, NEW w \in Workers,
         \/ Supervise(w) \/ Admit(w) \/ WatchBreaks(w) \/ Fail(w) \/ WorkerCrash(w)
         \/ CommandExit(w) \/ Reap(w),
         NEW c \in Clients, client'[c].pc \in Sweeping
  PROVE  client'[c] = client[c]
<1>1. CASE Announce(w)
  <2> DEFINE launchers == {d \in Clients : client[d].pc = "ready" /\ client[d].worker = w}
  <2>1. \/ UNCHANGED client
        \/ client' = [d \in Clients |->
                        IF d \in launchers THEN [client[d] EXCEPT !.pc = "started"] ELSE client[d]]
    BY <1>1 DEF Announce
  <2>2. client[c] \in ClientStates
    BY DEF Shape, TypeOK
  <2>3. [client[c] EXCEPT !.pc = "started"].pc = "started"
    BY <2>2 DEF ClientStates
  <2> QED
    BY <2>1, <2>3 DEF Sweeping
<1>2. CASE ~Announce(w)
  BY <1>2 DEF Supervise, WorkerLock, Check, Begin, Cancelled, Prepare, Spawn, Guard, Unguarded, SpawnFails,
              Spawned, Watch, Finish, FinishBroken, RecordFailure, Admit, WatchBreaks, Fail, WorkerCrash,
              CommandExit, Reap
<1> QED
  BY <1>1, <1>2

\* An admission marks a record only with enough newer finished ones it leaves.
LEMMA ReserveRetains ==
  ASSUME Shape, IsFiniteSet(Jobs), NEW c \in Clients, Reserve(c)
  PROVE  RetainedBy(c)'
<1> DEFINE F == {k \in Jobs : phase'[k] \in Outcomes}
<1>1. TypeOK /\ UNCHANGED order
  BY DEF Shape, Reserve
<1>2. client'[c].pc = "sweep" /\ client'[c].todo = Reclaimed(F)
  BY ReserveEffect
<1>3. Marked(c)' = Reclaimed(F)
  BY <1>2 DEF Marked
<1>4. \A k \in Jobs : <<k, "record">> \in Reclaimed(F) <=> k \in F /\ Cardinality(Newer(F, k)) >= KeepFinished
  BY DEF Reclaimed, Newer
<1> SUFFICES ASSUME NEW j \in Jobs, <<j, "record">> \in Reclaimed(F)
             PROVE  Cardinality(Staying(c, j)') >= KeepFinished
  BY <1>3 DEF RetainedBy
<1> DEFINE S == {k \in Newer(F, j) : Cardinality(Newer(F, k)) < KeepFinished}
<1>5. Cardinality(S) >= KeepFinished
  BY <1>1, <1>4, NewestSurvive
<1>6. \A k \in Jobs : Cardinality(Newer(F, k)) \in Nat
  BY FS_Subset, FS_CardinalityType DEF Newer
<1>7. S \in SUBSET Staying(c, j)' /\ Staying(c, j)' \in SUBSET Jobs
  <2>1. Staying(c, j)' = {k \in Jobs : phase'[k] \in Outcomes /\ order[k] > order[j] /\ <<k, "record">> \notin Reclaimed(F)}
    BY <1>1, <1>3 DEF Staying
  <2>2. ASSUME NEW k \in S PROVE k \in Staying(c, j)'
    <3>1. k \in Jobs /\ phase'[k] \in Outcomes /\ order[k] > order[j] /\ Cardinality(Newer(F, k)) < KeepFinished
      BY DEF Newer
    <3>2. <<k, "record">> \notin Reclaimed(F)
      BY <1>4, <1>6, <3>1, Bounds
    <3> QED
      BY <2>1, <3>1, <3>2
  <2> QED
    BY <2>1, <2>2
<1>8. IsFiniteSet(Staying(c, j)') /\ IsFiniteSet(S) /\ Cardinality(S) <= Cardinality(Staying(c, j)')
  BY <1>7, FS_Subset
<1>9. Cardinality(S) \in Nat /\ Cardinality(Staying(c, j)') \in Nat
  BY <1>8, FS_CardinalityType
<1> QED
  BY <1>5, <1>8, <1>9, Bounds

\* Every step keeps what an admission must keep.
LEMMA NextRetains ==
  ASSUME Shape, IsFiniteSet(Jobs), Retained, [Next]_vars
  PROVE  Retained'
<1> SUFFICES ASSUME NEW c \in Clients PROVE RetainedBy(c)'
  BY DEF Retained
<1>1. RetainedBy(c)
  BY DEF Retained
<1>2. CASE Ordinary /\ client'[c] = client[c]
  <2>1. UNCHANGED order /\ \A k \in Jobs : phase[k] \in Outcomes => phase'[k] \in Outcomes
    BY <1>2, StatusType DEF Ordinary, kept, Losing, Advancing, Active, Outcomes, Shape
  <2> QED
    BY <1>1, <1>2, <2>1, RetainedStays DEF Marked
<1>3. CASE UNCHANGED vars
  BY <1>2, <1>3 DEF vars, Ordinary, kept
<1>4. ASSUME NEW d \in Clients, Receive(d) \/ Serve(d) \/ ClientCrash(d) PROVE RetainedBy(c)'
  <2>1. CASE Reserve(d) /\ d = c
    BY <2>1, ReserveRetains
  <2>2. CASE Reserve(d) /\ d # c
    <3>1. Ordinary
      BY <1>4, <2>2, ClientStepKind DEF Reserve, Stage, SetAside
    <3>2. client'[c] = client[c]
      BY <2>2, ReserveEffect DEF OnlyClient
    <3> QED
      BY <1>2, <3>1, <3>2
  <2>3. CASE ~Reserve(d)
    <3>1. Sweeps(d)
      BY <1>4, <2>3, OnlyReserveMarks
    <3>2. CASE ~Stage(d) /\ ~SetAside(d)
      <4>1. Ordinary
        BY <1>4, <3>2, ClientStepKind
      <4>2. UNCHANGED order /\ \A k \in Jobs : phase[k] \in Outcomes => phase'[k] \in Outcomes
        BY <4>1, StatusType DEF Ordinary, kept, Losing, Advancing, Active, Outcomes, Shape
      <4>3. CASE d = c
        BY <1>1, <3>1, <4>2, <4>3, RetainedStays DEF Sweeps
      <4>4. CASE d # c
        BY <1>2, <3>1, <4>1, <4>4 DEF Sweeps, OnlyClient
      <4> QED
        BY <4>3, <4>4
    <3>3. CASE Stage(d)
      <4>1. client[d].pc \in Sweeping /\ client'[d].pc = "open"
        BY <3>3, StageEffect DEF Sweeping
      <4>2. client'[c].pc \notin Sweeping
        BY <3>1, <4>1, OneSweeper DEF Sweeps, OnlyClient, Sweeping
      <4> QED
        BY <4>2 DEF RetainedBy
    <3>4. CASE SetAside(d)
      <4>1. /\ client[d].pc = "rename" /\ UNCHANGED order /\ client[d].victim[1] \in Jobs
            /\ \A k \in Jobs \ {client[d].victim[1]} : phase'[k] = phase[k]
            /\ phase'[client[d].victim[1]] \in {phase[client[d].victim[1]], "absent"}
        BY <3>4, SetAsideEffect
      <4>2. CASE d # c
        <5>1. client'[c].pc \notin Sweeping
          BY <3>1, <4>1, <4>2, OneSweeper DEF Sweeps, OnlyClient, Sweeping
        <5> QED
          BY <5>1 DEF RetainedBy
      <4>3. CASE d = c
        <5>1. client[c].victim = <<client[c].victim[1], client[c].victim[2]>>
              /\ client[c].victim[2] \in {"record", "workspace"}
          BY <4>1, <4>3 DEF Shape, ClientShape, ClientOK
        <5>2. client[c].victim[2] # "record" => UNCHANGED phase
          BY <3>4, <4>3 DEF SetAside, Shape, TypeOK
        <5>3. client[c].victim \in Marked(c)
          BY <4>1, <4>3 DEF Marked
        <5>4. ASSUME NEW k \in Jobs, phase[k] \in Outcomes, <<k, "record">> \notin Marked(c)
              PROVE  phase'[k] \in Outcomes
          BY <4>1, <4>3, <5>1, <5>2, <5>3, <5>4
        <5> QED
          BY <1>1, <3>1, <4>1, <4>3, <5>4, RetainedStays DEF Sweeps
      <4> QED
        BY <4>2, <4>3
    <3> QED
      BY <3>2, <3>3, <3>4
  <2> QED
    BY <2>1, <2>2, <2>3
<1>5. ASSUME NEW w \in Workers,
             \/ Supervise(w) \/ Admit(w) \/ WatchBreaks(w) \/ Fail(w) \/ WorkerCrash(w)
             \/ CommandExit(w) \/ Reap(w)
      PROVE  RetainedBy(c)'
  <2>1. CASE client'[c].pc \notin Sweeping
    BY <2>1 DEF RetainedBy
  <2>2. CASE client'[c].pc \in Sweeping /\ ~Spawn(w)
    BY <1>2, <1>5, <2>2, WorkerSweeps, WorkerStepKind
  <2>3. CASE client'[c].pc \in Sweeping /\ Spawn(w)
    <3>1. client'[c] = client[c] /\ UNCHANGED <<phase, order>>
      BY <2>3 DEF Spawn, record
    <3> QED
      BY <1>1, <3>1, RetainedStays DEF Marked
  <2> QED
    BY <2>1, <2>2, <2>3
<1> QED
  BY <1>3, <1>4, <1>5 DEF Next

\* An admission removes a record only with enough newer finished ones, also when a
\* submission returns after its record was removed (reclaim).
THEOREM NewestAreKept == ASSUME IsFiniteSet(Jobs) PROVE Spec => NewestKept
<1> DEFINE A == \A j \in Jobs :
                  /\ phase[j] \in Outcomes /\ phase'[j] = "absent"
                  /\ admission # NoClient /\ client[admission].op = "run"
                  => Cardinality({k \in Jobs : phase[k] \in Outcomes /\ order[k] > order[j]}) >= KeepFinished
<1>1. Init => Shape /\ Retained
  <2>1. ASSUME Init PROVE Retained
    BY <2>1 DEF Init, Idle, Retained, RetainedBy, Sweeping
  <2> QED
    BY <2>1, InitShape
<1>2. Shape /\ Retained /\ [Next]_vars => Shape' /\ Retained'
  BY NextKeeps, NextRetains
<1>3. Shape /\ Retained /\ [Next]_vars => A
  <2> SUFFICES ASSUME Shape, Retained, [Next]_vars, NEW j \in Jobs, phase[j] \in Outcomes, phase'[j] = "absent",
                      admission # NoClient, client[admission].op = "run"
               PROVE  Cardinality({k \in Jobs : phase[k] \in Outcomes /\ order[k] > order[j]}) >= KeepFinished
    OBVIOUS
  <2>1. ~Ordinary
    BY StatusType DEF Ordinary, Losing, Advancing, Active, Outcomes, Shape
  <2>2. ASSUME NEW c \in Clients, Stage(c) PROVE FALSE
    BY <2>2, StageEffect DEF Outcomes
  <2>3. ASSUME NEW w \in Workers, Spawn(w) PROVE FALSE
    BY <2>3 DEF Spawn, record, Outcomes
  <2>4. PICK c \in Clients : SetAside(c)
    BY <2>1, <2>2, <2>3, StepKinds
  <2>5. /\ client[c].pc = "rename" /\ client[c].victim \in Jobs \X {"record", "workspace"}
        /\ admission = c
    BY <2>4 DEF SetAside, Shape, ClientShape, ClientOK, Sweeping
  <2>6. client[c].victim = <<j, "record">>
    BY <2>4, <2>5 DEF SetAside, Shape, TypeOK, Outcomes
  <2>7. Cardinality(Staying(c, j)) >= KeepFinished
    BY <2>5, <2>6 DEF Retained, RetainedBy, Marked, Sweeping
  <2> DEFINE N == {k \in Jobs : phase[k] \in Outcomes /\ order[k] > order[j]}
  <2>8. N \in SUBSET Jobs /\ Staying(c, j) \in SUBSET N
    BY DEF Staying
  <2>9. IsFiniteSet(N) /\ IsFiniteSet(Staying(c, j)) /\ Cardinality(Staying(c, j)) <= Cardinality(N)
    BY <2>8, FS_Subset
  <2>10. Cardinality(Staying(c, j)) \in Nat /\ Cardinality(N) \in Nat
    BY <2>9, FS_CardinalityType
  <2> QED
    BY <2>7, <2>9, <2>10, Bounds
<1> HIDE DEF A
<1>4. Spec => [](Shape /\ Retained)
  BY <1>1, <1>2, PTL DEF Spec
<1>5. Shape /\ Retained /\ [Next]_vars => [A]_vars
  BY <1>3
<1> QED
  BY <1>4, <1>5, PTL DEF Spec, NewestKept, A
=============================================================================

-------------------------------- MODULE Turns --------------------------------
(***************************************************************************)
(* The turns of the managed agents of one machine.  Every process here     *)
(* (a command that asks and waits, the server of a turn that consults      *)
(* another agent, a worker) shares the chat store, in which each write is  *)
(* one step, and two file locks per agent: the queue lock, which the       *)
(* worker of the agent holds while it lives, and the launch lock, under    *)
(* which workers are launched and the queue is checked for the last time.  *)
(* Processes die at any point; their locks are then free.                  *)
(***************************************************************************)
EXTENDS Naturals, FiniteSets, Sequences

CONSTANTS
  Names,       \* agent names of the machine
  Users,       \* callers that are not in a turn
  Runners,     \* worker processes
  Places,      \* working directories
  NoPlace, Nobody,
  MaxChain,    \* agents that may wait on one another (MAX_CHAIN in the code)
  MaxAsks,     \* bound: asks of a behaviour
  MaxPulses,   \* bound: pulses of a wait before its deadline
  MaxTurmoil   \* bound: changes of agents after the first registration, and deaths

Callers == Users \cup Names

ASSUME TurnsAssumption ==
  /\ {MaxAsks, MaxPulses, MaxTurmoil} \subseteq Nat
  /\ Callers \cap Runners = {} /\ Nobody \notin Callers \cup Runners \cup Places
  /\ NoPlace \notin Places \cup {Nobody}

VARIABLES
  card,     \* the mode in each agent's profile, "none" without a profile
  config,   \* the working directory in each agent's local configuration
  told,     \* history: the directory the last operation gave the agent
  asks,     \* the asks of the ledger in display order
  claims,   \* the table of claimed asks
  launch,   \* the holder of each launch lock
  queue,    \* the holder of each queue lock
  caller,   \* what each caller is doing
  runner,   \* what each worker is doing
  edits,    \* operations on agents
  deaths    \* processes that died, and workers that a failed claim ended

agentVars == <<card, config, told>>
lockVars == <<launch, queue>>
turnVars == <<card, config, told, asks, claims, launch, queue, caller, runner, edits, deaths>>

Calm == [pc |-> "idle", ask |-> 0, todo |-> {}, at |-> Nobody, worker |-> Nobody, pulses |-> 0]
Absent == [pc |-> "idle", name |-> Nobody, ask |-> 0, place |-> NoPlace]

TurnsInit ==
  /\ card \in [Names -> {"managed", "interactive"}]
  /\ config \in [Names -> Places]
  /\ told = config
  /\ asks = <<>>
  /\ claims = {}
  /\ launch = [n \in Names |-> Nobody]
  /\ queue = [n \in Names |-> Nobody]
  /\ caller = [c \in Callers |-> Calm]
  /\ runner = [w \in Runners |-> Absent]
  /\ edits = 0 /\ deaths = 0

OpenAsk(i) == asks[i].ending = "open"
OpenFor(n) == {i \in DOMAIN asks : asks[i].to = n /\ OpenAsk(i)}

\* tx.end: every ask of the set that has no ending yet gets one.
EndAsks(ids, outcome) ==
  [i \in DOMAIN asks |->
     IF i \in ids /\ OpenAsk(i) THEN [asks[i] EXCEPT !.ending = outcome] ELSE asks[i]]

(***************************************************************************)
(* Agents: each operation is one write of the store.                       *)
(***************************************************************************)
Edit == edits + deaths < MaxTurmoil /\ edits' = edits + 1

\* What the agent was given last; nobody can tell while one of its turns runs.
InTurn(n) == \E w \in Runners : runner[w].name = n /\ runner[w].pc \in {"running", "answered", "failed"}
Given(n, d) == [told EXCEPT ![n] = IF InTurn(n) THEN Nobody ELSE d]

JoinAgent(n, d) ==
  /\ Edit
  /\ card[n] # "managed"
  /\ card' = [card EXCEPT ![n] = "interactive"]
  /\ config' = [config EXCEPT ![n] = d]
  /\ told' = Given(n, d)
  /\ UNCHANGED <<asks, claims, launch, queue, caller, runner, deaths>>

StartAgent(n, d) ==
  /\ Edit
  /\ card[n] = "none"
  /\ card' = [card EXCEPT ![n] = "managed"]
  /\ config' = [config EXCEPT ![n] = d]
  /\ told' = Given(n, d)
  /\ UNCHANGED <<asks, claims, launch, queue, caller, runner, deaths>>

UpdateAgent(n, d) ==
  /\ Edit
  /\ config[n] # NoPlace /\ card[n] # "none"
  /\ config' = [config EXCEPT ![n] = d]
  /\ told' = Given(n, d)
  /\ UNCHANGED <<card, asks, claims, launch, queue, caller, runner, deaths>>

RemoveAgentOnly(n) ==
  /\ Edit
  /\ card[n] # "none"
  /\ asks' = EndAsks(OpenFor(n), "unavailable")
  /\ card' = [card EXCEPT ![n] = "none"]
  /\ told' = Given(n, NoPlace)
  /\ UNCHANGED <<config, claims, launch, queue, caller, runner, deaths>>

RemoveAgent(n) ==
  /\ Edit
  /\ card[n] # "none"
  /\ asks' = EndAsks(OpenFor(n), "unavailable")
  /\ card' = [card EXCEPT ![n] = "none"]
  /\ config' = [config EXCEPT ![n] = NoPlace]
  /\ told' = Given(n, NoPlace)
  /\ UNCHANGED <<claims, launch, queue, caller, runner, deaths>>

\* The asker withdraws, or the responder answers by hand.
ResolveAsk(i, outcome) ==
  /\ Edit
  /\ OpenAsk(i)
  /\ asks' = EndAsks({i}, outcome)
  /\ UNCHANGED <<agentVars, claims, lockVars, caller, runner, deaths>>

(***************************************************************************)
(* A call of chat ask: it writes the ask, dispatches, and then looks for   *)
(* the ending, dispatching again before each wait, until its deadline.     *)
(***************************************************************************)
Step(c, pc) == caller' = [caller EXCEPT ![c].pc = pc]
Return(c) == caller' = [caller EXCEPT ![c] = Calm]

\* The turns in which agent n runs now: at most one, by the queue lock.
TurnOf(n) == {runner[w].ask : w \in {v \in Runners : runner[v].name = n /\ runner[v].pc = "running"}}

\* The chain of agents that wait on an ask: an ask made in a turn continues the
\* chain of the turn's ask, any other starts with none.
ChainOf(c) == UNION {asks[i].chain \cup {asks[i].from} : i \in TurnOf(c)}

WriteAsk(c, n) ==
  /\ caller[c].pc = "idle"
  /\ Len(asks) < MaxAsks
  /\ c \in Names => TurnOf(c) # {}
  /\ Cardinality(ChainOf(c)) <= MaxChain
  /\ n # c /\ {n, c} \cap ChainOf(c) = {}
  /\ asks' = Append(asks, [from |-> c, to |-> n, chain |-> ChainOf(c), ending |-> "open", turns |-> 0])
  /\ caller' = [caller EXCEPT ![c] = [Calm EXCEPT !.pc = "dispatch", !.ask = Len(asks) + 1]]
  /\ UNCHANGED <<agentVars, claims, lockVars, runner, edits, deaths>>

Unavailable == {i \in DOMAIN asks : OpenAsk(i) /\ (card[asks[i].to] = "none" \/ config[asks[i].to] = NoPlace)}
Ready == {n \in Names : card[n] = "managed" /\ config[n] # NoPlace /\ OpenFor(n) # {}}

\* dispatchable: what nobody here can answer ends, the rest is to be launched.
Triage(c) ==
  /\ caller[c].pc = "dispatch"
  /\ asks' = EndAsks(Unavailable, "unavailable")
  /\ caller' = [caller EXCEPT ![c].pc = "next", ![c].todo = Ready]
  /\ UNCHANGED <<agentVars, claims, lockVars, runner, edits, deaths>>

TakeLaunch(c, n) ==
  /\ caller[c].pc = "next"
  /\ n \in caller[c].todo
  /\ launch[n] = Nobody
  /\ launch' = [launch EXCEPT ![n] = c]
  /\ caller' = [caller EXCEPT ![c].pc = "probe", ![c].at = n]
  /\ UNCHANGED <<agentVars, asks, claims, queue, runner, edits, deaths>>

\* The launch lock is dropped at the end of the loop body.
NextAgent(c) ==
  /\ launch' = [launch EXCEPT ![caller[c].at] = Nobody]
  /\ caller' = [caller EXCEPT ![c].pc = "next", ![c].todo = @ \ {caller[c].at},
                              ![c].at = Nobody, ![c].worker = Nobody]

Probe(c) ==
  /\ caller[c].pc = "probe"
  /\ IF queue[caller[c].at] = Nobody
     THEN /\ queue' = [queue EXCEPT ![caller[c].at] = c]
          /\ Step(c, "free")
          /\ UNCHANGED launch
     ELSE NextAgent(c) /\ UNCHANGED queue
  /\ UNCHANGED <<agentVars, asks, claims, runner, edits, deaths>>

LaunchRunner(c, w) ==
  /\ caller[c].pc = "free"
  /\ runner[w].pc = "idle"
  /\ queue' = [queue EXCEPT ![caller[c].at] = Nobody]
  /\ runner' = [runner EXCEPT ![w] = [Absent EXCEPT !.pc = "starting", !.name = caller[c].at]]
  /\ caller' = [caller EXCEPT ![c].pc = "launched", ![c].worker = w]
  /\ UNCHANGED <<agentVars, asks, claims, launch, edits, deaths>>

Launched(c) ==
  /\ caller[c].pc = "announced"
  /\ NextAgent(c)
  /\ UNCHANGED <<agentVars, asks, claims, queue, runner, edits, deaths>>

Dispatched(c) ==
  /\ caller[c].pc = "next"
  /\ caller[c].todo = {}
  /\ Step(c, "check")
  /\ UNCHANGED <<agentVars, asks, claims, lockVars, runner, edits, deaths>>

\* await_ending: the state of the ask, then the deadline, then the next pulse,
\* which dispatches again.
CheckPatient(c) ==
  /\ caller[c].pc = "check"
  /\ IF OpenAsk(caller[c].ask) THEN Step(c, "dispatch") ELSE Return(c)
  /\ UNCHANGED <<agentVars, asks, claims, lockVars, runner, edits, deaths>>

CheckAsk(c) ==
  /\ caller[c].pc = "check"
  /\ IF OpenAsk(caller[c].ask) /\ caller[c].pulses < MaxPulses
     THEN caller' = [caller EXCEPT ![c].pc = "dispatch", ![c].pulses = @ + 1]
     ELSE Return(c)
  /\ UNCHANGED <<agentVars, asks, claims, lockVars, runner, edits, deaths>>

(***************************************************************************)
(* A worker.                                                               *)
(***************************************************************************)
Proceed(w, pc) == runner' = [runner EXCEPT ![w].pc = pc]
Quit(w) == runner' = [runner EXCEPT ![w] = Absent]

\* The caller that launched worker w hears from it (or of its death).
Hear(w, pc) ==
  caller' = [c \in Callers |->
    IF caller[c].pc = "launched" /\ caller[c].worker = w THEN [caller[c] EXCEPT !.pc = pc] ELSE caller[c]]

TryQueue(w) ==
  /\ runner[w].pc = "starting"
  /\ Hear(w, "announced")
  /\ IF queue[runner[w].name] = Nobody
     THEN queue' = [queue EXCEPT ![runner[w].name] = w] /\ Proceed(w, "recover")
     ELSE Quit(w) /\ UNCHANGED queue
  /\ UNCHANGED <<agentVars, asks, claims, launch, edits, deaths>>

ClaimedBy(n) == {i \in claims : asks[i].to = n}

Recover(w) ==
  /\ runner[w].pc = "recover"
  /\ asks' = EndAsks(ClaimedBy(runner[w].name), "interrupted")
  /\ claims' = claims \ ClaimedBy(runner[w].name)
  /\ Proceed(w, "relock")
  /\ UNCHANGED <<agentVars, lockVars, caller, edits, deaths>>

LockLaunch(w) ==
  /\ runner[w].pc = "relock"
  /\ launch[runner[w].name] = Nobody
  /\ launch' = [launch EXCEPT ![runner[w].name] = w]
  /\ Proceed(w, "claim")
  /\ UNCHANGED <<agentVars, asks, claims, queue, caller, edits, deaths>>

Unclaimed(n) == OpenFor(n) \ claims

\* The queue is empty: the queue lock is dropped first, then the launch lock.
Empty(w) ==
  /\ runner[w].pc = "claim"
  /\ Unclaimed(runner[w].name) = {}
  /\ queue' = [queue EXCEPT ![runner[w].name] = Nobody]
  /\ Proceed(w, "leave")
  /\ UNCHANGED <<agentVars, asks, claims, launch, caller, edits, deaths>>

\* Locks a process holds become free when it ends, in whatever order is left.
Free(p, locks) == [n \in Names |-> IF locks[n] = p THEN Nobody ELSE locks[n]]

\* The worker drops the lock that it still holds and ends.
LeaveQueue(w) ==
  /\ runner[w].pc \in {"leave", "stopping"}
  /\ launch' = Free(w, launch) /\ queue' = Free(w, queue)
  /\ Quit(w)
  /\ UNCHANGED <<agentVars, asks, claims, caller, edits, deaths>>

\* A claim needs a profile, of whatever mode, and a configuration.  A worker whose claim
\* fails ends with the error; its locks are dropped in reverse order, the launch lock
\* before the queue lock, so that a dispatch in between still finds the queue taken.
ClaimFirst(w) ==
  LET n == runner[w].name
      i == CHOOSE j \in Unclaimed(n) : \A k \in Unclaimed(n) : j <= k
  IN /\ runner[w].pc = "claim"
     /\ Unclaimed(n) # {}
     /\ launch' = Free(w, launch)
     /\ IF card[n] = "none" \/ config[n] = NoPlace
        THEN /\ Proceed(w, "stopping")
             /\ deaths' = deaths + 1
             /\ UNCHANGED <<claims, asks>>
        ELSE /\ claims' = claims \cup {i}
             /\ asks' = [asks EXCEPT ![i].turns = @ + 1]
             /\ runner' = [runner EXCEPT ![w].pc = "running", ![w].ask = i, ![w].place = config[n]]
             /\ UNCHANGED deaths
     /\ UNCHANGED <<agentVars, queue, caller, edits>>

\* The client of the turn ends once the calls it made have returned.
ProviderEnds(w, outcome) ==
  /\ runner[w].pc = "running"
  /\ caller[runner[w].name].pc = "idle"
  /\ Proceed(w, outcome)
  /\ UNCHANGED <<agentVars, asks, claims, lockVars, caller, edits, deaths>>

\* finish: an answer also writes back the configuration that was read with the
\* claim, with the session of the answer in it.
FinishTurn(w) ==
  LET n == runner[w].name IN
  /\ runner[w].pc \in {"answered", "failed"}
  /\ asks' = EndAsks({runner[w].ask}, runner[w].pc)
  /\ claims' = claims \ {runner[w].ask}
  /\ config' = IF runner[w].pc = "answered" THEN [config EXCEPT ![n] = runner[w].place] ELSE config
  /\ runner' = [runner EXCEPT ![w].pc = "relock", ![w].ask = 0, ![w].place = NoPlace]
  /\ UNCHANGED <<card, told, lockVars, caller, edits, deaths>>

(***************************************************************************)
(* Deaths.  A launch that fails or whose worker dies before it announces   *)
(* itself ends the call with an error.                                     *)
(***************************************************************************)
Die == edits + deaths < MaxTurmoil /\ deaths' = deaths + 1

RunnerDies(w) ==
  /\ Die
  /\ runner[w].pc # "idle"
  /\ Hear(w, "broken")
  /\ launch' = Free(w, launch) /\ queue' = Free(w, queue)
  /\ Quit(w)
  /\ UNCHANGED <<agentVars, asks, claims, edits>>

CallerDies(c) ==
  /\ Die
  /\ caller[c].pc # "idle"
  /\ launch' = Free(c, launch) /\ queue' = Free(c, queue)
  /\ Return(c)
  /\ UNCHANGED <<agentVars, asks, claims, runner, edits>>

LaunchBroken(c) ==
  /\ caller[c].pc = "broken"
  /\ launch' = Free(c, launch)
  /\ Return(c)
  /\ UNCHANGED <<agentVars, asks, claims, queue, runner, edits, deaths>>

Manage ==
  \/ \E n \in Names, d \in Places : JoinAgent(n, d) \/ StartAgent(n, d) \/ UpdateAgent(n, d)
  \/ \E n \in Names : RemoveAgent(n)
  \/ \E i \in DOMAIN asks, outcome \in {"answered", "withdrawn"} : ResolveAsk(i, outcome)

CallStep(c) ==
  \/ Triage(c) \/ Probe(c) \/ Launched(c) \/ Dispatched(c) \/ CheckAsk(c) \/ LaunchBroken(c)
  \/ \E n \in Names : TakeLaunch(c, n)
  \/ \E w \in Runners : LaunchRunner(c, w)

RunnerStep(w) ==
  \/ TryQueue(w) \/ Recover(w) \/ LockLaunch(w) \/ Empty(w) \/ LeaveQueue(w) \/ ClaimFirst(w) \/ FinishTurn(w)
  \/ \E outcome \in {"answered", "failed"} : ProviderEnds(w, outcome)

TurnsNext ==
  \/ Manage
  \/ \E c \in Callers, n \in Names : WriteAsk(c, n)
  \/ \E c \in Callers : CallStep(c) \/ CallerDies(c)
  \/ \E w \in Runners : RunnerStep(w) \/ RunnerDies(w)

TurnsSpec == TurnsInit /\ [][TurnsNext]_turnVars

(***************************************************************************)
(* Every process that lives and is not waiting for a lock goes on.  That   *)
(* the client of a turn ends is assumed: the code sets no limit to a turn. *)
(***************************************************************************)
TurnsFairness ==
  /\ \A c \in Callers : WF_turnVars(CallStep(c))
  /\ \A w \in Runners : WF_turnVars(RunnerStep(w))

TurnsFairSpec == TurnsSpec /\ TurnsFairness

-----------------------------------------------------------------------------
Endings == {"answered", "failed", "interrupted", "unavailable", "withdrawn"}

AskStates ==
  [from : Callers, to : Names, chain : SUBSET Callers, ending : Endings \cup {"open"}, turns : Nat]

CallerStates ==
  [pc : {"idle", "dispatch", "next", "probe", "free", "launched", "announced", "broken", "check"},
   ask : 0..MaxAsks, todo : SUBSET Names, at : Names \cup {Nobody}, worker : Runners \cup {Nobody},
   pulses : 0..MaxPulses]

RunnerStates ==
  [pc : {"idle", "starting", "recover", "relock", "claim", "leave", "stopping", "running", "answered", "failed"},
   name : Names \cup {Nobody}, ask : 0..MaxAsks, place : Places \cup {NoPlace}]

\* The variables keep their types.
TurnsTypeOK ==
  /\ card \in [Names -> {"none", "managed", "interactive"}]
  /\ config \in [Names -> Places \cup {NoPlace}] /\ told \in [Names -> Places \cup {NoPlace, Nobody}]
  /\ asks \in Seq(AskStates)
  /\ Len(asks) <= MaxAsks
  /\ claims \subseteq DOMAIN asks
  /\ launch \in [Names -> Callers \cup Runners \cup {Nobody}]
  /\ queue \in [Names -> Callers \cup Runners \cup {Nobody}]
  /\ caller \in [Callers -> CallerStates]
  /\ runner \in [Runners -> RunnerStates]
  /\ edits \in 0..MaxTurmoil /\ deaths \in Nat

\* Somebody is on the way to the queue of agent n: a worker that will look at it
\* again, or a dispatch that has not passed the agent yet.
OnTheWay(n) ==
  \/ \E w \in Runners : runner[w].name = n /\ runner[w].pc \notin {"leave", "stopping", "starting"}
  \/ \E c \in Callers : \/ caller[c].pc = "dispatch"
                        \/ n \in caller[c].todo

\* No wake-up is lost: an ask that waits for a managed agent has a worker or a
\* dispatch on the way to it, however a new ask meets the worker that is just
\* leaving (runner::dispatch, the end of runner::worker).  Only a process that died or
\* a worker that a failed claim ended leaves one behind, until the next dispatch.
NoLostWakeup ==
  \A n \in Names :
    (deaths = 0 /\ card[n] = "managed" /\ config[n] # NoPlace /\ Unclaimed(n) # {}) => OnTheWay(n)

\* The client of a turn is started at most once for an ask, whoever dies and
\* whoever takes over the queue (Store::recover, Store::claim).
OneTurnPerAsk == \A i \in DOMAIN asks : asks[i].turns <= 1

\* Every call of chat ask returns, also when agents ask each other from turns
\* whose chains do not know of one another (ops::await_ending).
CallReturns == \A c \in Callers : caller[c].pc # "idle" ~> caller[c].pc = "idle"

\* What an agent is given outside its turns stays its configuration until the
\* next operation: the end of a turn writes the configuration back that its
\* claim has read (Store::finish), so only a change during a turn is undone.
ConfiguredAsTold == \A n \in Names : told[n] # Nobody => config[n] = told[n]

\* The queue of a managed agent: no ask is left without a worker on its way, an
\* ask is given to a client at most once although workers die and are taken over
\* from, and a turn does not undo what its user configured outside of it
\* (runner.rs, turns.rs).
TurnsSound == TurnsTypeOK /\ NoLostWakeup /\ OneTurnPerAsk /\ ConfiguredAsTold
=============================================================================

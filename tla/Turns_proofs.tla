---------------------------- MODULE Turns_proofs -----------------------------
(***************************************************************************)
(* The turns of the managed agents of a machine, for any number of agents, *)
(* callers, workers and asks, and any number of deaths.                    *)
(*                                                                         *)
(* That no wake-up is lost is an argument about the two locks of an agent. *)
(* A dispatch passes an agent over only while it holds the launch lock and *)
(* has seen the queue lock held, by a worker it launched or by another.    *)
(* That worker cannot leave without the launch lock, so it is still on its *)
(* way when the dispatch moves on.  An ask of an agent without a profile   *)
(* has a dispatch in front of its triage instead: this is what the         *)
(* invariant needs to survive an agent that is started again.              *)
(***************************************************************************)
EXTENDS Turns, SequenceTheorems, WellFoundedInduction, TLAPS

\* The points of a worker in a turn, of a worker that looks at its queue again, of one
\* that holds the queue lock, and of a dispatch that holds a launch lock.
InTheTurn == {"running", "answered", "failed"}
Queued == {"recover", "relock", "claim"} \cup InTheTurn
Locked == Queued \cup {"stopping"}
Dispatching == {"probe", "free", "launched", "announced", "broken"}

\* Every lock has a holder that is at a point where it holds it.
LocksHeld ==
  /\ \A n \in Names : queue[n] \in Runners => runner[queue[n]].name = n /\ runner[queue[n]].pc \in Locked
  /\ \A n \in Names : queue[n] \in Callers => caller[queue[n]].at = n /\ caller[queue[n]].pc = "free"
  /\ \A c \in Callers : caller[c].pc \in Dispatching => caller[c].at \in Names /\ launch[caller[c].at] = c
  /\ \A w \in Runners : runner[w].pc \in {"claim", "leave"} => launch[runner[w].name] = w

\* What a caller knows of the worker it launched, and a worker of its agent.
WorkersKnown ==
  /\ \A w \in Runners : IF runner[w].pc = "idle" THEN runner[w].name = Nobody ELSE runner[w].name \in Names
  /\ \A c \in Callers : caller[c].pc = "launched" =>
       /\ caller[c].worker \in Runners
       /\ runner[caller[c].worker].pc = "starting"
       /\ runner[caller[c].worker].name = caller[c].at
  /\ \A c \in Callers : caller[c].pc \in {"idle", "dispatch", "check"} => caller[c].todo = {}
  /\ \A c \in Callers : caller[c].pc = "broken" => deaths > 0
  /\ \A w \in Runners : runner[w].pc = "stopping" => deaths > 0

\* When the worker it launched has announced itself, some worker is on the way and
\* waits for the launch lock before it may leave.
AnnouncedHasWorker ==
  deaths = 0 => \A c \in Callers : caller[c].pc = "announced" =>
    \E w \in Runners : runner[w].name = caller[c].at /\ runner[w].pc \in Queued \ {"claim"}

\* An ask that was given to a client is claimed or has ended.
TurnIsClaimed ==
  \A i \in DOMAIN asks : asks[i].turns <= 1 /\ (asks[i].turns = 1 => i \in claims \/ ~OpenAsk(i))

\* Agents with a profile have a configuration, and a turn carries an ask and the
\* configuration it was given.
TurnPlaces ==
  /\ \A n \in Names : card[n] # "none" => config[n] # NoPlace
  /\ \A w \in Runners : runner[w].pc \in InTheTurn =>
       /\ runner[w].ask \in DOMAIN asks /\ runner[w].place \in Places
       /\ told[runner[w].name] # Nobody => runner[w].place = told[runner[w].name]

\* An ask to an agent without a profile waits for a triage that ends it.
TriageComing ==
  deaths = 0 => \A n \in Names : card[n] = "none" /\ Unclaimed(n) # {} =>
    \E c \in Callers : caller[c].pc = "dispatch"

TurnsInv ==
  /\ TurnsTypeOK /\ LocksHeld /\ WorkersKnown /\ AnnouncedHasWorker
  /\ TurnIsClaimed /\ TurnPlaces /\ ConfiguredAsTold
  /\ TriageComing /\ NoLostWakeup

-----------------------------------------------------------------------------
\* One process changes

\* A worker goes on to another point.
LEMMA ProceedFacts ==
  ASSUME TurnsTypeOK, NEW w \in Runners,
         NEW pc \in {"recover", "relock", "claim", "leave", "stopping", "running", "answered", "failed"}, Proceed(w, pc)
  PROVE  /\ runner' \in [Runners -> RunnerStates]
         /\ runner'[w].pc = pc /\ runner'[w].name = runner[w].name
         /\ runner'[w].ask = runner[w].ask /\ runner'[w].place = runner[w].place
         /\ \A v \in Runners \ {w} : runner'[v] = runner[v]
  BY DEF TurnsTypeOK, RunnerStates, Proceed

\* A worker ends.
LEMMA QuitFacts ==
  ASSUME TurnsTypeOK, NEW w \in Runners, Quit(w)
  PROVE  /\ runner' \in [Runners -> RunnerStates]
         /\ runner'[w].pc = "idle" /\ runner'[w].name = Nobody
         /\ \A v \in Runners \ {w} : runner'[v] = runner[v]
<1>1. Absent \in RunnerStates /\ Absent.pc = "idle" /\ Absent.name = Nobody
  BY TurnsAssumption DEF Absent, RunnerStates
<1> QED
  BY <1>1 DEF TurnsTypeOK, Quit

\* A caller goes on to another point.
LEMMA StepFacts ==
  ASSUME TurnsTypeOK, NEW c \in Callers, NEW pc \in {"free", "check"}, Step(c, pc)
  PROVE  /\ caller' \in [Callers -> CallerStates]
         /\ caller'[c].pc = pc /\ caller'[c].todo = caller[c].todo
         /\ caller'[c].at = caller[c].at /\ caller'[c].worker = caller[c].worker
         /\ \A d \in Callers \ {c} : caller'[d] = caller[d]
  BY ZenonT(60) DEF TurnsTypeOK, CallerStates, Step

\* A caller returns.
LEMMA ReturnFacts ==
  ASSUME TurnsTypeOK, NEW c \in Callers, Return(c)
  PROVE  /\ caller' \in [Callers -> CallerStates]
         /\ caller'[c].pc = "idle" /\ caller'[c].todo = {}
         /\ \A d \in Callers \ {c} : caller'[d] = caller[d]
<1>1. Calm \in CallerStates /\ Calm.pc = "idle" /\ Calm.todo = {}
  BY TurnsAssumption DEF Calm, CallerStates
<1> QED
  BY <1>1 DEF TurnsTypeOK, Return

\* A dispatch moves on to its next agent and drops the launch lock.
LEMMA NextAgentFacts ==
  ASSUME TurnsTypeOK, NEW c \in Callers, caller[c].at \in Names, NextAgent(c)
  PROVE  /\ caller' \in [Callers -> CallerStates]
         /\ caller'[c].pc = "next" /\ caller'[c].todo = caller[c].todo \ {caller[c].at}
         /\ \A d \in Callers \ {c} : caller'[d] = caller[d]
         /\ launch' \in [Names -> Callers \cup Runners \cup {Nobody}]
         /\ launch'[caller[c].at] = Nobody
         /\ \A n \in Names \ {caller[c].at} : launch'[n] = launch[n]
<1> DEFINE N == [caller[c] EXCEPT !.pc = "next", !.todo = @ \ {caller[c].at}, !.at = Nobody, !.worker = Nobody]
<1>1. caller[c] \in CallerStates
  BY DEF TurnsTypeOK
<1>2. N \in CallerStates /\ N.pc = "next" /\ N.todo = caller[c].todo \ {caller[c].at}
  BY <1>1 DEF CallerStates
<1>3. caller' = [caller EXCEPT ![c] = N]
  BY DEF NextAgent, TurnsTypeOK
<1> HIDE DEF N
<1>4. /\ caller' \in [Callers -> CallerStates] /\ caller'[c] = N
      /\ \A d \in Callers \ {c} : caller'[d] = caller[d]
  BY <1>2, <1>3 DEF TurnsTypeOK
<1>5. /\ launch' \in [Names -> Callers \cup Runners \cup {Nobody}]
      /\ launch'[caller[c].at] = Nobody
      /\ \A n \in Names \ {caller[c].at} : launch'[n] = launch[n]
  BY DEF NextAgent, TurnsTypeOK
<1> QED
  BY <1>2, <1>4, <1>5

\* The caller that launched a worker hears from it; nothing else of it changes.
LEMMA HearFacts ==
  ASSUME TurnsTypeOK, NEW w \in Runners, NEW pc \in {"announced", "broken"}, Hear(w, pc)
  PROVE  /\ caller' \in [Callers -> CallerStates]
         /\ \A c \in Callers :
              /\ caller'[c].todo = caller[c].todo /\ caller'[c].at = caller[c].at
              /\ caller'[c].worker = caller[c].worker
              /\ caller'[c].pc = IF caller[c].pc = "launched" /\ caller[c].worker = w THEN pc ELSE caller[c].pc
<1> DEFINE N(c) == [caller[c] EXCEPT !.pc = pc]
<1>1. \A c \in Callers : caller[c] \in CallerStates
  BY DEF TurnsTypeOK
<1>2. \A c \in Callers : /\ N(c) \in CallerStates /\ N(c).pc = pc
                         /\ N(c).todo = caller[c].todo /\ N(c).at = caller[c].at /\ N(c).worker = caller[c].worker
  BY <1>1 DEF CallerStates
<1>3. caller' = [c \in Callers |-> IF caller[c].pc = "launched" /\ caller[c].worker = w THEN N(c) ELSE caller[c]]
  BY DEF Hear
<1> HIDE DEF N
<1> QED
  BY <1>1, <1>2, <1>3

\* The locks a process holds become free, and no other.
LEMMA FreeFacts ==
  ASSUME NEW p, NEW locks, locks \in [Names -> Callers \cup Runners \cup {Nobody}]
  PROVE  /\ Free(p, locks) \in [Names -> Callers \cup Runners \cup {Nobody}]
         /\ \A n \in Names : Free(p, locks)[n] = IF locks[n] = p THEN Nobody ELSE locks[n]
  BY DEF Free

\* Ending asks ends the open ones among them, and changes nothing else of any ask.
LEMMA EndAsksFacts ==
  ASSUME TurnsTypeOK, NEW ids, NEW outcome \in Endings, asks' = EndAsks(ids, outcome)
  PROVE  /\ asks' \in Seq(AskStates) /\ Len(asks') = Len(asks) /\ DOMAIN asks' = DOMAIN asks
         /\ \A i \in DOMAIN asks :
              /\ asks'[i].to = asks[i].to /\ asks'[i].turns = asks[i].turns
              /\ asks'[i].ending = "open" => asks[i].ending = "open" /\ i \notin ids
<1> DEFINE N(i) == [asks[i] EXCEPT !.ending = outcome]
<1>0. /\ Len(asks) \in Nat /\ DOMAIN asks = 1..Len(asks)
      /\ \A i \in DOMAIN asks : asks[i] \in AskStates
  BY DEF TurnsTypeOK
<1>1. \A i \in DOMAIN asks : N(i) \in AskStates /\ N(i).to = asks[i].to /\ N(i).turns = asks[i].turns /\ N(i).ending = outcome
  BY <1>0 DEF AskStates
<1>2. asks' = [i \in DOMAIN asks |-> IF i \in ids /\ OpenAsk(i) THEN N(i) ELSE asks[i]]
  BY DEF EndAsks
<1> HIDE DEF N
<1>3. asks' \in [1..Len(asks) -> AskStates]
  BY <1>0, <1>1, <1>2
<1>4. asks' \in Seq(AskStates) /\ Len(asks') = Len(asks) /\ DOMAIN asks' = DOMAIN asks
  BY <1>0, <1>3, SeqDef
<1>5. outcome # "open"
  BY DEF Endings
<1> QED
  BY <1>0, <1>1, <1>2, <1>4, <1>5 DEF OpenAsk

\* A non-empty set of natural numbers has a least element.
LEMMA LeastNumber ==
  ASSUME NEW T \in SUBSET Nat, T # {}
  PROVE  \E x \in T : \A y \in T : x <= y
<1> DEFINE R == OpToRel(<, Nat)
<1>1. IsWellFoundedOn(R, Nat)
  BY NatLessThanWellFounded
<1>2. \A x, y \in Nat : y < x => <<y, x>> \in R
  BY DEF OpToRel
<1> HIDE DEF R
<1>3. PICK x \in T : \A y \in T : ~ (<<y, x>> \in R)
  BY <1>1, WFMin
<1>4. \A y \in T : ~(y < x)
  BY <1>2, <1>3, Zenon
<1>5. \A y \in T : x <= y
  BY <1>4, SMT
<1> QED
  BY <1>5

-----------------------------------------------------------------------------
\* What is left alone

\* While no ask and no claim changes, neither does what is known of them.
LEMMA AsksKept ==
  ASSUME TurnsInv, UNCHANGED <<asks, claims>>
  PROVE  TurnIsClaimed' /\ \A n \in Names : Unclaimed(n)' = Unclaimed(n)
  BY DEF TurnsInv, TurnIsClaimed, Unclaimed, OpenFor, OpenAsk

\* Asks that end leave no unclaimed ask that was not there, when a claim is given up
\* only with its ask.
LEMMA AsksEnd ==
  ASSUME TurnsInv, NEW ids, NEW outcome \in Endings, asks' = EndAsks(ids, outcome),
         claims' \subseteq claims, claims \ claims' \subseteq ids
  PROVE  /\ asks' \in Seq(AskStates) /\ Len(asks') <= MaxAsks /\ claims' \subseteq DOMAIN asks'
         /\ DOMAIN asks' = DOMAIN asks /\ TurnIsClaimed'
         /\ \A n \in Names : Unclaimed(n)' \subseteq Unclaimed(n) /\ Unclaimed(n)' \cap ids = {}
<1> USE DEF TurnsInv
<1>1. /\ asks' \in Seq(AskStates) /\ Len(asks') = Len(asks) /\ DOMAIN asks' = DOMAIN asks
      /\ \A i \in DOMAIN asks :
           /\ asks'[i].to = asks[i].to /\ asks'[i].turns = asks[i].turns
           /\ asks'[i].ending = "open" => asks[i].ending = "open" /\ i \notin ids
  BY EndAsksFacts
<1>2. TurnIsClaimed'
  BY <1>1 DEF TurnIsClaimed, OpenAsk
<1>3. \A n \in Names : Unclaimed(n)' \subseteq Unclaimed(n) /\ Unclaimed(n)' \cap ids = {}
  BY <1>1 DEF Unclaimed, OpenFor, OpenAsk
<1> QED
  BY <1>1, <1>2, <1>3 DEF TurnsTypeOK

\* The configurations stay as told while no agent changes and no turn begins.
LEMMA PlacesKept ==
  ASSUME TurnsInv, UNCHANGED agentVars, DOMAIN asks \subseteq DOMAIN asks',
         \A w \in Runners : runner'[w].pc \in InTheTurn =>
           /\ runner[w].pc \in InTheTurn /\ runner'[w].name = runner[w].name
           /\ runner'[w].place = runner[w].place /\ runner'[w].ask = runner[w].ask
  PROVE  TurnPlaces' /\ ConfiguredAsTold'
  BY DEF TurnsInv, TurnPlaces, ConfiguredAsTold, agentVars

\* No wake-up is lost by a step that leaves whoever is on the way on the way.
LEMMA WakeupKept ==
  ASSUME TurnsInv, deaths' = 0 => deaths = 0, card' = card,
         \A n \in Names : Unclaimed(n)' \subseteq Unclaimed(n),
         (\E c \in Callers : caller[c].pc = "dispatch") => (\E c \in Callers : caller'[c].pc = "dispatch"),
         \A n \in Names : OnTheWay(n) => OnTheWay(n)'
  PROVE  TriageComing' /\ NoLostWakeup'
<1>1. TriageComing'
  BY DEF TurnsInv, TriageComing
<1>2. NoLostWakeup'
  <2> SUFFICES ASSUME NEW n \in Names, deaths' = 0, card[n] = "managed", Unclaimed(n)' # {}
               PROVE  OnTheWay(n)'
    BY DEF NoLostWakeup
  <2>1. OnTheWay(n)
    BY DEF TurnsInv, NoLostWakeup, TurnPlaces
  <2> QED
    BY <2>1
<1> QED
  BY <1>1, <1>2

-----------------------------------------------------------------------------
\* Agents and asks

\* At first no process runs and nothing was asked.
LEMMA TurnsInitially == TurnsInit => TurnsInv
<1> SUFFICES ASSUME TurnsInit PROVE TurnsInv
  OBVIOUS
<1>0. Calm \in CallerStates /\ Calm.pc = "idle" /\ Calm.todo = {} /\ Absent \in RunnerStates /\ Absent.pc = "idle" /\ Absent.name = Nobody
  BY TurnsAssumption DEF Calm, Absent, CallerStates, RunnerStates
<1>1. TurnsTypeOK
  BY <1>0, TurnsAssumption DEF TurnsInit, TurnsTypeOK
<1>2. LocksHeld /\ WorkersKnown /\ AnnouncedHasWorker
  BY <1>0, TurnsAssumption DEF TurnsInit, LocksHeld, WorkersKnown, AnnouncedHasWorker, Dispatching
<1>3. DOMAIN asks = {}
  BY DEF TurnsInit
<1>4. TurnIsClaimed /\ TriageComing /\ NoLostWakeup
  BY <1>3 DEF TurnIsClaimed, TriageComing, NoLostWakeup, Unclaimed, OpenFor
<1>5. TurnPlaces /\ ConfiguredAsTold
  BY <1>0, TurnsAssumption DEF TurnsInit, TurnPlaces, ConfiguredAsTold, InTheTurn
<1> QED
  BY <1>1, <1>2, <1>3, <1>4, <1>5 DEF TurnsInv

\* The operations on agents leave the processes alone.
LEMMA ProcessesAlone ==
  ASSUME TurnsInv, UNCHANGED <<launch, queue, caller, runner, deaths>>
  PROVE  LocksHeld' /\ WorkersKnown' /\ AnnouncedHasWorker' /\ \A n \in Names : OnTheWay(n)' <=> OnTheWay(n)
  BY DEF TurnsInv, LocksHeld, WorkersKnown, AnnouncedHasWorker, OnTheWay

\* An agent is joined, started or updated with a working directory.  A turn that runs
\* makes what the agent was told unknown.
LEMMA GivenKeeps ==
  ASSUME TurnsInv, NEW n \in Names, NEW d \in Places, JoinAgent(n, d) \/ StartAgent(n, d) \/ UpdateAgent(n, d)
  PROVE  TurnsInv'
<1> USE DEF TurnsInv
<1>1. /\ UNCHANGED <<asks, claims, launch, queue, caller, runner, deaths>>
      /\ config' = [config EXCEPT ![n] = d] /\ told' = Given(n, d) /\ Edit
      /\ \/ card' = card \/ card' = [card EXCEPT ![n] = "interactive"]
         \/ card[n] = "none" /\ card' = [card EXCEPT ![n] = "managed"]
  BY DEF JoinAgent, StartAgent, UpdateAgent
<1>2. /\ LocksHeld' /\ WorkersKnown' /\ AnnouncedHasWorker' /\ TurnIsClaimed'
      /\ \A m \in Names : (OnTheWay(m)' <=> OnTheWay(m)) /\ Unclaimed(m)' = Unclaimed(m)
  BY <1>1, ProcessesAlone, AsksKept
<1>3. /\ config' \in [Names -> Places \cup {NoPlace}] /\ config'[n] = d /\ \A m \in Names \ {n} : config'[m] = config[m]
      /\ told' \in [Names -> Places \cup {NoPlace, Nobody}] /\ \A m \in Names \ {n} : told'[m] = told[m]
      /\ told'[n] = IF InTurn(n) THEN Nobody ELSE d
      /\ card' \in [Names -> {"none", "managed", "interactive"}] /\ \A m \in Names \ {n} : card'[m] = card[m]
  BY <1>1 DEF Given, TurnsTypeOK
<1>4. edits' \in 0..MaxTurmoil
  BY <1>1, TurnsAssumption DEF Edit, TurnsTypeOK
<1>5. TurnsTypeOK'
  BY <1>1, <1>3, <1>4 DEF TurnsTypeOK
<1>6. TurnPlaces' /\ ConfiguredAsTold'
  <2>1. ConfiguredAsTold'
    BY <1>3 DEF ConfiguredAsTold
  <2>2. \A m \in Names : card'[m] # "none" => config'[m] # NoPlace
    BY <1>3, TurnsAssumption DEF TurnPlaces
  <2>3. \A w \in Runners : runner[w].pc \in InTheTurn /\ runner[w].name = n => InTurn(n)
    BY DEF InTurn, InTheTurn
  <2>4. \A w \in Runners : runner[w].pc \in InTheTurn => runner[w].name \in Names
    BY DEF WorkersKnown, InTheTurn
  <2> QED
    BY <1>1, <1>3, <2>1, <2>2, <2>3, <2>4 DEF TurnPlaces
<1>7. TriageComing'
  BY <1>1, <1>2, <1>3 DEF TriageComing, TurnsTypeOK
<1>8. NoLostWakeup'
  <2> SUFFICES ASSUME NEW m \in Names, deaths = 0, card'[m] = "managed", Unclaimed(m) # {}
               PROVE  OnTheWay(m)
    BY <1>1, <1>2 DEF NoLostWakeup
  <2>1. CASE card[m] = "managed"
    BY <2>1 DEF NoLostWakeup, TurnPlaces
  <2>2. CASE card[m] = "none"
    BY <2>2 DEF TriageComing, OnTheWay
  <2> QED
    BY <1>1, <1>3, <2>1, <2>2 DEF TurnsTypeOK
<1> QED
  BY <1>2, <1>5, <1>6, <1>7, <1>8

\* An agent is removed, and with it its open asks.
LEMMA RemoveKeeps ==
  ASSUME TurnsInv, NEW n \in Names, RemoveAgent(n)
  PROVE  TurnsInv'
<1> USE DEF TurnsInv
<1>1. /\ LocksHeld' /\ WorkersKnown' /\ AnnouncedHasWorker'
      /\ \A m \in Names : OnTheWay(m)' <=> OnTheWay(m)
  BY ProcessesAlone DEF RemoveAgent
<1>2. /\ asks' \in Seq(AskStates) /\ Len(asks') <= MaxAsks /\ claims' \subseteq DOMAIN asks'
      /\ TurnIsClaimed' /\ DOMAIN asks' = DOMAIN asks
      /\ \A m \in Names : Unclaimed(m)' \subseteq Unclaimed(m) /\ Unclaimed(m)' \cap OpenFor(n) = {}
  BY AsksEnd DEF RemoveAgent, Endings
<1>3. Unclaimed(n)' = {}
  BY <1>2 DEF Unclaimed
<1>4. /\ config' \in [Names -> Places \cup {NoPlace}] /\ config'[n] = NoPlace /\ \A m \in Names \ {n} : config'[m] = config[m]
      /\ told' \in [Names -> Places \cup {NoPlace, Nobody}] /\ \A m \in Names \ {n} : told'[m] = told[m]
      /\ told'[n] = IF InTurn(n) THEN Nobody ELSE NoPlace
      /\ card' \in [Names -> {"none", "managed", "interactive"}] /\ card'[n] = "none"
      /\ \A m \in Names \ {n} : card'[m] = card[m]
  BY DEF RemoveAgent, Given, TurnsTypeOK
<1>5. edits' \in 0..MaxTurmoil
  BY TurnsAssumption DEF RemoveAgent, Edit, TurnsTypeOK
<1>6. TurnsTypeOK'
  BY <1>2, <1>4, <1>5 DEF TurnsTypeOK, RemoveAgent
<1>7. TurnPlaces' /\ ConfiguredAsTold'
  <2>1. ConfiguredAsTold' /\ \A m \in Names : card'[m] # "none" => config'[m] # NoPlace
    BY <1>4 DEF ConfiguredAsTold, TurnPlaces
  <2>2. \A w \in Runners : runner[w].pc \in InTheTurn =>
          runner[w].name \in Names /\ (runner[w].name = n => InTurn(n))
    BY DEF InTurn, InTheTurn, WorkersKnown
  <2> QED
    BY <1>2, <1>4, <2>1, <2>2 DEF TurnPlaces, RemoveAgent
<1>8. TriageComing' /\ NoLostWakeup'
  <2>1. deaths' = deaths /\ caller' = caller
    BY DEF RemoveAgent
  <2>2. TriageComing'
    BY <1>2, <1>3, <1>4, <2>1 DEF TriageComing
  <2>3. NoLostWakeup'
    BY <1>1, <1>2, <1>3, <1>4, <2>1 DEF NoLostWakeup
  <2> QED
    BY <2>2, <2>3
<1> QED
  BY <1>1, <1>2, <1>6, <1>7, <1>8

\* An ask is answered by hand or withdrawn.
LEMMA ResolveKeeps ==
  ASSUME TurnsInv, NEW i \in DOMAIN asks, NEW outcome \in {"answered", "withdrawn"}, ResolveAsk(i, outcome)
  PROVE  TurnsInv'
<1> USE DEF TurnsInv
<1>1. /\ LocksHeld' /\ WorkersKnown' /\ AnnouncedHasWorker'
      /\ \A m \in Names : OnTheWay(m)' <=> OnTheWay(m)
  BY ProcessesAlone DEF ResolveAsk, lockVars
<1>2. /\ asks' \in Seq(AskStates) /\ Len(asks') <= MaxAsks /\ claims' \subseteq DOMAIN asks'
      /\ TurnIsClaimed' /\ DOMAIN asks' = DOMAIN asks /\ \A m \in Names : Unclaimed(m)' \subseteq Unclaimed(m)
  BY AsksEnd DEF ResolveAsk, Endings
<1>3. edits' \in 0..MaxTurmoil
  BY TurnsAssumption DEF ResolveAsk, Edit, TurnsTypeOK
<1>4. TurnsTypeOK'
  BY <1>2, <1>3 DEF TurnsTypeOK, ResolveAsk, agentVars, lockVars
<1>5. TurnPlaces' /\ ConfiguredAsTold'
  BY <1>2, PlacesKept DEF ResolveAsk
<1>6. TriageComing' /\ NoLostWakeup'
  BY <1>1, <1>2, WakeupKept DEF ResolveAsk, agentVars
<1> QED
  BY <1>1, <1>2, <1>4, <1>5, <1>6

-----------------------------------------------------------------------------
\* Calls of chat ask

\* A caller that changes while it holds no lock disturbs no lock and no worker.
LEMMA CallerAlone ==
  ASSUME TurnsInv, NEW c \in Callers, UNCHANGED <<launch, queue, runner, deaths>>,
         caller' \in [Callers -> CallerStates], \A d \in Callers \ {c} : caller'[d] = caller[d],
         caller[c].pc \notin Dispatching, caller'[c].pc \notin Dispatching,
         caller'[c].pc = "next" \/ caller'[c].todo = {}
  PROVE  LocksHeld' /\ WorkersKnown' /\ AnnouncedHasWorker'
<1> USE DEF TurnsInv
<1>1. LocksHeld'
  BY DEF LocksHeld, Dispatching
<1>2. WorkersKnown'
  BY DEF WorkersKnown, Dispatching
<1>3. AnnouncedHasWorker'
  BY DEF AnnouncedHasWorker, Dispatching
<1> QED
  BY <1>1, <1>2, <1>3

\* An ask is written; the dispatch that follows is on its way to it.
LEMMA WriteAskKeeps ==
  ASSUME TurnsInv, NEW c \in Callers, NEW n \in Names, WriteAsk(c, n)
  PROVE  TurnsInv'
<1> USE DEF TurnsInv
<1> DEFINE A == [from |-> c, to |-> n, chain |-> ChainOf(c), ending |-> "open", turns |-> 0]
           N == [Calm EXCEPT !.pc = "dispatch", !.ask = Len(asks) + 1]
<1>0. /\ caller[c].pc = "idle" /\ Len(asks) < MaxAsks /\ asks' = Append(asks, A)
      /\ caller' = [caller EXCEPT ![c] = N]
      /\ UNCHANGED agentVars /\ UNCHANGED <<claims, launch, queue, runner, edits, deaths>>
  BY DEF WriteAsk, lockVars
<1>1. ChainOf(c) \subseteq Callers
  <2>1. \A i \in TurnOf(c) : i \in DOMAIN asks
    BY DEF TurnOf, TurnPlaces, InTheTurn
  <2>2. \A i \in DOMAIN asks : asks[i] \in AskStates
    BY DEF TurnsTypeOK
  <2>3. \A i \in DOMAIN asks : asks[i].chain \cup {asks[i].from} \subseteq Callers
    BY <2>2 DEF AskStates
  <2> QED
    BY <2>1, <2>3, Zenon DEF ChainOf
<1>2. A \in AskStates /\ A.turns = 0 /\ A.ending = "open"
  BY <1>1 DEF AskStates
<1>3. N \in CallerStates /\ N.pc = "dispatch" /\ N.todo = {}
  <2>1. Len(asks) + 1 \in 0..MaxAsks
    BY <1>0, TurnsAssumption DEF TurnsTypeOK
  <2>2. Calm \in CallerStates /\ Calm.todo = {}
    BY TurnsAssumption DEF Calm, CallerStates
  <2> HIDE DEF Calm
  <2> QED
    BY <2>1, <2>2 DEF CallerStates
<1> HIDE DEF A, N
<1>4. /\ asks' \in Seq(AskStates) /\ Len(asks') <= MaxAsks /\ DOMAIN asks = 1..Len(asks)
      /\ Len(asks') = Len(asks) + 1 /\ DOMAIN asks' = 1..(Len(asks) + 1) /\ Len(asks) \in Nat
      /\ \A i \in DOMAIN asks : asks'[i] = asks[i]
      /\ asks'[Len(asks) + 1] = A
  BY <1>0, <1>2, TurnsAssumption DEF TurnsTypeOK
<1>5. \A i \in DOMAIN asks' : i \in DOMAIN asks \/ i = Len(asks) + 1
  BY <1>4
<1>6. /\ caller' \in [Callers -> CallerStates] /\ caller'[c] = N
      /\ \A d \in Callers \ {c} : caller'[d] = caller[d]
  BY <1>0, <1>3 DEF TurnsTypeOK
<1>7. DOMAIN asks \subseteq DOMAIN asks'
  BY <1>4
<1>8. TurnsTypeOK'
  BY <1>0, <1>4, <1>6, <1>7 DEF TurnsTypeOK, agentVars
<1>9. LocksHeld' /\ WorkersKnown' /\ AnnouncedHasWorker'
  BY <1>0, <1>3, <1>6, CallerAlone DEF Dispatching
<1>10. TurnIsClaimed'
  BY <1>0, <1>2, <1>4, <1>5 DEF TurnIsClaimed, OpenAsk
<1>11. TurnPlaces' /\ ConfiguredAsTold'
  BY <1>0, <1>7, PlacesKept
<1>12. TriageComing' /\ NoLostWakeup'
  BY <1>3, <1>6 DEF TriageComing, NoLostWakeup, OnTheWay
<1> QED
  BY <1>8, <1>9, <1>10, <1>11, <1>12

\* The triage ends the asks that nobody can answer and goes on to every agent with
\* open ones.
LEMMA TriageKeeps ==
  ASSUME TurnsInv, NEW c \in Callers, Triage(c)
  PROVE  TurnsInv'
<1> USE DEF TurnsInv
<1> DEFINE N == [caller[c] EXCEPT !.pc = "next", !.todo = Ready]
<1>0. /\ caller[c].pc = "dispatch" /\ asks' = EndAsks(Unavailable, "unavailable")
      /\ UNCHANGED agentVars /\ UNCHANGED <<card, config, claims, launch, queue, runner, edits, deaths>>
  BY DEF Triage, lockVars, agentVars
<1>1. N \in CallerStates /\ N.pc = "next" /\ N.todo = Ready
  BY DEF TurnsTypeOK, CallerStates, Ready
<1>2. caller' = [caller EXCEPT ![c] = N]
  BY DEF Triage, TurnsTypeOK
<1> HIDE DEF N
<1>3. /\ caller' \in [Callers -> CallerStates] /\ caller'[c] = N
      /\ \A d \in Callers \ {c} : caller'[d] = caller[d]
  BY <1>1, <1>2 DEF TurnsTypeOK
<1>4. /\ asks' \in Seq(AskStates) /\ Len(asks') <= MaxAsks /\ claims' \subseteq DOMAIN asks'
      /\ DOMAIN asks' = DOMAIN asks /\ TurnIsClaimed'
      /\ \A n \in Names : Unclaimed(n)' \subseteq Unclaimed(n) /\ Unclaimed(n)' \cap Unavailable = {}
  BY <1>0, AsksEnd DEF Endings
<1>5. TurnsTypeOK'
  BY <1>0, <1>3, <1>4 DEF TurnsTypeOK, agentVars
<1>6. LocksHeld' /\ WorkersKnown' /\ AnnouncedHasWorker'
  BY <1>0, <1>1, <1>3, CallerAlone DEF Dispatching
<1>7. TurnPlaces' /\ ConfiguredAsTold'
  BY <1>0, <1>4, PlacesKept
<1>8. \A n \in Names : card[n] = "none" => Unclaimed(n)' = {}
  BY <1>4 DEF Unavailable, Unclaimed, OpenFor
<1>9. \A n \in Names : card[n] = "managed" /\ config[n] # NoPlace /\ Unclaimed(n)' # {} => n \in Ready
  BY <1>4 DEF Ready, Unclaimed
<1>10. TriageComing' /\ NoLostWakeup'
  BY <1>0, <1>1, <1>3, <1>8, <1>9 DEF TriageComing, NoLostWakeup, OnTheWay
<1> QED
  BY <1>4, <1>5, <1>6, <1>7, <1>10

\* A dispatch takes the launch lock of an agent.
LEMMA TakeLaunchKeeps ==
  ASSUME TurnsInv, NEW c \in Callers, NEW n \in Names, TakeLaunch(c, n)
  PROVE  TurnsInv'
<1> USE DEF TurnsInv
<1> DEFINE N == [caller[c] EXCEPT !.pc = "probe", !.at = n]
<1>0. /\ caller[c].pc = "next" /\ launch[n] = Nobody /\ launch' = [launch EXCEPT ![n] = c]
      /\ UNCHANGED agentVars /\ UNCHANGED <<card, asks, claims, queue, runner, edits, deaths>>
  BY DEF TakeLaunch, agentVars
<1>1. N \in CallerStates /\ N.pc = "probe" /\ N.at = n /\ N.todo = caller[c].todo
  BY DEF TurnsTypeOK, CallerStates
<1>2. caller' = [caller EXCEPT ![c] = N]
  BY DEF TakeLaunch, TurnsTypeOK
<1> HIDE DEF N
<1>3. /\ caller' \in [Callers -> CallerStates] /\ caller'[c] = N
      /\ \A d \in Callers \ {c} : caller'[d] = caller[d]
      /\ launch' \in [Names -> Callers \cup Runners \cup {Nobody}] /\ launch'[n] = c
      /\ \A m \in Names \ {n} : launch'[m] = launch[m]
  BY <1>0, <1>1, <1>2 DEF TurnsTypeOK
<1>4. TurnsTypeOK'
  BY <1>0, <1>3 DEF TurnsTypeOK, agentVars
<1>5. LocksHeld'
  <2>1. \A m \in Names : queue[m] \in Callers => queue[m] # c
    BY <1>0 DEF LocksHeld
  <2>2. \A d \in Callers : caller'[d].pc \in Dispatching => caller'[d].at \in Names /\ launch'[caller'[d].at] = d
    BY <1>0, <1>1, <1>3, TurnsAssumption DEF LocksHeld
  <2>3. \A w \in Runners : runner[w].pc \in {"claim", "leave"} => launch'[runner[w].name] = w
    BY <1>0, <1>3, TurnsAssumption DEF LocksHeld, WorkersKnown
  <2> QED
    BY <1>0, <1>3, <2>1, <2>2, <2>3 DEF LocksHeld
<1>6. WorkersKnown'
  BY <1>0, <1>1, <1>3 DEF WorkersKnown
<1>7. AnnouncedHasWorker'
  BY <1>0, <1>1, <1>3 DEF AnnouncedHasWorker
<1>8. TurnIsClaimed' /\ \A m \in Names : Unclaimed(m)' = Unclaimed(m)
  BY <1>0, AsksKept
<1>9. TurnPlaces' /\ ConfiguredAsTold'
  BY <1>0, PlacesKept
<1>10. TriageComing' /\ NoLostWakeup'
  <2>1. \A d \in Callers : caller[d].pc = "dispatch" => caller'[d].pc = "dispatch"
    BY <1>0, <1>3
  <2>2. \A d \in Callers : caller'[d].todo = caller[d].todo
    BY <1>1, <1>3
  <2>3. \A m \in Names : OnTheWay(m) => OnTheWay(m)'
    BY <1>0, <2>1, <2>2 DEF OnTheWay
  <2> QED
    BY <1>0, <1>8, <2>1, <2>3, WakeupKept
<1> QED
  BY <1>4, <1>5, <1>6, <1>7, <1>8, <1>9, <1>10

\* A dispatch is done with its agents.
LEMMA DispatchedKeeps ==
  ASSUME TurnsInv, NEW c \in Callers, Dispatched(c)
  PROVE  TurnsInv'
<1> USE DEF TurnsInv
<1>0. /\ caller[c].pc = "next" /\ caller[c].todo = {} /\ Step(c, "check")
      /\ UNCHANGED agentVars /\ UNCHANGED <<card, asks, claims, launch, queue, runner, edits, deaths>>
  BY DEF Dispatched, agentVars, lockVars
<1>1. /\ caller' \in [Callers -> CallerStates]
      /\ caller'[c].pc = "check" /\ caller'[c].todo = caller[c].todo
      /\ \A d \in Callers \ {c} : caller'[d] = caller[d]
  BY <1>0, StepFacts
<1>2. TurnsTypeOK'
  BY <1>0, <1>1 DEF TurnsTypeOK, agentVars
<1>3. LocksHeld' /\ WorkersKnown' /\ AnnouncedHasWorker'
  BY <1>0, <1>1, CallerAlone DEF Dispatching
<1>4. TurnIsClaimed' /\ \A m \in Names : Unclaimed(m)' = Unclaimed(m)
  BY <1>0, AsksKept
<1>5. TurnPlaces' /\ ConfiguredAsTold'
  BY <1>0, PlacesKept
<1>6. TriageComing' /\ NoLostWakeup'
  <2>1. \A d \in Callers : caller[d].pc = "dispatch" => caller'[d].pc = "dispatch"
    BY <1>0, <1>1
  <2>2. \A d \in Callers : caller'[d].todo = caller[d].todo
    BY <1>1
  <2>3. \A m \in Names : OnTheWay(m) => OnTheWay(m)'
    BY <1>0, <2>1, <2>2 DEF OnTheWay
  <2> QED
    BY <1>0, <1>4, <2>1, <2>3, WakeupKept
<1> QED
  BY <1>2, <1>3, <1>4, <1>5, <1>6

\* A call looks for its ending: it dispatches again or returns.
LEMMA CheckAskKeeps ==
  ASSUME TurnsInv, NEW c \in Callers, CheckAsk(c)
  PROVE  TurnsInv'
<1> USE DEF TurnsInv
<1>0. /\ caller[c].pc = "check" /\ caller[c].todo = {}
      /\ UNCHANGED agentVars /\ UNCHANGED <<card, asks, claims, launch, queue, runner, edits, deaths>>
  BY DEF CheckAsk, agentVars, lockVars, WorkersKnown
<1>1. /\ caller' \in [Callers -> CallerStates]
      /\ caller'[c].pc \in {"dispatch", "idle"} /\ caller'[c].todo = {}
      /\ \A d \in Callers \ {c} : caller'[d] = caller[d]
  <2>1. CASE Return(c)
    BY <2>1, ReturnFacts
  <2>2. CASE caller[c].pulses < MaxPulses /\ caller' = [caller EXCEPT ![c].pc = "dispatch", ![c].pulses = @ + 1]
    <3> DEFINE N == [caller[c] EXCEPT !.pc = "dispatch", !.pulses = @ + 1]
    <3>1. N \in CallerStates /\ N.pc = "dispatch" /\ N.todo = {}
      <4>1. caller[c] \in CallerStates
        BY DEF TurnsTypeOK
      <4>2. caller[c].pulses + 1 \in 0..MaxPulses
        BY <2>2, <4>1, TurnsAssumption DEF CallerStates
      <4> QED
        BY <1>0, <4>1, <4>2 DEF CallerStates
    <3>2. caller' = [caller EXCEPT ![c] = N]
      BY <2>2 DEF TurnsTypeOK
    <3> HIDE DEF N
    <3> QED
      BY <3>1, <3>2 DEF TurnsTypeOK
  <2> QED
    BY <2>1, <2>2 DEF CheckAsk
<1>2. TurnsTypeOK'
  BY <1>0, <1>1 DEF TurnsTypeOK, agentVars
<1>3. LocksHeld' /\ WorkersKnown' /\ AnnouncedHasWorker'
  BY <1>0, <1>1, CallerAlone DEF Dispatching
<1>4. TurnIsClaimed' /\ \A m \in Names : Unclaimed(m)' = Unclaimed(m)
  BY <1>0, AsksKept
<1>5. TurnPlaces' /\ ConfiguredAsTold'
  BY <1>0, PlacesKept
<1>6. TriageComing' /\ NoLostWakeup'
  <2>1. \A d \in Callers : caller[d].pc = "dispatch" => caller'[d].pc = "dispatch"
    BY <1>0, <1>1
  <2>2. \A d \in Callers : caller'[d].todo = caller[d].todo
    BY <1>0, <1>1
  <2>3. \A m \in Names : OnTheWay(m) => OnTheWay(m)'
    BY <1>0, <2>1, <2>2 DEF OnTheWay
  <2> QED
    BY <1>0, <1>4, <2>1, <2>3, WakeupKept
<1> QED
  BY <1>2, <1>3, <1>4, <1>5, <1>6

\* Whoever passes an agent over leaves a worker on the way to it.
LEMMA PassedOver ==
  ASSUME TurnsInv, NEW c \in Callers, caller[c].pc \in {"probe", "announced"}, NextAgent(c),
         UNCHANGED agentVars, UNCHANGED <<asks, claims, queue, runner, edits, deaths>>,
         deaths = 0 => \E w \in Runners : runner[w].name = caller[c].at /\ runner[w].pc \in Queued
  PROVE  TurnsInv'
<1> USE DEF TurnsInv
<1>0. caller[c].at \in Names /\ launch[caller[c].at] = c
  BY DEF LocksHeld, Dispatching
<1>1. /\ caller' \in [Callers -> CallerStates]
      /\ caller'[c].pc = "next" /\ caller'[c].todo = caller[c].todo \ {caller[c].at}
      /\ \A d \in Callers \ {c} : caller'[d] = caller[d]
      /\ launch' \in [Names -> Callers \cup Runners \cup {Nobody}]
      /\ launch'[caller[c].at] = Nobody
      /\ \A n \in Names \ {caller[c].at} : launch'[n] = launch[n]
  BY <1>0, NextAgentFacts
<1>2. TurnsTypeOK'
  BY <1>1 DEF TurnsTypeOK, agentVars
<1>3. LocksHeld'
  <2>1. \A m \in Names : queue[m] \in Callers => queue[m] # c
    BY DEF LocksHeld
  <2>2. \A d \in Callers : caller'[d].pc \in Dispatching => caller'[d].at \in Names /\ launch'[caller'[d].at] = d
    BY <1>0, <1>1 DEF LocksHeld, Dispatching
  <2>3. \A w \in Runners : runner[w].pc \in {"claim", "leave"} => launch'[runner[w].name] = w
    BY <1>0, <1>1, TurnsAssumption DEF LocksHeld, WorkersKnown
  <2> QED
    BY <1>1, <2>1, <2>2, <2>3 DEF LocksHeld
<1>4. WorkersKnown'
  BY <1>1 DEF WorkersKnown
<1>5. AnnouncedHasWorker'
  BY <1>1 DEF AnnouncedHasWorker
<1>6. TurnIsClaimed' /\ \A m \in Names : Unclaimed(m)' = Unclaimed(m)
  BY AsksKept
<1>7. TurnPlaces' /\ ConfiguredAsTold'
  BY PlacesKept
<1>8. TriageComing'
  BY <1>1, <1>6 DEF TriageComing, agentVars
<1>9. NoLostWakeup'
  <2> SUFFICES ASSUME NEW m \in Names, deaths = 0, card[m] = "managed", config[m] # NoPlace, Unclaimed(m) # {}
               PROVE  OnTheWay(m)'
    BY <1>6 DEF NoLostWakeup, agentVars
  <2>1. OnTheWay(m)
    BY DEF NoLostWakeup
  <2>2. CASE m = caller[c].at
    BY <2>2 DEF OnTheWay, Queued, InTheTurn
  <2>3. CASE m # caller[c].at
    BY <1>1, <2>1, <2>3 DEF OnTheWay
  <2> QED
    BY <2>2, <2>3
<1> QED
  BY <1>2, <1>3, <1>4, <1>5, <1>6, <1>7, <1>8, <1>9

\* The queue lock is probed under the launch lock: it is taken for a moment when it
\* is free, and the agent is passed over when a worker holds it.
LEMMA ProbeKeeps ==
  ASSUME TurnsInv, NEW c \in Callers, Probe(c)
  PROVE  TurnsInv'
<1> USE DEF TurnsInv
<1>0. /\ caller[c].pc = "probe" /\ caller[c].at \in Names /\ launch[caller[c].at] = c
      /\ UNCHANGED agentVars /\ UNCHANGED <<card, asks, claims, runner, edits, deaths>>
  BY DEF Probe, agentVars, LocksHeld, Dispatching
<1>1. CASE queue[caller[c].at] # Nobody
  <2>1. NextAgent(c) /\ queue' = queue
    BY <1>1 DEF Probe
  <2>2. queue[caller[c].at] \notin Callers
    BY <1>0 DEF LocksHeld, Dispatching
  <2>3. queue[caller[c].at] \in Runners
    BY <1>0, <1>1, <2>2 DEF TurnsTypeOK
  <2> QED
    <3>1. deaths = 0 => runner[queue[caller[c].at]].pc \in Queued
      BY <1>0, <2>3 DEF LocksHeld, WorkersKnown, Locked
    <3> QED
      BY <1>0, <2>1, <2>3, <3>1, PassedOver DEF LocksHeld
<1>2. CASE queue[caller[c].at] = Nobody
  <2>1. queue' = [queue EXCEPT ![caller[c].at] = c] /\ Step(c, "free") /\ launch' = launch
    BY <1>2 DEF Probe
  <2>2. /\ caller' \in [Callers -> CallerStates]
        /\ caller'[c].pc = "free" /\ caller'[c].todo = caller[c].todo
        /\ caller'[c].at = caller[c].at /\ caller'[c].worker = caller[c].worker
        /\ \A d \in Callers \ {c} : caller'[d] = caller[d]
    BY <2>1, StepFacts
  <2>3. /\ queue' \in [Names -> Callers \cup Runners \cup {Nobody}] /\ queue'[caller[c].at] = c
        /\ \A n \in Names \ {caller[c].at} : queue'[n] = queue[n]
    BY <1>0, <2>1 DEF TurnsTypeOK
  <2>4. TurnsTypeOK'
    BY <1>0, <2>1, <2>2, <2>3 DEF TurnsTypeOK, agentVars
  <2>5. LocksHeld'
    <3>1. \A n \in Names : queue'[n] \in Runners => runner[queue'[n]].name = n /\ runner[queue'[n]].pc \in Locked
      BY <2>3, TurnsAssumption DEF LocksHeld
    <3>2. \A n \in Names : queue'[n] \in Callers => caller'[queue'[n]].at = n /\ caller'[queue'[n]].pc = "free"
      BY <1>0, <2>2, <2>3 DEF LocksHeld
    <3>3. \A d \in Callers : caller'[d].pc \in Dispatching => caller'[d].at \in Names /\ launch[caller'[d].at] = d
      BY <1>0, <2>2 DEF LocksHeld, Dispatching
    <3> QED
      BY <1>0, <2>1, <3>1, <3>2, <3>3 DEF LocksHeld
  <2>6. WorkersKnown' /\ AnnouncedHasWorker'
    BY <1>0, <2>2 DEF WorkersKnown, AnnouncedHasWorker
  <2>7. TurnIsClaimed' /\ \A m \in Names : Unclaimed(m)' = Unclaimed(m)
    BY <1>0, AsksKept
  <2>8. TurnPlaces' /\ ConfiguredAsTold'
    BY <1>0, PlacesKept
  <2>9. TriageComing' /\ NoLostWakeup'
    <3>1. \A d \in Callers : caller[d].pc = "dispatch" => caller'[d].pc = "dispatch"
      BY <1>0, <2>2
    <3>2. \A d \in Callers : caller'[d].todo = caller[d].todo
      BY <2>2
    <3>3. \A m \in Names : OnTheWay(m) => OnTheWay(m)'
      BY <1>0, <3>1, <3>2 DEF OnTheWay
    <3> QED
      BY <1>0, <2>7, <3>1, <3>3, WakeupKept
  <2> QED
    BY <2>4, <2>5, <2>6, <2>7, <2>8, <2>9
<1> QED
  BY <1>1, <1>2

\* The worker announced itself, or saw another one at the queue: the dispatch goes on.
LEMMA LaunchedKeeps ==
  ASSUME TurnsInv, NEW c \in Callers, Launched(c)
  PROVE  TurnsInv'
<1>1. /\ caller[c].pc = "announced" /\ NextAgent(c)
      /\ UNCHANGED agentVars /\ UNCHANGED <<asks, claims, queue, runner, edits, deaths>>
  BY DEF Launched
<1>2. deaths = 0 => \E w \in Runners : runner[w].name = caller[c].at /\ runner[w].pc \in Queued
  BY <1>1 DEF TurnsInv, AnnouncedHasWorker
<1> QED
  BY <1>1, <1>2, PassedOver

\* A worker is launched: the probe is dropped and the dispatch waits to hear from it.
LEMMA LaunchRunnerKeeps ==
  ASSUME TurnsInv, NEW c \in Callers, NEW w \in Runners, LaunchRunner(c, w)
  PROVE  TurnsInv'
<1> USE DEF TurnsInv
<1> DEFINE N == [caller[c] EXCEPT !.pc = "launched", !.worker = w]
           W == [Absent EXCEPT !.pc = "starting", !.name = caller[c].at]
<1>0. /\ caller[c].pc = "free" /\ caller[c].at \in Names /\ launch[caller[c].at] = c /\ runner[w].pc = "idle"
      /\ queue' = [queue EXCEPT ![caller[c].at] = Nobody] /\ runner' = [runner EXCEPT ![w] = W]
      /\ UNCHANGED agentVars /\ UNCHANGED <<card, asks, claims, launch, edits, deaths>>
  BY DEF LaunchRunner, agentVars, LocksHeld, Dispatching
<1>1. N \in CallerStates /\ N.pc = "launched" /\ N.at = caller[c].at /\ N.worker = w /\ N.todo = caller[c].todo
  BY DEF TurnsTypeOK, CallerStates
<1>2. W \in RunnerStates /\ W.pc = "starting" /\ W.name = caller[c].at
  <2>1. Absent \in RunnerStates
    BY TurnsAssumption DEF RunnerStates, Absent
  <2> QED
    BY <1>0, <2>1 DEF RunnerStates
<1>3. caller' = [caller EXCEPT ![c] = N]
  BY DEF LaunchRunner, TurnsTypeOK
<1> HIDE DEF N, W
<1>4. /\ caller' \in [Callers -> CallerStates] /\ caller'[c] = N
      /\ \A d \in Callers \ {c} : caller'[d] = caller[d]
      /\ runner' \in [Runners -> RunnerStates] /\ runner'[w] = W
      /\ \A v \in Runners \ {w} : runner'[v] = runner[v]
      /\ queue' \in [Names -> Callers \cup Runners \cup {Nobody}] /\ queue'[caller[c].at] = Nobody
      /\ \A m \in Names \ {caller[c].at} : queue'[m] = queue[m]
  BY <1>0, <1>1, <1>2, <1>3 DEF TurnsTypeOK
<1>5. TurnsTypeOK'
  BY <1>0, <1>4 DEF TurnsTypeOK, agentVars
<1>6. LocksHeld'
  <2>1. \A m \in Names : queue'[m] \in Runners => runner'[queue'[m]].name = m /\ runner'[queue'[m]].pc \in Locked
    BY <1>0, <1>4, TurnsAssumption DEF LocksHeld, Locked, Queued, InTheTurn
  <2>2. \A m \in Names : queue'[m] \in Callers => caller'[queue'[m]].at = m /\ caller'[queue'[m]].pc = "free"
    BY <1>0, <1>4, TurnsAssumption DEF LocksHeld
  <2>3. \A d \in Callers : caller'[d].pc \in Dispatching => caller'[d].at \in Names /\ launch[caller'[d].at] = d
    BY <1>0, <1>1, <1>4 DEF LocksHeld
  <2>4. \A v \in Runners : runner'[v].pc \in {"claim", "leave"} => launch[runner'[v].name] = v
    BY <1>2, <1>4 DEF LocksHeld
  <2> QED
    BY <1>0, <2>1, <2>2, <2>3, <2>4 DEF LocksHeld
<1>7. WorkersKnown'
  BY <1>0, <1>1, <1>2, <1>4 DEF WorkersKnown
<1>8. AnnouncedHasWorker'
  <2>1. \A v \in Runners : runner[v].pc \in Queued => v # w
    BY <1>0 DEF Queued, InTheTurn
  <2> QED
    BY <1>0, <1>1, <1>4, <2>1 DEF AnnouncedHasWorker
<1>9. TurnIsClaimed' /\ \A m \in Names : Unclaimed(m)' = Unclaimed(m)
  BY <1>0, AsksKept
<1>10. TurnPlaces' /\ ConfiguredAsTold'
  BY <1>0, <1>2, <1>4, PlacesKept DEF InTheTurn
<1>11. TriageComing' /\ NoLostWakeup'
  <2>1. \A d \in Callers : caller[d].pc = "dispatch" => caller'[d].pc = "dispatch"
    BY <1>0, <1>4
  <2>2. \A d \in Callers : caller'[d].todo = caller[d].todo
    BY <1>1, <1>4
  <2>3. \A m \in Names : OnTheWay(m) => OnTheWay(m)'
    <3> SUFFICES ASSUME NEW m \in Names, NEW v \in Runners, runner[v].name = m, runner[v].pc \notin {"leave", "stopping", "starting"}
                 PROVE  OnTheWay(m)'
      BY <2>1, <2>2 DEF OnTheWay
    <3>1. v # w
      BY <1>0, TurnsAssumption DEF WorkersKnown, Callers
    <3> QED
      BY <1>4, <3>1 DEF OnTheWay
  <2> QED
    BY <1>0, <1>9, <2>1, <2>3, WakeupKept
<1> QED
  BY <1>5, <1>6, <1>7, <1>8, <1>9, <1>10, <1>11

\* A caller leaves with an error or dies, after some process has died, and its locks
\* are free.
LEMMA CallerLeaves ==
  ASSUME TurnsInv, NEW c \in Callers, Return(c), launch' = Free(c, launch), queue' = Free(c, queue),
         UNCHANGED agentVars, UNCHANGED <<asks, claims, runner, edits>>, deaths' \in Nat \ {0}
  PROVE  TurnsInv'
<1> USE DEF TurnsInv
<1>1. /\ caller' \in [Callers -> CallerStates]
      /\ caller'[c].pc = "idle" /\ caller'[c].todo = {}
      /\ \A d \in Callers \ {c} : caller'[d] = caller[d]
  BY ReturnFacts
<1>2. /\ launch' \in [Names -> Callers \cup Runners \cup {Nobody}]
      /\ \A n \in Names : launch'[n] = IF launch[n] = c THEN Nobody ELSE launch[n]
  BY FreeFacts DEF TurnsTypeOK
<1>3. /\ queue' \in [Names -> Callers \cup Runners \cup {Nobody}]
      /\ \A n \in Names : queue'[n] = IF queue[n] = c THEN Nobody ELSE queue[n]
  BY FreeFacts DEF TurnsTypeOK
<1>4. deaths' \in Nat /\ deaths' > 0 /\ deaths' # 0
  BY TurnsAssumption
<1>5. TurnsTypeOK'
  BY <1>1, <1>2, <1>3, <1>4 DEF TurnsTypeOK, agentVars
<1>6. LocksHeld'
  <2>1. \A n \in Names : queue'[n] \in Runners => runner[queue'[n]].name = n /\ runner[queue'[n]].pc \in Locked
    BY <1>3, TurnsAssumption DEF LocksHeld
  <2>2. \A n \in Names : queue'[n] \in Callers => caller'[queue'[n]].at = n /\ caller'[queue'[n]].pc = "free"
    BY <1>1, <1>3, TurnsAssumption DEF LocksHeld
  <2>3. \A d \in Callers : caller'[d].pc \in Dispatching => caller'[d].at \in Names /\ launch'[caller'[d].at] = d
    BY <1>1, <1>2 DEF LocksHeld, Dispatching
  <2>4. \A v \in Runners : runner[v].pc \in {"claim", "leave"} => launch'[runner[v].name] = v
    BY <1>2, TurnsAssumption DEF LocksHeld, WorkersKnown
  <2> QED
    BY <2>1, <2>2, <2>3, <2>4 DEF LocksHeld
<1>7. WorkersKnown'
  BY <1>1, <1>4 DEF WorkersKnown
<1>8. AnnouncedHasWorker' /\ TriageComing' /\ NoLostWakeup'
  BY <1>4 DEF AnnouncedHasWorker, TriageComing, NoLostWakeup
<1>9. TurnIsClaimed'
  BY AsksKept
<1>10. TurnPlaces' /\ ConfiguredAsTold'
  BY PlacesKept
<1> QED
  BY <1>5, <1>6, <1>7, <1>8, <1>9, <1>10

\* A caller dies.
LEMMA CallerDiesKeeps ==
  ASSUME TurnsInv, NEW c \in Callers, CallerDies(c)
  PROVE  TurnsInv'
<1>1. deaths' \in Nat \ {0}
  BY TurnsAssumption DEF TurnsInv, TurnsTypeOK, CallerDies, Die
<1> QED
  BY <1>1, CallerLeaves DEF CallerDies

\* A launch that broke ends the call.
LEMMA LaunchBrokenKeeps ==
  ASSUME TurnsInv, NEW c \in Callers, LaunchBroken(c)
  PROVE  TurnsInv'
<1>1. deaths' \in Nat \ {0}
  BY TurnsAssumption DEF TurnsInv, TurnsTypeOK, WorkersKnown, LaunchBroken
<1>2. \A n \in Names : queue[n] # c
  BY DEF TurnsInv, LocksHeld, LaunchBroken
<1>3. queue' = Free(c, queue)
  BY <1>2 DEF LaunchBroken, Free, TurnsInv, TurnsTypeOK
<1> QED
  BY <1>1, <1>3, CallerLeaves DEF LaunchBroken

-----------------------------------------------------------------------------
\* Workers

\* A worker that keeps the queue lock goes on; it may drop the launch lock.
LEMMA WorkerAlone ==
  ASSUME TurnsInv, NEW w \in Runners, UNCHANGED <<queue, caller, deaths>>,
         runner' \in [Runners -> RunnerStates],
         runner'[w].name = runner[w].name, runner[w].pc \in Queued, runner'[w].pc \in Queued \ {"claim"},
         \A v \in Runners \ {w} : runner'[v] = runner[v],
         \A n \in Names : launch'[n] = launch[n] \/ launch[n] = w
  PROVE  LocksHeld' /\ WorkersKnown' /\ AnnouncedHasWorker' /\ \A n \in Names : OnTheWay(n) => OnTheWay(n)'
<1> USE DEF TurnsInv
<1>1. /\ runner[w].pc \notin {"idle", "leave", "stopping", "starting"}
      /\ runner'[w].pc \notin {"idle", "leave", "stopping", "starting", "claim"}
  BY DEF Queued, InTheTurn
<1>2. LocksHeld'
  <2>1. \A n \in Names : queue[n] \in Runners => runner'[queue[n]].name = n /\ runner'[queue[n]].pc \in Locked
    BY DEF LocksHeld, Locked
  <2>2. \A c \in Callers : caller[c].pc \in Dispatching => caller[c].at \in Names /\ launch'[caller[c].at] = c
    BY TurnsAssumption DEF LocksHeld
  <2>3. \A v \in Runners : runner'[v].pc \in {"claim", "leave"} => launch'[runner'[v].name] = v
    BY <1>1 DEF LocksHeld, WorkersKnown
  <2> QED
    BY <2>1, <2>2, <2>3 DEF LocksHeld
<1>3. WorkersKnown'
  BY <1>1 DEF WorkersKnown
<1>4. AnnouncedHasWorker'
  BY DEF AnnouncedHasWorker
<1>5. \A n \in Names : OnTheWay(n) => OnTheWay(n)'
  BY <1>1 DEF OnTheWay
<1> QED
  BY <1>2, <1>3, <1>4, <1>5

\* The claims a dead worker left behind end with their asks.
LEMMA RecoverKeeps ==
  ASSUME TurnsInv, NEW w \in Runners, Recover(w)
  PROVE  TurnsInv'
<1> USE DEF TurnsInv
<1>0. /\ runner[w].pc = "recover" /\ Proceed(w, "relock")
      /\ asks' = EndAsks(ClaimedBy(runner[w].name), "interrupted") /\ claims' = claims \ ClaimedBy(runner[w].name)
      /\ UNCHANGED agentVars /\ UNCHANGED <<card, launch, queue, caller, edits, deaths>>
  BY DEF Recover, agentVars, lockVars
<1>1. /\ runner' \in [Runners -> RunnerStates]
      /\ runner'[w].pc = "relock" /\ runner'[w].name = runner[w].name
      /\ \A v \in Runners \ {w} : runner'[v] = runner[v]
  BY <1>0, ProceedFacts
<1>2. /\ asks' \in Seq(AskStates) /\ Len(asks') <= MaxAsks /\ claims' \subseteq DOMAIN asks'
      /\ DOMAIN asks' = DOMAIN asks /\ TurnIsClaimed'
      /\ \A n \in Names : Unclaimed(n)' \subseteq Unclaimed(n)
  BY <1>0, AsksEnd DEF Endings
<1>3. TurnsTypeOK'
  BY <1>0, <1>1, <1>2 DEF TurnsTypeOK, agentVars
<1>4. LocksHeld' /\ WorkersKnown' /\ AnnouncedHasWorker' /\ \A n \in Names : OnTheWay(n) => OnTheWay(n)'
  BY <1>0, <1>1, WorkerAlone DEF Queued, InTheTurn
<1>5. TurnPlaces' /\ ConfiguredAsTold'
  BY <1>0, <1>1, <1>2, PlacesKept DEF InTheTurn
<1>6. TriageComing' /\ NoLostWakeup'
  BY <1>0, <1>2, <1>4, WakeupKept
<1> QED
  BY <1>2, <1>3, <1>4, <1>5, <1>6

\* The worker takes the launch lock before it looks at its queue.
LEMMA LockLaunchKeeps ==
  ASSUME TurnsInv, NEW w \in Runners, LockLaunch(w)
  PROVE  TurnsInv'
<1> USE DEF TurnsInv
<1>0. /\ runner[w].pc = "relock" /\ Proceed(w, "claim") /\ runner[w].name \in Names
      /\ launch[runner[w].name] = Nobody /\ launch' = [launch EXCEPT ![runner[w].name] = w]
      /\ UNCHANGED agentVars /\ UNCHANGED <<card, asks, claims, queue, caller, edits, deaths>>
  BY DEF LockLaunch, agentVars, WorkersKnown
<1>1. /\ runner' \in [Runners -> RunnerStates]
      /\ runner'[w].pc = "claim" /\ runner'[w].name = runner[w].name
      /\ \A v \in Runners \ {w} : runner'[v] = runner[v]
  BY <1>0, ProceedFacts
<1>2. /\ launch' \in [Names -> Callers \cup Runners \cup {Nobody}] /\ launch'[runner[w].name] = w
      /\ \A m \in Names \ {runner[w].name} : launch'[m] = launch[m]
  BY <1>0 DEF TurnsTypeOK
<1>3. TurnsTypeOK'
  BY <1>0, <1>1, <1>2 DEF TurnsTypeOK, agentVars
<1>4. LocksHeld'
  <2>1. \A n \in Names : queue[n] \in Runners => runner'[queue[n]].name = n /\ runner'[queue[n]].pc \in Locked
    BY <1>1 DEF LocksHeld, Locked, Queued
  <2>2. \A c \in Callers : caller[c].pc \in Dispatching => caller[c].at \in Names /\ launch'[caller[c].at] = c
    BY <1>0, <1>2, TurnsAssumption DEF LocksHeld
  <2>3. \A v \in Runners : runner'[v].pc \in {"claim", "leave"} => launch'[runner'[v].name] = v
    BY <1>0, <1>1, <1>2, TurnsAssumption DEF LocksHeld, WorkersKnown
  <2> QED
    BY <1>0, <2>1, <2>2, <2>3 DEF LocksHeld
<1>5. WorkersKnown'
  BY <1>0, <1>1 DEF WorkersKnown
<1>6. AnnouncedHasWorker'
  <2>1. \A c \in Callers : caller[c].pc = "announced" => caller[c].at # runner[w].name
    BY <1>0, TurnsAssumption DEF LocksHeld, Dispatching
  <2> QED
    BY <1>0, <1>1, <2>1 DEF AnnouncedHasWorker
<1>7. TurnIsClaimed' /\ \A m \in Names : Unclaimed(m)' = Unclaimed(m)
  BY <1>0, AsksKept
<1>8. TurnPlaces' /\ ConfiguredAsTold'
  BY <1>0, <1>1, PlacesKept DEF InTheTurn
<1>9. \A m \in Names : OnTheWay(m) => OnTheWay(m)'
  BY <1>0, <1>1 DEF OnTheWay
<1>10. TriageComing' /\ NoLostWakeup'
  BY <1>0, <1>7, <1>9, WakeupKept
<1> QED
  BY <1>3, <1>4, <1>5, <1>6, <1>7, <1>8, <1>10

\* The queue is empty under the launch lock: nobody is needed on the way any more.
LEMMA EmptyKeeps ==
  ASSUME TurnsInv, NEW w \in Runners, Empty(w)
  PROVE  TurnsInv'
<1> USE DEF TurnsInv
<1>0. /\ runner[w].pc = "claim" /\ Proceed(w, "leave") /\ runner[w].name \in Names
      /\ Unclaimed(runner[w].name) = {} /\ queue' = [queue EXCEPT ![runner[w].name] = Nobody]
      /\ UNCHANGED agentVars /\ UNCHANGED <<card, config, asks, claims, launch, caller, edits, deaths>>
  BY DEF Empty, agentVars, WorkersKnown
<1>1. /\ runner' \in [Runners -> RunnerStates]
      /\ runner'[w].pc = "leave" /\ runner'[w].name = runner[w].name
      /\ \A v \in Runners \ {w} : runner'[v] = runner[v]
  BY <1>0, ProceedFacts
<1>2. /\ queue' \in [Names -> Callers \cup Runners \cup {Nobody}] /\ queue'[runner[w].name] = Nobody
      /\ \A m \in Names \ {runner[w].name} : queue'[m] = queue[m]
  BY <1>0 DEF TurnsTypeOK
<1>3. TurnsTypeOK'
  BY <1>0, <1>1, <1>2 DEF TurnsTypeOK, agentVars
<1>4. LocksHeld'
  <2>1. \A n \in Names : queue'[n] \in Runners => runner'[queue'[n]].name = n /\ runner'[queue'[n]].pc \in Locked
    BY <1>1, <1>2, TurnsAssumption DEF LocksHeld
  <2>2. \A n \in Names : queue'[n] \in Callers => caller[queue'[n]].at = n /\ caller[queue'[n]].pc = "free"
    BY <1>2, TurnsAssumption DEF LocksHeld
  <2>3. \A v \in Runners : runner'[v].pc \in {"claim", "leave"} => launch[runner'[v].name] = v
    BY <1>0, <1>1 DEF LocksHeld
  <2> QED
    BY <1>0, <2>1, <2>2, <2>3 DEF LocksHeld
<1>5. WorkersKnown'
  BY <1>0, <1>1 DEF WorkersKnown
<1>6. AnnouncedHasWorker'
  BY <1>0, <1>1 DEF AnnouncedHasWorker
<1>7. TurnIsClaimed' /\ \A m \in Names : Unclaimed(m)' = Unclaimed(m)
  BY <1>0, AsksKept
<1>8. TurnPlaces' /\ ConfiguredAsTold'
  BY <1>0, <1>1, PlacesKept DEF InTheTurn
<1>9. TriageComing'
  BY <1>0, <1>7 DEF TriageComing
<1>10. NoLostWakeup'
  <2> SUFFICES ASSUME NEW m \in Names, deaths = 0, card[m] = "managed", config[m] # NoPlace, Unclaimed(m) # {}
               PROVE  OnTheWay(m)'
    BY <1>0, <1>7 DEF NoLostWakeup
  <2>1. OnTheWay(m) /\ m # runner[w].name
    BY <1>0 DEF NoLostWakeup
  <2> QED
    BY <1>0, <1>1, <2>1 DEF OnTheWay
<1> QED
  BY <1>3, <1>4, <1>5, <1>6, <1>7, <1>8, <1>9, <1>10

\* A worker ends and its locks are free.  Whoever launched it hears of it.
LEMMA WorkerLeaves ==
  ASSUME TurnsInv, NEW w \in Runners, Quit(w), launch' = Free(w, launch), queue' = Free(w, queue),
         UNCHANGED agentVars, DOMAIN asks' = DOMAIN asks, deaths' \in Nat, deaths' >= deaths,
         \A c \in Callers : /\ caller'[c].at = caller[c].at /\ caller'[c].todo = caller[c].todo
                            /\ caller'[c].worker = caller[c].worker
                            /\ \/ caller'[c].pc = caller[c].pc
                               \/ caller'[c].pc = "broken" /\ caller[c].pc = "launched" /\ deaths' > 0,
         \A c \in Callers : caller'[c].pc = "launched" => caller[c].worker # w
  PROVE  /\ runner' \in [Runners -> RunnerStates]
         /\ launch' \in [Names -> Callers \cup Runners \cup {Nobody}]
         /\ queue' \in [Names -> Callers \cup Runners \cup {Nobody}]
         /\ LocksHeld' /\ WorkersKnown' /\ TurnPlaces' /\ ConfiguredAsTold'
<1> USE DEF TurnsInv
<1>1. /\ runner' \in [Runners -> RunnerStates]
      /\ runner'[w].pc = "idle" /\ runner'[w].name = Nobody
      /\ \A v \in Runners \ {w} : runner'[v] = runner[v]
  BY QuitFacts
<1>2. /\ launch' \in [Names -> Callers \cup Runners \cup {Nobody}]
      /\ \A n \in Names : launch'[n] = IF launch[n] = w THEN Nobody ELSE launch[n]
  BY FreeFacts DEF TurnsTypeOK
<1>3. /\ queue' \in [Names -> Callers \cup Runners \cup {Nobody}]
      /\ \A n \in Names : queue'[n] = IF queue[n] = w THEN Nobody ELSE queue[n]
  BY FreeFacts DEF TurnsTypeOK
<1>4. \A c \in Callers : caller'[c].pc \in Dispatching => caller[c].pc \in Dispatching
  BY DEF Dispatching
<1>5. LocksHeld'
  <2>1. \A n \in Names : queue'[n] \in Runners => runner'[queue'[n]].name = n /\ runner'[queue'[n]].pc \in Locked
    BY <1>1, <1>3, TurnsAssumption DEF LocksHeld
  <2>2. \A n \in Names : queue'[n] \in Callers => caller'[queue'[n]].at = n /\ caller'[queue'[n]].pc = "free"
    BY <1>3, TurnsAssumption DEF LocksHeld
  <2>3. \A c \in Callers : caller'[c].pc \in Dispatching => caller'[c].at \in Names /\ launch'[caller'[c].at] = c
    BY <1>2, <1>4, TurnsAssumption DEF LocksHeld
  <2>4. \A v \in Runners : runner'[v].pc \in {"claim", "leave"} => launch'[runner'[v].name] = v
    BY <1>1, <1>2 DEF LocksHeld, WorkersKnown
  <2> QED
    BY <2>1, <2>2, <2>3, <2>4 DEF LocksHeld
<1>6. WorkersKnown'
  <2>1. \A v \in Runners : IF runner'[v].pc = "idle" THEN runner'[v].name = Nobody ELSE runner'[v].name \in Names
    BY <1>1 DEF WorkersKnown
  <2>2. \A c \in Callers : caller'[c].pc = "launched" =>
          /\ caller'[c].worker \in Runners
          /\ runner'[caller'[c].worker].pc = "starting"
          /\ runner'[caller'[c].worker].name = caller'[c].at
    BY <1>1 DEF WorkersKnown
  <2>3. \A c \in Callers : caller'[c].pc \in {"idle", "dispatch", "check"} => caller'[c].todo = {}
    BY DEF WorkersKnown
  <2>4. deaths \in Nat
    BY TurnsAssumption DEF TurnsTypeOK
  <2>5. \A c \in Callers : caller'[c].pc = "broken" => deaths' > 0
    BY <2>4 DEF WorkersKnown
  <2>6. \A v \in Runners : runner'[v].pc = "stopping" => deaths' > 0
    BY <1>1, <2>4 DEF WorkersKnown
  <2> QED
    BY <2>1, <2>2, <2>3, <2>5, <2>6 DEF WorkersKnown
<1>7. TurnPlaces' /\ ConfiguredAsTold'
  BY <1>1, PlacesKept DEF InTheTurn
<1> QED
  BY <1>1, <1>2, <1>3, <1>5, <1>6, <1>7

\* A worker that was about to leave, or whose claim failed, ends.
LEMMA WorkerEnds ==
  ASSUME TurnsInv, NEW w \in Runners, Quit(w), launch' = Free(w, launch), queue' = Free(w, queue),
         UNCHANGED agentVars, UNCHANGED <<asks, claims, caller, edits, deaths>>,
         runner[w].pc \in {"leave", "stopping"}
  PROVE  TurnsInv'
<1> USE DEF TurnsInv
<1>0. deaths \in Nat
  BY TurnsAssumption DEF TurnsTypeOK
<1>1. /\ runner' \in [Runners -> RunnerStates]
      /\ launch' \in [Names -> Callers \cup Runners \cup {Nobody}]
      /\ queue' \in [Names -> Callers \cup Runners \cup {Nobody}]
      /\ LocksHeld' /\ WorkersKnown' /\ TurnPlaces' /\ ConfiguredAsTold'
  <2>1. \A c \in Callers : caller[c].pc = "launched" => caller[c].worker # w
    BY DEF WorkersKnown
  <2> QED
    BY <1>0, <2>1, WorkerLeaves
<1>2. \A v \in Runners \ {w} : runner'[v] = runner[v]
  BY QuitFacts
<1>3. TurnsTypeOK'
  BY <1>1 DEF TurnsTypeOK, agentVars
<1>4. AnnouncedHasWorker'
  BY <1>2 DEF AnnouncedHasWorker, Queued, InTheTurn
<1>5. TurnIsClaimed' /\ \A m \in Names : Unclaimed(m)' = Unclaimed(m)
  BY AsksKept
<1>6. card' = card /\ config' = config
  BY DEF agentVars
<1>7. TriageComing'
  BY <1>5, <1>6 DEF TriageComing
<1>8. NoLostWakeup'
  <2> SUFFICES ASSUME NEW m \in Names, deaths = 0, card[m] = "managed", config[m] # NoPlace, Unclaimed(m) # {}
               PROVE  OnTheWay(m)'
    BY <1>5, <1>6 DEF NoLostWakeup
  <2>1. OnTheWay(m)
    BY DEF NoLostWakeup
  <2> QED
    BY <1>2, <2>1 DEF OnTheWay
<1> QED
  BY <1>1, <1>3, <1>4, <1>5, <1>7, <1>8

\* The worker leaves its queue.
LEMMA LeaveQueueKeeps ==
  ASSUME TurnsInv, NEW w \in Runners, LeaveQueue(w)
  PROVE  TurnsInv'
<1>1. /\ runner[w].pc \in {"leave", "stopping"} /\ Quit(w) /\ launch' = Free(w, launch) /\ queue' = Free(w, queue)
      /\ UNCHANGED agentVars /\ UNCHANGED <<asks, claims, caller, edits, deaths>>
  BY DEF LeaveQueue
<1> QED
  BY <1>1, WorkerEnds

\* The first unclaimed ask of the queue is claimed and given to a client; an agent
\* that has gone meanwhile is left to the triage.
LEMMA ClaimFirstKeeps ==
  ASSUME TurnsInv, NEW w \in Runners, ClaimFirst(w)
  PROVE  TurnsInv'
<1> USE DEF TurnsInv
<1>0. /\ runner[w].pc = "claim" /\ launch' = Free(w, launch) /\ Unclaimed(runner[w].name) # {}
      /\ runner[w].name \in Names
      /\ UNCHANGED agentVars /\ UNCHANGED <<card, config, told, queue, caller, edits>>
  BY DEF ClaimFirst, agentVars, WorkersKnown
<1>1. CASE card[runner[w].name] = "none" \/ config[runner[w].name] = NoPlace
  <2>1. Proceed(w, "stopping") /\ deaths' = deaths + 1 /\ UNCHANGED <<claims, asks>>
    BY <1>1 DEF ClaimFirst
  <2>2. deaths' \in Nat /\ deaths' > 0 /\ deaths' # 0
    BY <2>1 DEF TurnsTypeOK
  <2>3. /\ runner' \in [Runners -> RunnerStates]
        /\ runner'[w].pc = "stopping" /\ runner'[w].name = runner[w].name
        /\ \A v \in Runners \ {w} : runner'[v] = runner[v]
    BY <2>1, ProceedFacts
  <2>4. /\ launch' \in [Names -> Callers \cup Runners \cup {Nobody}]
        /\ \A m \in Names : launch'[m] = launch[m] \/ launch[m] = w
    BY <1>0, FreeFacts DEF TurnsTypeOK
  <2>5. TurnsTypeOK'
    BY <1>0, <2>1, <2>2, <2>3, <2>4 DEF TurnsTypeOK
  <2>6. LocksHeld'
    <3>1. \A m \in Names : queue[m] \in Runners => runner'[queue[m]].name = m /\ runner'[queue[m]].pc \in Locked
      BY <2>3 DEF LocksHeld, Locked
    <3>2. \A c \in Callers : caller[c].pc \in Dispatching => caller[c].at \in Names /\ launch'[caller[c].at] = c
      BY <2>4, TurnsAssumption DEF LocksHeld
    <3>3. \A v \in Runners : runner'[v].pc \in {"claim", "leave"} => launch'[runner'[v].name] = v
      BY <2>3, <2>4 DEF LocksHeld, WorkersKnown
    <3> QED
      BY <1>0, <3>1, <3>2, <3>3 DEF LocksHeld
  <2>7. WorkersKnown'
    <3>1. \A c \in Callers : caller[c].pc = "launched" => caller[c].worker # w
      BY <1>0 DEF WorkersKnown
    <3> QED
      BY <1>0, <2>2, <2>3, <3>1 DEF WorkersKnown
  <2>8. AnnouncedHasWorker' /\ TriageComing' /\ NoLostWakeup'
    BY <2>2 DEF AnnouncedHasWorker, TriageComing, NoLostWakeup
  <2>9. TurnIsClaimed'
    BY <2>1, AsksKept
  <2>10. TurnPlaces' /\ ConfiguredAsTold'
    BY <1>0, <2>1, <2>3, PlacesKept DEF InTheTurn, agentVars
  <2> QED
    BY <2>5, <2>6, <2>7, <2>8, <2>9, <2>10
<1>2. CASE ~(card[runner[w].name] = "none" \/ config[runner[w].name] = NoPlace)
  <2> DEFINE n == runner[w].name
             U == Unclaimed(n)
             first == CHOOSE j \in U : \A k \in U : j <= k
  <2>1. first \in U
    <3>1. U \subseteq Nat
      BY DEF Unclaimed, OpenFor, TurnsTypeOK
    <3>2. \E j \in U : \A k \in U : j <= k
      BY <1>0, <3>1, LeastNumber
    <3> HIDE DEF U
    <3> QED
      BY <3>2
  <2>2. /\ claims' = claims \cup {first} /\ asks' = [asks EXCEPT ![first].turns = @ + 1]
        /\ runner' = [runner EXCEPT ![w].pc = "running", ![w].ask = first, ![w].place = config[n]]
        /\ deaths' = deaths
    BY <1>2 DEF ClaimFirst
  <2> HIDE DEF first
  <2>3. first \in DOMAIN asks /\ first \notin claims /\ asks[first].ending = "open"
    BY <2>1 DEF Unclaimed, OpenFor, OpenAsk
  <2> HIDE DEF U
  <2> DEFINE A == [asks[first] EXCEPT !.turns = @ + 1]
             W == [runner[w] EXCEPT !.pc = "running", !.ask = first, !.place = config[n]]
  <2>4. /\ A \in AskStates /\ A.to = asks[first].to /\ A.ending = "open" /\ A.turns = 1
    <3>1. asks[first] \in AskStates
      BY <2>3 DEF TurnsTypeOK
    <3>2. asks[first].turns = 0
      <4>1. asks[first].turns \in Nat /\ asks[first].turns <= 1 /\ asks[first].turns # 1
        BY <2>3, <3>1 DEF TurnIsClaimed, OpenAsk, AskStates
      <4> QED
        BY <4>1
    <3> QED
      BY <2>3, <3>1, <3>2 DEF AskStates
  <2>5. W \in RunnerStates /\ W.pc = "running" /\ W.name = n /\ W.ask = first /\ W.place = config[n]
    <3>1. first \in 0..MaxAsks
      BY <2>3, TurnsAssumption DEF TurnsTypeOK
    <3>2. runner[w] \in RunnerStates /\ config[n] \in Places \cup {NoPlace}
      BY <1>0 DEF TurnsTypeOK
    <3> QED
      BY <3>1, <3>2 DEF RunnerStates
  <2>6. asks' = [asks EXCEPT ![first] = A] /\ runner' = [runner EXCEPT ![w] = W]
    BY <2>2, <2>3 DEF TurnsTypeOK
  <2> HIDE DEF A, W, n
  <2>7. /\ asks' \in Seq(AskStates) /\ Len(asks') = Len(asks) /\ DOMAIN asks' = DOMAIN asks
        /\ asks'[first] = A /\ \A i \in DOMAIN asks \ {first} : asks'[i] = asks[i]
    BY <2>3, <2>4, <2>6 DEF TurnsTypeOK
  <2>8. /\ runner' \in [Runners -> RunnerStates] /\ runner'[w] = W
        /\ \A v \in Runners \ {w} : runner'[v] = runner[v]
    BY <2>5, <2>6 DEF TurnsTypeOK
  <2>9. /\ launch' \in [Names -> Callers \cup Runners \cup {Nobody}]
        /\ \A m \in Names : launch'[m] = launch[m] \/ launch[m] = w
    BY <1>0, FreeFacts DEF TurnsTypeOK
  <2>10. TurnsTypeOK'
    BY <1>0, <2>2, <2>3, <2>7, <2>8, <2>9 DEF TurnsTypeOK
  <2>11. LocksHeld' /\ WorkersKnown' /\ AnnouncedHasWorker' /\ \A m \in Names : OnTheWay(m) => OnTheWay(m)'
    BY <1>0, <2>2, <2>5, <2>8, <2>9, WorkerAlone DEF Queued, InTheTurn, n
  <2>12. TurnIsClaimed'
    <3> SUFFICES ASSUME NEW i \in DOMAIN asks
                 PROVE  asks'[i].turns <= 1 /\ (asks'[i].turns = 1 => i \in claims' \/ asks'[i].ending # "open")
      BY <2>7 DEF TurnIsClaimed, OpenAsk
    <3>1. CASE i = first
      BY SMTT(30), <2>2, <2>4, <2>7, <3>1
    <3>2. CASE i # first
      BY <2>2, <2>7, <3>2 DEF TurnIsClaimed, OpenAsk
    <3> QED
      BY <3>1, <3>2
  <2>13. \A m \in Names : Unclaimed(m)' \subseteq Unclaimed(m)
    BY <2>2, <2>3, <2>4, <2>7 DEF Unclaimed, OpenFor, OpenAsk
  <2>14. TurnPlaces' /\ ConfiguredAsTold'
    <3>1. config[n] \in Places /\ (told[n] # Nobody => config[n] = told[n])
      BY <1>0, <1>2 DEF TurnsTypeOK, ConfiguredAsTold, n
    <3>2. ConfiguredAsTold' /\ \A m \in Names : card'[m] # "none" => config'[m] # NoPlace
      BY <1>0 DEF ConfiguredAsTold, TurnPlaces
    <3>3. \A v \in Runners : runner'[v].pc \in InTheTurn =>
            /\ runner'[v].ask \in DOMAIN asks /\ runner'[v].place \in Places
            /\ told[runner'[v].name] # Nobody => runner'[v].place = told[runner'[v].name]
      BY <2>3, <2>5, <2>8, <3>1 DEF TurnPlaces
    <3> QED
      BY <1>0, <2>7, <3>2, <3>3 DEF TurnPlaces
  <2>15. TriageComing' /\ NoLostWakeup'
    BY <1>0, <2>2, <2>11, <2>13, WakeupKept
  <2> QED
    BY <2>10, <2>11, <2>12, <2>14, <2>15
<1> QED
  BY <1>1, <1>2

\* The client of a turn ends.
LEMMA ProviderEndsKeeps ==
  ASSUME TurnsInv, NEW w \in Runners, NEW outcome \in {"answered", "failed"}, ProviderEnds(w, outcome)
  PROVE  TurnsInv'
<1> USE DEF TurnsInv
<1>0. /\ runner[w].pc = "running" /\ Proceed(w, outcome)
      /\ UNCHANGED agentVars /\ UNCHANGED <<card, asks, claims, launch, queue, caller, edits, deaths>>
  BY DEF ProviderEnds, agentVars, lockVars
<1>1. /\ runner' \in [Runners -> RunnerStates]
      /\ runner'[w].pc = outcome /\ runner'[w].name = runner[w].name
      /\ runner'[w].ask = runner[w].ask /\ runner'[w].place = runner[w].place
      /\ \A v \in Runners \ {w} : runner'[v] = runner[v]
  BY <1>0, ProceedFacts
<1>2. TurnsTypeOK'
  BY <1>0, <1>1 DEF TurnsTypeOK, agentVars
<1>3. LocksHeld' /\ WorkersKnown' /\ AnnouncedHasWorker' /\ \A m \in Names : OnTheWay(m) => OnTheWay(m)'
  BY <1>0, <1>1, WorkerAlone DEF Queued, InTheTurn
<1>4. TurnIsClaimed' /\ \A m \in Names : Unclaimed(m)' = Unclaimed(m)
  BY <1>0, AsksKept
<1>5. TurnPlaces' /\ ConfiguredAsTold'
  BY <1>0, <1>1, PlacesKept DEF InTheTurn
<1>6. TriageComing' /\ NoLostWakeup'
  BY <1>0, <1>3, <1>4, WakeupKept
<1> QED
  BY <1>2, <1>3, <1>4, <1>5, <1>6

\* A turn is finished: its ask ends, its claim is given up, and an answer writes the
\* configuration of the claim back, which is what the agent was told.
LEMMA FinishTurnKeeps ==
  ASSUME TurnsInv, NEW w \in Runners, FinishTurn(w)
  PROVE  TurnsInv'
<1> USE DEF TurnsInv
<1> DEFINE n == runner[w].name
           W == [runner[w] EXCEPT !.pc = "relock", !.ask = 0, !.place = NoPlace]
<1>0. /\ runner[w].pc \in {"answered", "failed"} /\ n \in Names
      /\ asks' = EndAsks({runner[w].ask}, runner[w].pc) /\ claims' = claims \ {runner[w].ask}
      /\ config' = IF runner[w].pc = "answered" THEN [config EXCEPT ![n] = runner[w].place] ELSE config
      /\ UNCHANGED <<card, told, launch, queue, caller, edits, deaths>>
  BY DEF FinishTurn, lockVars, WorkersKnown
<1>1. W \in RunnerStates /\ W.pc = "relock" /\ W.name = n
  <2>1. runner[w] \in RunnerStates
    BY DEF TurnsTypeOK
  <2>2. 0 \in 0..MaxAsks
    BY TurnsAssumption
  <2> QED
    BY <2>1, <2>2 DEF RunnerStates
<1>2. runner' = [runner EXCEPT ![w] = W]
  BY DEF FinishTurn, TurnsTypeOK
<1> HIDE DEF W
<1>3. /\ runner' \in [Runners -> RunnerStates] /\ runner'[w] = W
      /\ \A v \in Runners \ {w} : runner'[v] = runner[v]
  BY <1>1, <1>2 DEF TurnsTypeOK
<1>4. /\ asks' \in Seq(AskStates) /\ Len(asks') <= MaxAsks /\ claims' \subseteq DOMAIN asks'
      /\ DOMAIN asks' = DOMAIN asks /\ TurnIsClaimed'
      /\ \A m \in Names : Unclaimed(m)' \subseteq Unclaimed(m)
  BY <1>0, AsksEnd DEF Endings
<1>5. /\ runner[w].place \in Places
      /\ told[n] # Nobody => runner[w].place = told[n]
  BY <1>0 DEF TurnPlaces, InTheTurn
<1>6. /\ config' \in [Names -> Places \cup {NoPlace}]
      /\ \A m \in Names \ {n} : config'[m] = config[m]
      /\ config'[n] = runner[w].place \/ config'[n] = config[n]
  BY <1>0, <1>5 DEF TurnsTypeOK
<1>7. TurnsTypeOK'
  BY <1>0, <1>3, <1>4, <1>6 DEF TurnsTypeOK
<1>8. LocksHeld' /\ WorkersKnown' /\ AnnouncedHasWorker' /\ \A m \in Names : OnTheWay(m) => OnTheWay(m)'
  BY <1>0, <1>1, <1>3, WorkerAlone DEF Queued, InTheTurn
<1>9. TurnPlaces' /\ ConfiguredAsTold'
  <2>1. ConfiguredAsTold'
    BY <1>0, <1>5, <1>6 DEF ConfiguredAsTold
  <2>2. \A m \in Names : card[m] # "none" => config'[m] # NoPlace
    BY <1>5, <1>6, TurnsAssumption DEF TurnPlaces
  <2>3. \A v \in Runners : runner'[v].pc \in InTheTurn => v # w
    BY <1>1, <1>3 DEF InTheTurn
  <2> QED
    BY <1>0, <1>3, <1>4, <2>1, <2>2, <2>3 DEF TurnPlaces
<1>10. TriageComing' /\ NoLostWakeup'
  BY <1>0, <1>4, <1>8, WakeupKept
<1> QED
  BY <1>4, <1>7, <1>8, <1>9, <1>10

\* A worker that starts takes the queue lock, or finds another one there and ends.
LEMMA TryQueueKeeps ==
  ASSUME TurnsInv, NEW w \in Runners, TryQueue(w)
  PROVE  TurnsInv'
<1> USE DEF TurnsInv
<1>0. /\ runner[w].pc = "starting" /\ runner[w].name \in Names /\ Hear(w, "announced")
      /\ UNCHANGED agentVars /\ UNCHANGED <<card, asks, claims, launch, edits, deaths>>
  BY DEF TryQueue, agentVars, WorkersKnown
<1>1. /\ caller' \in [Callers -> CallerStates]
      /\ \A c \in Callers :
           /\ caller'[c].todo = caller[c].todo /\ caller'[c].at = caller[c].at
           /\ caller'[c].worker = caller[c].worker
           /\ caller'[c].pc = IF caller[c].pc = "launched" /\ caller[c].worker = w THEN "announced" ELSE caller[c].pc
  BY <1>0, HearFacts
<1>2. \A c \in Callers : caller'[c].pc = "announced" =>
        caller[c].pc = "announced" \/ (caller[c].pc = "launched" /\ caller[c].at = runner[w].name)
  <2> SUFFICES ASSUME NEW c \in Callers, caller'[c].pc = "announced", caller[c].pc # "announced"
               PROVE  caller[c].pc = "launched" /\ caller[c].at = runner[w].name
    OBVIOUS
  <2>1. caller[c].pc = "launched" /\ caller[c].worker = w
    BY <1>1
  <2> QED
    BY <2>1 DEF WorkersKnown
<1>3. \A c \in Callers : caller'[c].pc \in Dispatching => caller[c].pc \in Dispatching
  BY <1>1 DEF Dispatching
<1>4. /\ runner' \in [Runners -> RunnerStates]
      /\ \A v \in Runners \ {w} : runner'[v] = runner[v]
      /\ queue' \in [Names -> Callers \cup Runners \cup {Nobody}]
      /\ \A m \in Names \ {runner[w].name} : queue'[m] = queue[m]
      /\ \/ queue[runner[w].name] = Nobody /\ queue'[runner[w].name] = w
            /\ runner'[w].pc = "recover" /\ runner'[w].name = runner[w].name
         \/ queue[runner[w].name] # Nobody /\ queue' = queue /\ runner'[w].pc = "idle" /\ runner'[w].name = Nobody
  <2>1. CASE queue[runner[w].name] = Nobody
    <3>1. queue' = [queue EXCEPT ![runner[w].name] = w] /\ Proceed(w, "recover")
      BY <2>1 DEF TryQueue
    <3>2. /\ runner' \in [Runners -> RunnerStates] /\ \A v \in Runners \ {w} : runner'[v] = runner[v]
          /\ runner'[w].pc = "recover" /\ runner'[w].name = runner[w].name
      BY <3>1, ProceedFacts
    <3> QED
      BY <1>0, <2>1, <3>1, <3>2 DEF TurnsTypeOK
  <2>2. CASE queue[runner[w].name] # Nobody
    <3>1. Quit(w) /\ queue' = queue
      BY <2>2 DEF TryQueue
    <3> QED
      BY <2>2, <3>1, QuitFacts DEF TurnsTypeOK
  <2> QED
    BY <2>1, <2>2
<1>5. TurnsTypeOK'
  BY <1>0, <1>1, <1>4 DEF TurnsTypeOK, agentVars
<1>6. LocksHeld'
  <2>1. \A m \in Names : queue'[m] \in Runners => runner'[queue'[m]].name = m /\ runner'[queue'[m]].pc \in Locked
    BY <1>0, <1>4 DEF LocksHeld, Locked, Queued, InTheTurn
  <2>2. \A m \in Names : queue'[m] \in Callers => caller'[queue'[m]].at = m /\ caller'[queue'[m]].pc = "free"
    BY <1>1, <1>4, TurnsAssumption DEF LocksHeld
  <2>3. \A c \in Callers : caller'[c].pc \in Dispatching => caller'[c].at \in Names /\ launch[caller'[c].at] = c
    BY <1>1, <1>3 DEF LocksHeld
  <2>4. \A v \in Runners : runner'[v].pc \in {"claim", "leave"} => launch[runner'[v].name] = v
    BY <1>4 DEF LocksHeld
  <2> QED
    BY <1>0, <2>1, <2>2, <2>3, <2>4 DEF LocksHeld
<1>7. WorkersKnown'
  <2>1. \A v \in Runners : IF runner'[v].pc = "idle" THEN runner'[v].name = Nobody ELSE runner'[v].name \in Names
    BY <1>0, <1>4 DEF WorkersKnown
  <2>2. \A c \in Callers : caller'[c].pc = "launched" =>
          /\ caller'[c].worker \in Runners
          /\ runner'[caller'[c].worker].pc = "starting"
          /\ runner'[caller'[c].worker].name = caller'[c].at
    BY <1>1, <1>4 DEF WorkersKnown
  <2>3. \A v \in Runners : runner'[v].pc = "stopping" => deaths > 0
    BY <1>4 DEF WorkersKnown
  <2> QED
    BY <1>0, <1>1, <2>1, <2>2, <2>3 DEF WorkersKnown
<1>8. AnnouncedHasWorker'
  <2> SUFFICES ASSUME deaths = 0, NEW c \in Callers, caller'[c].pc = "announced"
               PROVE  \E v \in Runners : runner'[v].name = caller[c].at /\ runner'[v].pc \in Queued \ {"claim"}
    BY <1>0, <1>1 DEF AnnouncedHasWorker
  <2>1. CASE caller[c].pc = "announced"
    <3>1. PICK v \in Runners : runner[v].name = caller[c].at /\ runner[v].pc \in Queued \ {"claim"}
      BY <2>1 DEF AnnouncedHasWorker
    <3>2. v # w
      BY <1>0, <3>1 DEF Queued, InTheTurn
    <3> QED
      BY <1>4, <3>1, <3>2
  <2>2. CASE caller[c].pc = "launched" /\ caller[c].at = runner[w].name /\ queue[runner[w].name] = Nobody
    BY <1>4, <2>2 DEF Queued
  <2>3. CASE caller[c].pc = "launched" /\ caller[c].at = runner[w].name /\ queue[runner[w].name] # Nobody
    <3>1. launch[runner[w].name] = c
      BY <2>3 DEF LocksHeld, Dispatching
    <3>2. queue[runner[w].name] \notin Callers
      BY <1>0, <2>3, <3>1 DEF LocksHeld, Dispatching
    <3>3. PICK v \in Runners : queue[runner[w].name] = v
      BY <1>0, <2>3, <3>2 DEF TurnsTypeOK
    <3>4. runner[v].name = runner[w].name /\ runner[v].pc \in Queued
      BY <1>0, <3>3 DEF LocksHeld, WorkersKnown, Locked
    <3>5. runner[v].pc # "claim" /\ v # w
      BY <1>0, <3>1, <3>4, TurnsAssumption DEF LocksHeld, Locked, Queued, InTheTurn
    <3> QED
      BY <1>4, <2>3, <3>4, <3>5
  <2> QED
    BY <1>2, <2>1, <2>2, <2>3
<1>9. TurnIsClaimed' /\ \A m \in Names : Unclaimed(m)' = Unclaimed(m)
  BY <1>0, AsksKept
<1>10. TurnPlaces' /\ ConfiguredAsTold'
  BY <1>0, <1>4, PlacesKept DEF InTheTurn
<1>11. TriageComing' /\ NoLostWakeup'
  <2>1. \A c \in Callers : caller[c].pc = "dispatch" => caller'[c].pc = "dispatch"
    BY <1>1
  <2>2. \A m \in Names : OnTheWay(m) => OnTheWay(m)'
    BY <1>0, <1>1, <1>4, <2>1 DEF OnTheWay
  <2> QED
    BY <1>0, <1>9, <2>1, <2>2, WakeupKept
<1> QED
  BY <1>5, <1>6, <1>7, <1>8, <1>9, <1>10, <1>11

\* A worker dies.
LEMMA RunnerDiesKeeps ==
  ASSUME TurnsInv, NEW w \in Runners, RunnerDies(w)
  PROVE  TurnsInv'
<1> USE DEF TurnsInv
<1>0. /\ Hear(w, "broken") /\ launch' = Free(w, launch) /\ queue' = Free(w, queue) /\ Quit(w)
      /\ UNCHANGED agentVars /\ UNCHANGED <<asks, claims, edits>>
  BY DEF RunnerDies
<1>1. deaths' \in Nat /\ deaths' > 0 /\ deaths' # 0 /\ deaths' >= deaths
  BY TurnsAssumption DEF RunnerDies, Die, TurnsTypeOK
<1>2. /\ caller' \in [Callers -> CallerStates]
      /\ \A c \in Callers :
           /\ caller'[c].todo = caller[c].todo /\ caller'[c].at = caller[c].at
           /\ caller'[c].worker = caller[c].worker
           /\ caller'[c].pc = IF caller[c].pc = "launched" /\ caller[c].worker = w THEN "broken" ELSE caller[c].pc
  BY <1>0, HearFacts
<1>3. /\ runner' \in [Runners -> RunnerStates]
      /\ launch' \in [Names -> Callers \cup Runners \cup {Nobody}]
      /\ queue' \in [Names -> Callers \cup Runners \cup {Nobody}]
      /\ LocksHeld' /\ WorkersKnown' /\ TurnPlaces' /\ ConfiguredAsTold'
  BY <1>0, <1>1, <1>2, WorkerLeaves
<1>4. TurnsTypeOK'
  BY <1>0, <1>1, <1>2, <1>3 DEF TurnsTypeOK, agentVars
<1>5. TurnIsClaimed'
  BY <1>0, AsksKept
<1>6. AnnouncedHasWorker' /\ TriageComing' /\ NoLostWakeup'
  BY <1>1 DEF AnnouncedHasWorker, TriageComing, NoLostWakeup
<1> QED
  BY <1>3, <1>4, <1>5, <1>6

-----------------------------------------------------------------------------
\* Every step keeps the invariant.
LEMMA TurnsNextKeeps == TurnsInv /\ [TurnsNext]_turnVars => TurnsInv'
<1> SUFFICES ASSUME TurnsInv, [TurnsNext]_turnVars PROVE TurnsInv'
  OBVIOUS
<1>1. CASE Manage
  BY <1>1, GivenKeeps, RemoveKeeps, ResolveKeeps DEF Manage
<1>2. CASE \E c \in Callers, n \in Names : WriteAsk(c, n)
  BY <1>2, WriteAskKeeps
<1>3. CASE \E c \in Callers : CallStep(c) \/ CallerDies(c)
  BY <1>3, TriageKeeps, ProbeKeeps, LaunchedKeeps, DispatchedKeeps, CheckAskKeeps, LaunchBrokenKeeps,
     TakeLaunchKeeps, LaunchRunnerKeeps, CallerDiesKeeps DEF CallStep
<1>4. CASE \E w \in Runners : RunnerStep(w) \/ RunnerDies(w)
  BY <1>4, TryQueueKeeps, RecoverKeeps, LockLaunchKeeps, EmptyKeeps, LeaveQueueKeeps, ClaimFirstKeeps,
     FinishTurnKeeps, ProviderEndsKeeps, RunnerDiesKeeps DEF RunnerStep
<1>5. CASE UNCHANGED turnVars
  BY <1>5 DEF turnVars, TurnsInv, TurnsTypeOK, LocksHeld, WorkersKnown, AnnouncedHasWorker, TurnIsClaimed,
     TurnPlaces, ConfiguredAsTold, TriageComing, NoLostWakeup, OnTheWay, Unclaimed, OpenFor, OpenAsk
<1> QED
  BY <1>1, <1>2, <1>3, <1>4, <1>5 DEF TurnsNext

\* The queue of a managed agent is sound, whatever the number of agents, callers,
\* workers and deaths: no ask is left without a worker or a dispatch on the way to it,
\* a client is started at most once for an ask, and a turn does not undo what its user
\* configured outside of it (runner::dispatch, runner::worker, Store::claim, ::finish).
THEOREM TurnsCorrect == TurnsSpec => []TurnsSound
<1>1. TurnsInv => TurnsSound
  BY DEF TurnsInv, TurnsSound, TurnIsClaimed, OneTurnPerAsk
<1> QED
  BY <1>1, TurnsInitially, TurnsNextKeeps, PTL DEF TurnsSpec
=============================================================================

------------------------------- MODULE Service -------------------------------
(***************************************************************************)
(* The chat service of one machine: the chief listens to the bell and      *)
(* keeps one follower per peer; a follower exchanges, holds one wait on    *)
(* the peer's node, and sleeps on a bounded channel of signals.  Rounds    *)
(* themselves are in Replication; here a round carries two counters.       *)
(***************************************************************************)
EXTENDS Naturals, Sequences

CONSTANTS
  Aliases,     \* SSH aliases
  Identities,  \* chat identities
  Unpinned,
  SignalRoom,  \* capacity of a channel (SIGNAL_CAPACITY)
  MaxNear,     \* bound: events of this machine
  MaxFar,      \* bound: events of a peer
  MaxTroubles  \* bound: rounds, waits and rings that fail, and changes of the peers

VARIABLES
  pinned,    \* PEERS: the identity of each alias
  far,       \* the machine behind each alias: its identity and its events
  near,      \* events of this machine
  written,   \* generation: writes that stored an event
  bell,      \* the generation in the bell's file
  heard,     \* the generation the chief has heard
  chief,     \* what the chief is doing
  follower,  \* what each follower is doing
  channel,   \* the signals waiting for each follower
  waitCall,  \* the wait each follower has started
  given,     \* events of this machine that each identity has stored
  taken,     \* the cursor of each identity
  breaks, changes

serviceVars == <<pinned, far, near, written, bell, heard, chief, follower, channel, waitCall,
                 given, taken, breaks, changes>>
farVars == <<pinned, far, changes>>
bellVars == <<near, written, bell>>
threadVars == <<chief, follower, channel, waitCall>>
copyVars == <<given, taken>>

NoFollower == [pc |-> "none", id |-> Unpinned, to |-> Unpinned, batch |-> 0, failed |-> FALSE]
NoWait == [pc |-> "none", to |-> Unpinned, seen |-> 0, reply |-> "none"]

ServiceInit ==
  /\ \E id \in [Aliases -> Identities] :
       /\ pinned = id
       /\ far = [a \in Aliases |-> [id |-> id[a], count |-> 0]]
  /\ near = 0 /\ written = 0 /\ bell = 0 /\ heard = 0
  /\ chief = [pc |-> "loop", at |-> Unpinned]
  /\ follower = [a \in Aliases |-> NoFollower]
  /\ channel = [a \in Aliases |-> <<>>]
  /\ waitCall = [a \in Aliases |-> NoWait]
  /\ given = [i \in Identities |-> 0] /\ taken = [i \in Identities |-> 0]
  /\ breaks = 0 /\ changes = 0

Breaks == breaks + changes < MaxTroubles /\ breaks' = breaks + 1

(***************************************************************************)
(* The store: a write that stores an event rings the bell once it has      *)
(* committed.  A process may die in between.                               *)
(***************************************************************************)
Ring(n) == written' = written + n /\ bell' = written + n

LocalCommit ==
  /\ near < MaxNear
  /\ near' = near + 1
  /\ Ring(1)
  /\ UNCHANGED <<farVars, heard, threadVars, copyVars, breaks>>

CommitUnrung ==
  /\ Breaks /\ near < MaxNear
  /\ near' = near + 1 /\ written' = written + 1
  /\ UNCHANGED <<farVars, bell, heard, threadVars, copyVars>>

FarCommit(a) ==
  /\ far[a].count < MaxFar
  /\ far' = [far EXCEPT ![a].count = @ + 1]
  /\ UNCHANGED <<pinned, changes, bellVars, heard, threadVars, copyVars, breaks>>

\* chat peer remove; chat reset on the other machine; chat peer replace or setup.
Change == breaks + changes < MaxTroubles /\ changes' = changes + 1

Unpin(a) ==
  /\ Change
  /\ pinned' = [pinned EXCEPT ![a] = Unpinned]
  /\ UNCHANGED <<far, bellVars, heard, threadVars, copyVars, breaks>>

FarReset(a, i) ==
  /\ Change
  /\ \A b \in Aliases : far[b].id # i
  /\ given[i] = 0 /\ taken[i] = 0
  /\ far' = [far EXCEPT ![a] = [id |-> i, count |-> 0]]
  /\ UNCHANGED <<pinned, bellVars, heard, threadVars, copyVars, breaks>>

Pin(a) ==
  /\ Change
  /\ pinned' = [pinned EXCEPT ![a] = far[a].id]
  /\ UNCHANGED <<far, bellVars, heard, threadVars, copyVars, breaks>>

(***************************************************************************)
(* The chief.                                                              *)
(***************************************************************************)
Room(a) == Len(channel[a]) < SignalRoom

\* The bell's file says more than was heard.
Audible == bell > heard

\* A pulse is passed on to every follower whose channel has room.
ChiefPulse ==
  /\ chief.pc = "loop" /\ Audible
  /\ heard' = bell
  /\ channel' = [a \in Aliases |->
       IF follower[a].pc # "none" /\ Room(a) THEN Append(channel[a], "local") ELSE channel[a]]
  /\ UNCHANGED <<farVars, bellVars, chief, follower, waitCall, copyVars, breaks>>

\* reconcile stops the follower of an alias that is gone: it sends, and then joins.
ReconcileStale(a) ==
  /\ chief.pc = "loop" /\ follower[a].pc # "none" /\ pinned[a] = Unpinned
  /\ chief' = [pc |-> "stop", at |-> a]
  /\ UNCHANGED <<farVars, bellVars, heard, follower, channel, waitCall, copyVars, breaks>>

SendStopTry ==
  /\ chief.pc = "stop"
  /\ channel' = IF Room(chief.at) THEN [channel EXCEPT ![chief.at] = Append(@, "stop")] ELSE channel
  /\ chief' = [chief EXCEPT !.pc = "join"]
  /\ UNCHANGED <<farVars, bellVars, heard, follower, waitCall, copyVars, breaks>>

SendStop ==
  /\ chief.pc = "stop" /\ Room(chief.at)
  /\ channel' = [channel EXCEPT ![chief.at] = Append(@, "stop")]
  /\ chief' = [chief EXCEPT !.pc = "join"]
  /\ UNCHANGED <<farVars, bellVars, heard, follower, waitCall, copyVars, breaks>>

JoinFollower ==
  /\ chief.pc = "join" /\ follower[chief.at].pc = "ended"
  /\ follower' = [follower EXCEPT ![chief.at] = NoFollower]
  /\ channel' = [channel EXCEPT ![chief.at] = <<>>]
  /\ chief' = [pc |-> "loop", at |-> Unpinned]
  /\ UNCHANGED <<farVars, bellVars, heard, waitCall, copyVars, breaks>>

\* A follower keeps the identity its alias had when it was started.
ReconcileNew(a) ==
  /\ chief.pc = "loop" /\ follower[a].pc = "none" /\ pinned[a] # Unpinned
  /\ waitCall[a].pc = "none"
  /\ follower' = [follower EXCEPT ![a] = [NoFollower EXCEPT !.pc = "exchange", !.id = pinned[a]]]
  /\ UNCHANGED <<farVars, bellVars, heard, chief, channel, waitCall, copyVars, breaks>>

(***************************************************************************)
(* A follower.  sync looks the alias up again.                             *)
(***************************************************************************)
Follow(a, pc) == follower' = [follower EXCEPT ![a].pc = pc]

BeginExchange(a) ==
  /\ follower[a].pc = "exchange"
  /\ IF pinned[a] = Unpinned
     THEN follower' = [follower EXCEPT ![a].pc = "arm", ![a].failed = TRUE]
     ELSE follower' = [follower EXCEPT ![a].pc = "offered", ![a].to = pinned[a], ![a].batch = near,
                                       ![a].failed = FALSE]
  /\ UNCHANGED <<farVars, bellVars, heard, chief, channel, waitCall, copyVars, breaks>>

\* The peer refuses an offer to another identity; what it sends may ring the bell.
FinishExchange(a) ==
  LET to == follower[a].to IN
  /\ follower[a].pc = "offered"
  /\ IF far[a].id = to
     THEN /\ given' = [given EXCEPT ![to] = IF follower[a].batch > @ THEN follower[a].batch ELSE @]
          /\ taken' = [taken EXCEPT ![to] = far[a].count]
          /\ Ring(IF far[a].count > taken[to] THEN 1 ELSE 0)
          /\ Follow(a, "arm")
     ELSE /\ follower' = [follower EXCEPT ![a].pc = "arm", ![a].failed = TRUE]
          /\ UNCHANGED <<written, bell, copyVars>>
  /\ UNCHANGED <<farVars, near, heard, chief, channel, waitCall, breaks>>

BreakExchange(a) ==
  /\ Breaks
  /\ follower[a].pc = "offered"
  /\ follower' = [follower EXCEPT ![a].pc = "arm", ![a].failed = TRUE]
  /\ UNCHANGED <<farVars, bellVars, heard, chief, channel, waitCall, copyVars>>

\* start_wait: the cursor is read now, the call runs in a thread of its own.
StartWait(a) ==
  /\ follower[a].pc = "arm"
  /\ waitCall' = IF waitCall[a].pc = "none"
                 THEN [waitCall EXCEPT ![a] = [pc |-> "sent", to |-> follower[a].id,
                                               seen |-> taken[follower[a].id], reply |-> "none"]]
                 ELSE waitCall
  /\ Follow(a, "receive")
  /\ UNCHANGED <<farVars, bellVars, heard, chief, channel, copyVars, breaks>>

\* What a signal makes of the follower: only a heartbeat starts no exchange.
AfterDeaf(signal) == IF signal = "stop" THEN "ended" ELSE IF signal \in {"heartbeat", "local"} THEN "arm" ELSE "exchange"
After(signal) == IF signal = "stop" THEN "ended" ELSE IF signal = "heartbeat" THEN "arm" ELSE "exchange"

ReceiveSignal(a) ==
  /\ follower[a].pc = "receive" /\ channel[a] # <<>>
  /\ channel' = [channel EXCEPT ![a] = Tail(@)]
  /\ waitCall' = IF Head(channel[a]) \in {"heartbeat", "remote"} THEN [waitCall EXCEPT ![a] = NoWait] ELSE waitCall
  /\ Follow(a, After(Head(channel[a])))
  /\ UNCHANGED <<farVars, bellVars, heard, chief, copyVars, breaks>>

\* The limit of a minute, which a wait is answered before.
ReceiveExpires(a) ==
  /\ follower[a].pc = "receive" /\ channel[a] = <<>>
  /\ Follow(a, "exchange")
  /\ UNCHANGED <<farVars, bellVars, heard, chief, channel, waitCall, copyVars, breaks>>

(***************************************************************************)
(* The node of the peer answers a wait: at once when it is somebody else   *)
(* or has more than was seen, and otherwise with a heartbeat.              *)
(***************************************************************************)
AnswerWait(a) ==
  /\ waitCall[a].pc = "sent"
  /\ waitCall' = [waitCall EXCEPT ![a].pc = "answered",
                    ![a].reply = IF far[a].id # waitCall[a].to \/ far[a].count > waitCall[a].seen
                                 THEN "remote" ELSE "heartbeat"]
  /\ UNCHANGED <<farVars, bellVars, heard, chief, follower, channel, copyVars, breaks>>

BreakWait(a) ==
  /\ Breaks
  /\ waitCall[a].pc = "sent"
  /\ waitCall' = [waitCall EXCEPT ![a].pc = "answered", ![a].reply = "remote"]
  /\ UNCHANGED <<farVars, bellVars, heard, chief, follower, channel, copyVars>>

\* The thread sends, which blocks while the channel is full and fails when the
\* follower is gone.
SendReply(a) ==
  /\ waitCall[a].pc = "answered"
  /\ IF follower[a].pc \in {"none", "ended"}
     THEN waitCall' = [waitCall EXCEPT ![a] = NoWait] /\ UNCHANGED channel
     ELSE /\ Room(a)
          /\ channel' = [channel EXCEPT ![a] = Append(@, waitCall[a].reply)]
          /\ waitCall' = [waitCall EXCEPT ![a].pc = "delivered"]
  /\ UNCHANGED <<farVars, bellVars, heard, chief, follower, copyVars, breaks>>

\* A reply in a channel that is dropped is lost with it.
ReplyDropped(a) ==
  /\ waitCall[a].pc = "delivered" /\ follower[a].pc = "none"
  /\ waitCall' = [waitCall EXCEPT ![a] = NoWait]
  /\ UNCHANGED <<farVars, bellVars, heard, chief, follower, channel, copyVars, breaks>>

ChiefStep ==
  \/ ChiefPulse \/ SendStop \/ JoinFollower
  \/ \E a \in Aliases : ReconcileStale(a) \/ ReconcileNew(a)
FollowerStep(a) == BeginExchange(a) \/ FinishExchange(a) \/ StartWait(a) \/ ReceiveSignal(a)
WaitStep(a) == AnswerWait(a) \/ SendReply(a) \/ ReplyDropped(a)

ServiceNext ==
  \/ LocalCommit \/ CommitUnrung \/ ChiefStep
  \/ \E a \in Aliases :
       \/ FarCommit(a) \/ Unpin(a) \/ Pin(a)
       \/ FollowerStep(a) \/ BreakExchange(a) \/ ReceiveExpires(a)
       \/ WaitStep(a) \/ BreakWait(a)
  \/ \E a \in Aliases, i \in Identities : FarReset(a, i)

ServiceSpec == ServiceInit /\ [][ServiceNext]_serviceVars

\* Threads go on; a wait is answered within its limit.  That the limit on receive
\* passes is not assumed.
ServiceFairness ==
  /\ WF_serviceVars(ChiefStep)
  /\ \A a \in Aliases : WF_serviceVars(FollowerStep(a)) /\ WF_serviceVars(WaitStep(a))

ServiceFairSpec == ServiceSpec /\ ServiceFairness

-----------------------------------------------------------------------------
\* Every event of this machine reaches a peer, and every event of the peer reaches
\* this machine, however signals meet a follower that is exchanging or a channel
\* that is full, as long as no call fails and the peers stay (serve, follow, wait).
Steady == breaks = 0 /\ changes = 0
CommitReaches ==
  \A a \in Aliases, i \in Identities :
    /\ \A n \in 1..MaxNear : (near >= n /\ pinned[a] = i) ~> (given[i] >= n \/ ~Steady)
    /\ \A n \in 1..MaxFar : (far[a].count >= n /\ pinned[a] = i) ~> (taken[i] >= n \/ ~Steady)

\* Stopping the follower of a removed peer never blocks the chief for good, with a
\* full channel and a wait that is answered at the same time (reconcile).
StopReturns == chief.pc # "loop" ~> chief.pc = "loop"

=============================================================================

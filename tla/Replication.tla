----------------------------- MODULE Replication -----------------------------
(***************************************************************************)
(* Machines that write chat events, exchange them in rounds over SSH and   *)
(* clean conversations.                                                    *)
(*                                                                         *)
(* Every machine runs any number of processes: commands, MCP servers, turn *)
(* workers and the background service.  Each of them changes the machine's *)
(* database in one transaction at a time, so an operation is one action on *)
(* store[m].  An exchange round is three transactions on two machines with *)
(* the network in between: the offer is read on one machine, answered on   *)
(* the other and the answer is applied on the first.  Any number of rounds *)
(* may be under way, between the same machines too, and each one may break *)
(* at every point.                                                         *)
(***************************************************************************)
EXTENDS Ledger

CONSTANTS
  Managed,        \* the agents whose turns their machine runs
  Operations,     \* what is done on each machine of an instance
  Sessions,       \* processes that run exchange rounds, one round at a time
  Links,          \* <<m, p>>: the process runs on m and exchanges with the pinned p
  MaxAuthored     \* bound on the events of each machine

ASSUME ReplicationAssumption ==
  /\ Managed \subseteq Agents
  /\ Links \in [Sessions -> SUBSET (Origins \X Origins)]
  /\ \A s \in Sessions, o \in Origins : <<o, o>> \notin Links[s]
  /\ MaxAuthored \in [Origins -> Nat]

VARIABLES
  store,          \* the chat database of each machine
  turns,          \* TURNS: the asks each machine's workers have claimed
  rounds          \* the exchange rounds under way

vars == <<store, turns, rounds>>

Idle == [phase |-> "idle"]
Phase(s, phase) == rounds[s].phase = phase

Init ==
  /\ store = [m \in Origins |-> EmptyDatabase(m)]
  /\ turns = [m \in Origins |-> {}]
  /\ rounds = [s \in Sessions |-> Idle]

-----------------------------------------------------------------------------
(* Operations of the agents *)

\* Room left under the bound for n more events.
Within(m, n) == LocalSeen(store[m]) + n <= MaxAuthored[m]

\* One transaction that authors a single event.
Write(m, priority, body) ==
  /\ Within(m, 1)
  /\ CanAuthor(store[m], priority, body)
  /\ store' = [store EXCEPT ![m] = Author(@, body)]

\* One transaction that authors two events; nothing is stored unless both are.
WriteBoth(m, priority, first, second) ==
  /\ Within(m, 2)
  /\ CanAuthor(store[m], priority, first)
  /\ CanAuthor(Author(store[m], first), "ending", second)
  /\ store' = [store EXCEPT ![m] = Author(Author(@, first), second)]

\* A session is bound to an agent of its machine that has joined; it stays bound
\* when the agent is removed later.
Bound(m, a) ==
  \E s \in 1..Len(store[m].events[m]) :
    store[m].events[m][s].event.body = Notice("profile", a)

EventOf(m, id) == StoredAt(store[m], id).event

\* agent start: a managed agent publishes its card once.
Start(m, a) ==
  /\ "start" \in Operations[m]
  /\ Home[a] = m /\ a \in Managed /\ a \notin store[m].profiles
  /\ Write(m, "ordinary", Notice("profile", a))
  /\ UNCHANGED <<turns, rounds>>

\* chat join: an interactive agent publishes its card and that it is waiting.
Join(m, a) ==
  /\ "join" \in Operations[m]
  /\ Home[a] = m /\ a \notin Managed
  /\ WriteBoth(m, "ordinary", Notice("profile", a), Notice("waiting", a))
  /\ UNCHANGED <<turns, rounds>>

Send(m, a, t) ==
  /\ "send" \in Operations[m]
  /\ Bound(m, a) /\ a \in Members[t]
  /\ Write(m, "ordinary", Message("send", t, a, NoRequest, NoAgent))
  /\ UNCHANGED <<turns, rounds>>

Ask(m, a, t, responder) ==
  /\ "ask" \in Operations[m]
  /\ Bound(m, a) /\ a \in Members[t] /\ responder \in Members[t]
  /\ Write(m, "ordinary", Message("ask", t, a, NoRequest, responder))
  /\ UNCHANGED <<turns, rounds>>

\* check_resolution: this machine has not ended the ask already.
NotEndedHere(m, id) == \A r \in ResolutionOf(store[m], id) : r.event[1] # m

\* chat reply: to any message of a thread this machine can read.
Reply(m, a, id) ==
  /\ "reply" \in Operations[m]
  /\ Bound(m, a) /\ Readable(store[m], id)
  /\ LET parent == EventOf(m, id).body IN
     /\ parent.thread # Public
     /\ parent.kind = "ask" /\ parent.responder = a => NotEndedHere(m, id)
     /\ Write(m, "ending", Message("reply", parent.thread, a, id, NoAgent))
  /\ UNCHANGED <<turns, rounds>>

\* chat withdraw: by the author of the ask; a message that is not an ask fails
\* the admission rule.
Withdraw(m, a, id) ==
  /\ "withdraw" \in Operations[m]
  /\ Bound(m, a) /\ Readable(store[m], id)
  /\ NotEndedHere(m, id)
  /\ LET parent == EventOf(m, id).body IN
     /\ parent.author = a /\ parent.thread # Public
     /\ Write(m, "ending", Message("withdrawn", parent.thread, a, id, NoAgent))
  /\ UNCHANGED <<turns, rounds>>

-----------------------------------------------------------------------------
(* The turns of managed agents *)

\* The claims of one agent on machine m.
Claimed(m, a) == {id \in turns[m] : EventOf(m, id).body.responder = a}

\* open_for: the unclaimed open asks of an agent, and the first in display order.
Waiting(m, a) ==
  {id \in store[m].open \ turns[m] : EventOf(m, id).body.responder = a}

Earlier(m, id, other) ==
  Precedes([clock |-> EventOf(m, id).clock, event |-> id],
           [clock |-> EventOf(m, other).clock, event |-> other])

\* Store::claim, by the agent's one worker, which runs one turn at a time.
Claim(m, a, id) ==
  /\ "claim" \in Operations[m]
  /\ Home[a] = m /\ a \in Managed \cap store[m].profiles
  /\ Claimed(m, a) = {}
  /\ id \in Waiting(m, a)
  /\ \A other \in Waiting(m, a) \ {id} : Earlier(m, id, other)
  /\ WriteBoth(m, "ending", Message("turn_started", EventOf(m, id).body.thread, a, id, NoAgent),
                            Notice("working", a))
  /\ turns' = [turns EXCEPT ![m] = @ \cup {id}]
  /\ UNCHANGED rounds

\* Store::finish with an answer, which is written even after another ending.
Answered(m, a, id) ==
  /\ id \in Claimed(m, a)
  /\ WriteBoth(m, "ending", Message("reply", EventOf(m, id).body.thread, a, id, NoAgent),
                            Notice("waiting", a))
  /\ turns' = [turns EXCEPT ![m] = @ \ {id}]
  /\ UNCHANGED rounds

\* Store::finish without an answer, and Store::recover by the next worker after
\* a crash.  Tx::end writes nothing for an ask that has ended already, and
\* recover finds no event to end when the conversation was cleaned.
Ended(m, a, id, outcome) ==
  /\ id \in Claimed(m, a)
  /\ IF ResolutionOf(store[m], id) = {}
     THEN WriteBoth(m, "ending", Message(outcome, EventOf(m, id).body.thread, a, id, NoAgent),
                                 Notice("waiting", a))
     ELSE Write(m, "ending", Notice("waiting", a))
  /\ turns' = [turns EXCEPT ![m] = @ \ {id}]
  /\ UNCHANGED rounds

-----------------------------------------------------------------------------
(* Exchange rounds and cleaning *)

MakeOffer(s, m, p) ==
  /\ rounds[s] = Idle /\ <<m, p>> \in Links[s]
  /\ rounds' = [rounds EXCEPT ![s] = [phase |-> "offered", offer |-> Offer(store[m], p)]]
  /\ UNCHANGED <<store, turns>>

\* The node of the other machine answers, or refuses before any change.
AnswerOffer(s) ==
  /\ rounds[s].phase = "offered"
  /\ LET offer == rounds[s].offer
         db == store[offer.to]
     IN  IF WrongPeer(db, offer) \/ AheadOfHistory(db, offer.seen)
         THEN rounds' = [rounds EXCEPT ![s] = Idle] /\ UNCHANGED store
         ELSE /\ store' = [store EXCEPT ![offer.to] = Respond(db, offer)]
              /\ rounds' = [rounds EXCEPT ![s] =
                   [phase |-> "answered", offer |-> offer, answer |-> Answer(db, offer)]]
  /\ UNCHANGED turns

AcceptAnswer(s) ==
  /\ rounds[s].phase = "answered"
  /\ LET offer == rounds[s].offer
         answer == rounds[s].answer
         db == store[offer.from]
     IN  store' = IF answer.from # offer.to \/ AheadOfHistory(db, answer.seen)
                  THEN store
                  ELSE [store EXCEPT ![offer.from] = Accept(db, answer)]
  /\ rounds' = [rounds EXCEPT ![s] = Idle]
  /\ UNCHANGED turns

\* The connection or one of the two processes dies with the round under way.
Break(s) ==
  /\ rounds[s] # Idle
  /\ rounds' = [rounds EXCEPT ![s] = Idle]
  /\ UNCHANGED <<store, turns>>

CleanThread(m, t) ==
  /\ "clean" \in Operations[m] /\ Cleanable(store[m], t)
  /\ \E o \in Origins : \E s \in 1..Len(store[m].events[o]) :
       InThread(store[m].events[o][s], t)
  /\ store' = [store EXCEPT ![m] = Clean(@, t)]
  /\ UNCHANGED <<turns, rounds>>

-----------------------------------------------------------------------------

AgentStep(m, a) ==
  \/ Start(m, a)
  \/ Join(m, a)
  \/ \E t \in Threads : Send(m, a, t)
  \/ \E t \in Threads, responder \in Agents : Ask(m, a, t, responder)
  \/ \E id \in StoredIds(store[m]) : Reply(m, a, id)
  \/ \E id \in StoredIds(store[m]) : Withdraw(m, a, id)

TurnStep(m, a) ==
  \/ \E id \in store[m].open : Claim(m, a, id)
  \/ \E id \in turns[m] : Answered(m, a, id)
  \/ \E id \in turns[m], outcome \in {"failed", "interrupted"} : Ended(m, a, id, outcome)

RoundStep(s) ==
  \/ \E m, p \in Origins : MakeOffer(s, m, p)
  \/ AnswerOffer(s)
  \/ AcceptAnswer(s)
  \/ Break(s)

Next ==
  \/ \E m \in Origins, a \in Agents : AgentStep(m, a) \/ TurnStep(m, a)
  \/ \E s \in Sessions : RoundStep(s)
  \/ \E m \in Origins, t \in Threads : CleanThread(m, t)

Spec == Init /\ [][Next]_vars

-----------------------------------------------------------------------------
(* Properties *)

Offers == [from : Origins, to : Origins, after : Nat, seen : Nat, events : Seq(Events)]
Answers == [from : Origins, seen : Nat, events : Seq(Events), rejected : Rejections]

TypeOK ==
  /\ store \in [Origins -> Databases]
  /\ turns \in [Origins -> SUBSET EventIds]
  /\ rounds \in [Sessions -> {Idle} \cup [phase : {"offered"}, offer : Offers]
                     \cup [phase : {"answered"}, offer : Offers, answer : Answers]]

\* No machine counts an event as stored by a peer before the peer has stored it,
\* whatever rounds overlap, break or arrive late (record_ack).
AckSound ==
  \A m, p \in Origins : m # p => store[m].acks[p] <= store[p].cursors[m].seen

\* The event that machine o wrote at position s.
Original(o, s) == store[o].events[o][s].event

\* What a machine has stored of another's ledger is a prefix of it: the same
\* events at the same positions, each in full inside its audience and as a
\* placeholder outside.  In particular a conversation is never cleaned before
\* every machine of its audience holds its content (clean_in, outgoing).
FaithfulCopy ==
  \A m, o \in Origins : m # o => \A s \in 1..Len(store[m].events[o]) :
    /\ s <= Len(store[o].events[o])
    /\ store[m].events[o][s].event = Export(Original(o, s), m)

\* What makes the two properties above inductive.  A cleaned event has been
\* acknowledged by every other machine of its audience; a round under way claims
\* no more than its sender has stored; and its events are the sender's own from some
\* position that the receiver has reached on, each as the sender exports it or as the
\* placeholder of a cleaned one that the receiver holds already.
CleanedAcknowledged ==
  \A m \in Origins : \A s \in 1..Len(store[m].events[m]) :
    store[m].events[m][s].cleaned =>
      /\ Original(m, s).body.thread \in Threads
      /\ \A p \in Audience[Original(m, s).body.thread] \ {m} : s <= store[m].acks[p]

OwnEvent(e, m, p) ==
  /\ e.origin = m
  /\ e.seq \in 1..Len(store[m].events[m])
  /\ \/ e = Export(Original(m, e.seq), p)
     \/ /\ e = [Original(m, e.seq) EXCEPT !.body = Omitted]
        /\ store[m].events[m][e.seq].cleaned
        /\ e.seq <= Len(store[p].events[m])

\* The events of m after the given position, in order.
OwnEvents(events, m, p, after) ==
  \A i \in 1..Len(events) : OwnEvent(events[i], m, p) /\ events[i].seq = after + i

RoundSound(s) ==
  LET offer == rounds[s].offer
      answer == rounds[s].answer
  IN  /\ rounds[s] # Idle =>
           /\ offer.from # offer.to
           /\ offer.seen <= Len(store[offer.from].events[offer.to])
           /\ offer.after <= Len(store[offer.to].events[offer.from])
           /\ OwnEvents(offer.events, offer.from, offer.to, offer.after)
      /\ rounds[s].phase = "answered" =>
           /\ answer.from = offer.to
           /\ answer.seen <= Len(store[offer.to].events[offer.from])
           /\ OwnEvents(answer.events, offer.to, offer.from, offer.seen)

\* Databases are consecutive: the cursor of an origin is the length of its log.
Consecutive ==
  \A m, o \in Origins :
    /\ store[m].origin = m
    /\ store[m].cursors[o].seen = Len(store[m].events[o])
    /\ \A s \in 1..Len(store[m].events[o]) :
         Id(store[m].events[o][s].event) = <<o, s>>

IndInv ==
  /\ TypeOK
  /\ Consecutive
  /\ AckSound
  /\ FaithfulCopy
  /\ CleanedAcknowledged
  /\ \A s \in Sessions : RoundSound(s)

\* Everything a stored event refers to is stored with it and was written before
\* it, so no machine shows an answer, a turn or an ending of an ask it lacks.
CausallyClosed ==
  \A m \in Origins : \A id \in StoredIds(store[m]) :
    LET e == EventOf(m, id) IN
    e.body.request # NoRequest =>
      /\ Holds(store[m], e.body.request)
      /\ EventOf(m, e.body.request).clock < e.clock

\* The asks machine m has the content of, or had before it cleaned them.
AsksAt(m) == {id \in StoredIds(store[m]) : EventOf(m, id).body.kind = "ask"}

\* The endings of an ask stored on machine m: the responder's first words on it
\* and the asker's withdrawals.
EndingsAt(m, ask) ==
  LET b == EventOf(m, ask).body IN
  {id \in StoredIds(store[m]) :
     LET e == EventOf(m, id) IN
     /\ e.body.request = ask
     /\ e.body.kind \in EndingKinds \cup {"reply"}
     /\ e.body.author = IF e.body.kind = "withdrawn" THEN b.author ELSE b.responder}

\* An ask ends with the earliest of its endings stored here, whatever order they
\* arrived in and whatever was cleaned in between, and it is open exactly while
\* there is none.  Machines that store the same endings therefore agree.
EarliestEnding ==
  \A m \in Origins :
    /\ store[m].open = {id \in AsksAt(m) : EndingsAt(m, id) = {}}
    /\ \A ask \in AsksAt(m) :
         LET endings == EndingsAt(m, ask) IN
         /\ endings = {} => ResolutionOf(store[m], ask) = {}
         /\ endings # {} => \E r \in ResolutionOf(store[m], ask) :
              /\ ResolutionOf(store[m], ask) = {r}
              /\ r.event \in endings
              /\ \A other \in endings \ {r.event} : Earlier(m, r.event, other)

\* What the other side of a round would say to a batch if it arrived now.
Verdict(s) ==
  CASE rounds[s].phase = "offered" ->
         LET offer == rounds[s].offer
         IN  IF AheadOfHistory(store[offer.to], offer.seen) THEN "ahead_of_history"
             ELSE Receive(store[offer.to], offer.from, offer.events).rejected
    [] rounds[s].phase = "answered" ->
         LET answer == rounds[s].answer
             db == store[rounds[s].offer.from]
         IN  IF AheadOfHistory(db, answer.seen) THEN "ahead_of_history"
             ELSE Receive(db, answer.from, answer.events).rejected
    [] OTHER -> "none"

\* The batch of a round that is under way, with its sender and its receiver.
Batches(s) ==
  LET offer == rounds[s].offer IN
  CASE Phase(s, "offered") -> {<<offer.from, offer.to, offer.events>>}
    [] Phase(s, "answered") -> {<<offer.to, offer.from, rounds[s].answer.events>>}
    [] OTHER -> {}

\* Why a batch may have to stop: an event about a message of a third machine that the
\* receiver still lacks, more events than the receiver has room for, or an event that
\* its sender has cleaned since and the receiver holds in full.
WaitsForThird(batch) ==
  \E i \in 1..Len(batch[3]) :
    LET request == batch[3][i].body.request IN
    /\ request # NoRequest
    /\ request[1] \notin {batch[1], batch[2]}
    /\ ~Holds(store[batch[2]], request)

OutOfRoom(batch) == store[batch[2]].usage + Len(batch[3]) > ReceivedLimit

CleanedMeanwhile(batch) ==
  \E i \in 1..Len(batch[3]) :
    /\ StoredAt(store[batch[1]], Id(batch[3][i])).cleaned
    /\ Holds(store[batch[2]], Id(batch[3][i]))

\* A batch that arrives now, however late, repeated or overlapped, is held back for one
\* of these reasons only, each with its own verdict: it meets duplicates, and never a
\* gap, a clock that runs backwards, an ending its receiver will not have, or a claim to
\* have seen more than was written.  Waiting and cleaning pass: the third machine's
\* event comes, and the peers' progress survives cleaning, so the next round goes on
\* behind the cleaned event.
OnlyHeldBack ==
  \A s \in Sessions :
    \/ Verdict(s) = "none"
    \/ \E batch \in Batches(s) :
         \/ Verdict(s) = "missing_dependency" /\ WaitsForThird(batch)
         \/ Verdict(s) = "resource_limit" /\ OutOfRoom(batch)
         \/ Verdict(s) = "conflict" /\ CleanedMeanwhile(batch)

\* Presence: an agent is only shown working on an ask that is still open.
StartedIsOpen == \A m \in Origins : store[m].started \subseteq store[m].open

\* The usage counter is the number of events whose content is kept, so cleaning
\* really makes room and capacity never leaks.
UsageExact ==
  \A m \in Origins :
    store[m].usage = Cardinality({id \in StoredIds(store[m]) : ~StoredAt(store[m], id).cleaned})

\* Cleaning makes exactly the room it says, and costs a round no more than the events
\* that were cleaned under it (Store::clean_in, Store::receive).
CleanedSound == UsageExact /\ OnlyHeldBack

\* No machine shows an answer, a turn or an ending of an ask it lacks, and yet a batch
\* waits for nothing but an event of a third machine that is still to come, room, or
\* the next round when a part of it was cleaned (Store::receive, Ledger::verify).
CausallyDelivered == CausallyClosed /\ OnlyHeldBack

\* Late answers never take back an acknowledgment or a cursor, an event never
\* changes once stored, and an ending is only ever replaced by an earlier one.
NeverTakenBack ==
  [][\A m, o \in Origins :
       /\ store'[m].acks[o] >= store[m].acks[o]
       /\ store'[m].cursors[o].seen >= store[m].cursors[o].seen
       /\ \A s \in 1..Len(store[m].events[o]) :
            store'[m].events[o][s].event = store[m].events[o][s].event
       /\ \A r \in store[m].resolutions :
            \E q \in store'[m].resolutions : q.request = r.request /\ (q = r \/ Precedes(q, r))
    ]_vars

-----------------------------------------------------------------------------
(* Delivery *)

\* What machine m has stored of p's ledger ends before what p has written.
Behind(m, p) == store[m].cursors[p].seen < LocalSeen(store[p])

\* A round that m started with p ends: its answer is applied or the offer is refused.
Concluded(s, m, p) ==
  /\ rounds[s] # Idle /\ rounds[s].offer.from = m /\ rounds[s].offer.to = p
  /\ AcceptAnswer(s) \/ (AnswerOffer(s) /\ rounds'[s] = Idle)

\* follow, the worker that machine m's background service keeps for the peer p, tries
\* again for as long as m lacks something of p: the wait that it starts next carries
\* what m has seen, and p answers Changed at once while it has written more.  A round
\* that does not end is broken off by its deadline, and a link that is tried again and
\* again carries a round through again and again.  Nothing is assumed once m has
\* everything: p then answers with heartbeats, and a round that failed to bring m's own
\* events to p is not tried again before a bell or a broken wait.  It is p's own worker
\* that fetches them.
RoundFairness ==
  /\ \A s \in Sessions : WF_vars(Break(s))
  /\ \A s \in Sessions : \A link \in Links[s] :
       []<>Behind(link[1], link[2]) => []<><<Concluded(s, link[1], link[2])>>_vars

FairSpec == Spec /\ RoundFairness

\* Machine m has a worker for the peer p.
Follows(m, p) == \E s \in Sessions : <<m, p>> \in Links[s]

Delivered == \A m, p \in Origins : Follows(m, p) => ~Behind(m, p)

\* Every event reaches every machine that follows the one that wrote it, although
\* nobody repeats a round for the sake of the other side and a batch may wait for an
\* event of a third machine (follow, start_wait, wait): the machines write a bounded
\* number of events, so catching up again and again is catching up with all of them.
Delivery == []<>Delivered

=============================================================================

------------------------------- MODULE Ledger -------------------------------
(***************************************************************************)
(* The chat ledger of one machine: the events it stores, the one admission *)
(* rule every event passes, and the tables the store derives from admitted *)
(* events (crates/domyjob-core/src/chat/ledger.rs and exchange.rs, applied *)
(* by crates/domyjob/src/chat/store/tx.rs).                                *)
(*                                                                         *)
(* Everything here is an operator on a database value: a write transaction *)
(* holds the machine's chat lock and commits as a whole, so one operator   *)
(* application is one transaction.  The modules that extend this one say   *)
(* which transactions run when.                                            *)
(*                                                                         *)
(* Abstractions.  A thread stands for a conversation together with its     *)
(* audience, which every event of the conversation repeats.  The digest of *)
(* an event is the event itself.  The byte budget of a batch is part of    *)
(* MaxBatch, and the byte limits are part of the event limits.  Texts,     *)
(* cards and times are left out.  Sequences and clocks are unbounded: the  *)
(* code stops at 2^64 - 1 instead.  Notices, receipts, rooms, machine      *)
(* cards and handoffs are not part of this module.                         *)
(***************************************************************************)
EXTENDS Integers, Sequences, FiniteSets

CONSTANTS
  Origins,        \* machine identities, totally ordered like their text
  Agents,         \* agent identities
  NoAgent,        \* the author of an event that names none
  Home,           \* the machine of each agent
  Threads,        \* conversations with their audience
  Rooms,          \* the threads that are rooms; the others are direct
  Public,         \* the thread of an event that has no audience
  Audience,       \* the machines of each thread
  Members,        \* the two agents of a direct thread, the members of a room
  MaxBatch,       \* most events of one batch
  OrdinaryLimit, EndingLimit, ReceivedLimit \* capacity, in events

ASSUME OriginsAssumption == Origins \subseteq Nat /\ IsFiniteSet(Origins)
ASSUME AgentsAssumption == NoAgent \notin Agents /\ Home \in [Agents -> Origins]
ASSUME ThreadsAssumption ==
  /\ Public \notin Threads /\ Rooms \subseteq Threads
  /\ Audience \in [Threads -> SUBSET Origins]
  /\ Members \in [Threads -> SUBSET Agents]
ASSUME BatchAssumption == MaxBatch \in Nat \ {0}
ASSUME LimitsAssumption == {OrdinaryLimit, EndingLimit, ReceivedLimit} \subseteq Nat

-----------------------------------------------------------------------------
(* Events *)

EventIds == Origins \X (Nat \ {0})
NoRequest == <<>>

PublicKinds == {"omitted", "profile", "left", "working", "waiting"}
EndingKinds == {"failed", "unavailable", "interrupted", "withdrawn"}
RequestKinds == {"reply", "turn_started"} \cup EndingKinds

Bodies ==
  [kind : PublicKinds \cup {"send", "ask"}, thread : Threads \cup {Public},
   author : Agents \cup {NoAgent}, request : {NoRequest},
   responder : Agents \cup {NoAgent}]
  \cup
  [kind : RequestKinds, thread : Threads \cup {Public},
   author : Agents \cup {NoAgent}, request : EventIds,
   responder : Agents \cup {NoAgent}]

Events == [origin : Origins, seq : Nat \ {0}, clock : Nat \ {0}, body : Bodies]

Id(e) == <<e.origin, e.seq>>

Notice(kind, agent) ==
  [kind |-> kind, thread |-> Public, author |-> agent,
   request |-> NoRequest, responder |-> NoAgent]

Omitted == Notice("omitted", NoAgent)

Message(kind, thread, agent, request, responder) ==
  [kind |-> kind, thread |-> thread, author |-> agent,
   request |-> request, responder |-> responder]

\* Event::new: an event of a thread is written on a machine of its audience,
\* only the pair of a direct thread writes in it, and an ask names another agent
\* of that audience.  Membership of a room is left to the operations.
ValidEvent(e) ==
  LET b == e.body IN
  /\ b.thread # Public =>
       /\ e.origin \in Audience[b.thread]
       /\ b.thread \notin Rooms => b.author \in Members[b.thread]
  /\ b.kind = "ask" =>
       /\ b.responder # b.author
       /\ b.thread \notin Rooms => b.responder \in Members[b.thread]
       /\ Home[b.responder] \in Audience[b.thread]

\* Event::export: a machine outside the audience gets a placeholder.
Export(e, peer) ==
  IF e.body.thread # Public /\ peer \notin Audience[e.body.thread]
  THEN [e EXCEPT !.body = Omitted]
  ELSE e

-----------------------------------------------------------------------------
(* The database of one machine *)

Stored == [event : Events, cleaned : BOOLEAN]
Cursors == [seen : Nat, clock : Nat]
Resolutions ==
  [request : EventIds, event : EventIds, clock : Nat, ending : {"reply"} \cup EndingKinds,
   asker : Agents \cup {NoAgent}, responder : Agents \cup {NoAgent}]

Databases ==
  [origin : Origins,                     \* META
   events : [Origins -> Seq(Stored)],    \* EVENTS and TOMBSTONES
   cursors : [Origins -> Cursors],       \* CURSORS
   clock : Nat, usage : Nat,             \* COUNTERS
   acks : [Origins -> Nat],              \* ACKS
   open : SUBSET EventIds,               \* OPEN
   started : SUBSET EventIds,            \* STARTED
   resolutions : SUBSET Resolutions,     \* RESOLUTIONS
   profiles : SUBSET (Agents \cup {NoAgent}),   \* PROFILES
   working : SUBSET (Agents \cup {NoAgent})]    \* ACTIVITY

EmptyDatabase(m) ==
  [origin |-> m,
   events |-> [o \in Origins |-> <<>>],
   cursors |-> [o \in Origins |-> [seen |-> 0, clock |-> 0]],
   clock |-> 0, usage |-> 0,
   acks |-> [o \in Origins |-> 0],
   open |-> {}, started |-> {}, resolutions |-> {}, profiles |-> {}, working |-> {}]

LocalSeen(db) == db.cursors[db.origin].seen

StoredIds(db) == UNION {{o} \X (1..Len(db.events[o])) : o \in Origins}
Holds(db, id) == id[2] <= Len(db.events[id[1]])
StoredAt(db, id) == db.events[id[1]][id[2]]

\* Ledger::parent: the content of a cleaned or omitted event is not known here.
Readable(db, id) ==
  /\ Holds(db, id)
  /\ ~StoredAt(db, id).cleaned
  /\ StoredAt(db, id).event.body.kind # "omitted"

ResolutionOf(db, id) == {r \in db.resolutions : r.request = id}

-----------------------------------------------------------------------------
(* Admission *)

Reasons == {"missing_dependency", "mismatch", "conflict", "gap", "clock_regression"}
Rejections == {"none", "unauthorized", "resource_limit"} \cup Reasons

Nothing == [kind |-> "nothing"]
Admitted(change) == [decision |-> "append", change |-> change]
Rejected(reason) == [decision |-> reason, change |-> Nothing]
Duplicate == [decision |-> "duplicate", change |-> Nothing]

SameThread(e, parent) ==
  /\ parent.body.thread = e.body.thread
  /\ e.clock > parent.clock

\* Resolution::precedes: display order, so every machine picks the same ending.
Precedes(r, s) ==
  \/ r.clock < s.clock
  \/ r.clock = s.clock /\ r.event[1] < s.event[1]
  \/ r.clock = s.clock /\ r.event[1] = s.event[1] /\ r.event[2] < s.event[2]

\* Only the asker withdraws an ask, only the responder answers or fails it.
Authorized(b, asker, responder) ==
  b.author = IF b.kind = "withdrawn" THEN asker ELSE responder

\* A reply that ends nothing is an ordinary message, any other ending is wrong.
PlainReply(b) == IF b.kind = "reply" THEN Admitted(Nothing) ELSE Rejected("mismatch")

Candidate(db, e, asker, responder) ==
  LET r == [request |-> e.body.request, event |-> Id(e), clock |-> e.clock,
            ending |-> e.body.kind, asker |-> asker, responder |-> responder]
  IN  IF Authorized(e.body, asker, responder)
      THEN Admitted([kind |-> "resolution", resolution |-> r,
                     wins |-> \A known \in ResolutionOf(db, r.request) : Precedes(r, known)])
      ELSE PlainReply(e.body)

\* The request is stored here: with its content, or cleaned or omitted.
ResolveStored(db, e) ==
  LET request == e.body.request
      parent  == StoredAt(db, request).event
      known   == ResolutionOf(db, request)
      winner  == CHOOSE r \in known : TRUE
  IN  IF Readable(db, request)
      THEN CASE ~SameThread(e, parent) -> Rejected("mismatch")
             [] SameThread(e, parent) /\ parent.body.kind = "ask" ->
                  Candidate(db, e, parent.body.author, parent.body.responder)
             [] OTHER -> PlainReply(e.body)
      ELSE IF known # {} THEN Candidate(db, e, winner.asker, winner.responder)
      ELSE PlainReply(e.body)

\* Mistake: a reply to an event that has not arrived is taken as plain.
ResolveUnseen(db, e) ==
  IF Holds(db, e.body.request) THEN ResolveStored(db, e) ELSE PlainReply(e.body)

Resolve(db, e) ==
  IF Holds(db, e.body.request) THEN ResolveStored(db, e) ELSE Rejected("missing_dependency")

Started(db, e) ==
  LET request == e.body.request
      parent  == StoredAt(db, request).event
  IN  CASE ~Holds(db, request) -> Rejected("missing_dependency")
        [] Readable(db, request) ->
             IF /\ parent.body.kind = "ask"
                /\ parent.body.responder = e.body.author
                /\ SameThread(e, parent)
             THEN Admitted([kind |-> "started", request |-> request])
             ELSE Rejected("mismatch")
        [] OTHER -> Admitted(Nothing)

Change(db, e) ==
  CASE e.body.kind \in EndingKinds \cup {"reply"} -> Resolve(db, e)
    [] e.body.kind = "turn_started" -> Started(db, e)
    [] e.body.kind \in {"omitted", "send"} -> Admitted(Nothing)
    [] OTHER -> Admitted([kind |-> e.body.kind, agent |-> e.body.author])

Admit(db, e) ==
  LET cursor == db.cursors[e.origin]
  IN  CASE e.seq <= cursor.seen ->
             IF StoredAt(db, Id(e)).event = e THEN Duplicate ELSE Rejected("conflict")
        [] e.seq > cursor.seen + 1 -> Rejected("gap")
        [] e.seq = cursor.seen + 1 /\ e.clock <= cursor.clock -> Rejected("clock_regression")
        [] OTHER -> Change(db, e)

-----------------------------------------------------------------------------
(* Applying an admitted event *)

Larger(i, j) == IF i >= j THEN i ELSE j
Smaller(i, j) == IF i <= j THEN i ELSE j
SaturatingSub(i, j) == IF i >= j THEN i - j ELSE 0

Record(db, e) ==
  [db EXCEPT !.events[e.origin] = Append(@, [event |-> e, cleaned |-> FALSE]),
             !.cursors[e.origin] = [seen |-> e.seq, clock |-> e.clock],
             !.clock = Larger(@, e.clock),
             !.usage = @ + 1]

\* A candidate ending that does not win leaves every table alone.
Project(db, e, change) ==
  CASE change.kind = "ask" -> [db EXCEPT !.open = @ \cup {Id(e)}]
    [] change.kind = "started" -> [db EXCEPT !.started = @ \cup {change.request}]
    [] change.kind = "resolution" ->
         IF change.wins
         THEN [db EXCEPT !.resolutions =
                           (@ \ ResolutionOf(db, change.resolution.request))
                             \cup {change.resolution},
                         !.open = @ \ {change.resolution.request},
                         !.started = @ \ {change.resolution.request}]
         ELSE db
    [] change.kind = "profile" -> [db EXCEPT !.profiles = @ \cup {change.agent}]
    [] change.kind = "left" -> [db EXCEPT !.profiles = @ \ {change.agent}]
    [] change.kind = "working" -> [db EXCEPT !.working = @ \cup {change.agent}]
    [] change.kind = "waiting" -> [db EXCEPT !.working = @ \ {change.agent}]
    [] OTHER -> db

Commit(db, e, change) == Project(Record(db, e), e, change)

\* append: the next event of this machine, stamped past everything it stores.
NextEvent(db, body) ==
  [origin |-> db.origin, seq |-> LocalSeen(db) + 1,
   clock |-> Larger(db.clock, db.cursors[db.origin].clock) + 1, body |-> body]

Limit(priority) == IF priority = "ending" THEN EndingLimit ELSE OrdinaryLimit

\* Tx::author: capacity, the event's own rules, then the admission rule.
CanAuthor(db, priority, body) ==
  LET e == NextEvent(db, body) IN
  /\ db.usage < Limit(priority)
  /\ ValidEvent(e)
  /\ Admit(db, e).decision = "append"

Author(db, body) ==
  LET e == NextEvent(db, body) IN Commit(db, e, Admit(db, e).change)

\* One event of a received batch.  The first rejection ends the batch; the
\* events before it stay.
ReceiveNext(progress, origin, e) ==
  LET db == progress.db
      verdict == Admit(db, e)
  IN  IF progress.rejected # "none" THEN progress
      ELSE IF e.origin # origin \/ origin = db.origin
      THEN [progress EXCEPT !.rejected = "unauthorized"]
      ELSE CASE verdict.decision = "duplicate" -> progress
             [] verdict.decision = "append" ->
                  IF db.usage < ReceivedLimit
                  THEN [progress EXCEPT !.db = Commit(db, e, verdict.change)]
                  ELSE [progress EXCEPT !.rejected = "resource_limit"]
             [] OTHER -> [progress EXCEPT !.rejected = verdict.decision]

Receive(db, origin, events) ==
  LET run[k \in 0..Len(events)] ==
        IF k = 0 THEN [db |-> db, rejected |-> "none"]
        ELSE ReceiveNext(run[k - 1], origin, events[k])
  IN  run[Len(events)]

-----------------------------------------------------------------------------
(* Exchange rounds *)

\* Mistake: the event goes out as it is stored, whoever the peer is.
OutgoingWhole(db, peer, seq) == StoredAt(db, <<db.origin, seq>>).event

\* A machine sends its own events only; a cleaned one goes as a placeholder.
Outgoing(db, peer, seq) ==
  LET stored == StoredAt(db, <<db.origin, seq>>)
  IN  IF stored.cleaned THEN [stored.event EXCEPT !.body = Omitted]
      ELSE Export(stored.event, peer)

\* Mistake: the batch starts one event late.
BatchLate(db, peer, after) ==
  [i \in 1..Smaller(MaxBatch, LocalSeen(db) - after - 1) |-> Outgoing(db, peer, after + i + 1)]

Batch(db, peer, after) ==
  [i \in 1..Smaller(MaxBatch, LocalSeen(db) - after) |-> Outgoing(db, peer, after + i)]

Offer(db, peer) ==
  [from |-> db.origin, to |-> peer, after |-> db.acks[peer],
   seen |-> db.cursors[peer].seen, events |-> Batch(db, peer, db.acks[peer])]

\* Mistake: everything this machine has written counts as stored by the peer.
RecordAckAll(db, peer, seen) == [db EXCEPT !.acks[peer] = LocalSeen(db)]

\* Mistake: the latest answer counts, even one that was late.
RecordAckLatest(db, peer, seen) == [db EXCEPT !.acks[peer] = Smaller(seen, LocalSeen(db))]

RecordAck(db, peer, seen) ==
  [db EXCEPT !.acks[peer] = Larger(@, Smaller(seen, LocalSeen(db)))]

\* The checks of respond and accept that come before anything is stored.
WrongPeer(db, offer) == offer.to # db.origin \/ offer.from = db.origin
AheadOfHistory(db, seen) == seen > LocalSeen(db)

Respond(db, offer) ==
  RecordAck(Receive(db, offer.from, offer.events).db, offer.from, offer.seen)

Answer(db, offer) ==
  LET received == Receive(db, offer.from, offer.events)
      after == Respond(db, offer)
  IN  [from |-> db.origin, seen |-> after.cursors[offer.from].seen,
       events |-> Batch(after, offer.from, offer.seen), rejected |-> received.rejected]

\* Mistake: a round only brings this machine's events to the peer.
AcceptPushOnly(db, answer) == RecordAck(db, answer.from, answer.seen)

Accept(db, answer) ==
  RecordAck(Receive(db, answer.from, answer.events).db, answer.from, answer.seen)

-----------------------------------------------------------------------------
(* Cleaning a conversation *)

InThread(stored, t) == ~stored.cleaned /\ stored.event.body.thread = t

\* Mistake: an open ask may be cleaned.
CleanableOpen(db, t) ==
  \A s \in 1..Len(db.events[db.origin]) :
    InThread(db.events[db.origin][s], t) =>
      \A peer \in Audience[t] \ {db.origin} : db.acks[peer] >= s

\* clean_in refuses while an ask of the conversation is open or a machine of
\* the audience has not acknowledged this machine's part of it.
Cleanable(db, t) ==
  \A o \in Origins : \A s \in 1..Len(db.events[o]) :
    InThread(db.events[o][s], t) =>
      /\ <<o, s>> \notin db.open
      /\ o = db.origin => \A peer \in Audience[t] \ {o} : db.acks[peer] >= s

Clean(db, t) ==
  LET gone == {id \in StoredIds(db) : InThread(StoredAt(db, id), t)}
  IN  [db EXCEPT
        !.events = [o \in Origins |-> [s \in 1..Len(db.events[o]) |->
           IF <<o, s>> \in gone THEN [db.events[o][s] EXCEPT !.cleaned = TRUE]
           ELSE db.events[o][s]]],
        !.usage = SaturatingSub(@, Cardinality(gone))]

=============================================================================

------------------------------ MODULE Handoffs ------------------------------
(***************************************************************************)
(* Handoffs: a body that one agent leaves for named readers of a project   *)
(* and scope.  A reader lists descriptors, reads one body under its exact  *)
(* descriptor, and an observation is authored after the body was output.   *)
(* Processes of the command line and calls of the MCP server do this on    *)
(* several machines, whose ledgers travel in order but not together.       *)
(***************************************************************************)
EXTENDS Naturals, FiniteSets, FiniteSetsExt, Sequences

CONSTANTS
  Hosts,        \* machines
  Actors,       \* agents
  HostOf,       \* the machine of each agent
  Contexts,     \* pairs of a project and a scope
  Drafts,       \* the handoffs agents may create: by, to, ctx, bytes
  Desks,        \* processes and calls that read handoffs
  MaxBody,      \* largest body (MAX_BODY_BYTES)
  MaxListed,    \* descriptors of one list (MAX_HANDOFFS)
  MaxSaid,      \* bound: events each machine authors
  NoActor

ASSUME HandoffsAssumption ==
  /\ HostOf \in [Actors -> Hosts] /\ MaxSaid \in [Hosts -> Nat] /\ MaxBody \in Nat
  /\ Drafts \subseteq [by : Actors, to : SUBSET Actors, ctx : Contexts, bytes : Nat]

VARIABLES
  said,      \* the ledger of each machine
  seen,      \* how much of each ledger a machine has stored
  tick,      \* the clock of each machine
  reads,     \* the table of observed handoffs of each machine
  desk,      \* what each process is doing
  handed     \* history: the bodies output to each agent, uncancelled

handoffVars == <<said, seen, tick, reads, desk, handed>>

Ids == UNION {{h} \X (1..MaxSaid[h]) : h \in Hosts}
NoId == <<0, 0>>
NoDescriptor == [id |-> NoId, by |-> NoActor, to |-> {}, ctx |-> NoActor, bytes |-> 0]
AtRest == [pc |-> "idle", actor |-> NoActor, found |-> {}, descriptor |-> NoDescriptor,
           server |-> FALSE, cancelled |-> FALSE]

HandoffsInit ==
  /\ said = [m \in Hosts |-> <<>>]
  /\ seen = [m \in Hosts |-> [o \in Hosts |-> 0]]
  /\ tick = [m \in Hosts |-> 0]
  /\ reads = [m \in Hosts |-> {}]
  /\ desk = [p \in Desks |-> AtRest]
  /\ handed = [a \in Actors |-> {}]

\* Metadata::new: the audience is the machines of the sender and of the readers.
AudienceOf(by, to) == {HostOf[a] : a \in {by} \cup to}
EventAt(id) == said[id[1]][id[2]]
InStore(m, id) == id[1] \in Hosts /\ id[2] \in 1..seen[m][id[1]]

\* The table of headers: the handoffs of its audience a machine has stored.
Headers(m) ==
  {id \in Ids : InStore(m, id) /\ EventAt(id).kind = "handoff" /\ m \in AudienceOf(EventAt(id).by, EventAt(id).to)}

Descriptor(id) == [id |-> id, by |-> EventAt(id).by, to |-> EventAt(id).to, ctx |-> EventAt(id).ctx, bytes |-> EventAt(id).bytes]

\* Tx::author: the event follows everything its machine has stored.
Say(m, event) ==
  /\ Len(said[m]) < MaxSaid[m]
  /\ said' = [said EXCEPT ![m] = Append(@, event)]
  /\ seen' = [seen EXCEPT ![m][m] = @ + 1]
  /\ tick' = [tick EXCEPT ![m] = @ + 1]

CreateHandoff(draft) ==
  /\ Say(HostOf[draft.by], [kind |-> "handoff", by |-> draft.by, to |-> draft.to, ctx |-> draft.ctx,
                            bytes |-> draft.bytes, parent |-> NoId, clock |-> tick[HostOf[draft.by]] + 1])
  /\ UNCHANGED <<reads, desk, handed>>

(***************************************************************************)
(* The next event of a ledger is stored.  An observation waits for its     *)
(* handoff, and everything behind it waits with it.                        *)
(***************************************************************************)
\* admit_observation and observation_decision.
Admissible(event) ==
  /\ event.by \in EventAt(event.parent).to
  /\ event.to = AudienceOf(EventAt(event.parent).by, EventAt(event.parent).to)
  /\ event.clock > EventAt(event.parent).clock

TakeHandoff(m, o) ==
  LET event == said[o][seen[m][o] + 1] IN
  /\ m # o /\ seen[m][o] < Len(said[o])
  /\ (event.kind = "read" /\ m \in event.to) => event.parent \in Headers(m) /\ Admissible(event)
  /\ seen' = [seen EXCEPT ![m][o] = @ + 1]
  /\ tick' = [tick EXCEPT ![m] = Max({@, event.clock})]
  /\ reads' = IF event.kind = "read" /\ m \in event.to
              THEN [reads EXCEPT ![m] = @ \cup {<<event.by, event.parent>>}] ELSE reads
  /\ UNCHANGED <<said, desk, handed>>

(***************************************************************************)
(* Listing and reading.                                                    *)
(***************************************************************************)
\* Display order: clock, then machine.
Newer(i, j) == EventAt(i).clock > EventAt(j).clock \/ (EventAt(i).clock = EventAt(j).clock /\ i[1] > j[1])

\* The newest handoffs of one context that name the reader.
Discover(a, ctx, limit) ==
  LET granted == {id \in Headers(HostOf[a]) : a \in EventAt(id).to /\ EventAt(id).ctx = ctx}
  IN {Descriptor(id) : id \in {i \in granted : Cardinality({j \in granted : Newer(j, i)}) < limit}}

ListHandoffs(p, a, ctx, server) ==
  /\ desk[p].pc = "idle"
  /\ desk' = [desk EXCEPT ![p] = [AtRest EXCEPT !.pc = "listed", !.actor = a, !.server = server,
                                                !.found = Discover(a, ctx, MaxListed)]]
  /\ UNCHANGED <<said, seen, tick, reads, handed>>

\* read_decision
ReadAllowed(id, a, selected, limit) ==
  /\ selected = Descriptor(id)
  /\ a \in EventAt(id).to
  /\ limit \in 1..MaxBody
  /\ EventAt(id).bytes \in 1..limit

\* A descriptor comes back as it was listed, or changed on the way.
Presented(p) ==
  desk[p].found \cup {[d EXCEPT !.ctx = c, !.bytes = b] : d \in desk[p].found, c \in Contexts, b \in 1..MaxBody}

ReadHandoff(p, selected, limit) ==
  /\ desk[p].pc = "listed"
  /\ desk' = IF selected.id \in Headers(HostOf[desk[p].actor]) /\ ReadAllowed(selected.id, desk[p].actor, selected, limit)
             THEN [desk EXCEPT ![p].pc = "deliver", ![p].descriptor = selected, ![p].found = {}]
             ELSE [desk EXCEPT ![p] = AtRest]
  /\ UNCHANGED <<said, seen, tick, reads, handed>>

\* The body is written out; a server may replace an answer that is too large by
\* an error, and its client may have cancelled the call.
Deliver(p, original) ==
  /\ desk[p].pc = "deliver"
  /\ original \/ desk[p].server
  /\ handed' = IF original THEN [handed EXCEPT ![desk[p].actor] = @ \cup {desk[p].descriptor}] ELSE handed
  /\ desk' = IF original THEN [desk EXCEPT ![p].pc = "observe"] ELSE [desk EXCEPT ![p] = AtRest]
  /\ UNCHANGED <<said, seen, tick, reads>>

CancelDelivery(p) ==
  /\ desk[p].server /\ desk[p].pc \in {"deliver", "observe"}
  /\ desk' = [desk EXCEPT ![p].cancelled = TRUE]
  /\ UNCHANGED <<said, seen, tick, reads, handed>>

\* PendingObservation::commit: one transaction, which finds the handoff again and
\* authors nothing when the reader has observed it before.
ObserveAgain(p) ==
  LET a == desk[p].actor
      d == desk[p].descriptor
  IN /\ desk[p].pc = "observe" /\ ~desk[p].cancelled
     /\ Say(HostOf[a], [kind |-> "read", by |-> a, to |-> AudienceOf(d.by, d.to), ctx |-> d.ctx, bytes |-> 0,
                        parent |-> d.id, clock |-> tick[HostOf[a]] + 1])
     /\ reads' = [reads EXCEPT ![HostOf[a]] = @ \cup {<<a, d.id>>}]
     /\ desk' = [desk EXCEPT ![p] = AtRest]
     /\ UNCHANGED handed

Observe(p) ==
  LET a == desk[p].actor
      d == desk[p].descriptor
  IN /\ desk[p].pc = "observe" /\ ~desk[p].cancelled
     /\ IF <<a, d.id>> \in reads[HostOf[a]]
        THEN UNCHANGED <<said, seen, tick, reads>>
        ELSE /\ Say(HostOf[a], [kind |-> "read", by |-> a, to |-> AudienceOf(d.by, d.to), ctx |-> d.ctx,
                                bytes |-> 0, parent |-> d.id, clock |-> tick[HostOf[a]] + 1])
             /\ reads' = [reads EXCEPT ![HostOf[a]] = @ \cup {<<a, d.id>>}]
     /\ desk' = [desk EXCEPT ![p] = AtRest]
     /\ UNCHANGED handed

\* The process dies or its output fails, or the call is found cancelled.
DeskEnds(p) ==
  /\ desk[p].pc # "idle"
  /\ desk' = [desk EXCEPT ![p] = AtRest]
  /\ UNCHANGED <<said, seen, tick, reads, handed>>

HandoffsNext ==
  \/ \E draft \in Drafts : CreateHandoff(draft)
  \/ \E m, o \in Hosts : TakeHandoff(m, o)
  \/ \E p \in Desks, a \in Actors, ctx \in Contexts, server \in BOOLEAN : ListHandoffs(p, a, ctx, server)
  \/ \E p \in Desks, limit \in 1..MaxBody : \E selected \in Presented(p) : ReadHandoff(p, selected, limit)
  \/ \E p \in Desks, original \in BOOLEAN : Deliver(p, original)
  \/ \E p \in Desks : CancelDelivery(p) \/ Observe(p) \/ DeskEnds(p)

HandoffsSpec == HandoffsInit /\ [][HandoffsNext]_handoffVars

-----------------------------------------------------------------------------
Observations == {id \in Ids : id[2] <= Len(said[id[1]]) /\ EventAt(id).kind = "read"}

\* A reader observes a handoff once, however many of its processes read it at the
\* same time (PendingObservation::commit).
ObservedOnce ==
  \A i, j \in Observations : (EventAt(i).by = EventAt(j).by /\ EventAt(i).parent = EventAt(j).parent) => i = j

\* An observation means that the body the sender published was written out in full
\* to that reader, whom the sender had named (read, observe_handoff).
ObservedWasHanded ==
  \A i \in Observations :
    LET h == EventAt(i).parent IN Descriptor(h) \in handed[EventAt(i).by] /\ EventAt(i).by \in EventAt(h).to

\* No observation is refused for good: every one that was authored is admissible at
\* each machine of its audience once the handoff is there (admit_observation).
ObservationAdmitted == \A i \in Observations : Admissible(EventAt(i))

\* A machine knows of a read exactly when it has stored its observation, and then
\* it also has the handoff (handoff_read, record_read).
ReadsExact ==
  \A m \in Hosts :
    /\ reads[m] = {<<EventAt(i).by, EventAt(i).parent>> : i \in {j \in Observations : InStore(m, j) /\ m \in EventAt(j).to}}
    /\ \A r \in reads[m] : r[2] \in Headers(m)

\* A handoff is observed once, by an agent that was handed its body, and every host
\* that admits the observation knows the handoff (observe, handoff_read).
ObservationSound == ObservedOnce /\ ObservedWasHanded /\ ObservationAdmitted /\ ReadsExact
=============================================================================

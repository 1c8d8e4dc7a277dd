---------------------------- MODULE Ledger_proofs ----------------------------
(***************************************************************************)
(* Facts about the operators of Ledger: the values of the admission rule,  *)
(* what committing an event leaves alone, and induction along a received   *)
(* batch.  Induction is over sets of naturals: the library's theorem that  *)
(* < is well founded gives every non-empty set of naturals a least element *)
(* and the recursive function of Receive its values.                       *)
(***************************************************************************)
EXTENDS Ledger, TLAPS, NaturalsInduction, WellFoundedInduction, SequenceTheorems,
        FiniteSetTheorems

USE OriginsAssumption, AgentsAssumption, ThreadsAssumption, BatchAssumption, LimitsAssumption

\* A non-empty set of naturals has a least element.
LEMMA LeastNatural ==
  ASSUME NEW T \in SUBSET Nat, T # {}
  PROVE  \E n \in T : \A k \in T : n <= k
<1>1. PICK n \in T : \A y \in T : ~(<<y, n>> \in OpToRel(<, Nat))
  BY NatLessThanWellFounded, WFMin, Zenon
<1>2. \A y \in T : ~(y < n)
  BY <1>1 DEF OpToRel
<1> QED
  BY <1>2

\* Induction up to n over a set of naturals.
LEMMA UpTo ==
  ASSUME NEW n \in Nat, NEW S, 0 \in S, \A k \in 1..n : k - 1 \in S => k \in S
  PROVE  n \in S
<1> DEFINE T == {k \in 0..n : k \notin S}
<1>1. SUFFICES ASSUME n \notin S PROVE FALSE
  OBVIOUS
<1>2. T \in SUBSET Nat /\ T # {}
  BY <1>1
<1>3. PICK k \in T : \A j \in T : k <= j
  BY <1>2, LeastNatural
<1>4. k # 0 /\ k - 1 \in 0..n /\ k - 1 \notin T
  BY <1>3
<1> QED
  BY <1>3, <1>4

\* The steps of a received batch, as the run that Receive picks the end of.
IsRun(run, db, origin, events, n) ==
  run = [k \in 0..n |->
           IF k = 0 THEN [db |-> db, rejected |-> "none"]
           ELSE ReceiveNext(run[k - 1], origin, events[k])]

LEMMA RunExists ==
  ASSUME NEW db, NEW origin, NEW events, NEW n \in Nat
  PROVE  \E run : IsRun(run, db, origin, events, n)
<1> DEFINE Some(k) == \E run : IsRun(run, db, origin, events, k)
           S == {k \in 0..n : Some(k)}
<1>1. 0 \in S
  <2>1. IsRun([k \in 0..0 |-> [db |-> db, rejected |-> "none"]], db, origin, events, 0)
    BY DEF IsRun
  <2> QED
    BY <2>1
<1>2. ASSUME NEW k \in 1..n, k - 1 \in S PROVE k \in S
  <2>1. PICK run : IsRun(run, db, origin, events, k - 1)
    BY <1>2
  <2> DEFINE longer == [j \in 0..k |-> IF j < k THEN run[j]
                                       ELSE ReceiveNext(run[k - 1], origin, events[k])]
  <2>2. IsRun(longer, db, origin, events, k)
    BY <2>1 DEF IsRun
  <2> QED
    BY <2>2
<1> HIDE DEF S
<1>3. n \in S
  BY <1>1, <1>2, UpTo
<1> QED
  BY <1>3 DEF S

\* What a log that grew by one event still holds.
LEMMA OneMore ==
  ASSUME NEW i \in Nat, NEW j \in Nat, NEW k, i <= j, k = j + 1
  PROVE  i <= k /\ 1..i \subseteq 1..j
OBVIOUS

LEMMA ReceiveRun ==
  ASSUME NEW db, NEW origin, NEW events, Len(events) \in Nat
  PROVE  \E run :
           /\ run[0] = [db |-> db, rejected |-> "none"]
           /\ \A k \in 1..Len(events) : run[k] = ReceiveNext(run[k - 1], origin, events[k])
           /\ Receive(db, origin, events) = run[Len(events)]
<1> DEFINE n == Len(events)
<1>1. PICK run : /\ IsRun(run, db, origin, events, n)
                 /\ Receive(db, origin, events) = run[n]
  <2> DEFINE R == CHOOSE run : IsRun(run, db, origin, events, n)
  <2>1. IsRun(R, db, origin, events, n)
    BY RunExists, Zenon
  <2>2. Receive(db, origin, events) = R[n]
    BY Zenon DEF Receive, IsRun
  <2> QED
    BY <2>1, <2>2
<1>2. run[0] = [db |-> db, rejected |-> "none"]
  BY <1>1 DEF IsRun
<1>3. \A k \in 1..n : run[k] = ReceiveNext(run[k - 1], origin, events[k])
  <2> TAKE k \in 1..n
  <2>1. n \in Nat
    OBVIOUS
  <2> HIDE DEF n
  <2>2. k \in 0..n /\ k # 0
    BY <2>1
  <2> QED
    BY <1>1, <2>2, Zenon DEF IsRun
<1> QED
  BY <1>1, <1>2, <1>3

-----------------------------------------------------------------------------
(* The values of the admission rule *)

Changes ==
  {Nothing}
  \cup [kind : PublicKinds \cup {"ask"}, agent : Agents \cup {NoAgent}]
  \cup [kind : {"started"}, request : EventIds]
  \cup [kind : {"resolution"}, resolution : Resolutions, wins : BOOLEAN]

Verdicts == [decision : {"append", "duplicate"} \cup Reasons, change : Changes]

\* The four forms of a verdict.
LEMMA VerdictTypes ==
  /\ Nothing \in Changes
  /\ Duplicate \in Verdicts
  /\ \A change \in Changes : Admitted(change) \in Verdicts
  /\ \A reason \in Reasons : Rejected(reason) \in Verdicts
<1>1. Nothing \in Changes
  BY DEF Changes
<1> HIDE DEF Changes, Nothing
<1> QED
  BY <1>1 DEF Verdicts, Duplicate, Admitted, Rejected

LEMMA PlainReplyType ==
  ASSUME NEW b PROVE PlainReply(b) \in Verdicts
BY VerdictTypes DEF PlainReply, Reasons

LEMMA BodyFields ==
  ASSUME NEW e \in Events
  PROVE  /\ e.origin \in Origins /\ e.seq \in Nat \ {0} /\ e.clock \in Nat \ {0}
         /\ e.body.author \in Agents \cup {NoAgent}
         /\ e.body.responder \in Agents \cup {NoAgent}
         /\ e.body.kind \in RequestKinds => e.body.request \in EventIds
         /\ e.body.kind \notin RequestKinds => e.body.kind \in PublicKinds \cup {"send", "ask"}
         /\ Id(e) \in EventIds
BY DEF Events, Bodies, RequestKinds, PublicKinds, EndingKinds, Id, EventIds

LEMMA CandidateType ==
  ASSUME NEW db, NEW e \in Events, e.body.kind \in EndingKinds \cup {"reply"},
         NEW asker \in Agents \cup {NoAgent}, NEW responder \in Agents \cup {NoAgent}
  PROVE  Candidate(db, e, asker, responder) \in Verdicts
<1> DEFINE r == [request |-> e.body.request, event |-> Id(e), clock |-> e.clock,
                 ending |-> e.body.kind, asker |-> asker, responder |-> responder]
           wins == \A known \in ResolutionOf(db, r.request) : Precedes(r, known)
<1>1. r \in Resolutions
  BY BodyFields DEF Resolutions, RequestKinds
<1>2. [kind |-> "resolution", resolution |-> r, wins |-> wins] \in Changes
  <2>1. wins \in BOOLEAN
    OBVIOUS
  <2> HIDE DEF wins, r
  <2> QED
    BY <1>1, <2>1 DEF Changes
<1>3. \/ Candidate(db, e, asker, responder) = PlainReply(e.body)
      \/ Candidate(db, e, asker, responder)
           = Admitted([kind |-> "resolution", resolution |-> r, wins |-> wins])
  BY DEF Candidate
<1> HIDE DEF wins, r
<1> QED
  BY <1>2, <1>3, VerdictTypes, PlainReplyType

\* An event that a database holds.
LEMMA StoredEvent ==
  ASSUME NEW db \in Databases, NEW id \in EventIds, Holds(db, id)
  PROVE  StoredAt(db, id).event \in Events
<1>1. id[1] \in Origins /\ id[2] \in Nat \ {0}
  BY DEF EventIds
<1>2. db.events[id[1]] \in Seq(Stored)
  BY <1>1 DEF Databases
<1>3. id[2] \in 1..Len(db.events[id[1]])
  BY <1>1, <1>2 DEF Holds
<1>4. StoredAt(db, id) \in Stored
  BY <1>2, <1>3, Zenon, ElementOfSeq DEF StoredAt
<1> QED
  BY <1>4 DEF Stored

LEMMA ResolveType ==
  ASSUME NEW db \in Databases, NEW e \in Events, e.body.kind \in EndingKinds \cup {"reply"}
  PROVE  Resolve(db, e) \in Verdicts
<1> DEFINE request == e.body.request
           parent == StoredAt(db, request).event
           known == ResolutionOf(db, request)
           winner == CHOOSE r \in known : TRUE
           ofParent == Candidate(db, e, parent.body.author, parent.body.responder)
           ofWinner == Candidate(db, e, winner.asker, winner.responder)
<1>1. request \in EventIds
  BY BodyFields DEF RequestKinds
<1>2. Holds(db, request) => ofParent \in Verdicts
  <2> SUFFICES ASSUME Holds(db, request) PROVE ofParent \in Verdicts
    OBVIOUS
  <2>1. parent \in Events
    BY <1>1, StoredEvent
  <2>2. parent.body.author \in Agents \cup {NoAgent} /\ parent.body.responder \in Agents \cup {NoAgent}
    BY <2>1, BodyFields
  <2> QED
    BY <2>2, CandidateType
<1>3. known # {} => ofWinner \in Verdicts
  <2> SUFFICES ASSUME known # {} PROVE ofWinner \in Verdicts
    OBVIOUS
  <2>1. winner \in known
    BY Zenon
  <2>2. known \subseteq Resolutions
    BY DEF ResolutionOf, Databases
  <2>3. winner \in Resolutions
    BY <2>1, <2>2
  <2>4. winner.asker \in Agents \cup {NoAgent} /\ winner.responder \in Agents \cup {NoAgent}
    BY <2>3 DEF Resolutions
  <2> QED
    BY <2>4, CandidateType
<1>4. \/ Resolve(db, e) \in {Rejected("missing_dependency"), Rejected("mismatch"), PlainReply(e.body)}
      \/ Holds(db, request) /\ Resolve(db, e) = ofParent
      \/ known # {} /\ Resolve(db, e) = ofWinner
  BY DEF Resolve, ResolveStored, Readable
<1> HIDE DEF ofParent, ofWinner
<1> QED
  BY <1>2, <1>3, <1>4, VerdictTypes, PlainReplyType DEF Reasons

LEMMA StartedType ==
  ASSUME NEW db, NEW e \in Events, e.body.kind = "turn_started"
  PROVE  Started(db, e) \in Verdicts
<1> DEFINE start == [kind |-> "started", request |-> e.body.request]
<1>1. e.body.request \in EventIds
  BY BodyFields DEF RequestKinds
<1>2. start \in Changes
  BY <1>1 DEF Changes
<1>3. Started(db, e) \in {Rejected("missing_dependency"), Rejected("mismatch"),
                          Admitted(Nothing), Admitted(start)}
  BY Zenon DEF Started
<1> HIDE DEF start
<1> QED
  BY <1>2, <1>3, VerdictTypes DEF Reasons

LEMMA AdmitType ==
  ASSUME NEW db \in Databases, NEW e \in Events
  PROVE  Admit(db, e) \in Verdicts
<1>1. Change(db, e) \in Verdicts
  <2>1. CASE e.body.kind \in EndingKinds \cup {"reply"}
    <3>1. Change(db, e) = Resolve(db, e)
      BY <2>1 DEF Change, EndingKinds
    <3> QED
      BY <2>1, <3>1, ResolveType
  <2>2. CASE e.body.kind = "turn_started"
    BY <2>2, StartedType DEF Change, EndingKinds
  <2>3. CASE e.body.kind \in {"omitted", "send"}
    BY <2>3, VerdictTypes DEF Change, EndingKinds
  <2>4. CASE e.body.kind \in (PublicKinds \ {"omitted"}) \cup {"ask"}
    <3>1. [kind |-> e.body.kind, agent |-> e.body.author] \in Changes
      BY <2>4, BodyFields DEF Changes
    <3>2. Change(db, e) = Admitted([kind |-> e.body.kind, agent |-> e.body.author])
      BY <2>4 DEF Change, PublicKinds, EndingKinds
    <3> QED
      BY <3>1, <3>2, VerdictTypes
  <2>5. e.body.kind \in RequestKinds \cup PublicKinds \cup {"send", "ask"}
    BY BodyFields
  <2> QED
    BY <2>1, <2>2, <2>3, <2>4, <2>5 DEF RequestKinds
<1>2. Admit(db, e) \in {Duplicate, Rejected("conflict"), Rejected("gap"),
                        Rejected("clock_regression"), Change(db, e)}
  BY Zenon DEF Admit
<1> QED
  BY <1>1, <1>2, VerdictTypes DEF Reasons

-----------------------------------------------------------------------------
(* What a transaction changes *)

\* Two databases that differ in derived tables only.
SameLog(db, other) ==
  /\ other.origin = db.origin
  /\ other.events = db.events
  /\ other.cursors = db.cursors
  /\ other.acks = db.acks

\* Changing a derived table.
LEMMA DerivedTables ==
  ASSUME NEW db \in Databases
  PROVE  /\ \A x \in SUBSET EventIds :
              /\ [db EXCEPT !.open = x] \in Databases
              /\ SameLog(db, [db EXCEPT !.open = x])
              /\ [db EXCEPT !.started = x] \in Databases
              /\ SameLog(db, [db EXCEPT !.started = x])
         /\ \A x \in SUBSET (Agents \cup {NoAgent}) :
              /\ [db EXCEPT !.profiles = x] \in Databases
              /\ SameLog(db, [db EXCEPT !.profiles = x])
              /\ [db EXCEPT !.working = x] \in Databases
              /\ SameLog(db, [db EXCEPT !.working = x])
         /\ SameLog(db, db)
BY DEF Databases, SameLog

LEMMA ProjectLog ==
  ASSUME NEW db \in Databases, NEW e \in Events, NEW change \in Changes
  PROVE  Project(db, e, change) \in Databases /\ SameLog(db, Project(db, e, change))
<1>0. /\ Id(e) \in EventIds
      /\ db.open \in SUBSET EventIds /\ db.started \in SUBSET EventIds
      /\ db.resolutions \in SUBSET Resolutions
      /\ db.profiles \in SUBSET (Agents \cup {NoAgent})
      /\ db.working \in SUBSET (Agents \cup {NoAgent})
  BY BodyFields DEF Databases
<1>1. CASE change.kind = "ask"
  <2>1. Project(db, e, change) = [db EXCEPT !.open = db.open \cup {Id(e)}]
    BY <1>1 DEF Project
  <2>2. db.open \cup {Id(e)} \in SUBSET EventIds
    BY <1>0
  <2> QED
    BY ZenonT(60), <2>1, <2>2, DerivedTables
<1>2. CASE change.kind = "started"
  <2>1. change.request \in EventIds
    BY <1>2 DEF Changes, PublicKinds, Nothing
  <2>2. Project(db, e, change) = [db EXCEPT !.started = db.started \cup {change.request}]
    BY <1>2 DEF Project
  <2>3. db.started \cup {change.request} \in SUBSET EventIds
    BY <1>0, <2>1
  <2> QED
    BY ZenonT(60), <2>2, <2>3, DerivedTables
<1>3. CASE change.kind = "resolution" /\ change.wins
  <2> DEFINE r == change.resolution
             x == (db.resolutions \ ResolutionOf(db, r.request)) \cup {r}
             y == db.open \ {r.request}
             z == db.started \ {r.request}
  <2>1. r \in Resolutions
    BY <1>3 DEF Changes, PublicKinds, Nothing
  <2>2. Project(db, e, change) = [db EXCEPT !.resolutions = x, !.open = y, !.started = z]
    BY <1>3 DEF Project
  <2>3. x \in SUBSET Resolutions /\ y \in SUBSET EventIds /\ z \in SUBSET EventIds
    BY <1>0, <2>1
  <2> HIDE DEF x, y, z
  <2> QED
    BY <2>2, <2>3 DEF Databases, SameLog
<1>4. CASE change.kind \in {"profile", "left", "working", "waiting"}
  <2>1. change.agent \in Agents \cup {NoAgent}
    BY <1>4 DEF Changes, PublicKinds, Nothing
  <2>2. Project(db, e, change) \in
          {[db EXCEPT !.profiles = db.profiles \cup {change.agent}],
           [db EXCEPT !.profiles = db.profiles \ {change.agent}],
           [db EXCEPT !.working = db.working \cup {change.agent}],
           [db EXCEPT !.working = db.working \ {change.agent}]}
    BY <1>4 DEF Project
  <2>3. /\ db.profiles \cup {change.agent} \in SUBSET (Agents \cup {NoAgent})
        /\ db.profiles \ {change.agent} \in SUBSET (Agents \cup {NoAgent})
        /\ db.working \cup {change.agent} \in SUBSET (Agents \cup {NoAgent})
        /\ db.working \ {change.agent} \in SUBSET (Agents \cup {NoAgent})
    BY <1>0, <2>1
  <2>4. \A x \in SUBSET (Agents \cup {NoAgent}) :
          /\ [db EXCEPT !.profiles = x] \in Databases /\ SameLog(db, [db EXCEPT !.profiles = x])
          /\ [db EXCEPT !.working = x] \in Databases /\ SameLog(db, [db EXCEPT !.working = x])
    BY DerivedTables
  <2> QED
    BY <2>2, <2>3, <2>4, ZenonT(60)
<1>5. CASE Project(db, e, change) = db
  BY <1>5, DerivedTables
<1>6. \/ change.kind \in {"ask", "started", "profile", "left", "working", "waiting"}
      \/ change.kind = "resolution" /\ change.wins
      \/ Project(db, e, change) = db
  BY DEF Project
<1> QED
  BY <1>1, <1>2, <1>3, <1>4, <1>5, <1>6

LEMMA RecordType ==
  ASSUME NEW db \in Databases, NEW e \in Events
  PROVE  Record(db, e) \in Databases
<1>1. e.origin \in Origins /\ e.seq \in Nat /\ e.clock \in Nat
  BY BodyFields
<1>2. db.events[e.origin] \in Seq(Stored) /\ [event |-> e, cleaned |-> FALSE] \in Stored
  BY <1>1 DEF Databases, Stored
<1>3. Append(db.events[e.origin], [event |-> e, cleaned |-> FALSE]) \in Seq(Stored)
  BY <1>2, AppendProperties
<1>4. [seen |-> e.seq, clock |-> e.clock] \in Cursors
  BY <1>1 DEF Cursors
<1>5. Larger(db.clock, e.clock) \in Nat /\ db.usage + 1 \in Nat
  BY <1>1 DEF Larger, Databases
<1> QED
  BY <1>1, <1>3, <1>4, <1>5 DEF Record, Databases

\* A committed event: the database stays well typed, its origin's log grows by
\* the event, its cursor moves onto it, and nothing else of the log changes.
Grown(db, e, other) ==
  /\ other.origin = db.origin
  /\ other.acks = db.acks
  /\ other.events = [db.events EXCEPT ![e.origin] = Append(@, [event |-> e, cleaned |-> FALSE])]
  /\ other.cursors = [db.cursors EXCEPT ![e.origin] = [seen |-> e.seq, clock |-> e.clock]]

LEMMA CommitGrows ==
  ASSUME NEW db \in Databases, NEW e \in Events, NEW change \in Changes
  PROVE  Commit(db, e, change) \in Databases /\ Grown(db, e, Commit(db, e, change))
<1>1. Record(db, e) \in Databases
  BY RecordType
<1>2. Grown(db, e, Record(db, e))
  BY DEF Record, Grown, Databases
<1>3. /\ Commit(db, e, change) \in Databases
      /\ SameLog(Record(db, e), Commit(db, e, change))
  BY <1>1, ProjectLog DEF Commit
<1> QED
  BY <1>2, <1>3 DEF Grown, SameLog

\* Only the event after the cursor is appended.
LEMMA AppendIsNext ==
  ASSUME NEW db \in Databases, NEW e \in Events, Admit(db, e).decision = "append"
  PROVE  e.seq = db.cursors[e.origin].seen + 1
<1>1. e.seq \in Nat /\ db.cursors[e.origin].seen \in Nat
  BY BodyFields DEF Databases, Cursors
<1>2. ASSUME e.seq <= db.cursors[e.origin].seen PROVE FALSE
  BY <1>1, <1>2 DEF Admit, Duplicate, Rejected
<1>3. ASSUME e.seq > db.cursors[e.origin].seen + 1 PROVE FALSE
  BY <1>1, <1>3 DEF Admit, Rejected
<1> QED
  BY <1>1, <1>2, <1>3

\* And its clock is past that of the event before it.
LEMMA AppendIsLater ==
  ASSUME NEW db \in Databases, NEW e \in Events, Admit(db, e).decision = "append"
  PROVE  e.clock > db.cursors[e.origin].clock
<1>1. /\ e.clock \in Nat /\ db.cursors[e.origin].clock \in Nat
      /\ e.seq \in Nat /\ db.cursors[e.origin].seen \in Nat
  BY BodyFields DEF Databases, Cursors
<1>2. e.seq = db.cursors[e.origin].seen + 1
  BY AppendIsNext
<1>3. ASSUME e.clock <= db.cursors[e.origin].clock PROVE FALSE
  BY <1>1, <1>2, <1>3 DEF Admit, Rejected
<1> QED
  BY <1>1, <1>3

-----------------------------------------------------------------------------
(* A received batch *)

\* other is db after events of machine o: its log of o has grown by the events
\* that follow in the given log, as o exports them to this machine.
Extended(db, o, log, other) ==
  /\ other \in Databases
  /\ other.origin = db.origin
  /\ other.acks = db.acks
  /\ \A q \in Origins \ {o} :
       other.events[q] = db.events[q] /\ other.cursors[q] = db.cursors[q]
  /\ other.cursors[o].seen = Len(other.events[o])
  /\ Len(db.events[o]) <= Len(other.events[o])
  /\ \A s \in 1..Len(db.events[o]) : other.events[o][s] = db.events[o][s]
  /\ \A s \in (Len(db.events[o]) + 1)..Len(other.events[o]) :
       /\ s <= Len(log)
       /\ other.events[o][s] = [event |-> Export(log[s].event, db.origin), cleaned |-> FALSE]

\* An event of a round: the sender's own, or one that is stored already.
Offered(db, o, log, e) ==
  /\ e.origin = o
  /\ e.seq \in 1..Len(log)
  /\ e.seq > Len(db.events[o]) => e = Export(log[e.seq].event, db.origin)

LEMMA ReceiveStep ==
  ASSUME NEW db \in Databases, NEW o \in Origins, NEW log \in Seq(Stored),
         NEW e \in Events, Offered(db, o, log, e),
         NEW progress \in [db : Databases, rejected : Rejections],
         Extended(db, o, log, progress.db)
  PROVE  /\ ReceiveNext(progress, o, e) \in [db : Databases, rejected : Rejections]
         /\ Extended(db, o, log, ReceiveNext(progress, o, e).db)
<1> DEFINE before == progress.db
           verdict == Admit(before, e)
           after == Commit(before, e, verdict.change)
<1>1. before \in Databases /\ verdict \in Verdicts
  BY AdmitType
<1>2. \/ ReceiveNext(progress, o, e) = progress
      \/ \E r \in Rejections : ReceiveNext(progress, o, e) = [progress EXCEPT !.rejected = r]
      \/ /\ verdict.decision = "append"
         /\ ReceiveNext(progress, o, e) = [progress EXCEPT !.db = after]
  <2>1. verdict.decision \in {"append", "duplicate"} \cup Reasons
    BY <1>1 DEF Verdicts
  <2>2. ReceiveNext(progress, o, e) =
          IF progress.rejected # "none" THEN progress
          ELSE IF e.origin # o \/ o = before.origin
          THEN [progress EXCEPT !.rejected = "unauthorized"]
          ELSE CASE verdict.decision = "duplicate" -> progress
                 [] verdict.decision = "append" ->
                      IF before.usage < ReceivedLimit THEN [progress EXCEPT !.db = after]
                      ELSE [progress EXCEPT !.rejected = "resource_limit"]
                 [] OTHER -> [progress EXCEPT !.rejected = verdict.decision]
    BY Zenon DEF ReceiveNext
  <2> HIDE DEF verdict, after, before
  <2>3. CASE verdict.decision = "append"
    BY <2>2, <2>3 DEF Rejections
  <2>4. CASE verdict.decision # "append"
    BY <2>1, <2>2, <2>4 DEF Rejections, Reasons
  <2> QED
    BY <2>3, <2>4
<1>3. ASSUME verdict.decision = "append"
      PROVE  Extended(db, o, log, after)
  <2>1. e.seq = Len(before.events[o]) + 1
    BY <1>1, <1>3, AppendIsNext DEF Extended, Offered
  <2>2. after \in Databases /\ Grown(before, e, after)
    <3>1. verdict.change \in Changes
      BY <1>1 DEF Verdicts
    <3> QED
      BY <1>1, <3>1, CommitGrows
  <2>3. before.events \in [Origins -> Seq(Stored)] /\ before.events[o] \in Seq(Stored)
    BY <1>1 DEF Databases
  <2>4. after.events[o] = Append(before.events[o], [event |-> e, cleaned |-> FALSE])
    BY <2>2, <2>3 DEF Grown, Offered
  <2>5. /\ Len(after.events[o]) = Len(before.events[o]) + 1
        /\ \A s \in 1..Len(before.events[o]) : after.events[o][s] = before.events[o][s]
        /\ after.events[o][Len(before.events[o]) + 1] = [event |-> e, cleaned |-> FALSE]
    BY <2>3, <2>4, AppendProperties
  <2>6. e = Export(log[e.seq].event, db.origin) /\ e.seq <= Len(log)
    <3>1. db.events[o] \in Seq(Stored)
      BY DEF Databases
    <3> QED
      BY <2>1, <2>3, <3>1 DEF Extended, Offered
  <2>7. \A q \in Origins \ {o} :
          after.events[q] = before.events[q] /\ after.cursors[q] = before.cursors[q]
    BY <2>2, <1>1 DEF Grown, Offered, Databases
  <2>8. after.cursors[o].seen = Len(after.events[o])
    BY <2>1, <2>2, <2>5, <1>1 DEF Grown, Offered, Databases
  <2>9. Len(db.events[o]) \in Nat /\ Len(before.events[o]) \in Nat
    BY <2>3 DEF Databases
  <2>10. after.origin = db.origin /\ after.acks = db.acks
    BY <2>2 DEF Grown, Extended
  <2>11. \A s \in (Len(db.events[o]) + 1)..Len(before.events[o]) :
           /\ s <= Len(log)
           /\ before.events[o][s] = [event |-> Export(log[s].event, db.origin), cleaned |-> FALSE]
    BY DEF Extended
  <2>14. /\ Len(db.events[o]) <= Len(before.events[o])
         /\ \A s \in 1..Len(db.events[o]) : before.events[o][s] = db.events[o][s]
    BY DEF Extended
  <2> HIDE DEF after, before
  <2>12. /\ Len(db.events[o]) <= Len(after.events[o])
         /\ \A s \in 1..Len(db.events[o]) : after.events[o][s] = db.events[o][s]
    <3> DEFINE i == Len(db.events[o])
               j == Len(before.events[o])
               k == Len(after.events[o])
    <3>1. i \in Nat /\ j \in Nat /\ i <= j /\ k = j + 1
      BY <2>5, <2>9, <2>14, Zenon
    <3>2. /\ \A s \in 1..i : before.events[o][s] = db.events[o][s]
          /\ \A s \in 1..j : after.events[o][s] = before.events[o][s]
      BY <2>5, <2>14, Zenon
    <3> HIDE DEF i, j, k
    <3>3. i <= k /\ 1..i \subseteq 1..j
      BY <3>1, OneMore
    <3>4. \A s \in 1..i : after.events[o][s] = db.events[o][s]
      BY <3>2, <3>3, Zenon
    <3> QED
      BY <3>3, <3>4, Zenon DEF i, k
  <2>13. ASSUME NEW s \in (Len(db.events[o]) + 1)..Len(after.events[o])
         PROVE  /\ s <= Len(log)
                /\ after.events[o][s] = [event |-> Export(log[s].event, db.origin), cleaned |-> FALSE]
    <3>1. CASE s = Len(before.events[o]) + 1
      BY <2>1, <2>5, <2>6, <3>1
    <3>2. CASE s \in (Len(db.events[o]) + 1)..Len(before.events[o])
      <4>1. s \in 1..Len(before.events[o])
        BY <2>9, <3>2
      <4> QED
        BY <2>5, <2>11, <3>2, <4>1
    <3>3. s \in Int /\ Len(db.events[o]) + 1 <= s /\ s <= Len(before.events[o]) + 1
      BY <2>5, <2>9
    <3> QED
      BY <2>9, <3>1, <3>2, <3>3
  <2> QED
    BY <2>2, <2>7, <2>8, <2>10, <2>12, <2>13 DEF Extended, before
<1>4. CASE ReceiveNext(progress, o, e) = progress
  BY <1>4
<1>5. CASE \E r \in Rejections : ReceiveNext(progress, o, e) = [progress EXCEPT !.rejected = r]
  BY <1>5
<1>6. CASE /\ verdict.decision = "append"
           /\ ReceiveNext(progress, o, e) = [progress EXCEPT !.db = after]
  <2>1. after \in Databases /\ Extended(db, o, log, after)
    BY <1>3, <1>6 DEF Extended
  <2> HIDE DEF after
  <2> QED
    BY <1>6, <2>1
<1> QED
  BY <1>2, <1>4, <1>5, <1>6

\* A batch of the sender's own events extends the copy of its ledger by what
\* follows in that ledger.
LEMMA ReceiveExtends ==
  ASSUME NEW db \in Databases, NEW o \in Origins, NEW log \in Seq(Stored),
         NEW events \in Seq(Events),
         db.cursors[o].seen = Len(db.events[o]),
         \A i \in 1..Len(events) : Offered(db, o, log, events[i])
  PROVE  /\ Receive(db, o, events) \in [db : Databases, rejected : Rejections]
         /\ Extended(db, o, log, Receive(db, o, events).db)
<1> DEFINE n == Len(events)
           P == [db : Databases, rejected : Rejections]
<1>1. n \in Nat
  OBVIOUS
<1>2. PICK run :
        /\ run[0] = [db |-> db, rejected |-> "none"]
        /\ \A k \in 1..n : run[k] = ReceiveNext(run[k - 1], o, events[k])
        /\ Receive(db, o, events) = run[n]
  BY <1>1, ReceiveRun
<1> DEFINE S == {k \in 0..n : run[k] \in P /\ Extended(db, o, log, run[k].db)}
<1>3. 0 \in S
  <2>1. Extended(db, o, log, db)
    <3>1. db.events[o] \in Seq(Stored)
      BY DEF Databases
    <3> QED
      BY <3>1 DEF Extended
  <2>2. run[0] \in P
    BY <1>2 DEF Rejections
  <2> QED
    BY <1>1, <1>2, <2>1, <2>2
<1>4. ASSUME NEW k \in 1..n, k - 1 \in S PROVE k \in S
  <2>1. events[k] \in Events /\ Offered(db, o, log, events[k])
    BY ElementOfSeq
  <2>2. run[k - 1] \in P /\ Extended(db, o, log, run[k - 1].db)
    BY <1>4
  <2>3. /\ ReceiveNext(run[k - 1], o, events[k]) \in P
        /\ Extended(db, o, log, ReceiveNext(run[k - 1], o, events[k]).db)
    BY <2>1, <2>2, ReceiveStep
  <2>4. run[k] = ReceiveNext(run[k - 1], o, events[k])
    BY <1>2
  <2> QED
    BY <2>3, <2>4
<1> HIDE DEF S
<1>5. n \in S
  BY <1>1, <1>3, <1>4, UpTo
<1> QED
  BY <1>2, <1>5 DEF S

-----------------------------------------------------------------------------
(* Writing, acknowledging, sending and cleaning *)

\* other is db after its machine has written events of its own.
Authored(db, other) ==
  LET o == db.origin IN
  /\ other \in Databases
  /\ other.origin = o
  /\ other.acks = db.acks
  /\ \A q \in Origins \ {o} :
       other.events[q] = db.events[q] /\ other.cursors[q] = db.cursors[q]
  /\ other.cursors[o].seen = Len(other.events[o])
  /\ Len(db.events[o]) <= Len(other.events[o])
  /\ \A s \in 1..Len(db.events[o]) : other.events[o][s] = db.events[o][s]
  /\ \A s \in (Len(db.events[o]) + 1)..Len(other.events[o]) :
       /\ ~other.events[o][s].cleaned
       /\ Id(other.events[o][s].event) = <<o, s>>

LEMMA NextEventType ==
  ASSUME NEW db \in Databases, NEW body \in Bodies
  PROVE  /\ NextEvent(db, body) \in Events
         /\ NextEvent(db, body).origin = db.origin
         /\ NextEvent(db, body).seq = LocalSeen(db) + 1
<1>1. /\ db.origin \in Origins /\ db.clock \in Nat
      /\ db.cursors[db.origin].seen \in Nat /\ db.cursors[db.origin].clock \in Nat
  BY DEF Databases, Cursors
<1>2. LocalSeen(db) + 1 \in Nat \ {0} /\ Larger(db.clock, db.cursors[db.origin].clock) + 1 \in Nat \ {0}
  BY <1>1 DEF LocalSeen, Larger
<1> QED
  BY <1>1, <1>2 DEF NextEvent, Events

LEMMA AuthorAuthored ==
  ASSUME NEW db \in Databases, NEW body \in Bodies, LocalSeen(db) = Len(db.events[db.origin])
  PROVE  Authored(db, Author(db, body))
<1> DEFINE e == NextEvent(db, body)
           o == db.origin
           after == Author(db, body)
           stored == [event |-> e, cleaned |-> FALSE]
<1>1. e \in Events /\ e.origin = o /\ e.seq = Len(db.events[o]) + 1
  BY NextEventType
<1>2. after \in Databases /\ Grown(db, e, after)
  <2>1. Admit(db, e).change \in Changes
    BY <1>1, AdmitType DEF Verdicts
  <2> QED
    BY <1>1, <2>1, CommitGrows DEF Author
<1>3. o \in Origins /\ db.events \in [Origins -> Seq(Stored)] /\ db.cursors \in [Origins -> Cursors]
  BY DEF Databases
<1>4. after.events[o] = Append(db.events[o], stored)
  BY <1>1, <1>2, <1>3 DEF Grown
<1>5. /\ Len(after.events[o]) = Len(db.events[o]) + 1
      /\ \A s \in 1..Len(db.events[o]) : after.events[o][s] = db.events[o][s]
      /\ after.events[o][Len(db.events[o]) + 1] = stored
  BY <1>3, <1>4, AppendProperties
<1>6. \A q \in Origins \ {o} :
        after.events[q] = db.events[q] /\ after.cursors[q] = db.cursors[q]
  BY <1>1, <1>2, <1>3 DEF Grown
<1>7. after.cursors[o].seen = Len(after.events[o])
  BY <1>1, <1>2, <1>3, <1>5 DEF Grown
<1>8. stored.cleaned = FALSE /\ Id(stored.event) = <<o, Len(db.events[o]) + 1>>
  BY <1>1 DEF Id
<1>9. Len(db.events[o]) \in Nat
  BY <1>3
<1>10. after.origin = o /\ after.acks = db.acks
  BY <1>2 DEF Grown
<1>11. ASSUME NEW s \in (Len(db.events[o]) + 1)..Len(after.events[o])
       PROVE  ~after.events[o][s].cleaned /\ Id(after.events[o][s].event) = <<o, s>>
  <2>1. s = Len(db.events[o]) + 1
    BY <1>5, <1>9
  <2> HIDE DEF stored, after
  <2> QED
    BY <1>5, <1>8, <2>1
<1>12. Len(db.events[o]) <= Len(after.events[o])
  <2>1. Len(db.events[o]) <= Len(db.events[o])
    BY <1>9
  <2> HIDE DEF stored, after
  <2> QED
    BY <1>5, <1>9, <2>1, OneMore, Zenon
<1> QED
  BY <1>2, <1>5, <1>6, <1>7, <1>10, <1>11, <1>12, Zenon DEF Authored

\* Acknowledging changes the acknowledgments only, and never beyond the peer's word.
LEMMA RecordAckType ==
  ASSUME NEW db \in Databases, NEW peer \in Origins, NEW seen \in Nat
  PROVE  LET other == RecordAck(db, peer, seen) IN
         /\ other \in Databases
         /\ other.origin = db.origin
         /\ other.events = db.events
         /\ other.cursors = db.cursors
         /\ \A q \in Origins \ {peer} : other.acks[q] = db.acks[q]
         /\ other.acks[peer] = db.acks[peer] \/ other.acks[peer] <= seen
         /\ other.acks[peer] >= db.acks[peer]
<1>1. LocalSeen(db) \in Nat /\ db.acks \in [Origins -> Nat]
  BY DEF LocalSeen, Databases, Cursors
<1> DEFINE next == Larger(db.acks[peer], Smaller(seen, LocalSeen(db)))
<1>2. /\ next \in Nat /\ next >= db.acks[peer]
      /\ next = db.acks[peer] \/ next <= seen
  BY <1>1 DEF Larger, Smaller
<1>3. RecordAck(db, peer, seen) = [db EXCEPT !.acks = [db.acks EXCEPT ![peer] = next]]
  BY DEF RecordAck, Databases
<1> HIDE DEF next
<1>4. [db.acks EXCEPT ![peer] = next] \in [Origins -> Nat]
  BY <1>1, <1>2
<1> QED
  BY ZenonT(60), <1>1, <1>2, <1>3, <1>4 DEF Databases

\* A placeholder keeps the place and the time of its event.
LEMMA ExportType ==
  ASSUME NEW e \in Events, NEW peer
  PROVE  /\ Omitted \in Bodies
         /\ [e EXCEPT !.body = Omitted] \in Events
         /\ Id([e EXCEPT !.body = Omitted]) = Id(e)
         /\ Export(e, peer) \in Events
         /\ Id(Export(e, peer)) = Id(e)
<1>1. Omitted \in Bodies
  BY DEF Omitted, Notice, Bodies, PublicKinds
<1> HIDE DEF Omitted, Bodies
<1>2. [e EXCEPT !.body = Omitted] \in Events /\ Id([e EXCEPT !.body = Omitted]) = Id(e)
  BY <1>1 DEF Events, Id
<1> QED
  BY <1>1, <1>2 DEF Export

LEMMA BatchType ==
  ASSUME NEW db \in Databases, NEW peer, NEW after \in Nat,
         LocalSeen(db) = Len(db.events[db.origin]), after <= LocalSeen(db)
  PROVE  /\ Batch(db, peer, after) \in Seq(Events)
         /\ \A i \in 1..Len(Batch(db, peer, after)) :
              /\ after + i \in 1..Len(db.events[db.origin])
              /\ Batch(db, peer, after)[i] = Outgoing(db, peer, after + i)
<1> DEFINE n == Smaller(MaxBatch, LocalSeen(db) - after)
           log == db.events[db.origin]
<1>0. db.events \in [Origins -> Seq(Stored)] /\ db.origin \in Origins
  BY DEF Databases
<1>1. log \in Seq(Stored)
  BY <1>0
<1>2. Len(log) \in Nat
  BY <1>1, LenProperties
<1>3. n \in Nat /\ \A i \in 1..n : after + i \in 1..Len(log)
  BY <1>2 DEF Smaller
<1>4. ASSUME NEW s \in 1..Len(log) PROVE Outgoing(db, peer, s) \in Events
  <2>1. log[s] \in Stored
    BY <1>1, ElementOfSeq
  <2>2. log[s].event \in Events
    BY <2>1 DEF Stored
  <2>3. StoredAt(db, <<db.origin, s>>) = log[s]
    BY DEF StoredAt
  <2> QED
    BY <2>2, <2>3, ExportType DEF Outgoing
<1>5. Batch(db, peer, after) = [i \in 1..n |-> Outgoing(db, peer, after + i)]
  BY DEF Batch
<1> HIDE DEF n
<1>6. \A i \in 1..n : Outgoing(db, peer, after + i) \in Events
  BY <1>3, <1>4
<1>7. Batch(db, peer, after) \in Seq(Events) /\ Len(Batch(db, peer, after)) = n
  BY <1>3, <1>5, <1>6
<1> QED
  BY <1>3, <1>5, <1>7

\* A database stores finitely many events.
LEMMA StoredFinite ==
  ASSUME NEW db \in Databases
  PROVE  IsFiniteSet(StoredIds(db))
<1> DEFINE part == [o \in Origins |-> {o} \X (1..Len(db.events[o]))]
           parts == {part[o] : o \in Origins}
<1>1. ASSUME NEW o \in Origins PROVE IsFiniteSet(part[o])
  <2>1. Len(db.events[o]) \in Nat
    BY DEF Databases
  <2>2. IsFiniteSet({o})
    BY FS_Singleton, Zenon
  <2>3. 1 \in Int /\ Len(db.events[o]) \in Int
    BY <2>1
  <2>4. IsFiniteSet(1..Len(db.events[o]))
    BY <2>3, FS_Interval, Zenon
  <2> QED
    BY <2>2, <2>4, FS_Product
<1>2. part \in Surjection(Origins, parts)
  BY DEF Surjection
<1>3. IsFiniteSet(parts)
  BY <1>2, FS_Surjection
<1>4. IsFiniteSet(UNION parts)
  BY <1>1, <1>3, FS_UNION
<1>5. StoredIds(db) = UNION parts
  BY DEF StoredIds
<1> QED
  BY <1>4, <1>5

\* Cleaning marks events and changes nothing else of the log.
LEMMA CleanType ==
  ASSUME NEW db \in Databases, NEW t
  PROVE  LET other == Clean(db, t) IN
         /\ other \in Databases
         /\ other.origin = db.origin
         /\ other.cursors = db.cursors
         /\ other.acks = db.acks
         /\ \A o \in Origins :
              /\ Len(other.events[o]) = Len(db.events[o])
              /\ \A s \in 1..Len(db.events[o]) :
                   /\ other.events[o][s].event = db.events[o][s].event
                   /\ db.events[o][s].cleaned => other.events[o][s].cleaned
                   /\ other.events[o][s].cleaned =>
                        db.events[o][s].cleaned \/ InThread(db.events[o][s], t)
<1> DEFINE gone == {id \in StoredIds(db) : InThread(StoredAt(db, id), t)}
           mark(o) == [s \in 1..Len(db.events[o]) |->
                         IF <<o, s>> \in gone THEN [db.events[o][s] EXCEPT !.cleaned = TRUE]
                         ELSE db.events[o][s]]
           left == SaturatingSub(db.usage, Cardinality(gone))
<1>1. Clean(db, t) = [db EXCEPT !.events = [o \in Origins |-> mark(o)], !.usage = left]
  BY Zenon DEF Clean
<1>2. left \in Nat
  <2>1. gone \in SUBSET StoredIds(db)
    OBVIOUS
  <2>2. IsFiniteSet(gone)
    BY <2>1, StoredFinite, FS_Subset
  <2>3. Cardinality(gone) \in Nat /\ db.usage \in Nat
    BY <2>2, FS_CardinalityType DEF Databases
  <2> QED
    BY <2>3 DEF SaturatingSub
<1>3. ASSUME NEW o \in Origins
      PROVE  /\ mark(o) \in Seq(Stored) /\ Len(mark(o)) = Len(db.events[o])
             /\ \A s \in 1..Len(db.events[o]) :
                   /\ mark(o)[s].event = db.events[o][s].event
                   /\ db.events[o][s].cleaned => mark(o)[s].cleaned
                   /\ mark(o)[s].cleaned =>
                        db.events[o][s].cleaned \/ InThread(db.events[o][s], t)
  <2>1. db.events[o] \in Seq(Stored) /\ Len(db.events[o]) \in Nat
    BY DEF Databases
  <2>2. \A s \in 1..Len(db.events[o]) : db.events[o][s] \in Stored
    BY <2>1, ElementOfSeq
  <2>3. \A s \in 1..Len(db.events[o]) : mark(o)[s] \in Stored
    BY <2>2 DEF Stored
  <2>4. \A s : <<o, s>> \in gone => InThread(db.events[o][s], t)
    BY DEF StoredAt
  <2>5. \A s \in 1..Len(db.events[o]) :
          /\ mark(o)[s].event = db.events[o][s].event
          /\ db.events[o][s].cleaned => mark(o)[s].cleaned
          /\ mark(o)[s].cleaned =>
               db.events[o][s].cleaned \/ InThread(db.events[o][s], t)
    BY <2>2, <2>4 DEF Stored
  <2>6. mark(o) \in [1..Len(db.events[o]) -> Stored]
    BY <2>3
  <2>7. mark(o) \in Seq(Stored) /\ Len(mark(o)) = Len(db.events[o])
    <3> HIDE DEF mark
    <3>1. mark(o) \in Seq(Stored)
      BY SMTT(60), <2>1, <2>6, SeqDef
    <3>2. Len(mark(o)) \in Nat /\ DOMAIN mark(o) = 1..Len(mark(o))
      BY <3>1, LenProperties
    <3>3. DOMAIN mark(o) = 1..Len(db.events[o])
      BY <2>6
    <3> QED
      BY <2>1, <3>1, <3>2, <3>3
  <2> QED
    BY <2>5, <2>7
<1> HIDE DEF left, mark, gone
<1> DEFINE marked == [o \in Origins |-> mark(o)]
<1>4. marked \in [Origins -> Seq(Stored)]
  BY <1>3
<1>5. \A o \in Origins : marked[o] = mark(o)
  OBVIOUS
<1> HIDE DEF marked
<1>6. Clean(db, t) = [db EXCEPT !.events = marked, !.usage = left]
  BY <1>1 DEF marked
<1>7. /\ Clean(db, t) \in Databases
      /\ Clean(db, t).events = marked
      /\ Clean(db, t).origin = db.origin
      /\ Clean(db, t).cursors = db.cursors
      /\ Clean(db, t).acks = db.acks
  BY <1>2, <1>4, <1>6 DEF Databases
<1>8. \A o \in Origins :
        /\ Len(Clean(db, t).events[o]) = Len(db.events[o])
        /\ \A s \in 1..Len(db.events[o]) :
             /\ Clean(db, t).events[o][s].event = db.events[o][s].event
             /\ db.events[o][s].cleaned => Clean(db, t).events[o][s].cleaned
             /\ Clean(db, t).events[o][s].cleaned =>
                  db.events[o][s].cleaned \/ InThread(db.events[o][s], t)
  <2> SUFFICES ASSUME NEW o \in Origins
               PROVE  /\ Len(Clean(db, t).events[o]) = Len(db.events[o])
                      /\ \A s \in 1..Len(db.events[o]) :
                           /\ Clean(db, t).events[o][s].event = db.events[o][s].event
                           /\ db.events[o][s].cleaned => Clean(db, t).events[o][s].cleaned
                           /\ Clean(db, t).events[o][s].cleaned =>
                                db.events[o][s].cleaned \/ InThread(db.events[o][s], t)
    OBVIOUS
  <2>1. Clean(db, t).events[o] = mark(o)
    BY <1>5, <1>7
  <2> QED
    BY <1>3, <2>1, Zenon
<1> QED
  BY <1>7, <1>8, Zenon

-----------------------------------------------------------------------------
(* Which ending of an ask is in force *)

\* The asks a database stores, cleaned or not.
AskIds(db) == {id \in StoredIds(db) : StoredAt(db, id).event.body.kind = "ask"}

\* A body that ends an ask, given the body of the ask.
Ends(b, ask, asked) ==
  /\ b.request = ask
  /\ b.kind \in EndingKinds \cup {"reply"}
  /\ b.author = IF b.kind = "withdrawn" THEN asked.author ELSE asked.responder

EndingIds(db, ask) ==
  {id \in StoredIds(db) : Ends(StoredAt(db, id).event.body, ask, StoredAt(db, ask).event.body)}

Stamp(db, id) == [clock |-> StoredAt(db, id).event.clock, event |-> id]

\* r is in force for an ask: the earliest ending that is stored, with its time and
\* the agents of the ask.
InForce(db, ask, r) ==
  /\ ResolutionOf(db, ask) = {r}
  /\ r.event \in EndingIds(db, ask)
  /\ r.clock = StoredAt(db, r.event).event.clock
  /\ r.asker = StoredAt(db, ask).event.body.author
  /\ r.responder = StoredAt(db, ask).event.body.responder
  /\ \A other \in EndingIds(db, ask) \ {r.event} : Precedes(Stamp(db, r.event), Stamp(db, other))

\* The tables of asks and endings agree with the events.  What makes this inductive:
\* an ending that arrives after its ask was cleaned is judged by the agents the table
\* of endings remembers, so a cleaned ask must have an entry there.
Decided(db) ==
  /\ db.open = {id \in AskIds(db) : EndingIds(db, id) = {}}
  /\ \A ask \in AskIds(db) : EndingIds(db, ask) = {} => ResolutionOf(db, ask) = {}
  /\ \A ask \in AskIds(db) : EndingIds(db, ask) # {} => \E r : InForce(db, ask, r)
  /\ \A r \in db.resolutions : r.request \in AskIds(db)
  /\ \A id \in StoredIds(db) :
       StoredAt(db, id).event.body.request # NoRequest => StoredAt(db, id).event.body.request \in StoredIds(db)
  /\ \A ask \in AskIds(db) : StoredAt(db, ask).cleaned => EndingIds(db, ask) # {}

\* The events whose content is kept.
KeptIds(db) == {id \in StoredIds(db) : ~StoredAt(db, id).cleaned}

\* The cursor of a log has the clock of its last event, and clocks grow along the log.
Timed(db) ==
  \A o \in Origins :
    /\ Len(db.events[o]) = 0 => db.cursors[o].clock = 0
    /\ Len(db.events[o]) > 0 => db.cursors[o].clock = db.events[o][Len(db.events[o])].event.clock
    /\ \A i, k \in 1..Len(db.events[o]) :
         i < k => db.events[o][i].event.clock < db.events[o][k].event.clock

\* Cursors are the lengths of the logs, the counter of usage is the number of events
\* whose content is kept, and the clock is past every event.
Even(db) ==
  /\ db \in Databases
  /\ \A o \in Origins : db.cursors[o].seen = Len(db.events[o])
  /\ db.usage = Cardinality(KeptIds(db))
  /\ \A id \in StoredIds(db) : StoredAt(db, id).event.clock <= db.clock
  /\ Timed(db)

\* An ending in force is only ever replaced by an earlier one.
EndingsKept(db, other) ==
  \A r \in db.resolutions : \E q \in other.resolutions : q.request = r.request /\ (q = r \/ Precedes(q, r))

\* Display order is total and transitive.
LEMMA DisplayOrder ==
  ASSUME NEW r, NEW s, NEW t, r.clock \in Nat, s.clock \in Nat, t.clock \in Nat,
         r.event \in EventIds, s.event \in EventIds, t.event \in EventIds
  PROVE  /\ Precedes(r, s) /\ Precedes(s, t) => Precedes(r, t)
         /\ r.event # s.event => Precedes(r, s) \/ Precedes(s, r)
<1>1. /\ r.event[1] \in Nat /\ r.event[2] \in Nat /\ r.event = <<r.event[1], r.event[2]>>
      /\ s.event[1] \in Nat /\ s.event[2] \in Nat /\ s.event = <<s.event[1], s.event[2]>>
      /\ t.event[1] \in Nat /\ t.event[2] \in Nat
  <2>1. ASSUME NEW x \in EventIds PROVE x[1] \in Nat /\ x[2] \in Nat /\ x = <<x[1], x[2]>>
    <3>1. x[1] \in Origins /\ x[2] \in Nat \ {0} /\ x = <<x[1], x[2]>>
      BY DEF EventIds
    <3> QED
      BY <3>1, OriginsAssumption
  <2> QED
    BY <2>1
<1>2. Precedes(r, s) /\ Precedes(s, t) => Precedes(r, t)
  BY <1>1 DEF Precedes
<1>3. r.event # s.event => Precedes(r, s) \/ Precedes(s, r)
  <2>1. r.event # s.event => r.event[1] # s.event[1] \/ r.event[2] # s.event[2]
    BY <1>1
  <2> QED
    BY <1>1, <2>1 DEF Precedes
<1> QED
  BY <1>2, <1>3

\* A stored id names an event.
LEMMA StoredIdFacts ==
  ASSUME NEW db \in Databases
  PROVE  /\ \A id \in StoredIds(db) :
              /\ id \in EventIds /\ id[1] \in Origins /\ id[2] \in 1..Len(db.events[id[1]])
              /\ Holds(db, id) /\ StoredAt(db, id) \in Stored /\ StoredAt(db, id).event \in Events
         /\ \A id \in EventIds : Holds(db, id) => id \in StoredIds(db)
<1>1. \A o \in Origins : db.events[o] \in Seq(Stored) /\ Len(db.events[o]) \in Nat
  BY DEF Databases
<1>2. ASSUME NEW id \in StoredIds(db)
      PROVE  /\ id \in EventIds /\ id[1] \in Origins /\ id[2] \in 1..Len(db.events[id[1]])
             /\ Holds(db, id) /\ StoredAt(db, id) \in Stored /\ StoredAt(db, id).event \in Events
  <2>1. PICK o \in Origins : id \in {o} \X (1..Len(db.events[o]))
    BY DEF StoredIds
  <2>2. id[1] = o /\ id[2] \in 1..Len(db.events[o]) /\ id = <<o, id[2]>>
    BY <2>1
  <2>3. id[2] \in Nat \ {0} /\ id[2] <= Len(db.events[o])
    BY <1>1, <2>2
  <2>4. db.events[o][id[2]] \in Stored
    BY <1>1, <2>2, ElementOfSeq
  <2> QED
    BY <2>2, <2>3, <2>4 DEF EventIds, Holds, StoredAt, Stored
<1>3. ASSUME NEW id \in EventIds, Holds(db, id) PROVE id \in StoredIds(db)
  <2>1. id[1] \in Origins /\ id[2] \in Nat \ {0} /\ id = <<id[1], id[2]>>
    BY DEF EventIds
  <2>2. id[2] \in 1..Len(db.events[id[1]])
    BY <1>1, <1>3, <2>1 DEF Holds
  <2> QED
    BY <2>1, <2>2 DEF StoredIds
<1> QED
  BY <1>2, <1>3

\* What a committed event does to the tables of asks and endings.
LEMMA CommitTables ==
  ASSUME NEW db \in Databases, NEW e \in Events, NEW change \in Changes
  PROVE  \E N : /\ N = Commit(db, e, change)
                /\ N.usage = db.usage + 1 /\ N.clock = Larger(db.clock, e.clock)
                /\ change.kind = "ask" => N.open = db.open \cup {Id(e)} /\ N.resolutions = db.resolutions
                /\ change.kind = "resolution" /\ change.wins =>
                     /\ N.open = db.open \ {change.resolution.request}
                     /\ N.resolutions = {r \in db.resolutions : r.request # change.resolution.request} \cup {change.resolution}
                /\ change.kind # "ask" /\ ~(change.kind = "resolution" /\ change.wins) =>
                     N.open = db.open /\ N.resolutions = db.resolutions
<1>1. PICK R : R = Record(db, e)
  OBVIOUS
<1>2. R \in Databases /\ R.open = db.open /\ R.resolutions = db.resolutions
  BY <1>1, RecordType DEF Record, Databases
<1>3. PICK N : N = Project(R, e, change)
  OBVIOUS
<1>4. change.kind = "ask" => N.open = db.open \cup {Id(e)} /\ N.resolutions = db.resolutions
  BY <1>2, <1>3 DEF Project, Databases
<1>5. change.kind = "resolution" /\ change.wins =>
        /\ N.open = db.open \ {change.resolution.request}
        /\ N.resolutions = (db.resolutions \ ResolutionOf(R, change.resolution.request)) \cup {change.resolution}
  BY <1>2, <1>3 DEF Project, Databases
<1>6. db.resolutions \ ResolutionOf(R, change.resolution.request) = {r \in db.resolutions : r.request # change.resolution.request}
  BY <1>2 DEF ResolutionOf
<1>7. change.kind # "ask" /\ ~(change.kind = "resolution" /\ change.wins) =>
        N.open = db.open /\ N.resolutions = db.resolutions
  BY <1>2, <1>3 DEF Project, Databases
<1>8. R.usage = db.usage + 1 /\ R.clock = Larger(db.clock, e.clock)
  BY <1>1 DEF Record, Databases
<1>9. N.usage = R.usage /\ N.clock = R.clock
  BY <1>2, <1>3 DEF Project, Databases
<1> QED
  BY <1>1, <1>3, <1>4, <1>5, <1>6, <1>7, <1>8, <1>9 DEF Commit

\* other is db with one more event.
Appended(db, e, other) ==
  /\ StoredIds(other) = StoredIds(db) \cup {Id(e)} /\ Id(e) \notin StoredIds(db)
  /\ \A id \in StoredIds(db) : StoredAt(other, id) = StoredAt(db, id)
  /\ StoredAt(other, Id(e)).event = e /\ ~StoredAt(other, Id(e)).cleaned

\* A committed event is the next of its log.
LEMMA CommitAppends ==
  ASSUME NEW db, Even(db), NEW e \in Events, NEW change \in Changes, Admit(db, e).decision = "append"
  PROVE  /\ Even(Commit(db, e, change)) /\ Appended(db, e, Commit(db, e, change))
         /\ \A o \in Origins : Len(db.events[o]) <= Len(Commit(db, e, change).events[o])
<1>1. PICK N : N = Commit(db, e, change)
  OBVIOUS
<1>2. PICK o \in Origins : o = e.origin
  BY BodyFields
<1>3. db \in Databases /\ N \in Databases /\ Grown(db, e, N)
  BY <1>1, CommitGrows DEF Even
<1>4. e.seq = Len(db.events[o]) + 1
  <2>1. e.seq = db.cursors[o].seen + 1
    BY <1>2, <1>3, AppendIsNext
  <2>2. db.cursors[o].seen = Len(db.events[o])
    BY DEF Even
  <2> QED
    BY <2>1, <2>2
<1>5. /\ db.events \in [Origins -> Seq(Stored)] /\ db.cursors \in [Origins -> Cursors]
      /\ \A q \in Origins : Len(db.events[q]) \in Nat
  BY SMTT(30), <1>3 DEF Databases
<1>6. N.events[o] = Append(db.events[o], [event |-> e, cleaned |-> FALSE])
  BY <1>2, <1>3, <1>5 DEF Grown
<1>7. /\ \A q \in Origins \ {o} : N.events[q] = db.events[q] /\ N.cursors[q] = db.cursors[q]
      /\ N.cursors[o].seen = e.seq
  BY <1>2, <1>3, <1>5 DEF Grown
<1>8. /\ Len(N.events[o]) = Len(db.events[o]) + 1
      /\ \A s \in 1..Len(db.events[o]) : N.events[o][s] = db.events[o][s]
      /\ N.events[o][Len(db.events[o]) + 1] = [event |-> e, cleaned |-> FALSE]
  BY <1>5, <1>6, AppendProperties
<1>9. Id(e) = <<o, Len(db.events[o]) + 1>>
  BY <1>2, <1>4 DEF Id
<1>10. 1..Len(N.events[o]) = 1..Len(db.events[o]) \cup {Len(db.events[o]) + 1}
  BY <1>5, <1>8
<1>11. StoredIds(N) = StoredIds(db) \cup {Id(e)}
  <2>1. ASSUME NEW id \in StoredIds(N) PROVE id \in StoredIds(db) \cup {Id(e)}
    <3>1. PICK q \in Origins : id \in {q} \X (1..Len(N.events[q]))
      BY DEF StoredIds
    <3>2. CASE q = o
      BY <1>9, <1>10, <3>1, <3>2 DEF StoredIds
    <3>3. CASE q # o
      BY <1>7, <3>1, <3>3 DEF StoredIds
    <3> QED
      BY <3>2, <3>3
  <2>2. ASSUME NEW id \in StoredIds(db) PROVE id \in StoredIds(N)
    <3>1. PICK q \in Origins : id \in {q} \X (1..Len(db.events[q]))
      BY DEF StoredIds
    <3>2. id \in {q} \X (1..Len(N.events[q]))
      BY <1>7, <1>10, <3>1
    <3> QED
      BY <3>2 DEF StoredIds
  <2>3. Id(e) \in StoredIds(N)
    BY <1>9, <1>10 DEF StoredIds
  <2> QED
    BY <2>1, <2>2, <2>3
<1>12. Id(e) \notin StoredIds(db)
  <2> SUFFICES ASSUME Id(e) \in StoredIds(db) PROVE FALSE
    OBVIOUS
  <2>1. Len(db.events[o]) + 1 \in 1..Len(db.events[o])
    BY <1>3, <1>9, StoredIdFacts
  <2> QED
    BY <1>5, <2>1
<1>13. \A id \in StoredIds(db) : StoredAt(N, id) = StoredAt(db, id)
  <2> SUFFICES ASSUME NEW id \in StoredIds(db) PROVE N.events[id[1]][id[2]] = db.events[id[1]][id[2]]
    BY DEF StoredAt
  <2>1. id[1] \in Origins /\ id[2] \in 1..Len(db.events[id[1]])
    BY <1>3, StoredIdFacts
  <2>2. CASE id[1] = o
    BY <1>8, <2>1, <2>2
  <2>3. CASE id[1] # o
    BY <1>7, <2>1, <2>3
  <2> QED
    BY <2>2, <2>3
<1>14. StoredAt(N, Id(e)) = [event |-> e, cleaned |-> FALSE]
  BY <1>8, <1>9 DEF StoredAt
<1>15. Even(N)
  <2>1. \A q \in Origins : N.cursors[q].seen = Len(N.events[q])
    BY <1>3, <1>4, <1>7, <1>8 DEF Even
  <2>2. N.usage = db.usage + 1 /\ N.clock = Larger(db.clock, e.clock)
    BY <1>1, <1>3, CommitTables
  <2>3. KeptIds(N) = KeptIds(db) \cup {Id(e)} /\ Id(e) \notin KeptIds(db)
    BY <1>11, <1>12, <1>13, <1>14 DEF KeptIds
  <2>4. IsFiniteSet(KeptIds(db))
    BY <1>3, StoredFinite, FS_Subset DEF KeptIds
  <2>5. Cardinality(KeptIds(N)) = Cardinality(KeptIds(db)) + 1
    BY <2>3, <2>4, FS_AddElement
  <2>6. \A id \in StoredIds(N) : StoredAt(N, id).event.clock <= N.clock
    <3> SUFFICES ASSUME NEW id \in StoredIds(N) PROVE StoredAt(N, id).event.clock <= N.clock
      OBVIOUS
    <3>1. db.clock \in Nat /\ e.clock \in Nat
      BY <1>3, BodyFields DEF Databases
    <3>2. CASE id = Id(e)
      BY <1>14, <2>2, <3>1, <3>2 DEF Larger
    <3>3. CASE id \in StoredIds(db)
      <4>1. StoredAt(db, id).event.clock \in Nat
        BY <1>3, <3>3, StoredIdFacts, BodyFields
      <4>2. StoredAt(db, id).event.clock <= db.clock
        BY <3>3 DEF Even
      <4> QED
        BY <1>13, <2>2, <3>1, <3>3, <4>1, <4>2 DEF Larger
    <3> QED
      BY <1>11, <3>2, <3>3
  <2>7. Timed(N)
    <3>1. /\ N.cursors[o].clock = e.clock /\ N.cursors[o].clock > db.cursors[o].clock
          /\ e.clock \in Nat /\ db.cursors[o].clock \in Nat
      <4>1. N.cursors[o].clock = e.clock
        BY <1>2, <1>3, <1>5 DEF Grown
      <4> QED
        BY <1>2, <1>3, <1>5, <4>1, AppendIsLater, BodyFields DEF Cursors
    <3>2. PICK log, n : log = db.events[o] /\ n = Len(log)
      OBVIOUS
    <3>3. /\ n \in Nat /\ log \in Seq(Stored)
          /\ n > 0 => db.cursors[o].clock = log[n].event.clock
          /\ \A i, k \in 1..n : i < k => log[i].event.clock < log[k].event.clock
      BY <1>5, <3>2 DEF Even, Timed
    <3>4. ASSUME NEW i \in 1..n PROVE log[i].event.clock < e.clock
      <4>1. log[i].event.clock \in Nat /\ log[n].event.clock \in Nat /\ n > 0
        <5>1. n \in 1..n
          BY <3>3
        <5>2. log[i] \in Stored /\ log[n] \in Stored
          BY <3>2, <3>3, <5>1, ElementOfSeq
        <5> QED
          BY <3>3, <5>2, BodyFields DEF Stored
      <4>2. CASE i = n
        BY <3>1, <3>3, <4>1, <4>2
      <4>3. CASE i < n
        <5>1. log[i].event.clock < log[n].event.clock
          BY SMTT(30), <3>3, <4>3
        <5> QED
          BY SMTT(30), <3>1, <3>3, <4>1, <5>1
      <4> QED
        BY <3>3, <4>2, <4>3
    <3>5. /\ Len(N.events[o]) = n + 1 /\ N.events[o][n + 1].event = e
          /\ \A i \in 1..n : N.events[o][i] = log[i]
      BY <1>8, <3>2
    <3>6. \A i, k \in 1..(n + 1) : i < k => N.events[o][i].event.clock < N.events[o][k].event.clock
      <4> SUFFICES ASSUME NEW i \in 1..(n + 1), NEW k \in 1..(n + 1), i < k
                   PROVE  N.events[o][i].event.clock < N.events[o][k].event.clock
        OBVIOUS
      <4>1. i \in 1..n /\ N.events[o][i] = log[i]
        BY SMTT(30), <3>3, <3>5
      <4>2. CASE k = n + 1
        BY <3>4, <3>5, <4>1, <4>2
      <4>3. CASE k \in 1..n
        BY <3>3, <3>5, <4>1, <4>3
      <4> QED
        BY <3>3, <4>2, <4>3
    <3> SUFFICES ASSUME NEW q \in Origins
                 PROVE  /\ Len(N.events[q]) = 0 => N.cursors[q].clock = 0
                        /\ Len(N.events[q]) > 0 =>
                             N.cursors[q].clock = N.events[q][Len(N.events[q])].event.clock
                        /\ \A i, k \in 1..Len(N.events[q]) :
                             i < k => N.events[q][i].event.clock < N.events[q][k].event.clock
      BY DEF Timed
    <3>7. CASE q = o
      BY SMTT(30), <3>1, <3>3, <3>5, <3>6, <3>7
    <3>8. CASE q # o
      BY <1>7, <3>8 DEF Even, Timed
    <3> QED
      BY <3>7, <3>8
  <2> QED
    BY <1>3, <2>1, <2>2, <2>5, <2>6, <2>7 DEF Even
<1>16. \A q \in Origins : Len(db.events[q]) <= Len(N.events[q])
  BY <1>5, <1>7, <1>8
<1> QED
  BY <1>1, <1>11, <1>12, <1>13, <1>14, <1>16, <1>15 DEF Appended

\* An admitted event: what it refers to is stored, it opens an ask only when it is one,
\* and it is a candidate for an ending exactly when it ends a stored ask.
LEMMA AdmittedChange ==
  ASSUME NEW db, Even(db), Decided(db), NEW e \in Events, Admit(db, e).decision = "append",
         NEW change, change = Admit(db, e).change, NEW request, request = e.body.request
  PROVE  /\ request # NoRequest => request \in StoredIds(db)
         /\ change.kind = "ask" <=> e.body.kind = "ask"
         /\ change.kind = "resolution" =>
              /\ request \in AskIds(db) /\ Ends(e.body, request, StoredAt(db, request).event.body)
              /\ change.resolution =
                   [request |-> request, event |-> Id(e), clock |-> e.clock, ending |-> e.body.kind,
                    asker |-> StoredAt(db, request).event.body.author,
                    responder |-> StoredAt(db, request).event.body.responder]
              /\ change.wins <=> \A known \in ResolutionOf(db, request) : Precedes(change.resolution, known)
         /\ \A ask \in AskIds(db) :
              Ends(e.body, ask, StoredAt(db, ask).event.body) => change.kind = "resolution"
<1>0. db \in Databases
  BY DEF Even
<1>1. Admit(db, e) = Change(db, e)
  <2>1. Admit(db, e) \in {Duplicate, Rejected("conflict"), Rejected("gap"), Rejected("clock_regression"), Change(db, e)}
    BY Zenon DEF Admit
  <2> QED
    BY <2>1 DEF Duplicate, Rejected
<1>2. /\ e.body.kind \in RequestKinds => request \in EventIds
      /\ e.body.kind \notin RequestKinds => e.body.kind \in PublicKinds \cup {"send", "ask"}
  BY BodyFields
<1>3. e.body.kind \notin RequestKinds => request = NoRequest
  BY DEF Events, Bodies, RequestKinds, PublicKinds, EndingKinds
<1>4. CASE e.body.kind \in EndingKinds \cup {"reply"}
  <2>1. Admit(db, e) = Resolve(db, e)
    BY <1>1, <1>4 DEF Change, EndingKinds
  <2>2. Holds(db, request) /\ Resolve(db, e) = ResolveStored(db, e)
    BY <2>1 DEF Resolve, Rejected
  <2>3. request \in StoredIds(db)
    BY <1>0, <1>2, <1>4, <2>2, StoredIdFacts DEF RequestKinds
  <2>4. PICK parent : parent = StoredAt(db, request).event
    OBVIOUS
  <2>5. PICK asker, responder, known, winner :
          asker = parent.body.author /\ responder = parent.body.responder
          /\ known = ResolutionOf(db, request) /\ winner = CHOOSE r \in known : TRUE
    OBVIOUS
  <2>6. \/ /\ Readable(db, request) /\ parent.body.kind = "ask"
           /\ ResolveStored(db, e) = Candidate(db, e, asker, responder)
        \/ /\ Readable(db, request) /\ parent.body.kind # "ask"
           /\ ResolveStored(db, e) = PlainReply(e.body)
        \/ /\ ~Readable(db, request) /\ known # {}
           /\ ResolveStored(db, e) = Candidate(db, e, winner.asker, winner.responder)
        \/ /\ ~Readable(db, request) /\ known = {}
           /\ ResolveStored(db, e) = PlainReply(e.body)
    <3>1. ResolveStored(db, e).decision = "append"
      BY <2>1, <2>2
    <3>2. ResolveStored(db, e) # Rejected("mismatch")
      BY <3>1 DEF Rejected
    <3> QED
      BY <2>4, <2>5, <3>2 DEF ResolveStored
  <2>7. \/ /\ request \in AskIds(db) /\ ResolveStored(db, e) = Candidate(db, e, asker, responder)
        \/ /\ request \notin AskIds(db) /\ ResolveStored(db, e) = PlainReply(e.body)
    <3>1. request \in AskIds(db) <=> parent.body.kind = "ask"
      BY <2>3, <2>4 DEF AskIds
    <3>2. CASE Readable(db, request)
      BY <2>6, <3>1, <3>2
    <3>3. CASE ~Readable(db, request) /\ known # {}
      <4>1. winner \in known
        BY <2>5, <3>3, Zenon
      <4>2. request \in AskIds(db)
        BY <2>5, <4>1 DEF Decided, ResolutionOf
      <4>3. EndingIds(db, request) # {}
        BY <2>5, <3>3, <4>2 DEF Decided
      <4>4. PICK r : InForce(db, request, r)
        BY <4>2, <4>3 DEF Decided
      <4>5. winner.asker = asker /\ winner.responder = responder
        BY <2>4, <2>5, <4>1, <4>4 DEF InForce
      <4> QED
        BY <2>6, <3>3, <4>2, <4>5
    <3>4. CASE ~Readable(db, request) /\ known = {}
      <4>1. request \notin AskIds(db)
        <5> SUFFICES ASSUME request \in AskIds(db) PROVE FALSE
          OBVIOUS
        <5>1. StoredAt(db, request).cleaned
          BY <2>2, <2>4, <3>1, <3>4 DEF Readable
        <5>2. PICK r : InForce(db, request, r)
          BY <5>1 DEF Decided
        <5> QED
          BY <2>5, <3>4, <5>2 DEF InForce
      <4> QED
        BY <2>6, <3>4, <4>1
    <3> QED
      BY <3>2, <3>3, <3>4
  <2>8. \A ask : Ends(e.body, ask, StoredAt(db, ask).event.body) => ask = request
    BY DEF Ends
  <2>9. CASE request \notin AskIds(db)
    <3>1. Admit(db, e) = PlainReply(e.body)
      BY <2>1, <2>2, <2>7, <2>9
    <3>2. change = Nothing
      BY <3>1 DEF PlainReply, Admitted, Rejected
    <3> QED
      BY <1>4, <2>3, <2>8, <2>9, <3>2 DEF Nothing, EndingKinds
  <2>10. CASE request \in AskIds(db)
    <3>1. Admit(db, e) = Candidate(db, e, asker, responder)
      BY <2>1, <2>2, <2>7, <2>10
    <3>2. Authorized(e.body, asker, responder) <=> Ends(e.body, request, StoredAt(db, request).event.body)
      BY <1>4, <2>4, <2>5 DEF Authorized, Ends
    <3>3. CASE ~Authorized(e.body, asker, responder)
      <4>1. Admit(db, e) = PlainReply(e.body)
        BY <3>1, <3>3 DEF Candidate
      <4>2. change = Nothing
        BY <4>1 DEF PlainReply, Admitted, Rejected
      <4> QED
        BY <1>4, <2>3, <2>8, <3>2, <3>3, <4>2 DEF Nothing, EndingKinds
    <3>4. CASE Authorized(e.body, asker, responder)
      <4>1. PICK r : r = [request |-> request, event |-> Id(e), clock |-> e.clock, ending |-> e.body.kind,
                          asker |-> asker, responder |-> responder]
        OBVIOUS
      <4>2. PICK wins \in BOOLEAN : wins <=> \A k \in ResolutionOf(db, request) : Precedes(r, k)
        OBVIOUS
      <4>3. change = [kind |-> "resolution", resolution |-> r,
                      wins |-> \A k \in ResolutionOf(db, request) : Precedes(r, k)]
        BY <3>1, <3>4, <4>1 DEF Candidate, Admitted
      <4>4. change.kind = "resolution" /\ change.resolution = r
            /\ (change.wins <=> \A k \in ResolutionOf(db, request) : Precedes(r, k))
        BY <4>3
      <4> QED
        BY <1>4, <2>3, <2>4, <2>5, <2>10, <3>2, <3>4, <4>1, <4>4 DEF EndingKinds
    <3> QED
      BY <3>3, <3>4
  <2> QED
    BY <2>9, <2>10
<1>5. CASE e.body.kind = "turn_started"
  <2>1. Admit(db, e) = Started(db, e)
    BY <1>1, <1>5 DEF Change, EndingKinds
  <2>2. Holds(db, request) /\ change.kind \in {"nothing", "started"}
    <3>1. Holds(db, request)
      <4> SUFFICES ASSUME ~Holds(db, request) PROVE FALSE
        OBVIOUS
      <4>1. Started(db, e) = Rejected("missing_dependency")
        BY DEF Started, Readable
      <4> QED
        BY <2>1, <4>1 DEF Rejected
    <3>2. Started(db, e) \in {Rejected("mismatch"), Admitted(Nothing), Admitted([kind |-> "started", request |-> request])}
      BY <3>1, Zenon DEF Started
    <3> QED
      BY <2>1, <3>1, <3>2 DEF Rejected, Admitted, Nothing
  <2>3. request \in StoredIds(db)
    BY <1>0, <1>2, <1>5, <2>2, StoredIdFacts DEF RequestKinds
  <2> QED
    BY <1>5, <2>2, <2>3 DEF Ends, EndingKinds
<1>6. CASE e.body.kind \notin RequestKinds
  <2>1. e.body.kind \notin EndingKinds \cup {"reply"} /\ e.body.kind # "turn_started"
    BY <1>6 DEF RequestKinds
  <2>2. change.kind = IF e.body.kind \in {"omitted", "send"} THEN "nothing" ELSE e.body.kind
    BY <1>1, <2>1 DEF Change, Admitted, Nothing
  <2>3. \A ask : ~Ends(e.body, ask, StoredAt(db, ask).event.body)
    BY <2>1 DEF Ends
  <2>4. change.kind # "resolution" /\ (change.kind = "ask" <=> e.body.kind = "ask")
    BY <1>2, <1>6, <2>2 DEF PublicKinds
  <2> QED
    BY <1>3, <1>6, <2>3, <2>4
<1> QED
  BY <1>4, <1>5, <1>6 DEF RequestKinds

\* What one more event means for the asks and endings that are stored.
LEMMA AppendedAsks ==
  ASSUME NEW db, Even(db), Decided(db), NEW e \in Events, NEW other, Appended(db, e, other),
         NEW request, request = e.body.request, request # NoRequest => request \in StoredIds(db)
  PROVE  /\ \A id \in StoredIds(db) : Stamp(other, id) = Stamp(db, id)
         /\ AskIds(other) = AskIds(db) \cup (IF e.body.kind = "ask" THEN {Id(e)} ELSE {})
         /\ Id(e) \notin AskIds(db)
         /\ \A ask \in AskIds(db) :
              EndingIds(other, ask) = EndingIds(db, ask) \cup
                (IF Ends(e.body, ask, StoredAt(db, ask).event.body) THEN {Id(e)} ELSE {})
         /\ EndingIds(other, Id(e)) = {}
         /\ \A id \in StoredIds(other) :
              StoredAt(other, id).event.body.request # NoRequest => StoredAt(other, id).event.body.request \in StoredIds(db)
<1>1. Id(e) \in EventIds /\ NoRequest # Id(e)
  <2>1. Id(e) \in EventIds
    BY BodyFields
  <2> QED
    BY <2>1 DEF Id, NoRequest
<1>2. PICK x : x = Id(e)
  OBVIOUS
<1>3. /\ StoredIds(other) = StoredIds(db) \cup {x} /\ x \notin StoredIds(db)
      /\ \A id \in StoredIds(db) : StoredAt(other, id) = StoredAt(db, id)
      /\ StoredAt(other, x).event = e
  BY <1>2 DEF Appended
<1>4. \A id \in StoredIds(db) : Stamp(other, id) = Stamp(db, id)
  BY <1>3 DEF Stamp
<1>5. AskIds(other) = AskIds(db) \cup (IF e.body.kind = "ask" THEN {x} ELSE {}) /\ x \notin AskIds(db)
  BY <1>3 DEF AskIds
<1>6. ASSUME NEW ask \in AskIds(db)
      PROVE  EndingIds(other, ask) = EndingIds(db, ask) \cup
               (IF Ends(e.body, ask, StoredAt(db, ask).event.body) THEN {x} ELSE {})
  <2>1. StoredAt(other, ask) = StoredAt(db, ask)
    BY <1>3 DEF AskIds
  <2>2. PICK b : b = StoredAt(db, ask).event.body
    OBVIOUS
  <2>3. EndingIds(other, ask) = {id \in StoredIds(other) : Ends(StoredAt(other, id).event.body, ask, b)}
    BY <2>1, <2>2 DEF EndingIds
  <2>4. EndingIds(db, ask) = {id \in StoredIds(db) : Ends(StoredAt(db, id).event.body, ask, b)}
    BY <2>2 DEF EndingIds
  <2> QED
    BY <1>3, <2>2, <2>3, <2>4
<1>7. \A id \in StoredIds(other) :
        StoredAt(other, id).event.body.request # NoRequest => StoredAt(other, id).event.body.request \in StoredIds(db)
  BY <1>3 DEF Decided
<1>8. EndingIds(other, x) = {}
  BY <1>1, <1>2, <1>3, <1>7 DEF EndingIds, Ends
<1> QED
  BY <1>2, <1>4, <1>5, <1>6, <1>7, <1>8

\* An ending stays in force while nothing new ends its ask.
LEMMA ForceStays ==
  ASSUME NEW db, NEW e, NEW other, Appended(db, e, other), NEW ask \in AskIds(db), NEW r, InForce(db, ask, r),
         EndingIds(other, ask) = EndingIds(db, ask), ResolutionOf(other, ask) = ResolutionOf(db, ask)
  PROVE  InForce(other, ask, r)
<1>1. \A id \in StoredIds(db) : StoredAt(other, id) = StoredAt(db, id) /\ Stamp(other, id) = Stamp(db, id)
  BY DEF Appended, Stamp
<1>2. EndingIds(db, ask) \subseteq StoredIds(db) /\ ask \in StoredIds(db)
  BY DEF EndingIds, AskIds
<1> QED
  BY <1>1, <1>2 DEF InForce

\* The resolution and the time of an ending in force.
LEMMA ForceTyped ==
  ASSUME NEW db \in Databases, NEW ask \in AskIds(db), NEW r, InForce(db, ask, r)
  PROVE  /\ r \in db.resolutions /\ r.request = ask /\ r.event \in StoredIds(db) /\ r.event \in EventIds /\ r.clock \in Nat
         /\ \A s : s.event = r.event /\ s.clock = r.clock =>
              \A t : (Precedes(s, t) <=> Precedes(r, t)) /\ (Precedes(t, s) <=> Precedes(t, r))
         /\ Stamp(db, r.event).event = r.event /\ Stamp(db, r.event).clock = r.clock
<1>1. r \in ResolutionOf(db, ask) /\ r.event \in StoredIds(db)
  BY DEF InForce, EndingIds
<1>2. r \in db.resolutions /\ r.request = ask
  BY <1>1 DEF ResolutionOf
<1>3. r.event \in EventIds
  BY <1>1, StoredIdFacts
<1>4. r.clock \in Nat
  BY <1>2 DEF Databases, Resolutions
<1> QED
  BY <1>1, <1>2, <1>3, <1>4 DEF Precedes, Stamp, InForce

\* A candidate that precedes the ending in force takes its place.
LEMMA CandidateWins ==
  ASSUME NEW db \in Databases, Decided(db), NEW e \in Events, NEW other, Appended(db, e, other),
         NEW ask \in AskIds(db), NEW r,
         r.event = Id(e), r.clock = e.clock,
         r.asker = StoredAt(db, ask).event.body.author, r.responder = StoredAt(db, ask).event.body.responder,
         EndingIds(other, ask) = EndingIds(db, ask) \cup {Id(e)}, ResolutionOf(other, ask) = {r},
         \A known \in ResolutionOf(db, ask) : Precedes(r, known)
  PROVE  InForce(other, ask, r)
<1>1. /\ \A id \in StoredIds(db) : StoredAt(other, id) = StoredAt(db, id) /\ Stamp(other, id) = Stamp(db, id)
      /\ StoredAt(other, Id(e)).event = e /\ Id(e) \notin StoredIds(db)
      /\ Stamp(other, Id(e)).clock = e.clock /\ Stamp(other, Id(e)).event = Id(e)
  BY DEF Appended, Stamp
<1>2. EndingIds(db, ask) \subseteq StoredIds(db) /\ ask \in StoredIds(db)
  BY DEF EndingIds, AskIds
<1>3. r.event \in EventIds /\ r.clock \in Nat
  BY BodyFields
<1>4. ASSUME NEW id \in EndingIds(db, ask)
      PROVE  Precedes(Stamp(other, Id(e)), Stamp(other, id))
  <2>1. PICK k : InForce(db, ask, k)
    BY <1>4 DEF Decided
  <2>2. /\ k.event \in EventIds /\ k.clock \in Nat /\ Precedes(r, k)
        /\ Stamp(db, k.event).event = k.event /\ Stamp(db, k.event).clock = k.clock
    BY <2>1, ForceTyped DEF InForce
  <2>3. PICK s : s = Stamp(other, id) /\ s = Stamp(db, id)
    BY <1>1, <1>2, <1>4
  <2>4. s.event = id /\ s.event \in EventIds /\ s.clock \in Nat
    <3>1. id \in EventIds /\ StoredAt(db, id).event.clock \in Nat
      BY <1>2, <1>4, StoredIdFacts, BodyFields
    <3> QED
      BY <2>3, <3>1 DEF Stamp
  <2>5. Precedes(r, s)
    <3>1. CASE id = k.event
      BY <2>2, <2>3, <3>1 DEF Precedes
    <3>2. CASE id # k.event
      <4>1. Precedes(Stamp(db, k.event), s)
        BY <1>4, <2>1, <2>3, <3>2 DEF InForce
      <4>2. Precedes(k, s)
        BY <2>2, <4>1 DEF Precedes
      <4> QED
        BY <1>3, <2>2, <2>4, <4>2, DisplayOrder
    <3> QED
      BY <3>1, <3>2
  <2> QED
    BY <1>1, <2>3, <2>5 DEF Precedes
<1> QED
  BY <1>1, <1>2, <1>4 DEF InForce

\* A candidate that does not precede the ending in force comes after it.
LEMMA CandidateLoses ==
  ASSUME NEW db \in Databases, Decided(db), NEW e \in Events, NEW other, Appended(db, e, other),
         NEW ask \in AskIds(db), NEW r, r.event = Id(e), r.clock = e.clock,
         EndingIds(other, ask) = EndingIds(db, ask) \cup {Id(e)}, ResolutionOf(other, ask) = ResolutionOf(db, ask),
         ~ \A known \in ResolutionOf(db, ask) : Precedes(r, known)
  PROVE  \E k : InForce(db, ask, k) /\ InForce(other, ask, k)
<1>1. /\ \A id \in StoredIds(db) : StoredAt(other, id) = StoredAt(db, id) /\ Stamp(other, id) = Stamp(db, id)
      /\ StoredAt(other, Id(e)).event = e /\ Id(e) \notin StoredIds(db)
      /\ Stamp(other, Id(e)).clock = e.clock /\ Stamp(other, Id(e)).event = Id(e)
  BY DEF Appended, Stamp
<1>2. EndingIds(db, ask) \subseteq StoredIds(db) /\ ask \in StoredIds(db)
  BY DEF EndingIds, AskIds
<1>3. PICK k : InForce(db, ask, k)
  BY DEF Decided
<1>4. ~Precedes(r, k)
  BY <1>3 DEF InForce
<1>5. /\ k.event \in StoredIds(db) /\ k.event \in EventIds /\ k.clock \in Nat
      /\ Stamp(db, k.event).event = k.event /\ Stamp(db, k.event).clock = k.clock
  BY <1>3, ForceTyped
<1>6. r.event \in EventIds /\ r.clock \in Nat /\ r.event # k.event
  BY <1>1, <1>5, BodyFields
<1>7. Precedes(k, r)
  BY <1>4, <1>5, <1>6, DisplayOrder
<1>8. Precedes(Stamp(other, k.event), Stamp(other, Id(e)))
  BY <1>1, <1>5, <1>7 DEF Precedes
<1>9. InForce(other, ask, k)
  BY <1>1, <1>2, <1>3, <1>5, <1>8 DEF InForce
<1> QED
  BY <1>3, <1>9

\* An admitted event keeps the tables of asks and endings right.
LEMMA CommitDecides ==
  ASSUME NEW db, Even(db), Decided(db), NEW e \in Events, Admit(db, e).decision = "append"
  PROVE  LET other == Commit(db, e, Admit(db, e).change) IN
         Even(other) /\ Decided(other) /\ EndingsKept(db, other)
<1>0. db \in Databases
  BY DEF Even
<1>1. PICK change, request : change = Admit(db, e).change /\ request = e.body.request
  OBVIOUS
<1>2. change \in Changes
  BY <1>0, <1>1, AdmitType DEF Verdicts
<1>3. PICK N : /\ N = Commit(db, e, change)
               /\ change.kind = "ask" => N.open = db.open \cup {Id(e)} /\ N.resolutions = db.resolutions
               /\ change.kind = "resolution" /\ change.wins =>
                    /\ N.open = db.open \ {change.resolution.request}
                    /\ N.resolutions = {r \in db.resolutions : r.request # change.resolution.request} \cup {change.resolution}
               /\ change.kind # "ask" /\ ~(change.kind = "resolution" /\ change.wins) =>
                    N.open = db.open /\ N.resolutions = db.resolutions
  BY <1>0, <1>2, CommitTables
<1>4. Even(N) /\ Appended(db, e, N)
  BY <1>2, <1>3, CommitAppends
<1>5. /\ request # NoRequest => request \in StoredIds(db)
      /\ change.kind = "ask" <=> e.body.kind = "ask"
      /\ change.kind = "resolution" =>
           /\ request \in AskIds(db) /\ Ends(e.body, request, StoredAt(db, request).event.body)
           /\ change.resolution =
                [request |-> request, event |-> Id(e), clock |-> e.clock, ending |-> e.body.kind,
                 asker |-> StoredAt(db, request).event.body.author,
                 responder |-> StoredAt(db, request).event.body.responder]
           /\ change.wins <=> \A known \in ResolutionOf(db, request) : Precedes(change.resolution, known)
      /\ \A ask \in AskIds(db) :
           Ends(e.body, ask, StoredAt(db, ask).event.body) => change.kind = "resolution"
  BY <1>1, AdmittedChange
<1>6. /\ AskIds(N) = AskIds(db) \cup (IF e.body.kind = "ask" THEN {Id(e)} ELSE {})
      /\ Id(e) \notin AskIds(db)
      /\ \A ask \in AskIds(db) :
           EndingIds(N, ask) = EndingIds(db, ask) \cup
             (IF Ends(e.body, ask, StoredAt(db, ask).event.body) THEN {Id(e)} ELSE {})
      /\ EndingIds(N, Id(e)) = {}
      /\ \A id \in StoredIds(N) :
           StoredAt(N, id).event.body.request # NoRequest => StoredAt(N, id).event.body.request \in StoredIds(db)
  BY <1>1, <1>4, <1>5, AppendedAsks
<1>7. /\ StoredIds(N) = StoredIds(db) \cup {Id(e)} /\ ~StoredAt(N, Id(e)).cleaned
      /\ \A ask \in AskIds(db) : StoredAt(N, ask) = StoredAt(db, ask)
  BY <1>4 DEF Appended, AskIds
<1>8. \A id \in StoredIds(N) :
        StoredAt(N, id).event.body.request # NoRequest => StoredAt(N, id).event.body.request \in StoredIds(N)
  BY <1>6, <1>7
<1>9. \A ask \in AskIds(N) : StoredAt(N, ask).cleaned => EndingIds(N, ask) # {}
  BY <1>6, <1>7 DEF Decided
<1>10. /\ db.open = {id \in AskIds(db) : EndingIds(db, id) = {}}
       /\ \A ask \in AskIds(db) : EndingIds(db, ask) = {} => ResolutionOf(db, ask) = {}
       /\ \A ask \in AskIds(db) : EndingIds(db, ask) # {} => \E r : InForce(db, ask, r)
       /\ \A r \in db.resolutions : r.request \in AskIds(db)
  BY DEF Decided
<1>11. CASE change.kind = "ask"
  <2>1. /\ N.open = db.open \cup {Id(e)} /\ N.resolutions = db.resolutions
        /\ AskIds(N) = AskIds(db) \cup {Id(e)}
        /\ \A ask \in AskIds(db) : EndingIds(N, ask) = EndingIds(db, ask)
    <3>1. N.open = db.open \cup {Id(e)} /\ N.resolutions = db.resolutions
      BY <1>3, <1>11
    <3>2. e.body.kind = "ask" /\ \A ask \in AskIds(db) : ~Ends(e.body, ask, StoredAt(db, ask).event.body)
      BY <1>5, <1>11
    <3> QED
      BY <1>6, <3>1, <3>2
  <2>2. \A ask : ResolutionOf(N, ask) = ResolutionOf(db, ask)
    BY <2>1 DEF ResolutionOf
  <2>3. ResolutionOf(N, Id(e)) = {}
    BY <1>6, <1>10, <2>2 DEF ResolutionOf
  <2>4. N.open = {id \in AskIds(N) : EndingIds(N, id) = {}}
    BY <1>6, <1>10, <2>1
  <2>5. \A ask \in AskIds(N) : EndingIds(N, ask) = {} => ResolutionOf(N, ask) = {}
    BY <1>10, <2>1, <2>2, <2>3
  <2>6. \A ask \in AskIds(N) : EndingIds(N, ask) # {} => \E r : InForce(N, ask, r)
    <3> SUFFICES ASSUME NEW ask \in AskIds(N), EndingIds(N, ask) # {} PROVE \E r : InForce(N, ask, r)
      OBVIOUS
    <3>1. ask \in AskIds(db)
      BY <1>6, <2>1
    <3>2. PICK r : InForce(db, ask, r)
      BY <1>10, <2>1, <3>1
    <3>3. InForce(N, ask, r)
      BY <1>4, <2>1, <2>2, <3>1, <3>2, ForceStays
    <3> QED
      BY <3>3
  <2>7. EndingsKept(db, N) /\ \A r \in N.resolutions : r.request \in AskIds(N)
    BY <1>10, <2>1 DEF EndingsKept
  <2> QED
    BY <1>1, <1>3, <1>4, <1>8, <1>9, <2>4, <2>5, <2>6, <2>7 DEF Decided
<1>12. CASE change.kind \notin {"ask", "resolution"}
  <2>1. /\ N.open = db.open /\ N.resolutions = db.resolutions
        /\ AskIds(N) = AskIds(db)
        /\ \A ask \in AskIds(db) : EndingIds(N, ask) = EndingIds(db, ask)
    BY <1>3, <1>5, <1>6, <1>12
  <2>2. \A ask : ResolutionOf(N, ask) = ResolutionOf(db, ask)
    BY <2>1 DEF ResolutionOf
  <2>3. \A ask \in AskIds(N) : EndingIds(N, ask) # {} => \E r : InForce(N, ask, r)
    <3> SUFFICES ASSUME NEW ask \in AskIds(db), EndingIds(db, ask) # {} PROVE \E r : InForce(N, ask, r)
      BY <2>1
    <3>1. PICK r : InForce(db, ask, r)
      BY <1>10
    <3>2. InForce(N, ask, r)
      BY <1>4, <2>1, <2>2, <3>1, ForceStays
    <3> QED
      BY <3>2
  <2>4. EndingsKept(db, N)
    BY <2>1 DEF EndingsKept
  <2>5. N.open = {id \in AskIds(N) : EndingIds(N, id) = {}}
    BY <1>10, <2>1
  <2> QED
    BY <1>1, <1>3, <1>4, <1>8, <1>9, <1>10, <2>1, <2>2, <2>3, <2>4, <2>5 DEF Decided
<1>13. CASE change.kind = "resolution"
  <2>1. PICK r : r = change.resolution
    OBVIOUS
  <2>2. /\ request \in AskIds(db) /\ Ends(e.body, request, StoredAt(db, request).event.body)
        /\ r.request = request /\ r.event = Id(e) /\ r.clock = e.clock
        /\ r.asker = StoredAt(db, request).event.body.author
        /\ r.responder = StoredAt(db, request).event.body.responder
        /\ change.wins <=> \A known \in ResolutionOf(db, request) : Precedes(r, known)
    BY <1>5, <1>13, <2>1
  <2>3. AskIds(N) = AskIds(db)
    BY <1>5, <1>6, <1>13
  <2>4. /\ EndingIds(N, request) = EndingIds(db, request) \cup {Id(e)}
        /\ \A ask \in AskIds(db) \ {request} : EndingIds(N, ask) = EndingIds(db, ask)
    <3>1. \A ask \in AskIds(db) \ {request} : ~Ends(e.body, ask, StoredAt(db, ask).event.body)
      BY <1>1 DEF Ends
    <3>2. EndingIds(N, request) = EndingIds(db, request) \cup {Id(e)}
      BY <1>6, <2>2
    <3>3. ASSUME NEW ask \in AskIds(db) \ {request} PROVE EndingIds(N, ask) = EndingIds(db, ask)
      BY <1>6, <3>1
    <3> QED
      BY <3>2, <3>3
  <2>5. \A ask \in AskIds(db) \ {request} : ResolutionOf(N, ask) = ResolutionOf(db, ask)
    <3>1. CASE change.wins
      BY <1>3, <1>13, <2>1, <2>2, <3>1 DEF ResolutionOf
    <3>2. CASE ~change.wins
      BY <1>3, <1>13, <3>2 DEF ResolutionOf
    <3> QED
      BY <3>1, <3>2
  <2>6. \A ask \in AskIds(db) \ {request} : EndingIds(N, ask) # {} => \E k : InForce(N, ask, k)
    <3> SUFFICES ASSUME NEW ask \in AskIds(db) \ {request}, EndingIds(db, ask) # {} PROVE \E k : InForce(N, ask, k)
      BY <2>4
    <3>1. PICK k : InForce(db, ask, k)
      BY <1>10
    <3>2. InForce(N, ask, k)
      BY <1>4, <2>4, <2>5, <3>1, ForceStays
    <3> QED
      BY <3>2
  <2>7. CASE change.wins
    <3>1. /\ N.open = db.open \ {request}
          /\ N.resolutions = {k \in db.resolutions : k.request # request} \cup {r}
      BY <1>3, <1>13, <2>1, <2>2, <2>7
    <3>2. ResolutionOf(N, request) = {r}
      BY <2>2, <3>1 DEF ResolutionOf
    <3>3. \A known \in ResolutionOf(db, request) : Precedes(r, known)
      BY <2>2, <2>7
    <3>4. InForce(N, request, r)
      BY <1>0, <1>4, <2>2, <2>4, <3>2, <3>3, CandidateWins
    <3>5. EndingsKept(db, N)
      BY <2>2, <3>1, <3>3 DEF EndingsKept, ResolutionOf
    <3>6. N.open = {id \in AskIds(N) : EndingIds(N, id) = {}}
      BY <1>10, <2>3, <2>4, <3>1
    <3>7. \A k \in N.resolutions : k.request \in AskIds(N)
      BY <1>10, <2>2, <2>3, <3>1
    <3>8. \A ask \in AskIds(N) : EndingIds(N, ask) = {} => ResolutionOf(N, ask) = {}
      BY <1>10, <2>3, <2>4, <2>5
    <3>9. \A ask \in AskIds(N) : EndingIds(N, ask) # {} => \E k : InForce(N, ask, k)
      BY <2>3, <2>6, <3>4
    <3> QED
      BY <1>1, <1>3, <1>4, <1>8, <1>9, <3>5, <3>6, <3>7, <3>8, <3>9 DEF Decided
  <2>8. CASE ~change.wins
    <3>1. N.open = db.open /\ N.resolutions = db.resolutions
      BY <1>3, <1>13, <2>8
    <3>2. ResolutionOf(N, request) = ResolutionOf(db, request)
      BY <3>1 DEF ResolutionOf
    <3>3. ~ \A known \in ResolutionOf(db, request) : Precedes(r, known)
      BY <2>2, <2>8
    <3>4. PICK k : InForce(db, request, k) /\ InForce(N, request, k)
      BY <1>0, <1>4, <2>2, <2>4, <3>2, <3>3, CandidateLoses
    <3>5. EndingsKept(db, N)
      BY <3>1 DEF EndingsKept
    <3>6. EndingIds(db, request) # {}
      BY <3>4 DEF InForce
    <3>7. N.open = {id \in AskIds(N) : EndingIds(N, id) = {}}
      BY <1>10, <2>3, <2>4, <3>1, <3>6
    <3>8. \A x \in N.resolutions : x.request \in AskIds(N)
      BY <1>10, <2>3, <3>1
    <3>9. \A ask \in AskIds(N) : EndingIds(N, ask) = {} => ResolutionOf(N, ask) = {}
      BY <1>10, <2>3, <2>4, <2>5
    <3>10. \A ask \in AskIds(N) : EndingIds(N, ask) # {} => \E x : InForce(N, ask, x)
      BY <2>3, <2>6, <3>4
    <3> QED
      BY <1>1, <1>3, <1>4, <1>8, <1>9, <3>5, <3>7, <3>8, <3>9, <3>10 DEF Decided
  <2> QED
    BY <2>7, <2>8
<1> QED
  BY <1>11, <1>12, <1>13

\* Replacing endings by earlier ones twice is replacing them by earlier ones.
LEMMA KeptTwice ==
  ASSUME NEW db \in Databases, NEW one \in Databases, NEW two \in Databases,
         EndingsKept(db, one), EndingsKept(one, two)
  PROVE  EndingsKept(db, two)
<1> SUFFICES ASSUME NEW r \in db.resolutions
             PROVE  \E q \in two.resolutions : q.request = r.request /\ (q = r \/ Precedes(q, r))
  BY DEF EndingsKept
<1>1. PICK k \in one.resolutions : k.request = r.request /\ (k = r \/ Precedes(k, r))
  BY DEF EndingsKept
<1>2. PICK q \in two.resolutions : q.request = k.request /\ (q = k \/ Precedes(q, k))
  BY DEF EndingsKept
<1>3. r \in Resolutions /\ k \in Resolutions /\ q \in Resolutions
  BY DEF Databases
<1>4. \A x \in Resolutions : x.clock \in Nat /\ x.event \in EventIds
  BY DEF Resolutions
<1>5. Precedes(q, k) /\ Precedes(k, r) => Precedes(q, r)
  BY <1>3, <1>4, DisplayOrder
<1> QED
  BY <1>1, <1>2, <1>5

\* The machine writes an event.
LEMMA AuthorDecides ==
  ASSUME NEW db, Even(db), Decided(db), NEW priority, NEW body \in Bodies, CanAuthor(db, priority, body)
  PROVE  Even(Author(db, body)) /\ Decided(Author(db, body)) /\ EndingsKept(db, Author(db, body))
<1>1. PICK e : e = NextEvent(db, body)
  OBVIOUS
<1>2. e \in Events /\ Admit(db, e).decision = "append"
  BY <1>1, NextEventType DEF CanAuthor, Even
<1> QED
  BY <1>1, <1>2, CommitDecides DEF Author

\* A batch is received, event by event, up to the first that is refused.
LEMMA ReceiveDecides ==
  ASSUME NEW db, Even(db), Decided(db), NEW o, NEW events \in Seq(Events)
  PROVE  LET other == Receive(db, o, events).db IN
         Even(other) /\ Decided(other) /\ EndingsKept(db, other)
<1> DEFINE n == Len(events)
<1>1. n \in Nat
  OBVIOUS
<1>2. PICK run :
        /\ run[0] = [db |-> db, rejected |-> "none"]
        /\ \A k \in 1..n : run[k] = ReceiveNext(run[k - 1], o, events[k])
        /\ Receive(db, o, events) = run[n]
  BY <1>1, ReceiveRun, SMTT(60)
<1> DEFINE S == {k \in 0..n : /\ run[k] \in [db : Databases, rejected : Rejections]
                              /\ Even(run[k].db) /\ Decided(run[k].db) /\ EndingsKept(db, run[k].db)}
<1>3. 0 \in S
  <2>1. EndingsKept(db, db)
    BY DEF EndingsKept
  <2> QED
    BY <1>1, <1>2, <2>1 DEF Even, Rejections
<1>4. ASSUME NEW k \in 1..n, k - 1 \in S PROVE k \in S
  <2>1. events[k] \in Events /\ k \in 0..n
    BY <1>1, ElementOfSeq
  <2>2. PICK e, progress, before, verdict, after :
          /\ e = events[k] /\ progress = run[k - 1] /\ before = progress.db
          /\ verdict = Admit(before, e) /\ after = Commit(before, e, verdict.change)
    OBVIOUS
  <2>3. /\ progress \in [db : Databases, rejected : Rejections] /\ before \in Databases
        /\ Even(before) /\ Decided(before) /\ EndingsKept(db, before)
    BY <1>4, <2>2
  <2>4. run[k] = ReceiveNext(progress, o, e)
    BY <1>2, <2>2
  <2>5. \/ run[k] = progress
        \/ \E r \in Rejections : run[k] = [progress EXCEPT !.rejected = r]
        \/ verdict.decision = "append" /\ run[k] = [progress EXCEPT !.db = after]
    <3>1. verdict.decision \in {"append", "duplicate"} \cup Reasons
      BY <2>1, <2>2, <2>3, AdmitType DEF Verdicts
    <3>2. run[k] =
            IF progress.rejected # "none" THEN progress
            ELSE IF e.origin # o \/ o = before.origin
            THEN [progress EXCEPT !.rejected = "unauthorized"]
            ELSE CASE verdict.decision = "duplicate" -> progress
                   [] verdict.decision = "append" ->
                        IF before.usage < ReceivedLimit THEN [progress EXCEPT !.db = after]
                        ELSE [progress EXCEPT !.rejected = "resource_limit"]
                   [] OTHER -> [progress EXCEPT !.rejected = verdict.decision]
      BY <2>2, <2>4 DEF ReceiveNext
    <3>3. CASE verdict.decision = "append"
      BY <3>2, <3>3 DEF Rejections
    <3>4. CASE verdict.decision # "append"
      BY <3>1, <3>2, <3>4 DEF Rejections, Reasons
    <3> QED
      BY <3>3, <3>4
  <2>6. CASE run[k] = progress
    BY <2>1, <2>2, <2>3, <2>6
  <2>7. CASE \E r \in Rejections : run[k] = [progress EXCEPT !.rejected = r]
    <3>1. run[k] \in [db : Databases, rejected : Rejections] /\ run[k].db = before
      BY <2>2, <2>3, <2>7
    <3> QED
      BY <2>1, <2>3, <3>1
  <2>8. CASE verdict.decision = "append" /\ run[k] = [progress EXCEPT !.db = after]
    <3>1. Even(after) /\ Decided(after) /\ EndingsKept(before, after)
      BY <2>1, <2>2, <2>3, <2>8, CommitDecides
    <3>2. after \in Databases /\ db \in Databases
      BY <3>1 DEF Even
    <3>3. EndingsKept(db, after)
      BY <2>3, <3>1, <3>2, KeptTwice
    <3>4. run[k] \in [db : Databases, rejected : Rejections] /\ run[k].db = after
      BY <2>3, <2>8, <3>2
    <3> QED
      BY <2>1, <3>1, <3>3, <3>4
  <2> QED
    BY <2>5, <2>6, <2>7, <2>8
<1> HIDE DEF S
<1>5. n \in S
  BY <1>1, <1>3, <1>4, UpTo
<1> QED
  BY <1>2, <1>5 DEF S

\* A database with the same log and the same tables is as right.
LEMMA SameDecides ==
  ASSUME NEW db, Even(db), Decided(db), NEW other \in Databases,
         other.events = db.events, other.cursors = db.cursors,
         other.open = db.open, other.resolutions = db.resolutions,
         other.usage = db.usage, other.clock = db.clock
  PROVE  Even(other) /\ Decided(other) /\ EndingsKept(db, other)
<1>1. /\ StoredIds(other) = StoredIds(db) /\ \A id : StoredAt(other, id) = StoredAt(db, id)
      /\ \A ask : ResolutionOf(other, ask) = ResolutionOf(db, ask)
  BY DEF StoredIds, StoredAt, ResolutionOf
<1>2. /\ AskIds(other) = AskIds(db) /\ \A ask : EndingIds(other, ask) = EndingIds(db, ask)
      /\ \A id : Stamp(other, id) = Stamp(db, id)
  BY <1>1 DEF AskIds, EndingIds, Stamp
<1>3. \A ask, r : InForce(db, ask, r) => InForce(other, ask, r)
  BY <1>1, <1>2 DEF InForce
<1>4. KeptIds(other) = KeptIds(db)
  BY <1>1 DEF KeptIds
<1>5. Even(other)
  <2>1. Timed(other)
    BY DEF Even, Timed
  <2> QED
    BY <1>1, <1>4, <2>1 DEF Even
<1>6. EndingsKept(db, other)
  BY DEF EndingsKept
<1>7. Decided(other)
  BY <1>1, <1>2, <1>3 DEF Decided
<1> QED
  BY <1>5, <1>6, <1>7

\* Cleaning a conversation gives back the room of its events.
LEMMA CleanCounts ==
  ASSUME NEW db \in Databases, NEW t, db.usage = Cardinality(KeptIds(db))
  PROVE  Clean(db, t).usage = Cardinality(KeptIds(Clean(db, t))) /\ Clean(db, t).clock = db.clock
<1>1. PICK gone, N : gone = {id \in StoredIds(db) : InThread(StoredAt(db, id), t)} /\ N = Clean(db, t)
  OBVIOUS
<1>2. PICK marked : marked = [o \in Origins |-> [s \in 1..Len(db.events[o]) |->
                                IF <<o, s>> \in gone THEN [db.events[o][s] EXCEPT !.cleaned = TRUE]
                                ELSE db.events[o][s]]]
  OBVIOUS
<1>3. N = [db EXCEPT !.events = marked, !.usage = SaturatingSub(db.usage, Cardinality(gone))]
  BY <1>1, <1>2 DEF Clean
<1>4. N.events = marked /\ N.usage = SaturatingSub(db.usage, Cardinality(gone)) /\ N.clock = db.clock
  BY <1>3 DEF Databases
<1>5. \A o \in Origins : Len(N.events[o]) = Len(db.events[o])
  BY <1>1, CleanType
<1>6. StoredIds(N) = StoredIds(db)
  BY <1>5 DEF StoredIds
<1>7. ASSUME NEW id \in StoredIds(db)
      PROVE  StoredAt(N, id).cleaned <=> StoredAt(db, id).cleaned \/ id \in gone
  <2>1. /\ id[1] \in Origins /\ id[2] \in 1..Len(db.events[id[1]]) /\ id = <<id[1], id[2]>>
        /\ StoredAt(db, id) \in Stored
    BY StoredIdFacts DEF EventIds
  <2>2. StoredAt(N, id) = IF id \in gone THEN [StoredAt(db, id) EXCEPT !.cleaned = TRUE] ELSE StoredAt(db, id)
    <3>1. PICK o, s : o = id[1] /\ s = id[2]
      OBVIOUS
    <3>2. o \in Origins /\ s \in 1..Len(db.events[o]) /\ id = <<o, s>>
      BY <2>1, <3>1
    <3>3. marked[o][s] = IF <<o, s>> \in gone THEN [db.events[o][s] EXCEPT !.cleaned = TRUE] ELSE db.events[o][s]
      BY <1>2, <3>2
    <3>4. StoredAt(N, id) = marked[o][s] /\ StoredAt(db, id) = db.events[o][s]
      BY <1>4, <3>1 DEF StoredAt
    <3> QED
      BY <3>2, <3>3, <3>4
  <2> QED
    BY <2>1, <2>2 DEF Stored
<1>8. KeptIds(N) = KeptIds(db) \ gone
  BY <1>6, <1>7 DEF KeptIds
<1>9. KeptIds(db) \cap gone = gone
  BY <1>1 DEF KeptIds, InThread
<1>10. IsFiniteSet(KeptIds(db))
  BY StoredFinite, FS_Subset DEF KeptIds
<1>11. Cardinality(KeptIds(N)) = Cardinality(KeptIds(db)) - Cardinality(gone)
  BY <1>8, <1>9, <1>10, FS_Difference
<1>12. Cardinality(gone) <= Cardinality(KeptIds(db)) /\ Cardinality(gone) \in Nat
  <2>1. gone \in SUBSET KeptIds(db)
    BY <1>9
  <2> QED
    BY <1>10, <2>1, FS_Subset, FS_CardinalityType
<1>13. Cardinality(KeptIds(db)) \in Nat
  BY <1>10, FS_CardinalityType
<1> QED
  BY <1>1, <1>4, <1>11, <1>12, <1>13 DEF SaturatingSub

\* Cleaning takes a conversation away only when its asks have ended.
LEMMA CleanDecides ==
  ASSUME NEW db, Even(db), Decided(db), NEW t, Cleanable(db, t)
  PROVE  Even(Clean(db, t)) /\ Decided(Clean(db, t)) /\ EndingsKept(db, Clean(db, t))
<1>1. PICK N : N = Clean(db, t)
  OBVIOUS
<1>2. db \in Databases
  BY DEF Even
<1>3. /\ N \in Databases /\ N.cursors = db.cursors
      /\ \A o \in Origins :
           /\ Len(N.events[o]) = Len(db.events[o])
           /\ \A s \in 1..Len(db.events[o]) :
                /\ N.events[o][s].event = db.events[o][s].event
                /\ N.events[o][s].cleaned => db.events[o][s].cleaned \/ InThread(db.events[o][s], t)
  BY SMTT(30), <1>1, <1>2, CleanType
<1>4. N.open = db.open /\ N.resolutions = db.resolutions
  BY <1>1, <1>2 DEF Clean, Databases
<1>5. StoredIds(N) = StoredIds(db)
  BY <1>3 DEF StoredIds
<1>6. \A id \in StoredIds(db) :
        /\ StoredAt(N, id).event = StoredAt(db, id).event
        /\ StoredAt(N, id).cleaned => StoredAt(db, id).cleaned \/ id \notin db.open
  <2> SUFFICES ASSUME NEW id \in StoredIds(db)
               PROVE  /\ StoredAt(N, id).event = StoredAt(db, id).event
                      /\ StoredAt(N, id).cleaned => StoredAt(db, id).cleaned \/ id \notin db.open
    OBVIOUS
  <2>1. id[1] \in Origins /\ id[2] \in 1..Len(db.events[id[1]]) /\ id = <<id[1], id[2]>>
    BY <1>2, StoredIdFacts DEF EventIds
  <2>2. InThread(db.events[id[1]][id[2]], t) => id \notin db.open
    BY <2>1 DEF Cleanable
  <2> QED
    BY <1>3, <2>1, <2>2 DEF StoredAt
<1>7. \A ask : ResolutionOf(N, ask) = ResolutionOf(db, ask)
  BY <1>4 DEF ResolutionOf
<1>8. AskIds(N) = AskIds(db) /\ AskIds(db) \subseteq StoredIds(db)
  BY <1>5, <1>6 DEF AskIds
<1>9. \A ask \in AskIds(db) : EndingIds(N, ask) = EndingIds(db, ask)
  BY <1>5, <1>6, <1>8 DEF EndingIds
<1>10. ASSUME NEW ask \in AskIds(db), NEW r, InForce(db, ask, r) PROVE InForce(N, ask, r)
  <2>1. EndingIds(db, ask) \subseteq StoredIds(db) /\ \A id \in StoredIds(db) : Stamp(N, id) = Stamp(db, id)
    BY <1>6 DEF EndingIds, Stamp
  <2>2. r.event \in StoredIds(db)
    BY <1>10, <2>1 DEF InForce
  <2> QED
    BY <1>6, <1>7, <1>8, <1>9, <1>10, <2>1, <2>2 DEF InForce
<1>11. \A ask \in AskIds(db) : StoredAt(N, ask).cleaned => EndingIds(db, ask) # {}
  BY <1>6, <1>8 DEF Decided
<1>12. Even(N) /\ EndingsKept(db, N)
  <2>1. N.usage = Cardinality(KeptIds(N)) /\ N.clock = db.clock
    BY <1>1, <1>2, CleanCounts DEF Even
  <2>2. Timed(N)
    <3> SUFFICES ASSUME NEW o \in Origins
                 PROVE  /\ Len(N.events[o]) = 0 => N.cursors[o].clock = 0
                        /\ Len(N.events[o]) > 0 =>
                             N.cursors[o].clock = N.events[o][Len(N.events[o])].event.clock
                        /\ \A i, k \in 1..Len(N.events[o]) :
                             i < k => N.events[o][i].event.clock < N.events[o][k].event.clock
      BY DEF Timed
    <3>1. Len(db.events[o]) \in Nat
      BY <1>2 DEF Databases
    <3>2. Len(db.events[o]) > 0 => Len(db.events[o]) \in 1..Len(db.events[o])
      BY <3>1
    <3>3. /\ Len(db.events[o]) = 0 => db.cursors[o].clock = 0
          /\ Len(db.events[o]) > 0 => db.cursors[o].clock = db.events[o][Len(db.events[o])].event.clock
          /\ \A i, k \in 1..Len(db.events[o]) :
               i < k => db.events[o][i].event.clock < db.events[o][k].event.clock
      BY DEF Even, Timed
    <3>4. /\ N.cursors[o] = db.cursors[o] /\ Len(N.events[o]) = Len(db.events[o])
          /\ \A s \in 1..Len(db.events[o]) : N.events[o][s].event = db.events[o][s].event
      BY <1>3
    <3> QED
      BY <3>2, <3>3, <3>4
  <2> QED
    BY <1>3, <1>4, <1>5, <1>6, <2>1, <2>2 DEF Even, EndingsKept
<1>13. \A ask \in AskIds(N) : EndingIds(N, ask) # {} => \E r : InForce(N, ask, r)
  BY <1>8, <1>9, <1>10 DEF Decided
<1>14. N.open = {id \in AskIds(N) : EndingIds(N, id) = {}}
  BY <1>4, <1>8, <1>9 DEF Decided
<1>15. Decided(N)
  BY <1>4, <1>5, <1>6, <1>7, <1>8, <1>9, <1>11, <1>13, <1>14 DEF Decided
<1> QED
  BY <1>1, <1>12, <1>15

\* The machine's own events come after what they refer to.
After(db) ==
  \A id \in StoredIds(db) :
    id[1] = db.origin /\ StoredAt(db, id).event.body.request # NoRequest =>
      StoredAt(db, StoredAt(db, id).event.body.request).event.clock < StoredAt(db, id).event.clock

\* Storing what others wrote, and cleaning, leave the machine's own events alone.
LEMMA AfterKept ==
  ASSUME NEW db, Decided(db), After(db), NEW other, other.origin = db.origin,
         \A id \in StoredIds(db) : StoredAt(other, id).event = StoredAt(db, id).event,
         \A id \in StoredIds(other) : id[1] = db.origin => id \in StoredIds(db)
  PROVE  After(other)
<1> SUFFICES ASSUME NEW id \in StoredIds(other), id[1] = db.origin,
                    StoredAt(other, id).event.body.request # NoRequest
             PROVE  StoredAt(other, StoredAt(other, id).event.body.request).event.clock
                      < StoredAt(other, id).event.clock
  BY DEF After
<1>1. id \in StoredIds(db) /\ StoredAt(other, id).event = StoredAt(db, id).event
  OBVIOUS
<1>2. PICK request : request = StoredAt(db, id).event.body.request
  OBVIOUS
<1>3. request \in StoredIds(db) /\ StoredAt(db, request).event.clock < StoredAt(db, id).event.clock
  BY <1>1, <1>2 DEF Decided, After
<1>4. StoredAt(other, request).event = StoredAt(db, request).event
  BY <1>3
<1> QED
  BY <1>1, <1>2, <1>3, <1>4

\* The clock of an event is past everything its machine had stored.
LEMMA AuthorAfter ==
  ASSUME NEW db, Even(db), Decided(db), After(db), NEW priority, NEW body \in Bodies,
         CanAuthor(db, priority, body)
  PROVE  After(Author(db, body))
<1>0. db \in Databases /\ db.clock \in Nat /\ db.cursors[db.origin].clock \in Nat
  BY DEF Even, Databases, Cursors
<1>1. PICK e, N : e = NextEvent(db, body) /\ N = Author(db, body)
  OBVIOUS
<1>2. e \in Events /\ Admit(db, e).decision = "append"
  BY <1>0, <1>1, NextEventType DEF CanAuthor
<1>3. e.clock \in Nat /\ e.clock > db.clock
  BY <1>0, <1>1 DEF NextEvent, Larger
<1>4. PICK change : change = Admit(db, e).change /\ change \in Changes
  BY <1>0, <1>2, AdmitType DEF Verdicts
<1>5. Appended(db, e, N)
  <2>1. N = Commit(db, e, change)
    BY <1>1, <1>4 DEF Author
  <2> QED
    BY <1>2, <1>4, <2>1, CommitAppends
<1>6. N.origin = db.origin
  <2>1. LocalSeen(db) = Len(db.events[db.origin])
    BY <1>0 DEF Even, Databases, LocalSeen
  <2> QED
    BY <1>0, <1>1, <2>1, AuthorAuthored DEF Authored
<1>7. PICK request : request = e.body.request /\ (request # NoRequest => request \in StoredIds(db))
  BY <1>2, <1>4, AdmittedChange
<1> SUFFICES ASSUME NEW id \in StoredIds(N), id[1] = db.origin, StoredAt(N, id).event.body.request # NoRequest
             PROVE  StoredAt(N, StoredAt(N, id).event.body.request).event.clock < StoredAt(N, id).event.clock
  BY <1>1, <1>6 DEF After
<1>8. CASE id \in StoredIds(db)
  <2>1. StoredAt(N, id) = StoredAt(db, id)
    BY <1>5, <1>8 DEF Appended
  <2>2. PICK parent : parent = StoredAt(db, id).event.body.request
    OBVIOUS
  <2>3. parent \in StoredIds(db) /\ StoredAt(db, parent).event.clock < StoredAt(db, id).event.clock
    BY <1>8, <2>1, <2>2 DEF Decided, After
  <2>4. StoredAt(N, parent) = StoredAt(db, parent)
    BY <1>5, <2>3 DEF Appended
  <2> QED
    BY <2>1, <2>2, <2>3, <2>4
<1>9. CASE id = Id(e)
  <2>1. StoredAt(N, id).event = e
    BY <1>5, <1>9 DEF Appended
  <2>2. request \in StoredIds(db) /\ StoredAt(N, request) = StoredAt(db, request)
    BY <1>5, <1>7, <2>1 DEF Appended
  <2>3. StoredAt(db, request).event.clock <= db.clock /\ StoredAt(db, request).event.clock \in Nat
    <3>1. StoredAt(db, request).event \in Events
      BY <1>0, <2>2, StoredIdFacts
    <3> QED
      BY <2>2, <3>1, BodyFields DEF Even
  <2>4. StoredAt(db, request).event.clock < e.clock
    BY <1>0, <1>3, <2>3
  <2> QED
    BY <1>7, <2>1, <2>2, <2>4
<1> QED
  BY <1>5, <1>8, <1>9 DEF Appended

-----------------------------------------------------------------------------
(* What a machine's own events refer to *)

\* An event with body b continues the conversation of a message with body parent, and
\* ends or begins only an ask, in the name of an agent that may.
Grounded(b, parent) ==
  /\ parent.thread = b.thread
  /\ parent.kind # "omitted"
  /\ b.kind \in EndingKinds => parent.kind = "ask" /\ Authorized(b, parent.author, parent.responder)
  /\ b.kind = "turn_started" => parent.kind = "ask" /\ parent.responder = b.author

Grounds(db, b) == b.request # NoRequest => Grounded(b, StoredAt(db, b.request).event.body)

\* The machine's own events are grounded.
Founded(db) ==
  \A id \in StoredIds(db) : id[1] = db.origin => Grounds(db, StoredAt(db, id).event.body)

\* A database that keeps its events and has no new ones of its own stays so.
LEMMA FoundedKept ==
  ASSUME NEW db, Decided(db), Founded(db), NEW other, other.origin = db.origin,
         \A id \in StoredIds(db) : StoredAt(other, id).event = StoredAt(db, id).event,
         \A id \in StoredIds(other) : id[1] = db.origin => id \in StoredIds(db)
  PROVE  Founded(other)
<1> SUFFICES ASSUME NEW id \in StoredIds(other), id[1] = db.origin
             PROVE  Grounds(other, StoredAt(other, id).event.body)
  BY DEF Founded
<1>1. PICK b : b = StoredAt(db, id).event.body
  OBVIOUS
<1>2. id \in StoredIds(db) /\ StoredAt(other, id).event.body = b /\ Grounds(db, b)
  BY <1>1 DEF Founded
<1>3. b.request # NoRequest => StoredAt(other, b.request).event = StoredAt(db, b.request).event
  BY <1>1, <1>2 DEF Decided
<1> QED
  BY <1>2, <1>3 DEF Grounds

\* Writing a grounded event.
LEMMA AuthorFounded ==
  ASSUME NEW db, Even(db), Decided(db), Founded(db), NEW priority, NEW body \in Bodies,
         CanAuthor(db, priority, body), Grounds(db, body)
  PROVE  Founded(Author(db, body))
<1>0. db \in Databases
  BY DEF Even
<1>1. PICK e, N : e = NextEvent(db, body) /\ N = Author(db, body)
  OBVIOUS
<1>2. e \in Events /\ e.body = body /\ Admit(db, e).decision = "append"
  BY <1>0, <1>1, NextEventType DEF CanAuthor, NextEvent
<1>3. PICK change : change = Admit(db, e).change /\ change \in Changes
  BY <1>0, <1>2, AdmitType DEF Verdicts
<1>4. Appended(db, e, N)
  <2>1. N = Commit(db, e, change)
    BY <1>1, <1>3 DEF Author
  <2> QED
    BY <1>2, <1>3, <2>1, CommitAppends
<1>5. N.origin = db.origin
  <2>1. LocalSeen(db) = Len(db.events[db.origin])
    BY <1>0 DEF Even, Databases, LocalSeen
  <2> QED
    BY <1>0, <1>1, <2>1, AuthorAuthored DEF Authored
<1>6. body.request # NoRequest => body.request \in StoredIds(db)
  BY <1>2, <1>3, AdmittedChange
<1> SUFFICES ASSUME NEW id \in StoredIds(N), id[1] = db.origin
             PROVE  Grounds(N, StoredAt(N, id).event.body)
  BY <1>1, <1>5 DEF Founded
<1>7. CASE id \in StoredIds(db)
  <2>1. PICK b : b = StoredAt(db, id).event.body
    OBVIOUS
  <2>2. StoredAt(N, id).event.body = b /\ Grounds(db, b)
    BY <1>4, <1>7, <2>1 DEF Appended, Founded
  <2>3. b.request # NoRequest => StoredAt(N, b.request) = StoredAt(db, b.request)
    BY <1>4, <1>7, <2>1 DEF Appended, Decided
  <2> QED
    BY <2>2, <2>3 DEF Grounds
<1>8. CASE id = Id(e)
  <2>1. StoredAt(N, id).event.body = body
    BY <1>2, <1>4, <1>8 DEF Appended
  <2>2. body.request # NoRequest => StoredAt(N, body.request) = StoredAt(db, body.request)
    BY <1>4, <1>6 DEF Appended
  <2> QED
    BY <2>1, <2>2 DEF Grounds
<1> QED
  BY <1>4, <1>7, <1>8 DEF Appended

\* A grounded event is never refused for what it says: whatever was cleaned or ended
\* here in between, it is admitted once the message it is about is stored.
LEMMA GroundedAdmits ==
  ASSUME NEW db, Even(db), Decided(db), NEW e \in Events, e.body.kind \in RequestKinds,
         NEW request, request = e.body.request, Holds(db, request),
         NEW parent, parent = StoredAt(db, request).event,
         Grounded(e.body, parent.body), parent.clock < e.clock
  PROVE  Change(db, e).decision = "append"
<1>0. db \in Databases /\ request \in EventIds
  BY BodyFields DEF Even
<1>1. request \in StoredIds(db)
  BY <1>0, StoredIdFacts
<1>2. parent.clock \in Nat /\ e.clock \in Nat
  BY <1>0, <1>1, StoredIdFacts, BodyFields
<1>3. SameThread(e, parent)
  BY <1>2 DEF Grounded, SameThread
<1>4. parent.body.kind = "ask" <=> request \in AskIds(db)
  BY <1>1 DEF AskIds
<1>5. CASE e.body.kind = "turn_started"
  <2>1. Change(db, e) = Started(db, e)
    BY <1>5 DEF Change, EndingKinds
  <2>2. CASE Readable(db, request)
    <3>1. parent.body.kind = "ask" /\ parent.body.responder = e.body.author
      BY <1>5 DEF Grounded
    <3>2. Started(db, e) = Admitted([kind |-> "started", request |-> request])
      BY <1>3, <2>2, <3>1 DEF Started
    <3> QED
      BY <2>1, <3>2 DEF Admitted
  <2>3. CASE ~Readable(db, request)
    <3>1. Started(db, e) = Admitted(Nothing)
      BY <2>3 DEF Started
    <3> QED
      BY <2>1, <3>1 DEF Admitted
  <2> QED
    BY <2>2, <2>3
<1>6. CASE e.body.kind \in EndingKinds \cup {"reply"}
  <2>1. Change(db, e) = ResolveStored(db, e)
    BY <1>6 DEF Change, Resolve, EndingKinds
  <2>2. PICK asker, responder, known, winner :
          /\ asker = parent.body.author /\ responder = parent.body.responder
          /\ known = ResolutionOf(db, request) /\ winner = CHOOSE r \in known : TRUE
    OBVIOUS
  <2>3. e.body.kind = "reply" => PlainReply(e.body).decision = "append"
    BY DEF PlainReply, Admitted
  <2>4. Candidate(db, e, asker, responder).decision = "append"
    <3>1. CASE Authorized(e.body, asker, responder)
      BY <3>1 DEF Candidate, Admitted
    <3>2. CASE ~Authorized(e.body, asker, responder)
      <4>1. e.body.kind = "reply"
        BY <1>6, <2>2, <3>2 DEF Grounded
      <4>2. Candidate(db, e, asker, responder) = PlainReply(e.body)
        BY <3>2 DEF Candidate
      <4> QED
        BY <2>3, <4>1, <4>2
    <3> QED
      BY <3>1, <3>2
  <2>5. parent.body.kind # "ask" => PlainReply(e.body).decision = "append"
    BY <1>6, <2>3 DEF Grounded
  <2>6. CASE Readable(db, request)
    <3>1. ResolveStored(db, e) = IF parent.body.kind = "ask" THEN Candidate(db, e, asker, responder)
                                 ELSE PlainReply(e.body)
      BY <1>3, <2>2, <2>6 DEF ResolveStored
    <3> QED
      BY <2>1, <2>4, <2>5, <3>1
  <2>7. CASE ~Readable(db, request) /\ known # {}
    <3>1. winner \in known
      BY <2>2, <2>7, Zenon
    <3>2. request \in AskIds(db)
      BY <2>2, <3>1 DEF Decided, ResolutionOf
    <3>3. PICK r : InForce(db, request, r)
      BY <2>2, <2>7, <3>2 DEF Decided
    <3>4. winner.asker = asker /\ winner.responder = responder
      BY <2>2, <3>1, <3>3 DEF InForce
    <3>5. ResolveStored(db, e) = Candidate(db, e, winner.asker, winner.responder)
      BY <2>2, <2>7 DEF ResolveStored
    <3> QED
      BY <2>1, <2>4, <3>4, <3>5
  <2>8. CASE ~Readable(db, request) /\ known = {}
    <3>1. parent.body.kind # "ask"
      <4> SUFFICES ASSUME parent.body.kind = "ask" PROVE FALSE
        OBVIOUS
      <4>1. StoredAt(db, request).cleaned
        BY <2>8 DEF Readable
      <4>2. PICK r : InForce(db, request, r)
        BY <1>4, <4>1 DEF Decided
      <4> QED
        BY <2>2, <2>8, <4>2 DEF InForce
    <3>2. ResolveStored(db, e) = PlainReply(e.body)
      BY <2>2, <2>8 DEF ResolveStored
    <3> QED
      BY <2>1, <2>5, <3>1, <3>2
  <2> QED
    BY <2>6, <2>7, <2>8
<1> QED
  BY <1>5, <1>6 DEF RequestKinds

\* An event about a message that is not stored waits, and any other event that is not
\* about a message is admitted.
LEMMA OthersAdmit ==
  ASSUME NEW db, NEW e \in Events
  PROVE  /\ e.body.kind \notin RequestKinds => Change(db, e).decision = "append" /\ e.body.request = NoRequest
         /\ e.body.kind \in RequestKinds /\ ~Holds(db, e.body.request) =>
              Change(db, e).decision = "missing_dependency" /\ e.body.request # NoRequest
<1>1. ASSUME e.body.kind \notin RequestKinds
      PROVE  Change(db, e).decision = "append" /\ e.body.request = NoRequest
  <2>1. e.body.request = NoRequest
    BY <1>1 DEF Events, Bodies, RequestKinds
  <2>2. e.body.kind \notin EndingKinds \cup {"reply"} /\ e.body.kind # "turn_started"
    BY <1>1 DEF RequestKinds
  <2>3. Change(db, e) \in {Admitted(Nothing), Admitted([kind |-> e.body.kind, agent |-> e.body.author])}
    BY <2>2 DEF Change
  <2> QED
    BY <2>1, <2>3 DEF Admitted
<1>2. ASSUME e.body.kind \in RequestKinds, ~Holds(db, e.body.request)
      PROVE  Change(db, e).decision = "missing_dependency" /\ e.body.request # NoRequest
  <2>1. e.body.request \in EventIds
    BY <1>2, BodyFields
  <2>2. e.body.request # NoRequest
    BY <2>1 DEF EventIds, NoRequest
  <2>3. Resolve(db, e) = Rejected("missing_dependency") /\ Started(db, e) = Rejected("missing_dependency")
    BY <1>2 DEF Resolve, Started, Readable
  <2>4. Change(db, e) \in {Resolve(db, e), Started(db, e)}
    BY <1>2 DEF Change, RequestKinds, EndingKinds
  <2> QED
    BY <2>2, <2>3, <2>4 DEF Rejected
<1> QED
  BY <1>1, <1>2

\* An ending that is admitted where its message can be read ends an ask, in the name of
\* an agent that may.
LEMMA AdmittedEnding ==
  ASSUME NEW db \in Databases, NEW e, e.body.kind \in EndingKinds, Admit(db, e).decision = "append",
         Readable(db, e.body.request)
  PROVE  Grounded(e.body, StoredAt(db, e.body.request).event.body)
<1>1. Admit(db, e) = Change(db, e)
  <2>1. Admit(db, e) \in {Duplicate, Rejected("conflict"), Rejected("gap"), Rejected("clock_regression"), Change(db, e)}
    BY Zenon DEF Admit
  <2> QED
    BY <2>1 DEF Duplicate, Rejected
<1>2. Holds(db, e.body.request)
  BY DEF Readable
<1>3. Change(db, e) = ResolveStored(db, e)
  <2>1. e.body.kind \in EndingKinds \cup {"reply"} /\ e.body.kind # "turn_started"
        /\ e.body.kind \notin {"omitted", "send"}
    BY DEF EndingKinds
  <2>2. Change(db, e) = Resolve(db, e)
    BY <2>1 DEF Change
  <2> QED
    BY <1>2, <2>2 DEF Resolve
<1>4. PICK parent : parent = StoredAt(db, e.body.request).event
  OBVIOUS
<1>5. PlainReply(e.body).decision = "mismatch"
  BY DEF PlainReply, Rejected, EndingKinds
<1>6. ResolveStored(db, e) =
        CASE ~SameThread(e, parent) -> Rejected("mismatch")
          [] SameThread(e, parent) /\ parent.body.kind = "ask" ->
               Candidate(db, e, parent.body.author, parent.body.responder)
          [] OTHER -> PlainReply(e.body)
  BY <1>4 DEF ResolveStored
<1>7. SameThread(e, parent) /\ parent.body.kind = "ask"
  BY <1>1, <1>3, <1>5, <1>6 DEF Rejected
<1>8. Authorized(e.body, parent.body.author, parent.body.responder)
  BY <1>1, <1>3, <1>5, <1>6, <1>7 DEF Candidate
<1> QED
  BY <1>4, <1>7, <1>8 DEF Grounded, SameThread, EndingKinds

=============================================================================

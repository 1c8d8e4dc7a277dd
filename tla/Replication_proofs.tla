-------------------------- MODULE Replication_proofs --------------------------
(***************************************************************************)
(* Replication keeps faithful copies, for any number of machines, agents,  *)
(* conversations and exchange rounds.                                      *)
(*                                                                         *)
(* IndInv is inductive.  A step writes events of its own machine, applies  *)
(* a batch with an acknowledgment, cleans a conversation or only changes a *)
(* round; each of the first three has a lemma that it keeps the part of    *)
(* IndInv about the databases and only grows logs, and a growing log keeps *)
(* every round sound.                                                      *)
(***************************************************************************)
EXTENDS Replication, Ledger_proofs

USE ReplicationAssumption

\* The part of IndInv about the databases.
StoreInv ==
  /\ store \in [Origins -> Databases]
  /\ Consecutive
  /\ AckSound
  /\ FaithfulCopy
  /\ CleanedAcknowledged

\* Every log keeps its events and may get more, and what is cleaned stays so.
Grows ==
  \A m, o \in Origins :
    /\ Len(store[m].events[o]) <= Len(store'[m].events[o])
    /\ \A s \in 1..Len(store[m].events[o]) :
         /\ store'[m].events[o][s].event = store[m].events[o][s].event
         /\ store[m].events[o][s].cleaned => store'[m].events[o][s].cleaned

LEMMA Chain == \A i, j, k \in Nat : i <= j /\ j <= k => i <= k
OBVIOUS

\* Types of the parts of a database.
LEMMA StoreFields ==
  ASSUME store \in [Origins -> Databases], NEW m \in Origins
  PROVE  /\ store[m] \in Databases
         /\ store[m].acks \in [Origins -> Nat]
         /\ \A o \in Origins :
              /\ store[m].events[o] \in Seq(Stored)
              /\ Len(store[m].events[o]) \in Nat
              /\ store[m].acks[o] \in Nat
              /\ store[m].cursors[o].seen \in Nat
              /\ \A s \in 1..Len(store[m].events[o]) : store[m].events[o][s].event \in Events
<1>1. store[m] \in Databases
  OBVIOUS
<1>2. /\ store[m].acks \in [Origins -> Nat] /\ store[m].cursors \in [Origins -> Cursors]
      /\ store[m].events \in [Origins -> Seq(Stored)]
  BY <1>1 DEF Databases
<1>3. ASSUME NEW o \in Origins
      PROVE  /\ store[m].events[o] \in Seq(Stored)
             /\ Len(store[m].events[o]) \in Nat
             /\ store[m].acks[o] \in Nat
             /\ store[m].cursors[o].seen \in Nat
             /\ \A s \in 1..Len(store[m].events[o]) : store[m].events[o][s].event \in Events
  <2>1. store[m].events[o] \in Seq(Stored) /\ store[m].acks[o] \in Nat
    BY <1>2
  <2>2. store[m].cursors[o].seen \in Nat
    BY <1>2 DEF Cursors
  <2>3. Len(store[m].events[o]) \in Nat
    BY <2>1, LenProperties
  <2>4. \A s \in 1..Len(store[m].events[o]) : store[m].events[o][s].event \in Events
    <3> SUFFICES ASSUME NEW s \in 1..Len(store[m].events[o])
                 PROVE  store[m].events[o][s].event \in Events
      OBVIOUS
    <3>1. store[m].events[o][s] \in Stored
      BY <2>1, ElementOfSeq
    <3> QED
      BY <3>1 DEF Stored
  <2> QED
    BY <2>1, <2>2, <2>3, <2>4
<1> QED
  BY <1>1, <1>2, <1>3

\* No peer acknowledges or copies more than a machine has written.
LEMMA WithinOriginal ==
  ASSUME StoreInv, NEW m \in Origins, NEW p \in Origins, m # p
  PROVE  /\ Len(store[p].events[m]) <= Len(store[m].events[m])
         /\ store[m].acks[p] <= Len(store[p].events[m])
         /\ store[m].acks[p] <= LocalSeen(store[m])
         /\ LocalSeen(store[m]) = Len(store[m].events[m])
<1>1. /\ Len(store[p].events[m]) \in Nat /\ Len(store[m].events[m]) \in Nat
      /\ store[m].acks[p] \in Nat
  BY StoreFields DEF StoreInv
<1>2. LocalSeen(store[m]) = Len(store[m].events[m])
  BY DEF LocalSeen, StoreInv, Consecutive
<1>3. store[m].acks[p] <= Len(store[p].events[m])
  BY DEF StoreInv, Consecutive, AckSound
<1>4. \A s \in 1..Len(store[p].events[m]) : s <= Len(store[m].events[m])
  BY DEF StoreInv, FaithfulCopy
<1>5. Len(store[p].events[m]) <= Len(store[m].events[m])
  <2> DEFINE i == Len(store[p].events[m])
             j == Len(store[m].events[m])
  <2>1. i \in Nat /\ j \in Nat /\ \A s \in 1..i : s <= j
    BY <1>1, <1>4, Zenon
  <2> HIDE DEF i, j
  <2>2. i <= j
    BY <2>1
  <2> QED
    BY <2>2 DEF i, j
<1>6. store[m].acks[p] <= Len(store[m].events[m])
  BY <1>1, <1>3, <1>5, Chain, Zenon
<1> QED
  BY <1>2, <1>3, <1>5, <1>6

-----------------------------------------------------------------------------
(* Writing *)

LEMMA AuthoredKeeps ==
  ASSUME StoreInv, NEW m \in Origins, NEW other, Authored(store[m], other),
         store' = [store EXCEPT ![m] = other]
  PROVE  StoreInv' /\ Grows
<1>1. other \in Databases /\ store[m].origin = m
  BY DEF Authored, StoreInv, Consecutive
<1>2. store' \in [Origins -> Databases]
  BY <1>1 DEF StoreInv
<1>3. /\ store'[m] = other
      /\ \A k \in Origins \ {m} : store'[k] = store[k]
  BY DEF StoreInv
<1>4. /\ other.origin = m /\ other.acks = store[m].acks
      /\ \A q \in Origins \ {m} : other.events[q] = store[m].events[q]
                                /\ other.cursors[q] = store[m].cursors[q]
      /\ other.cursors[m].seen = Len(other.events[m])
      /\ Len(store[m].events[m]) <= Len(other.events[m])
      /\ \A s \in 1..Len(store[m].events[m]) : other.events[m][s] = store[m].events[m][s]
      /\ \A s \in (Len(store[m].events[m]) + 1)..Len(other.events[m]) :
           ~other.events[m][s].cleaned /\ Id(other.events[m][s].event) = <<m, s>>
  BY <1>1 DEF Authored
<1>5. \A k, o \in Origins : Len(store[k].events[o]) \in Nat
  BY StoreFields DEF StoreInv
<1>6. \A k \in Origins : Len(other.events[k]) \in Nat
  <2>1. other.events \in [Origins -> Seq(Stored)]
    BY <1>1 DEF Databases
  <2> QED
    BY <2>1
<1>7. \A s \in 1..Len(other.events[m]) :
        \/ s \in 1..Len(store[m].events[m])
        \/ s \in (Len(store[m].events[m]) + 1)..Len(other.events[m])
  BY <1>5, <1>6
<1>8. Consecutive'
  <2> SUFFICES ASSUME NEW k \in Origins, NEW o \in Origins
               PROVE  /\ store'[k].origin = k
                      /\ store'[k].cursors[o].seen = Len(store'[k].events[o])
                      /\ \A s \in 1..Len(store'[k].events[o]) :
                           Id(store'[k].events[o][s].event) = <<o, s>>
    BY DEF Consecutive
  <2>1. CASE k # m \/ o # m
    <3>1. /\ store'[k].origin = store[k].origin
          /\ store'[k].cursors[o] = store[k].cursors[o]
          /\ store'[k].events[o] = store[k].events[o]
      BY <1>1, <1>3, <1>4, <2>1
    <3>2. /\ store[k].origin = k
          /\ store[k].cursors[o].seen = Len(store[k].events[o])
          /\ \A s \in 1..Len(store[k].events[o]) : Id(store[k].events[o][s].event) = <<o, s>>
      BY DEF StoreInv, Consecutive
    <3> QED
      BY <3>1, <3>2
  <2>2. CASE k = m /\ o = m
    <3>1. \A s \in 1..Len(store[m].events[m]) : Id(store[m].events[m][s].event) = <<m, s>>
      BY DEF StoreInv, Consecutive
    <3>2. ASSUME NEW s \in 1..Len(other.events[m])
          PROVE  Id(other.events[m][s].event) = <<m, s>>
      BY <3>1, <1>4, <1>7
    <3> QED
      BY <2>2, <3>2, <1>3, <1>4
  <2> QED
    BY <2>1, <2>2
<1>9. AckSound'
  BY <1>3, <1>4 DEF StoreInv, AckSound
<1>10. Grows
  <2> SUFFICES ASSUME NEW k \in Origins, NEW o \in Origins
               PROVE  /\ Len(store[k].events[o]) <= Len(store'[k].events[o])
                      /\ \A s \in 1..Len(store[k].events[o]) :
                           /\ store'[k].events[o][s].event = store[k].events[o][s].event
                           /\ store[k].events[o][s].cleaned => store'[k].events[o][s].cleaned
    BY DEF Grows
  <2>1. CASE k # m \/ o # m
    BY SMTT(30), <2>1, <1>3, <1>4, <1>5
  <2>2. CASE k = m /\ o = m
    BY <2>2, <1>3, <1>4
  <2> QED
    BY <2>1, <2>2
<1>11. FaithfulCopy'
  <2> SUFFICES ASSUME NEW k \in Origins, NEW o \in Origins, k # o,
                      NEW s \in 1..Len(store'[k].events[o])
               PROVE  /\ s <= Len(store'[o].events[o])
                      /\ store'[k].events[o][s].event = Export(store'[o].events[o][s].event, k)
    BY DEF FaithfulCopy, Original
  <2>1. store'[k].events[o] = store[k].events[o]
    BY <1>3, <1>4
  <2>2. /\ s <= Len(store[o].events[o])
        /\ store[k].events[o][s].event = Export(store[o].events[o][s].event, k)
    BY <2>1 DEF StoreInv, FaithfulCopy, Original
  <2>3. s \in 1..Len(store[o].events[o])
    BY <1>5, <2>1, <2>2
  <2>4. /\ Len(store[o].events[o]) <= Len(store'[o].events[o])
        /\ store'[o].events[o][s].event = store[o].events[o][s].event
    BY <1>10, <2>3 DEF Grows
  <2>5. Len(store'[o].events[o]) \in Nat /\ Len(store[o].events[o]) \in Nat
    BY <1>3, <1>5, <1>6
  <2> QED
    BY <2>1, <2>2, <2>3, <2>4, <2>5
<1>12. CleanedAcknowledged'
  <2> SUFFICES ASSUME NEW k \in Origins, NEW s \in 1..Len(store'[k].events[k]),
                      store'[k].events[k][s].cleaned
               PROVE  /\ store'[k].events[k][s].event.body.thread \in Threads
                      /\ \A p \in Audience[store'[k].events[k][s].event.body.thread] \ {k} :
                           s <= store'[k].acks[p]
    BY DEF CleanedAcknowledged, Original
  <2>1. s \in 1..Len(store[k].events[k]) /\ store'[k].events[k][s] = store[k].events[k][s]
    BY <1>3, <1>4, <1>7
  <2>2. store'[k].acks = store[k].acks
    BY <1>3, <1>4
  <2> QED
    BY <2>1, <2>2 DEF StoreInv, CleanedAcknowledged, Original
<1> QED
  BY <1>2, <1>8, <1>9, <1>10, <1>11, <1>12 DEF StoreInv

LEMMA AuthorKeeps ==
  ASSUME StoreInv, NEW m \in Origins, NEW body \in Bodies
  PROVE  Authored(store[m], Author(store[m], body))
<1>1. store[m] \in Databases /\ store[m].origin = m
  BY StoreFields DEF StoreInv, Consecutive
<1>2. LocalSeen(store[m]) = Len(store[m].events[store[m].origin])
  BY <1>1 DEF LocalSeen, StoreInv, Consecutive
<1> QED
  BY <1>1, <1>2, AuthorAuthored

LEMMA WriteKeeps ==
  ASSUME StoreInv, NEW m \in Origins, NEW priority, NEW body \in Bodies,
         Write(m, priority, body)
  PROVE  StoreInv' /\ Grows
<1>1. store' = [store EXCEPT ![m] = Author(store[m], body)]
  BY DEF Write
<1> QED
  BY <1>1, AuthorKeeps, AuthoredKeeps

\* Writing twice is writing.
LEMMA AuthoredTwice ==
  ASSUME NEW db \in Databases, NEW one, NEW two, Authored(db, one), Authored(one, two)
  PROVE  Authored(db, two)
<1> DEFINE o == db.origin
<1>1. /\ o \in Origins /\ one.origin = o /\ one \in Databases /\ two \in Databases
  BY DEF Authored, Databases
<1>2. Len(db.events[o]) \in Nat /\ Len(one.events[o]) \in Nat /\ Len(two.events[o]) \in Nat
  <2>1. /\ db.events \in [Origins -> Seq(Stored)] /\ one.events \in [Origins -> Seq(Stored)]
        /\ two.events \in [Origins -> Seq(Stored)]
    BY <1>1 DEF Databases
  <2> QED
    BY <1>1, <2>1
<1>3. /\ one.acks = db.acks
      /\ \A q \in Origins \ {o} : one.events[q] = db.events[q] /\ one.cursors[q] = db.cursors[q]
      /\ Len(db.events[o]) <= Len(one.events[o])
      /\ \A s \in 1..Len(db.events[o]) : one.events[o][s] = db.events[o][s]
      /\ \A s \in (Len(db.events[o]) + 1)..Len(one.events[o]) :
           ~one.events[o][s].cleaned /\ Id(one.events[o][s].event) = <<o, s>>
  BY DEF Authored
<1>4. /\ two.origin = o /\ two.acks = one.acks
      /\ \A q \in Origins \ {o} : two.events[q] = one.events[q] /\ two.cursors[q] = one.cursors[q]
      /\ two.cursors[o].seen = Len(two.events[o])
      /\ Len(one.events[o]) <= Len(two.events[o])
      /\ \A s \in 1..Len(one.events[o]) : two.events[o][s] = one.events[o][s]
      /\ \A s \in (Len(one.events[o]) + 1)..Len(two.events[o]) :
           ~two.events[o][s].cleaned /\ Id(two.events[o][s].event) = <<o, s>>
  BY <1>1 DEF Authored
<1>5. Len(db.events[o]) <= Len(two.events[o])
  BY <1>2, <1>3, <1>4, Chain, Zenon
<1>6. ASSUME NEW s \in 1..Len(db.events[o]) PROVE two.events[o][s] = db.events[o][s]
  <2>1. s \in 1..Len(one.events[o])
    BY <1>2, <1>3
  <2> QED
    BY <1>3, <1>4, <2>1
<1>7. ASSUME NEW s \in (Len(db.events[o]) + 1)..Len(two.events[o])
      PROVE  ~two.events[o][s].cleaned /\ Id(two.events[o][s].event) = <<o, s>>
  <2>1. \/ s \in (Len(one.events[o]) + 1)..Len(two.events[o])
        \/ s \in (Len(db.events[o]) + 1)..Len(one.events[o]) /\ s \in 1..Len(one.events[o])
    BY <1>2
  <2>2. CASE s \in (Len(one.events[o]) + 1)..Len(two.events[o])
    BY <1>4, <2>2
  <2>3. CASE s \in (Len(db.events[o]) + 1)..Len(one.events[o]) /\ s \in 1..Len(one.events[o])
    BY <1>3, <1>4, <2>3
  <2> QED
    BY <2>1, <2>2, <2>3
<1>8. two.acks = db.acks
  BY <1>3, <1>4
<1>9. \A q \in Origins \ {o} : two.events[q] = db.events[q] /\ two.cursors[q] = db.cursors[q]
  BY <1>3, <1>4
<1> QED
  BY <1>1, <1>4, <1>5, <1>6, <1>7, <1>8, <1>9, Zenon DEF Authored

LEMMA WriteBothKeeps ==
  ASSUME StoreInv, NEW m \in Origins, NEW priority, NEW first \in Bodies, NEW second \in Bodies,
         WriteBoth(m, priority, first, second)
  PROVE  StoreInv' /\ Grows
<1> DEFINE db == store[m]
           one == Author(db, first)
           two == Author(one, second)
<1>1. store' = [store EXCEPT ![m] = two]
  BY DEF WriteBoth
<1>2. db \in Databases /\ Authored(db, one)
  BY AuthorKeeps, StoreFields DEF StoreInv
<1>3. one \in Databases /\ LocalSeen(one) = Len(one.events[one.origin])
  BY <1>2 DEF Authored, LocalSeen
<1>4. Authored(one, two)
  BY <1>3, AuthorAuthored
<1> HIDE DEF one, two
<1>5. Authored(db, two)
  BY <1>2, <1>4, AuthoredTwice
<1> QED
  BY <1>1, <1>5, AuthoredKeeps

LEMMA BodyTypes ==
  /\ \A kind \in PublicKinds, a \in Agents : Notice(kind, a) \in Bodies
  /\ \A kind \in {"send", "ask"}, t \in Threads, a \in Agents, r \in Agents \cup {NoAgent} :
       Message(kind, t, a, NoRequest, r) \in Bodies
  /\ \A kind \in RequestKinds, t \in Threads \cup {Public}, a \in Agents, id \in EventIds :
       Message(kind, t, a, id, NoAgent) \in Bodies
<1>1. ASSUME NEW kind \in PublicKinds, NEW a \in Agents PROVE Notice(kind, a) \in Bodies
  BY DEF Notice, Bodies
<1>2. ASSUME NEW kind \in {"send", "ask"}, NEW t \in Threads, NEW a \in Agents,
             NEW r \in Agents \cup {NoAgent}
      PROVE  Message(kind, t, a, NoRequest, r) \in Bodies
  BY DEF Message, Bodies
<1>3. ASSUME NEW kind \in RequestKinds, NEW t \in Threads \cup {Public}, NEW a \in Agents,
             NEW id \in EventIds
      PROVE  Message(kind, t, a, id, NoAgent) \in Bodies
  BY DEF Message, Bodies
<1> QED
  BY <1>1, <1>2, <1>3

\* An event about a message is only written where that message is stored.
LEMMA AuthorHolds ==
  ASSUME NEW db \in Databases, NEW priority, NEW kind \in RequestKinds, NEW t, NEW a, NEW id,
         CanAuthor(db, priority, Message(kind, t, a, id, NoAgent))
  PROVE  Holds(db, id)
<1> DEFINE body == Message(kind, t, a, id, NoAgent)
           e == NextEvent(db, body)
<1>1. /\ e.origin = db.origin /\ e.seq = db.cursors[db.origin].seen + 1
      /\ e.body.kind = kind /\ e.body.request = id
  BY DEF NextEvent, Message, LocalSeen
<1>2. Admit(db, e).decision = "append" /\ db.cursors[db.origin].seen \in Nat
  BY DEF CanAuthor, Databases, Cursors
<1> HIDE DEF e
<1>3. Admit(db, e) = Change(db, e) \/ Admit(db, e) = Rejected("clock_regression")
  BY <1>1, <1>2 DEF Admit
<1>4. Change(db, e).decision = "append"
  BY <1>2, <1>3 DEF Rejected
<1>5. SUFFICES ASSUME ~Holds(db, id) PROVE FALSE
  OBVIOUS
<1>6. Resolve(db, e) = Rejected("missing_dependency") /\ Started(db, e) = Rejected("missing_dependency")
  BY <1>1, <1>5 DEF Resolve, Started, Readable
<1>7. Change(db, e) \in {Resolve(db, e), Started(db, e)}
  BY <1>1 DEF Change, RequestKinds, EndingKinds
<1> QED
  BY <1>4, <1>6, <1>7 DEF Rejected

-----------------------------------------------------------------------------
(* Receiving *)

\* A batch that holds the sender's own events extends the copy of its ledger.
LEMMA ReceivedExtends ==
  ASSUME StoreInv, NEW m \in Origins, NEW p \in Origins, m # p,
         NEW events \in Seq(Events),
         \A i \in 1..Len(events) : OwnEvent(events[i], m, p)
  PROVE  /\ Extended(store[p], m, store[m].events[m], Receive(store[p], m, events).db)
         /\ Receive(store[p], m, events).rejected \in Rejections
<1> DEFINE db == store[p]
           log == store[m].events[m]
<1>1. db \in Databases /\ log \in Seq(Stored) /\ db.origin = p
  BY StoreFields DEF StoreInv, Consecutive
<1>2. db.cursors[m].seen = Len(db.events[m])
  BY DEF StoreInv, Consecutive
<1>3. ASSUME NEW i \in 1..Len(events) PROVE Offered(db, m, log, events[i])
  <2>1. OwnEvent(events[i], m, p)
    OBVIOUS
  <2>2. events[i].seq \in Nat /\ Len(db.events[m]) \in Nat
    BY StoreFields, ElementOfSeq, BodyFields DEF StoreInv
  <2>3. /\ events[i].origin = m
        /\ events[i].seq \in 1..Len(log)
        /\ \/ events[i] = Export(log[events[i].seq].event, p)
           \/ events[i].seq <= Len(db.events[m])
    BY <2>1 DEF OwnEvent, Original
  <2>4. events[i].seq > Len(db.events[m]) => events[i] = Export(log[events[i].seq].event, p)
    BY <2>2, <2>3
  <2> QED
    BY <1>1, <2>3, <2>4, Zenon DEF Offered
<1> QED
  BY <1>1, <1>2, <1>3, ReceiveExtends

\* Machine p applies a batch of m and m's word on how much of p it has stored.
LEMMA ReceivedKeeps ==
  ASSUME StoreInv, NEW m \in Origins, NEW p \in Origins, m # p,
         NEW events \in Seq(Events),
         \A i \in 1..Len(events) : OwnEvent(events[i], m, p),
         NEW seen \in Nat, seen <= Len(store[m].events[p]),
         store' = [store EXCEPT ![p] = RecordAck(Receive(store[p], m, events).db, m, seen)]
  PROVE  StoreInv' /\ Grows /\ Receive(store[p], m, events).rejected \in Rejections
<1> DEFINE db == store[p]
           log == store[m].events[m]
           got == Receive(db, m, events).db
           after == RecordAck(got, m, seen)
<1>1. db \in Databases /\ log \in Seq(Stored) /\ db.origin = p
  BY StoreFields DEF StoreInv, Consecutive
<1>2. db.cursors[m].seen = Len(db.events[m])
  BY DEF StoreInv, Consecutive
<1>3. Extended(db, m, log, got) /\ Receive(db, m, events).rejected \in Rejections
  BY ReceivedExtends
<1>5. /\ after \in Databases
      /\ after.origin = got.origin
      /\ after.events = got.events
      /\ after.cursors = got.cursors
      /\ \A q \in Origins \ {m} : after.acks[q] = got.acks[q]
      /\ after.acks[m] = got.acks[m] \/ after.acks[m] <= seen
      /\ after.acks[m] >= got.acks[m]
  BY <1>3, RecordAckType DEF Extended
<1> HIDE DEF got
<1>6. /\ after.origin = p
      /\ \A q \in Origins \ {m} : after.events[q] = db.events[q] /\ after.cursors[q] = db.cursors[q]
      /\ \A q \in Origins \ {m} : after.acks[q] = db.acks[q]
      /\ after.acks[m] = db.acks[m] \/ after.acks[m] <= seen
      /\ after.acks[m] >= db.acks[m]
      /\ after.cursors[m].seen = Len(after.events[m])
      /\ Len(db.events[m]) <= Len(after.events[m])
      /\ \A s \in 1..Len(db.events[m]) : after.events[m][s] = db.events[m][s]
      /\ \A s \in (Len(db.events[m]) + 1)..Len(after.events[m]) :
           /\ s <= Len(log)
           /\ after.events[m][s] = [event |-> Export(log[s].event, p), cleaned |-> FALSE]
  BY <1>1, <1>3, <1>5 DEF Extended
<1>7. store'[p] = after /\ \A k \in Origins \ {p} : store'[k] = store[k]
  BY DEF StoreInv, got
<1>8. store' \in [Origins -> Databases]
  BY <1>5 DEF StoreInv, got
<1> HIDE DEF after
<1>9. /\ \A k, o \in Origins : Len(store[k].events[o]) \in Nat /\ store[k].acks[o] \in Nat
      /\ \A k, o \in Origins : store[k].cursors[o].seen \in Nat
      /\ \A k \in Origins : Len(after.events[k]) \in Nat /\ after.acks[k] \in Nat
      /\ \A k \in Origins : after.cursors[k].seen \in Nat
  <2>1. after.events \in [Origins -> Seq(Stored)] /\ after.acks \in [Origins -> Nat]
        /\ after.cursors \in [Origins -> Cursors]
    BY <1>5 DEF Databases
  <2>2. \A k \in Origins : Len(after.events[k]) \in Nat /\ after.acks[k] \in Nat
    BY <2>1
  <2>3. \A k \in Origins : after.cursors[k].seen \in Nat
    BY <2>1 DEF Cursors
  <2>4. \A k, o \in Origins :
          /\ Len(store[k].events[o]) \in Nat /\ store[k].acks[o] \in Nat
          /\ store[k].cursors[o].seen \in Nat
    BY StoreFields DEF StoreInv
  <2> QED
    BY <2>2, <2>3, <2>4
<1>10. ASSUME NEW s \in 1..Len(after.events[m])
       PROVE  \/ s \in 1..Len(db.events[m]) /\ after.events[m][s] = db.events[m][s]
              \/ /\ s <= Len(log)
                 /\ after.events[m][s] = [event |-> Export(log[s].event, p), cleaned |-> FALSE]
  <2>1. \/ s \in 1..Len(db.events[m])
        \/ s \in (Len(db.events[m]) + 1)..Len(after.events[m])
    BY SMTT(60), <1>9
  <2> QED
    BY <1>6, <2>1
<1>11. ASSUME NEW k \in Origins, NEW o \in Origins, k # p \/ o # m
       PROVE  store'[k].events[o] = store[k].events[o] /\ store'[k].cursors[o] = store[k].cursors[o]
  BY <1>6, <1>7, <1>11
<1>12. Consecutive'
  <2> SUFFICES ASSUME NEW k \in Origins, NEW o \in Origins
               PROVE  /\ store'[k].origin = k
                      /\ store'[k].cursors[o].seen = Len(store'[k].events[o])
                      /\ \A s \in 1..Len(store'[k].events[o]) :
                           Id(store'[k].events[o][s].event) = <<o, s>>
    BY DEF Consecutive
  <2>1. /\ store[k].origin = k
        /\ store[k].cursors[o].seen = Len(store[k].events[o])
        /\ \A s \in 1..Len(store[k].events[o]) : Id(store[k].events[o][s].event) = <<o, s>>
    BY DEF StoreInv, Consecutive
  <2>2. store'[k].origin = k
    BY <1>6, <1>7, <2>1
  <2>3. CASE k # p \/ o # m
    BY <1>11, <2>1, <2>2, <2>3
  <2>4. CASE k = p /\ o = m
    <3>1. ASSUME NEW s \in 1..Len(after.events[m])
          PROVE  Id(after.events[m][s].event) = <<m, s>>
      <4>1. CASE s \in 1..Len(db.events[m]) /\ after.events[m][s] = db.events[m][s]
        BY <2>1, <2>4, <4>1
      <4>2. CASE /\ s <= Len(log)
                 /\ after.events[m][s] = [event |-> Export(log[s].event, p), cleaned |-> FALSE]
        <5>1. s \in 1..Len(log)
          BY <1>9, <4>2
        <5>2. log[s].event \in Events /\ Id(log[s].event) = <<m, s>>
          BY <5>1, StoreFields DEF StoreInv, Consecutive
        <5>3. after.events[m][s].event = Export(log[s].event, p)
          BY <4>2
        <5> QED
          BY <5>2, <5>3, ExportType
      <4> QED
        BY <1>10, <4>1, <4>2
    <3> QED
      BY ZenonT(60), <1>6, <1>7, <2>2, <2>4, <3>1
  <2> QED
    BY <2>3, <2>4
<1>13. Grows
  <2> SUFFICES ASSUME NEW k \in Origins, NEW o \in Origins
               PROVE  /\ Len(store[k].events[o]) <= Len(store'[k].events[o])
                      /\ \A s \in 1..Len(store[k].events[o]) :
                           /\ store'[k].events[o][s].event = store[k].events[o][s].event
                           /\ store[k].events[o][s].cleaned => store'[k].events[o][s].cleaned
    BY DEF Grows
  <2>1. CASE k # p \/ o # m
    BY SMTT(30), <1>9, <1>11, <2>1
  <2>2. CASE k = p /\ o = m
    BY SMTT(60), <1>6, <1>7, <2>2
  <2> QED
    BY <2>1, <2>2
<1>14. AckSound'
  <2> SUFFICES ASSUME NEW k \in Origins, NEW o \in Origins, k # o
               PROVE  store'[k].acks[o] <= store'[o].cursors[k].seen
    BY DEF AckSound
  <2>1. store[k].acks[o] <= store[o].cursors[k].seen
    BY DEF StoreInv, AckSound
  <2>2. store[o].cursors[k].seen <= store'[o].cursors[k].seen
    <3>1. CASE o # p \/ k # m
      BY <1>9, <1>11, <3>1
    <3>2. CASE o = p /\ k = m
      BY <1>2, <1>6, <1>7, <3>2
    <3> QED
      BY <3>1, <3>2
  <2>3. store'[o].cursors[k].seen \in Nat
    BY <1>7, <1>9
  <2>4. CASE store'[k].acks[o] = store[k].acks[o]
    BY <1>9, <2>1, <2>2, <2>3, <2>4, Chain, Zenon
  <2>5. CASE k = p /\ o = m /\ after.acks[m] <= seen
    <3>1. store'[o].cursors[k].seen = Len(store[m].events[p])
      BY <1>7, <2>5 DEF StoreInv, Consecutive
    <3> QED
      BY <1>7, <1>9, <2>5, <3>1, Chain, Zenon
  <2> QED
    BY <1>6, <1>7, <2>4, <2>5
<1>15. FaithfulCopy'
  <2> SUFFICES ASSUME NEW k \in Origins, NEW o \in Origins, k # o,
                      NEW s \in 1..Len(store'[k].events[o])
               PROVE  /\ s <= Len(store'[o].events[o])
                      /\ store'[k].events[o][s].event = Export(store'[o].events[o][s].event, k)
    BY DEF FaithfulCopy, Original
  <2>1. store'[o].events[o] = store[o].events[o]
    BY <1>11
  <2>2. \A r \in 1..Len(store[k].events[o]) :
          /\ r <= Len(store[o].events[o])
          /\ store[k].events[o][r].event = Export(store[o].events[o][r].event, k)
    BY DEF StoreInv, FaithfulCopy, Original
  <2>3. CASE k # p \/ o # m
    BY <1>11, <2>1, <2>2, <2>3
  <2>4. CASE k = p /\ o = m
    <3>1. s \in 1..Len(after.events[m])
      BY <1>7, <2>4
    <3>2. CASE s \in 1..Len(db.events[m]) /\ after.events[m][s] = db.events[m][s]
      BY SMTT(60), <1>7, <2>1, <2>2, <2>4, <3>2
    <3>3. CASE /\ s <= Len(log)
               /\ after.events[m][s] = [event |-> Export(log[s].event, p), cleaned |-> FALSE]
      BY <1>7, <2>1, <2>4, <3>3
    <3> QED
      BY <1>10, <3>1, <3>2, <3>3
  <2> QED
    BY <2>3, <2>4
<1>16. CleanedAcknowledged'
  <2> SUFFICES ASSUME NEW k \in Origins, NEW s \in 1..Len(store'[k].events[k]),
                      store'[k].events[k][s].cleaned
               PROVE  /\ store'[k].events[k][s].event.body.thread \in Threads
                      /\ \A q \in Audience[store'[k].events[k][s].event.body.thread] \ {k} :
                           s <= store'[k].acks[q]
    BY DEF CleanedAcknowledged, Original
  <2>1. store'[k].events[k] = store[k].events[k]
    BY <1>11
  <2>2. \A q \in Origins : store[k].acks[q] <= store'[k].acks[q] /\ store'[k].acks[q] \in Nat
    <3>1. CASE k # p
      BY <1>7, <1>9, <3>1
    <3>2. CASE k = p
      <4>1. ASSUME NEW q \in Origins PROVE db.acks[q] <= after.acks[q] /\ after.acks[q] \in Nat
        <5>1. db.acks[q] \in Nat /\ after.acks[q] \in Nat
          BY <1>9
        <5>2. after.acks[q] = db.acks[q] \/ after.acks[q] >= db.acks[q]
          BY <1>6
        <5> QED
          BY <5>1, <5>2
      <4> QED
        BY <1>7, <3>2, <4>1
    <3> QED
      BY <3>1, <3>2
  <2>3. /\ store[k].events[k][s].event.body.thread \in Threads
        /\ \A q \in Audience[store[k].events[k][s].event.body.thread] \ {k} : s <= store[k].acks[q]
    BY <2>1 DEF StoreInv, CleanedAcknowledged, Original
  <2>4. s \in Nat
    BY <1>9, <2>1
  <2>5. \A q \in Audience[store[k].events[k][s].event.body.thread] \ {k} : s <= store'[k].acks[q]
    <3> SUFFICES ASSUME NEW q \in Audience[store[k].events[k][s].event.body.thread] \ {k}
                 PROVE  s <= store'[k].acks[q]
      OBVIOUS
    <3>1. q \in Origins
      BY <2>3, ThreadsAssumption
    <3> QED
      BY <1>9, <2>2, <2>3, <2>4, <3>1, Chain, Zenon
  <2> QED
    BY <2>1, <2>3, <2>5
<1> QED
  BY <1>3, <1>8, <1>12, <1>13, <1>14, <1>15, <1>16 DEF StoreInv

-----------------------------------------------------------------------------
(* Cleaning *)

LEMMA CleanKeeps ==
  ASSUME StoreInv, NEW m \in Origins, NEW t \in Threads, Cleanable(store[m], t),
         store' = [store EXCEPT ![m] = Clean(@, t)]
  PROVE  StoreInv' /\ Grows
<1> DEFINE db == store[m]
           after == Clean(db, t)
<1>1. db \in Databases /\ db.origin = m
  BY StoreFields DEF StoreInv, Consecutive
<1>2. /\ after \in Databases
      /\ after.origin = m
      /\ after.cursors = db.cursors
      /\ after.acks = db.acks
      /\ \A o \in Origins :
           /\ Len(after.events[o]) = Len(db.events[o])
           /\ \A s \in 1..Len(db.events[o]) :
                /\ after.events[o][s].event = db.events[o][s].event
                /\ db.events[o][s].cleaned => after.events[o][s].cleaned
                /\ after.events[o][s].cleaned =>
                     db.events[o][s].cleaned \/ InThread(db.events[o][s], t)
  BY SMTT(60), <1>1, CleanType
<1>3. store'[m] = after /\ \A k \in Origins \ {m} : store'[k] = store[k]
  BY DEF StoreInv
<1>4. store' \in [Origins -> Databases]
  BY <1>2 DEF StoreInv
<1> HIDE DEF after
<1>5. ASSUME NEW k \in Origins, NEW o \in Origins
      PROVE  /\ store'[k].origin = store[k].origin
             /\ store'[k].cursors[o] = store[k].cursors[o]
             /\ store'[k].acks = store[k].acks
             /\ Len(store'[k].events[o]) = Len(store[k].events[o])
             /\ \A s \in 1..Len(store[k].events[o]) :
                  /\ store'[k].events[o][s].event = store[k].events[o][s].event
                  /\ store[k].events[o][s].cleaned => store'[k].events[o][s].cleaned
  BY SMTT(30), <1>1, <1>2, <1>3
<1>6. \A k, o \in Origins : Len(store[k].events[o]) \in Nat
  BY StoreFields DEF StoreInv
<1>7. Grows
  BY <1>5, <1>6 DEF Grows
<1>8. Consecutive'
  BY <1>5 DEF StoreInv, Consecutive
<1>9. AckSound'
  BY <1>5 DEF StoreInv, AckSound
<1>10. FaithfulCopy'
  <2> SUFFICES ASSUME NEW k \in Origins, NEW o \in Origins, k # o,
                      NEW s \in 1..Len(store'[k].events[o])
               PROVE  /\ s <= Len(store'[o].events[o])
                      /\ store'[k].events[o][s].event = Export(store'[o].events[o][s].event, k)
    BY DEF FaithfulCopy, Original
  <2>1. s \in 1..Len(store[k].events[o])
    BY <1>5
  <2>2. /\ s <= Len(store[o].events[o])
        /\ store[k].events[o][s].event = Export(store[o].events[o][s].event, k)
    BY <2>1 DEF StoreInv, FaithfulCopy, Original
  <2>3. s \in 1..Len(store[o].events[o])
    BY <1>6, <2>1, <2>2
  <2> QED
    BY <1>5, <2>1, <2>2, <2>3
<1>11. CleanedAcknowledged'
  <2> SUFFICES ASSUME NEW k \in Origins, NEW s \in 1..Len(store'[k].events[k]),
                      store'[k].events[k][s].cleaned
               PROVE  /\ store'[k].events[k][s].event.body.thread \in Threads
                      /\ \A q \in Audience[store'[k].events[k][s].event.body.thread] \ {k} :
                           s <= store'[k].acks[q]
    BY DEF CleanedAcknowledged, Original
  <2>1. /\ s \in 1..Len(store[k].events[k])
        /\ store'[k].events[k][s].event = store[k].events[k][s].event
        /\ store'[k].acks = store[k].acks
    BY <1>5
  <2>2. CASE store[k].events[k][s].cleaned
    BY <2>1, <2>2 DEF StoreInv, CleanedAcknowledged, Original
  <2>3. CASE k = m /\ InThread(db.events[m][s], t)
    <3>1. db.events[m][s].event.body.thread = t
      BY <2>3 DEF InThread
    <3>2. \A q \in Audience[t] \ {m} : db.acks[q] >= s
      BY <1>1, <2>1, <2>3 DEF Cleanable
    <3>3. \A q \in Audience[t] \ {m} : s <= db.acks[q]
      <4> SUFFICES ASSUME NEW q \in Audience[t] \ {m} PROVE s <= db.acks[q]
        OBVIOUS
      <4>1. q \in Origins
        BY ThreadsAssumption
      <4>2. db.acks[q] \in Nat
        BY <4>1, StoreFields DEF StoreInv
      <4> QED
        BY <3>2, <4>2
    <3> QED
      BY <2>1, <2>3, <3>1, <3>3
  <2>4. store[k].events[k][s].cleaned \/ (k = m /\ InThread(db.events[m][s], t))
    <3>1. CASE k # m
      BY <1>3, <3>1
    <3>2. CASE k = m
      BY <1>2, <1>3, <2>1, <3>2
    <3> QED
      BY <3>1, <3>2
  <2> QED
    BY <2>2, <2>3, <2>4
<1> QED
  BY <1>4, <1>7, <1>8, <1>9, <1>10, <1>11 DEF StoreInv

-----------------------------------------------------------------------------
(* Rounds *)

\* The types of a round under way.
LEMMA RoundFields ==
  ASSUME TypeOK, NEW s \in Sessions
  PROVE  /\ rounds[s] # Idle => rounds[s].offer \in Offers
         /\ rounds[s].phase = "answered" => rounds[s] # Idle /\ rounds[s].answer \in Answers
         /\ rounds[s].phase = "offered" => rounds[s] # Idle
<1>1. rounds[s] \in {Idle} \cup [phase : {"offered"}, offer : Offers]
                        \cup [phase : {"answered"}, offer : Offers, answer : Answers]
  BY DEF TypeOK
<1> QED
  BY <1>1 DEF Idle

LEMMA OwnEventKept ==
  ASSUME store \in [Origins -> Databases], store' \in [Origins -> Databases], Grows,
         NEW m \in Origins, NEW p \in Origins, NEW e \in Events, OwnEvent(e, m, p)
  PROVE  OwnEvent(e, m, p)'
<1>1. /\ Len(store[m].events[m]) \in Nat /\ Len(store[p].events[m]) \in Nat
  BY StoreFields
<1>2. /\ Len(store'[m].events[m]) \in Nat /\ Len(store'[p].events[m]) \in Nat
  <2>1. store'[m].events \in [Origins -> Seq(Stored)] /\ store'[p].events \in [Origins -> Seq(Stored)]
    BY DEF Databases
  <2> QED
    BY <2>1
<1>3. e.seq \in 1..Len(store[m].events[m]) /\ e.origin = m /\ e.seq \in Nat
  BY <1>1 DEF OwnEvent
<1>4. /\ store'[m].events[m][e.seq].event = store[m].events[m][e.seq].event
      /\ store[m].events[m][e.seq].cleaned => store'[m].events[m][e.seq].cleaned
      /\ Len(store[m].events[m]) <= Len(store'[m].events[m])
      /\ Len(store[p].events[m]) <= Len(store'[p].events[m])
  BY SMTT(30), <1>3 DEF Grows
<1>5. e.seq \in 1..Len(store'[m].events[m])
  BY <1>1, <1>2, <1>3, <1>4
<1>6. e.seq <= Len(store[p].events[m]) => e.seq <= Len(store'[p].events[m])
  BY <1>1, <1>2, <1>3, <1>4, Chain, Zenon
<1> QED
  BY <1>3, <1>4, <1>5, <1>6 DEF OwnEvent, Original

LEMMA OwnEventsKept ==
  ASSUME store \in [Origins -> Databases], store' \in [Origins -> Databases], Grows,
         NEW m \in Origins, NEW p \in Origins, NEW events \in Seq(Events), NEW after,
         OwnEvents(events, m, p, after)
  PROVE  OwnEvents(events, m, p, after)'
<1>1. \A i \in 1..Len(events) : events[i] \in Events /\ OwnEvent(events[i], m, p) /\ events[i].seq = after + i
  BY ElementOfSeq DEF OwnEvents
<1>2. \A i \in 1..Len(events) : OwnEvent(events[i], m, p)'
  BY <1>1, OwnEventKept
<1> QED
  BY <1>1, <1>2 DEF OwnEvents

LEMMA RoundKept ==
  ASSUME TypeOK, store' \in [Origins -> Databases], Grows,
         NEW s \in Sessions, RoundSound(s), rounds'[s] = rounds[s]
  PROVE  RoundSound(s)'
<1> DEFINE offer == rounds[s].offer
           answer == rounds[s].answer
<1>0. store \in [Origins -> Databases]
  BY DEF TypeOK
<1>1. ASSUME NEW n \in Nat, NEW k \in Origins, NEW o \in Origins, n <= Len(store[k].events[o])
      PROVE  n <= Len(store'[k].events[o])
  <2>1. Len(store[k].events[o]) \in Nat
    BY <1>0, StoreFields
  <2>2. Len(store'[k].events[o]) \in Nat
    <3>1. store'[k].events \in [Origins -> Seq(Stored)]
      BY DEF Databases
    <3> QED
      BY <3>1
  <2>3. Len(store[k].events[o]) <= Len(store'[k].events[o])
    BY DEF Grows
  <2> QED
    BY <1>1, <2>1, <2>2, <2>3, Chain, Zenon
<1>2. ASSUME rounds[s] # Idle
      PROVE  /\ offer.from # offer.to
             /\ offer.seen <= Len(store'[offer.from].events[offer.to])
             /\ offer.after <= Len(store'[offer.to].events[offer.from])
             /\ OwnEvents(offer.events, offer.from, offer.to, offer.after)'
  <2>1. /\ offer.from \in Origins /\ offer.to \in Origins /\ offer.seen \in Nat /\ offer.after \in Nat
        /\ offer.events \in Seq(Events)
    BY <1>2, RoundFields DEF Offers
  <2>2. /\ offer.from # offer.to
        /\ offer.seen <= Len(store[offer.from].events[offer.to])
        /\ offer.after <= Len(store[offer.to].events[offer.from])
        /\ OwnEvents(offer.events, offer.from, offer.to, offer.after)
    BY <1>2 DEF RoundSound
  <2>3. OwnEvents(offer.events, offer.from, offer.to, offer.after)'
    <3>1. PICK events, m, p, after : events = offer.events /\ m = offer.from /\ p = offer.to /\ after = offer.after
      OBVIOUS
    <3>2. OwnEvents(events, m, p, after)'
      BY <1>0, <2>1, <2>2, <3>1, OwnEventsKept
    <3> QED
      BY <3>1, <3>2
  <2> QED
    BY <1>0, <1>1, <2>1, <2>2, <2>3
<1>3. ASSUME rounds[s].phase = "answered"
      PROVE  /\ answer.from = offer.to
             /\ answer.seen <= Len(store'[offer.to].events[offer.from])
             /\ OwnEvents(answer.events, offer.to, offer.from, offer.seen)'
  <2>1. /\ offer.from \in Origins /\ offer.to \in Origins /\ answer.seen \in Nat
        /\ answer.events \in Seq(Events)
    BY <1>3, RoundFields DEF Offers, Answers
  <2>2. /\ answer.from = offer.to
        /\ answer.seen <= Len(store[offer.to].events[offer.from])
        /\ OwnEvents(answer.events, offer.to, offer.from, offer.seen)
    BY <1>3 DEF RoundSound
  <2>3. OwnEvents(answer.events, offer.to, offer.from, offer.seen)'
    <3>1. PICK events, m, p, after : events = answer.events /\ m = offer.to /\ p = offer.from /\ after = offer.seen
      OBVIOUS
    <3>2. OwnEvents(events, m, p, after)'
      BY <1>0, <2>1, <2>2, <3>1, OwnEventsKept
    <3> QED
      BY <3>1, <3>2
  <2> QED
    BY <1>0, <1>1, <2>1, <2>2, <2>3
<1> QED
  BY <1>2, <1>3 DEF RoundSound

\* A step that changes databases by one of the lemmas above and no round.
LEMMA Settled ==
  ASSUME IndInv, StoreInv', Grows, rounds' = rounds, turns' \in [Origins -> SUBSET EventIds]
  PROVE  IndInv'
<1>1. TypeOK'
  BY DEF IndInv, TypeOK, StoreInv
<1>2. ASSUME NEW s \in Sessions PROVE RoundSound(s)'
  BY RoundKept DEF IndInv, StoreInv
<1> QED
  BY <1>1, <1>2 DEF IndInv, StoreInv

-----------------------------------------------------------------------------
(* The steps *)

LEMMA StoredThread ==
  ASSUME StoreInv, NEW m \in Origins, NEW id \in EventIds, Holds(store[m], id)
  PROVE  EventOf(m, id).body.thread \in Threads \cup {Public}
<1>1. store[m] \in Databases
  BY DEF StoreInv
<1>2. EventOf(m, id) \in Events
  BY <1>1, StoredEvent DEF EventOf
<1>3. EventOf(m, id).body \in Bodies
  BY <1>2 DEF Events
<1> QED
  BY <1>3 DEF Bodies

LEMMA StoredIdType ==
  ASSUME StoreInv, NEW m \in Origins, NEW id \in StoredIds(store[m])
  PROVE  id \in EventIds
<1>1. PICK o \in Origins : id \in {o} \X (1..Len(store[m].events[o]))
  BY DEF StoredIds
<1>2. Len(store[m].events[o]) \in Nat
  BY StoreFields DEF StoreInv
<1>3. 1..Len(store[m].events[o]) \subseteq Nat \ {0}
  BY <1>2
<1> QED
  BY <1>1, <1>3 DEF EventIds

\* A step of an agent or of a worker is one transaction that writes one event or two.
Writes(m) ==
  \/ \E priority : \E body \in Bodies : Write(m, priority, body)
  \/ \E priority : \E first, second \in Bodies : WriteBoth(m, priority, first, second)

LEMMA WritesKeep ==
  ASSUME StoreInv, NEW m \in Origins, Writes(m)
  PROVE  StoreInv' /\ Grows
BY WriteKeeps, WriteBothKeeps DEF Writes

LEMMA AgentStepWrites ==
  ASSUME IndInv, NEW m \in Origins, NEW a \in Agents, AgentStep(m, a)
  PROVE  Writes(m) /\ rounds' = rounds /\ turns' = turns
<1>0. StoreInv
  BY DEF IndInv, TypeOK, StoreInv
<1>2. CASE Start(m, a)
  BY <1>2, BodyTypes DEF Start, PublicKinds, Writes
<1>3. CASE Join(m, a)
  BY <1>3, BodyTypes DEF Join, PublicKinds, Writes
<1>4. CASE \E t \in Threads : Send(m, a, t)
  BY <1>4, BodyTypes DEF Send, Writes
<1>5. CASE \E t \in Threads, responder \in Agents : Ask(m, a, t, responder)
  BY <1>5, BodyTypes DEF Ask, Writes
<1>6. ASSUME NEW id \in StoredIds(store[m]), Readable(store[m], id),
             NEW kind \in {"reply", "withdrawn"}
      PROVE  Message(kind, EventOf(m, id).body.thread, a, id, NoAgent) \in Bodies
  <2>1. id \in EventIds
    BY <1>0, StoredIdType
  <2>2. EventOf(m, id).body.thread \in Threads \cup {Public}
    BY <1>0, <1>6, <2>1, StoredThread DEF Readable
  <2> QED
    BY <2>1, <2>2, BodyTypes DEF RequestKinds, EndingKinds
<1>7. CASE \E id \in StoredIds(store[m]) : Reply(m, a, id)
  BY <1>6, <1>7 DEF Reply, Writes
<1>8. CASE \E id \in StoredIds(store[m]) : Withdraw(m, a, id)
  BY <1>6, <1>8 DEF Withdraw, Writes
<1> QED
  BY <1>2, <1>3, <1>4, <1>5, <1>7, <1>8 DEF AgentStep

LEMMA TurnStepWrites ==
  ASSUME IndInv, NEW m \in Origins, NEW a \in Agents, TurnStep(m, a)
  PROVE  Writes(m) /\ rounds' = rounds /\ turns' \in [Origins -> SUBSET EventIds]
<1>0. /\ StoreInv /\ store[m] \in Databases /\ turns \in [Origins -> SUBSET EventIds]
      /\ store[m].open \subseteq EventIds
  BY DEF IndInv, TypeOK, StoreInv, Databases
<1>1. /\ Notice("working", a) \in Bodies /\ Notice("waiting", a) \in Bodies
  BY BodyTypes DEF PublicKinds
<1>2. ASSUME NEW id \in EventIds, NEW kind \in RequestKinds, NEW second \in Bodies,
             WriteBoth(m, "ending", Message(kind, EventOf(m, id).body.thread, a, id, NoAgent), second)
      PROVE  Writes(m)
  <2>1. CanAuthor(store[m], "ending", Message(kind, EventOf(m, id).body.thread, a, id, NoAgent))
    BY <1>2 DEF WriteBoth
  <2>2. EventOf(m, id).body.thread \in Threads \cup {Public}
    BY <1>0, <2>1, AuthorHolds, StoredThread
  <2>3. Message(kind, EventOf(m, id).body.thread, a, id, NoAgent) \in Bodies
    BY <2>2, BodyTypes
  <2> QED
    BY <1>2, <2>3 DEF Writes
<1>4. ASSUME NEW id \in store[m].open, Claim(m, a, id)
      PROVE  Writes(m) /\ rounds' = rounds /\ turns' \in [Origins -> SUBSET EventIds]
  <2>1. id \in EventIds
    BY <1>0
  <2>2. Writes(m)
    BY <1>1, <1>2, <1>4, <2>1 DEF Claim, RequestKinds
  <2> QED
    BY <1>0, <1>4, <2>1, <2>2 DEF Claim
<1>5. ASSUME NEW id \in turns[m], Answered(m, a, id)
      PROVE  Writes(m) /\ rounds' = rounds /\ turns' \in [Origins -> SUBSET EventIds]
  <2>1. id \in EventIds
    BY <1>0
  <2>2. Writes(m)
    BY <1>1, <1>2, <1>5, <2>1 DEF Answered, RequestKinds
  <2> QED
    BY <1>0, <1>5, <2>2 DEF Answered
<1>6. ASSUME NEW id \in turns[m], NEW outcome \in {"failed", "interrupted"}, Ended(m, a, id, outcome)
      PROVE  Writes(m) /\ rounds' = rounds /\ turns' \in [Origins -> SUBSET EventIds]
  <2>1. id \in EventIds /\ outcome \in RequestKinds
    BY <1>0 DEF RequestKinds, EndingKinds
  <2>2. CASE WriteBoth(m, "ending", Message(outcome, EventOf(m, id).body.thread, a, id, NoAgent),
                                    Notice("waiting", a))
    BY <1>0, <1>1, <1>2, <1>6, <2>1, <2>2 DEF Ended
  <2>3. CASE Write(m, "ending", Notice("waiting", a))
    BY <1>0, <1>1, <1>6, <2>3 DEF Ended, Writes
  <2> QED
    BY <1>6, <2>2, <2>3 DEF Ended
<1> QED
  BY <1>4, <1>5, <1>6 DEF TurnStep

LEMMA WriteStepKeeps ==
  ASSUME IndInv, NEW m \in Origins, Writes(m), rounds' = rounds, turns' \in [Origins -> SUBSET EventIds]
  PROVE  IndInv' /\ Grows
<1>1. StoreInv
  BY DEF IndInv, TypeOK, StoreInv
<1> QED
  BY <1>1, WritesKeep, Settled

\* Every event a machine sends is its own, or a placeholder for an event that
\* its peer has acknowledged.
SendsOwn ==
  \A m, p \in Origins : \A after \in Nat :
    m # p /\ after <= LocalSeen(store[m]) =>
      /\ Batch(store[m], p, after) \in Seq(Events)
      /\ OwnEvents(Batch(store[m], p, after), m, p, after)

LEMMA StoreInvSendsOwn == StoreInv => SendsOwn
<1> SUFFICES ASSUME StoreInv, NEW m \in Origins, NEW p \in Origins, NEW after \in Nat, m # p,
                    after <= LocalSeen(store[m])
             PROVE  /\ Batch(store[m], p, after) \in Seq(Events)
                    /\ OwnEvents(Batch(store[m], p, after), m, p, after)
  BY DEF SendsOwn
<1> DEFINE db == store[m]
           log == db.events[m]
<1>1. db \in Databases /\ db.origin = m /\ log \in Seq(Stored) /\ LocalSeen(db) = Len(log)
  BY StoreFields, WithinOriginal DEF StoreInv, Consecutive
<1>2. /\ Batch(db, p, after) \in Seq(Events)
      /\ \A i \in 1..Len(Batch(db, p, after)) :
           /\ after + i \in 1..Len(log)
           /\ Batch(db, p, after)[i] = Outgoing(db, p, after + i)
  BY <1>1, BatchType
<1>3. ASSUME NEW s \in 1..Len(log) PROVE OwnEvent(Outgoing(db, p, s), m, p) /\ Outgoing(db, p, s).seq = s
  <2> DEFINE e == log[s].event
             hidden == [e EXCEPT !.body = Omitted]
  <2>1. e \in Events /\ Id(e) = <<m, s>>
    BY StoreFields DEF StoreInv, Consecutive
  <2>2. /\ Outgoing(db, p, s) = IF log[s].cleaned THEN hidden ELSE Export(e, p)
    BY <1>1 DEF Outgoing, StoredAt
  <2>3. /\ hidden \in Events /\ Id(hidden) = <<m, s>>
        /\ Export(e, p) \in Events /\ Id(Export(e, p)) = <<m, s>>
    BY <2>1, ExportType
  <2>4. Outgoing(db, p, s).origin = m /\ Outgoing(db, p, s).seq = s
    BY <2>2, <2>3 DEF Id
  <2>5. CASE ~log[s].cleaned
    BY <2>2, <2>4, <2>5 DEF OwnEvent, Original
  <2>6. CASE log[s].cleaned /\ p \notin Audience[e.body.thread]
    <3>1. e.body.thread \in Threads
      BY <2>6 DEF StoreInv, CleanedAcknowledged, Original
    <3>2. Export(e, p) = hidden
      BY <2>6, <3>1, ThreadsAssumption DEF Export
    <3> QED
      BY <2>2, <2>4, <2>6, <3>2 DEF OwnEvent, Original
  <2>7. CASE log[s].cleaned /\ p \in Audience[e.body.thread]
    <3>1. s <= db.acks[p]
      BY <2>7 DEF StoreInv, CleanedAcknowledged, Original
    <3>2. db.acks[p] <= Len(store[p].events[m])
      BY WithinOriginal
    <3>3. s \in Nat /\ db.acks[p] \in Nat /\ Len(store[p].events[m]) \in Nat
      BY <1>1, StoreFields DEF StoreInv
    <3>4. s <= Len(store[p].events[m])
      BY <3>1, <3>2, <3>3, Chain, Zenon
    <3> QED
      BY <2>2, <2>4, <2>7, <3>4 DEF OwnEvent, Original
  <2> QED
    BY <2>4, <2>5, <2>6, <2>7
<1> HIDE DEF db, log
<1> QED
  BY <1>2, <1>3 DEF OwnEvents, db

LEMMA SameStore ==
  ASSUME StoreInv, store' = store
  PROVE  StoreInv' /\ Grows
<1>1. Grows
  <2>1. \A k, o \in Origins : Len(store[k].events[o]) \in Nat
    BY StoreFields DEF StoreInv
  <2> QED
    BY <2>1 DEF Grows
<1>2. Consecutive'
  BY DEF StoreInv, Consecutive
<1>3. AckSound'
  BY DEF StoreInv, AckSound
<1>4. FaithfulCopy'
  BY DEF StoreInv, FaithfulCopy, Original
<1>5. CleanedAcknowledged'
  BY DEF StoreInv, CleanedAcknowledged, Original
<1> QED
  BY <1>1, <1>2, <1>3, <1>4, <1>5 DEF StoreInv

LEMMA MakeOfferKeeps ==
  ASSUME IndInv, NEW s \in Sessions, NEW m \in Origins, NEW p \in Origins, MakeOffer(s, m, p)
  PROVE  IndInv' /\ Grows
<1>0. PICK offer : offer = Offer(store[m], p)
  OBVIOUS
<1>1. /\ StoreInv /\ m # p /\ store' = store /\ turns' = turns
      /\ rounds' = [rounds EXCEPT ![s] = [phase |-> "offered", offer |-> offer]]
  BY <1>0 DEF IndInv, TypeOK, StoreInv, MakeOffer
<1>2. StoreInv' /\ Grows
  BY <1>1, SameStore
<1>3. /\ store[m].acks[p] \in Nat /\ store[m].acks[p] <= LocalSeen(store[m])
      /\ store[m].origin = m /\ store[m].cursors[p].seen = Len(store[m].events[p])
      /\ store[m].cursors[p].seen \in Nat
  BY <1>1, StoreFields, WithinOriginal DEF StoreInv, Consecutive
<1>4. /\ Batch(store[m], p, store[m].acks[p]) \in Seq(Events)
      /\ OwnEvents(Batch(store[m], p, store[m].acks[p]), m, p, store[m].acks[p])
  BY <1>1, <1>3, StoreInvSendsOwn DEF SendsOwn
<1>5. /\ offer \in Offers /\ offer.from = m /\ offer.to = p
      /\ offer.seen = Len(store[m].events[p])
      /\ offer.events = Batch(store[m], p, store[m].acks[p])
      /\ offer.after = store[m].acks[p] /\ offer.after <= Len(store[p].events[m])
  BY <1>0, <1>1, <1>3, <1>4, WithinOriginal DEF Offer, Offers
<1>6. TypeOK'
  BY <1>1, <1>2, <1>5 DEF IndInv, TypeOK, StoreInv
<1>7. ASSUME NEW k \in Sessions PROVE RoundSound(k)'
  <2>1. CASE k # s
    BY <1>1, <1>2, <2>1, RoundKept DEF IndInv, StoreInv, TypeOK
  <2>2. CASE k = s
    <3>1. rounds'[s] = [phase |-> "offered", offer |-> offer]
      BY <1>1 DEF IndInv, TypeOK
    <3>2. OwnEvents(offer.events, m, p, offer.after)'
      <4>1. offer.events \in Seq(Events) /\ OwnEvents(offer.events, m, p, offer.after)
        BY <1>4, <1>5
      <4> QED
        BY <1>1, <1>2, <4>1, OwnEventsKept DEF StoreInv
    <3>3. offer.seen <= Len(store'[m].events[p]) /\ offer.after <= Len(store'[p].events[m])
      BY <1>1, <1>3, <1>5
    <3>4. rounds'[s].phase # "answered" /\ rounds'[s].offer = offer
      BY <3>1
    <3> QED
      BY <1>1, <1>5, <2>2, <3>2, <3>3, <3>4 DEF RoundSound
  <2> QED
    BY <2>1, <2>2
<1> QED
  BY <1>2, <1>6, <1>7 DEF IndInv, StoreInv

\* The other machine answers a round.
LEMMA AnswerOfferKeeps ==
  ASSUME IndInv, NEW s \in Sessions, AnswerOffer(s)
  PROVE  IndInv' /\ Grows
<1>0. PICK offer : offer = rounds[s].offer
  OBVIOUS
<1>1. PICK m, p : m = offer.from /\ p = offer.to
  OBVIOUS
<1>2. /\ StoreInv /\ rounds[s] # Idle /\ rounds[s].phase = "offered"
      /\ offer \in Offers /\ m \in Origins /\ p \in Origins /\ turns' = turns
      /\ offer.seen \in Nat /\ offer.after \in Nat /\ offer.events \in Seq(Events)
  BY <1>0, <1>1, RoundFields DEF IndInv, TypeOK, StoreInv, AnswerOffer, Offers
<1>3. /\ m # p /\ offer.seen <= Len(store[m].events[p])
      /\ offer.after <= Len(store[p].events[m])
      /\ OwnEvents(offer.events, m, p, offer.after)
  <2>1. RoundSound(s)
    BY DEF IndInv
  <2> QED
    BY <1>0, <1>1, <1>2, <2>1 DEF RoundSound
<1>4. CASE store' = store /\ rounds' = [rounds EXCEPT ![s] = Idle]
  <2>1. StoreInv' /\ Grows
    BY <1>2, <1>4, SameStore
  <2>2. TypeOK'
    BY <1>2, <1>4, <2>1 DEF IndInv, TypeOK, StoreInv
  <2>3. ASSUME NEW k \in Sessions PROVE RoundSound(k)'
    <3>1. CASE k # s
      BY <1>4, <2>1, <3>1, RoundKept DEF IndInv, StoreInv, TypeOK
    <3>2. CASE k = s
      <4>1. rounds'[k] = Idle /\ rounds'[k].phase # "answered"
        BY <1>4, <3>2 DEF IndInv, TypeOK, Idle
      <4> QED
        BY <4>1 DEF RoundSound
    <3> QED
      BY <3>1, <3>2
  <2> QED
    BY <2>1, <2>2, <2>3 DEF IndInv, StoreInv
<1>5. ASSUME ~AheadOfHistory(store[p], offer.seen),
             store' = [store EXCEPT ![p] = Respond(store[p], offer)],
             rounds' = [rounds EXCEPT ![s] = [phase |-> "answered", offer |-> offer,
                                              answer |-> Answer(store[p], offer)]]
      PROVE  IndInv' /\ Grows
  <2>1. store' = [store EXCEPT ![p] = RecordAck(Receive(store[p], m, offer.events).db, m, offer.seen)]
    BY <1>1, <1>5 DEF Respond
  <2>2. StoreInv' /\ Grows
    BY <1>2, <1>3, <2>1, ReceivedKeeps DEF OwnEvents
  <2>3. PICK answer : answer = Answer(store[p], offer)
    OBVIOUS
  <2>4. store'[p] = Respond(store[p], offer) /\ store'[m] = store[m] /\ store[p].origin = p
    BY <1>2, <1>3, <1>5 DEF StoreInv, Consecutive
  <2>5. /\ answer.from = p
        /\ answer.seen = store'[p].cursors[m].seen
        /\ answer.events = Batch(store'[p], m, offer.seen)
        /\ answer.rejected = Receive(store[p], m, offer.events).rejected
        /\ answer = [from |-> answer.from, seen |-> answer.seen, events |-> answer.events,
                     rejected |-> answer.rejected]
    BY <1>1, <2>3, <2>4 DEF Answer
  <2>6. answer.rejected \in Rejections
    BY <1>2, <1>3, <2>1, <2>5, ReceivedKeeps DEF OwnEvents
  <2>7. SendsOwn'
    BY <2>2, StoreInvSendsOwn, PTL
  <2>8. offer.seen <= LocalSeen(store'[p])
    <3>1. offer.seen <= Len(store[p].events[p])
      <4>1. Len(store[m].events[p]) <= Len(store[p].events[p])
        BY <1>2, <1>3, WithinOriginal
      <4>2. Len(store[m].events[p]) \in Nat /\ Len(store[p].events[p]) \in Nat
        BY <1>2, StoreFields DEF StoreInv
      <4> QED
        BY <1>2, <1>3, <4>1, <4>2, Chain, Zenon
    <3>2. Len(store[p].events[p]) <= Len(store'[p].events[p])
      BY <1>2, <2>2 DEF Grows
    <3>3. LocalSeen(store'[p]) = Len(store'[p].events[p])
      BY <1>2, <2>2 DEF StoreInv, Consecutive, LocalSeen
    <3>4. Len(store[p].events[p]) \in Nat /\ Len(store'[p].events[p]) \in Nat
      <4>1. store[p].events \in [Origins -> Seq(Stored)] /\ store'[p].events \in [Origins -> Seq(Stored)]
        BY <1>2, <2>2 DEF StoreInv, Databases
      <4> QED
        BY SMTT(30), <1>2, <4>1
    <3>5. offer.seen <= Len(store'[p].events[p])
      BY <1>2, <3>1, <3>2, <3>4, Chain, Zenon
    <3> QED
      BY <3>3, <3>5
  <2>9. /\ answer.events \in Seq(Events)
        /\ OwnEvents(answer.events, p, m, offer.seen)'
    BY <1>2, <1>3, <2>5, <2>7, <2>8 DEF SendsOwn
  <2>10. answer.seen = Len(store'[p].events[m]) /\ answer.seen \in Nat
    <3>1. answer.seen = Len(store'[p].events[m])
      BY <1>2, <2>2, <2>5 DEF StoreInv, Consecutive
    <3>2. store'[p].events \in [Origins -> Seq(Stored)]
      BY <1>2, <2>2 DEF StoreInv, Databases
    <3> QED
      BY <1>2, <3>1, <3>2
  <2>11. answer \in Answers
    BY <1>2, <2>5, <2>6, <2>9, <2>10 DEF Answers
  <2>12. rounds' = [rounds EXCEPT ![s] = [phase |-> "answered", offer |-> offer, answer |-> answer]]
    BY <1>5, <2>3
  <2>13. TypeOK'
    BY <1>2, <2>2, <2>11, <2>12 DEF IndInv, TypeOK, StoreInv
  <2>14. ASSUME NEW k \in Sessions PROVE RoundSound(k)'
    <3>1. CASE k # s
      BY <2>2, <2>12, <3>1, RoundKept DEF IndInv, StoreInv, TypeOK
    <3>2. CASE k = s
      <4>1. rounds'[k].offer = offer /\ rounds'[k].answer = answer
        BY <2>12, <3>2 DEF IndInv, TypeOK
      <4>2. offer.seen <= Len(store'[m].events[p])
        BY <1>3, <2>4
      <4>3. OwnEvents(offer.events, m, p, offer.after)'
        BY <1>2, <1>3, <2>2, OwnEventsKept DEF StoreInv
      <4>4. answer.seen <= Len(store'[p].events[m])
        BY <2>10
      <4>5. offer.after <= Len(store'[p].events[m])
        <5>1. Len(store[p].events[m]) <= Len(store'[p].events[m])
          BY <1>2, <2>2 DEF Grows
        <5>2. Len(store[p].events[m]) \in Nat /\ Len(store'[p].events[m]) \in Nat
          BY <1>2, <2>10, StoreFields DEF StoreInv
        <5> QED
          BY <1>2, <1>3, <5>1, <5>2, Chain, Zenon
      <4> QED
        BY <1>1, <1>3, <2>5, <2>9, <4>1, <4>2, <4>3, <4>4, <4>5 DEF RoundSound
    <3> QED
      BY <3>1, <3>2
  <2> QED
    BY <2>2, <2>13, <2>14 DEF IndInv, StoreInv
<1> QED
  BY <1>0, <1>1, <1>4, <1>5 DEF AnswerOffer

LEMMA AcceptAnswerKeeps ==
  ASSUME IndInv, NEW s \in Sessions, AcceptAnswer(s)
  PROVE  IndInv' /\ Grows
<1>0. PICK offer, answer : offer = rounds[s].offer /\ answer = rounds[s].answer
  OBVIOUS
<1>1. PICK m, p : m = offer.from /\ p = offer.to
  OBVIOUS
<1>2. /\ StoreInv /\ rounds[s] # Idle /\ rounds[s].phase = "answered"
      /\ m \in Origins /\ p \in Origins /\ turns' = turns
      /\ rounds' = [rounds EXCEPT ![s] = Idle]
      /\ answer.seen \in Nat /\ answer.events \in Seq(Events)
  BY <1>0, <1>1, RoundFields DEF IndInv, TypeOK, StoreInv, AcceptAnswer, Offers, Answers
<1>3. /\ m # p /\ answer.from = p /\ answer.seen <= Len(store[p].events[m])
      /\ OwnEvents(answer.events, p, m, offer.seen)
  <2>1. RoundSound(s)
    BY DEF IndInv
  <2> QED
    BY <1>0, <1>1, <1>2, <2>1 DEF RoundSound
<1>4. StoreInv' /\ Grows
  <2>1. CASE store' = store
    BY <1>2, <2>1, SameStore
  <2>2. CASE store' = [store EXCEPT ![m] = Accept(store[m], answer)]
    <3>1. store' = [store EXCEPT ![m] = RecordAck(Receive(store[m], p, answer.events).db, p, answer.seen)]
      BY <1>3, <2>2 DEF Accept
    <3> QED
      BY <1>2, <1>3, <3>1, ReceivedKeeps DEF OwnEvents
  <2> QED
    BY <1>0, <1>1, <2>1, <2>2 DEF AcceptAnswer
<1>5. TypeOK'
  BY <1>2, <1>4 DEF IndInv, TypeOK, StoreInv
<1>6. ASSUME NEW k \in Sessions PROVE RoundSound(k)'
  <2>1. CASE k # s
    BY <1>2, <1>4, <2>1, RoundKept DEF IndInv, StoreInv, TypeOK
  <2>2. CASE k = s
    <3>1. rounds'[k] = Idle /\ rounds'[k].phase # "answered"
      BY <1>2, <2>2 DEF IndInv, TypeOK, Idle
    <3> QED
      BY <3>1 DEF RoundSound
  <2> QED
    BY <2>1, <2>2
<1> QED
  BY <1>4, <1>5, <1>6 DEF IndInv, StoreInv

LEMMA BreakKeeps ==
  ASSUME IndInv, NEW s \in Sessions, Break(s)
  PROVE  IndInv' /\ Grows
<1>1. /\ StoreInv /\ store' = store /\ turns' = turns
      /\ rounds' = [rounds EXCEPT ![s] = Idle]
  BY DEF IndInv, TypeOK, StoreInv, Break
<1>2. StoreInv' /\ Grows
  BY <1>1, SameStore
<1>3. TypeOK'
  BY <1>1, <1>2 DEF IndInv, TypeOK, StoreInv
<1>4. ASSUME NEW k \in Sessions PROVE RoundSound(k)'
  <2>1. CASE k # s
    BY <1>1, <1>2, <2>1, RoundKept DEF IndInv, StoreInv, TypeOK
  <2>2. CASE k = s
    <3>1. rounds'[k] = Idle /\ rounds'[k].phase # "answered"
      BY <1>1, <2>2 DEF IndInv, TypeOK, Idle
    <3> QED
      BY <3>1 DEF RoundSound
  <2> QED
    BY <2>1, <2>2
<1> QED
  BY <1>2, <1>3, <1>4 DEF IndInv, StoreInv

LEMMA CleanThreadKeeps ==
  ASSUME IndInv, NEW m \in Origins, NEW t \in Threads, CleanThread(m, t)
  PROVE  IndInv' /\ Grows
<1>1. StoreInv /\ turns \in [Origins -> SUBSET EventIds]
  BY DEF IndInv, TypeOK, StoreInv
<1>2. StoreInv' /\ Grows
  BY <1>1, CleanKeeps DEF CleanThread
<1> QED
  BY <1>1, <1>2, Settled DEF CleanThread

-----------------------------------------------------------------------------
(* The theorems *)

LEMMA InitIndInv == Init => IndInv
<1> SUFFICES ASSUME Init PROVE IndInv
  OBVIOUS
<1>1. ASSUME NEW m \in Origins PROVE EmptyDatabase(m) \in Databases
  <2>1. /\ [o \in Origins |-> <<>>] \in [Origins -> Seq(Stored)]
        /\ [o \in Origins |-> [seen |-> 0, clock |-> 0]] \in [Origins -> Cursors]
        /\ [o \in Origins |-> 0] \in [Origins -> Nat]
    BY DEF Cursors
  <2> QED
    BY <2>1 DEF EmptyDatabase, Databases
<1>2. TypeOK
  BY <1>1 DEF Init, TypeOK
<1>3. ASSUME NEW m \in Origins, NEW o \in Origins
      PROVE  /\ store[m].origin = m
             /\ store[m].cursors[o].seen = 0
             /\ store[m].acks[o] = 0
             /\ store[m].events[o] = <<>>
  BY DEF Init, EmptyDatabase
<1>4. Consecutive
  BY <1>3 DEF Consecutive
<1>5. AckSound
  BY <1>3 DEF AckSound
<1>6. FaithfulCopy
  BY <1>3 DEF FaithfulCopy
<1>7. CleanedAcknowledged
  BY <1>3 DEF CleanedAcknowledged
<1>8. ASSUME NEW s \in Sessions PROVE RoundSound(s)
  <2>1. rounds[s] = Idle /\ rounds[s].phase # "answered"
    BY DEF Init, Idle
  <2> QED
    BY <2>1 DEF RoundSound
<1> QED
  BY <1>2, <1>4, <1>5, <1>6, <1>7, <1>8 DEF IndInv

LEMMA NextKeeps == IndInv /\ [Next]_vars => IndInv' /\ Grows
<1> SUFFICES ASSUME IndInv, [Next]_vars PROVE IndInv' /\ Grows
  OBVIOUS
<1>0. turns \in [Origins -> SUBSET EventIds] /\ StoreInv
  BY DEF IndInv, TypeOK, StoreInv
<1>1. ASSUME NEW m \in Origins, NEW a \in Agents, AgentStep(m, a) PROVE IndInv' /\ Grows
  BY <1>0, <1>1, AgentStepWrites, WriteStepKeeps
<1>2. ASSUME NEW m \in Origins, NEW a \in Agents, TurnStep(m, a) PROVE IndInv' /\ Grows
  BY <1>2, TurnStepWrites, WriteStepKeeps
<1>3. ASSUME NEW s \in Sessions, RoundStep(s) PROVE IndInv' /\ Grows
  BY <1>3, MakeOfferKeeps, AnswerOfferKeeps, AcceptAnswerKeeps, BreakKeeps DEF RoundStep
<1>4. ASSUME NEW m \in Origins, NEW t \in Threads, CleanThread(m, t) PROVE IndInv' /\ Grows
  BY <1>4, CleanThreadKeeps
<1>5. CASE UNCHANGED vars
  <2>1. store' = store /\ turns' = turns /\ rounds' = rounds
    BY <1>5 DEF vars
  <2> QED
    BY <1>0, <2>1, SameStore, Settled
<1> QED
  BY <1>1, <1>2, <1>3, <1>4, <1>5 DEF Next

\* The inductive invariant, for any instance of the constants.
THEOREM Inductive == Spec => []IndInv
<1>1. IndInv /\ [Next]_vars => IndInv'
  BY NextKeeps
<1> QED
  BY InitIndInv, <1>1, PTL DEF Spec

\* Types: every transaction and every round leaves well formed databases.
THEOREM TypeCorrect == Spec => []TypeOK
<1>1. IndInv => TypeOK
  BY DEF IndInv
<1> QED
  BY <1>1, Inductive, PTL

\* Acknowledgments are sound: record_ack never counts an event as stored by a
\* peer that has not stored it.
THEOREM AckCorrect == Spec => []AckSound
<1>1. IndInv => AckSound
  BY DEF IndInv
<1> QED
  BY <1>1, Inductive, PTL

\* Copies are faithful: what a machine stores of another's ledger is a prefix of
\* it, in full inside each audience, whatever was cleaned in between.
THEOREM CopyCorrect == Spec => []FaithfulCopy
<1>1. IndInv => FaithfulCopy
  BY DEF IndInv
<1> QED
  BY <1>1, Inductive, PTL

-----------------------------------------------------------------------------
(* The tables of every machine agree with its log *)

\* Every database counts its events, its tables of asks and endings agree with what
\* it stores, and its own events come after what they refer to.
Judged == \A m \in Origins : Even(store[m]) /\ Decided(store[m]) /\ After(store[m])

\* other is as right as db, keeps its endings or has earlier ones, and takes no
\* acknowledgment back.
Improves(db, other) ==
  /\ Even(other)
  /\ Decided(other)
  /\ After(other)
  /\ EndingsKept(db, other)
  /\ \A o \in Origins : other.acks[o] >= db.acks[o]

Improved == \A m \in Origins : Improves(store[m], store'[m])

LEMMA SelfImproves ==
  ASSUME NEW db, Even(db), Decided(db), After(db)
  PROVE  Improves(db, db)
<1>1. \A o \in Origins : db.acks[o] >= db.acks[o]
  <2>1. db.acks \in [Origins -> Nat]
    BY DEF Even, Databases
  <2> QED
    BY <2>1
<1>2. EndingsKept(db, db)
  BY DEF EndingsKept
<1> QED
  BY <1>1, <1>2 DEF Improves

LEMMA OneImproves ==
  ASSUME StoreInv, Judged, NEW m \in Origins, NEW db, Improves(store[m], db),
         store' = [store EXCEPT ![m] = db]
  PROVE  Improved
<1> SUFFICES ASSUME NEW k \in Origins PROVE Improves(store[k], store'[k])
  BY DEF Improved
<1>1. store'[k] = IF k = m THEN db ELSE store[k]
  BY DEF StoreInv
<1>2. Improves(store[k], store[k])
  BY SelfImproves DEF Judged
<1> QED
  BY <1>1, <1>2

LEMMA SameImproves ==
  ASSUME Judged, store' = store
  PROVE  Improved
BY SelfImproves DEF Improved, Judged

\* Improving twice is improving.
LEMMA ImprovesTwice ==
  ASSUME NEW db, NEW one, NEW two, Even(db), Improves(db, one), Improves(one, two)
  PROVE  Improves(db, two)
<1>1. db \in Databases /\ one \in Databases /\ two \in Databases
  BY DEF Improves, Even
<1>2. EndingsKept(db, two)
  BY <1>1, KeptTwice DEF Improves
<1>3. ASSUME NEW o \in Origins PROVE two.acks[o] >= db.acks[o]
  <2>1. db.acks[o] \in Nat /\ one.acks[o] \in Nat /\ two.acks[o] \in Nat
    <3>1. db.acks \in [Origins -> Nat] /\ one.acks \in [Origins -> Nat] /\ two.acks \in [Origins -> Nat]
      BY <1>1 DEF Databases
    <3> QED
      BY <3>1
  <2>2. one.acks[o] >= db.acks[o] /\ two.acks[o] >= one.acks[o]
    BY DEF Improves
  <2> QED
    BY <2>1, <2>2
<1> QED
  BY <1>2, <1>3 DEF Improves

\* Writing an event.
LEMMA AuthorImproves ==
  ASSUME NEW db, Even(db), Decided(db), After(db), NEW priority, NEW body \in Bodies, CanAuthor(db, priority, body)
  PROVE  Improves(db, Author(db, body))
<1>0. After(Author(db, body))
  BY AuthorAfter
<1>1. Even(Author(db, body)) /\ Decided(Author(db, body)) /\ EndingsKept(db, Author(db, body))
  BY AuthorDecides
<1>2. db \in Databases /\ LocalSeen(db) = Len(db.events[db.origin])
  <2>1. db.origin \in Origins
    BY DEF Even, Databases
  <2> QED
    BY <2>1 DEF Even, LocalSeen
<1>3. Author(db, body).acks = db.acks /\ db.acks \in [Origins -> Nat]
  <2>1. Authored(db, Author(db, body))
    BY <1>2, AuthorAuthored
  <2> QED
    BY <1>2, <2>1 DEF Authored, Databases
<1>4. \A o \in Origins : Author(db, body).acks[o] >= db.acks[o]
  BY <1>3
<1> QED
  BY <1>0, <1>1, <1>4 DEF Improves

LEMMA WritesImprove ==
  ASSUME StoreInv, Judged, NEW m \in Origins, Writes(m)
  PROVE  Improved
<1>0. Even(store[m]) /\ Decided(store[m]) /\ After(store[m])
  BY DEF Judged
<1>1. ASSUME NEW priority, NEW body \in Bodies, Write(m, priority, body) PROVE Improved
  <2>1. CanAuthor(store[m], priority, body) /\ store' = [store EXCEPT ![m] = Author(store[m], body)]
    BY <1>1 DEF Write
  <2>2. Improves(store[m], Author(store[m], body))
    BY <1>0, <2>1, AuthorImproves
  <2> QED
    BY <2>1, <2>2, OneImproves
<1>2. ASSUME NEW priority, NEW first \in Bodies, NEW second \in Bodies, WriteBoth(m, priority, first, second)
      PROVE  Improved
  <2>1. PICK one, two : one = Author(store[m], first) /\ two = Author(one, second)
    OBVIOUS
  <2>2. CanAuthor(store[m], priority, first) /\ CanAuthor(one, "ending", second) /\ store' = [store EXCEPT ![m] = two]
    BY <1>2, <2>1 DEF WriteBoth
  <2>3. Improves(store[m], one)
    BY <1>0, <2>1, <2>2, AuthorImproves
  <2>4. Improves(one, two)
    <3>1. Even(one) /\ Decided(one) /\ After(one)
      BY <2>3 DEF Improves
    <3> QED
      BY <2>1, <2>2, <3>1, AuthorImproves
  <2>5. Improves(store[m], two)
    BY <1>0, <2>3, <2>4, ImprovesTwice
  <2> QED
    BY <2>2, <2>5, OneImproves
<1> QED
  BY <1>1, <1>2 DEF Writes

\* Recording an acknowledgment.
LEMMA AckImproves ==
  ASSUME NEW db, Even(db), Decided(db), After(db), NEW peer \in Origins, NEW seen \in Nat
  PROVE  Improves(db, RecordAck(db, peer, seen))
<1>0. db \in Databases /\ db.acks \in [Origins -> Nat]
  BY DEF Even, Databases
<1>1. PICK other : other = RecordAck(db, peer, seen)
  OBVIOUS
<1>2. /\ other \in Databases /\ other.origin = db.origin /\ other.events = db.events /\ other.cursors = db.cursors
      /\ \A q \in Origins \ {peer} : other.acks[q] = db.acks[q]
      /\ other.acks[peer] >= db.acks[peer]
  <2>1. LET next == RecordAck(db, peer, seen) IN
        /\ next.origin = db.origin
        /\ next \in Databases /\ next.events = db.events /\ next.cursors = db.cursors
        /\ \A q \in Origins \ {peer} : next.acks[q] = db.acks[q]
        /\ next.acks[peer] >= db.acks[peer]
    BY <1>0, RecordAckType, Zenon
  <2> QED
    BY <1>1, <2>1, Zenon
<1>3. /\ other.open = db.open /\ other.resolutions = db.resolutions
      /\ other.usage = db.usage /\ other.clock = db.clock
  <2>1. \E acks : other = [db EXCEPT !.acks = acks]
    BY <1>0, <1>1 DEF RecordAck, Databases
  <2> QED
    BY <1>0, <2>1 DEF Databases
<1>4. Even(other) /\ Decided(other) /\ EndingsKept(db, other)
  BY <1>2, <1>3, SameDecides
<1>5. \A o \in Origins : other.acks[o] >= db.acks[o]
  BY <1>0, <1>2
<1>6. After(other)
  <2>1. StoredIds(other) = StoredIds(db) /\ \A id : StoredAt(other, id) = StoredAt(db, id)
    BY <1>2 DEF StoredIds, StoredAt
  <2> QED
    BY <1>2, <2>1, AfterKept
<1> QED
  BY <1>1, <1>4, <1>5, <1>6 DEF Improves

\* Applying a batch with an acknowledgment.
LEMMA ReceivedImproves ==
  ASSUME StoreInv, Judged, NEW m \in Origins, NEW p \in Origins, m # p,
         NEW events \in Seq(Events), \A i \in 1..Len(events) : OwnEvent(events[i], m, p),
         NEW seen \in Nat,
         store' = [store EXCEPT ![p] = RecordAck(Receive(store[p], m, events).db, m, seen)]
  PROVE  Improved
<1>0. Even(store[p]) /\ Decided(store[p]) /\ After(store[p]) /\ store[p] \in Databases /\ store[p].origin = p
  BY DEF Judged, StoreInv, Consecutive
<1>1. PICK got : got = Receive(store[p], m, events).db
  OBVIOUS
<1>2. Even(got) /\ Decided(got) /\ EndingsKept(store[p], got)
  BY <1>0, <1>1, ReceiveDecides
<1>3. Extended(store[p], m, store[m].events[m], got)
  BY <1>1, ReceivedExtends
<1>4. Improves(store[p], got)
  <2>1. \A o \in Origins : got.acks[o] >= store[p].acks[o]
    <3>1. store[p].acks \in [Origins -> Nat]
      BY <1>0 DEF Databases
    <3> QED
      BY <1>3, <3>1 DEF Extended
  <2>2. After(got)
    <3>1. ASSUME NEW id \in StoredIds(store[p]) PROVE StoredAt(got, id).event = StoredAt(store[p], id).event
      <4>1. id[1] \in Origins /\ id[2] \in 1..Len(store[p].events[id[1]])
        BY <1>0, StoredIdFacts
      <4> QED
        BY <1>3, <4>1 DEF Extended, StoredAt
    <3>2. ASSUME NEW id \in StoredIds(got), id[1] = p PROVE id \in StoredIds(store[p])
      <4>1. got.events[p] = store[p].events[p]
        BY <1>3 DEF Extended
      <4>2. id \in {p} \X (1..Len(store[p].events[p]))
        BY <3>2, <4>1 DEF StoredIds
      <4> QED
        BY <4>2 DEF StoredIds
    <3>3. got.origin = p
      BY <1>0, <1>3 DEF Extended
    <3> QED
      BY <1>0, <3>1, <3>2, <3>3, AfterKept
  <2> QED
    BY <1>2, <2>1, <2>2 DEF Improves
<1>5. Improves(got, RecordAck(got, m, seen))
  BY <1>2, <1>4, AckImproves DEF Improves
<1>6. Improves(store[p], RecordAck(got, m, seen))
  BY <1>0, <1>4, <1>5, ImprovesTwice
<1> QED
  BY <1>1, <1>6, OneImproves

\* A step of an exchange round.
LEMMA RoundStepImproves ==
  ASSUME IndInv, Judged, NEW s \in Sessions, RoundStep(s)
  PROVE  Improved
<1>0. StoreInv
  BY DEF IndInv, TypeOK, StoreInv
<1>1. CASE store' = store
  BY <1>1, SameImproves
<1>2. CASE AnswerOffer(s) /\ store' # store
  <2>0. PICK offer : offer = rounds[s].offer
    OBVIOUS
  <2>1. PICK m, p : m = offer.from /\ p = offer.to
    OBVIOUS
  <2>2. /\ rounds[s] # Idle /\ rounds[s].phase = "offered"
        /\ offer \in Offers /\ m \in Origins /\ p \in Origins
        /\ offer.seen \in Nat /\ offer.events \in Seq(Events)
    BY <1>2, <2>0, <2>1, RoundFields DEF IndInv, TypeOK, AnswerOffer, Offers
  <2>3. m # p /\ \A i \in 1..Len(offer.events) : OwnEvent(offer.events[i], m, p)
    <3>1. RoundSound(s)
      BY DEF IndInv
    <3> QED
      BY <2>0, <2>1, <2>2, <3>1 DEF RoundSound, OwnEvents
  <2>4. store' = [store EXCEPT ![p] = Respond(store[p], offer)]
    BY <1>2, <2>0, <2>1 DEF AnswerOffer
  <2>5. store' = [store EXCEPT ![p] = RecordAck(Receive(store[p], m, offer.events).db, m, offer.seen)]
    BY <2>1, <2>4 DEF Respond
  <2> QED
    BY <1>0, <2>2, <2>3, <2>5, ReceivedImproves
<1>3. CASE AcceptAnswer(s) /\ store' # store
  <2>0. PICK offer, answer : offer = rounds[s].offer /\ answer = rounds[s].answer
    OBVIOUS
  <2>1. PICK m, p : m = offer.from /\ p = offer.to
    OBVIOUS
  <2>2. /\ rounds[s] # Idle /\ rounds[s].phase = "answered"
        /\ m \in Origins /\ p \in Origins
        /\ answer.seen \in Nat /\ answer.events \in Seq(Events)
    BY <1>3, <2>0, <2>1, RoundFields DEF IndInv, TypeOK, AcceptAnswer, Offers, Answers
  <2>3. m # p /\ answer.from = p /\ \A i \in 1..Len(answer.events) : OwnEvent(answer.events[i], p, m)
    <3>1. RoundSound(s)
      BY DEF IndInv
    <3> QED
      BY <2>0, <2>1, <2>2, <3>1 DEF RoundSound, OwnEvents
  <2>4. store' = [store EXCEPT ![m] = Accept(store[m], answer)]
    BY <1>3, <2>0, <2>1 DEF AcceptAnswer
  <2>5. store' = [store EXCEPT ![m] = RecordAck(Receive(store[m], p, answer.events).db, p, answer.seen)]
    BY <2>3, <2>4 DEF Accept
  <2> QED
    BY <1>0, <2>2, <2>3, <2>5, ReceivedImproves
<1>4. \/ store' = store
      \/ AnswerOffer(s)
      \/ AcceptAnswer(s)
  BY DEF RoundStep, MakeOffer, Break
<1> QED
  BY <1>1, <1>2, <1>3, <1>4

\* Cleaning a conversation.
LEMMA CleanThreadImproves ==
  ASSUME StoreInv, Judged, NEW m \in Origins, NEW t \in Threads, CleanThread(m, t)
  PROVE  Improved
<1>1. store' = [store EXCEPT ![m] = Clean(store[m], t)] /\ Cleanable(store[m], t)
  BY DEF CleanThread
<1>2. Even(store[m]) /\ Decided(store[m]) /\ After(store[m]) /\ store[m] \in Databases
  BY DEF Judged, StoreInv
<1>3. PICK N : N = Clean(store[m], t)
  OBVIOUS
<1>4. Even(N) /\ Decided(N) /\ EndingsKept(store[m], N)
  BY <1>1, <1>2, <1>3, CleanDecides
<1>5. N.acks = store[m].acks /\ store[m].acks \in [Origins -> Nat]
  BY <1>2, <1>3, CleanType DEF Databases
<1>6. \A o \in Origins : N.acks[o] >= store[m].acks[o]
  BY <1>5
<1>7. After(N)
  <2>1. /\ N.origin = store[m].origin
        /\ \A o \in Origins :
             /\ Len(N.events[o]) = Len(store[m].events[o])
             /\ \A s \in 1..Len(store[m].events[o]) : N.events[o][s].event = store[m].events[o][s].event
    BY SMTT(30), <1>2, <1>3, CleanType
  <2>2. StoredIds(N) = StoredIds(store[m])
    BY <2>1 DEF StoredIds
  <2>3. \A id \in StoredIds(store[m]) : StoredAt(N, id).event = StoredAt(store[m], id).event
    BY <1>2, <2>1, StoredIdFacts DEF StoredAt
  <2> QED
    BY <1>2, <2>1, <2>2, <2>3, AfterKept
<1>8. Improves(store[m], N)
  BY <1>4, <1>6, <1>7 DEF Improves
<1> QED
  BY <1>1, <1>3, <1>8, OneImproves

LEMMA NextImproves == IndInv /\ Judged /\ [Next]_vars => Improved
<1> SUFFICES ASSUME IndInv, Judged, [Next]_vars PROVE Improved
  OBVIOUS
<1>0. StoreInv
  BY DEF IndInv, TypeOK, StoreInv
<1>1. ASSUME NEW m \in Origins, NEW a \in Agents, AgentStep(m, a) PROVE Improved
  BY <1>0, <1>1, AgentStepWrites, WritesImprove
<1>2. ASSUME NEW m \in Origins, NEW a \in Agents, TurnStep(m, a) PROVE Improved
  BY <1>0, <1>2, TurnStepWrites, WritesImprove
<1>3. ASSUME NEW s \in Sessions, RoundStep(s) PROVE Improved
  BY <1>3, RoundStepImproves
<1>4. ASSUME NEW m \in Origins, NEW t \in Threads, CleanThread(m, t) PROVE Improved
  BY <1>0, <1>4, CleanThreadImproves
<1>5. CASE UNCHANGED vars
  BY <1>5, SameImproves DEF vars
<1> QED
  BY <1>1, <1>2, <1>3, <1>4, <1>5 DEF Next

LEMMA InitJudged == Init => Judged
<1> SUFFICES ASSUME Init, NEW m \in Origins
             PROVE  Even(store[m]) /\ Decided(store[m]) /\ After(store[m])
  BY DEF Judged
<1>1. PICK db : db = store[m]
  OBVIOUS
<1>2. /\ \A o \in Origins : db.events[o] = <<>> /\ db.cursors[o].seen = 0 /\ db.cursors[o].clock = 0
      /\ db.usage = 0 /\ db.open = {} /\ db.resolutions = {}
  BY <1>1 DEF Init, EmptyDatabase
<1>3. db \in Databases
  BY <1>1, InitIndInv DEF IndInv, TypeOK
<1>4. StoredIds(db) = {}
  <2>1. \A o \in Origins : 1..Len(db.events[o]) = {}
    BY <1>2
  <2> QED
    BY <2>1 DEF StoredIds
<1>5. KeptIds(db) = {} /\ AskIds(db) = {}
  BY <1>4 DEF KeptIds, AskIds
<1>6. Even(db)
  <2>1. Cardinality({}) = 0
    BY FS_EmptySet
  <2>2. Timed(db)
    BY <1>2 DEF Timed
  <2> QED
    BY <1>2, <1>3, <1>4, <1>5, <2>1, <2>2 DEF Even
<1>7. Decided(db)
  BY <1>2, <1>4, <1>5 DEF Decided
<1>8. After(db)
  BY <1>4 DEF After
<1> QED
  BY <1>1, <1>6, <1>7, <1>8

\* The tables agree with the logs in every state, for any instance of the constants.
THEOREM TablesAgree == Spec => []Judged
<1>1. IndInv /\ Judged /\ [Next]_vars => Judged'
  <2> SUFFICES ASSUME IndInv, Judged, [Next]_vars PROVE Judged'
    OBVIOUS
  <2>1. Improved
    BY NextImproves
  <2> QED
    BY <2>1 DEF Improved, Improves, Judged
<1> QED
  BY <1>1, InitJudged, Inductive, PTL DEF Spec

\* An ask ends with the earliest of its endings that are stored, whatever order they
\* arrived in and whatever was cleaned in between (Tx::admit, resolve).
THEOREM EndingCorrect == Spec => []EarliestEnding
<1>1. Judged => EarliestEnding
  <2> SUFFICES ASSUME Judged, NEW m \in Origins
               PROVE  /\ store[m].open = {id \in AsksAt(m) : EndingsAt(m, id) = {}}
                      /\ \A ask \in AsksAt(m) :
                           /\ EndingsAt(m, ask) = {} => ResolutionOf(store[m], ask) = {}
                           /\ EndingsAt(m, ask) # {} => \E r \in ResolutionOf(store[m], ask) :
                                /\ ResolutionOf(store[m], ask) = {r}
                                /\ r.event \in EndingsAt(m, ask)
                                /\ \A other \in EndingsAt(m, ask) \ {r.event} : Earlier(m, r.event, other)
    BY DEF EarliestEnding
  <2>1. Decided(store[m])
    BY DEF Judged
  <2>2. AsksAt(m) = AskIds(store[m])
    BY DEF AsksAt, AskIds, EventOf
  <2>3. \A ask : EndingsAt(m, ask) = EndingIds(store[m], ask)
    BY DEF EndingsAt, EndingIds, Ends, EventOf
  <2>4. \A id, other : Earlier(m, id, other) <=> Precedes(Stamp(store[m], id), Stamp(store[m], other))
    BY DEF Earlier, Stamp, EventOf
  <2>5. store[m].open = {id \in AsksAt(m) : EndingsAt(m, id) = {}}
    BY <2>1, <2>2, <2>3 DEF Decided
  <2>6. ASSUME NEW ask \in AsksAt(m), EndingsAt(m, ask) # {}
        PROVE  \E r \in ResolutionOf(store[m], ask) :
                 /\ ResolutionOf(store[m], ask) = {r}
                 /\ r.event \in EndingsAt(m, ask)
                 /\ \A other \in EndingsAt(m, ask) \ {r.event} : Earlier(m, r.event, other)
    <3>1. PICK r : InForce(store[m], ask, r)
      BY <2>1, <2>2, <2>3, <2>6 DEF Decided
    <3> QED
      BY <2>3, <2>4, <3>1 DEF InForce
  <2>7. \A ask \in AsksAt(m) : EndingsAt(m, ask) = {} => ResolutionOf(store[m], ask) = {}
    BY <2>1, <2>2, <2>3 DEF Decided
  <2> QED
    BY <2>5, <2>6, <2>7
<1> QED
  BY <1>1, TablesAgree, PTL

\* The usage counter counts the events whose content is kept, so cleaning makes the
\* room it promises and the counter never drifts (Tx::commit, clean_in).
THEOREM UsageCorrect == Spec => []UsageExact
<1>1. Judged => UsageExact
  BY DEF Judged, Even, KeptIds, UsageExact
<1> QED
  BY <1>1, TablesAgree, PTL

\* A step takes back no acknowledgment and no cursor, changes no stored event, and
\* replaces an ending only by an earlier one (record_ack, apply, clean_in).
THEOREM NothingTakenBack == Spec => NeverTakenBack
<1> DEFINE Kept ==
      \A m, o \in Origins :
        /\ store'[m].acks[o] >= store[m].acks[o]
        /\ store'[m].cursors[o].seen >= store[m].cursors[o].seen
        /\ \A s \in 1..Len(store[m].events[o]) :
             store'[m].events[o][s].event = store[m].events[o][s].event
        /\ \A r \in store[m].resolutions :
             \E q \in store'[m].resolutions : q.request = r.request /\ (q = r \/ Precedes(q, r))
<1>1. IndInv /\ Judged /\ [Next]_vars => Kept
  <2> SUFFICES ASSUME IndInv, Judged, [Next]_vars, NEW m \in Origins, NEW o \in Origins
               PROVE  /\ store'[m].acks[o] >= store[m].acks[o]
                      /\ store'[m].cursors[o].seen >= store[m].cursors[o].seen
                      /\ \A s \in 1..Len(store[m].events[o]) :
                           store'[m].events[o][s].event = store[m].events[o][s].event
                      /\ \A r \in store[m].resolutions :
                           \E q \in store'[m].resolutions : q.request = r.request /\ (q = r \/ Precedes(q, r))
    OBVIOUS
  <2>1. IndInv' /\ Grows /\ Improves(store[m], store'[m])
    BY NextKeeps, NextImproves DEF Improved
  <2>2. store'[m].acks[o] >= store[m].acks[o]
    BY <2>1 DEF Improves
  <2>3. \A r \in store[m].resolutions :
          \E q \in store'[m].resolutions : q.request = r.request /\ (q = r \/ Precedes(q, r))
    BY <2>1 DEF Improves, EndingsKept
  <2>4. store'[m].cursors[o].seen >= store[m].cursors[o].seen
    <3>1. /\ store[m].cursors[o].seen = Len(store[m].events[o])
          /\ store'[m].cursors[o].seen = Len(store'[m].events[o])
      BY <2>1 DEF IndInv, Consecutive
    <3>2. Len(store[m].events[o]) <= Len(store'[m].events[o])
      BY <2>1 DEF Grows
    <3> QED
      BY <3>1, <3>2
  <2>5. \A s \in 1..Len(store[m].events[o]) :
          store'[m].events[o][s].event = store[m].events[o][s].event
    BY <2>1 DEF Grows
  <2> QED
    BY <2>2, <2>3, <2>4, <2>5
<1> QED
  BY <1>1, Inductive, TablesAgree, PTL DEF Spec, NeverTakenBack

\* A stored event has the clock its machine gave it, in full or as a placeholder.
LEMMA OneClock ==
  ASSUME StoreInv, NEW m \in Origins, NEW id \in StoredIds(store[m])
  PROVE  /\ id[1] \in Origins /\ id \in StoredIds(store[id[1]])
         /\ EventOf(m, id).clock = EventOf(id[1], id).clock
         /\ EventOf(m, id).body.request # NoRequest => EventOf(m, id) = EventOf(id[1], id)
<1>1. store[m] \in Databases
  BY DEF StoreInv
<1>2. PICK o, s : o = id[1] /\ s = id[2]
  OBVIOUS
<1>3. o \in Origins /\ s \in 1..Len(store[m].events[o]) /\ id = <<o, s>>
  <2>1. PICK q \in Origins : id \in {q} \X (1..Len(store[m].events[q]))
    BY DEF StoredIds
  <2> QED
    BY <1>2, <2>1
<1>4. CASE o = m
  BY <1>2, <1>3, <1>4
<1>5. CASE o # m
  <2>1. s <= Len(store[o].events[o]) /\ store[m].events[o][s].event = Export(Original(o, s), m)
    BY <1>3, <1>5 DEF StoreInv, FaithfulCopy
  <2>2. Len(store[m].events[o]) \in Nat /\ Len(store[o].events[o]) \in Nat
    BY <1>3, StoreFields DEF StoreInv
  <2>3. s \in 1..Len(store[o].events[o])
    BY <1>3, <2>1, <2>2
  <2>4. id \in StoredIds(store[o])
    BY <1>3, <2>3 DEF StoredIds
  <2>5. PICK e : e = Original(o, s)
    OBVIOUS
  <2>6. e \in Events
    BY <1>3, <2>3, <2>5, StoreFields DEF StoreInv, Original
  <2>7. EventOf(m, id) = Export(e, m) /\ EventOf(o, id) = e
    BY <1>2, <2>1, <2>5 DEF EventOf, StoredAt, Original
  <2>8. Export(e, m) = e \/ Export(e, m) = [e EXCEPT !.body = Omitted]
    BY DEF Export
  <2>9. [e EXCEPT !.body = Omitted].clock = e.clock /\ [e EXCEPT !.body = Omitted].body.request = NoRequest
    BY <2>6 DEF Events, Omitted, Notice
  <2> QED
    BY <1>2, <1>3, <2>4, <2>7, <2>8, <2>9
<1> QED
  BY <1>4, <1>5

\* What a stored event refers to is stored with it and was written before it: its own
\* machine had stored it, and every copy is judged where it arrives (Ledger::parent).
THEOREM CauseCorrect == Spec => []CausallyClosed
<1>1. IndInv /\ Judged => CausallyClosed
  <2> SUFFICES ASSUME IndInv, Judged, NEW m \in Origins, NEW id \in StoredIds(store[m]),
                      EventOf(m, id).body.request # NoRequest
               PROVE  /\ Holds(store[m], EventOf(m, id).body.request)
                      /\ EventOf(m, EventOf(m, id).body.request).clock < EventOf(m, id).clock
    BY DEF CausallyClosed
  <2>0. StoreInv
    BY DEF IndInv, TypeOK, StoreInv
  <2>1. PICK e, parent, o : e = EventOf(m, id) /\ parent = e.body.request /\ o = id[1]
    OBVIOUS
  <2>2. o \in Origins /\ id \in StoredIds(store[o]) /\ EventOf(o, id) = e
    BY <2>0, <2>1, OneClock
  <2>3. parent \in StoredIds(store[m]) /\ parent \in StoredIds(store[o])
    BY SMTT(30), <2>1, <2>2 DEF Judged, Decided, EventOf
  <2>4. EventOf(o, parent).clock < e.clock
    <3>1. store[o].origin = o /\ After(store[o])
      BY <2>0, <2>2 DEF StoreInv, Consecutive, Judged
    <3> QED
      BY <2>1, <2>2, <3>1 DEF After, EventOf
  <2>5. EventOf(m, parent).clock = EventOf(o, parent).clock
    BY <2>0, <2>2, <2>3, OneClock
  <2>6. Holds(store[m], parent)
    BY <2>0, <2>3, StoredIdFacts DEF StoreInv
  <2> QED
    BY <2>1, <2>4, <2>5, <2>6
<1> QED
  BY <1>1, Inductive, TablesAgree, PTL

-----------------------------------------------------------------------------
(* What a machine writes continues what it stores *)

\* Every machine's own events are grounded, and what its workers have claimed are asks.
Continued == \A m \in Origins : Founded(store[m]) /\ turns[m] \subseteq AskIds(store[m])

\* A transaction that writes a grounded event, and perhaps one about no message.
Founds(m) ==
  \/ \E priority : \E body \in Bodies : Write(m, priority, body) /\ Grounds(store[m], body)
  \/ \E priority : \E first, second \in Bodies :
       /\ WriteBoth(m, priority, first, second)
       /\ Grounds(store[m], first)
       /\ second.request = NoRequest

LEMMA FoundsKeep ==
  ASSUME StoreInv, Judged, NEW m \in Origins, Founded(store[m]), Founds(m)
  PROVE  Founded(store'[m]) /\ \A k \in Origins \ {m} : store'[k] = store[k]
<1>0. Even(store[m]) /\ Decided(store[m]) /\ store \in [Origins -> Databases]
  BY DEF Judged, StoreInv
<1>1. ASSUME NEW priority, NEW body \in Bodies, Write(m, priority, body), Grounds(store[m], body)
      PROVE  Founded(store'[m]) /\ \A k \in Origins \ {m} : store'[k] = store[k]
  <2>1. CanAuthor(store[m], priority, body) /\ store' = [store EXCEPT ![m] = Author(store[m], body)]
    BY <1>1 DEF Write
  <2>2. Founded(Author(store[m], body))
    BY <1>0, <1>1, <2>1, AuthorFounded
  <2> QED
    BY <1>0, <2>1, <2>2
<1>2. ASSUME NEW priority, NEW first \in Bodies, NEW second \in Bodies, WriteBoth(m, priority, first, second),
             Grounds(store[m], first), second.request = NoRequest
      PROVE  Founded(store'[m]) /\ \A k \in Origins \ {m} : store'[k] = store[k]
  <2>1. PICK one, two : one = Author(store[m], first) /\ two = Author(one, second)
    OBVIOUS
  <2>2. /\ CanAuthor(store[m], priority, first) /\ CanAuthor(one, "ending", second)
        /\ store' = [store EXCEPT ![m] = two]
    BY <1>2, <2>1 DEF WriteBoth
  <2>3. Even(one) /\ Decided(one) /\ Founded(one)
    BY <1>0, <1>2, <2>1, <2>2, AuthorDecides, AuthorFounded
  <2>4. Grounds(one, second)
    BY <1>2 DEF Grounds
  <2>5. Founded(two)
    BY <2>1, <2>2, <2>3, <2>4, AuthorFounded
  <2> QED
    BY <1>0, <2>2, <2>5
<1> QED
  BY <1>1, <1>2 DEF Founds

\* What an agent writes continues a message that its machine can read.
LEMMA AgentStepFounds ==
  ASSUME IndInv, NEW m \in Origins, NEW a \in Agents, AgentStep(m, a)
  PROVE  Founds(m) /\ turns' = turns
<1>0. StoreInv /\ store[m] \in Databases
  BY DEF IndInv, TypeOK, StoreInv
<1>1. ASSUME NEW kind \in PublicKinds
      PROVE  /\ Notice(kind, a) \in Bodies /\ Notice(kind, a).request = NoRequest
             /\ Grounds(store[m], Notice(kind, a))
  <2>1. Notice(kind, a).request = NoRequest
    BY DEF Notice
  <2> QED
    BY <2>1, BodyTypes DEF Grounds
<1>2. CASE Start(m, a)
  BY <1>1, <1>2 DEF Start, PublicKinds, Founds
<1>3. CASE Join(m, a)
  BY <1>1, <1>3 DEF Join, PublicKinds, Founds
<1>4. ASSUME NEW kind \in {"send", "ask"}, NEW t \in Threads, NEW r \in Agents \cup {NoAgent}
      PROVE  /\ Message(kind, t, a, NoRequest, r) \in Bodies
             /\ Grounds(store[m], Message(kind, t, a, NoRequest, r))
  <2>1. Message(kind, t, a, NoRequest, r).request = NoRequest
    BY DEF Message
  <2> QED
    BY <2>1, BodyTypes DEF Grounds
<1>5. CASE \E t \in Threads : Send(m, a, t)
  BY <1>4, <1>5 DEF Send, Founds
<1>6. CASE \E t \in Threads, responder \in Agents : Ask(m, a, t, responder)
  BY <1>4, <1>6 DEF Ask, Founds
<1>7. ASSUME NEW id \in StoredIds(store[m]), Readable(store[m], id), NEW kind \in {"reply", "withdrawn"},
             NEW body, body = Message(kind, EventOf(m, id).body.thread, a, id, NoAgent)
      PROVE  /\ body \in Bodies /\ body.kind = kind /\ body.request = id
             /\ body.thread = EventOf(m, id).body.thread /\ EventOf(m, id).body.kind # "omitted"
  <2>1. id \in EventIds
    BY <1>0, StoredIdType
  <2>2. EventOf(m, id).body.thread \in Threads \cup {Public}
    BY <1>0, <1>7, <2>1, StoredThread DEF Readable
  <2>3. body \in Bodies
    BY <1>7, <2>1, <2>2, BodyTypes DEF RequestKinds, EndingKinds
  <2>4. EventOf(m, id).body.kind # "omitted"
    BY <1>7 DEF Readable, EventOf
  <2> QED
    BY <1>7, <2>3, <2>4 DEF Message
<1>8. ASSUME NEW id \in StoredIds(store[m]), Reply(m, a, id) PROVE Founds(m) /\ turns' = turns
  <2>1. PICK body : body = Message("reply", EventOf(m, id).body.thread, a, id, NoAgent)
    OBVIOUS
  <2>2. Readable(store[m], id) /\ Write(m, "ending", body) /\ turns' = turns
    BY <1>8, <2>1 DEF Reply
  <2>3. /\ body \in Bodies /\ body.kind = "reply" /\ body.request = id
        /\ body.thread = EventOf(m, id).body.thread /\ EventOf(m, id).body.kind # "omitted"
    BY <1>7, <2>1, <2>2
  <2>4. Grounds(store[m], body)
    BY <2>3 DEF Grounds, Grounded, EventOf, EndingKinds
  <2> QED
    BY <2>2, <2>3, <2>4 DEF Founds
<1>9. ASSUME NEW id \in StoredIds(store[m]), Withdraw(m, a, id) PROVE Founds(m) /\ turns' = turns
  <2>1. PICK body : body = Message("withdrawn", EventOf(m, id).body.thread, a, id, NoAgent)
    OBVIOUS
  <2>2. Readable(store[m], id) /\ Write(m, "ending", body) /\ turns' = turns
    BY <1>9, <2>1 DEF Withdraw
  <2>3. body \in Bodies /\ body.kind = "withdrawn" /\ body.request = id
    BY <1>7, <2>1, <2>2
  <2>4. PICK e : e = NextEvent(store[m], body)
    OBVIOUS
  <2>5. e.body = body /\ Admit(store[m], e).decision = "append"
    BY <2>2, <2>4 DEF Write, CanAuthor, NextEvent
  <2>6. Grounded(body, StoredAt(store[m], body.request).event.body)
    BY <1>0, <2>2, <2>3, <2>5, AdmittedEnding DEF EndingKinds
  <2> QED
    BY <2>2, <2>3, <2>6 DEF Founds, Grounds
<1> QED
  BY <1>2, <1>3, <1>5, <1>6, <1>8, <1>9 DEF AgentStep

\* What a worker writes is about an ask to its agent.
LEMMA TurnStepFounds ==
  ASSUME IndInv, Judged, Continued, NEW m \in Origins, NEW a \in Agents, TurnStep(m, a)
  PROVE  /\ Founds(m)
         /\ \A k \in Origins : turns'[k] \subseteq turns[k] \cup AskIds(store[k])
<1>0. /\ StoreInv /\ store[m] \in Databases /\ turns \in [Origins -> SUBSET EventIds]
      /\ store[m].open \subseteq AskIds(store[m]) /\ turns[m] \subseteq AskIds(store[m])
  BY DEF IndInv, TypeOK, StoreInv, Judged, Decided, Continued
<1>1. ASSUME NEW kind \in {"working", "waiting"}
      PROVE  /\ Notice(kind, a) \in Bodies /\ Notice(kind, a).request = NoRequest
             /\ Grounds(store[m], Notice(kind, a))
  <2>1. Notice(kind, a).request = NoRequest
    BY DEF Notice
  <2> QED
    BY <2>1, BodyTypes DEF Grounds, PublicKinds
<1>2. ASSUME NEW id \in AskIds(store[m]), NEW kind \in {"turn_started", "reply", "failed", "interrupted"},
             EventOf(m, id).body.responder = a, NEW notice \in {"working", "waiting"},
             WriteBoth(m, "ending", Message(kind, EventOf(m, id).body.thread, a, id, NoAgent), Notice(notice, a))
      PROVE  Founds(m)
  <2>1. PICK body : body = Message(kind, EventOf(m, id).body.thread, a, id, NoAgent)
    OBVIOUS
  <2>2. id \in EventIds /\ Holds(store[m], id) /\ EventOf(m, id).body.kind = "ask"
    BY <1>0, StoredIdFacts DEF AskIds, EventOf
  <2>3. EventOf(m, id).body.thread \in Threads \cup {Public}
    BY <1>0, <2>2, StoredThread
  <2>4. body \in Bodies
    BY <2>1, <2>2, <2>3, BodyTypes DEF RequestKinds, EndingKinds
  <2>5. /\ body.kind = kind /\ body.request = id /\ body.author = a
        /\ body.thread = EventOf(m, id).body.thread
    BY <2>1 DEF Message
  <2>6. Grounds(store[m], body)
    BY <1>2, <2>2, <2>5 DEF Grounds, Grounded, Authorized, EventOf, EndingKinds
  <2> QED
    BY <1>1, <1>2, <2>1, <2>4, <2>6 DEF Founds
<1>3. ASSUME NEW id \in store[m].open, Claim(m, a, id)
      PROVE  Founds(m) /\ \A k \in Origins : turns'[k] \subseteq turns[k] \cup AskIds(store[k])
  <2>1. id \in AskIds(store[m]) /\ EventOf(m, id).body.responder = a
    BY <1>0, <1>3 DEF Claim, Waiting
  <2>2. Founds(m)
    BY <1>2, <1>3, <2>1 DEF Claim
  <2> QED
    BY <1>0, <1>3, <2>1, <2>2 DEF Claim
<1>4. ASSUME NEW id \in turns[m], Answered(m, a, id)
      PROVE  Founds(m) /\ \A k \in Origins : turns'[k] \subseteq turns[k] \cup AskIds(store[k])
  <2>1. id \in AskIds(store[m]) /\ EventOf(m, id).body.responder = a
    BY <1>0, <1>4 DEF Answered, Claimed
  <2>2. Founds(m)
    BY <1>2, <1>4, <2>1 DEF Answered
  <2> QED
    BY <1>0, <1>4, <2>2 DEF Answered
<1>5. ASSUME NEW id \in turns[m], NEW outcome \in {"failed", "interrupted"}, Ended(m, a, id, outcome)
      PROVE  Founds(m) /\ \A k \in Origins : turns'[k] \subseteq turns[k] \cup AskIds(store[k])
  <2>1. id \in AskIds(store[m]) /\ EventOf(m, id).body.responder = a
    BY <1>0, <1>5 DEF Ended, Claimed
  <2>2. CASE WriteBoth(m, "ending", Message(outcome, EventOf(m, id).body.thread, a, id, NoAgent),
                                    Notice("waiting", a))
    <3>1. Founds(m)
      BY <1>2, <2>1, <2>2
    <3> QED
      BY <1>0, <1>5, <3>1 DEF Ended
  <2>3. CASE Write(m, "ending", Notice("waiting", a))
    <3>1. Founds(m)
      BY <1>1, <2>3 DEF Founds
    <3> QED
      BY <1>0, <1>5, <3>1 DEF Ended
  <2> QED
    BY <1>5, <2>2, <2>3 DEF Ended
<1> QED
  BY <1>3, <1>4, <1>5 DEF TurnStep

\* Asks stay asks.
LEMMA AsksKept ==
  ASSUME store \in [Origins -> Databases], Grows, NEW k \in Origins,
         store' \in [Origins -> Databases]
  PROVE  AskIds(store[k]) \subseteq AskIds(store'[k])
<1> SUFFICES ASSUME NEW id \in AskIds(store[k]) PROVE id \in AskIds(store'[k])
  OBVIOUS
<1>1. /\ id \in EventIds /\ id[1] \in Origins /\ id[2] \in 1..Len(store[k].events[id[1]])
      /\ StoredAt(store[k], id).event.body.kind = "ask"
  BY StoredIdFacts DEF AskIds
<1>2. store'[k].events[id[1]][id[2]].event = store[k].events[id[1]][id[2]].event
  BY <1>1 DEF Grows
<1>3. Holds(store'[k], id)
  <2>1. Len(store[k].events[id[1]]) \in Nat
    BY <1>1, StoreFields
  <2>2. store'[k].events[id[1]] \in Seq(Stored)
    BY <1>1 DEF Databases
  <2>3. Len(store[k].events[id[1]]) <= Len(store'[k].events[id[1]])
    BY <1>1 DEF Grows
  <2> QED
    BY SMTT(30), <1>1, <2>1, <2>2, <2>3 DEF Holds
<1>4. store'[k] \in Databases
  OBVIOUS
<1> QED
  BY <1>1, <1>2, <1>3, <1>4, StoredIdFacts DEF AskIds, StoredAt

\* A step that writes nothing of machine k's own leaves its events grounded.
LEMMA QuietFounded ==
  ASSUME StoreInv, StoreInv', Grows, Judged, NEW k \in Origins, Founded(store[k]),
         Len(store'[k].events[k]) = Len(store[k].events[k])
  PROVE  Founded(store'[k])
<1>1. store[k].origin = k /\ store'[k].origin = k /\ Decided(store[k]) /\ store[k] \in Databases
  BY DEF StoreInv, Consecutive, Judged
<1>2. ASSUME NEW id \in StoredIds(store[k]) PROVE StoredAt(store'[k], id).event = StoredAt(store[k], id).event
  <2>1. id[1] \in Origins /\ id[2] \in 1..Len(store[k].events[id[1]])
    BY <1>1, StoredIdFacts
  <2> QED
    BY <2>1 DEF Grows, StoredAt
<1>3. ASSUME NEW id \in StoredIds(store'[k]), id[1] = k PROVE id \in StoredIds(store[k])
  <2>1. id \in {k} \X (1..Len(store'[k].events[k]))
    BY <1>3 DEF StoredIds
  <2> QED
    BY <2>1 DEF StoredIds
<1> QED
  BY <1>1, <1>2, <1>3, FoundedKept

\* Rounds write nothing of the receiver's own.
LEMMA RoundStepQuiet ==
  ASSUME IndInv, NEW s \in Sessions, RoundStep(s), NEW k \in Origins
  PROVE  Len(store'[k].events[k]) = Len(store[k].events[k]) /\ turns' = turns
<1>0. StoreInv /\ turns' = turns
  BY DEF IndInv, TypeOK, StoreInv, RoundStep, MakeOffer, AnswerOffer, AcceptAnswer, Break
<1>1. ASSUME NEW m \in Origins, NEW p \in Origins, m # p, NEW events \in Seq(Events), NEW after,
             OwnEvents(events, m, p, after), NEW seen,
             store' = [store EXCEPT ![p] = RecordAck(Receive(store[p], m, events).db, m, seen)]
      PROVE  Len(store'[k].events[k]) = Len(store[k].events[k])
  <2>1. PICK got : got = Receive(store[p], m, events).db
    OBVIOUS
  <2>2. Extended(store[p], m, store[m].events[m], got)
    BY <1>0, <1>1, <2>1, ReceivedExtends DEF OwnEvents
  <2>3. got \in Databases /\ got.events[p] = store[p].events[p]
    BY <1>1, <2>2 DEF Extended
  <2>4. RecordAck(got, m, seen).events = got.events
    BY <2>3 DEF RecordAck, Databases
  <2>5. store'[k] = IF k = p THEN RecordAck(got, m, seen) ELSE store[k]
    BY <1>0, <1>1, <2>1 DEF StoreInv
  <2> QED
    BY <2>3, <2>4, <2>5
<1>2. CASE store' = store
  BY <1>0, <1>2
<1>3. CASE AnswerOffer(s) /\ store' # store
  <2>0. PICK offer : offer = rounds[s].offer
    OBVIOUS
  <2>1. PICK m, p : m = offer.from /\ p = offer.to
    OBVIOUS
  <2>2. /\ rounds[s] # Idle /\ m \in Origins /\ p \in Origins /\ offer.events \in Seq(Events)
    BY <1>3, <2>0, <2>1, RoundFields DEF IndInv, AnswerOffer, Offers
  <2>3. m # p /\ OwnEvents(offer.events, m, p, offer.after)
    <3>1. RoundSound(s)
      BY DEF IndInv
    <3> QED
      BY <2>0, <2>1, <2>2, <3>1 DEF RoundSound
  <2>4. store' = [store EXCEPT ![p] = Respond(store[p], offer)]
    BY <1>3, <2>0, <2>1 DEF AnswerOffer
  <2>5. store' = [store EXCEPT ![p] = RecordAck(Receive(store[p], m, offer.events).db, m, offer.seen)]
    BY <2>1, <2>4 DEF Respond
  <2> QED
    BY <1>0, <1>1, <2>2, <2>3, <2>5
<1>4. CASE AcceptAnswer(s) /\ store' # store
  <2>0. PICK offer, answer : offer = rounds[s].offer /\ answer = rounds[s].answer
    OBVIOUS
  <2>1. PICK m, p : m = offer.from /\ p = offer.to
    OBVIOUS
  <2>2. /\ rounds[s] # Idle /\ rounds[s].phase = "answered"
        /\ m \in Origins /\ p \in Origins /\ answer.events \in Seq(Events)
    BY <1>4, <2>0, <2>1, RoundFields DEF IndInv, AcceptAnswer, Offers, Answers
  <2>3. m # p /\ answer.from = p /\ OwnEvents(answer.events, p, m, offer.seen)
    <3>1. RoundSound(s)
      BY DEF IndInv
    <3> QED
      BY <2>0, <2>1, <2>2, <3>1 DEF RoundSound
  <2>4. store' = [store EXCEPT ![m] = Accept(store[m], answer)]
    BY <1>4, <2>0, <2>1 DEF AcceptAnswer
  <2>5. store' = [store EXCEPT ![m] = RecordAck(Receive(store[m], p, answer.events).db, p, answer.seen)]
    BY <2>3, <2>4 DEF Accept
  <2> QED
    BY <1>0, <1>1, <2>2, <2>3, <2>5
<1>5. store' = store \/ AnswerOffer(s) \/ AcceptAnswer(s)
  BY DEF RoundStep, MakeOffer, Break
<1> QED
  BY <1>2, <1>3, <1>4, <1>5

\* Every machine's own events stay grounded.
LEMMA NextContinues == IndInv /\ Judged /\ Continued /\ [Next]_vars => Continued'
<1> SUFFICES ASSUME IndInv, Judged, Continued, [Next]_vars, NEW k \in Origins
             PROVE  Founded(store'[k]) /\ turns'[k] \subseteq AskIds(store'[k])
  BY DEF Continued
<1>0. IndInv' /\ Grows
  BY NextKeeps
<1>1. /\ StoreInv /\ StoreInv' /\ turns \in [Origins -> SUBSET EventIds]
      /\ Founded(store[k]) /\ turns[k] \subseteq AskIds(store[k])
  BY <1>0 DEF IndInv, TypeOK, StoreInv, Continued
<1>2. AskIds(store[k]) \subseteq AskIds(store'[k])
  BY <1>0, <1>1, AsksKept DEF StoreInv
<1>3. ASSUME NEW m \in Origins, Founds(m) PROVE Founded(store'[k])
  <2>1. Founded(store[m])
    BY DEF Continued
  <2>2. Founded(store'[m]) /\ \A j \in Origins \ {m} : store'[j] = store[j]
    BY <1>1, <1>3, <2>1, FoundsKeep
  <2>3. CASE k = m
    BY <2>2, <2>3
  <2>4. CASE k # m
    BY <1>1, <2>2, <2>4
  <2> QED
    BY <2>3, <2>4
<1>4. ASSUME NEW m \in Origins, NEW a \in Agents, AgentStep(m, a)
      PROVE  Founded(store'[k]) /\ turns'[k] \subseteq AskIds(store'[k])
  BY <1>1, <1>2, <1>3, <1>4, AgentStepFounds
<1>5. ASSUME NEW m \in Origins, NEW a \in Agents, TurnStep(m, a)
      PROVE  Founded(store'[k]) /\ turns'[k] \subseteq AskIds(store'[k])
  <2>1. Founds(m) /\ turns'[k] \subseteq turns[k] \cup AskIds(store[k])
    BY <1>5, TurnStepFounds
  <2> QED
    BY <1>1, <1>2, <1>3, <2>1
<1>6. ASSUME Len(store'[k].events[k]) = Len(store[k].events[k]), turns' = turns
      PROVE  Founded(store'[k]) /\ turns'[k] \subseteq AskIds(store'[k])
  BY <1>0, <1>1, <1>2, <1>6, QuietFounded
<1>7. ASSUME NEW s \in Sessions, RoundStep(s)
      PROVE  Founded(store'[k]) /\ turns'[k] \subseteq AskIds(store'[k])
  BY <1>6, <1>7, RoundStepQuiet
<1>8. ASSUME NEW m \in Origins, NEW t \in Threads, CleanThread(m, t)
      PROVE  Founded(store'[k]) /\ turns'[k] \subseteq AskIds(store'[k])
  <2>1. store' = [store EXCEPT ![m] = Clean(store[m], t)] /\ turns' = turns
    BY <1>8 DEF CleanThread
  <2>2. store[m] \in Databases /\ store'[k] = IF k = m THEN Clean(store[m], t) ELSE store[k]
    BY <1>1, <2>1 DEF StoreInv
  <2>3. Len(store'[k].events[k]) = Len(store[k].events[k])
    BY <2>2, CleanType
  <2> QED
    BY <1>6, <2>1, <2>3
<1>9. CASE UNCHANGED vars
  BY <1>6, <1>9 DEF vars
<1> QED
  BY <1>4, <1>5, <1>7, <1>8, <1>9 DEF Next

-----------------------------------------------------------------------------
(* What a receiver says to a batch *)

\* An exported event is the event or its placeholder.
LEMMA ExportFacts ==
  ASSUME NEW e \in Events, NEW peer
  PROVE  /\ Export(e, peer) \in Events /\ Export(e, peer).clock = e.clock
         /\ Export(e, peer).body.kind # "omitted" => Export(e, peer) = e
         /\ Export(e, peer).body.kind # "omitted" =>
              \A x : x.body.thread = e.body.thread => Export(x, peer) = x
<1>1. PICK hidden : hidden = [e EXCEPT !.body = Omitted]
  OBVIOUS
<1>2. hidden.clock = e.clock /\ hidden.body.kind = "omitted"
  BY <1>1 DEF Events, Omitted, Notice
<1>3. Export(e, peer) \in Events
  BY ExportType
<1>4. CASE e.body.thread # Public /\ peer \notin Audience[e.body.thread]
  <2>1. Export(e, peer) = hidden
    BY <1>1, <1>4 DEF Export
  <2> QED
    BY <1>2, <1>3, <2>1
<1>5. CASE ~(e.body.thread # Public /\ peer \notin Audience[e.body.thread])
  <2>1. \A x : x.body.thread = e.body.thread => Export(x, peer) = x
    BY <1>5 DEF Export
  <2> QED
    BY <1>3, <2>1
<1> QED
  BY <1>4, <1>5

\* What a machine stores is what was written, in full or as it was exported.
LEMMA CopyOf ==
  ASSUME StoreInv, NEW m \in Origins, NEW id \in StoredIds(store[m]), NEW o, o = id[1]
  PROVE  /\ o \in Origins /\ id \in StoredIds(store[o]) /\ EventOf(o, id) \in Events
         /\ EventOf(m, id) = IF o = m THEN EventOf(o, id) ELSE Export(EventOf(o, id), m)
<1>1. o \in Origins /\ id \in StoredIds(store[o])
  BY OneClock
<1>2. store[m] \in Databases /\ store[o] \in Databases
  BY <1>1 DEF StoreInv
<1>3. EventOf(o, id) \in Events
  BY <1>1, <1>2, StoredIdFacts DEF EventOf
<1>4. id[2] \in 1..Len(store[m].events[o])
  BY <1>2, StoredIdFacts
<1>5. o # m => store[m].events[o][id[2]].event = Export(store[o].events[o][id[2]].event, m)
  BY <1>1, <1>4 DEF StoreInv, FaithfulCopy, Original
<1> QED
  BY <1>1, <1>3, <1>5 DEF EventOf, StoredAt

\* Types of the parts of any database.
LEMMA LogTypes ==
  ASSUME NEW db \in Databases, NEW o \in Origins
  PROVE  /\ db.events[o] \in Seq(Stored) /\ Len(db.events[o]) \in Nat
         /\ db.cursors[o].seen \in Nat /\ db.cursors[o].clock \in Nat /\ db.usage \in Nat
<1>1. /\ db.events \in [Origins -> Seq(Stored)] /\ db.cursors \in [Origins -> Cursors] /\ db.usage \in Nat
  BY DEF Databases
<1>2. db.events[o] \in Seq(Stored) /\ db.cursors[o] \in Cursors
  BY <1>1
<1> QED
  BY <1>1, <1>2, LenProperties DEF Cursors

LEMMA IdIsRequest == \A id \in EventIds : id # NoRequest
BY DEF EventIds, NoRequest

\* The same of a machine that has stored part of a batch of m.
LEMMA CopiedSoFar ==
  ASSUME StoreInv, NEW m \in Origins, NEW p \in Origins, m # p,
         NEW before, Extended(store[p], m, store[m].events[m], before),
         NEW id \in StoredIds(before), NEW o, o = id[1]
  PROVE  /\ o \in Origins /\ id \in StoredIds(store[o]) /\ EventOf(o, id) \in Events
         /\ StoredAt(before, id).event = IF o = p THEN EventOf(o, id) ELSE Export(EventOf(o, id), p)
<1>0. before \in Databases /\ store[p] \in Databases /\ store[m] \in Databases /\ store[p].origin = p
  BY DEF Extended, StoreInv, Consecutive
<1>1. o \in Origins /\ id \in EventIds /\ id[2] \in 1..Len(before.events[o])
  BY <1>0, StoredIdFacts
<1>2. Len(store[p].events[o]) \in Nat /\ Len(before.events[o]) \in Nat /\ Len(store[m].events[m]) \in Nat
  BY <1>0, <1>1, LogTypes
<1>3. CASE Holds(store[p], id)
  <2>1. id \in StoredIds(store[p])
    BY <1>0, <1>1, <1>3, StoredIdFacts
  <2>2. StoredAt(before, id) = StoredAt(store[p], id)
    <3>1. id[2] \in 1..Len(store[p].events[o])
      BY <1>1, <1>2, <1>3 DEF Holds
    <3>2. before.events[o][id[2]] = store[p].events[o][id[2]]
      <4>1. CASE o = m
        <5>1. \A i \in 1..Len(store[p].events[m]) : before.events[m][i] = store[p].events[m][i]
          BY DEF Extended
        <5> QED
          BY SMTT(30), <3>1, <4>1, <5>1
      <4>2. CASE o # m
        BY <1>1, <4>2 DEF Extended
      <4> QED
        BY <4>1, <4>2
    <3> QED
      BY <3>2 DEF StoredAt
  <2> QED
    BY <2>1, <2>2, CopyOf DEF EventOf
<1>4. CASE ~Holds(store[p], id)
  <2>1. o = m
    BY SMTT(30), <1>1, <1>2, <1>4 DEF Extended, Holds
  <2>2. id[2] \in (Len(store[p].events[m]) + 1)..Len(before.events[m])
    BY <1>1, <1>2, <1>4, <2>1 DEF Holds
  <2>3. /\ id[2] <= Len(store[m].events[m])
        /\ before.events[m][id[2]] = [event |-> Export(store[m].events[m][id[2]].event, p), cleaned |-> FALSE]
    BY <1>0, <2>2 DEF Extended
  <2>4. Holds(store[m], id)
    BY <2>1, <2>3 DEF Holds
  <2>5. id \in StoredIds(store[m]) /\ EventOf(m, id) \in Events
    BY <1>0, <1>1, <2>4, StoredIdFacts DEF EventOf
  <2>6. StoredAt(before, id).event = Export(EventOf(m, id), p)
    BY <2>1, <2>3 DEF StoredAt, EventOf
  <2> QED
    BY <1>1, <2>1, <2>5, <2>6
<1> QED
  BY <1>3, <1>4

\* The next event of a batch is appended or stored already; or it is about a message of
\* a third machine that has not come; or its sender has cleaned it since.
LEMMA NextVerdict ==
  ASSUME StoreInv, Judged, Continued, NEW m \in Origins, NEW p \in Origins, m # p,
         NEW before, Extended(store[p], m, store[m].events[m], before), Even(before), Decided(before),
         NEW e \in Events, OwnEvent(e, m, p), e.seq <= before.cursors[m].seen + 1
  PROVE  \/ Admit(before, e).decision = "append" /\ e.seq = before.cursors[m].seen + 1
         \/ Admit(before, e).decision = "duplicate" /\ e.seq <= before.cursors[m].seen
         \/ /\ Admit(before, e).decision = "missing_dependency"
            /\ e.body.request # NoRequest /\ e.body.request[1] \notin {m, p}
            /\ ~Holds(store[p], e.body.request)
         \/ /\ Admit(before, e).decision = "conflict"
            /\ StoredAt(store[m], Id(e)).cleaned /\ Holds(store[p], Id(e))
<1>0. /\ before \in Databases /\ store[m] \in Databases /\ store[p] \in Databases
      /\ store[m].origin = m /\ store[p].origin = p
  BY DEF Extended, StoreInv, Consecutive
<1>1. PICK n, s, x, log :
        /\ n = before.cursors[m].seen /\ s = e.seq /\ log = store[m].events[m] /\ x = log[s].event
  OBVIOUS
<1>2. /\ n = Len(before.events[m]) /\ n \in Nat /\ s \in 1..Len(log) /\ Len(log) \in Nat /\ s \in Nat \ {0}
      /\ log \in Seq(Stored)
      /\ Len(store[p].events[m]) <= n /\ Len(store[p].events[m]) \in Nat
      /\ e.origin = m /\ Id(e) = <<m, s>> /\ s <= n + 1
  <2>1. Len(before.events[m]) \in Nat /\ Len(log) \in Nat /\ Len(store[p].events[m]) \in Nat /\ log \in Seq(Stored)
    BY <1>0, <1>1, LogTypes
  <2> QED
    BY <1>1, <2>1 DEF Extended, OwnEvent, Id
<1>3. <<m, s>> \in StoredIds(store[m]) /\ EventOf(m, <<m, s>>) = x /\ x \in Events
  <2>1. <<m, s>> \in StoredIds(store[m])
    BY <1>1, <1>2 DEF StoredIds
  <2>2. EventOf(m, <<m, s>>) = x
    BY <1>1 DEF EventOf, StoredAt
  <2> QED
    BY <1>0, <2>1, <2>2, StoredIdFacts DEF EventOf
<1>4. ASSUME NEW i \in 1..n PROVE <<m, i>> \in StoredIds(before) /\ i \in 1..Len(log)
                                  /\ before.events[m][i].event = Export(log[i].event, p)
                                  /\ log[i].event \in Events
  <2>1. PICK id : id = <<m, i>>
    OBVIOUS
  <2>2. id \in StoredIds(before) /\ id[1] = m /\ id[2] = i
    BY <1>2, <2>1 DEF StoredIds
  <2>3. id \in StoredIds(store[m]) /\ EventOf(m, id) \in Events /\ StoredAt(before, id).event = Export(EventOf(m, id), p)
    BY <2>2, CopiedSoFar
  <2>4. i \in 1..Len(log)
    BY <1>0, <1>1, <2>2, <2>3, StoredIdFacts
  <2> QED
    BY <1>1, <2>1, <2>2, <2>3, <2>4 DEF EventOf, StoredAt
<1>5. CASE s <= n
  <2>1. s \in 1..n /\ before.events[m][s].event = Export(x, p)
    <3>1. s \in 1..n
      BY <1>2, <1>5
    <3>2. before.events[m][s].event = Export(log[s].event, p)
      BY <1>4, <3>1
    <3> QED
      BY <1>1, <3>1, <3>2
  <2>2. StoredAt(before, Id(e)).event = Export(x, p)
    BY <1>2, <2>1 DEF StoredAt
  <2>3. Admit(before, e) = IF Export(x, p) = e THEN Duplicate ELSE Rejected("conflict")
    <3>1. e.seq <= before.cursors[e.origin].seen
      BY <1>1, <1>2, <1>5
    <3>2. Admit(before, e) = IF StoredAt(before, Id(e)).event = e THEN Duplicate ELSE Rejected("conflict")
      <4>1. /\ ~(e.seq > before.cursors[e.origin].seen + 1)
            /\ ~(e.seq = before.cursors[e.origin].seen + 1)
        <5>1. e.seq = s /\ before.cursors[e.origin].seen = n /\ s \in Nat /\ n \in Nat
          BY <1>1, <1>2
        <5> QED
          BY <1>5, <5>1
      <4> QED
        BY <3>1, <4>1 DEF Admit
    <3> QED
      BY <2>2, <3>2
  <2>4. CASE e = Export(x, p)
    <3>1. Admit(before, e).decision = "duplicate"
      BY <2>3, <2>4 DEF Duplicate
    <3>2. e.seq <= before.cursors[m].seen
      BY <1>1, <1>5
    <3> QED
      BY <3>1, <3>2, Zenon
  <2>5. CASE log[s].cleaned /\ s <= Len(store[p].events[m])
    <3>1. StoredAt(store[m], Id(e)).cleaned /\ Holds(store[p], Id(e))
      BY <1>1, <1>2, <2>5 DEF StoredAt, Holds
    <3> QED
      BY <1>1, <1>5, <2>3, <3>1 DEF Duplicate, Rejected
  <2> QED
    BY <1>1, <2>4, <2>5 DEF OwnEvent, Original
<1>6. CASE s = n + 1
  <2>1. e = Export(x, p) /\ e.clock = x.clock /\ x.clock \in Nat \ {0}
    <3>1. e = Export(x, p)
      <4>1. ~(s <= Len(store[p].events[m]))
        BY SMTT(30), <1>2, <1>6
      <4> QED
        BY <1>1, <4>1 DEF OwnEvent, Original
    <3> QED
      BY <1>3, <3>1, ExportFacts, BodyFields
  <2>2. before.cursors[m].clock < e.clock
    <3>1. CASE n = 0
      <4>1. before.cursors[m].clock = 0
        BY <1>2, <3>1 DEF Even, Timed
      <4> QED
        BY <2>1, <4>1
    <3>2. CASE n > 0
      <4>1. n \in 1..n /\ n < s /\ n \in 1..Len(log)
        BY <1>2, <1>6, <3>2
      <4>2. before.cursors[m].clock = before.events[m][n].event.clock
        BY <1>2, <3>2 DEF Even, Timed
      <4>3. before.events[m][n].event.clock = log[n].event.clock
        BY <1>4, <4>1, ExportFacts
      <4>4. Timed(store[m])
        BY DEF Judged, Even
      <4>5. log[n].event.clock < log[s].event.clock
        BY <1>1, <1>2, <4>1, <4>4 DEF Timed
      <4> QED
        BY <1>1, <2>1, <4>2, <4>3, <4>5
    <3> QED
      BY <1>2, <3>1, <3>2
  <2>3. Admit(before, e) = Change(before, e)
    <3>1. before.cursors[m].clock \in Nat /\ e.clock \in Nat
      BY <1>0, <2>1, LogTypes
    <3>2. ~(e.seq <= before.cursors[e.origin].seen) /\ ~(e.seq > before.cursors[e.origin].seen + 1)
          /\ ~(e.clock <= before.cursors[e.origin].clock)
      <4>1. e.origin = m /\ before.cursors[m].seen = n /\ e.seq = n + 1 /\ n \in Nat
        BY <1>1, <1>2, <1>6
      <4>2. ~(e.clock <= before.cursors[m].clock)
        BY <2>2, <3>1
      <4> QED
        BY <4>1, <4>2
    <3> QED
      BY <3>2 DEF Admit
  <2>4. CASE e.body.kind \notin RequestKinds
    BY <1>1, <1>6, <2>3, <2>4, OthersAdmit
  <2>5. CASE e.body.kind \in RequestKinds
    <3>1. e.body.kind # "omitted"
      BY <2>5 DEF RequestKinds, EndingKinds
    <3>2. e = x /\ \A y : y.body.thread = x.body.thread => Export(y, p) = y
      BY <1>3, <2>1, <3>1, ExportFacts
    <3>3. PICK request, o, y : request = x.body.request /\ o = request[1] /\ y = EventOf(o, request)
      OBVIOUS
    <3>4. request \in EventIds /\ request # NoRequest
      <4>1. request \in EventIds
        BY <2>5, <3>2, <3>3, BodyFields
      <4> QED
        BY <4>1, IdIsRequest
    <3>5. /\ request \in StoredIds(store[m]) /\ Grounded(x.body, EventOf(m, request).body)
          /\ EventOf(m, request).clock < x.clock
      <4>1. Decided(store[m]) /\ After(store[m]) /\ Founded(store[m])
        BY DEF Judged, Continued
      <4>2. PICK id : id = <<m, s>>
        OBVIOUS
      <4>3. id \in StoredIds(store[m]) /\ StoredAt(store[m], id).event = x /\ id[1] = store[m].origin
        BY <1>0, <1>3, <4>2 DEF EventOf
      <4> QED
        BY <3>3, <3>4, <4>1, <4>3 DEF Decided, After, Founded, Grounds, EventOf
    <3>6. o \in Origins /\ request \in StoredIds(store[o]) /\ y \in Events /\ EventOf(m, request) = y
      <4>1. /\ o \in Origins /\ request \in StoredIds(store[o]) /\ y \in Events
            /\ EventOf(m, request) = y \/ EventOf(m, request) = Export(y, m)
        BY <3>3, <3>5, CopyOf
      <4>2. EventOf(m, request).body.kind # "omitted"
        BY <3>5 DEF Grounded
      <4> QED
        BY <4>1, <4>2, ExportFacts
    <3>7. CASE Holds(before, request)
      <4>1. request \in StoredIds(before)
        BY <1>0, <3>4, <3>7, StoredIdFacts
      <4>2. StoredAt(before, request).event = y \/ StoredAt(before, request).event = Export(y, p)
        BY <3>3, <4>1, CopiedSoFar
      <4>3. y.body.thread = x.body.thread
        BY <3>5, <3>6 DEF Grounded
      <4>4. StoredAt(before, request).event = y
        BY <3>2, <4>2, <4>3
      <4>5. Change(before, e).decision = "append"
        BY <2>5, <3>2, <3>3, <3>5, <3>6, <3>7, <4>4, GroundedAdmits
      <4> QED
        BY <1>1, <1>6, <2>3, <4>5
    <3>8. CASE ~Holds(before, request)
      <4>1. Change(before, e).decision = "missing_dependency"
        BY <2>5, <3>2, <3>3, <3>8, OthersAdmit
      <4>2. o # m
        <5> SUFFICES ASSUME o = m PROVE FALSE
          OBVIOUS
        <5>1. PICK j : j = request[2]
          OBVIOUS
        <5>2. j \in 1..Len(log) /\ ~(j <= n)
          <6>1. j \in 1..Len(store[m].events[m])
            BY <1>0, <3>3, <3>5, <5>1, StoredIdFacts
          <6>2. ~(j <= Len(before.events[m]))
            BY <3>3, <3>8, <5>1 DEF Holds
          <6> QED
            BY <1>1, <1>2, <6>1, <6>2
        <5>3. log[j].event = y /\ y.clock < x.clock /\ y.clock \in Nat
          BY <1>1, <3>3, <3>5, <3>6, <5>1, BodyFields DEF EventOf, StoredAt
        <5>4. j = s \/ s < j
          BY <1>2, <1>6, <5>2
        <5>5. s < j => log[s].event.clock < log[j].event.clock
          <6>1. Timed(store[m])
            BY DEF Judged, Even
          <6> QED
            BY <1>1, <1>2, <5>2, <6>1 DEF Timed
        <5>6. log[s].event = x /\ x.clock \in Nat
          BY <1>1, <2>1
        <5>7. CASE j = s
          BY <5>3, <5>6, <5>7
        <5>8. CASE s < j
          <6>1. x.clock < y.clock
            BY <5>3, <5>5, <5>6, <5>8
          <6> QED
            BY <5>3, <5>6, <6>1
        <5> QED
          BY <5>4, <5>7, <5>8
      <4>3. o # p
        <5> SUFFICES ASSUME o = p PROVE FALSE
          OBVIOUS
        <5>1. Holds(store[p], request)
          BY <1>0, <3>6, StoredIdFacts
        <5>2. before.events[p] = store[p].events[p]
          BY DEF Extended
        <5> QED
          BY <3>3, <3>8, <5>1, <5>2 DEF Holds
      <4>4. ~Holds(store[p], request)
        <5>1. before.events[o] = store[p].events[o]
          BY <3>6, <4>2 DEF Extended
        <5> QED
          BY <3>3, <3>8, <5>1 DEF Holds
      <4> QED
        BY <2>3, <3>2, <3>3, <3>4, <4>1, <4>2, <4>3, <4>4
    <3> QED
      BY <3>7, <3>8
  <2> QED
    BY <2>4, <2>5
<1>7. s <= n \/ s = n + 1
  BY <1>2
<1> QED
  BY <1>5, <1>6, <1>7

\* A verdict with its reason.
Excused(batch, verdict) ==
  \/ verdict = "none"
  \/ verdict = "missing_dependency" /\ WaitsForThird(batch)
  \/ verdict = "resource_limit" /\ OutOfRoom(batch)
  \/ verdict = "conflict" /\ CleanedMeanwhile(batch)

\* How far a receiver has come after k events of a batch that starts behind the given
\* position: no further than the batch, and up to its kth event unless it has stopped.
Reached(p, m, events, after, k, progress) ==
  /\ progress \in [db : Databases, rejected : Rejections]
  /\ Extended(store[p], m, store[m].events[m], progress.db)
  /\ Even(progress.db) /\ Decided(progress.db)
  /\ progress.db.usage <= store[p].usage + k
  /\ Excused(<<m, p, events>>, progress.rejected)
  /\ progress.rejected = "none" => after + k <= progress.db.cursors[m].seen

\* One event of a batch.
LEMMA ReachedNext ==
  ASSUME StoreInv, Judged, Continued, NEW m \in Origins, NEW p \in Origins, m # p,
         NEW events \in Seq(Events), NEW after \in Nat, OwnEvents(events, m, p, after),
         NEW k \in 1..Len(events), NEW progress, Reached(p, m, events, after, k - 1, progress)
  PROVE  Reached(p, m, events, after, k, ReceiveNext(progress, m, events[k]))
<1>1. PICK e, before, verdict, change, next, batch, n :
        /\ e = events[k] /\ before = progress.db /\ verdict = Admit(before, e).decision
        /\ change = Admit(before, e).change /\ next = Commit(before, e, change)
        /\ batch = <<m, p, events>> /\ n = Len(events)
  OBVIOUS
<1>2. /\ n \in Nat /\ k \in 1..n /\ e \in Events /\ OwnEvent(e, m, p) /\ e.seq = after + k /\ e.origin = m
      /\ batch[1] = m /\ batch[2] = p /\ batch[3] = events
  <2>1. n \in Nat /\ e \in Events
    BY <1>1, ElementOfSeq
  <2> QED
    BY <1>1, <2>1 DEF OwnEvents, OwnEvent
<1>3. /\ progress \in [db : Databases, rejected : Rejections] /\ before \in Databases
      /\ Extended(store[p], m, store[m].events[m], before) /\ Even(before) /\ Decided(before)
      /\ before.usage <= store[p].usage + (k - 1)
      /\ Excused(batch, progress.rejected)
      /\ progress.rejected = "none" => after + (k - 1) <= before.cursors[m].seen
      /\ before.origin = p /\ m # before.origin
  <2>1. store[p].origin = p
    BY DEF StoreInv, Consecutive
  <2> QED
    BY <1>1, <2>1 DEF Reached, Extended
<1>4. before.usage \in Nat /\ store[p].usage \in Nat /\ before.cursors[m].seen \in Nat /\ ReceivedLimit \in Nat
  <2>1. store[p] \in Databases
    BY DEF StoreInv
  <2> QED
    BY <1>3, <2>1, LimitsAssumption DEF Databases, Cursors
<1>5. before.usage <= store[p].usage + k
  BY SMTT(30), <1>2, <1>3, <1>4
<1>6. CASE progress.rejected # "none"
  <2>1. ReceiveNext(progress, m, events[k]) = progress
    BY <1>6 DEF ReceiveNext
  <2> QED
    BY <1>1, <1>3, <1>5, <1>6, <2>1 DEF Reached
<1>7. CASE progress.rejected = "none"
  <2>1. e.seq <= before.cursors[m].seen + 1
    BY SMTT(30), <1>2, <1>3, <1>4, <1>7
  <2>2. \/ verdict = "append" /\ e.seq = before.cursors[m].seen + 1
        \/ verdict = "duplicate" /\ e.seq <= before.cursors[m].seen
        \/ /\ verdict = "missing_dependency"
           /\ e.body.request # NoRequest /\ e.body.request[1] \notin {m, p}
           /\ ~Holds(store[p], e.body.request)
        \/ verdict = "conflict" /\ StoredAt(store[m], Id(e)).cleaned /\ Holds(store[p], Id(e))
    BY <1>1, <1>2, <1>3, <2>1, NextVerdict
  <2>3. ReceiveNext(progress, m, events[k]) =
          CASE verdict = "duplicate" -> progress
            [] verdict = "append" ->
                 IF before.usage < ReceivedLimit THEN [progress EXCEPT !.db = next]
                 ELSE [progress EXCEPT !.rejected = "resource_limit"]
            [] OTHER -> [progress EXCEPT !.rejected = verdict]
    BY <1>1, <1>2, <1>3, <1>7 DEF ReceiveNext
  <2>4. ASSUME NEW reason \in {"missing_dependency", "resource_limit", "conflict"}, Excused(batch, reason),
               ReceiveNext(progress, m, events[k]) = [progress EXCEPT !.rejected = reason]
        PROVE  Reached(p, m, events, after, k, ReceiveNext(progress, m, events[k]))
    <3>1. PICK got : got = [progress EXCEPT !.rejected = reason]
      OBVIOUS
    <3>2. got \in [db : Databases, rejected : Rejections] /\ got.db = before /\ got.rejected = reason
      BY <1>1, <1>3, <3>1 DEF Rejections, Reasons
    <3> QED
      BY <1>1, <1>3, <1>5, <2>4, <3>1, <3>2 DEF Reached
  <2>5. CASE verdict = "duplicate" /\ e.seq <= before.cursors[m].seen
    <3>1. ReceiveNext(progress, m, events[k]) = progress
      BY <2>3, <2>5
    <3> QED
      BY <1>1, <1>2, <1>3, <1>5, <2>5, <3>1 DEF Reached
  <2>6. CASE verdict = "append" /\ before.usage < ReceivedLimit
    <3>1. ReceiveNext(progress, m, events[k]) = [progress EXCEPT !.db = next]
      BY <2>3, <2>6
    <3>2. change \in Changes
      BY <1>1, <1>2, <1>3, AdmitType DEF Verdicts
    <3>3. Even(next) /\ Decided(next)
      BY <1>1, <1>2, <1>3, <2>6, CommitDecides
    <3>4. next.usage = before.usage + 1
      BY <1>1, <1>2, <1>3, <3>2, CommitTables
    <3>5. Extended(store[p], m, store[m].events[m], next) /\ [progress EXCEPT !.db = next] \in [db : Databases, rejected : Rejections]
      <4>1. store[p] \in Databases /\ store[m].events[m] \in Seq(Stored) /\ store[p].origin = p
        BY StoreFields DEF StoreInv, Consecutive
      <4>2. Offered(store[p], m, store[m].events[m], e)
        <5>1. e.seq \in Nat /\ Len(store[p].events[m]) \in Nat
          BY <1>2, StoreFields, BodyFields DEF StoreInv
        <5> QED
          BY SMTT(30), <1>2, <4>1, <5>1 DEF OwnEvent, Offered, Original
      <4>3. /\ ReceiveNext(progress, m, e) \in [db : Databases, rejected : Rejections]
            /\ Extended(store[p], m, store[m].events[m], ReceiveNext(progress, m, e).db)
        BY <1>1, <1>2, <1>3, <4>1, <4>2, ReceiveStep
      <4>4. [progress EXCEPT !.db = next].db = next
        BY <1>3
      <4> QED
        BY <1>1, <3>1, <4>3, <4>4
    <3>6. next.cursors[m].seen = e.seq
      <4>1. Grown(before, e, next)
        BY <1>1, <1>2, <1>3, <3>2, CommitGrows
      <4> QED
        BY <1>2, <1>3, <4>1 DEF Grown, Databases
    <3>7. PICK got : got = [progress EXCEPT !.db = next]
      OBVIOUS
    <3>8. got.db = next /\ got.rejected = "none" /\ Excused(batch, "none")
      BY <1>3, <1>7, <3>7 DEF Excused
    <3>9. next.usage <= store[p].usage + k /\ after + k <= next.cursors[m].seen
      <4>1. after \in Nat /\ k \in Nat
        BY <1>2
      <4>2. before.usage + 1 <= store[p].usage + k
        BY SMTT(30), <1>3, <1>4, <4>1
      <4> QED
        BY <1>2, <3>4, <3>6, <4>1, <4>2
    <3> QED
      BY <1>1, <3>1, <3>3, <3>5, <3>7, <3>8, <3>9 DEF Reached
  <2>7. CASE verdict = "append" /\ ~(before.usage < ReceivedLimit)
    <3>1. OutOfRoom(batch)
      <4>1. k \in Nat /\ n \in Nat /\ k <= n
        BY <1>2
      <4>2. store[p].usage + n > ReceivedLimit
        <5>1. before.usage <= store[p].usage + (k - 1) /\ ~(before.usage < ReceivedLimit)
          BY <1>3, <2>7
        <5> QED
          BY SMTT(30), <1>4, <4>1, <5>1
      <4>3. batch[2] = p /\ Len(batch[3]) = n
        BY <1>1, <1>2
      <4> QED
        BY <4>2, <4>3 DEF OutOfRoom
    <3> QED
      BY <2>3, <2>4, <2>7, <3>1 DEF Excused
  <2>8. CASE verdict = "missing_dependency" /\ e.body.request # NoRequest
             /\ e.body.request[1] \notin {m, p} /\ ~Holds(store[p], e.body.request)
    <3>1. WaitsForThird(batch)
      BY <1>1, <1>2, <2>8 DEF WaitsForThird
    <3> QED
      BY <2>3, <2>4, <2>8, <3>1 DEF Excused
  <2>9. CASE verdict = "conflict" /\ StoredAt(store[m], Id(e)).cleaned /\ Holds(store[p], Id(e))
    <3>1. CleanedMeanwhile(batch)
      BY <1>1, <1>2, <2>9 DEF CleanedMeanwhile
    <3> QED
      BY <2>3, <2>4, <2>9, <3>1 DEF Excused
  <2> QED
    BY <2>2, <2>5, <2>6, <2>7, <2>8, <2>9
<1> QED
  BY <1>6, <1>7

\* A whole batch.
LEMMA BatchExcused ==
  ASSUME StoreInv, Judged, Continued, NEW m \in Origins, NEW p \in Origins, m # p,
         NEW events \in Seq(Events), NEW after \in Nat, OwnEvents(events, m, p, after),
         after <= Len(store[p].events[m])
  PROVE  Excused(<<m, p, events>>, Receive(store[p], m, events).rejected)
<1>1. PICK n : n = Len(events) /\ n \in Nat
  OBVIOUS
<1>2. PICK run :
        /\ run[0] = [db |-> store[p], rejected |-> "none"]
        /\ \A k \in 1..n : run[k] = ReceiveNext(run[k - 1], m, events[k])
        /\ Receive(store[p], m, events) = run[n]
  <2>1. PICK db : db = store[p]
    OBVIOUS
  <2>2. Len(events) \in Nat
    BY <1>1
  <2>3. PICK run :
          /\ run[0] = [db |-> db, rejected |-> "none"]
          /\ \A k \in 1..Len(events) : run[k] = ReceiveNext(run[k - 1], m, events[k])
          /\ Receive(db, m, events) = run[Len(events)]
    BY <2>2, ReceiveRun
  <2> QED
    BY <1>1, <2>1, <2>3
<1> DEFINE S == {k \in 0..n : Reached(p, m, events, after, k, run[k])}
<1>3. 0 \in S
  <2>1. /\ store[p] \in Databases /\ Even(store[p]) /\ Decided(store[p])
        /\ store[p].cursors[m].seen = Len(store[p].events[m]) /\ store[p].events[m] \in Seq(Stored)
        /\ store[p].usage \in Nat
    BY DEF StoreInv, Consecutive, Judged, Databases
  <2>2. Extended(store[p], m, store[m].events[m], store[p])
    BY <2>1 DEF Extended
  <2>3. run[0] \in [db : Databases, rejected : Rejections] /\ run[0].db = store[p] /\ run[0].rejected = "none"
    BY <1>2, <2>1 DEF Rejections
  <2>4. Excused(<<m, p, events>>, "none")
    BY DEF Excused
  <2> QED
    BY SMTT(30), <1>1, <2>1, <2>2, <2>3, <2>4 DEF Reached
<1>4. ASSUME NEW k \in 1..n, k - 1 \in S PROVE k \in S
  <2>1. Reached(p, m, events, after, k - 1, run[k - 1])
    BY <1>4
  <2>2. run[k] = ReceiveNext(run[k - 1], m, events[k])
    BY <1>2
  <2>3. Reached(p, m, events, after, k, run[k])
    <3>1. k \in 1..Len(events)
      BY <1>1
    <3> QED
      BY <2>1, <2>2, <3>1, ReachedNext
  <2> QED
    BY <1>1, <2>3
<1> HIDE DEF S
<1>5. n \in S
  BY <1>1, <1>3, <1>4, UpTo
<1> QED
  BY <1>2, <1>5 DEF S, Reached

\* A batch under way is held back only for a reason that is in the batch and its two
\* machines (Store::receive, Ledger::verify, Store::clean_in).
LEMMA HeldBack == IndInv /\ Judged /\ Continued => OnlyHeldBack
<1> SUFFICES ASSUME IndInv, Judged, Continued, NEW s \in Sessions
             PROVE  \/ Verdict(s) = "none"
                    \/ \E batch \in Batches(s) : Excused(batch, Verdict(s))
  BY DEF OnlyHeldBack, Excused
<1>0. StoreInv
  BY DEF IndInv, TypeOK, StoreInv
<1>1. PICK offer, answer, m, p :
        offer = rounds[s].offer /\ answer = rounds[s].answer /\ m = offer.from /\ p = offer.to
  OBVIOUS
<1>2. RoundSound(s)
  BY DEF IndInv
<1>3. ASSUME NEW i \in Origins, NEW j \in Origins, i # j, NEW seen \in Nat, seen <= Len(store[j].events[i])
      PROVE  ~AheadOfHistory(store[i], seen)
  <2>1. /\ Len(store[j].events[i]) <= Len(store[i].events[i]) /\ LocalSeen(store[i]) = Len(store[i].events[i])
        /\ Len(store[j].events[i]) \in Nat /\ Len(store[i].events[i]) \in Nat
    BY <1>0, <1>3, WithinOriginal, StoreFields DEF StoreInv
  <2>2. seen <= Len(store[i].events[i])
    BY <1>3, <2>1, Chain, Zenon
  <2> QED
    BY <1>3, <2>1, <2>2 DEF AheadOfHistory
<1>4. CASE rounds[s].phase = "offered"
  <2>1. /\ rounds[s] # Idle /\ offer \in Offers /\ m \in Origins /\ p \in Origins /\ offer.seen \in Nat
        /\ offer.after \in Nat /\ offer.events \in Seq(Events)
    BY <1>1, <1>4, RoundFields DEF IndInv, Offers
  <2>2. /\ m # p /\ offer.seen <= Len(store[m].events[p]) /\ offer.after <= Len(store[p].events[m])
        /\ OwnEvents(offer.events, m, p, offer.after)
    BY <1>1, <1>2, <2>1 DEF RoundSound
  <2>3. ~AheadOfHistory(store[p], offer.seen)
    BY <1>3, <2>1, <2>2
  <2>4. Verdict(s) = Receive(store[p], m, offer.events).rejected
    BY <1>1, <1>4, <2>3 DEF Verdict
  <2>5. Batches(s) = {<<m, p, offer.events>>}
    BY <1>1, <1>4 DEF Batches, Phase
  <2>6. Excused(<<m, p, offer.events>>, Verdict(s))
    BY <1>0, <2>1, <2>2, <2>4, BatchExcused
  <2> QED
    BY <2>5, <2>6
<1>5. CASE rounds[s].phase = "answered"
  <2>1. /\ rounds[s] # Idle /\ offer \in Offers /\ answer \in Answers /\ m \in Origins /\ p \in Origins
        /\ offer.seen \in Nat /\ answer.seen \in Nat /\ answer.events \in Seq(Events)
    BY <1>1, <1>5, RoundFields DEF IndInv, Offers, Answers
  <2>2. /\ m # p /\ offer.seen <= Len(store[m].events[p]) /\ answer.from = p
        /\ answer.seen <= Len(store[p].events[m])
        /\ OwnEvents(answer.events, p, m, offer.seen)
    BY <1>1, <1>2, <1>5, <2>1 DEF RoundSound
  <2>3. ~AheadOfHistory(store[m], answer.seen)
    BY <1>3, <2>1, <2>2
  <2>4. Verdict(s) = Receive(store[m], p, answer.events).rejected
    BY <1>1, <1>5, <2>2, <2>3 DEF Verdict
  <2>5. Batches(s) = {<<p, m, answer.events>>}
    BY <1>1, <1>5 DEF Batches, Phase
  <2>6. Excused(<<p, m, answer.events>>, Verdict(s))
    BY <1>0, <2>1, <2>2, <2>4, BatchExcused
  <2> QED
    BY <2>5, <2>6
<1>6. CASE rounds[s].phase # "offered" /\ rounds[s].phase # "answered"
  BY <1>6 DEF Verdict
<1> QED
  BY <1>4, <1>5, <1>6

\* What is written continues what is stored, in every state.
THEOREM ContinuesStored == Spec => []Continued
<1>1. Init => Continued
  <2> SUFFICES ASSUME Init, NEW m \in Origins
               PROVE  Founded(store[m]) /\ turns[m] \subseteq AskIds(store[m])
    BY DEF Continued
  <2>1. turns[m] = {} /\ \A o \in Origins : store[m].events[o] = <<>>
    BY DEF Init, EmptyDatabase
  <2>2. StoredIds(store[m]) = {}
    <3>1. \A o \in Origins : 1..Len(store[m].events[o]) = {}
      BY <2>1
    <3> QED
      BY <3>1 DEF StoredIds
  <2> QED
    BY <2>1, <2>2 DEF Founded
<1> QED
  BY <1>1, NextContinues, Inductive, TablesAgree, PTL DEF Spec

\* A batch is held back only for a reason that is in the batch and its two machines.
THEOREM HeldBackCorrect == Spec => []OnlyHeldBack
BY HeldBack, Inductive, TablesAgree, ContinuesStored, PTL

\* Cleaning makes the room it says, and costs a round only what was cleaned under it.
THEOREM CleanedCorrect == Spec => []CleanedSound
<1>1. UsageExact /\ OnlyHeldBack => CleanedSound
  BY DEF CleanedSound
<1> QED
  BY <1>1, UsageCorrect, HeldBackCorrect, PTL

\* No machine shows an answer, a turn or an ending of an ask it lacks, and a batch waits
\* only for a third machine's event, for room or because of what was cleaned.
THEOREM DeliveredCorrect == Spec => []CausallyDelivered
<1>1. CausallyClosed /\ OnlyHeldBack => CausallyDelivered
  BY DEF CausallyDelivered
<1> QED
  BY <1>1, CauseCorrect, HeldBackCorrect, PTL

=============================================================================

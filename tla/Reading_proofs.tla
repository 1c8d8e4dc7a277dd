--------------------------- MODULE Reading_proofs ----------------------------
(***************************************************************************)
(* What is shown, read and recorded: theorems about Inbox, Handoffs and    *)
(* Mcp, one component after the other.                                     *)
(***************************************************************************)
EXTENDS Inbox, Handoffs, Mcp, FiniteSetTheorems, SequenceTheorems, TLAPS

-----------------------------------------------------------------------------
(***************************************************************************)
(* What the agents of a machine were shown and what is recorded of it, for *)
(* any agents, posts, hook processes and read processes.                   *)
(*                                                                         *)
(* A process that is about to record has shown what it selected, so the    *)
(* records need no more than that nobody else records for it.  The read    *)
(* cursor is harder: it jumps over posts.  A selection takes the first     *)
(* unread ones, so every ending before a selected post was selected too,   *)
(* was passed before, or came behind the selection; the invariant keeps    *)
(* this of every read that has not ended.  That the urgent table is exact  *)
(* after cleaning needs that a receipt of the last stage is only recorded  *)
(* by a settlement.                                                        *)
(***************************************************************************)

HookStates ==
  [pc : {"idle", "mark", "select", "emit", "record"}, agent : Readers \cup {NoReader},
   phase : {"pre", "post", "stop"}, chosen : SUBSET Posts, block : BOOLEAN]

ViewStates ==
  [pc : {"idle", "emit", "complete"}, agent : Readers \cup {NoReader}, chosen : SUBSET Posts,
   advance : BOOLEAN]

\* The types of the store, the processes and the histories.
InboxTypeOK ==
  /\ arrived \subseteq Posts /\ cleaned \subseteq arrived
  /\ stage \in [Readers -> [Posts -> Stages]]
  /\ cursor \in [Readers -> Nat]
  /\ fallbacks \in [Questions -> Nat]
  /\ hook \in [Hooks -> HookStates]
  /\ viewer \in [Viewers -> ViewStates]
  /\ shown \in [Readers -> SUBSET Posts]
  /\ settled \in [Readers -> SUBSET arrived]
  /\ late \in [Readers -> SUBSET Posts]

\* A hook that runs has an agent, and what it is about to record was shown.
HookShows ==
  \A h \in Hooks : hook[h].pc # "idle" =>
    hook[h].agent \in Readers /\ (hook[h].pc = "record" => hook[h].chosen \subseteq shown[hook[h].agent])

\* So has a read; it selects posts that have arrived.
ViewShows ==
  \A v \in Viewers :
    /\ viewer[v].chosen \subseteq arrived
    /\ viewer[v].pc # "idle" => viewer[v].agent \in Readers
    /\ viewer[v].pc = "complete" => viewer[v].chosen \subseteq shown[viewer[v].agent]

\* The cursor stands at a post that has arrived.
CursorArrived == \A a \in Readers : cursor[a] \in arrived \cup {0}

\* An ending before a post that a read has selected was selected with it, was shown
\* before, or came late.
EndingsCovered ==
  \A v \in Viewers : viewer[v].pc # "idle" /\ viewer[v].advance =>
    \A m \in Addressed(viewer[v].agent) \cap EndingPosts : \A n \in viewer[v].chosen :
      m <= n => m \in viewer[v].chosen \cup shown[viewer[v].agent] \cup late[viewer[v].agent]

\* The fallback of a question arrives by its escalation only.
FallbackAuthored == \A q \in Questions : FallbackOf[q] \in arrived => fallbacks[q] = 1

\* The last stage is that of a settled message.
AcknowledgedIsSettled == \A a \in Readers, m \in Posts : stage[a][m] = 3 => m \in settled[a]

InboxInv ==
  /\ InboxTypeOK /\ HookShows /\ ViewShows /\ CursorArrived /\ EndingsCovered
  /\ FallbackAuthored /\ AcknowledgedIsSettled
  /\ OneFallback /\ RecordedWasShown /\ PassedWasShown /\ UrgentExact

-----------------------------------------------------------------------------
\* Sets of numbers

\* A non-empty set of natural numbers has a least element.
LEMMA LeastNumber ==
  ASSUME NEW T \in SUBSET Nat, T # {}
  PROVE  \E x \in T : \A y \in T : x <= y
<1> DEFINE R == OpToRel(<, Nat)
<1>1. IsWellFoundedOn(R, Nat)
  BY NatLessThanWellFounded
<1>2. \A x, y \in Nat : y < x => <<y, x>> \in R
  BY DEF OpToRel
<1> HIDE DEF R
<1>3. PICK x \in T : \A y \in T : ~ (<<y, x>> \in R)
  BY <1>1, WFMin
<1>4. \A y \in T : ~(y < x)
  BY <1>2, <1>3, Zenon
<1>5. \A y \in T : x <= y
  BY <1>4, SMT
<1> QED
  BY <1>5

\* The maximum of a finite non-empty set of natural numbers is its greatest element:
\* a smallest set without one would lose the property with one of its elements.
LEMMA MaxIsGreatest ==
  ASSUME NEW S \in SUBSET Nat, IsFiniteSet(S), S # {}
  PROVE  Max(S) \in S /\ \A y \in S : y <= Max(S)
<1> DEFINE Topped(T) == \E x \in T : \A y \in T : y <= x
           Bad == {T \in SUBSET S : T # {} /\ ~Topped(T)}
<1>1. Bad = {}
  <2> SUFFICES ASSUME Bad # {} PROVE FALSE
    OBVIOUS
  <2> DEFINE Sizes == {Cardinality(T) : T \in Bad}
  <2>1. \A T \in Bad : IsFiniteSet(T) /\ Cardinality(T) \in Nat
    BY FS_Subset, FS_CardinalityType
  <2>2. Sizes \in SUBSET Nat /\ Sizes # {}
    BY <2>1
  <2>3. PICK n \in Sizes : \A k \in Sizes : n <= k
    BY <2>2, LeastNumber
  <2>4. PICK T \in Bad : Cardinality(T) = n
    BY <2>3
  <2>5. PICK x \in T : TRUE
    BY <2>4
  <2> DEFINE U == T \ {x}
  <2>6. Cardinality(U) = n - 1 /\ U \in SUBSET S /\ n \in Nat
    BY <2>1, <2>4, <2>5, FS_RemoveElement
  <2>7. U \notin Bad
    <3> SUFFICES ASSUME U \in Bad PROVE FALSE
      OBVIOUS
    <3>1. Cardinality(U) \in Sizes
      BY Zenon
    <3>2. n <= Cardinality(U)
      BY <2>3, <3>1
    <3> HIDE DEF U
    <3> QED
      BY <2>6, <3>2
  <2>8. CASE U = {}
    <3>1. \A y \in T : y = x /\ x \in Nat
      BY <2>4, <2>5, <2>8
    <3>2. Topped(T)
      BY <2>5, <3>1
    <3> QED
      BY <2>4, <3>2
  <2>9. CASE U # {}
    <3>1. PICK z \in U : \A y \in U : y <= z
      BY <2>6, <2>7, <2>9
    <3>2. x \in Nat /\ z \in Nat /\ z \in T /\ \A y \in T : y \in U \/ y = x
      BY <2>4, <2>5, <3>1
    <3>3. \A y \in T : y \in Nat
      BY <2>4
    <3>4. CASE x <= z
      BY <2>4, <3>1, <3>2, <3>4
    <3>5. CASE z <= x
      BY <2>4, <2>5, <3>1, <3>2, <3>3, <3>5
    <3> QED
      BY <3>2, <3>4, <3>5
  <2> QED
    BY <2>8, <2>9
<1>2. \E x \in S : \A y \in S : x >= y
  BY <1>1
<1> QED
  BY <1>2 DEF Max

\* The greater of two stages.
LEMMA MaxOfTwo ==
  ASSUME NEW x \in Nat, NEW y \in Nat
  PROVE  Max({x, y}) = IF y > x THEN y ELSE x
<1>1. \A z \in {x, y} : (\A u \in {x, y} : z >= u) <=> z = IF y > x THEN y ELSE x
  OBVIOUS
<1>2. (IF y > x THEN y ELSE x) \in {x, y}
  OBVIOUS
<1> QED
  BY <1>1, <1>2 DEF Max

\* The smaller of two numbers.
LEMMA MinOfTwo ==
  ASSUME NEW x \in Nat, NEW y \in Nat
  PROVE  Min({x, y}) = IF y < x THEN y ELSE x
<1>1. \A z \in {x, y} : (\A u \in {x, y} : z <= u) <=> z = IF y < x THEN y ELSE x
  OBVIOUS
<1>2. (IF y < x THEN y ELSE x) \in {x, y}
  OBVIOUS
<1> QED
  BY <1>1, <1>2 DEF Min

\* Sets of posts are finite sets of numbers, and so are their cardinalities.
LEMMA PostsFinite ==
  ASSUME NEW S \in SUBSET (Posts \cup {0})
  PROVE  IsFiniteSet(S) /\ Cardinality(S) \in Nat /\ S \in SUBSET Nat
<1>1. IsFiniteSet(Posts \cup {0})
  BY InboxAssumption, FS_AddElement
<1>2. IsFiniteSet(S)
  BY <1>1, FS_Subset
<1>3. S \in SUBSET Nat
  BY InboxAssumption
<1> QED
  BY <1>2, <1>3, FS_CardinalityType

\* The first posts of a set are closed downwards: with a post come all smaller ones.
LEMMA FirstDownward ==
  ASSUME NEW S \in SUBSET Posts, NEW n \in Nat, NEW m \in S, NEW k \in First(n, S), m <= k
  PROVE  m \in First(n, S)
<1> DEFINE M == {i \in S : i < m}
           K == {i \in S : i < k}
<1>0. k \in S /\ \A i \in S : i \in Nat
  BY InboxAssumption DEF First
<1>1. M \in SUBSET K /\ K \in SUBSET Posts
  <2>1. \A i \in S : i < m => i < k
    BY <1>0
  <2> QED
    BY <2>1
<1>2. IsFiniteSet(K) /\ Cardinality(K) \in Nat /\ Cardinality(M) \in Nat
  BY <1>1, PostsFinite
<1>3. Cardinality(M) <= Cardinality(K)
  BY <1>1, <1>2, FS_Subset
<1>4. Cardinality(K) < n
  BY DEF First
<1> HIDE DEF M, K
<1>5. Cardinality(M) < n
  BY <1>2, <1>3, <1>4
<1> QED
  BY <1>5 DEF First, M

\* The first n posts of a set are n, or all of it: the smallest post left out has n
\* posts before it.
LEMMA FirstEnough ==
  ASSUME NEW S \in SUBSET Posts, NEW n \in Nat, Cardinality(First(n, S)) < n
  PROVE  First(n, S) = S
<1> DEFINE F == First(n, S)
<1>1. F \in SUBSET S
  BY DEF First
<1>2. IsFiniteSet(F) /\ Cardinality(F) \in Nat
  BY <1>1, PostsFinite
<1> SUFFICES ASSUME S \ F # {} PROVE FALSE
  BY <1>1
<1>3. PICK m \in S \ F : \A k \in S \ F : m <= k
  <2>1. S \ F \in SUBSET Nat
    BY InboxAssumption
  <2> QED
    BY <2>1, LeastNumber
<1> DEFINE M == {i \in S : i < m}
<1>4. M \in SUBSET F
  <2>1. \A i \in S : i \in Nat
    BY InboxAssumption
  <2>2. \A i \in S : i < m => i \in F
    BY <1>3, <2>1
  <2> QED
    BY <2>2
<1>5. Cardinality(M) <= Cardinality(F) /\ Cardinality(M) \in Nat
  BY <1>1, <1>2, <1>4, FS_Subset, PostsFinite
<1>6. Cardinality(M) < n
  BY <1>2, <1>5
<1> QED
  BY <1>3, <1>6 DEF First

-----------------------------------------------------------------------------
\* Receipts and commits

\* A receipt raises the stages of its messages and changes no other; only one of the
\* last stage changes the urgent table.
LEMMA ReceiptsRaise ==
  ASSUME InboxTypeOK, NEW a \in Readers, NEW ms, NEW s \in 1..3, Receipts(a, ms, s)
  PROVE  /\ stage' \in [Readers -> [Posts -> Stages]]
         /\ \A b \in Readers, m \in Posts :
              /\ stage'[b][m] >= stage[b][m]
              /\ stage'[b][m] # stage[b][m] => b = a /\ m \in ms /\ stage'[b][m] = s
         /\ s # 3 => urgent' = urgent
<1>1. \A m \in Posts : stage[a][m] \in Nat /\ stage[a][m] \in Stages
  BY DEF InboxTypeOK, Stages
<1>2. \A m \in Posts : Max({s, stage[a][m]}) = IF stage[a][m] > s THEN stage[a][m] ELSE s
  BY <1>1, MaxOfTwo
<1>3. stage' = [stage EXCEPT ![a] = [m \in Posts |-> IF m \in ms THEN IF stage[a][m] > s THEN stage[a][m] ELSE s
                                                     ELSE stage[a][m]]]
  BY <1>2 DEF Receipts, InboxTypeOK
<1>4. \A m \in Posts : stage'[a][m] = IF m \in ms THEN IF stage[a][m] > s THEN stage[a][m] ELSE s ELSE stage[a][m]
  BY <1>3 DEF InboxTypeOK
<1>5. \A b \in Readers \ {a} : stage'[b] = stage[b]
  BY <1>3 DEF InboxTypeOK
<1>6. stage' \in [Readers -> [Posts -> Stages]]
  BY <1>1, <1>3 DEF InboxTypeOK, Stages
<1>7. \A b \in Readers, m \in Posts : stage[b][m] \in Nat
  BY DEF InboxTypeOK, Stages
<1>8. s # 3 => urgent' = urgent
  BY DEF Receipts
<1> QED
  BY <1>4, <1>5, <1>6, <1>7, <1>8

\* The posts that the reads of an agent have selected, and its cursor, are at most its
\* horizon.
LEMMA HorizonBounds ==
  ASSUME InboxTypeOK, CursorArrived, NEW a \in Readers
  PROVE  /\ cursor[a] <= Horizon(a)
         /\ \A v \in Viewers : viewer[v].agent = a /\ viewer[v].advance =>
              \A n \in viewer[v].chosen : n <= Horizon(a)
         /\ Horizon(a) \in Nat
<1> DEFINE S == {cursor[a]} \cup UNION {viewer[v].chosen : v \in {w \in Viewers : viewer[w].agent = a /\ viewer[w].advance}}
<1>1. S \in SUBSET (Posts \cup {0})
  BY DEF InboxTypeOK, CursorArrived, ViewStates
<1>2. S # {} /\ cursor[a] \in S
  OBVIOUS
<1>3. \A v \in Viewers : viewer[v].agent = a /\ viewer[v].advance => viewer[v].chosen \subseteq S
  OBVIOUS
<1>4. Horizon(a) = Max(S)
  BY DEF Horizon
<1> HIDE DEF S
<1>5. Max(S) \in S /\ \A y \in S : y <= Max(S)
  BY <1>1, <1>2, PostsFinite, MaxIsGreatest
<1>6. S \in SUBSET Nat
  BY <1>1, PostsFinite
<1> QED
  BY <1>2, <1>3, <1>4, <1>5, <1>6

\* Posts that arrive enter the urgent table and do not disturb what is kept of the
\* cursors: an ending behind one of them is late.
LEMMA IndexKeeps ==
  ASSUME InboxInv, NEW ms \in SUBSET (Posts \ arrived), Index(ms),
         UNCHANGED <<cleaned, cursor, viewer, shown, settled>>
  PROVE  UrgentExact' /\ PassedWasShown' /\ EndingsCovered' /\ CursorArrived' /\ ViewShows'
<1> USE DEF InboxInv
<1>1. arrived' = arrived \cup ms /\ Held' = Held \cup ms
  BY DEF Index, Held, InboxTypeOK
<1>2. UrgentExact'
  <2>1. \A a \in Readers : \A m \in ms : m \notin settled[a]
    BY DEF InboxTypeOK
  <2>2. urgent' = urgent \cup Rows(ms)
    BY DEF Index
  <2>3. Rows(Held)' = Rows(Held) \cup Rows(ms)
    BY <1>1 DEF Rows
  <2> QED
    BY <2>1, <2>2, <2>3 DEF UrgentExact, Rows
<1>3. ASSUME NEW a \in Readers
      PROVE  /\ late'[a] = late[a] \cup {m \in ms \cap EndingPosts : m < Horizon(a)}
             /\ \A m \in Addressed(a)' : m \in Addressed(a) \/ m \in ms
  BY <1>1 DEF Index, Addressed
<1>4. \A n \in arrived : \A m \in ms : n # m /\ n \in Nat /\ m \in Nat /\ n # 0 /\ m # 0
  BY InboxAssumption DEF InboxTypeOK
<1>5. PassedWasShown'
  <2> SUFFICES ASSUME NEW a \in Readers, NEW m \in Addressed(a)', m \in EndingPosts, m <= cursor[a]
               PROVE  m \in shown[a] \cup late'[a]
    BY DEF PassedWasShown
  <2>1. CASE m \in Addressed(a)
    BY <1>3, <2>1 DEF PassedWasShown
  <2>2. CASE m \in ms
    <3>1. cursor[a] \in arrived
      BY <1>4, <2>2, InboxAssumption DEF CursorArrived
    <3>2. m < cursor[a]
      BY <1>4, <2>2, <3>1
    <3>3. m < Horizon(a)
      BY <1>4, <2>2, <3>1, <3>2, HorizonBounds
    <3> QED
      BY <1>3, <2>2, <3>3
  <2> QED
    BY <1>3, <2>1, <2>2
<1>6. EndingsCovered'
  <2> SUFFICES ASSUME NEW v \in Viewers, viewer[v].pc # "idle", viewer[v].advance,
                      NEW a \in Readers, a = viewer[v].agent,
                      NEW m \in Addressed(a)', m \in EndingPosts, NEW n \in viewer[v].chosen, m <= n
               PROVE  m \in viewer[v].chosen \cup shown[a] \cup late'[a]
    BY DEF EndingsCovered, ViewShows, Addressed
  <2>1. CASE m \in Addressed(a)
    BY <1>3, <2>1 DEF EndingsCovered
  <2>2. CASE m \in ms
    <3>1. n \in arrived
      BY DEF ViewShows
    <3>2. m < n
      BY <1>4, <2>2, <3>1
    <3>3. m < Horizon(a)
      BY <1>4, <2>2, <3>1, <3>2, HorizonBounds
    <3> QED
      BY <1>3, <2>2, <3>3
  <2> QED
    BY <1>3, <2>1, <2>2
<1>7. CursorArrived' /\ ViewShows'
  BY <1>1 DEF CursorArrived, ViewShows
<1> QED
  BY <1>2, <1>5, <1>6, <1>7

\* A context carries all urgent messages that wait, or urgent messages only.
LEMMA ContextUrgentFirst ==
  ASSUME InboxTypeOK, UrgentExact, NEW a \in Readers
  PROVE  /\ Context(a) \subseteq Posts
         /\ Context(a) \subseteq UrgentPosts \/ UrgentMail(a) \subseteq Context(a)
<1> DEFINE N == MaxContext
           pressing == UrgentMail(a)
           candidates == First(N, pressing) \cup First(N, PendingMail(a))
           both == pressing \cap candidates
           left == Min({N, Cardinality(candidates)}) - Min({N, Cardinality(both)})
<1>1. pressing \in SUBSET Posts /\ pressing \subseteq UrgentPosts /\ PendingMail(a) \in SUBSET Posts
  BY DEF UrgentMail, PendingMail, Mail, Addressed, Held, InboxTypeOK, UrgentExact, Rows
<1>2. First(N, pressing) \subseteq both /\ both \subseteq pressing /\ candidates \in SUBSET Posts /\ both \in SUBSET Posts
  BY <1>1 DEF First
<1>3. Context(a) = First(N, both) \cup First(left, candidates \ pressing)
  BY DEF Context
<1> HIDE DEF both, candidates, pressing, left
<1>4. Context(a) \subseteq Posts
  BY <1>2, <1>3 DEF First
<1>5. Cardinality(both) \in Nat /\ Cardinality(candidates) \in Nat /\ N \in Nat
  BY <1>2, PostsFinite, InboxAssumption
<1>6. CASE First(N, pressing) = pressing
  <2>1. both = pressing
    BY <1>2, <1>6
  <2> QED
    BY <1>3, <1>4, <1>6, <2>1 DEF pressing
<1>7. CASE First(N, pressing) # pressing
  <2> DEFINE F == First(N, pressing)
  <2>1. F \in SUBSET both /\ IsFiniteSet(both) /\ Cardinality(F) \in Nat
    BY <1>1, <1>2, PostsFinite DEF First
  <2>2. Cardinality(F) >= N
    BY <1>1, <1>5, <1>7, <2>1, FirstEnough
  <2>3. Cardinality(F) <= Cardinality(both)
    BY <2>1, FS_Subset
  <2> HIDE DEF F
  <2>4. Min({N, Cardinality(both)}) = N /\ Min({N, Cardinality(candidates)}) <= N
    <3>1. Cardinality(both) >= N
      BY <1>5, <2>1, <2>2, <2>3
    <3> QED
      BY <1>5, <3>1, MinOfTwo
  <2>5. Min({N, Cardinality(candidates)}) \in Nat
    BY <1>5, MinOfTwo
  <2>6. left <= 0 /\ left \in Int
    BY <1>5, <2>4, <2>5 DEF left
  <2>7. First(left, candidates \ pressing) = {}
    <3> SUFFICES ASSUME NEW m \in candidates \ pressing,
                        Cardinality({k \in candidates \ pressing : k < m}) < left
                 PROVE  FALSE
      BY DEF First
    <3>1. {k \in candidates \ pressing : k < m} \in SUBSET Posts
      BY <1>2
    <3>2. Cardinality({k \in candidates \ pressing : k < m}) \in Nat
      BY <3>1, PostsFinite
    <3> QED
      BY <2>6, <3>2
  <2> QED
    BY <1>1, <1>2, <1>3, <1>4, <2>7 DEF First
<1> QED
  BY <1>6, <1>7

-----------------------------------------------------------------------------
\* The invariant

\* At first nothing has arrived.
LEMMA InboxInitially == InboxInit => InboxInv
<1> SUFFICES ASSUME InboxInit PROVE InboxInv
  OBVIOUS
<1>1. InboxTypeOK
  BY DEF InboxInit, InboxTypeOK, HookStates, ViewStates, NoHook, NoView, Stages
<1>2. HookShows /\ ViewShows /\ CursorArrived /\ EndingsCovered
  BY DEF InboxInit, HookShows, ViewShows, CursorArrived, EndingsCovered, NoHook, NoView
<1>3. FallbackAuthored /\ AcknowledgedIsSettled /\ OneFallback /\ RecordedWasShown /\ PassedWasShown
  BY DEF InboxInit, FallbackAuthored, AcknowledgedIsSettled, OneFallback, RecordedWasShown, PassedWasShown,
         Addressed, Held
<1>4. UrgentExact
  BY DEF InboxInit, UrgentExact, Rows, Held
<1> QED
  BY <1>1, <1>2, <1>3, <1>4 DEF InboxInv

\* A post arrives from a peer or a local author.
LEMMA ArriveKeeps ==
  ASSUME InboxInv, NEW m \in Posts, Arrive(m)
  PROVE  InboxInv'
<1> USE DEF InboxInv
<1>1. {m} \in SUBSET (Posts \ arrived) /\ Index({m}) /\ \A q \in Questions : FallbackOf[q] # m
  BY DEF Arrive, Fallbacks
<1>2. UrgentExact' /\ PassedWasShown' /\ EndingsCovered' /\ CursorArrived' /\ ViewShows'
  BY <1>1, IndexKeeps DEF Arrive
<1>3. InboxTypeOK'
  BY <1>1 DEF Arrive, Index, InboxTypeOK
<1>4. FallbackAuthored' /\ OneFallback'
  BY <1>1 DEF Arrive, Index, FallbackAuthored, OneFallback
<1>5. HookShows' /\ AcknowledgedIsSettled' /\ RecordedWasShown'
  BY DEF Arrive, HookShows, AcknowledgedIsSettled, RecordedWasShown
<1> QED
  BY <1>2, <1>3, <1>4, <1>5

\* A message is acknowledged or replied to.
LEMMA SettleKeeps ==
  ASSUME InboxInv, NEW a \in Readers, NEW m \in Posts, Settle(a, m)
  PROVE  InboxInv'
<1> USE DEF InboxInv
<1>1. Receipts(a, {m}, 3) /\ m \in arrived
  BY DEF Settle, Mail, Addressed, Held
<1>2. /\ stage' \in [Readers -> [Posts -> Stages]]
      /\ \A b \in Readers, n \in Posts : stage'[b][n] # stage[b][n] => b = a /\ n = m /\ stage'[b][n] = 3
  BY <1>1, ReceiptsRaise
<1>3. /\ \A b \in Readers : settled'[b] = IF b = a THEN settled[b] \cup {m} ELSE settled[b]
      /\ settled' \in [Readers -> SUBSET arrived]
  BY <1>1 DEF Settle, InboxTypeOK
<1>4. InboxTypeOK'
  BY <1>2, <1>3 DEF Settle, InboxTypeOK
<1>5. AcknowledgedIsSettled'
  BY <1>2, <1>3 DEF AcknowledgedIsSettled
<1>6. RecordedWasShown'
  BY <1>2 DEF RecordedWasShown, Settle
<1>7. UrgentExact'
  <2>1. urgent' = urgent \ ({a} \X {m}) /\ Held' = Held
    BY <1>1 DEF Receipts, Settle, Held
  <2>2. \A r \in urgent : r \in Readers \X Posts
    BY InboxAssumption DEF UrgentExact, Rows
  <2> QED
    BY <1>3, <2>1, <2>2 DEF UrgentExact, Rows
<1>8. HookShows' /\ ViewShows' /\ CursorArrived' /\ EndingsCovered' /\ FallbackAuthored' /\ OneFallback' /\ PassedWasShown'
  BY DEF Settle, HookShows, ViewShows, CursorArrived, EndingsCovered, FallbackAuthored, OneFallback,
         PassedWasShown, Addressed, Held
<1> QED
  BY <1>4, <1>5, <1>6, <1>7, <1>8

\* A conversation is cleaned: its urgent message has been settled by all recipients, so
\* no row of the table is left behind.
LEMMA CleanKeeps ==
  ASSUME InboxInv, NEW m \in Posts, CleanPost(m)
  PROVE  InboxInv'
<1> USE DEF InboxInv
<1>1. InboxTypeOK'
  BY DEF CleanPost, Held, InboxTypeOK
<1>2. Held' = Held \ {m}
  BY DEF CleanPost, Held
<1>3. UrgentExact'
  <2>1. m \in UrgentPosts => \A a \in Readers : a \in To[m] => m \in settled[a]
    BY DEF CleanPost, CleanablePost, AcknowledgedIsSettled
  <2> QED
    BY <1>2, <2>1 DEF CleanPost, UrgentExact, Rows
<1>4. \A a \in Readers : Addressed(a)' \subseteq Addressed(a)
  BY <1>2 DEF Addressed
<1>5. PassedWasShown' /\ EndingsCovered'
  <2>1. PassedWasShown'
    BY <1>4 DEF CleanPost, PassedWasShown
  <2>2. EndingsCovered'
    BY <1>4 DEF CleanPost, EndingsCovered, ViewShows
  <2> QED
    BY <2>1, <2>2
<1>6. HookShows' /\ ViewShows' /\ CursorArrived' /\ FallbackAuthored' /\ OneFallback' /\ AcknowledgedIsSettled' /\ RecordedWasShown'
  BY DEF CleanPost, HookShows, ViewShows, CursorArrived, FallbackAuthored, OneFallback, AcknowledgedIsSettled,
         RecordedWasShown
<1> QED
  BY <1>1, <1>3, <1>5, <1>6

\* A question that ends changes nothing of the records.
LEMMA AnswerKeeps ==
  ASSUME InboxInv, NEW q \in Questions, AnswerQuestion(q)
  PROVE  InboxInv'
  BY DEF AnswerQuestion, InboxInv, InboxTypeOK, HookShows, ViewShows, CursorArrived, EndingsCovered,
         FallbackAuthored, AcknowledgedIsSettled, OneFallback, RecordedWasShown, PassedWasShown, UrgentExact,
         Rows, Addressed, Held

\* A hook begins and authors the fallbacks that are due.
LEMMA HookBeginKeeps ==
  ASSUME InboxInv, NEW h \in Hooks, NEW a \in Readers, NEW phase \in {"pre", "post", "stop"},
         NEW due \in SUBSET Questions, HookBegin(h, a, phase, due)
  PROVE  InboxInv'
<1> USE DEF InboxInv
<1> DEFINE ms == {FallbackOf[q] : q \in due}
<1>1. ms \in SUBSET (Posts \ arrived) /\ \A q \in Questions : FallbackOf[q] \in ms <=> q \in due
  BY InboxAssumption DEF HookBegin, QuestionWaiting, FallbackAuthored
<1>2. Index(ms) /\ UNCHANGED <<cleaned, stage, cursor, answered, viewer, shown, settled>>
  BY DEF HookBegin
<1>3. \A q \in Questions : fallbacks'[q] = IF q \in due THEN 1 ELSE fallbacks[q]
  BY DEF HookBegin, QuestionWaiting, InboxTypeOK
<1>4. fallbacks' \in [Questions -> Nat]
  BY DEF HookBegin, InboxTypeOK
<1> HIDE DEF ms
<1>5. UrgentExact' /\ PassedWasShown' /\ EndingsCovered' /\ CursorArrived' /\ ViewShows'
  BY <1>1, <1>2, IndexKeeps
<1>6. /\ hook' \in [Hooks -> HookStates]
      /\ hook'[h].pc = "mark" /\ hook'[h].agent = a
      /\ \A k \in Hooks \ {h} : hook'[k] = hook[k]
  <2> DEFINE N == [NoHook EXCEPT !.pc = "mark", !.agent = a, !.phase = phase]
  <2>1. N \in HookStates /\ N.pc = "mark" /\ N.agent = a
    BY DEF NoHook, HookStates
  <2>2. hook' = [hook EXCEPT ![h] = N]
    BY DEF HookBegin
  <2> HIDE DEF N
  <2> QED
    BY <2>1, <2>2 DEF InboxTypeOK
<1>7. arrived' = arrived \cup ms /\ late' \in [Readers -> SUBSET Posts]
  BY <1>1, <1>2 DEF Index, InboxTypeOK
<1>8. InboxTypeOK'
  BY <1>1, <1>2, <1>4, <1>6, <1>7 DEF InboxTypeOK
<1>9. FallbackAuthored' /\ OneFallback'
  BY <1>1, <1>3, <1>7 DEF FallbackAuthored, OneFallback
<1>10. HookShows'
  BY <1>2, <1>6 DEF HookShows
<1>11. AcknowledgedIsSettled' /\ RecordedWasShown'
  BY <1>2 DEF AcknowledgedIsSettled, RecordedWasShown
<1> QED
  BY <1>5, <1>8, <1>9, <1>10, <1>11

\* Receipts of the first two stages for messages that were shown to their agent leave
\* all of the records true.
LEMMA ShownReceipts ==
  ASSUME InboxInv, NEW a \in Readers, NEW ms, NEW s \in {1, 2}, Receipts(a, ms, s),
         \A m \in Posts : m \in ms => m \in shown[a],
         UNCHANGED <<arrived, cleaned, shown, settled>>
  PROVE  /\ stage' \in [Readers -> [Posts -> Stages]]
         /\ AcknowledgedIsSettled' /\ RecordedWasShown' /\ UrgentExact'
<1> USE DEF InboxInv
<1>1. /\ stage' \in [Readers -> [Posts -> Stages]]
      /\ \A b \in Readers, n \in Posts : stage'[b][n] # stage[b][n] => b = a /\ n \in ms /\ stage'[b][n] = s
      /\ urgent' = urgent
  BY ReceiptsRaise
<1>2. AcknowledgedIsSettled' /\ RecordedWasShown'
  BY <1>1 DEF AcknowledgedIsSettled, RecordedWasShown
<1>3. UrgentExact'
  BY <1>1 DEF UrgentExact, Rows, Held
<1> QED
  BY <1>1, <1>2, <1>3

\* Before a tool call, what was delivered counts as read.
LEMMA HookMarkKeeps ==
  ASSUME InboxInv, NEW h \in Hooks, HookMark(h)
  PROVE  InboxInv'
<1> USE DEF InboxInv
<1>1. PICK a \in Readers : a = hook[h].agent
  BY DEF HookMark, HookShows
<1>2. /\ stage' \in [Readers -> [Posts -> Stages]]
      /\ AcknowledgedIsSettled' /\ RecordedWasShown' /\ UrgentExact'
  <2>1. CASE Receipts(a, {m \in Held : stage[a][m] = 1}, 2)
    <3>1. \A m \in Posts : m \in {n \in Held : stage[a][n] = 1} => m \in shown[a]
      BY DEF RecordedWasShown
    <3> QED
      BY <2>1, <3>1, ShownReceipts DEF HookMark
  <2>2. CASE UNCHANGED <<stage, urgent>>
    BY <2>2 DEF HookMark, InboxTypeOK, AcknowledgedIsSettled, RecordedWasShown, UrgentExact, Rows, Held
  <2> QED
    BY <1>1, <2>1, <2>2 DEF HookMark
<1>3. hook' \in [Hooks -> HookStates] /\ hook'[h].agent = a /\ hook'[h].pc = "select" /\ \A k \in Hooks \ {h} : hook'[k] = hook[k]
  BY ZenonT(60), <1>1 DEF HookMark, InboxTypeOK, HookStates
<1>4. InboxTypeOK'
  BY <1>2, <1>3 DEF HookMark, InboxTypeOK
<1>5. HookShows'
  BY <1>3 DEF HookMark, HookShows
<1>6. ViewShows' /\ CursorArrived' /\ EndingsCovered' /\ FallbackAuthored' /\ OneFallback' /\ PassedWasShown'
  BY DEF HookMark, ViewShows, CursorArrived, EndingsCovered, FallbackAuthored, OneFallback, PassedWasShown,
         Addressed, Held
<1> QED
  BY <1>2, <1>4, <1>5, <1>6

\* The records do not depend on what a hook is doing.
LEMMA HookAlone ==
  ASSUME InboxInv, hook' \in [Hooks -> HookStates], HookShows',
         UNCHANGED <<arrived, cleaned, stage, urgent, cursor, answered, fallbacks, viewer, shown, settled, late>>
  PROVE  InboxInv'
  BY DEF InboxInv, InboxTypeOK, ViewShows, CursorArrived, EndingsCovered,
         FallbackAuthored, AcknowledgedIsSettled, OneFallback, RecordedWasShown, PassedWasShown, UrgentExact,
         Rows, Addressed, Held

\* A hook selects its context, or ends without a record.
LEMMA HookSelectKeeps ==
  ASSUME InboxInv, NEW h \in Hooks, HookSelect(h) \/ HookEnds(h)
  PROVE  InboxInv'
<1> USE DEF InboxInv
<1>1. CASE HookSelect(h)
  <2>1. PICK a \in Readers : a = hook[h].agent
    BY <1>1 DEF HookSelect, HookShows
  <2>2. Context(a) \subseteq Posts
    BY ContextUrgentFirst
  <2>3. PICK chosen \in SUBSET Posts, block \in BOOLEAN :
          hook' = [hook EXCEPT ![h].pc = "emit", ![h].chosen = chosen, ![h].block = block]
    BY <1>1, <2>1, <2>2 DEF HookSelect
  <2>4. /\ hook' \in [Hooks -> HookStates]
        /\ hook'[h].pc = "emit" /\ hook'[h].agent = a
        /\ \A k \in Hooks \ {h} : hook'[k] = hook[k]
    <3> DEFINE N == [hook[h] EXCEPT !.pc = "emit", !.chosen = chosen, !.block = block]
    <3>1. hook[h] \in HookStates
      BY DEF InboxTypeOK
    <3>2. N \in HookStates /\ N.pc = "emit" /\ N.agent = a
      BY <2>1, <3>1 DEF HookStates
    <3>3. hook' = [hook EXCEPT ![h] = N]
      BY <2>3
    <3> HIDE DEF N
    <3> QED
      BY <3>2, <3>3 DEF InboxTypeOK
  <2>5. HookShows'
    BY <1>1, <2>4 DEF HookSelect, HookShows
  <2> QED
    BY <1>1, <2>4, <2>5, HookAlone DEF HookSelect
<1>2. CASE HookEnds(h)
  <2>1. hook' \in [Hooks -> HookStates] /\ HookShows'
    BY <1>2 DEF HookEnds, NoHook, InboxTypeOK, HookStates, HookShows
  <2> QED
    BY <1>2, <2>1, HookAlone DEF HookEnds
<1> QED
  BY <1>1, <1>2

\* Showing posts to an agent leaves everything true that it could disturb.
LEMMA ShowKeeps ==
  ASSUME InboxInv, NEW a \in Readers, NEW ms \in SUBSET Posts, shown' = [shown EXCEPT ![a] = @ \cup ms],
         UNCHANGED <<arrived, cleaned, stage, urgent, cursor, answered, fallbacks, settled, late>>
  PROVE  /\ shown' \in [Readers -> SUBSET Posts]
         /\ \A b \in Readers : shown[b] \subseteq shown'[b]
         /\ ms \subseteq shown'[a]
         /\ CursorArrived' /\ FallbackAuthored' /\ AcknowledgedIsSettled' /\ OneFallback'
         /\ RecordedWasShown' /\ PassedWasShown' /\ UrgentExact'
<1> USE DEF InboxInv
<1>1. /\ shown' \in [Readers -> SUBSET Posts]
      /\ \A b \in Readers : shown[b] \subseteq shown'[b]
      /\ ms \subseteq shown'[a]
  BY DEF InboxTypeOK
<1>2. CursorArrived' /\ FallbackAuthored' /\ AcknowledgedIsSettled' /\ OneFallback' /\ UrgentExact'
  BY DEF CursorArrived, FallbackAuthored, AcknowledgedIsSettled, OneFallback, UrgentExact, Rows, Held
<1>3. RecordedWasShown' /\ PassedWasShown'
  BY <1>1 DEF RecordedWasShown, PassedWasShown, Addressed, Held
<1> QED
  BY <1>1, <1>2, <1>3

\* The output of a hook.
LEMMA HookEmitKeeps ==
  ASSUME InboxInv, NEW h \in Hooks, HookEmit(h)
  PROVE  InboxInv'
<1> USE DEF InboxInv
<1>1. PICK a \in Readers : a = hook[h].agent
  BY DEF HookEmit, HookShows
<1>2. hook[h].chosen \in SUBSET Posts
  BY DEF InboxTypeOK, HookStates
<1>3. /\ shown' \in [Readers -> SUBSET Posts]
      /\ \A b \in Readers : shown[b] \subseteq shown'[b]
      /\ hook[h].chosen \subseteq shown'[a]
      /\ CursorArrived' /\ FallbackAuthored' /\ AcknowledgedIsSettled' /\ OneFallback'
      /\ RecordedWasShown' /\ PassedWasShown' /\ UrgentExact'
  BY <1>1, <1>2, ShowKeeps DEF HookEmit
<1>4. /\ hook' \in [Hooks -> HookStates]
      /\ hook'[h].agent = a /\ hook'[h].chosen = hook[h].chosen
      /\ \A k \in Hooks \ {h} : hook'[k] = hook[k]
  BY ZenonT(60), <1>1 DEF HookEmit, InboxTypeOK, HookStates
<1>5. HookShows'
  BY <1>3, <1>4 DEF HookShows
<1>6. ViewShows' /\ EndingsCovered'
  <2>1. ViewShows'
    BY <1>3 DEF HookEmit, ViewShows
  <2>2. EndingsCovered'
    BY <1>3 DEF HookEmit, EndingsCovered, ViewShows, Addressed, Held
  <2> QED
    BY <2>1, <2>2
<1>7. InboxTypeOK'
  BY <1>3, <1>4 DEF HookEmit, InboxTypeOK
<1> QED
  BY <1>3, <1>5, <1>6, <1>7

\* A hook records what it has shown.
LEMMA HookRecordKeeps ==
  ASSUME InboxInv, NEW h \in Hooks, HookRecord(h)
  PROVE  InboxInv'
<1> USE DEF InboxInv
<1>1. PICK a \in Readers : a = hook[h].agent
  BY DEF HookRecord, HookShows
<1>2. hook[h].chosen \subseteq shown[a]
  BY <1>1 DEF HookRecord, HookShows
<1>3. /\ stage' \in [Readers -> [Posts -> Stages]]
      /\ AcknowledgedIsSettled' /\ RecordedWasShown' /\ UrgentExact'
  BY <1>1, <1>2, ShownReceipts DEF HookRecord
<1>4. hook' \in [Hooks -> HookStates] /\ HookShows'
  BY DEF HookRecord, NoHook, InboxTypeOK, HookStates, HookShows
<1>5. InboxTypeOK'
  BY <1>3, <1>4 DEF HookRecord, InboxTypeOK
<1>6. ViewShows' /\ CursorArrived' /\ EndingsCovered' /\ FallbackAuthored' /\ OneFallback' /\ PassedWasShown'
  BY DEF HookRecord, ViewShows, CursorArrived, EndingsCovered, FallbackAuthored, OneFallback, PassedWasShown,
         Addressed, Held
<1> QED
  BY <1>3, <1>4, <1>5, <1>6

\* The records do not depend on what a read is doing.
LEMMA ViewAlone ==
  ASSUME InboxInv, viewer' \in [Viewers -> ViewStates], ViewShows', EndingsCovered',
         UNCHANGED <<arrived, cleaned, stage, urgent, cursor, answered, fallbacks, hook, shown, settled, late>>
  PROVE  InboxInv'
  BY DEF InboxInv, InboxTypeOK, HookShows, CursorArrived,
         FallbackAuthored, AcknowledgedIsSettled, OneFallback, RecordedWasShown, PassedWasShown, UrgentExact,
         Rows, Addressed, Held

\* A read that selects the first of a set with all unread endings covers them.
LEMMA ViewBeginKeeps ==
  ASSUME InboxInv, NEW v \in Viewers, NEW a \in Readers, NEW chosen \in SUBSET Addressed(a),
         NEW advance \in BOOLEAN, ViewBegin(v, a, chosen, advance),
         advance => \A m \in Addressed(a) \cap EndingPosts : \A n \in chosen :
                      m > cursor[a] /\ m <= n => m \in chosen
  PROVE  InboxInv'
<1> USE DEF InboxInv
<1> DEFINE N == [pc |-> "emit", agent |-> a, chosen |-> chosen, advance |-> advance]
<1>1. chosen \subseteq Posts /\ chosen \subseteq arrived
  BY DEF Addressed, Held, InboxTypeOK
<1>2. N \in ViewStates /\ N.pc = "emit" /\ N.agent = a /\ N.chosen = chosen /\ N.advance = advance
  BY <1>1 DEF ViewStates
<1>3. viewer' = [viewer EXCEPT ![v] = N]
  BY DEF ViewBegin
<1> HIDE DEF N
<1>4. viewer' \in [Viewers -> ViewStates] /\ viewer'[v] = N /\ \A u \in Viewers \ {v} : viewer'[u] = viewer[u]
  BY <1>2, <1>3 DEF InboxTypeOK
<1>5. ViewShows'
  BY <1>1, <1>2, <1>4 DEF ViewBegin, ViewShows
<1>6. EndingsCovered'
  <2> SUFFICES ASSUME NEW u \in Viewers, viewer'[u].pc # "idle", viewer'[u].advance,
                      NEW m \in Addressed(viewer'[u].agent), m \in EndingPosts, NEW n \in viewer'[u].chosen, m <= n
               PROVE  m \in viewer'[u].chosen \cup shown[viewer'[u].agent] \cup late[viewer'[u].agent]
    BY DEF ViewBegin, EndingsCovered, Addressed, Held
  <2>1. CASE u = v
    <3>1. m \in Addressed(a) /\ n \in chosen /\ advance
      BY <1>2, <1>4, <2>1
    <3>2. CASE m > cursor[a]
      BY <1>2, <1>4, <2>1, <3>1, <3>2
    <3>3. CASE m <= cursor[a]
      BY <1>2, <1>4, <2>1, <3>1, <3>3 DEF PassedWasShown
    <3>4. m \in Nat /\ cursor[a] \in Nat
      BY <3>1, InboxAssumption DEF InboxTypeOK
    <3> QED
      BY <3>2, <3>3, <3>4
  <2>2. CASE u # v
    BY <1>4, <2>2 DEF EndingsCovered
  <2> QED
    BY <2>1, <2>2
<1> QED
  BY <1>4, <1>5, <1>6, ViewAlone DEF ViewBegin

\* Every selection of a read covers the endings before it.
LEMMA OpenKeeps ==
  ASSUME InboxInv, NEW v \in Viewers, NEW a \in Readers,
         \/ OpenInbox(v, a) \/ OpenWholeInbox(v, a)
         \/ \E m \in Posts : OpenMessage(v, a, m)
  PROVE  InboxInv'
<1> USE DEF InboxInv
<1>0. Unread(a) \in SUBSET Addressed(a) /\ Addressed(a) \in SUBSET Posts
  BY DEF Unread, Addressed, Held, InboxTypeOK
<1>1. CASE OpenInbox(v, a)
  <2>1. First(MaxShown, Unread(a)) \in SUBSET Addressed(a)
    BY <1>0 DEF First
  <2>2. ASSUME NEW m \in Addressed(a) \cap EndingPosts, NEW n \in First(MaxShown, Unread(a)), m > cursor[a], m <= n
        PROVE  m \in First(MaxShown, Unread(a))
    <3>1. m \in Unread(a) /\ Unread(a) \in SUBSET Posts
      BY <1>0, <2>2 DEF Unread
    <3> QED
      BY <2>2, <3>1, FirstDownward, InboxAssumption
  <2> QED
    BY <1>1, <2>1, <2>2, ViewBeginKeeps DEF OpenInbox
<1>2. CASE OpenWholeInbox(v, a)
  <2>1. First(MaxShown, Addressed(a)) \in SUBSET Addressed(a)
    BY DEF First
  <2>2. ASSUME NEW m \in Addressed(a) \cap EndingPosts, NEW n \in First(MaxShown, Addressed(a)), m <= n
        PROVE  m \in First(MaxShown, Addressed(a))
    BY <1>0, <2>2, FirstDownward, InboxAssumption
  <2> QED
    BY <1>2, <2>1, <2>2, ViewBeginKeeps DEF OpenWholeInbox
<1>3. ASSUME NEW m \in Posts, OpenMessage(v, a, m)
      PROVE  InboxInv'
  BY <1>3, ViewBeginKeeps DEF OpenMessage, Mail
<1> QED
  BY <1>1, <1>2, <1>3

\* The output of a read.
LEMMA ViewEmitKeeps ==
  ASSUME InboxInv, NEW v \in Viewers, ViewEmit(v)
  PROVE  InboxInv'
<1> USE DEF InboxInv
<1>1. PICK a \in Readers : a = viewer[v].agent
  BY DEF ViewEmit, ViewShows
<1>2. viewer[v].chosen \in SUBSET Posts
  BY DEF InboxTypeOK, ViewStates
<1>3. /\ shown' \in [Readers -> SUBSET Posts]
      /\ \A b \in Readers : shown[b] \subseteq shown'[b]
      /\ viewer[v].chosen \subseteq shown'[a]
      /\ CursorArrived' /\ FallbackAuthored' /\ AcknowledgedIsSettled' /\ OneFallback'
      /\ RecordedWasShown' /\ PassedWasShown' /\ UrgentExact'
  BY <1>1, <1>2, ShowKeeps DEF ViewEmit
<1>4. /\ viewer' \in [Viewers -> ViewStates]
      /\ viewer'[v].agent = a /\ viewer'[v].chosen = viewer[v].chosen /\ viewer'[v].advance = viewer[v].advance
      /\ \A u \in Viewers \ {v} : viewer'[u] = viewer[u]
  BY <1>1 DEF ViewEmit, InboxTypeOK, ViewStates
<1>5. ViewShows'
  BY <1>3, <1>4 DEF ViewEmit, ViewShows
<1>6. EndingsCovered'
  <2> SUFFICES ASSUME NEW u \in Viewers, viewer'[u].pc # "idle", viewer'[u].advance,
                      NEW m \in Addressed(viewer'[u].agent), m \in EndingPosts, NEW n \in viewer'[u].chosen, m <= n
               PROVE  m \in viewer'[u].chosen \cup shown'[viewer'[u].agent] \cup late[viewer'[u].agent]
    BY DEF ViewEmit, EndingsCovered, Addressed, Held
  <2>1. viewer[u].pc # "idle" /\ viewer'[u].agent = viewer[u].agent /\ viewer'[u].chosen = viewer[u].chosen
        /\ viewer'[u].advance = viewer[u].advance /\ viewer[u].agent \in Readers
    BY <1>1, <1>4 DEF ViewEmit, ViewShows
  <2> QED
    BY <1>3, <2>1 DEF EndingsCovered
<1>7. HookShows'
  BY <1>3 DEF ViewEmit, HookShows
<1>8. InboxTypeOK'
  BY <1>3, <1>4 DEF ViewEmit, InboxTypeOK
<1> QED
  BY <1>3, <1>5, <1>6, <1>7, <1>8

\* A read that ends is forgotten.
LEMMA ViewForgotten ==
  ASSUME InboxInv, NEW v \in Viewers, viewer' = [viewer EXCEPT ![v] = NoView],
         UNCHANGED <<arrived, cleaned, shown, late>>
  PROVE  viewer' \in [Viewers -> ViewStates] /\ ViewShows' /\ EndingsCovered'
<1> USE DEF InboxInv
<1>1. viewer' \in [Viewers -> ViewStates] /\ viewer'[v] = NoView /\ \A u \in Viewers \ {v} : viewer'[u] = viewer[u]
  BY DEF InboxTypeOK, ViewStates, NoView
<1>2. NoView.pc = "idle" /\ NoView.chosen = {}
  BY DEF NoView
<1>3. ViewShows'
  BY <1>1, <1>2 DEF ViewShows
<1>4. EndingsCovered'
  BY <1>1, <1>2 DEF EndingsCovered, Addressed, Held
<1> QED
  BY <1>1, <1>3, <1>4

\* A read is recorded: the cursor moves to the last post selected, and every ending up
\* to there was shown or came late.
LEMMA CompleteReadKeeps ==
  ASSUME InboxInv, NEW v \in Viewers, CompleteRead(v)
  PROVE  InboxInv'
<1> USE DEF InboxInv
<1>1. PICK a \in Readers : a = viewer[v].agent
  BY DEF CompleteRead, ViewShows
<1>2. PICK chosen \in SUBSET arrived : chosen = viewer[v].chosen /\ chosen \subseteq shown[a]
  BY <1>1 DEF CompleteRead, ViewShows
<1>3. viewer' \in [Viewers -> ViewStates] /\ ViewShows' /\ EndingsCovered'
  BY ViewForgotten DEF CompleteRead
<1>4. HookShows' /\ FallbackAuthored' /\ OneFallback'
  BY DEF CompleteRead, HookShows, FallbackAuthored, OneFallback
<1>5. CASE UNCHANGED <<stage, urgent, cursor>>
  BY <1>3, <1>4, <1>5 DEF CompleteRead, InboxTypeOK, CursorArrived, AcknowledgedIsSettled, RecordedWasShown,
                          PassedWasShown, UrgentExact, Rows, Addressed, Held
<1>6. CASE /\ Receipts(a, chosen \ EndingPosts, 2)
           /\ cursor' = [cursor EXCEPT ![a] = IF viewer[v].advance THEN Max({cursor[a]} \cup chosen) ELSE cursor[a]]
  <2>1. /\ stage' \in [Readers -> [Posts -> Stages]]
        /\ AcknowledgedIsSettled' /\ RecordedWasShown' /\ UrgentExact'
    BY <1>2, <1>6, ShownReceipts DEF CompleteRead
  <2> DEFINE S == {cursor[a]} \cup chosen
  <2>2. S \in SUBSET (Posts \cup {0}) /\ S # {} /\ S \subseteq arrived \cup {0}
    BY <1>2 DEF CursorArrived, InboxTypeOK
  <2>3. Max(S) \in S /\ S \in SUBSET Nat
    BY <2>2, PostsFinite, MaxIsGreatest
  <2>4. /\ cursor' \in [Readers -> Nat]
        /\ \A b \in Readers \ {a} : cursor'[b] = cursor[b]
        /\ cursor'[a] = cursor[a] \/ (viewer[v].advance /\ cursor'[a] \in chosen)
    BY <1>6, <2>3 DEF InboxTypeOK
  <2> HIDE DEF S
  <2>5. CursorArrived'
    BY <1>2, <2>4 DEF CompleteRead, CursorArrived
  <2>6. PassedWasShown'
    <3> SUFFICES ASSUME NEW b \in Readers, NEW m \in Addressed(b), m \in EndingPosts, m <= cursor'[b]
                 PROVE  m \in shown[b] \cup late[b]
      BY DEF CompleteRead, PassedWasShown, Addressed, Held
    <3>1. CASE cursor'[b] = cursor[b]
      BY <3>1 DEF PassedWasShown
    <3>2. CASE b = a /\ viewer[v].advance /\ cursor'[a] \in chosen
      BY <1>1, <1>2, <3>2 DEF CompleteRead, EndingsCovered
    <3> QED
      BY <2>4, <3>1, <3>2
  <2>7. InboxTypeOK'
    BY <1>3, <2>1, <2>4 DEF CompleteRead, InboxTypeOK
  <2> QED
    BY <1>3, <1>4, <2>1, <2>5, <2>6, <2>7
<1> QED
  BY <1>1, <1>2, <1>5, <1>6 DEF CompleteRead

\* A read that ends without a record changes nothing else.
LEMMA ViewEndsKeeps ==
  ASSUME InboxInv, NEW v \in Viewers, ViewEnds(v)
  PROVE  InboxInv'
  BY ViewForgotten, ViewAlone DEF ViewEnds

\* Every step keeps the invariant.
LEMMA InboxNextKeeps == InboxInv /\ [InboxNext]_inboxVars => InboxInv'
<1>1. ASSUME InboxInv, InboxNext PROVE InboxInv'
  <2>1. ASSUME NEW h \in Hooks, HookStep(h) PROVE InboxInv'
    BY <1>1, <2>1, HookBeginKeeps, HookMarkKeeps, HookSelectKeeps, HookEmitKeeps, HookRecordKeeps DEF HookStep
  <2>2. ASSUME NEW v \in Viewers, ViewStep(v) PROVE InboxInv'
    BY <1>1, <2>2, OpenKeeps, ViewEmitKeeps, CompleteReadKeeps, ViewEndsKeeps DEF ViewStep
  <2> QED
    BY <1>1, <2>1, <2>2, ArriveKeeps, CleanKeeps, SettleKeeps, AnswerKeeps DEF InboxNext
<1>2. ASSUME InboxInv, UNCHANGED inboxVars PROVE InboxInv'
  BY <1>2 DEF inboxVars, InboxInv, InboxTypeOK, HookShows, ViewShows, CursorArrived, EndingsCovered,
         FallbackAuthored, AcknowledgedIsSettled, OneFallback, RecordedWasShown, PassedWasShown, UrgentExact,
         Rows, Addressed, Held
<1> QED
  BY <1>1, <1>2

\* The invariant holds in every state.
LEMMA InboxInvariant == InboxSpec => []InboxInv
  BY InboxInitially, InboxNextKeeps, PTL DEF InboxSpec

-----------------------------------------------------------------------------
\* What is recorded as delivered or read was shown to its reader before, by processes
\* that overlap and are interrupted anywhere; a question gets one fallback; the cursor
\* passes no ending that was neither shown nor late; and the urgent table holds exactly
\* the urgent messages that are not settled (hook_using, complete_read, escalate,
\* record_receipt, clean_in).
THEOREM InboxCorrect == InboxSpec => []InboxSound
<1>1. InboxInv => InboxSound
  BY DEF InboxInv, InboxSound
<1> QED
  BY <1>1, InboxInvariant, PTL

\* No step lowers a receipt, and a context that leaves out an urgent message that waits
\* carries urgent messages only (record_receipt, select_context).
THEOREM InboxKeeps == InboxSpec => InboxKept
<1> DEFINE Raised == \A a \in Readers, m \in Posts : stage'[a][m] >= stage[a][m]
           Urged ==
             \A h \in Hooks :
               (hook[h].pc = "select" /\ hook'[h].pc = "emit") =>
                 (hook'[h].chosen \subseteq UrgentPosts \/ UrgentMail(hook[h].agent) \subseteq hook'[h].chosen)
<1>1. InboxInv /\ [InboxNext]_inboxVars => [Raised]_inboxVars
  <2> SUFFICES ASSUME InboxInv, InboxNext PROVE Raised
    OBVIOUS
  <2>0. \A a \in Readers, m \in Posts : stage[a][m] \in Nat
    BY DEF InboxInv, InboxTypeOK, Stages
  <2>1. CASE stage' = stage
    BY <2>0, <2>1
  <2>2. CASE \E a \in Readers, s \in 1..3 : \E ms : Receipts(a, ms, s)
    BY <2>2, ReceiptsRaise DEF InboxInv
  <2>3. ASSUME NEW a \in Readers, NEW m \in Posts, Settle(a, m) PROVE Raised
    BY <2>2, <2>3 DEF Settle
  <2>4. ASSUME NEW h \in Hooks, HookStep(h) PROVE Raised
    <3>1. CASE HookMark(h)
      BY <2>1, <2>2, <3>1 DEF HookMark, InboxInv, HookShows
    <3>2. CASE HookRecord(h)
      BY <2>2, <3>2 DEF HookRecord, InboxInv, HookShows
    <3> QED
      BY <2>1, <2>4, <3>1, <3>2 DEF HookStep, HookBegin, HookSelect, HookEmit, HookEnds
  <2>5. ASSUME NEW v \in Viewers, ViewStep(v) PROVE Raised
    <3>1. CASE CompleteRead(v)
      BY <2>1, <2>2, <3>1 DEF CompleteRead, InboxInv, ViewShows
    <3> QED
      BY <2>1, <2>5, <3>1 DEF ViewStep, OpenInbox, OpenWholeInbox, OpenMessage, ViewBegin, ViewEmit, ViewEnds
  <2> QED
    BY <2>1, <2>3, <2>4, <2>5 DEF InboxNext, Arrive, CleanPost, AnswerQuestion
<1>2. InboxInv /\ [InboxNext]_inboxVars => [Urged]_inboxVars
  <2> SUFFICES ASSUME InboxInv, InboxNext, NEW h \in Hooks, hook[h].pc = "select", hook'[h].pc = "emit"
               PROVE  hook'[h].chosen \subseteq UrgentPosts \/ UrgentMail(hook[h].agent) \subseteq hook'[h].chosen
    OBVIOUS
  <2>1. hook[h].agent \in Readers /\ hook \in [Hooks -> HookStates]
    BY DEF InboxInv, InboxTypeOK, HookShows
  <2>2. HookSelect(h)
    <3>1. hook'[h] # hook[h]
      OBVIOUS
    <3>2. PICK k \in Hooks : HookStep(k)
      BY <3>1 DEF InboxNext, Arrive, CleanPost, Settle, AnswerQuestion, ViewStep, OpenInbox, OpenWholeInbox,
                  OpenMessage, ViewBegin, ViewEmit, CompleteRead, ViewEnds
    <3>3. k = h
      BY <2>1, <3>1, <3>2 DEF HookStep, HookBegin, HookMark, HookSelect, HookEmit, HookRecord, HookEnds
    <3>4. \A a, phase, due : ~HookBegin(h, a, phase, due)
      BY DEF HookBegin
    <3>5. ~HookMark(h) /\ ~HookEmit(h) /\ ~HookRecord(h)
      BY DEF HookMark, HookEmit, HookRecord
    <3>6. ~HookEnds(h)
      BY <2>1 DEF HookEnds, NoHook
    <3> QED
      BY <3>2, <3>3, <3>4, <3>5, <3>6 DEF HookStep
  <2>3. hook'[h].chosen = Context(hook[h].agent)
    BY <2>1, <2>2 DEF HookSelect, HookStates
  <2> QED
    BY <2>1, <2>3, ContextUrgentFirst DEF InboxInv
<1>3. InboxSpec => NeverUnread
  BY <1>1, InboxInvariant, PTL DEF InboxSpec, NeverUnread
<1>4. InboxSpec => UrgentFirst
  BY <1>2, InboxInvariant, PTL DEF InboxSpec, UrgentFirst
<1> QED
  BY <1>3, <1>4, PTL DEF InboxKept

-----------------------------------------------------------------------------
(***************************************************************************)
(* Handoffs and their observations, for any number of machines, agents and *)
(* processes.                                                              *)
(*                                                                         *)
(* The argument goes through the machine of the reader.  All observations  *)
(* of an agent are authored there, so its table of reads, which is looked  *)
(* up in the transaction that authors one, knows every one before.  And a  *)
(* clock that follows everything its machine has stored puts an            *)
(* observation after the handoff it answers.                               *)
(***************************************************************************)

\* What the ledgers, the desks and the lists hold.
HandoffEvents ==
  [kind : {"handoff"}, by : Actors, to : SUBSET Actors, ctx : Contexts, bytes : Nat, parent : {NoId}, clock : Nat]
ReadEvents ==
  [kind : {"read"}, by : Actors, to : SUBSET Hosts, ctx : Contexts, bytes : {0}, parent : Ids, clock : Nat]
Descriptors == [id : Ids, by : Actors, to : SUBSET Actors, ctx : Contexts, bytes : Nat]
DeskStates ==
  [pc : {"idle", "listed", "deliver", "observe"}, actor : Actors \cup {NoActor}, found : SUBSET Descriptors,
   descriptor : Descriptors \cup {NoDescriptor}, server : BOOLEAN, cancelled : BOOLEAN]

HandoffsTypeOK ==
  /\ said \in [Hosts -> Seq(HandoffEvents \cup ReadEvents)] /\ \A h \in Hosts : Len(said[h]) <= MaxSaid[h]
  /\ seen \in [Hosts -> [Hosts -> Nat]] /\ tick \in [Hosts -> Nat]
  /\ reads \in [Hosts -> SUBSET (Actors \X Ids)]
  /\ desk \in [Desks -> DeskStates]
  /\ handed \in [Actors -> SUBSET Descriptors]

\* A machine has stored all of its own ledger and a prefix of every other, and its
\* clock follows what it has stored.
ClocksFollow ==
  \A m, o \in Hosts :
    /\ seen[m][o] <= Len(said[o]) /\ seen[m][m] = Len(said[m])
    /\ \A s \in 1..seen[m][o] : said[o][s].clock <= tick[m]

\* The observations of an agent are in the ledger of its machine.
ReadAtHome == \A h \in Hosts : \A s \in 1..Len(said[h]) : said[h][s].kind = "read" => HostOf[said[h][s].by] = h

\* A process that has selected a handoff holds what its sender published, for a
\* reader it names; when the body was output this is known of the reader.
KnownAt(p) ==
  LET a == desk[p].actor
      d == desk[p].descriptor
  IN  /\ desk[p].pc = "listed" => a \in Actors
      /\ desk[p].pc \in {"deliver", "observe"} =>
           a \in Actors /\ d.id \in Headers(HostOf[a]) /\ d = Descriptor(d.id) /\ a \in EventAt(d.id).to
      /\ desk[p].pc = "observe" => d \in handed[a]

DeskKnown == \A p \in Desks : KnownAt(p)

HandoffsInv == HandoffsTypeOK /\ ClocksFollow /\ ReadAtHome /\ DeskKnown /\ ObservationSound

-----------------------------------------------------------------------------
\* Events and their ids

\* An id names a machine and a position within the bound of its ledger.
LEMMA IdShape ==
  /\ \A i \in Ids : i[1] \in Hosts /\ i[2] \in 1..MaxSaid[i[1]] /\ i = <<i[1], i[2]>>
  /\ \A h \in Hosts, s \in Nat : s \in 1..MaxSaid[h] => <<h, s>> \in Ids
  BY HandoffsAssumption DEF Ids

\* The greater of two clocks.
LEMMA LaterClock ==
  ASSUME NEW a \in Nat, NEW b \in Nat
  PROVE  Max({a, b}) \in Nat /\ a <= Max({a, b}) /\ b <= Max({a, b})
<1>1. \E x \in {a, b} : \A y \in {a, b} : x >= y
  OBVIOUS
<1> QED
  BY <1>1 DEF Max

\* What is known of a stored event.
LEMMA EventTyped ==
  ASSUME HandoffsTypeOK, NEW h \in Hosts, NEW s \in 1..Len(said[h])
  PROVE  /\ said[h] \in Seq(HandoffEvents \cup ReadEvents) /\ Len(said[h]) \in Nat
         /\ said[h][s] \in HandoffEvents \cup ReadEvents
         /\ s \in 1..MaxSaid[h] /\ <<h, s>> \in Ids
<1>1. said[h] \in Seq(HandoffEvents \cup ReadEvents) /\ Len(said[h]) \in Nat /\ Len(said[h]) <= MaxSaid[h]
  BY DEF HandoffsTypeOK
<1>2. s \in 1..MaxSaid[h] /\ s \in Nat
  BY <1>1, HandoffsAssumption
<1> QED
  BY <1>1, <1>2, IdShape

\* An observation is a read event of a ledger, and the other way around.
LEMMA ObservationShape ==
  ASSUME HandoffsTypeOK
  PROVE  /\ \A i \in Observations :
              /\ i \in Ids /\ i[1] \in Hosts /\ i[2] \in 1..Len(said[i[1]]) /\ i = <<i[1], i[2]>>
              /\ EventAt(i) = said[i[1]][i[2]] /\ EventAt(i) \in ReadEvents
         /\ \A h \in Hosts : \A s \in 1..Len(said[h]) :
              EventAt(<<h, s>>) = said[h][s] /\ (said[h][s].kind = "read" => <<h, s>> \in Observations)
<1>1. ASSUME NEW i \in Observations
      PROVE  /\ i \in Ids /\ i[1] \in Hosts /\ i[2] \in 1..Len(said[i[1]]) /\ i = <<i[1], i[2]>>
             /\ EventAt(i) = said[i[1]][i[2]] /\ EventAt(i) \in ReadEvents
  <2>1. i \in Ids /\ i[2] <= Len(said[i[1]]) /\ EventAt(i).kind = "read"
    BY DEF Observations
  <2>2. i[1] \in Hosts /\ i[2] \in 1..MaxSaid[i[1]] /\ i = <<i[1], i[2]>>
    BY <2>1, IdShape
  <2>3. Len(said[i[1]]) \in Nat /\ MaxSaid[i[1]] \in Nat
    BY <2>2, HandoffsAssumption DEF HandoffsTypeOK
  <2>4. i[2] \in 1..Len(said[i[1]])
    BY <2>1, <2>2, <2>3
  <2>5. said[i[1]][i[2]] \in HandoffEvents \cup ReadEvents
    BY <2>2, <2>4, EventTyped
  <2> QED
    BY <2>1, <2>2, <2>4, <2>5 DEF EventAt, HandoffEvents
<1>2. ASSUME NEW h \in Hosts, NEW s \in 1..Len(said[h])
      PROVE  EventAt(<<h, s>>) = said[h][s] /\ (said[h][s].kind = "read" => <<h, s>> \in Observations)
  <2>1. <<h, s>> \in Ids /\ Len(said[h]) \in Nat
    BY EventTyped
  <2> QED
    BY <2>1 DEF EventAt, Observations
<1> QED
  BY <1>1, <1>2

\* A handoff a machine has stored is an event of a ledger.
LEMMA HeaderShape ==
  ASSUME HandoffsTypeOK, ClocksFollow, NEW m \in Hosts
  PROVE  \A i \in Headers(m) :
           /\ i \in Ids /\ i[1] \in Hosts /\ i[2] \in 1..seen[m][i[1]] /\ i[2] \in 1..Len(said[i[1]])
           /\ EventAt(i) = said[i[1]][i[2]] /\ EventAt(i) \in HandoffEvents
           /\ Descriptor(i) \in Descriptors
<1> SUFFICES ASSUME NEW i \in Headers(m)
             PROVE  /\ i \in Ids /\ i[1] \in Hosts /\ i[2] \in 1..seen[m][i[1]] /\ i[2] \in 1..Len(said[i[1]])
                    /\ EventAt(i) = said[i[1]][i[2]] /\ EventAt(i) \in HandoffEvents
                    /\ Descriptor(i) \in Descriptors
  OBVIOUS
<1>1. i \in Ids /\ i[1] \in Hosts /\ i[2] \in 1..seen[m][i[1]] /\ EventAt(i).kind = "handoff"
  BY DEF Headers, InStore
<1>2. i[2] \in 1..Len(said[i[1]])
  <2>1. Len(said[i[1]]) \in Nat /\ seen[m][i[1]] \in Nat /\ seen[m][i[1]] <= Len(said[i[1]])
    BY <1>1 DEF HandoffsTypeOK, ClocksFollow
  <2> QED
    BY <1>1, <2>1
<1>3. said[i[1]][i[2]] \in HandoffEvents \cup ReadEvents
  BY <1>1, <1>2, EventTyped
<1>4. EventAt(i) = said[i[1]][i[2]] /\ EventAt(i) \in HandoffEvents
  BY <1>1, <1>3 DEF EventAt, ReadEvents
<1>5. Descriptor(i) \in Descriptors
  BY <1>1, <1>4 DEF Descriptor, Descriptors, HandoffEvents
<1> QED
  BY <1>1, <1>2, <1>4, <1>5

\* The machine of a reader holds the handoff of each of its observations and knows
\* that it was read.
LEMMA ParentHeld ==
  ASSUME HandoffsInv, NEW i \in Observations
  PROVE  /\ HostOf[EventAt(i).by] = i[1] /\ i[1] \in Hosts /\ i[1] \in EventAt(i).to
         /\ EventAt(i).parent \in Headers(i[1]) /\ <<EventAt(i).by, EventAt(i).parent>> \in reads[i[1]]
<1> USE DEF HandoffsInv, ObservationSound
<1>1. /\ i[1] \in Hosts /\ i[2] \in 1..Len(said[i[1]])
      /\ EventAt(i) = said[i[1]][i[2]] /\ EventAt(i) \in ReadEvents
  BY ObservationShape
<1>2. HostOf[EventAt(i).by] = i[1] /\ EventAt(i).by \in Actors
  BY <1>1 DEF ReadAtHome, ReadEvents
<1>3. i[1] \in EventAt(i).to
  BY <1>2 DEF ObservationAdmitted, Admissible, AudienceOf
<1>4. InStore(i[1], i)
  BY <1>1 DEF InStore, ClocksFollow
<1>5. <<EventAt(i).by, EventAt(i).parent>> \in reads[i[1]]
  BY <1>1, <1>3, <1>4 DEF ReadsExact
<1>6. EventAt(i).parent \in Headers(i[1])
  BY <1>1, <1>5 DEF ReadsExact
<1> QED
  BY <1>1, <1>2, <1>3, <1>5, <1>6

-----------------------------------------------------------------------------
\* Ledgers only grow

LedgersGrow ==
  /\ \A h \in Hosts : \A s \in 1..Len(said[h]) : s \in 1..Len(said'[h]) /\ said'[h][s] = said[h][s]
  /\ \A m, o \in Hosts : \A s \in 1..seen[m][o] : s \in 1..seen'[m][o]

\* A machine keeps the handoffs it has stored, as they were published.
LEMMA HeadersGrow ==
  ASSUME HandoffsTypeOK, ClocksFollow, LedgersGrow, NEW m \in Hosts
  PROVE  \A i \in Headers(m) : i \in Headers(m)' /\ EventAt(i)' = EventAt(i) /\ Descriptor(i)' = Descriptor(i)
<1> SUFFICES ASSUME NEW i \in Headers(m)
             PROVE  i \in Headers(m)' /\ EventAt(i)' = EventAt(i) /\ Descriptor(i)' = Descriptor(i)
  OBVIOUS
<1>1. i \in Ids /\ i[1] \in Hosts /\ i[2] \in 1..seen[m][i[1]] /\ i[2] \in 1..Len(said[i[1]])
  BY HeaderShape
<1>2. EventAt(i)' = EventAt(i)
  BY <1>1 DEF EventAt, LedgersGrow
<1>3. InStore(m, i)'
  BY <1>1 DEF InStore, LedgersGrow
<1> QED
  BY <1>2, <1>3 DEF Headers, Descriptor

\* What a process holds stays true while it does nothing.
LEMMA DeskKept ==
  ASSUME HandoffsInv, LedgersGrow, NEW p \in Desks,
         \A a \in Actors : handed[a] \subseteq handed'[a],
         desk'[p].actor = desk[p].actor, desk'[p].descriptor = desk[p].descriptor, desk'[p].pc = desk[p].pc
  PROVE  KnownAt(p)'
<1>1. KnownAt(p)
  BY DEF HandoffsInv, DeskKnown
<1>2. PICK a, d : a = desk[p].actor /\ d = desk[p].descriptor
  OBVIOUS
<1>3. a = desk'[p].actor /\ d = desk'[p].descriptor
  BY <1>2
<1>4. desk[p].pc \in {"deliver", "observe"} =>
        a \in Actors /\ d.id \in Headers(HostOf[a]) /\ d = Descriptor(d.id) /\ a \in EventAt(d.id).to
  BY <1>1, <1>2 DEF KnownAt
<1>5. desk[p].pc \in {"deliver", "observe"} =>
        a \in Actors /\ d.id \in Headers(HostOf[a])' /\ d = Descriptor(d.id)' /\ a \in EventAt(d.id)'.to
  <2> SUFFICES ASSUME desk[p].pc \in {"deliver", "observe"}
               PROVE  d.id \in Headers(HostOf[a])' /\ EventAt(d.id)' = EventAt(d.id) /\ Descriptor(d.id)' = Descriptor(d.id)
    BY <1>4
  <2>1. HostOf[a] \in Hosts
    BY <1>4, HandoffsAssumption
  <2> QED
    BY <1>4, <2>1, HeadersGrow DEF HandoffsInv
<1>6. /\ desk[p].pc = "listed" => a \in Actors
      /\ desk[p].pc = "observe" => a \in Actors /\ d \in handed'[a]
  BY <1>1, <1>2, <1>4 DEF KnownAt
<1> QED
  BY <1>3, <1>5, <1>6 DEF KnownAt

\* While no event is authored the observations are the same.
LEMMA ObservationsStay ==
  ASSUME HandoffsInv, said' = said, \A a \in Actors : handed[a] \subseteq handed'[a]
  PROVE  /\ Observations' = Observations /\ \A i : EventAt(i)' = EventAt(i)
         /\ ObservedOnce' /\ ObservedWasHanded' /\ ObservationAdmitted'
<1> USE DEF HandoffsInv, ObservationSound
<1>1. Observations' = Observations /\ \A i : EventAt(i)' = EventAt(i) /\ Descriptor(i)' = Descriptor(i)
  BY DEF Observations, EventAt, Descriptor
<1>2. ObservedOnce'
  BY <1>1 DEF ObservedOnce
<1>3. ObservationAdmitted'
  BY <1>1 DEF ObservationAdmitted, Admissible
<1>4. \A i \in Observations : EventAt(i).by \in Actors
  BY ObservationShape DEF ReadEvents
<1>5. ObservedWasHanded'
  BY <1>1, <1>4 DEF ObservedWasHanded
<1> QED
  BY <1>1, <1>2, <1>3, <1>5

\* While nothing is stored or recorded, the tables and ledgers are as they were.
LEMMA StoreStays ==
  ASSUME HandoffsInv, UNCHANGED <<said, seen, tick, reads>>, \A a \in Actors : handed[a] \subseteq handed'[a]
  PROVE  LedgersGrow /\ ClocksFollow' /\ ReadAtHome' /\ ObservationSound'
<1> USE DEF HandoffsInv, ObservationSound
<1>1. LedgersGrow /\ ClocksFollow' /\ ReadAtHome'
  BY DEF LedgersGrow, ClocksFollow, ReadAtHome
<1>2. ReadsExact'
  <2>1. Observations' = Observations /\ \A m \in Hosts : Headers(m)' = Headers(m)
    BY DEF Observations, Headers, InStore, EventAt
  <2> QED
    BY <2>1 DEF ReadsExact, InStore, EventAt
<1> QED
  BY <1>1, <1>2, ObservationsStay

-----------------------------------------------------------------------------
\* Authoring

\* An event is authored: it is the next of its ledger, its machine has stored it, and
\* its clock is the clock of the machine.
LEMMA SayFacts ==
  ASSUME HandoffsInv, NEW m \in Hosts, NEW event \in HandoffEvents \cup ReadEvents, Say(m, event),
         event.clock = tick[m] + 1, event.kind = "read" => HostOf[event.by] = m
  PROVE  /\ said' \in [Hosts -> Seq(HandoffEvents \cup ReadEvents)] /\ \A h \in Hosts : Len(said'[h]) <= MaxSaid[h]
         /\ Len(said'[m]) = Len(said[m]) + 1 /\ said'[m][Len(said[m]) + 1] = event
         /\ \A h \in Hosts \ {m} : said'[h] = said[h]
         /\ seen' \in [Hosts -> [Hosts -> Nat]] /\ tick' \in [Hosts -> Nat]
         /\ seen'[m][m] = Len(said[m]) + 1
         /\ \A n, o \in Hosts : n # m \/ o # m => seen'[n][o] = seen[n][o]
         /\ LedgersGrow /\ ClocksFollow' /\ ReadAtHome'
<1> USE DEF HandoffsInv
<1>1. /\ Len(said[m]) \in Nat /\ Len(said[m]) < MaxSaid[m] /\ MaxSaid[m] \in Nat
      /\ said' = [said EXCEPT ![m] = Append(said[m], event)]
      /\ seen' = [seen EXCEPT ![m][m] = seen[m][m] + 1] /\ tick' = [tick EXCEPT ![m] = tick[m] + 1]
  <2>1. Len(said[m]) \in Nat /\ MaxSaid[m] \in Nat
    BY HandoffsAssumption DEF HandoffsTypeOK
  <2> QED
    BY <2>1 DEF Say
<1>2. /\ Append(said[m], event) \in Seq(HandoffEvents \cup ReadEvents)
      /\ Len(Append(said[m], event)) = Len(said[m]) + 1
      /\ Append(said[m], event)[Len(said[m]) + 1] = event
      /\ \A s \in 1..Len(said[m]) : Append(said[m], event)[s] = said[m][s]
  BY <1>1 DEF HandoffsTypeOK
<1>3. /\ said' \in [Hosts -> Seq(HandoffEvents \cup ReadEvents)] /\ said'[m] = Append(said[m], event)
      /\ \A h \in Hosts \ {m} : said'[h] = said[h]
  BY <1>1, <1>2 DEF HandoffsTypeOK
<1>4. /\ seen' \in [Hosts -> [Hosts -> Nat]] /\ tick' \in [Hosts -> Nat]
      /\ seen'[m][m] = seen[m][m] + 1 /\ tick'[m] = tick[m] + 1
      /\ \A n \in Hosts \ {m} : tick'[n] = tick[n]
  BY <1>1 DEF HandoffsTypeOK
<1>5. \A n, o \in Hosts : n # m \/ o # m => seen'[n][o] = seen[n][o]
  BY <1>1 DEF HandoffsTypeOK
<1>6. seen[m][m] = Len(said[m])
  BY DEF ClocksFollow
<1>7. \A h \in Hosts : Len(said'[h]) <= MaxSaid[h]
  BY <1>1, <1>2, <1>3 DEF HandoffsTypeOK
<1>8. \A h \in Hosts : Len(said[h]) \in Nat /\ \A o \in Hosts : seen[h][o] \in Nat
  BY DEF HandoffsTypeOK
<1>9. LedgersGrow
  <2>1. \A h \in Hosts : \A s \in 1..Len(said[h]) : s \in 1..Len(said'[h]) /\ said'[h][s] = said[h][s]
    BY <1>2, <1>3, <1>8
  <2>2. \A n, o \in Hosts : \A s \in 1..seen[n][o] : s \in 1..seen'[n][o]
    <3> SUFFICES ASSUME NEW n \in Hosts, NEW o \in Hosts
                 PROVE  seen[n][o] \in Nat /\ seen'[n][o] \in Nat /\ seen[n][o] <= seen'[n][o]
      OBVIOUS
    <3>1. CASE n = m /\ o = m
      BY <1>4, <1>8, <3>1
    <3>2. CASE n # m \/ o # m
      BY <1>5, <1>8, <3>2
    <3> QED
      BY <3>1, <3>2
  <2> QED
    BY <2>1, <2>2 DEF LedgersGrow
<1>10. ClocksFollow'
  <2> SUFFICES ASSUME NEW n \in Hosts, NEW o \in Hosts
               PROVE  /\ seen'[n][o] <= Len(said'[o]) /\ seen'[n][n] = Len(said'[n])
                      /\ \A s \in 1..seen'[n][o] : said'[o][s].clock <= tick'[n]
    BY DEF ClocksFollow
  <2>1. seen[n][o] <= Len(said[o]) /\ seen[n][n] = Len(said[n])
    BY DEF ClocksFollow
  <2>2. seen'[n][o] <= Len(said'[o]) /\ seen'[n][n] = Len(said'[n])
    <3>1. seen'[n][n] = Len(said'[n])
      BY <1>2, <1>3, <1>4, <1>5, <1>6, <2>1
    <3>2. CASE o # m
      BY <1>3, <1>5, <2>1, <3>1, <3>2
    <3>3. CASE o = m /\ n # m
      BY <1>2, <1>3, <1>5, <1>8, <2>1, <3>1, <3>3
    <3>4. CASE o = m /\ n = m
      BY <1>2, <1>3, <1>4, <1>6, <1>8, <3>1, <3>4
    <3> QED
      BY <3>2, <3>3, <3>4
  <2>3. ASSUME NEW s \in 1..seen'[n][o]
        PROVE  said'[o][s].clock <= tick'[n]
    <3>1. CASE s \in 1..seen[n][o]
      <4>1. said'[o][s] = said[o][s]
        BY <1>8, <1>9, <2>1, <3>1 DEF LedgersGrow
      <4>2. said[o][s].clock <= tick[n]
        BY <3>1 DEF ClocksFollow
      <4>3. tick[n] \in Nat /\ tick[n] <= tick'[n] /\ tick'[n] \in Nat
        <5>1. tick[n] \in Nat
          BY DEF HandoffsTypeOK
        <5> QED
          BY <1>4, <5>1
      <4>4. said[o][s].clock \in Nat
        <5>1. s \in 1..Len(said[o])
          BY <1>8, <2>1, <3>1
        <5> QED
          BY <5>1, EventTyped DEF HandoffEvents, ReadEvents
      <4> QED
        BY <4>1, <4>2, <4>3, <4>4
    <3>2. CASE s \notin 1..seen[n][o]
      <4>1. n = m /\ o = m
        BY <1>5, <3>2
      <4>2. s \in 1..(seen[m][m] + 1) /\ s \notin 1..seen[m][m]
        BY <1>4, <3>2, <4>1
      <4>3. s = Len(said[m]) + 1
        BY <1>6, <1>8, <4>2
      <4> QED
        BY <1>2, <1>3, <1>4, <4>1, <4>3 DEF HandoffsTypeOK
    <3> QED
      BY <3>1, <3>2
  <2> QED
    BY <2>2, <2>3
<1>11. ReadAtHome'
  <2> SUFFICES ASSUME NEW h \in Hosts, NEW s \in 1..Len(said'[h]), said'[h][s].kind = "read"
               PROVE  HostOf[said'[h][s].by] = h
    BY DEF ReadAtHome
  <2>1. CASE s \in 1..Len(said[h])
    BY <1>9, <2>1 DEF LedgersGrow, ReadAtHome
  <2>2. CASE s \notin 1..Len(said[h])
    <3>1. h = m /\ s = Len(said[m]) + 1
      BY <1>2, <1>3, <1>8, <2>2
    <3> QED
      BY <1>2, <1>3, <3>1
  <2> QED
    BY <2>1, <2>2
<1> QED
  BY <1>2, <1>3, <1>4, <1>5, <1>6, <1>7, <1>9, <1>10, <1>11

\* The observations before, with their handoffs, are left as they were by an event that
\* is authored; it is the only one that may be new.
LEMMA ObservationsBefore ==
  ASSUME HandoffsInv, NEW m \in Hosts, NEW event \in HandoffEvents \cup ReadEvents, Say(m, event),
         event.clock = tick[m] + 1, event.kind = "read" => HostOf[event.by] = m
  PROVE  \E k \in Nat :
           /\ Observations' \subseteq Observations \cup {<<m, k>>}
           /\ event.kind # "read" => Observations' = Observations
           /\ \A i \in Observations : i \in Observations' /\ EventAt(i)' = EventAt(i)
           /\ <<m, k>> \in Ids /\ <<m, k>> \notin Observations /\ EventAt(<<m, k>>)' = event
           /\ event.kind = "read" => <<m, k>> \in Observations'
           /\ \A h \in Hosts : InStore(h, <<m, k>>)' <=> h = m
           /\ \A h \in Hosts, i \in Observations : InStore(h, i)' <=> InStore(h, i)
           /\ \A i \in Observations : \A q : q = EventAt(i).parent => EventAt(q)' = EventAt(q) /\ Descriptor(q)' = Descriptor(q)
<1>0. PICK k \in Nat : k = Len(said[m]) + 1
  BY DEF HandoffsInv, HandoffsTypeOK
<1> USE DEF HandoffsInv
<1>1. /\ said' \in [Hosts -> Seq(HandoffEvents \cup ReadEvents)] /\ \A h \in Hosts : Len(said'[h]) <= MaxSaid[h]
      /\ Len(said'[m]) = k /\ said'[m][k] = event
      /\ \A h \in Hosts \ {m} : said'[h] = said[h]
      /\ seen'[m][m] = k
      /\ \A n, o \in Hosts : n # m \/ o # m => seen'[n][o] = seen[n][o]
      /\ LedgersGrow
  BY <1>0, SayFacts
<1>2. \A h \in Hosts : Len(said[h]) \in Nat /\ MaxSaid[h] \in Nat /\ \A o \in Hosts : seen[h][o] \in Nat
  BY HandoffsAssumption DEF HandoffsTypeOK
<1>3. /\ \A h, o \in Hosts : seen[h][o] <= Len(said[o]) /\ seen[h][h] = Len(said[h])
  BY DEF ClocksFollow
<1>4. k \in 1..MaxSaid[m] /\ <<m, k>> \in Ids
  BY <1>0, <1>1, <1>2, IdShape
<1>5. \A i \in Observations : i \in Observations' /\ EventAt(i)' = EventAt(i)
  <2> SUFFICES ASSUME NEW i \in Observations PROVE i \in Observations' /\ EventAt(i)' = EventAt(i)
    OBVIOUS
  <2>1. i \in Ids /\ i[1] \in Hosts /\ i[2] \in 1..Len(said[i[1]]) /\ EventAt(i).kind = "read"
    BY ObservationShape DEF Observations
  <2>2. i[2] \in 1..Len(said'[i[1]]) /\ said'[i[1]][i[2]] = said[i[1]][i[2]]
    BY <1>1, <2>1 DEF LedgersGrow
  <2>3. i[2] <= Len(said'[i[1]])
    BY <2>2
  <2> QED
    BY <2>1, <2>2, <2>3 DEF Observations, EventAt
<1>6. <<m, k>> \notin Observations /\ EventAt(<<m, k>>)' = event
  <2>1. ~(k <= Len(said[m]))
    BY <1>0, <1>2
  <2> QED
    BY <1>1, <2>1 DEF Observations, EventAt
<1>7. event.kind = "read" => <<m, k>> \in Observations'
  BY <1>1, <1>4, <1>6 DEF Observations, EventAt
<1>8. \A i \in Observations' : i \in Observations \/ (event.kind = "read" /\ i[1] = m /\ i[2] = k)
  <2> SUFFICES ASSUME NEW i \in Observations', i \notin Observations PROVE event.kind = "read" /\ i[1] = m /\ i[2] = k
    OBVIOUS
  <2>1. i \in Ids /\ i[2] <= Len(said'[i[1]]) /\ said'[i[1]][i[2]].kind = "read"
    BY DEF Observations, EventAt
  <2>2. i[1] \in Hosts /\ i[2] \in 1..MaxSaid[i[1]] /\ i = <<i[1], i[2]>>
    BY <2>1, IdShape
  <2>3. i[2] \notin 1..Len(said[i[1]])
    <3> SUFFICES ASSUME i[2] \in 1..Len(said[i[1]]) PROVE FALSE
      OBVIOUS
    <3>1. said'[i[1]][i[2]] = said[i[1]][i[2]]
      BY <1>1, <2>2 DEF LedgersGrow
    <3>2. i[2] <= Len(said[i[1]])
      BY <1>2, <2>2
    <3> QED
      BY <2>1, <3>1, <3>2 DEF Observations, EventAt
  <2>4. i[1] = m
    <3> SUFFICES ASSUME i[1] # m PROVE FALSE
      OBVIOUS
    <3>1. said'[i[1]] = said[i[1]]
      BY <1>1, <2>2
    <3> QED
      BY <1>2, <2>1, <2>2, <2>3, <3>1
  <2>5. i[2] = k
    BY <1>0, <1>1, <1>2, <2>1, <2>2, <2>3, <2>4
  <2> QED
    BY <1>1, <2>1, <2>2, <2>4, <2>5
<1>9. \A h \in Hosts : InStore(h, <<m, k>>)' <=> h = m
  <2> SUFFICES ASSUME NEW h \in Hosts PROVE k \in 1..seen'[h][m] <=> h = m
    BY DEF InStore
  <2>1. CASE h = m
    BY <1>1, <1>4, <2>1
  <2>2. CASE h # m
    <3>1. seen'[h][m] = seen[h][m] /\ seen[h][m] <= Len(said[m])
      BY <1>1, <1>3, <2>2
    <3> QED
      BY <1>0, <1>2, <2>2, <3>1
  <2> QED
    BY <2>1, <2>2
<1>10. \A h \in Hosts, i \in Observations : InStore(h, i)' <=> InStore(h, i)
  <2> SUFFICES ASSUME NEW h \in Hosts, NEW i \in Observations PROVE InStore(h, i)' <=> InStore(h, i)
    OBVIOUS
  <2>1. i[1] \in Hosts /\ i[2] \in 1..Len(said[i[1]])
    BY ObservationShape
  <2>2. CASE h = m /\ i[1] = m
    <3>1. seen[m][m] = Len(said[m]) /\ seen'[m][m] = k
      BY <1>1, <1>3
    <3>2. i[2] \in 1..seen[m][m] /\ i[2] \in 1..seen'[m][m]
      BY <1>0, <1>2, <2>1, <2>2, <3>1
    <3> QED
      BY <2>2, <3>2 DEF InStore
  <2>3. CASE h # m \/ i[1] # m
    <3>1. seen'[h][i[1]] = seen[h][i[1]]
      BY <1>1, <2>1, <2>3
    <3> QED
      BY <3>1 DEF InStore
  <2> QED
    BY <2>2, <2>3
<1>11. \A i \in Observations : \A q : q = EventAt(i).parent => EventAt(q)' = EventAt(q) /\ Descriptor(q)' = Descriptor(q)
  <2> SUFFICES ASSUME NEW i \in Observations, NEW q, q = EventAt(i).parent
               PROVE  EventAt(q)' = EventAt(q) /\ Descriptor(q)' = Descriptor(q)
    OBVIOUS
  <2>1. q \in Headers(i[1]) /\ i[1] \in Hosts
    BY ParentHeld
  <2>2. PICK h \in Hosts : h = i[1]
    BY <2>1
  <2> QED
    BY <1>1, <2>1, <2>2, HeadersGrow
<1>12. Observations' \subseteq Observations \cup {<<m, k>>} /\ (event.kind # "read" => Observations' = Observations)
  <2>1. \A i \in Observations' : i \in Ids /\ i = <<i[1], i[2]>>
    BY IdShape DEF Observations
  <2> QED
    BY <1>5, <1>8, <2>1
<1> QED
  BY <1>1, <1>4, <1>5, <1>6, <1>7, <1>9, <1>10, <1>11, <1>12

-----------------------------------------------------------------------------
\* The steps

\* At first nothing was said.
LEMMA HandoffsInitially == HandoffsInit => HandoffsInv
<1> SUFFICES ASSUME HandoffsInit PROVE HandoffsInv
  OBVIOUS
<1>1. AtRest \in DeskStates /\ AtRest.pc = "idle"
  BY DEF AtRest, DeskStates
<1>2. HandoffsTypeOK
  BY <1>1, HandoffsAssumption DEF HandoffsInit, HandoffsTypeOK
<1>3. \A h \in Hosts : Len(said[h]) = 0
  BY DEF HandoffsInit
<1>4. ClocksFollow /\ ReadAtHome
  BY <1>3 DEF HandoffsInit, ClocksFollow, ReadAtHome
<1>5. DeskKnown
  BY <1>1 DEF HandoffsInit, DeskKnown, KnownAt
<1>6. Observations = {}
  <2>1. \A i \in Ids : i[1] \in Hosts /\ i[2] \in 1..MaxSaid[i[1]]
    BY IdShape
  <2>2. \A i \in Ids : ~(i[2] <= Len(said[i[1]]))
    BY <1>3, <2>1, HandoffsAssumption
  <2> QED
    BY <2>2 DEF Observations
<1>7. ObservationSound
  BY <1>6 DEF HandoffsInit, ObservationSound, ObservedOnce, ObservedWasHanded, ObservationAdmitted, ReadsExact
<1> QED
  BY <1>2, <1>4, <1>5, <1>7 DEF HandoffsInv

\* A handoff is created.
LEMMA CreateKeeps ==
  ASSUME HandoffsInv, NEW draft \in Drafts, CreateHandoff(draft)
  PROVE  HandoffsInv'
<1> USE DEF HandoffsInv, ObservationSound
<1>1. PICK m \in Hosts : m = HostOf[draft.by]
  BY HandoffsAssumption
<1>2. PICK event \in HandoffEvents : Say(m, event) /\ event.clock = tick[m] + 1
  <2>1. tick[m] + 1 \in Nat
    BY DEF HandoffsTypeOK
  <2>2. draft \in [by : Actors, to : SUBSET Actors, ctx : Contexts, bytes : Nat]
    BY HandoffsAssumption
  <2>3. [kind |-> "handoff", by |-> draft.by, to |-> draft.to, ctx |-> draft.ctx,
         bytes |-> draft.bytes, parent |-> NoId, clock |-> tick[m] + 1] \in HandoffEvents
    BY <2>1, <2>2 DEF HandoffEvents
  <2> QED
    BY <1>1, <2>3 DEF CreateHandoff
<1>3. event \in HandoffEvents \cup ReadEvents /\ event.kind # "read"
  BY DEF HandoffEvents
<1>4. UNCHANGED <<reads, desk, handed>>
  BY DEF CreateHandoff
<1>5. /\ said' \in [Hosts -> Seq(HandoffEvents \cup ReadEvents)] /\ \A h \in Hosts : Len(said'[h]) <= MaxSaid[h]
      /\ seen' \in [Hosts -> [Hosts -> Nat]] /\ tick' \in [Hosts -> Nat]
      /\ LedgersGrow /\ ClocksFollow' /\ ReadAtHome'
  BY <1>2, <1>3, SayFacts
<1>6. /\ Observations' = Observations
      /\ \A i \in Observations : i \in Observations' /\ EventAt(i)' = EventAt(i)
      /\ \A h \in Hosts, i \in Observations : InStore(h, i)' <=> InStore(h, i)
      /\ \A i \in Observations : \A q : q = EventAt(i).parent => EventAt(q)' = EventAt(q) /\ Descriptor(q)' = Descriptor(q)
  <2>1. event.kind = "read" => HostOf[event.by] = m
    BY <1>3
  <2> QED
    BY <1>2, <1>3, <2>1, ObservationsBefore
<1>7. HandoffsTypeOK'
  BY <1>4, <1>5 DEF HandoffsTypeOK
<1>8. DeskKnown'
  BY <1>4, <1>5, DeskKept DEF DeskKnown
<1>9. ObservedOnce'
  BY <1>6 DEF ObservedOnce
<1>10. ObservedWasHanded'
  BY <1>4, <1>6 DEF ObservedWasHanded
<1>11. ObservationAdmitted'
  BY <1>6 DEF ObservationAdmitted, Admissible
<1>12. ReadsExact'
  <2> SUFFICES ASSUME NEW h \in Hosts
               PROVE  /\ reads[h] = {<<EventAt(i)'.by, EventAt(i)'.parent>> : i \in {j \in Observations' : InStore(h, j)' /\ h \in EventAt(j)'.to}}
                      /\ \A r \in reads[h] : r[2] \in Headers(h)'
    BY <1>4 DEF ReadsExact
  <2>1. /\ reads[h] = {<<EventAt(i).by, EventAt(i).parent>> : i \in {j \in Observations : InStore(h, j) /\ h \in EventAt(j).to}}
        /\ \A r \in reads[h] : r[2] \in Headers(h)
    BY DEF ReadsExact
  <2>2. \A r \in reads[h] : r[2] \in Headers(h)'
    BY <1>5, <2>1, HeadersGrow
  <2>3. {j \in Observations' : InStore(h, j)' /\ h \in EventAt(j)'.to} = {j \in Observations : InStore(h, j) /\ h \in EventAt(j).to}
    BY <1>6
  <2> QED
    BY <1>6, <2>1, <2>2, <2>3
<1> QED
  BY <1>5, <1>7, <1>8, <1>9, <1>10, <1>11, <1>12


\* A process moves on without anything being stored: what it holds then has to be known.
LEMMA DeskMoves ==
  ASSUME HandoffsInv, UNCHANGED <<said, seen, tick, reads>>, NEW p \in Desks, NEW N \in DeskStates,
         desk' = [desk EXCEPT ![p] = N], handed' \in [Actors -> SUBSET Descriptors],
         \A a \in Actors : handed[a] \subseteq handed'[a],
         LedgersGrow => KnownAt(p)'
  PROVE  HandoffsInv'
<1>1. LedgersGrow /\ ClocksFollow' /\ ReadAtHome' /\ ObservationSound'
  BY StoreStays
<1>2. HandoffsTypeOK'
  BY DEF HandoffsInv, HandoffsTypeOK
<1>3. DeskKnown'
  <2> SUFFICES ASSUME NEW q \in Desks PROVE KnownAt(q)'
    BY DEF DeskKnown
  <2>1. CASE q = p
    BY <1>1, <2>1
  <2>2. CASE q # p
    <3>1. desk'[q] = desk[q]
      BY <2>2 DEF HandoffsInv, HandoffsTypeOK
    <3> QED
      BY <1>1, <3>1, DeskKept
  <2> QED
    BY <2>1, <2>2
<1> QED
  BY <1>1, <1>2, <1>3 DEF HandoffsInv

\* A process that ends holds nothing.
LEMMA RestKnown ==
  ASSUME HandoffsInv, NEW p \in Desks, desk' = [desk EXCEPT ![p] = AtRest]
  PROVE  AtRest \in DeskStates /\ desk'[p].pc = "idle" /\ KnownAt(p)'
<1>1. AtRest \in DeskStates /\ AtRest.pc = "idle"
  BY DEF AtRest, DeskStates
<1>2. desk'[p].pc = "idle"
  BY <1>1 DEF HandoffsInv, HandoffsTypeOK
<1> QED
  BY <1>1, <1>2 DEF KnownAt

\* A process ends, or finds that it has nothing more to do.
LEMMA RestKeeps ==
  ASSUME HandoffsInv, UNCHANGED <<said, seen, tick, reads, handed>>, NEW p \in Desks, desk' = [desk EXCEPT ![p] = AtRest]
  PROVE  HandoffsInv'
<1>1. handed' \in [Actors -> SUBSET Descriptors] /\ \A a \in Actors : handed[a] \subseteq handed'[a]
  BY DEF HandoffsInv, HandoffsTypeOK
<1>2. AtRest \in DeskStates /\ KnownAt(p)'
  BY RestKnown
<1> QED
  BY <1>1, <1>2, DeskMoves

\* A reader lists what it was granted.
LEMMA ListKeeps ==
  ASSUME HandoffsInv, NEW p \in Desks, NEW a \in Actors, NEW ctx \in Contexts, NEW server \in BOOLEAN,
         ListHandoffs(p, a, ctx, server)
  PROVE  HandoffsInv'
<1>1. PICK m \in Hosts : m = HostOf[a]
  BY HandoffsAssumption
<1>2. PICK F : F = Discover(a, ctx, MaxListed)
  OBVIOUS
<1>3. F \in SUBSET Descriptors
  <2>1. \A i \in Headers(m) : Descriptor(i) \in Descriptors
    BY HeaderShape DEF HandoffsInv
  <2> QED
    BY <1>1, <1>2, <2>1 DEF Discover
<1> DEFINE N == [AtRest EXCEPT !.pc = "listed", !.actor = a, !.server = server, !.found = F]
<1>4. N \in DeskStates /\ N.pc = "listed" /\ N.actor = a
  BY <1>3 DEF DeskStates, AtRest
<1>5. desk' = [desk EXCEPT ![p] = N] /\ UNCHANGED <<said, seen, tick, reads, handed>>
  BY <1>2 DEF ListHandoffs
<1> HIDE DEF N
<1>6. desk'[p] = N
  BY <1>5 DEF HandoffsInv, HandoffsTypeOK
<1>7. KnownAt(p)'
  BY <1>4, <1>6 DEF KnownAt
<1>8. handed' \in [Actors -> SUBSET Descriptors] /\ \A b \in Actors : handed[b] \subseteq handed'[b]
  BY <1>5 DEF HandoffsInv, HandoffsTypeOK
<1> QED
  BY <1>4, <1>5, <1>7, <1>8, DeskMoves

\* A reader selects one descriptor: it is refused, or the descriptor is what was published.
LEMMA ReadKeeps ==
  ASSUME HandoffsInv, NEW p \in Desks, NEW limit \in 1..MaxBody, NEW selected, ReadHandoff(p, selected, limit)
  PROVE  HandoffsInv'
<1>1. PICK a : a = desk[p].actor
  OBVIOUS
<1>2. /\ desk[p].pc = "listed" /\ UNCHANGED <<said, seen, tick, reads, handed>>
      /\ \/ desk' = [desk EXCEPT ![p] = AtRest]
         \/ /\ selected.id \in Headers(HostOf[a]) /\ ReadAllowed(selected.id, a, selected, limit)
            /\ desk' = [desk EXCEPT ![p].pc = "deliver", ![p].descriptor = selected, ![p].found = {}]
  BY <1>1 DEF ReadHandoff
<1>3. a \in Actors
  BY <1>1, <1>2 DEF HandoffsInv, DeskKnown, KnownAt
<1>4. PICK m \in Hosts : m = HostOf[a]
  BY <1>3, HandoffsAssumption
<1>5. CASE desk' = [desk EXCEPT ![p] = AtRest]
  BY <1>2, <1>5, RestKeeps
<1>6. CASE /\ selected.id \in Headers(HostOf[a]) /\ ReadAllowed(selected.id, a, selected, limit)
           /\ desk' = [desk EXCEPT ![p].pc = "deliver", ![p].descriptor = selected, ![p].found = {}]
  <2>1. /\ selected.id \in Headers(m) /\ selected = Descriptor(selected.id) /\ a \in EventAt(selected.id).to
    BY <1>4, <1>6 DEF ReadAllowed
  <2>2. selected \in Descriptors
    BY <2>1, HeaderShape DEF HandoffsInv
  <2> DEFINE N == [desk[p] EXCEPT !.pc = "deliver", !.descriptor = selected, !.found = {}]
  <2>3. N \in DeskStates /\ N.pc = "deliver" /\ N.actor = a /\ N.descriptor = selected
    <3>1. desk[p] \in DeskStates
      BY DEF HandoffsInv, HandoffsTypeOK
    <3> QED
      BY <1>1, <2>2, <3>1 DEF DeskStates
  <2>4. desk' = [desk EXCEPT ![p] = N]
    BY <1>6 DEF HandoffsInv, HandoffsTypeOK
  <2> HIDE DEF N
  <2>5. desk'[p] = N
    BY <2>4 DEF HandoffsInv, HandoffsTypeOK
  <2>6. ASSUME LedgersGrow PROVE KnownAt(p)'
    <3>1. /\ selected.id \in Headers(m)' /\ EventAt(selected.id)' = EventAt(selected.id)
          /\ Descriptor(selected.id)' = Descriptor(selected.id)
      BY <2>1, <2>6, HeadersGrow DEF HandoffsInv
    <3> QED
      BY <1>3, <1>4, <2>1, <2>3, <2>5, <3>1 DEF KnownAt
  <2>7. handed' \in [Actors -> SUBSET Descriptors] /\ \A b \in Actors : handed[b] \subseteq handed'[b]
    BY <1>2 DEF HandoffsInv, HandoffsTypeOK
  <2> QED
    BY <1>2, <2>3, <2>4, <2>6, <2>7, DeskMoves
<1> QED
  BY <1>2, <1>5, <1>6

\* The body is output, which makes it known of the reader, or an error takes its place.
LEMMA DeliverKeeps ==
  ASSUME HandoffsInv, NEW p \in Desks, NEW original \in BOOLEAN, Deliver(p, original)
  PROVE  HandoffsInv'
<1>1. PICK a, d : a = desk[p].actor /\ d = desk[p].descriptor
  OBVIOUS
<1>2. desk[p].pc = "deliver" /\ UNCHANGED <<said, seen, tick, reads>>
  BY DEF Deliver
<1>3. a \in Actors /\ d.id \in Headers(HostOf[a]) /\ d = Descriptor(d.id) /\ a \in EventAt(d.id).to
  BY <1>1, <1>2 DEF HandoffsInv, DeskKnown, KnownAt
<1>4. PICK m \in Hosts : m = HostOf[a]
  BY <1>3, HandoffsAssumption
<1>5. CASE ~original
  <2>1. desk' = [desk EXCEPT ![p] = AtRest] /\ UNCHANGED handed
    BY <1>5 DEF Deliver
  <2> QED
    BY <1>2, <2>1, RestKeeps
<1>6. CASE original
  <2>1. handed' = [handed EXCEPT ![a] = @ \cup {d}] /\ desk' = [desk EXCEPT ![p].pc = "observe"]
    BY <1>1, <1>6 DEF Deliver
  <2>2. d \in Descriptors
    BY <1>3, <1>4, HeaderShape DEF HandoffsInv
  <2>3. handed' \in [Actors -> SUBSET Descriptors] /\ (\A b \in Actors : handed[b] \subseteq handed'[b]) /\ d \in handed'[a]
    BY <1>3, <2>1, <2>2 DEF HandoffsInv, HandoffsTypeOK
  <2> DEFINE N == [desk[p] EXCEPT !.pc = "observe"]
  <2>4. N \in DeskStates /\ N.pc = "observe" /\ N.actor = a /\ N.descriptor = d
    <3>1. desk[p] \in DeskStates
      BY DEF HandoffsInv, HandoffsTypeOK
    <3> QED
      BY <1>1, <3>1 DEF DeskStates
  <2>5. desk' = [desk EXCEPT ![p] = N]
    BY <2>1 DEF HandoffsInv, HandoffsTypeOK
  <2> HIDE DEF N
  <2>6. desk'[p] = N
    BY <2>5 DEF HandoffsInv, HandoffsTypeOK
  <2>7. ASSUME LedgersGrow PROVE KnownAt(p)'
    <3>1. d.id \in Headers(m)' /\ EventAt(d.id)' = EventAt(d.id) /\ Descriptor(d.id)' = Descriptor(d.id)
      BY <1>3, <1>4, <2>7, HeadersGrow DEF HandoffsInv
    <3> QED
      BY <1>3, <1>4, <2>3, <2>4, <2>6, <3>1 DEF KnownAt
  <2> QED
    BY <1>2, <2>3, <2>4, <2>5, <2>7, DeskMoves
<1> QED
  BY <1>5, <1>6

\* The client of a server cancels the call.
LEMMA CancelKeeps ==
  ASSUME HandoffsInv, NEW p \in Desks, CancelDelivery(p)
  PROVE  HandoffsInv'
<1> DEFINE N == [desk[p] EXCEPT !.cancelled = TRUE]
<1>1. /\ N \in DeskStates /\ N.pc = desk[p].pc /\ N.actor = desk[p].actor /\ N.descriptor = desk[p].descriptor
  <2>1. desk[p] \in DeskStates
    BY DEF HandoffsInv, HandoffsTypeOK
  <2> QED
    BY <2>1 DEF DeskStates
<1>2. desk' = [desk EXCEPT ![p] = N] /\ UNCHANGED <<said, seen, tick, reads, handed>>
  BY DEF CancelDelivery, HandoffsInv, HandoffsTypeOK
<1> HIDE DEF N
<1>3. desk'[p] = N
  BY <1>2 DEF HandoffsInv, HandoffsTypeOK
<1>4. handed' \in [Actors -> SUBSET Descriptors] /\ \A b \in Actors : handed[b] \subseteq handed'[b]
  BY <1>2 DEF HandoffsInv, HandoffsTypeOK
<1>5. ASSUME LedgersGrow PROVE KnownAt(p)'
  BY <1>1, <1>3, <1>4, <1>5, DeskKept
<1> QED
  BY <1>1, <1>2, <1>4, <1>5, DeskMoves

\* An observation is authored that was not known before: it is the first of its reader
\* for this handoff, and it comes after the handoff.
LEMMA ObserveKeeps ==
  ASSUME HandoffsInv, NEW p \in Desks, Observe(p)
  PROVE  HandoffsInv'
<1> USE DEF HandoffsInv, ObservationSound
<1>1. PICK a, d : a = desk[p].actor /\ d = desk[p].descriptor
  OBVIOUS
<1>2. desk[p].pc = "observe" /\ desk' = [desk EXCEPT ![p] = AtRest] /\ UNCHANGED handed
  BY DEF Observe
<1>3. /\ a \in Actors /\ d.id \in Headers(HostOf[a]) /\ d = Descriptor(d.id) /\ a \in EventAt(d.id).to
      /\ d \in handed[a]
  BY <1>1, <1>2 DEF DeskKnown, KnownAt
<1>4. PICK m \in Hosts : m = HostOf[a]
  BY <1>3, HandoffsAssumption
<1>5. CASE <<a, d.id>> \in reads[m]
  <2>1. UNCHANGED <<said, seen, tick, reads>>
    BY <1>1, <1>4, <1>5 DEF Observe
  <2> QED
    BY <1>2, <2>1, RestKeeps
<1>6. CASE <<a, d.id>> \notin reads[m]
  <2>1. /\ d.id \in Ids /\ d.id[1] \in Hosts /\ d.id[2] \in 1..seen[m][d.id[1]]
        /\ EventAt(d.id) = said[d.id[1]][d.id[2]] /\ EventAt(d.id) \in HandoffEvents /\ d \in Descriptors
    BY <1>3, <1>4, HeaderShape
  <2>2. PICK event \in ReadEvents :
          /\ Say(m, event) /\ event.clock = tick[m] + 1 /\ event.by = a /\ event.parent = d.id
          /\ event.to = AudienceOf(d.by, d.to)
    <3>1. tick[m] + 1 \in Nat
      BY DEF HandoffsTypeOK
    <3>2. AudienceOf(d.by, d.to) \in SUBSET Hosts
      BY <2>1, HandoffsAssumption DEF AudienceOf, Descriptors
    <3>3. [kind |-> "read", by |-> a, to |-> AudienceOf(d.by, d.to), ctx |-> d.ctx,
           bytes |-> 0, parent |-> d.id, clock |-> tick[m] + 1] \in ReadEvents
      BY <1>3, <2>1, <3>1, <3>2 DEF ReadEvents, Descriptors
    <3> QED
      BY <1>1, <1>4, <1>6, <3>3 DEF Observe
  <2>3. event \in HandoffEvents \cup ReadEvents /\ event.kind = "read" /\ HostOf[event.by] = m
    BY <1>4, <2>2 DEF ReadEvents
  <2>4. reads' = [reads EXCEPT ![m] = reads[m] \cup {<<a, d.id>>}]
    BY <1>1, <1>4, <1>6 DEF Observe
  <2>5. /\ said' \in [Hosts -> Seq(HandoffEvents \cup ReadEvents)] /\ \A h \in Hosts : Len(said'[h]) <= MaxSaid[h]
        /\ seen' \in [Hosts -> [Hosts -> Nat]] /\ tick' \in [Hosts -> Nat]
        /\ LedgersGrow /\ ClocksFollow' /\ ReadAtHome'
    BY <2>2, <2>3, SayFacts
  <2>6. PICK k \in Nat :
          /\ Observations' \subseteq Observations \cup {<<m, k>>}
          /\ \A i \in Observations : i \in Observations' /\ EventAt(i)' = EventAt(i)
          /\ EventAt(<<m, k>>)' = event /\ <<m, k>> \in Observations'
          /\ \A h \in Hosts : InStore(h, <<m, k>>)' <=> h = m
          /\ \A h \in Hosts, i \in Observations : InStore(h, i)' <=> InStore(h, i)
          /\ \A i \in Observations : \A q : q = EventAt(i).parent => EventAt(q)' = EventAt(q) /\ Descriptor(q)' = Descriptor(q)
    BY <2>2, <2>3, ObservationsBefore
  <2>7. PICK x : x = <<m, k>>
    OBVIOUS
  <2>8. Observations' = Observations \cup {x} /\ EventAt(x)' = event
    BY <2>6, <2>7
  <2>9. d.id \in Headers(m)' /\ EventAt(d.id)' = EventAt(d.id) /\ Descriptor(d.id)' = Descriptor(d.id)
    BY <1>3, <1>4, <2>5, HeadersGrow
  <2>10. HandoffsTypeOK'
    <3>1. reads' \in [Hosts -> SUBSET (Actors \X Ids)]
      BY SMTT(30), <1>3, <2>1, <2>4 DEF HandoffsTypeOK
    <3>2. desk' \in [Desks -> DeskStates]
      BY <1>2, RestKnown DEF HandoffsTypeOK
    <3> QED
      BY <1>2, <2>5, <3>1, <3>2 DEF HandoffsTypeOK
  <2>11. DeskKnown'
    <3> SUFFICES ASSUME NEW q \in Desks PROVE KnownAt(q)'
      BY DEF DeskKnown
    <3>1. CASE q = p
      BY <1>2, <3>1, RestKnown
    <3>2. CASE q # p
      <4>1. desk'[q] = desk[q]
        BY <1>2, <3>2 DEF HandoffsTypeOK
      <4> QED
        BY <1>2, <2>5, <4>1, DeskKept
    <3> QED
      BY <3>1, <3>2
  <2>12. ObservedOnce'
    <3>1. \A i \in Observations : ~(EventAt(i).by = a /\ EventAt(i).parent = d.id)
      <4> SUFFICES ASSUME NEW i \in Observations, EventAt(i).by = a, EventAt(i).parent = d.id PROVE FALSE
        OBVIOUS
      <4>1. HostOf[EventAt(i).by] = i[1] /\ <<EventAt(i).by, EventAt(i).parent>> \in reads[i[1]]
        BY ParentHeld
      <4> QED
        BY <1>4, <1>6, <4>1
    <3> QED
      BY <2>2, <2>6, <2>8, <3>1 DEF ObservedOnce
  <2>13. ObservedWasHanded'
    <3> SUFFICES ASSUME NEW i \in Observations'
                 PROVE  \A h : h = EventAt(i)'.parent =>
                          Descriptor(h)' \in handed[EventAt(i)'.by] /\ EventAt(i)'.by \in EventAt(h)'.to
      BY <1>2 DEF ObservedWasHanded
    <3>1. CASE i \in Observations
      BY <2>6, <3>1 DEF ObservedWasHanded
    <3>2. CASE i = x
      BY <1>3, <2>2, <2>8, <2>9, <3>2
    <3> QED
      BY <2>8, <3>1, <3>2
  <2>14. ObservationAdmitted'
    <3> SUFFICES ASSUME NEW i \in Observations'
                 PROVE  Admissible(EventAt(i))'
      BY DEF ObservationAdmitted
    <3>1. CASE i \in Observations
      BY <2>6, <3>1 DEF ObservationAdmitted, Admissible
    <3>2. CASE i = x
      <4>1. event.clock > EventAt(d.id).clock
        <5>1. EventAt(d.id).clock <= tick[m]
          BY <2>1 DEF ClocksFollow
        <5>2. EventAt(d.id).clock \in Nat /\ tick[m] \in Nat
          BY <2>1 DEF HandoffEvents, HandoffsTypeOK
        <5> QED
          BY <2>2, <5>1, <5>2
      <4>2. d.by = EventAt(d.id).by /\ d.to = EventAt(d.id).to
        BY <1>3 DEF Descriptor
      <4>3. event.by \in EventAt(d.id).to /\ event.to = AudienceOf(EventAt(d.id).by, EventAt(d.id).to)
        BY <1>3, <2>2, <4>2
      <4> QED
        BY <2>2, <2>8, <2>9, <3>2, <4>1, <4>3 DEF Admissible
    <3> QED
      BY <2>8, <3>1, <3>2
  <2>15. ReadsExact'
    <3> SUFFICES ASSUME NEW h \in Hosts
                 PROVE  /\ reads'[h] = {<<EventAt(i)'.by, EventAt(i)'.parent>> : i \in {j \in Observations' : InStore(h, j)' /\ h \in EventAt(j)'.to}}
                        /\ \A r \in reads'[h] : r[2] \in Headers(h)'
      BY DEF ReadsExact
    <3>1. /\ reads[h] = {<<EventAt(i).by, EventAt(i).parent>> : i \in {j \in Observations : InStore(h, j) /\ h \in EventAt(j).to}}
          /\ \A r \in reads[h] : r[2] \in Headers(h)
      BY DEF ReadsExact
    <3>2. \A r \in reads[h] : r[2] \in Headers(h)'
      BY <2>5, <3>1, HeadersGrow
    <3>3. m \in event.to
      BY <1>3, <1>4, <2>2 DEF AudienceOf, Descriptor
    <3>4. CASE h = m
      <4>1. reads'[h] = reads[h] \cup {<<a, d.id>>}
        BY <2>4, <3>4 DEF HandoffsTypeOK
      <4>2. {j \in Observations' : InStore(h, j)' /\ h \in EventAt(j)'.to} = {j \in Observations : InStore(h, j) /\ h \in EventAt(j).to} \cup {x}
        BY <2>6, <2>7, <2>8, <3>3, <3>4
      <4>3. \A r \in reads'[h] : r[2] \in Headers(h)'
        BY <2>9, <3>2, <3>4, <4>1
      <4> QED
        BY <2>2, <2>6, <2>8, <3>1, <4>1, <4>2, <4>3
    <3>5. CASE h # m
      <4>1. reads'[h] = reads[h]
        BY <2>4, <3>5 DEF HandoffsTypeOK
      <4>2. {j \in Observations' : InStore(h, j)' /\ h \in EventAt(j)'.to} = {j \in Observations : InStore(h, j) /\ h \in EventAt(j).to}
        BY <2>6, <2>7, <2>8, <3>5
      <4> QED
        BY <2>6, <3>1, <3>2, <4>1, <4>2
    <3> QED
      BY <3>4, <3>5
  <2> QED
    BY <2>5, <2>10, <2>11, <2>12, <2>13, <2>14, <2>15
<1> QED
  BY <1>5, <1>6

\* The next event of another ledger is stored: an observation is recorded where its handoff is.
LEMMA TakeKeeps ==
  ASSUME HandoffsInv, NEW m \in Hosts, NEW o \in Hosts, TakeHandoff(m, o)
  PROVE  HandoffsInv'
<1> USE DEF HandoffsInv, ObservationSound
<1>1. PICK k, event : k = seen[m][o] + 1 /\ event = said[o][seen[m][o] + 1]
  OBVIOUS
<1>2. /\ m # o /\ seen[m][o] < Len(said[o])
      /\ (event.kind = "read" /\ m \in event.to) => event.parent \in Headers(m) /\ Admissible(event)
      /\ seen' = [seen EXCEPT ![m][o] = k]
      /\ tick' = [tick EXCEPT ![m] = Max({tick[m], event.clock})]
      /\ reads' = IF event.kind = "read" /\ m \in event.to
                  THEN [reads EXCEPT ![m] = reads[m] \cup {<<event.by, event.parent>>}] ELSE reads
      /\ UNCHANGED <<said, desk, handed>>
  BY <1>1 DEF TakeHandoff
<1>3. \A h \in Hosts : Len(said[h]) \in Nat /\ tick[h] \in Nat /\ \A n \in Hosts : seen[h][n] \in Nat
  BY SMTT(30) DEF HandoffsTypeOK
<1>4. k \in 1..Len(said[o]) /\ k \in Nat /\ event = said[o][k] /\ k = seen[m][o] + 1
  BY <1>1, <1>2, <1>3
<1>5. event \in HandoffEvents \cup ReadEvents /\ event.clock \in Nat
  BY <1>4, EventTyped DEF HandoffEvents, ReadEvents
<1>6. PICK c : c = Max({tick[m], event.clock}) /\ c \in Nat /\ tick[m] <= c /\ event.clock <= c
  BY <1>3, <1>5, LaterClock
<1>7. /\ seen' \in [Hosts -> [Hosts -> Nat]] /\ seen'[m][o] = k
      /\ \A h, n \in Hosts : h # m \/ n # o => seen'[h][n] = seen[h][n]
  BY <1>2, <1>4 DEF HandoffsTypeOK
<1>8. tick' \in [Hosts -> Nat] /\ tick'[m] = c /\ \A h \in Hosts \ {m} : tick'[h] = tick[h]
  BY <1>2, <1>6 DEF HandoffsTypeOK
<1>9. LedgersGrow
  <2> SUFFICES ASSUME NEW h \in Hosts, NEW n \in Hosts PROVE seen[h][n] <= seen'[h][n]
    BY <1>2, <1>3, <1>7 DEF LedgersGrow
  <2>1. CASE h = m /\ n = o
    BY <1>3, <1>4, <1>7, <2>1
  <2>2. CASE h # m \/ n # o
    BY SMTT(30), <1>3, <1>7, <2>2
  <2> QED
    BY <2>1, <2>2
<1>10. ClocksFollow'
  <2> SUFFICES ASSUME NEW h \in Hosts, NEW n \in Hosts
               PROVE  /\ seen'[h][n] <= Len(said[n]) /\ seen'[h][h] = Len(said[h])
                      /\ \A s \in 1..seen'[h][n] : said[n][s].clock <= tick'[h]
    BY <1>2 DEF ClocksFollow
  <2>1. /\ seen[h][n] <= Len(said[n]) /\ seen[h][h] = Len(said[h])
        /\ \A s \in 1..seen[h][n] : said[n][s].clock <= tick[h]
    BY DEF ClocksFollow
  <2>2. seen'[h][h] = Len(said[h])
    BY <1>2, <1>7, <2>1
  <2>3. tick[h] <= tick'[h] /\ tick'[h] \in Nat
    <3>1. CASE h = m
      BY <1>6, <1>8, <3>1
    <3>2. CASE h # m
      <4>1. tick'[h] = tick[h] /\ tick[h] \in Nat
        BY <1>3, <1>8, <3>2
      <4> QED
        BY <4>1
    <3> QED
      BY <3>1, <3>2
  <2>4. ASSUME NEW s \in 1..seen[h][n] PROVE said[n][s].clock <= tick'[h]
    <3>1. s \in 1..Len(said[n])
      BY <1>3, <2>1
    <3>2. said[n][s].clock \in Nat
      BY <3>1, EventTyped DEF HandoffEvents, ReadEvents
    <3> QED
      BY <1>3, <2>1, <2>3, <3>2
  <2>5. CASE h = m /\ n = o
    <3>1. seen'[h][n] <= Len(said[n])
      BY <1>3, <1>4, <1>7, <2>5
    <3>2. \A s \in 1..seen'[h][n] : s \in 1..seen[h][n] \/ s = k
      BY <1>3, <1>4, <1>7, <2>5
    <3>3. said[n][k].clock <= tick'[h]
      BY <1>4, <1>6, <1>8, <2>5
    <3> QED
      BY <2>2, <2>4, <3>1, <3>2, <3>3
  <2>6. CASE h # m \/ n # o
    BY <1>7, <2>1, <2>2, <2>4, <2>6
  <2> QED
    BY <2>5, <2>6
<1>11. ReadAtHome'
  BY <1>2 DEF ReadAtHome
<1>12. HandoffsTypeOK'
  <2>1. event.kind = "read" => event.by \in Actors /\ event.parent \in Ids
    BY <1>5 DEF HandoffEvents, ReadEvents
  <2>2. reads' \in [Hosts -> SUBSET (Actors \X Ids)]
    <3>1. CASE event.kind = "read" /\ m \in event.to
      BY SMTT(30), <1>2, <2>1, <3>1 DEF HandoffsTypeOK
    <3>2. CASE ~(event.kind = "read" /\ m \in event.to)
      BY <1>2, <3>2 DEF HandoffsTypeOK
    <3> QED
      BY <3>1, <3>2
  <2> QED
    BY <1>2, <1>7, <1>8, <2>2 DEF HandoffsTypeOK
<1>13. DeskKnown'
  BY <1>2, <1>9, DeskKept DEF DeskKnown
<1>14. /\ Observations' = Observations /\ \A i : EventAt(i)' = EventAt(i)
       /\ ObservedOnce' /\ ObservedWasHanded' /\ ObservationAdmitted'
  BY <1>2, ObservationsStay
<1>15. PICK x : x = <<o, k>>
  OBVIOUS
<1>16. /\ EventAt(x) = event /\ x[1] = o /\ x[2] = k
       /\ x \in Observations <=> event.kind = "read"
  BY <1>4, <1>15, ObservationShape DEF Observations, EventAt
<1>17. \A j \in Observations : j # x => (InStore(m, j)' <=> InStore(m, j))
  <2> SUFFICES ASSUME NEW j \in Observations, j # x PROVE InStore(m, j)' <=> InStore(m, j)
    OBVIOUS
  <2>1. j[1] \in Hosts /\ j[2] \in 1..Len(said[j[1]]) /\ j = <<j[1], j[2]>>
    BY ObservationShape
  <2>2. CASE j[1] = o
    <3>1. j[2] # k
      BY <1>15, <2>1, <2>2
    <3>2. j[2] \in 1..k <=> j[2] \in 1..seen[m][o]
      BY <1>3, <1>4, <2>1, <2>2, <3>1
    <3> QED
      BY <1>7, <2>2, <3>2 DEF InStore
  <2>3. CASE j[1] # o
    <3>1. seen'[m][j[1]] = seen[m][j[1]]
      BY <1>7, <2>1, <2>3
    <3> QED
      BY <3>1 DEF InStore
  <2> QED
    BY <2>2, <2>3
<1>18. InStore(m, x)' /\ ~InStore(m, x)
  <2>1. k \in 1..seen'[m][o] /\ k \notin 1..seen[m][o]
    BY <1>3, <1>4, <1>7
  <2> QED
    BY <1>16, <2>1 DEF InStore
<1>19. ReadsExact'
  <2> SUFFICES ASSUME NEW h \in Hosts
               PROVE  /\ reads'[h] = {<<EventAt(i).by, EventAt(i).parent>> : i \in {j \in Observations : InStore(h, j)' /\ h \in EventAt(j).to}}
                      /\ \A r \in reads'[h] : r[2] \in Headers(h)'
    BY <1>14 DEF ReadsExact
  <2>1. /\ reads[h] = {<<EventAt(i).by, EventAt(i).parent>> : i \in {j \in Observations : InStore(h, j) /\ h \in EventAt(j).to}}
        /\ \A r \in reads[h] : r[2] \in Headers(h)
    BY DEF ReadsExact
  <2>2. \A r \in reads[h] : r[2] \in Headers(h)'
    BY <1>9, <2>1, HeadersGrow
  <2>3. CASE h # m
    <3>1. reads'[h] = reads[h]
      BY <1>2, <2>3 DEF HandoffsTypeOK
    <3>2. \A j \in Observations : InStore(h, j)' <=> InStore(h, j)
      <4>1. \A n \in Hosts : seen'[h][n] = seen[h][n]
        BY <1>7, <2>3
      <4> QED
        BY <4>1 DEF InStore
    <3> QED
      BY <2>1, <2>2, <3>1, <3>2
  <2>4. CASE h = m /\ ~(event.kind = "read" /\ m \in event.to)
    <3>1. reads'[h] = reads[h]
      BY <1>2, <2>4
    <3>2. {j \in Observations : InStore(h, j)' /\ h \in EventAt(j).to} = {j \in Observations : InStore(h, j) /\ h \in EventAt(j).to}
      BY <1>16, <1>17, <2>4
    <3> QED
      BY <2>1, <2>2, <3>1, <3>2
  <2>5. CASE h = m /\ event.kind = "read" /\ m \in event.to
    <3>1. reads'[h] = reads[h] \cup {<<event.by, event.parent>>}
      BY <1>2, <2>5 DEF HandoffsTypeOK
    <3>2. {j \in Observations : InStore(h, j)' /\ h \in EventAt(j).to} = {j \in Observations : InStore(h, j) /\ h \in EventAt(j).to} \cup {x}
      BY <1>16, <1>17, <1>18, <2>5
    <3>3. event.parent \in Headers(h)'
      BY <1>2, <1>9, <2>5, HeadersGrow
    <3> QED
      BY <1>16, <2>1, <2>2, <3>1, <3>2, <3>3
  <2> QED
    BY <2>3, <2>4, <2>5
<1> QED
  BY <1>10, <1>11, <1>12, <1>13, <1>14, <1>19

-----------------------------------------------------------------------------
\* The invariant and what follows

\* Every step preserves the invariant.
LEMMA HandoffsNextKeeps == HandoffsInv /\ [HandoffsNext]_handoffVars => HandoffsInv'
<1> SUFFICES ASSUME HandoffsInv, [HandoffsNext]_handoffVars PROVE HandoffsInv'
  OBVIOUS
<1>1. ASSUME NEW draft \in Drafts, CreateHandoff(draft) PROVE HandoffsInv'
  BY <1>1, CreateKeeps
<1>2. ASSUME NEW m \in Hosts, NEW o \in Hosts, TakeHandoff(m, o) PROVE HandoffsInv'
  BY <1>2, TakeKeeps
<1>3. ASSUME NEW p \in Desks, NEW a \in Actors, NEW ctx \in Contexts, NEW server \in BOOLEAN,
             ListHandoffs(p, a, ctx, server)
      PROVE  HandoffsInv'
  BY <1>3, ListKeeps
<1>4. ASSUME NEW p \in Desks, NEW limit \in 1..MaxBody, NEW selected \in Presented(p), ReadHandoff(p, selected, limit)
      PROVE  HandoffsInv'
  BY <1>4, ReadKeeps
<1>5. ASSUME NEW p \in Desks, NEW original \in BOOLEAN, Deliver(p, original) PROVE HandoffsInv'
  BY <1>5, DeliverKeeps
<1>6. ASSUME NEW p \in Desks, CancelDelivery(p) PROVE HandoffsInv'
  BY <1>6, CancelKeeps
<1>7. ASSUME NEW p \in Desks, Observe(p) PROVE HandoffsInv'
  BY <1>7, ObserveKeeps
<1>8. ASSUME NEW p \in Desks, DeskEnds(p) PROVE HandoffsInv'
  BY <1>8, RestKeeps DEF DeskEnds
<1>9. ASSUME UNCHANGED handoffVars PROVE HandoffsInv'
  <2>1. UNCHANGED <<said, seen, tick, reads>> /\ UNCHANGED desk /\ \A a \in Actors : handed[a] \subseteq handed'[a]
    BY <1>9 DEF handoffVars
  <2>2. LedgersGrow /\ ClocksFollow' /\ ReadAtHome' /\ ObservationSound'
    BY <2>1, StoreStays
  <2>3. DeskKnown'
    BY <2>1, <2>2, DeskKept DEF DeskKnown
  <2>4. HandoffsTypeOK'
    BY <1>9 DEF handoffVars, HandoffsInv, HandoffsTypeOK
  <2> QED
    BY <2>2, <2>3, <2>4 DEF HandoffsInv
<1> QED
  BY <1>1, <1>2, <1>3, <1>4, <1>5, <1>6, <1>7, <1>8, <1>9 DEF HandoffsNext

\* A reader observes a handoff at most once, after its body was output to it, however many of
\* its processes read the same handoff at the same time; the observation is admissible at every
\* machine of its audience, which knows of the read exactly when it has stored it and then
\* holds the handoff too (PendingObservation::commit, admit_observation, handoff_read).
THEOREM ObservationCorrect == HandoffsSpec => []ObservationSound
<1>1. HandoffsInv => ObservationSound
  BY DEF HandoffsInv
<1> QED
  BY <1>1, HandoffsInitially, HandoffsNextKeeps, PTL DEF HandoffsSpec

-----------------------------------------------------------------------------
(***************************************************************************)
(* What the MCP server records of a call, for any number of calls, request *)
(* IDs and agents: reads are recorded for the agent they were written for, *)
(* and a call that was cancelled records nothing more.                     *)
(*                                                                         *)
(* Both rest on one inductive invariant.  A call between its delivery and  *)
(* the record of its read has been presented; the table of request IDs     *)
(* names only calls that were accepted, so no later request starts the     *)
(* thread of a withdrawn call afresh with its flag reset.                  *)
(***************************************************************************)

CallPoints == {"unsent", "clone", "dispatch", "adopt", "ready", "complete", "remove", "done"}

CallStates ==
  [pc : CallPoints, id : RequestIds \cup {"none"}, kind : {"none", "join", "read", "write", "failed"},
   as : Joiners \cup {Nameless}, flag : BOOLEAN]

\* The types of what the reader and the threads share.
McpTypeOK ==
  /\ acting \in Joiners \cup {Nameless}
  /\ call \in [Calls -> CallStates]
  /\ active \in [RequestIds -> Calls \cup {"none"}]
  /\ withdrawn \subseteq Calls

\* A call that is about to record its read has been written to the client as the
\* agent it is bound to.
CompletingWasPresented ==
  \A c \in Calls : call[c].pc = "complete" => <<c, call[c].as>> \in presented

\* The table names calls whose threads have started.
ActiveWasAccepted ==
  \A i \in RequestIds : active[i] # "none" => active[i] \in Calls /\ call[active[i]].pc # "unsent"

\* A cancelled call has been accepted and carries its flag.
WithdrawnIsFlagged == \A c \in withdrawn : call[c].pc # "unsent" /\ call[c].flag

McpInv ==
  /\ McpTypeOK
  /\ NotedWasPresented /\ CompletingWasPresented
  /\ ActiveWasAccepted /\ WithdrawnIsFlagged

-----------------------------------------------------------------------------
\* Before the first line no call has been accepted.
LEMMA McpInitially == McpInit => McpInv
  BY DEF McpInit, McpInv, McpTypeOK, CallStates, CallPoints, Unsent, NotedWasPresented,
         CompletingWasPresented, ActiveWasAccepted, WithdrawnIsFlagged

\* The types are kept by every step of the reader and of the threads.
LEMMA McpTypesKept == McpTypeOK /\ ActiveWasAccepted /\ [McpNext]_mcpVars => McpTypeOK'
<1> SUFFICES ASSUME McpTypeOK, ActiveWasAccepted, [McpNext]_mcpVars
             PROVE  McpTypeOK'
  OBVIOUS
<1> USE DEF McpTypeOK, CallStates, CallPoints
<1>1. CASE Initialize \/ Initialized \/ CloseInput \/ ServerEnds \/ UNCHANGED mcpVars
  BY <1>1 DEF Initialize, Initialized, CloseInput, ServerEnds, mcpVars, callVars
<1>2. ASSUME NEW c \in Calls, NEW i \in RequestIds, NEW kind \in {"join", "read", "write"},
             AcceptCall(c, i, kind)
      PROVE  McpTypeOK'
  <2>1. [Unsent EXCEPT !.pc = "clone", !.id = i, !.kind = kind] \in CallStates
    BY DEF Unsent
  <2>2. CASE call' = [call EXCEPT ![c].pc = "done"] /\ UNCHANGED active
    BY <1>2, <2>2 DEF AcceptCall
  <2>3. CASE /\ call' = [call EXCEPT ![c] = [Unsent EXCEPT !.pc = "clone", !.id = i, !.kind = kind]]
             /\ active' = [active EXCEPT ![i] = c]
    <3> HIDE DEF CallStates
    <3> QED
      BY <1>2, <2>1, <2>3 DEF AcceptCall
  <2> QED
    BY <1>2, <2>2, <2>3 DEF AcceptCall
<1>3. ASSUME NEW i \in RequestIds, CancelCall(i)
      PROVE  McpTypeOK'
  BY ZenonT(60), <1>3 DEF CancelCall, ActiveIds, ActiveWasAccepted
<1>4. ASSUME NEW c \in Calls, ThreadStep(c)
      PROVE  McpTypeOK'
  <2>1. CASE CloneSession(c)
    <3>1. call[c] \in CallStates
      OBVIOUS
    <3>2. [call[c] EXCEPT !.pc = "dispatch", !.as = acting] \in CallStates
      BY <3>1
    <3>3. call' = [call EXCEPT ![c] = [call[c] EXCEPT !.pc = "dispatch", !.as = acting]]
      BY <2>1 DEF CloneSession
    <3> HIDE DEF CallStates
    <3>4. call' \in [Calls -> CallStates]
      BY <3>2, <3>3
    <3> QED
      BY <2>1, <3>4 DEF CloneSession
  <2>2. CASE AdoptSession(c)
    BY <2>2 DEF AdoptSession, Continue
  <2>3. CASE Complete(c)
    BY <2>3 DEF Complete, Continue
  <2>4. CASE RemoveCall(c)
    BY ZenonT(60), <2>4 DEF RemoveCall, Continue
  <2>5. ASSUME NEW a \in Joiners, NEW ok \in BOOLEAN, Dispatch(c, a, ok)
        PROVE  McpTypeOK'
    BY <2>5 DEF Dispatch
  <2>6. ASSUME NEW written \in {"original", "replaced", "failed"}, DeliverCall(c, written)
        PROVE  McpTypeOK'
    BY <2>6 DEF DeliverCall, Continue
  <2> QED
    BY <1>4, <2>1, <2>2, <2>3, <2>4, <2>5, <2>6 DEF ThreadStep
<1> QED
  BY <1>1, <1>2, <1>3, <1>4 DEF McpNext

\* Every step of the reader and of the threads keeps the invariant.
LEMMA McpNextKeeps == McpInv /\ [McpNext]_mcpVars => McpInv'
<1> SUFFICES ASSUME McpInv, [McpNext]_mcpVars
             PROVE  McpInv'
  OBVIOUS
<1>t. McpTypeOK'
  BY McpTypesKept DEF McpInv
<1> DEFINE Rest == NotedWasPresented /\ CompletingWasPresented /\ ActiveWasAccepted /\ WithdrawnIsFlagged
<1> USE DEF McpInv, McpTypeOK, CallStates, NotedWasPresented, CompletingWasPresented,
            ActiveWasAccepted, WithdrawnIsFlagged
<1>1. CASE Initialize \/ Initialized \/ CloseInput \/ ServerEnds \/ UNCHANGED mcpVars
  BY <1>1 DEF Initialize, Initialized, CloseInput, ServerEnds, mcpVars, callVars, storeVars
<1>2. ASSUME NEW c \in Calls, NEW i \in RequestIds, NEW kind \in {"join", "read", "write"},
             AcceptCall(c, i, kind)
      PROVE  Rest'
  <2>1. CASE call' = [call EXCEPT ![c].pc = "done"] /\ UNCHANGED active
    BY <1>2, <2>1 DEF AcceptCall, storeVars
  <2>2. CASE /\ call' = [call EXCEPT ![c] = [Unsent EXCEPT !.pc = "clone", !.id = i, !.kind = kind]]
             /\ active' = [active EXCEPT ![i] = c]
    <3>1. call'[c].pc = "clone" /\ \A d \in Calls \ {c} : call'[d] = call[d]
      BY <2>2 DEF Unsent
    <3>2. c \notin withdrawn
      BY <1>2 DEF AcceptCall
    <3> QED
      BY <1>2, <2>2, <3>1, <3>2 DEF AcceptCall, storeVars
  <2> QED
    BY <1>2, <2>1, <2>2 DEF AcceptCall
<1>3. ASSUME NEW i \in RequestIds, CancelCall(i)
      PROVE  Rest'
  BY <1>3 DEF CancelCall, ActiveIds, storeVars
<1>4. ASSUME NEW c \in Calls, ThreadStep(c)
      PROVE  Rest'
  <2>1. CASE CloneSession(c)
    BY <2>1 DEF CloneSession, storeVars
  <2>2. CASE AdoptSession(c)
    BY <2>2 DEF AdoptSession, Continue, storeVars
  <2>3. CASE Complete(c)
    BY <2>3 DEF Complete, Continue
  <2>4. CASE RemoveCall(c)
    BY <2>4 DEF RemoveCall, Continue, storeVars
  <2>5. ASSUME NEW a \in Joiners, NEW ok \in BOOLEAN, Dispatch(c, a, ok)
        PROVE  Rest'
    BY SMTT(30), <2>5 DEF Dispatch
  <2>6. ASSUME NEW written \in {"original", "replaced", "failed"}, DeliverCall(c, written)
        PROVE  Rest'
    BY <2>6 DEF DeliverCall, Continue
  <2> QED
    BY <1>4, <2>1, <2>2, <2>3, <2>4, <2>5, <2>6 DEF ThreadStep
<1> QED
  BY <1>t, <1>1, <1>2, <1>3, <1>4 DEF McpNext

\* A step records something new only for a call that completes without its flag.
LEMMA FlaggedNotesNothing ==
  ASSUME McpInv, [McpNext]_mcpVars, NEW c \in Calls, call[c].flag, NEW a, <<c, a>> \in noted'
  PROVE  <<c, a>> \in noted
<1>1. ASSUME NEW d \in Calls, Complete(d)
      PROVE  <<c, a>> \in noted
  BY <1>1 DEF Complete
<1>2. (\A d \in Calls : ~Complete(d)) => noted' = noted
  BY DEF McpNext, ThreadStep, Initialize, Initialized, CloseInput, ServerEnds, AcceptCall, CancelCall,
         CloneSession, AdoptSession, RemoveCall, Dispatch, DeliverCall, storeVars, mcpVars
<1> QED
  BY <1>1, <1>2

-----------------------------------------------------------------------------
\* The invariant holds in every state of the server.
LEMMA McpInvariant == McpSpec => []McpInv
  BY McpInitially, McpNextKeeps, PTL DEF McpSpec

\* A read is recorded only for the agent whose messages this very call has written
\* to the client, also when another call joins as a different agent between the
\* write and the record (Server::call, deliver_call).
THEOREM NotedCorrect == McpSpec => []NotedWasPresented
<1>1. McpInv => NotedWasPresented
  BY DEF McpInv
<1> QED
  BY <1>1, McpInvariant, PTL

\* Once the reader has processed the cancellation of a call under the lock of the
\* table, the call's thread records nothing more, wherever it stands
\* (notification, deliver_call).
THEOREM CancelledNotesNothing == McpSpec => NothingNotedAfterCancel
<1> DEFINE Quiet == \A c \in withdrawn : \A a \in Joiners : <<c, a>> \in noted' => <<c, a>> \in noted
<1>1. McpInv /\ [McpNext]_mcpVars => [Quiet]_mcpVars
  BY FlaggedNotesNothing DEF McpInv, McpTypeOK, WithdrawnIsFlagged
<1> QED
  BY <1>1, McpInvariant, PTL DEF McpSpec, NothingNotedAfterCancel
=============================================================================

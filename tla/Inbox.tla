-------------------------------- MODULE Inbox --------------------------------
(***************************************************************************)
(* What the agents of one machine were shown, and what is recorded of it.  *)
(* Hook processes put messages into the context of an agent's client, read *)
(* processes print them; both select in one transaction, write their       *)
(* output, and record it in another transaction, with any other process    *)
(* and a crash in between.  Posts are numbered in display order and arrive *)
(* in any order.                                                           *)
(***************************************************************************)
EXTENDS Naturals, FiniteSets, FiniteSetsExt

CONSTANTS
  Readers,      \* agents of the machine
  Posts,        \* messages and endings of asks, numbered in display order
  To,           \* the agents a post is addressed to
  UrgentPosts,  \* messages with an urgent notice
  EndingPosts,  \* endings of asks: they carry no receipts
  Questions,    \* asks of this machine with a fallback
  FallbackOf,   \* the message a question's fallback gets
  Hooks,        \* hook processes
  Viewers,      \* processes of chat inbox and chat read
  NoReader,
  MaxContext,   \* messages of one context (MAX_CONTEXT_MESSAGES in the code)
  MaxShown      \* messages of one inbox

ASSUME InboxAssumption ==
  /\ Posts \subseteq Nat \ {0} /\ IsFiniteSet(Posts)
  /\ To \in [Posts -> SUBSET Readers]
  /\ UrgentPosts \subseteq Posts /\ EndingPosts \subseteq Posts
  /\ FallbackOf \in [Questions -> Posts]
  /\ \A q, r \in Questions : FallbackOf[q] = FallbackOf[r] => q = r
  /\ MaxContext \in Nat /\ MaxShown \in Nat

Stages == 0..3   \* pending, delivered, read, acknowledged
Fallbacks == {FallbackOf[q] : q \in Questions}

VARIABLES
  arrived,    \* posts the store holds
  cleaned,    \* posts it has deleted
  stage,      \* the delivery of each message to each agent
  urgent,     \* the table of urgent messages that wait
  cursor,     \* the read cursor of each agent
  answered,   \* questions that have ended
  fallbacks,  \* fallback asks authored for each question
  hook,       \* what each hook process is doing
  viewer,     \* what each read process is doing
  shown,      \* history: the posts output to each agent
  settled,    \* history: the messages each agent acknowledged or replied to
  late        \* history: endings that came behind something already selected

inboxVars == <<arrived, cleaned, stage, urgent, cursor, answered, fallbacks, hook, viewer,
               shown, settled, late>>

NoHook == [pc |-> "idle", agent |-> NoReader, phase |-> "post", chosen |-> {}, block |-> FALSE]
NoView == [pc |-> "idle", agent |-> NoReader, chosen |-> {}, advance |-> FALSE]

InboxInit ==
  /\ arrived = {} /\ cleaned = {}
  /\ stage = [a \in Readers |-> [m \in Posts |-> 0]]
  /\ urgent = {}
  /\ cursor = [a \in Readers |-> 0]
  /\ answered = {}
  /\ fallbacks = [q \in Questions |-> 0]
  /\ hook = [h \in Hooks |-> NoHook]
  /\ viewer = [v \in Viewers |-> NoView]
  /\ shown = [a \in Readers |-> {}]
  /\ settled = [a \in Readers |-> {}]
  /\ late = [a \in Readers |-> {}]

Held == arrived \ cleaned
Addressed(a) == {m \in Held : a \in To[m]}
Mail(a) == Addressed(a) \ EndingPosts

(***************************************************************************)
(* Commits.                                                                *)
(***************************************************************************)
\* index: an urgent message enters the table for each of its recipients.
Rows(ms) == {r \in Readers \X (ms \cap UrgentPosts) : r[1] \in To[r[2]]}

\* The furthest any read of the agent has selected or recorded.
Horizon(a) ==
  Max({cursor[a]} \cup UNION {viewer[v].chosen : v \in {w \in Viewers : viewer[w].agent = a /\ viewer[w].advance}})

Index(ms) ==
  /\ arrived' = arrived \cup ms
  /\ urgent' = urgent \cup Rows(ms)
  /\ late' = [a \in Readers |-> late[a] \cup {m \in ms \cap EndingPosts : m < Horizon(a)}]

Arrive(m) ==
  /\ m \in Posts \ (arrived \cup Fallbacks)
  /\ Index({m})
  /\ UNCHANGED <<cleaned, stage, cursor, answered, fallbacks, hook, viewer, shown, settled>>

\* record_receipt for a set of messages of one agent: stages only rise, and an
\* acknowledgment takes the message out of the urgent table.
ReceiptsLatest(a, ms, s) ==
  /\ stage' = [stage EXCEPT ![a] = [m \in Posts |-> IF m \in ms THEN s ELSE @[m]]]
  /\ urgent' = IF s = 3 THEN urgent \ ({a} \X ms) ELSE urgent

Receipts(a, ms, s) ==
  /\ stage' = [stage EXCEPT ![a] = [m \in Posts |-> IF m \in ms THEN Max({s, @[m]}) ELSE @[m]]]
  /\ urgent' = IF s = 3 THEN urgent \ ({a} \X ms) ELSE urgent

\* chat acknowledge, or a reply, which acknowledges its message for its author.
Settle(a, m) ==
  /\ m \in Mail(a)
  /\ m \notin settled[a]
  /\ Receipts(a, {m}, 3)
  /\ settled' = [settled EXCEPT ![a] = @ \cup {m}]
  /\ UNCHANGED <<arrived, cleaned, cursor, answered, fallbacks, hook, viewer, shown, late>>

AnswerQuestion(q) ==
  /\ q \in Held \ answered
  /\ answered' = answered \cup {q}
  /\ UNCHANGED <<arrived, cleaned, stage, urgent, cursor, fallbacks, hook, viewer, shown, settled, late>>

\* chat clean, for a conversation of one message: refused while an urgent message
\* waits for a recipient or an ask is open.
CleanablePost(m) ==
  /\ m \in UrgentPosts => \A a \in To[m] : stage[a][m] = 3
  /\ m \in Questions => m \in answered

CleanPost(m) ==
  /\ m \in Held
  /\ CleanablePost(m)
  /\ cleaned' = cleaned \cup {m}
  /\ UNCHANGED <<arrived, stage, urgent, cursor, answered, fallbacks, hook, viewer, shown, settled, late>>

(***************************************************************************)
(* chat hook.                                                              *)
(***************************************************************************)
\* escalate: a due question that is open and has no fallback yet gets one.
QuestionWaiting(q) == q \in Held \ answered /\ fallbacks[q] = 0

HookBegin(h, a, phase, due) ==
  /\ hook[h].pc = "idle"
  /\ due \subseteq {q \in Questions : QuestionWaiting(q)}
  /\ fallbacks' = [q \in Questions |-> fallbacks[q] + IF q \in due THEN 1 ELSE 0]
  /\ Index({FallbackOf[q] : q \in due})
  /\ hook' = [hook EXCEPT ![h] = [NoHook EXCEPT !.pc = "mark", !.agent = a, !.phase = phase]]
  /\ UNCHANGED <<cleaned, stage, cursor, answered, viewer, shown, settled>>

\* Before a tool call, what was delivered counts as read.
HookMark(h) ==
  LET a == hook[h].agent IN
  /\ hook[h].pc = "mark"
  /\ IF hook[h].phase = "pre"
     THEN Receipts(a, {m \in Held : stage[a][m] = 1}, 2)
     ELSE UNCHANGED <<stage, urgent>>
  /\ hook' = [hook EXCEPT ![h].pc = "select"]
  /\ UNCHANGED <<arrived, cleaned, cursor, answered, fallbacks, viewer, shown, settled, late>>

\* The first n of a set of posts.
First(n, ms) == {m \in ms : Cardinality({k \in ms : k < m}) < n}

PendingMail(a) == {m \in Mail(a) : stage[a][m] = 0}
UrgentMail(a) == {m \in PendingMail(a) : <<a, m>> \in urgent}

\* Urgent messages from their own table, then the first pending ones, urgent
\* before others; what does not fit into the context ends the selection.
Context(a) ==
  LET pressing == UrgentMail(a)
      candidates == First(MaxContext, pressing) \cup First(MaxContext, PendingMail(a))
      left == Min({MaxContext, Cardinality(candidates)}) - Min({MaxContext, Cardinality(pressing \cap candidates)})
  IN First(MaxContext, pressing \cap candidates) \cup First(left, candidates \ pressing)

HookSelect(h) ==
  LET a == hook[h].agent IN
  /\ hook[h].pc = "select"
  /\ hook' = [hook EXCEPT ![h].pc = "emit", ![h].chosen = Context(a),
                          ![h].block = hook[h].phase = "stop" /\ \E m \in Posts : <<a, m>> \in urgent]
  /\ UNCHANGED <<arrived, cleaned, stage, urgent, cursor, answered, fallbacks, viewer, shown, settled, late>>

HookEmit(h) ==
  LET a == hook[h].agent IN
  /\ hook[h].pc = "emit"
  /\ shown' = [shown EXCEPT ![a] = @ \cup hook[h].chosen]
  /\ hook' = [hook EXCEPT ![h].pc = "record"]
  /\ UNCHANGED <<arrived, cleaned, stage, urgent, cursor, answered, fallbacks, viewer, settled, late>>

HookRecordEarly(h) ==
  /\ hook[h].pc \in {"emit", "record"}
  /\ Receipts(hook[h].agent, hook[h].chosen \cap Held, 1)
  /\ hook' = [hook EXCEPT ![h] = NoHook]
  /\ UNCHANGED <<arrived, cleaned, cursor, answered, fallbacks, viewer, shown, settled, late>>

HookRecord(h) ==
  /\ hook[h].pc = "record"
  /\ Receipts(hook[h].agent, hook[h].chosen \cap Held, 1)
  /\ hook' = [hook EXCEPT ![h] = NoHook]
  /\ UNCHANGED <<arrived, cleaned, cursor, answered, fallbacks, viewer, shown, settled, late>>

\* The process dies, or its output fails.
HookEnds(h) ==
  /\ hook[h].pc # "idle"
  /\ hook' = [hook EXCEPT ![h] = NoHook]
  /\ UNCHANGED <<arrived, cleaned, stage, urgent, cursor, answered, fallbacks, viewer, shown, settled, late>>

(***************************************************************************)
(* chat inbox and chat read.                                               *)
(***************************************************************************)
Unread(a) ==
  {m \in Addressed(a) : IF m \in EndingPosts THEN m > cursor[a] ELSE stage[a][m] < 2}

ViewBegin(v, a, chosen, advance) ==
  /\ viewer[v].pc = "idle"
  /\ chosen # {}
  /\ viewer' = [viewer EXCEPT ![v] = [pc |-> "emit", agent |-> a, chosen |-> chosen, advance |-> advance]]
  /\ UNCHANGED <<arrived, cleaned, stage, urgent, cursor, answered, fallbacks, hook, shown, settled, late>>

OpenInbox(v, a) == ViewBegin(v, a, First(MaxShown, Unread(a)), TRUE)
OpenWholeInbox(v, a) == ViewBegin(v, a, First(MaxShown, Addressed(a)), TRUE)
OpenMessage(v, a, m) == m \in Mail(a) /\ ViewBegin(v, a, {m}, FALSE)

ViewEmit(v) ==
  LET a == viewer[v].agent IN
  /\ viewer[v].pc = "emit"
  /\ shown' = [shown EXCEPT ![a] = @ \cup viewer[v].chosen]
  /\ viewer' = [viewer EXCEPT ![v].pc = "complete"]
  /\ UNCHANGED <<arrived, cleaned, stage, urgent, cursor, answered, fallbacks, hook, settled, late>>

\* complete_read: nothing is recorded when a selected post is gone.
CompleteRead(v) ==
  LET a == viewer[v].agent
      chosen == viewer[v].chosen
  IN /\ viewer[v].pc = "complete"
     /\ IF chosen \subseteq Held
        THEN /\ Receipts(a, chosen \ EndingPosts, 2)
             /\ cursor' = [cursor EXCEPT ![a] = IF viewer[v].advance THEN Max({@} \cup chosen) ELSE @]
        ELSE UNCHANGED <<stage, urgent, cursor>>
     /\ viewer' = [viewer EXCEPT ![v] = NoView]
     /\ UNCHANGED <<arrived, cleaned, answered, fallbacks, hook, shown, settled, late>>

\* The process dies, its output fails, or the call was cancelled or its answer
\* replaced by a shorter one.
ViewEnds(v) ==
  /\ viewer[v].pc # "idle"
  /\ viewer' = [viewer EXCEPT ![v] = NoView]
  /\ UNCHANGED <<arrived, cleaned, stage, urgent, cursor, answered, fallbacks, hook, shown, settled, late>>

HookStep(h) ==
  \/ \E a \in Readers, phase \in {"pre", "post", "stop"}, due \in SUBSET Questions : HookBegin(h, a, phase, due)
  \/ HookMark(h) \/ HookSelect(h) \/ HookEmit(h) \/ HookRecord(h) \/ HookEnds(h)

ViewStep(v) ==
  \/ \E a \in Readers : OpenInbox(v, a) \/ OpenWholeInbox(v, a)
  \/ \E a \in Readers, m \in Posts : OpenMessage(v, a, m)
  \/ ViewEmit(v) \/ CompleteRead(v) \/ ViewEnds(v)

InboxNext ==
  \/ \E m \in Posts : Arrive(m) \/ CleanPost(m)
  \/ \E a \in Readers, m \in Posts : Settle(a, m)
  \/ \E q \in Questions : AnswerQuestion(q)
  \/ \E h \in Hooks : HookStep(h)
  \/ \E v \in Viewers : ViewStep(v)

InboxSpec == InboxInit /\ [][InboxNext]_inboxVars

-----------------------------------------------------------------------------
\* A message is recorded as delivered or read only after it was written out to
\* the agent, whatever fails or dies in between (hook_using, deliver_outcome).
RecordedWasShown ==
  \A a \in Readers, m \in Posts : stage[a][m] \in {1, 2} => m \in shown[a]

\* A stop stays blocked exactly by the urgent messages the agent was sent and has
\* neither acknowledged nor replied to, also across cleaning (index,
\* record_receipt, clean_in).
UrgentExact == urgent = {r \in Rows(Held) : r[2] \notin settled[r[1]]}

\* No receipt is taken back by a slower process that records an earlier stage.
NeverUnread ==
  [][\A a \in Readers, m \in Posts : stage'[a][m] >= stage[a][m]]_inboxVars

\* A question gets one fallback however many processes find it due (escalate).
OneFallback == \A q \in Questions : fallbacks[q] <= 1 /\ (fallbacks[q] = 1 => FallbackOf[q] \in arrived)

\* The read cursor passes over no ending the agent was not shown, except one that
\* arrived behind something already selected (Tx::mark_read).
PassedWasShown ==
  \A a \in Readers :
    \A m \in Addressed(a) \cap EndingPosts : m <= cursor[a] => m \in shown[a] \cup late[a]

\* A context carries an ordinary message only when it carries every urgent one
\* that has not been delivered (select_context).
UrgentFirst ==
  [][\A h \in Hooks :
       (hook[h].pc = "select" /\ hook'[h].pc = "emit") =>
         (hook'[h].chosen \subseteq UrgentPosts \/ UrgentMail(hook[h].agent) \subseteq hook'[h].chosen)]_inboxVars

\* What is recorded as delivered or read was shown to its reader before, by a hook
\* or a view that is interrupted anywhere (hook_using, complete_read); a question
\* that is due gets one fallback (escalate), and a stop is blocked by exactly the
\* urgent messages that are not settled (record_receipt, clean_in).
InboxSound == OneFallback /\ RecordedWasShown /\ PassedWasShown /\ UrgentExact

\* No process takes back the receipt another one recorded, and no context leaves
\* an urgent message out for an ordinary one (record_receipt, select_context).
InboxKept == NeverUnread /\ UrgentFirst
=============================================================================

------------------------------ MODULE Dashboard ------------------------------
(***************************************************************************)
(* The dashboard: the modes of the terminal it takes and gives back        *)
(* (platform/terminal.rs), the loop of drawing and keys (tui/runtime.rs),  *)
(* the view it keeps (tui/model.rs, core dashboard.rs) and the thread that *)
(* reads the chat store beside it (tui/worker.rs, chat/store/observer.rs). *)
(* Keys go on changing what is asked for while an answer is on its way.    *)
(***************************************************************************)
EXTENDS Naturals, Sequences, SequencesExt

CONSTANTS
  Locals,         \* agents of this machine, in the order of the profiles
  Chats,          \* conversations, in the order of the store
  NoOne, NoChat, NoRow,
  Starts,         \* agents the dashboard may be started for
  Keyboard,       \* the keys that are pressed, Tab apart
  Stores,         \* states in which other programs leave the chat store
  ChatStore(_),       \* whether it exists, agents registered, conversations of each agent
  Alike,          \* how many typed characters the label of a row agrees with
  MaxQuery, MaxRows,
  MaxKeys,        \* bound on keys and ticks, and on changes of the store
  MaxChanges,
  MaxBreaks       \* bound on failures

Sections == <<"machines", "agents", "chats">>

VARIABLES
  tty,            \* the modes in force on the terminal
  reached,        \* how far the session came in taking them
  session,        \* where the program is
  broken,         \* whether the work failed, and the restores that failed
  look,           \* section, selected, intended, query, searching, detail, help, picker
  asked,          \* the request: actor, conversation, initial actor
  visible,        \* the snapshot that is displayed
  notice,         \* an error is displayed
  refresh,        \* accepted and pending generation
  orders, observing, results,   \* the work on its way to, at and from the observer
  held,           \* the state of the chat store
  chosen,         \* the agent the user chose last
  keys, changes, breaks

viewVars == <<look, asked, visible, notice, refresh, chosen>>
observerVars == <<orders, observing, results>>
modeVars == <<tty, reached, broken>>
dashboardVars == <<session, modeVars, viewVars, observerVars, held, keys, changes, breaks>>

NoWork == [generation |-> 0, request |-> <<>>]
NoMessages == [of |-> NoChat, for |-> NoOne]
Blank == [actor |-> NoOne, locals |-> <<>>, chats |-> <<>>, messages |-> NoMessages,
          machines |-> FALSE]
Modes == {"input", "display", "screen", "cursor"}

FirstLook == [section |-> 1, selected |-> NoRow, intended |-> NoRow, query |-> 0,
              searching |-> FALSE, detail |-> FALSE, help |-> FALSE, picker |-> 0]
Unasked == [actor |-> NoOne, conversation |-> NoChat, initial |-> NoOne]

DashboardInit ==
  /\ tty = {} /\ reached = 0 /\ session = "raw" /\ broken = [work |-> FALSE, cleanup |-> {}]
  /\ look = FirstLook
  /\ asked \in [actor : {NoOne}, conversation : {NoChat},
                initial : Starts]
  /\ visible = Blank /\ notice = FALSE /\ refresh = [accepted |-> 0, pending |-> 0]
  /\ orders = <<>> /\ observing = NoWork /\ results = <<>>
  /\ held \in Stores
  /\ chosen = NoOne /\ keys = 0 /\ changes = 0 /\ breaks = 0

-----------------------------------------------------------------------------
(* The session: modes are taken one after the other, and given back in the *)
(* opposite order from the stage that was reached.                         *)

BreaksDown == breaks < MaxBreaks /\ breaks' = breaks + 1

\* enter: the stage is noted before the mode is set, so that a setup that fails half way
\* is undone.  Raw is two modes, of the input and of the display.
Setup(name, at, next) ==
  LET part == IF name = "raw" THEN {"input", "display"} ELSE {name}
  IN /\ session = name /\ reached' = at
     /\ \/ tty' = tty \cup part /\ session' = next /\ UNCHANGED <<broken, breaks>>
        \/ /\ BreaksDown /\ session' = "give back" /\ broken' = [broken EXCEPT !.work = TRUE]
           /\ \E some \in SUBSET part : tty' = tty \cup some

EnterSession ==
  /\ \/ Setup("raw", 1, "screen")
     \/ Setup("screen", 2, "cursor")
     \/ Setup("cursor", 3, "begin")
  /\ UNCHANGED <<viewVars, observerVars, held, keys, changes>>

\* TerminalStage::owns.
Owns(restore) ==
  CASE restore = "cursor" -> reached = 3
    [] restore = "screen" -> reached >= 2
    [] OTHER -> reached >= 1

\* Each restore is tried whatever became of the others.  restore_modes tries both halves of
\* raw.
GiveBack ==
  /\ session = "give back" /\ session' = "over"
  /\ \E failing \in SUBSET {"cursor", "screen", "raw"}, kept \in SUBSET Modes :
       LET tried == {r \in {"cursor", "screen", "raw"} : Owns(r)}
           of(m) == IF m \in {"input", "display"} THEN "raw" ELSE m
       IN /\ failing \subseteq tried
          /\ kept \subseteq {m \in tty : of(m) \in failing}
          /\ IF failing = {} THEN UNCHANGED breaks ELSE BreaksDown
          /\ tty' = {m \in tty : of(m) \notin tried} \cup kept
          /\ broken' = [broken EXCEPT !.cleanup = failing]
  /\ UNCHANGED <<reached, viewVars, observerVars, held, keys, changes>>

-----------------------------------------------------------------------------
(* The view.                                                               *)

\* Model::rows: the rows of a section, those that agree with the search.
RowsOf(listed, query) == SelectSeq(listed, LAMBDA r : Alike[r] >= query)
ListedIn(section, snapshot) ==
  CASE Sections[section] = "machines" -> IF snapshot.machines THEN <<"here">> ELSE <<>>
    [] Sections[section] = "agents" -> snapshot.locals
    [] OTHER -> snapshot.chats
Listed == ListedIn(look.section, visible)

\* Model::reconcile with retained_selection and selection_after_refresh: the row the user
\* meant is selected again once it is back, and no other in its place.
Reconciled(l, snapshot) ==
  LET rows == RowsOf(ListedIn(l.section, snapshot), l.query)
      intended == IF l.intended = NoRow THEN l.selected ELSE l.intended
      selected == IF intended \in ToSet(rows) THEN intended
                  ELSE IF intended # NoRow \/ rows = <<>> THEN NoRow
                  ELSE rows[1]
  IN [l EXCEPT !.selected = selected,
               !.intended = IF intended = NoRow THEN selected ELSE intended]

Position(r, rows) == IF r \in ToSet(rows) THEN CHOOSE i \in 1..Len(rows) : rows[i] = r ELSE 0

\* dashboard::navigate, with positions from 1 and 0 for none.
Navigated(at, count, by) ==
  IF count = 0 THEN 0
  ELSE IF at \notin 1..count THEN 1
  ELSE IF by = "next" THEN (IF at < count THEN at + 1 ELSE count)
  ELSE IF at > 1 THEN at - 1 ELSE 1

\* Model::navigate.
Moved(by) ==
  LET rows == RowsOf(Listed, look.query)
      to == Navigated(Position(look.selected, rows), Len(rows), by)
      row == IF to = 0 THEN NoRow ELSE rows[to]
  IN [look EXCEPT !.selected = row, !.intended = row]

\* An answer that is displayed whatever is asked for now.
DisplaysLate(work) == refresh.pending = work.generation

\* Refresh::complete_view: an answer counts once, and is displayed when it answers what is
\* asked for now.
Displays(work) == refresh.pending = work.generation /\ work.request = asked

\* Model::accept.
TakeAnswer(work, result) ==
  /\ refresh' = IF refresh.pending = work.generation
                THEN [accepted |-> work.generation, pending |-> 0] ELSE refresh
  /\ IF ~Displays(work) THEN UNCHANGED <<look, asked, visible, notice>>
     ELSE IF result.ok
     THEN /\ asked' = [asked EXCEPT !.actor = result.snapshot.actor, !.initial = NoOne]
          /\ visible' = result.snapshot /\ notice' = FALSE
          /\ look' = Reconciled(look, result.snapshot)
     ELSE notice' = TRUE /\ UNCHANGED <<look, asked, visible>>

\* Worker::refresh: one answer at a time is waited for.  A queue that is full answers with
\* an error at once.
AskFor(request, r) ==
  IF r.pending # 0 THEN refresh' = r /\ UNCHANGED <<orders, notice>>
  ELSE IF orders = <<>>
  THEN /\ refresh' = [r EXCEPT !.pending = r.accepted + 1]
       /\ orders' = <<[generation |-> r.accepted + 1, request |-> request]>>
       /\ UNCHANGED notice
  ELSE /\ refresh' = [r EXCEPT !.accepted = r.accepted + 1]
       /\ notice' = TRUE /\ UNCHANGED orders

-----------------------------------------------------------------------------
(* The loop: take an answer, draw, take an input.                          *)

\* The end of the loop: nothing looks at the view or the observer any more.
LeaveLoop ==
  /\ session' = "give back"
  /\ look' = FirstLook /\ asked' = Unasked /\ visible' = Blank /\ notice' = FALSE
  /\ refresh' = [accepted |-> 0, pending |-> 0] /\ chosen' = NoOne
  /\ orders' = <<>> /\ observing' = NoWork /\ results' = <<>>
  /\ UNCHANGED <<tty, reached, held, changes>>

\* runtime::run: the first refresh is asked for before the first frame.
BeginLoop ==
  /\ session = "begin" /\ session' = "drain"
  /\ AskFor(asked, refresh)
  /\ UNCHANGED <<modeVars, look, asked, visible, chosen, observing, results, held,
                 keys, changes, breaks>>

\* Worker::drain, and the frame that shows what it brought.
Drain ==
  /\ session = "drain" /\ session' = "input"
  /\ IF results = <<>> THEN UNCHANGED <<refresh, look, asked, visible, notice, results>>
     ELSE TakeAnswer(results[1].work, results[1]) /\ results' = Tail(results)
  /\ UNCHANGED <<modeVars, chosen, orders, observing, held, keys, changes, breaks>>

\* A frame that cannot be drawn, and input that cannot be read, end the work.
Fails ==
  /\ session = "input"
  /\ BreaksDown /\ broken' = [broken EXCEPT !.work = TRUE] /\ LeaveLoop
  /\ UNCHANGED keys

Takes == session = "input" /\ keys < MaxKeys /\ keys' = keys + 1

\* The deadline of a refresh comes before any key.
Tick ==
  /\ Takes /\ session' = "drain"
  /\ AskFor(asked, refresh)
  /\ UNCHANGED <<modeVars, look, asked, visible, chosen, observing, results, held,
                 changes, breaks>>

\* No key, or the release of one.
Quiet ==
  /\ session = "input" /\ results # <<>> /\ session' = "drain"
  /\ UNCHANGED <<modeVars, viewVars, observerVars, held, keys, changes, breaks>>

Exits == {"ctrl-c", "q"}
ExitKey(key) ==
  /\ Takes /\ (key = "ctrl-c" \/ (key = "q" /\ ~look.searching))
  /\ LeaveLoop /\ UNCHANGED <<broken, breaks>>

\* What every key that does not exit ends with: a refresh for r, and whenever an agent or a
\* conversation is looked at.
Follows(key, request) ==
  /\ session' = "drain"
  /\ IF key = "r" \/ request.conversation # NoChat \/ request.actor # NoOne
     THEN AskFor(request, refresh) ELSE UNCHANGED <<refresh, orders, notice>>
  /\ UNCHANGED <<modeVars, observing, results, held, changes, breaks>>

Letters == {"q", "j", "r", "/", "?", "a"}

\* runtime::search.
SearchKey(key) ==
  /\ Takes /\ look.searching /\ key # "ctrl-c"
  /\ LET query == CASE key = "esc" -> 0
                    [] key = "enter" -> look.query
                    [] key = "backspace" -> IF look.query = 0 THEN 0 ELSE look.query - 1
                    [] key \in Letters /\ look.query < MaxQuery -> look.query + 1
                    [] OTHER -> look.query
     IN look' = Reconciled([look EXCEPT !.query = query,
                                        !.searching = key \notin {"esc", "enter"}], visible)
  /\ UNCHANGED <<asked, visible, chosen>> /\ Follows(key, asked)

HelpKey(key) ==
  /\ Takes /\ ~look.searching /\ look.help /\ key \notin Exits
  /\ look' = [look EXCEPT !.help = FALSE]
  /\ UNCHANGED <<asked, visible, chosen>> /\ Follows(key, asked)

\* runtime::picker and Model::choose_actor: another agent starts from an empty view.
PickerKey(key) ==
  /\ Takes /\ ~look.searching /\ ~look.help /\ look.picker # 0
  /\ key \notin Exits
  /\ LET count == Len(visible.locals)
         moved == Navigated(look.picker, count, IF key = "j" THEN "next" ELSE "previous")
     IN IF key = "enter" /\ look.picker <= count
        THEN /\ chosen' = visible.locals[look.picker]
             /\ asked' = [actor |-> chosen', conversation |-> NoChat, initial |-> NoOne]
             /\ visible' = [visible EXCEPT !.chats = <<>>, !.messages = NoMessages]
             /\ look' = [look EXCEPT !.selected = NoRow, !.intended = NoRow, !.picker = 0,
                                     !.detail = FALSE]
        ELSE /\ look' = [look EXCEPT !.picker =
                           CASE key = "esc" -> 0
                             [] key \in {"j", "up"} -> IF moved = 0 THEN 1 ELSE moved
                             [] OTHER -> look.picker]
             /\ UNCHANGED <<asked, visible, chosen>>
  /\ Follows(key, asked')

Plain == ~look.searching /\ ~look.help /\ look.picker = 0

\* runtime::key_event, the keys of the plain view.
TabKey ==
  /\ Takes /\ Plain
  /\ LET section == 1 + (look.section % Len(Sections))
         fresh == Reconciled([look EXCEPT !.section = section, !.selected = NoRow,
                                          !.intended = NoRow, !.detail = FALSE], visible)
     IN look' = [fresh EXCEPT !.picker =
                   IF Sections[section] = "chats" /\ asked.actor = NoOne THEN 1 ELSE 0]
  /\ asked' = [asked EXCEPT !.conversation = NoChat]
  /\ UNCHANGED <<visible, chosen>> /\ Follows("tab", asked')

MoveKey(key) ==
  /\ Takes /\ Plain /\ key \in {"j", "up"}
  /\ look' = Moved(IF key = "j" THEN "next" ELSE "previous")
  /\ UNCHANGED <<asked, visible, chosen>> /\ Follows(key, asked)

\* Another conversation starts without the messages of the last.
EnterKey ==
  /\ Takes /\ Plain
  /\ look' = [look EXCEPT !.detail = TRUE]
  /\ IF look.selected \in ToSet(Chats)
     THEN /\ asked' = [asked EXCEPT !.conversation = look.selected]
          /\ visible' = [visible EXCEPT !.messages = NoMessages]
     ELSE UNCHANGED <<asked, visible>>
  /\ UNCHANGED chosen /\ Follows("enter", asked')

\* runtime::controls, scrolling left out.
ControlKey(key) ==
  /\ Takes /\ Plain /\ key \in {"esc", "/", "?", "a", "r"}
  /\ IF key = "esc"
     THEN /\ look' = Reconciled([look EXCEPT !.detail = FALSE, !.query = 0], visible)
          /\ asked' = [asked EXCEPT !.conversation = NoChat]
     ELSE /\ look' = CASE key = "/" -> [look EXCEPT !.searching = TRUE]
                       [] key = "?" -> [look EXCEPT !.help = TRUE]
                       [] key = "a" -> [look EXCEPT !.picker = 1]
                       [] OTHER -> look
          /\ UNCHANGED asked
  /\ UNCHANGED <<visible, chosen>> /\ Follows(key, asked')

Press(key) ==
  \/ ExitKey(key) \/ SearchKey(key) \/ HelpKey(key) \/ PickerKey(key) \/ MoveKey(key)
  \/ ControlKey(key)

-----------------------------------------------------------------------------
(* The observer and the store.                                             *)

\* observer::observe, absent, viewing_actor and conversations: what a request shows, or that
\* it is refused.  A store that another program holds refuses every request.
Refused == [ok |-> FALSE, snapshot |-> Blank]
FewRows(rows) == SubSeq(rows, 1, IF Len(rows) < MaxRows THEN Len(rows) ELSE MaxRows)
LocalsIn(store) == FewRows(SelectSeq(Locals, LAMBDA a : a \in store.agents))
ChatsOf(actor, store) ==
  IF actor \in store.agents
  THEN FewRows(SelectSeq(Chats, LAMBDA c : c \in store.chats[actor])) ELSE <<>>
Reads(actor, request) == actor # NoOne /\ request.conversation # NoChat
MessagesOf(actor, request) ==
  IF Reads(actor, request) THEN [of |-> request.conversation, for |-> actor] ELSE NoMessages
ViewingActor(request) == IF request.actor # NoOne THEN request.actor ELSE request.initial
Seen(request) ==
  LET store == ChatStore(held)
      actor == ViewingActor(request)
      chats == ChatsOf(actor, store)
  IN IF ~store.exists
     THEN IF actor # NoOne \/ request.conversation # NoChat THEN Refused
          ELSE [ok |-> TRUE, snapshot |-> Blank]
     ELSE IF \/ actor # NoOne /\ actor \notin store.agents
             \/ Reads(actor, request) /\ request.conversation \notin ToSet(chats)
     THEN Refused
     ELSE [ok |-> TRUE,
           snapshot |-> [actor |-> actor, locals |-> LocalsIn(store), chats |-> chats,
                         messages |-> MessagesOf(actor, request), machines |-> TRUE]]

\* The thread of Worker::with_observer.
TakeWork ==
  /\ session # "over" /\ observing = NoWork /\ orders # <<>>
  /\ observing' = Head(orders) /\ orders' = Tail(orders)
  /\ UNCHANGED <<session, modeVars, viewVars, results, held, keys, changes, breaks>>
ObserveStore ==
  /\ session # "over" /\ observing # NoWork /\ results = <<>>
  /\ \E r \in {Refused, Seen(observing.request)} :
       results' = <<[work |-> observing, ok |-> r.ok, snapshot |-> r.snapshot]>>
  /\ observing' = NoWork
  /\ UNCHANGED <<session, modeVars, viewVars, orders, held, keys, changes, breaks>>

\* Other programs create the store, register and remove agents and leave conversations.
\* Only the observer reads the store, so a change is taken right before it does.
StoreChanges ==
  /\ observing # NoWork /\ changes < MaxChanges /\ changes' = changes + 1
  /\ held' \in {s \in Stores : ChatStore(s).exists} \ {held}
  /\ UNCHANGED <<session, modeVars, viewVars, observerVars, keys, breaks>>

DashboardNext ==
  \/ EnterSession \/ GiveBack \/ BeginLoop \/ Drain \/ Fails \/ Tick \/ Quiet
  \/ TabKey \/ EnterKey \/ \E key \in Keyboard : Press(key)
  \/ TakeWork \/ ObserveStore \/ StoreChanges

DashboardSpec == DashboardInit /\ [][DashboardNext]_dashboardVars

-----------------------------------------------------------------------------
\* Once the dashboard is over, every mode that is still in force on the terminal belongs to
\* a restore that failed and is reported (session, enter).
TerminalGivenBack ==
  session = "over" =>
    \A m \in tty : (IF m \in {"input", "display"} THEN "raw" ELSE m) \in broken.cleanup

\* One answer at most is on its way, and it is the one waited for: the observer is never
\* found busy and no wait is for nothing (Worker::refresh, Refresh::request).
OneAnswerAtATime ==
  LET out == [i \in 1..Len(orders) |-> orders[i].generation]
             \o (IF observing = NoWork THEN <<>> ELSE <<observing.generation>>)
             \o [i \in 1..Len(results) |-> results[i].work.generation]
  IN out = IF refresh.pending = 0 THEN <<>> ELSE <<refresh.pending>>

\* The agent the user chose stays the one that is viewed, conversations and messages are
\* those of that agent and of the conversation under their heading, however late an answer
\* comes (Model::accept, choose_actor, detail_view).
ShownAsChosen ==
  /\ chosen # NoOne => asked.actor = chosen
  /\ visible.chats # <<>> => visible.actor = asked.actor
  /\ visible.messages # NoMessages /\ asked.conversation # NoChat =>
       visible.messages = [of |-> asked.conversation, for |-> asked.actor]

\* The selected row is a row of the list and the one the user meant: answers that drop it
\* select nothing else in its place (Model::reconcile).
SelectedAsMeant ==
  look.selected # NoRow =>
    look.selected = look.intended /\ look.selected \in ToSet(RowsOf(Listed, look.query))

\* What the dashboard shows and leaves behind is right (tui/runtime.rs, tui/model.rs,
\* tui/worker.rs, platform/terminal.rs).
DashboardSound == TerminalGivenBack /\ OneAnswerAtATime /\ ShownAsChosen /\ SelectedAsMeant
=============================================================================

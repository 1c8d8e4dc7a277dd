-------------------------------- MODULE Rooms --------------------------------
(***************************************************************************)
(* Addresses, rooms, profiles and messages of one machine, as its commands *)
(* write them.  A command reads the address book (the pinned peers, then   *)
(* the directory and the rooms in one transaction), resolves what its user *)
(* typed in that book, and commits in a second transaction; other commands *)
(* and the exchange with peers run in between.                             *)
(***************************************************************************)
EXTENDS Naturals, FiniteSets, FiniteSetsExt

CONSTANTS
  RoomCommands,   \* processes, each running one command at a time
  ActorOf,        \* the agent name each of them is bound to
  Origins,        \* machines
  ThisOrigin,     \* this machine
  ShortOf,        \* the first eight characters of each origin
  AgentNames,
  Guests,         \* agents of other machines whose cards are here at first
  RoomNames,
  TypedNames,     \* what a user may type for an agent or a room
  MachineWords,   \* what a user may type for a machine: "local", an alias, an origin
  Labels,         \* what a machine may call itself
  Aliases,        \* aliases a user may pin
  SameWord(_, _), \* the comparison of labels that ignores case
  NoWord,         \* no machine typed
  Topics,         \* topics of rooms and statuses of agents
  NoTopic,
  NoRoom,
  MaxMembers,     \* MAX_MEMBERS in the code
  PageLimit,      \* messages of one page of a thread
  MaxDone,        \* bound: commands that commit
  MaxNews,        \* bound: changes that come from peers or from the user's pins
  MaxStamps       \* bound: display positions of messages

ASSUME RoomsAssumption ==
  /\ ThisOrigin \in Origins /\ Aliases \subseteq MachineWords
  /\ \A c \in RoomCommands : ActorOf[c] \in AgentNames
  /\ \A o \in Origins : ShortOf[o] \notin Origins \cup {NoWord}
  /\ Guests \subseteq [name : AgentNames, origin : Origins]
  /\ \A w \in Labels : SameWord(w, w)
  /\ PageLimit \in Nat \ {0} /\ MaxMembers \in Nat \ {0} /\ MaxStamps \in Nat

AgentIds == [name : AgentNames, origin : Origins]
RoomIds == [room : RoomNames, origin : Origins]
LocalIds == {a \in AgentIds : a.origin = ThisOrigin}
Directs == [pair : {p \in SUBSET AgentIds : Cardinality(p) = 2}]
Typed == [name : TypedNames, machine : MachineWords \cup {NoWord}]
Targets == Typed \cup RoomIds \cup Directs

VARIABLES
  aliases,  \* peers: the origin each alias is pinned to
  labels,   \* machines: the label of each origin that sent its card
  profiles, \* profiles: the card of each known agent
  rooms,    \* rooms: the state of each room, NoRoom for none
  posts,    \* messages of the threads
  command,  \* what each command process is doing
  pager,    \* a reader that walks back through a thread
  spent     \* [done, news]: what the bounds count

roomVars == <<aliases, labels, profiles, rooms, posts, command, pager, spent>>

NoCard == [status |-> NoTopic]
Resting == [pc |-> "idle", op |-> "none", pins |-> <<>>, conv |-> <<>>, named |-> {}, text |-> NoTopic]
NoWalk == [conv |-> <<>>, start |-> {}, seen |-> {}, twice |-> FALSE, before |-> 0]

RoomsInit ==
  /\ aliases = <<>> /\ labels = <<>>
  /\ profiles = [a \in Guests \cup {[name |-> ActorOf[c], origin |-> ThisOrigin] : c \in RoomCommands} |-> NoCard]
  /\ rooms = [r \in RoomIds |-> NoRoom]
  /\ posts = {}
  /\ command = [c \in RoomCommands |-> Resting]
  /\ pager = NoWalk
  /\ spent = [done |-> 0, news |-> 0]

Me(c) == [name |-> ActorOf[c], origin |-> ThisOrigin]
KnownRooms == {r \in RoomIds : rooms[r] # NoRoom}

(***************************************************************************)
(* The address book.                                                       *)
(***************************************************************************)
\* machines_named: local, an alias, a label or an origin; several may match.
MachinesNamed(book, word) ==
  {o \in Origins :
     \/ word = "local" /\ o = ThisOrigin
     \/ word \in DOMAIN book.aliases /\ book.aliases[word] = o
     \/ o \in DOMAIN book.labels /\ SameWord(book.labels[o], word)
     \/ word = o}

AgentsNamed(book, t) ==
  {a \in book.agents : a.name = t.name
                       /\ (t.machine = NoWord \/ a.origin \in MachinesNamed(book, t.machine))}

RoomsNamed(book, t) ==
  {r \in book.rooms : r.room = t.name
                      /\ (t.machine = NoWord \/ r.origin \in MachinesNamed(book, t.machine))}

\* The conversations a typed target can resolve to: none or one. Explicit
\* conversations pass as they are.
Resolves(book, me, t) ==
  LET as == AgentsNamed(book, t)
      rs == RoomsNamed(book, t)
  IN CASE "machine" \notin DOMAIN t -> {t}
       [] Cardinality(as) = 1 /\ Cardinality(rs) # 1 -> {[pair |-> as \cup {me}] : a \in as \ {me}}
       [] Cardinality(as) # 1 /\ Cardinality(rs) = 1 -> rs
       [] OTHER -> {}

\* machine_label and agent_label: what the directory shows for an agent.  A machine with
\* neither an alias nor a card is shown by the first eight characters of its origin.
LabelsOf(book, a) ==
  LET o == a.origin
      pinned == {w \in DOMAIN book.aliases : book.aliases[w] = o}
      shown == IF o = ThisOrigin THEN {"local"}
               ELSE IF pinned # {} THEN pinned
               ELSE IF o \in DOMAIN book.labels THEN {book.labels[o]}
               ELSE {ShortOf[o]}
  IN {[name |-> a.name, machine |-> w] : w \in shown}

Book(pins) == [aliases |-> pins, labels |-> labels, agents |-> DOMAIN profiles, rooms |-> KnownRooms]

(***************************************************************************)
(* The steps of a command: read the pins, read the directory and the rooms,*)
(* commit.                                                                 *)
(***************************************************************************)
Started(c) ==
  /\ command[c].pc = "idle" /\ spent.done < MaxDone
  /\ spent' = [spent EXCEPT !.done = @ + 1]

ReadPins(c) ==
  /\ Started(c)
  /\ command' = [command EXCEPT ![c] = [Resting EXCEPT !.pc = "pins", !.pins = aliases]]
  /\ UNCHANGED <<aliases, labels, profiles, rooms, posts, pager>>

\* The book is read and the addresses are resolved in it: the conversation of
\* the command, and the agents its user named. A text that names none or
\* several ends the command.
ReadBook(c, op, conv, named, text) ==
  /\ command[c].pc = "pins"
  /\ command' = [command EXCEPT ![c] =
       [pc |-> "resolved", op |-> op, pins |-> <<>>, conv |-> conv, named |-> named, text |-> text]]
  /\ UNCHANGED <<aliases, labels, profiles, rooms, posts, pager, spent>>

BookOf(c) == Book(command[c].pins)
Mine == {r \in RoomIds : r.origin = ThisOrigin}
One(as) == Cardinality(as) = 1

ReadForRoom(c) ==
  \E r \in Mine :
    \/ \E named \in {AgentsNamed(BookOf(c), t) : t \in Typed}, op \in {"create", "add", "drop"} :
         One(named) /\ ReadBook(c, op, r, named, NoTopic)
    \/ \E text \in Topics \cup {NoTopic} :
         ReadBook(c, "create", r, {}, text) \/ ReadBook(c, "topic", r, {}, text)
    \/ ReadBook(c, "close", r, {}, NoTopic)

ReadForSend(c) ==
  LET book == BookOf(c)
      mentioned == {as \in {AgentsNamed(book, t) : t \in Typed} : One(as)}
  IN \E conv \in UNION {Resolves(book, Me(c), t) : t \in Targets}, named \in {{}} \cup mentioned :
       ReadBook(c, "send", conv, named, NoTopic)

\* A change of the own profile needs no address.
ReadForProfile(c) ==
  /\ Started(c)
  /\ \E text \in Topics :
       command' = [command EXCEPT ![c] = [Resting EXCEPT !.pc = "resolved", !.op = "profile", !.text = text]]
  /\ UNCHANGED <<aliases, labels, profiles, rooms, posts, pager>>

\* The command gives up: an address it cannot resolve, a refusal of the
\* transaction, or an end of the process.
Refused(c) ==
  /\ command[c].pc # "idle"
  /\ command' = [command EXCEPT ![c] = Resting]
  /\ UNCHANGED <<aliases, labels, profiles, rooms, posts, pager, spent>>

Commits(c, op) == command[c].pc = "resolved" /\ command[c].op = op
Finish(c) ==
  /\ command' = [command EXCEPT ![c] = Resting]
  /\ UNCHANGED <<aliases, labels, pager, spent>>

\* Members::try_from: one to MAX_MEMBERS agents.
Fit(ms) == Cardinality(ms) \in 1..MaxMembers

LocalRoom(c) == command[c].conv
Named(c) == command[c].named

CreateRoom(c) ==
  /\ Commits(c, "create")
  /\ rooms[LocalRoom(c)] = NoRoom
  /\ Fit(Named(c) \cup {Me(c)})
  /\ rooms' = [rooms EXCEPT ![LocalRoom(c)] = [topic |-> command[c].text, members |-> Named(c) \cup {Me(c)}]]
  /\ Finish(c)
  /\ UNCHANGED <<profiles, posts>>

\* edit_room: the state is read again in the transaction that writes it.
EditRoom(c, edited) ==
  LET r == LocalRoom(c)
  IN /\ rooms[r] # NoRoom
     /\ Fit(edited.members)
     /\ rooms' = [rooms EXCEPT ![r] = edited]
     /\ Finish(c)
     /\ UNCHANGED <<profiles, posts>>

ChangeRoom(c) ==
  \/ Commits(c, "add") /\ EditRoom(c, [rooms[LocalRoom(c)] EXCEPT !.members = @ \cup Named(c)])
  \/ Commits(c, "drop") /\ EditRoom(c, [rooms[LocalRoom(c)] EXCEPT !.members = @ \ Named(c)])

SetTopic(c) ==
  /\ Commits(c, "topic")
  /\ EditRoom(c, [rooms[LocalRoom(c)] EXCEPT !.topic = command[c].text])

CloseRoom(c) ==
  /\ Commits(c, "close")
  /\ rooms[LocalRoom(c)] # NoRoom
  /\ rooms' = [rooms EXCEPT ![LocalRoom(c)] = NoRoom]
  /\ Finish(c)
  /\ UNCHANGED <<profiles, posts>>

\* profile: the fields that were given replace those of the card of that
\* moment; the agent must still have one.
EditProfile(c) ==
  /\ Commits(c, "profile")
  /\ Me(c) \in DOMAIN profiles
  /\ profiles' = [profiles EXCEPT ![Me(c)].status = command[c].text]
  /\ Finish(c)
  /\ UNCHANGED <<rooms, posts>>

(***************************************************************************)
(* Messages.                                                               *)
(***************************************************************************)
\* The participants of a conversation as the transaction finds them.
Participants(conv) ==
  IF "pair" \in DOMAIN conv THEN conv.pair
  ELSE IF rooms[conv] = NoRoom THEN {} ELSE rooms[conv].members

\* route: none when the room is gone, or the sender is no member of it or of
\* the pair.
RouteOpen(c, conv) == Participants(conv)
Route(c, conv) == IF Me(c) \in Participants(conv) THEN Participants(conv) ELSE {}

\* notification: the agents mentioned, or everybody else in the conversation.
Recipients(c, found) ==
  IF Named(c) = {} THEN found \ {Me(c)} ELSE Named(c)

Stamps == {p.at : p \in posts}

\* The history part of a post: who takes part when it is committed.
Send(c) ==
  /\ Commits(c, "send")
  /\ LET conv == command[c].conv
         found == Route(c, conv)
         at == Max(Stamps \cup {0}) + 1
     IN /\ found # {} /\ at <= MaxStamps
        /\ Recipients(c, found) \subseteq found \ {Me(c)}
        /\ posts' = posts \cup
             {[at |-> at, conv |-> conv, from |-> Me(c), to |-> Recipients(c, found),
               audience |-> {a.origin : a \in found}, present |-> Participants(conv)]}
  /\ Finish(c)
  /\ UNCHANGED <<profiles, rooms>>

(***************************************************************************)
(* What happens between the two transactions of a command.                 *)
(***************************************************************************)
News ==
  /\ spent.news < MaxNews
  /\ spent' = [spent EXCEPT !.news = @ + 1]
  /\ UNCHANGED <<command, pager>>

PinAlias(word, o) ==
  /\ News
  /\ o # ThisOrigin
  /\ aliases' = [w \in DOMAIN aliases \cup {word} |-> IF w = word THEN o ELSE aliases[w]]
  /\ UNCHANGED <<labels, profiles, rooms, posts>>

SendCard(o, word) ==
  /\ News
  /\ labels' = [p \in DOMAIN labels \cup {o} |-> IF p = o THEN word ELSE labels[p]]
  /\ UNCHANGED <<aliases, profiles, rooms, posts>>

\* A peer's agent appears; any agent, this machine's too, leaves the directory
\* and stays in the rooms it is in.
Appears(a) ==
  /\ News
  /\ a \notin DOMAIN profiles
  /\ profiles' = [b \in DOMAIN profiles \cup {a} |-> IF b = a THEN NoCard ELSE profiles[b]]
  /\ UNCHANGED <<aliases, labels, rooms, posts>>

Leaves(a) ==
  /\ News
  /\ a \in DOMAIN profiles
  /\ profiles' = [b \in DOMAIN profiles \ {a} |-> profiles[b]]
  /\ UNCHANGED <<aliases, labels, rooms, posts>>

RemoteRoom(r, members) ==
  /\ News
  /\ rooms' = [rooms EXCEPT ![r] = IF members = {} THEN NoRoom ELSE [topic |-> NoTopic, members |-> members]]
  /\ UNCHANGED <<aliases, labels, profiles, posts>>

\* A message of a peer takes its place by its clock, anywhere in the thread.
RemotePost(at, conv) ==
  /\ News
  /\ at \notin Stamps
  /\ posts' = posts \cup
       {[at |-> at, conv |-> conv, from |-> "a peer", to |-> {}, audience |-> {}, present |-> {}]}
  /\ UNCHANGED <<aliases, labels, profiles, rooms>>

(***************************************************************************)
(* thread: a page is the newest messages below a message the reader names; *)
(* the reader asks again below the oldest of the page.                     *)
(***************************************************************************)
ThreadOf(conv) == {p.at : p \in {q \in posts : q.conv = conv}}

Below(conv, before) == {n \in ThreadOf(conv) : before = 0 \/ n < before}
Page(conv, before) ==
  {n \in Below(conv, before) : Cardinality({k \in Below(conv, before) : k > n}) < PageLimit}

OpenThread(conv) ==
  /\ pager = NoWalk
  /\ Page(conv, 0) # {}
  /\ pager' = [conv |-> conv, start |-> ThreadOf(conv), seen |-> Page(conv, 0), twice |-> FALSE,
               before |-> Min(Page(conv, 0))]
  /\ UNCHANGED <<aliases, labels, profiles, rooms, posts, command, spent>>

NextPage ==
  /\ pager # NoWalk
  /\ LET page == Page(pager.conv, pager.before)
     IN /\ page # {}
        /\ pager' = [conv |-> pager.conv, start |-> pager.start, seen |-> pager.seen \cup page,
                     twice |-> pager.twice \/ page \cap pager.seen # {}, before |-> Min(page)]
  /\ UNCHANGED <<aliases, labels, profiles, rooms, posts, command, spent>>

CommandStep(c) ==
  \/ ReadPins(c) \/ ReadForRoom(c) \/ ReadForSend(c) \/ ReadForProfile(c) \/ Refused(c)
  \/ CreateRoom(c) \/ ChangeRoom(c) \/ SetTopic(c) \/ CloseRoom(c)
  \/ EditProfile(c) \/ Send(c)

NewsStep ==
  \/ \E w \in Aliases, o \in Origins : PinAlias(w, o)
  \/ \E o \in Origins, w \in Labels : SendCard(o, w)
  \/ \E a \in AgentIds : (a.origin # ThisOrigin /\ Appears(a)) \/ Leaves(a)
  \/ \E r \in RoomIds \ Mine, a \in LocalIds, b \in AgentIds : RemoteRoom(r, {a, b}) \/ RemoteRoom(r, {})
  \/ \E at \in 1..MaxStamps, r \in RoomIds : RemotePost(at, r)

RoomsNext ==
  \/ \E c \in RoomCommands : CommandStep(c)
  \/ NewsStep
  \/ \E r \in RoomIds : OpenThread(r)
  \/ NextPage

RoomsSpec == RoomsInit /\ [][RoomsNext]_roomVars

(***************************************************************************)
(* Properties.                                                             *)
(***************************************************************************)
\* The sender of a message and the agents it notifies take part in the
\* conversation when it is committed, and every machine of a participant gets it.
WellRouted ==
  \A p \in {q \in posts : q.audience # {}} :
    /\ p.from \in p.present /\ p.to \subseteq p.present \ {p.from}
    /\ p.audience = {a.origin : a \in p.present}

\* This machine, and those with a pinned alias or a card.
Introduced == {ThisOrigin} \cup DOMAIN labels \cup {aliases[w] : w \in DOMAIN aliases}

\* What the directory shows for an agent of a machine that is introduced names that
\* agent, whatever machines call themselves and whichever aliases are pinned; it may
\* name others too and is refused then.  The shortened origin shown for any other
\* machine is no address of it: it names nobody, or agents of machines that took it as
\* alias or label.
LabelsNameTheirAgent ==
  \A a \in DOMAIN profiles : \A t \in LabelsOf(Book(aliases), a) :
    /\ a.origin \in Introduced => a \in AgentsNamed(Book(aliases), t)
    /\ a.origin \notin Introduced => \A b \in AgentsNamed(Book(aliases), t) : b.origin \in Introduced

\* A reader that walks back sees no message twice, and misses none that the
\* thread held above its place when it began, whatever arrives meanwhile.
NothingSkipped ==
  ~pager.twice /\ {n \in pager.start : n >= pager.before} \subseteq pager.seen

\* Commands that resolve addresses in one transaction and commit in another
\* notify only who is in the conversation by then, the name shown for an agent of
\* an introduced machine is its own, and threads page without gaps (route, notification,
\* Book::conversation, agent_label, thread).
RoomsSound == WellRouted /\ LabelsNameTheirAgent /\ NothingSkipped
=============================================================================

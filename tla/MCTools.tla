------------------------------- MODULE MCTools -------------------------------
(***************************************************************************)
(* The components on their own, for TLC: a behaviour chooses one of them   *)
(* and only that one moves, so a run visits the sum of their states and    *)
(* not the product.                                                        *)
(***************************************************************************)
EXTENDS Jobs, TLC, Release, Signing, Dashboard, TerminalInput, Frame, Install,
        Login, Children, Answers, Inbox

CONSTANTS
  e1, e2, e3,           \* a tagged build, a rehearsal and a legacy build
  t1, t3,
  d1, d2, d3, b1, b2,   \* calls of two builds
  l1, l2, g1, g2,       \* agents of this machine and conversations
  q1, q2, y1, y2        \* requests for a worker and starts of the chat service

VARIABLE part

\* A build of a version, a rehearsal and a legacy build.
Tagged == [e \in Entries |-> CASE e = e1 -> t1 [] e = e2 -> NoTag [] OTHER -> t3]

\* Agents and conversations of the dashboard, and what its store may hold.
LocalRows == <<l1, l2>>
ChatRows == <<g1, g2>>
Likeness == [r \in {"here", l1, l2, g1, g2} |-> IF r \in {l1, g1} THEN 1 ELSE 0]
StoreOf(s) ==
  CASE s = "absent" -> [exists |-> FALSE, agents |-> {}, chats |-> [a \in {l1, l2} |-> {}]]
    [] s = "full" -> [exists |-> TRUE, agents |-> {l1, l2}, chats |-> [a \in {l1, l2} |-> {g1, g2}]]
    [] OTHER -> [exists |-> TRUE, agents |-> {l2}, chats |-> [a \in {l1, l2} |-> {g2}]]

\* What the keys send to a terminal and to a console, and what is meant by them.
Rec(d, vk, u, ms) == [down |-> d, vk |-> vk, unit |-> u, modifiers |-> ms, repeats |-> 1]
Stroke(vk, u, ms) == <<Rec(TRUE, vk, u, ms), Rec(FALSE, vk, u, ms)>>
On(byteSeq, recordSeq, meant) == [bytes |-> byteSeq, records |-> recordSeq, means |-> meant]
Ones == [i \in 1..(MaxControl + 2) |-> 49]
Board(k) ==
  CASE k = "ctrl-c" -> On(<<3>>, Stroke(67, 3, {"control"}), <<Key(Char(99), {"control"})>>)
    [] k = "esc" -> On(<<27>>, Stroke(27, 27, {}), <<Key("esc", {})>>)
    [] k = "alt-e" -> On(<<27, 195, 169>>, Stroke(0, 233, {"alt"}), <<Key(Char(233), {"alt"})>>)
    [] k = "crab" -> On(<<240, 159, 166, 128>>,
                        <<Rec(TRUE, 18, 0, {"alt"}), Rec(FALSE, 18, 55358, {}),
                          Rec(TRUE, 18, 0, {"alt"}), Rec(FALSE, 18, 56704, {})>>,
                        <<Key(Char(129408), {})>>)
    [] k = "ctrl-up" -> On(<<27, 91, 49, 59, 53, 65>>, Stroke(38, 0, {"control"}),
                           <<Key("up", {"control"})>>)
    [] k = "page-up" -> On(<<27, 91, 53, 126>>, Stroke(33, 0, {}), <<Key("page up", {})>>)
    [] k = "mouse" -> On(<<27, 91, 77, 32, 27, 65>>, <<>>, <<>>)
    [] OTHER -> On(<<27, 91>> \o Ones \o <<65>>, Stroke(16, 0, {"shift"}), <<>>)

\* Two calls of one build and one of another; each build has a format of its own.
BuiltFrom == [c \in Dialers |-> IF c = d3 THEN b2 ELSE b1]
OwnFormat == [b \in Builds |-> b]

\* Sizes on both sides of every limit of the layout, and two that are painted.
PaintedSizes == {<<4, 1>>, <<2, 2>>}
FrameSizes == {0, 1, 31, 32, 33, 75, 76, 77, 111, 112, 512} \X {0, 9, 10, 11, 24, 256}
                \cup PaintedSizes

\* Four events are what codex needs to say something in two turns.
OutputLengths == [t \in AnswerTools |-> IF t = "codex" THEN 4 ELSE 3]

\* Two requests for a worker of the same job.
SameJob(c) == "job"
Rank(k) == CHOOSE i \in 1..4 : <<"good", "large", "unknown", "unlisted">>[i] = k

\* Posts go to every agent; the third is the fallback of the first, a question.
ToEach == [m \in Posts |-> Readers]
ThirdFalls == [q \in Questions |-> 3]

-----------------------------------------------------------------------------
Parts == {"jobs", "release", "signing", "dashboard", "keys", "frame", "install",
          "login", "children", "answers", "inbox"}
partsVars == <<part, vars, releaseVars, signingVars, dashboardVars, inputVars, frameVars,
               installVars, loginVars, childrenVars, answerVars, inboxVars>>

\* What may differ at first does so only in the component that moves; requests are
\* alike and so are services, so one order of what they are is enough.
Unless(p, fixed) == IF part = p THEN TRUE ELSE fixed

ToolsInit ==
  /\ part \in Parts
  /\ Init /\ ReleaseInit /\ InstallInit /\ InboxInit
  /\ Unless("signing", platform = "macos") /\ SigningInit
  /\ Unless("dashboard", held = "absent") /\ DashboardInit
  /\ Unless("keys", console = "unix") /\ InputInit
  /\ Unless("frame", size = <<0, 0>>) /\ FrameInit
  /\ Unless("login", /\ desktop = TRUE /\ startedIn = [s \in Services |-> "Aqua"]
                     /\ socket = "none" /\ handoff = [c \in Callers |-> "good"])
  /\ LoginInit
  /\ Rank(handoff[q1]) <= Rank(handoff[q2])
  /\ startedIn[y1] = "Aqua" \/ startedIn[y2] = "Background"
  /\ Unless("children", kind = "tool" /\ cli = "claude" /\ resumed = "none") /\ ChildrenInit
  /\ Unless("answers", teller = "codex") /\ AnswersInit

Still(p, v) == IF part = p THEN TRUE ELSE UNCHANGED v

ToolsNext ==
  /\ \/ part = "jobs" /\ Next
     \/ part = "release" /\ ReleaseNext
     \/ part = "signing" /\ SigningNext
     \/ part = "dashboard" /\ DashboardNext
     \/ part = "keys" /\ InputNext
     \/ part = "frame" /\ FrameNext
     \/ part = "install" /\ InstallNext
     \/ part = "login" /\ LoginNext
     \/ part = "children" /\ ChildrenNext
     \/ part = "answers" /\ AnswersNext
     \/ part = "inbox" /\ InboxNext
  /\ UNCHANGED part
  /\ Still("jobs", vars) /\ Still("release", releaseVars) /\ Still("signing", signingVars)
  /\ Still("dashboard", dashboardVars) /\ Still("keys", inputVars) /\ Still("frame", frameVars)
  /\ Still("install", installVars) /\ Still("login", loginVars) /\ Still("children", childrenVars)
  /\ Still("answers", answerVars) /\ Still("inbox", inboxVars)

ToolsSpec == ToolsInit /\ [][ToolsNext]_partsVars

-----------------------------------------------------------------------------
\* What stands between the program and those who use it: the dashboard shows the
\* answer to its latest question and gives the terminal back (tui, dashboard), a
\* key that is pressed is understood as that key however its bytes are cut
\* (terminal_input), a frame fits and tears no wide character (frame.rs,
\* geometry.rs), and what an AI client wrote is taken for an answer only when it
\* is one whole answer (provider.rs).
InterfaceSound ==
  /\ part = "dashboard" => DashboardSound
  /\ part = "keys" => InputSound
  /\ part = "frame" => FrameSound
  /\ part = "answers" => AnswersSound
=============================================================================

------------------------------- MODULE Answers -------------------------------
(***************************************************************************)
(* What an AI CLI printed, and the one answer the runner takes from it.    *)
(* The output grows event by event until the CLI ends or is stopped, so    *)
(* every prefix may be all there is.                                       *)
(***************************************************************************)
EXTENDS Naturals, Sequences, SequencesExt

CONSTANTS
  AnswerTools,    \* the CLIs among "claude", "codex" and "opencode"
  AnswerSessions, \* session names; "" and "-odd" are not valid ones
  AnswerTexts,    \* pieces of text, "" for white space
  MaxEvents       \* bound: events of an output, for each tool

VARIABLES
  teller, \* the CLI
  heard   \* its events so far

answerVars == <<teller, heard>>

Incomplete == "incomplete"
ValidSession(s) == s \notin {"", "-odd"}

\* answer: some text and a valid session.
Answer(words, s) ==
  IF words # <<>> /\ ValidSession(s) THEN [text |-> words, session |-> s] ELSE Incomplete

Words1(t) == IF t = "" THEN <<>> ELSE <<t>>

(***************************************************************************)
(* Events: what the parser tells apart. "broken" is a line that is no JSON *)
(* or lacks a field that is needed.                                        *)
(***************************************************************************)
PlainText(types) == {[type |-> t] : t \in types}

EventsOf(tool) ==
  CASE tool = "claude" ->
         [type : {"result"}, failed : BOOLEAN, text : AnswerTexts, session : AnswerSessions]
         \cup PlainText({"other", "broken"})
    [] tool = "codex" ->
         [type : {"thread.started"}, session : AnswerSessions]
         \cup [type : {"agent_message"}, text : AnswerTexts]
         \cup PlainText({"turn.started", "turn.completed", "turn.failed", "error", "other", "broken"})
    [] tool = "opencode" ->
         [type : {"text"}, text : AnswerTexts, session : AnswerSessions]
         \cup [type : {"step_finish"}, stop : BOOLEAN, session : AnswerSessions]
         \cup [type : {"step_start", "error", "other"}, session : AnswerSessions]
         \cup PlainText({"broken"})

(***************************************************************************)
(* The stream of codex and opencode.                                       *)
(***************************************************************************)
NoStream == [session |-> "", answer |-> <<>>, complete |-> FALSE, bad |-> FALSE]

\* Stream::session: every session that is named is the same valid one.
NameSession(s, name) ==
  IF ~ValidSession(name) \/ s.session \notin {"", name} THEN [s EXCEPT !.bad = TRUE]
  ELSE [s EXCEPT !.session = name]

Codex(s, e) ==
  CASE e.type = "thread.started" -> NameSession(s, e.session)
    [] e.type = "turn.started" -> [s EXCEPT !.complete = FALSE, !.answer = <<>>]
    [] e.type = "agent_message" -> [s EXCEPT !.answer = Words1(e.text)]
    [] e.type = "turn.completed" -> [s EXCEPT !.complete = TRUE]
    [] e.type \in {"turn.failed", "error", "broken"} -> [s EXCEPT !.bad = TRUE]
    [] OTHER -> s

Opencode(s, e) ==
  LET n == NameSession(s, e.session)
  IN CASE e.type = "broken" -> [s EXCEPT !.bad = TRUE]
       [] e.type = "step_start" -> [n EXCEPT !.complete = FALSE, !.answer = <<>>]
       [] e.type = "text" -> [n EXCEPT !.answer = @ \o Words1(e.text)]
       [] e.type = "step_finish" -> [n EXCEPT !.complete = e.stop]
       [] e.type = "error" -> [n EXCEPT !.bad = TRUE]
       [] OTHER -> n

\* An event that fails ends the parse.
Took(tool) ==
  FoldLeft(LAMBDA s, e : IF s.bad THEN s ELSE IF tool = "codex" THEN Codex(s, e) ELSE Opencode(s, e),
           NoStream, heard)

StreamAnswer(s) == IF s.bad \/ ~s.complete THEN Incomplete ELSE Answer(s.answer, s.session)

\* claude: one object or an array with exactly one result in it, no error.
ClaudeAnswer ==
  LET results == SelectSeq(heard, LAMBDA e : e.type = "result")
  IN IF \/ \E i \in DOMAIN heard : heard[i].type = "broken"
        \/ Len(results) # 1
     THEN Incomplete
     ELSE IF results[1].failed THEN Incomplete ELSE Answer(Words1(results[1].text), results[1].session)

Parse ==
  CASE teller = "claude" -> ClaudeAnswer
    [] teller = "codex" -> StreamAnswer(Took("codex"))
    [] teller = "opencode" -> StreamAnswer(Took("opencode"))

AnswersInit == teller \in AnswerTools /\ heard = <<>>

Hear(e) ==
  /\ Len(heard) < MaxEvents[teller]
  /\ heard' = Append(heard, e)
  /\ UNCHANGED teller

AnswersNext == \E e \in EventsOf(teller) : Hear(e)

AnswersSpec == AnswersInit /\ [][AnswersNext]_answerVars

(***************************************************************************)
(* The answer, without a parser.                                           *)
(***************************************************************************)
Positions(types) == {i \in DOMAIN heard : heard[i].type \in types}
LastOf(is) == CHOOSE i \in is \cup {0} : \A j \in is : j <= i

NoFailure == Positions({"broken", "error", "turn.failed"}) = {}
SessionsNamed == {heard[i].session : i \in {j \in DOMAIN heard : "session" \in DOMAIN heard[j]}}
BegunAt == LastOf(Positions({"turn.started", "step_start"}))
EndedAt == LastOf(Positions({"turn.completed", "step_finish"}))

\* What the CLI said since its last turn or step began.
Said ==
  LET is == {i \in Positions({"agent_message", "text", "result"}) : i > BegunAt}
      words == SelectSeq([i \in DOMAIN heard |-> IF i \in is THEN heard[i].text ELSE ""], LAMBDA t : t # "")
  IN IF teller = "opencode" THEN words ELSE Words1(IF is = {} THEN "" ELSE heard[LastOf(is)].text)

\* The last turn is over and not cut off.
Over ==
  CASE teller = "claude" ->
         /\ \E i \in DOMAIN heard : Positions({"result"}) = {i} /\ ~heard[i].failed
    [] teller = "codex" -> EndedAt > BegunAt
    [] teller = "opencode" -> EndedAt > BegunAt /\ heard[EndedAt].stop

\* An answer is taken exactly from a complete output without a failure, in one
\* valid session, and is what the CLI said in its last turn: never the text of
\* an earlier turn, never half an answer, never another session's (parse,
\* provider.rs).
AnswersSound ==
  Parse = IF /\ NoFailure /\ Over /\ Said # <<>>
             /\ \E s \in SessionsNamed : SessionsNamed = {s} /\ ValidSession(s)
          THEN [text |-> Said, session |-> CHOOSE s \in SessionsNamed : TRUE]
          ELSE Incomplete
=============================================================================

------------------------------ MODULE Quoting ------------------------------
(***************************************************************************)
(* How paths and arguments are written into the definitions and command    *)
(* lines that other programs read back: a systemd unit, a launchd property *)
(* list, a Windows command line, a PowerShell and a POSIX shell string,    *)
(* and the input of the macOS `security` tool.  The readers are not part   *)
(* of the repository; they follow the published rules of each format.      *)
(* A word is a sequence of characters, each one a string of its own.       *)
(***************************************************************************)
EXTENDS Naturals, Sequences, SequencesExt, FiniteSetsExt

CONSTANTS
    Alphabet,    \* the characters words are made of
    MaxWord,     \* bounds the length of a word
    Quotings      \* the formats that are written

VARIABLES
    word,     \* the word to be written
    written,  \* the text, and the format it is in
    format

quotingVars == <<word, written, format>>

Quote == "\""
Slash == "\\"
Apostrophe == "'"
Typographic == "typographic"   \* any of the four typographic single quotes
Space == " "
Control == "ctl"
-----------------------------------------------------------------------------
(***************************************************************************)
(* Writing.                                                                *)
(***************************************************************************)
\* escape: each character on its own, by a table.
Escape(w, Table(_)) == FlattenSeq([i \in DOMAIN w |-> Table(w[i])])

Xml(c) == CASE c = "&" -> <<"&amp;">> [] c = "<" -> <<"&lt;">> [] c = ">" -> <<"&gt;">>
            [] c = Quote -> <<"&quot;">> [] c = Apostrophe -> <<"&apos;">> [] OTHER -> <<c>>

ExecStart(c) == CASE c = Slash -> <<Slash, Slash>> [] c = Quote -> <<Slash, Quote>>
                  [] c = "%" -> <<"%", "%">> [] c = "$" -> <<"$", "$">> [] OTHER -> <<c>>

\* check: nothing empty where it is required, no control characters.
Checked(w) == w # <<>> /\ Control \notin Range(w)

ExecStartWord(w) ==
    IF w = <<>> \/ Range(w) \cap {Space, Quote, Apostrophe, Slash, ";"} # {}
    THEN <<Quote>> \o Escape(w, ExecStart) \o <<Quote>>
    ELSE Escape(w, ExecStart)

\* A unit takes a program without `$`, whose arguments are written the same way.
Unit(w) == ExecStartWord(<<"a">>) \o <<Space>> \o ExecStartWord(w)

Trailing(w) == Len(w) - Max({0} \cup {i \in DOMAIN w : w[i] # Slash})

\* Mutant: the backslashes before the closing quote are not doubled.
PushWindowsArgumentBare(w) ==
    LET Before(i) == i - 1 - Max({0} \cup {j \in 1..(i - 1) : w[j] # Slash})
        Char(i) == IF w[i] = Quote
                   THEN [k \in 1..(Before(i) + 1) |-> Slash] \o <<Quote>>
                   ELSE <<w[i]>>
        body == FlattenSeq([i \in DOMAIN w |-> Char(i)])
    IN  IF w = <<>> \/ Space \in Range(w) THEN <<Quote>> \o body \o <<Quote>> ELSE body

\* push_windows_argument: the backslashes before a quote are doubled.
PushWindowsArgument(w) ==
    LET Before(i) == i - 1 - Max({0} \cup {j \in 1..(i - 1) : w[j] # Slash})
        Char(i) == IF w[i] = Quote
                   THEN [k \in 1..(Before(i) + 1) |-> Slash] \o <<Quote>>
                   ELSE <<w[i]>>
        body == FlattenSeq([i \in DOMAIN w |-> Char(i)])
    IN  IF w = <<>> \/ Space \in Range(w)
        THEN <<Quote>> \o body \o [k \in 1..Trailing(w) |-> Slash] \o <<Quote>>
        ELSE body

\* windows_task_command: the program between quotes, then its arguments.
TaskCommand(w) == <<Quote, "a", Quote, Space>> \o PushWindowsArgument(w)

\* codex_hook_commands: the program in a POSIX and in a PowerShell string.
PosixQuoted(w) ==
    <<Apostrophe>> \o Escape(w, LAMBDA c : IF c = Apostrophe THEN <<Apostrophe, Quote, Apostrophe, Quote, Apostrophe>>
                                     ELSE <<c>>) \o <<Apostrophe>>
PowerShellQuoted(w) ==
    <<Apostrophe>> \o Escape(w, LAMBDA c : IF c = Apostrophe THEN <<Apostrophe, Apostrophe>> ELSE <<c>>) \o <<Apostrophe>>

\* security_input: every argument between quotes, quotes and backslashes escaped.
SecurityInput(w) ==
    <<Quote>> \o Escape(w, LAMBDA c : IF c \in {Slash, Quote} THEN <<Slash, c>> ELSE <<c>>)
      \o <<Quote>>

\* Which words a format takes, and how it writes them.  The commands of the hooks
\* take whatever the program is called.
Accepts(f, w) ==
    CASE f = "launchd" -> Checked(w)
      [] f \in {"systemd", "security"} -> Control \notin Range(w)
      [] f = "windows" -> Control \notin Range(w) /\ "%" \notin Range(w)
      [] f \in {"posix", "powershell"} -> TRUE

WrittenAs(f, w) ==
    CASE f = "systemd" -> Unit(w)
      [] f = "launchd" -> Escape(w, Xml)
      [] f = "windows" -> TaskCommand(w)
      [] f = "security" -> SecurityInput(w)
      [] f = "posix" -> PosixQuoted(w)
      [] f = "powershell" -> PowerShellQuoted(w)

-----------------------------------------------------------------------------
(***************************************************************************)
(* Reading.  A reader goes through the text once; its state holds the word *)
(* it is in, the words before it and what it has to remember.              *)
(***************************************************************************)
Start == [words |-> <<>>, now |-> <<>>, inWord |-> FALSE, by |-> "", slashes |-> 0,
          held |-> ""]
Add(s, c) == [s EXCEPT !.now = @ \o c, !.inWord = TRUE]
Break(s) == IF s.inWord THEN [s EXCEPT !.words = Append(@, s.now), !.now = <<>>,
                                       !.inWord = FALSE] ELSE s
Through(t, Step(_, _)) == FoldLeft(Step, Start, t)
Words(s) == Break(s).words

\* systemd: quotes, backslash escapes, and doubled `%` and `$`.
SystemdStep(s, c) ==
    IF s.held = Slash THEN Add([s EXCEPT !.held = ""], <<c>>)
    ELSE IF s.held \in {"%", "$"}
    THEN IF c = s.held THEN Add([s EXCEPT !.held = ""], <<c>>)
         ELSE Add([s EXCEPT !.held = ""], <<"expanded">>)
    ELSE IF c \in {Slash, "%", "$"} THEN [s EXCEPT !.held = c, !.inWord = TRUE]
    ELSE IF s.by # "" /\ c = s.by THEN [s EXCEPT !.by = ""]
    ELSE IF s.by = "" /\ c \in {Quote, Apostrophe} THEN [s EXCEPT !.by = c, !.inWord = TRUE]
    ELSE IF s.by = "" /\ c \in {Space, ";"} THEN Break(s)
    ELSE Add(s, <<c>>)

\* Windows: 2n backslashes before a quote are n and toggle, 2n+1 are n and a quote.
Slashes(n) == [k \in 1..n |-> Slash]
WindowsStep(s, c) ==
    IF c = Slash THEN [s EXCEPT !.slashes = @ + 1, !.inWord = TRUE]
    ELSE IF c = Quote
    THEN LET half == Add([s EXCEPT !.slashes = 0], Slashes(s.slashes \div 2))
         IN  IF s.slashes % 2 = 1 THEN Add(half, <<Quote>>)
             ELSE [half EXCEPT !.by = IF @ = "" THEN Quote ELSE ""]
    ELSE LET all == [s EXCEPT !.now = @ \o Slashes(s.slashes), !.slashes = 0]
         IN  IF c = Space /\ s.by = "" THEN Break(all) ELSE Add(all, <<c>>)
WindowsEnd(s) == [s EXCEPT !.now = @ \o Slashes(s.slashes), !.slashes = 0]

\* POSIX: strings between ticks are literal, between quotes too (no specials used).
PosixStep(s, c) ==
    IF s.by # "" THEN (IF c = s.by THEN [s EXCEPT !.by = ""] ELSE Add(s, <<c>>))
    ELSE IF c \in {Quote, Apostrophe} THEN [s EXCEPT !.by = c, !.inWord = TRUE]
    ELSE IF c = Space THEN Break(s) ELSE Add(s, <<c>>)

\* PowerShell: each of the typographic single quotes is as good as a tick; a string
\* ends at the first one, and two of them in a row inside it are the second.
PowerShellStep(s, c) ==
    LET after == [s EXCEPT !.held = ""]
    IN  IF c \in {Apostrophe, Typographic}
        THEN IF s.by = "" THEN [Add(after, IF s.held = "" THEN <<>> ELSE <<c>>) EXCEPT !.by = c]
             ELSE [s EXCEPT !.by = "", !.held = c]
        ELSE IF s.by = "" /\ c = Space THEN Break(after) ELSE Add(after, <<c>>)

\* security: a backslash inside quotes takes the next character as it is.
SecurityStep(s, c) ==
    IF s.held = Slash THEN Add([s EXCEPT !.held = ""], <<c>>)
    ELSE IF c = Slash THEN [s EXCEPT !.held = Slash]
    ELSE IF c = Quote THEN [s EXCEPT !.by = IF @ = "" THEN Quote ELSE "", !.inWord = TRUE]
    ELSE IF s.by = "" /\ c = Space THEN Break(s) ELSE Add(s, <<c>>)

XmlChar(c) == CASE c = "&amp;" -> "&" [] c = "&lt;" -> "<" [] c = "&gt;" -> ">"
                [] c = "&quot;" -> Quote [] c = "&apos;" -> Apostrophe
                [] c \in {"&", "<"} -> "broken" [] OTHER -> c

ReadBack(f, t) ==
    CASE f = "systemd" -> Words(Through(t, SystemdStep))
      [] f = "launchd" -> <<[i \in DOMAIN t |-> XmlChar(t[i])]>>
      [] f = "windows" -> Words(WindowsEnd(Through(t, WindowsStep)))
      [] f = "security" -> Words(Through(t, SecurityStep))
      [] f = "posix" -> Words(Through(t, PosixStep))
      [] f = "powershell" -> Words(Through(t, PowerShellStep))

-----------------------------------------------------------------------------
QuotingInit == word = <<>> /\ written = <<>> /\ format = "none"

\* A word grows by a character, or is written in a format that takes it.
Lengthen(c) ==
    /\ format = "none" /\ Len(word) < MaxWord
    /\ word' = Append(word, c)
    /\ UNCHANGED <<written, format>>

Write(f) ==
    /\ format = "none" /\ Accepts(f, word)
    /\ format' = f
    /\ written' = WrittenAs(f, word)
    /\ UNCHANGED word

QuotingNext == (\E c \in Alphabet : Lengthen(c)) \/ (\E f \in Quotings : Write(f))

QuotingSpec == QuotingInit /\ [][QuotingNext]_quotingVars

-----------------------------------------------------------------------------
\* The hook commands double the tick in a PowerShell string and no other quote.
Undoubled == format = "powershell" /\ Typographic \in Range(word)

\* The program that reads the definition or the command line gets the path or the
\* argument back, as one word, or the writer refused it; only a typographic quote in a
\* PowerShell string, which codex_hook_commands does not double, is not covered.
ReadsBack ==
    format \in Quotings /\ ~Undoubled =>
        ReadBack(format, written) =
            (IF format \in {"systemd", "windows"} THEN <<<<"a">>, word>> ELSE <<word>>)
=============================================================================

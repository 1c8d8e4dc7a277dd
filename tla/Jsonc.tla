------------------------------- MODULE Jsonc -------------------------------
(***************************************************************************)
(* The editor of JSON documents with comments (jsonc.rs), with which setup *)
(* registers the MCP server in the user's own configuration.  A text is a  *)
(* sequence of tokens: punctuation, strings, scalars, blanks, line breaks  *)
(* and comments.  The editor finds byte ranges and splices them; here they *)
(* are ranges of tokens.  A line comment is one token that lasts to the    *)
(* next line break, so a token put behind it on its line would be lost.    *)
(***************************************************************************)
EXTENDS Naturals, Sequences, SequencesExt, FiniteSetsExt

CONSTANTS
    Path,       \* the keys that lead to the member, outermost first
    OtherKey,    \* a key of somebody else
    Values,     \* the values the member is given
    MaxSplices  \* bounds the edits of one document

VARIABLES
    text,     \* the document
    tree,     \* what it says: its members in order
    remarks,  \* its comments, in order
    splices

jsoncVars == <<text, tree, remarks, splices>>

LineBreaks == {"break"}
Blanks == {"blank"}
Remarks == {"//", "/*"}
Trivia == LineBreaks \cup Blanks \cup Remarks
Keys == Range(Path) \cup {OtherKey}

\* The token at a position, and one that no text holds behind its end.
At(t, i) == IF i \in DOMAIN t THEN t[i] ELSE "end"

-----------------------------------------------------------------------------
(***************************************************************************)
(* Scanning.                                                               *)
(***************************************************************************)
SkipTrivia(t, i) == Min({j \in i..(Len(t) + 1) : At(t, j) \notin Trivia})

BlankEnd(t, i) == Min({j \in i..(Len(t) + 1) : At(t, j) \notin Blanks})

Depth(t, i, j) ==
    Quantify(i..j, LAMBDA k : At(t, k) = "{") - Quantify(i..j, LAMBDA k : At(t, k) = "}")

ContainerEnd(t, i) == 1 + Min({j \in i..Len(t) : At(t, j) = "}" /\ Depth(t, i, j) = 0})

ValueEnd(t, i) == IF At(t, i) = "{" THEN ContainerEnd(t, i) ELSE i + 1

\* The members of the object that opens at a position, and where it closes.
ParseObject(t, open, key) ==
    LET MemberAt(i) ==
            LET value == SkipTrivia(t, SkipTrivia(t, i + 1) + 1)
                ends == ValueEnd(t, value)
                after == SkipTrivia(t, ends)
            IN  [start |-> i, value |-> value, end |-> ends,
                 comma |-> IF At(t, after) = "," THEN after ELSE 0,
                 wanted |-> At(t, i) = key, after |-> after]
        From[i \in 1..(Len(t) + 1)] ==
            IF At(t, i) \in Keys
            THEN LET Before(m, rest) == [members |-> <<m>> \o rest.members, close |-> rest.close]
                     Follow(m) ==
                       Before(m, From[IF m.comma = 0 THEN m.after ELSE SkipTrivia(t, m.comma + 1)])
                 IN  Follow(MemberAt(i))
            ELSE [members |-> <<>>, close |-> i]
        read == From[SkipTrivia(t, open + 1)]
    IN  [open |-> open, close |-> read.close, members |-> read.members]

Nothing == [members |-> <<>>, open |-> 0, close |-> 0]
NoMember == [start |-> 0, value |-> 0, end |-> 0, comma |-> 0, wanted |-> FALSE, after |-> 0]
Target(kind, object, depth, previous, member) ==
    [kind |-> kind, object |-> object, depth |-> depth,
     previous |-> previous, member |-> member]

\* walk: down the path to the member, or to where it is missing.
Walk(t, path) ==
    LET Down[depth \in 1..Len(path), open \in 1..(Len(t) + 1)] ==
            IF At(t, open) # "{"
            THEN Target("not object", Nothing, depth, NoMember, NoMember)
            ELSE LET Member(object, i) ==
                       IF depth < Len(path)
                       THEN Down[depth + 1, object.members[i].value]
                       ELSE Target("found", object, depth,
                                   IF i = 1 THEN NoMember ELSE object.members[i - 1],
                                   object.members[i])
                     Among(object, found) ==
                       IF found = {}
                       THEN Target("missing", object, depth, NoMember, NoMember)
                       ELSE IF Cardinality(found) > 1
                       THEN Target("duplicate", Nothing, depth, NoMember, NoMember)
                       ELSE Member(object, CHOOSE k \in found : TRUE)
                     Enter(object) ==
                       Among(object, {i \in DOMAIN object.members : object.members[i].wanted})
                 IN  Enter(ParseObject(t, open, path[depth]))
    IN  IF SkipTrivia(t, 1) > Len(t)
        THEN Target("empty", Nothing, 1, NoMember, NoMember)
        ELSE Down[1, SkipTrivia(t, 1)]

-----------------------------------------------------------------------------
(***************************************************************************)
(* Editing: a list of ranges, in order, each with its replacement.         *)
(***************************************************************************)
Edit(from, to, by) == [from |-> from, to |-> to, by |-> by]

Splice(t, edits) ==
    LET done == FoldLeft(LAMBDA acc, e :
                    [text |-> acc.text \o SubSeq(t, acc.cursor, e.from - 1) \o e.by,
                     cursor |-> e.to],
                    [text |-> <<>>, cursor |-> 1], edits)
    IN  done.text \o SubSeq(t, done.cursor, Len(t))

\* The blanks at the start of the line of a position, when the line starts with them.
LineIndent(t, i) ==
    LET line == 1 + Max({0} \cup {j \in 1..(i - 1) : t[j] = "break"})
    IN  SubSeq(t, line, BlankEnd(t, line) - 1)

Nest(keys, value, indent, step, newline) ==
    IF keys = <<>>
    THEN <<value>>
    ELSE <<"{">> \o newline \o indent \o step
           \o <<keys[1], ":", "blank", value>> \o newline \o indent \o <<"}">>

\* insert: behind the last token before the closing brace that is not blank.
Insert(t, object, key, rest, value) ==
    LET anchor == 1 + Max({object.open} \cup
                          {j \in object.open..(object.close - 1) :
                             t[j] \notin Blanks \cup LineBreaks})
        broken == \E j \in anchor..(object.close - 1) : t[j] = "break"
        hasLast == object.members # <<>>
        last == object.members[Len(object.members)]
        inline == hasLast /\ ~broken
        newline == IF inline THEN <<>> ELSE <<"break">>
        step == IF inline THEN <<>> ELSE <<"blank">>
        indent == IF inline THEN <<>> ELSE LineIndent(t, object.open)
        inner == indent \o step
        member == <<key, ":", "blank">> \o Nest(rest, value, inner, step, newline)
                    \o (IF hasLast /\ last.comma # 0 THEN <<",">> ELSE <<>>)
        comma == IF hasLast /\ last.comma = 0
                 THEN <<Edit(last.end, last.end, <<",">>)>> ELSE <<>>
    IN  Splice(t, Append(comma,
            IF inline THEN Edit(anchor, anchor, <<"blank">> \o member)
            ELSE IF broken THEN Edit(anchor, anchor, newline \o inner \o member)
            ELSE Edit(anchor, object.close,
                      newline \o inner \o member \o newline \o indent)))

\* set_member; a document that holds nothing gets its root first.
SetIn(t, value) ==
    LET PutAt(target) ==
          CASE target.kind = "found" ->
                 Splice(t, <<Edit(target.member.value, target.member.end, <<value>>)>>)
            [] target.kind = "missing" ->
                 Insert(t, target.object, Path[target.depth],
                        SubSeq(Path, target.depth + 1, Len(Path)), value)
            [] OTHER -> t
    IN  PutAt(Walk(t, Path))

TrimEnd(t) == SubSeq(t, 1, Max({0} \cup {j \in DOMAIN t : t[j] \notin Blanks \cup LineBreaks}))

SetMemberText(t, value) ==
    IF Walk(t, Path).kind = "empty"
    THEN LET top == TrimEnd(t)
         IN  SetIn(IF top = <<>> THEN <<"{", "}", "break">>
                   ELSE top \o <<"break", "{", "}", "break">>, value)
    ELSE SetIn(t, value)

\* whole_lines: the lines of a range that nothing else stands on.
WholeLines(t, start, end) ==
    LET line == 1 + Max({0} \cup {j \in 1..(start - 1) : t[j] = "break"})
        blank == BlankEnd(t, end)
        after == IF At(t, blank) = "//" THEN blank + 1 ELSE blank
    IN  IF (\A j \in line..(start - 1) : t[j] \in Blanks) /\ At(t, after) = "break"
        THEN <<line, after + 1>>
        ELSE <<>>

\* remove_member and removal: the member, its comma or the one before it.
RemoveMemberText(t) ==
    LET Cut(member, own, dangling, lines) ==
          Splice(t,
            IF lines # <<>>
            THEN (IF dangling # 0 THEN <<Edit(dangling, dangling + 1, <<>>)>> ELSE <<>>)
                   \o <<Edit(lines[1], lines[2], <<>>)>>
            ELSE IF dangling # 0
            THEN <<Edit(dangling, member.end, <<>>)>>
            ELSE <<Edit(member.start, BlankEnd(t, own), <<>>)>>)
        Own(member) == IF member.comma = 0 THEN member.end ELSE member.comma + 1
        CutAt(target) ==
          IF target.kind # "found" THEN t
          ELSE Cut(target.member, Own(target.member),
                   IF target.member.comma = 0 THEN target.previous.comma ELSE 0,
                   WholeLines(t, target.member.start, Own(target.member)))
    IN  CutAt(Walk(t, Path))

-----------------------------------------------------------------------------
(***************************************************************************)
(* What a text says, independently of the editor: its tokens without       *)
(* trivia and without a comma before a closing brace (strip), which are to *)
(* be those of the tree.                                                   *)
(***************************************************************************)
Strip(t) ==
    LET bare == SelectSeq(t, LAMBDA x : x \notin Trivia)
        dropped == {i \in DOMAIN bare : bare[i] = "," /\ At(bare, i + 1) = "}"
                                          /\ At(bare, i - 1) \notin {"{", ",", ":", "end"}}
    IN  FoldLeftDomain(LAMBDA acc, i : IF i \in dropped THEN acc ELSE Append(acc, bare[i]),
                       <<>>, bare)

\* A member of a tree: a scalar, or an object of scalars.
Leafed(key, value) == [key |-> key, leaf |-> value, inner |-> <<>>]
Branch(key, inner) == [key |-> key, leaf |-> "object", inner |-> inner]

Joined(parts) ==
    FoldLeft(LAMBDA acc, p : IF acc = <<>> THEN p ELSE acc \o <<",">> \o p, <<>>, parts)
Canon(members) ==
    LET Inner(m) == [i \in DOMAIN m |-> <<m[i].key, ":", m[i].leaf>>]
        Outer == [i \in DOMAIN members |->
                    <<members[i].key, ":">> \o
                      (IF members[i].leaf = "object"
                       THEN <<"{">> \o Joined(Inner(members[i].inner)) \o <<"}">>
                       ELSE <<members[i].leaf>>)]
    IN  <<"{">> \o Joined(Outer) \o <<"}">>

HasKey(members, key) == \E i \in DOMAIN members : members[i].key = key
Replaced(members, m) ==
    IF HasKey(members, m.key)
    THEN [i \in DOMAIN members |-> IF members[i].key = m.key THEN m ELSE members[i]]
    ELSE Append(members, m)
Under(members, key) ==
    IF HasKey(members, key)
    THEN members[CHOOSE i \in DOMAIN members : members[i].key = key].inner
    ELSE <<>>
Editable(members) ==
    \A i \in DOMAIN members : members[i].key = Path[1] => members[i].leaf = "object"
SetTree(members, value) ==
    Replaced(members, Branch(Path[1], Replaced(Under(members, Path[1]),
                                               Leafed(Path[2], value))))
RemoveTree(members) ==
    [i \in DOMAIN members |->
       IF members[i].key = Path[1]
       THEN [members[i] EXCEPT !.inner = SelectSeq(@, LAMBDA m : m.key # Path[2])]
       ELSE members[i]]

-----------------------------------------------------------------------------
(***************************************************************************)
(* Documents as people write them: one line or one member per line, with   *)
(* or without a last comma, and a comment at any place of an object.       *)
(***************************************************************************)
Inners == {<<>>, <<Leafed(OtherKey, "old")>>, <<Leafed(Path[2], "old")>>,
           <<Leafed(Path[2], "old"), Leafed(OtherKey, "old")>>,
           <<Leafed(OtherKey, "old"), Leafed(Path[2], "old")>>}
Trees == {<<>>, <<Leafed(OtherKey, "old")>>, <<Leafed(Path[1], "old")>>}
         \cup {<<Branch(Path[1], inner)>> : inner \in Inners}
         \cup {<<Leafed(OtherKey, "old"), Branch(Path[1], inner)>> : inner \in Inners}
         \cup {<<Branch(Path[1], inner), Leafed(OtherKey, "old")>> : inner \in Inners}

Styles == [lines : BOOLEAN, last : BOOLEAN, place : {"none", "open", "value", "close"},
           mark : Remarks]

Object(parts, style, indent) ==
    LET Mark(place) == IF style.place # place THEN <<>>
                       ELSE <<"blank", style.mark>> \o
                            (IF style.mark = "//" THEN <<"break">> ELSE <<>>)
        Fresh == IF style.lines THEN <<"break">> \o indent \o <<"blank">> ELSE <<>>
        Part(i) == Fresh \o parts[i]
                     \o (IF i = Len(parts) THEN Mark("value") ELSE <<>>)
                     \o (IF i < Len(parts) \/ style.last THEN <<",">> ELSE <<>>)
    IN  <<"{">> \o Mark("open") \o FlattenSeq([i \in DOMAIN parts |-> Part(i)])
          \o Mark("close") \o (IF style.lines THEN <<"break">> \o indent ELSE <<>>) \o <<"}">>

Written(members, style) ==
    LET Leaf(m) == <<m.key, ":", m.leaf>>
        Part(m) == IF m.leaf # "object" THEN Leaf(m)
                   ELSE <<m.key, ":">> \o
                          Object([i \in DOMAIN m.inner |-> Leaf(m.inner[i])], style, <<"blank">>)
    IN  Object([i \in DOMAIN members |-> Part(members[i])], style, <<>>)

Comments(t) == SelectSeq(t, LAMBDA x : x \in Remarks)

JsoncInit ==
    /\ \/ \E members \in Trees, style \in Styles :
             tree = members /\ text = Written(members, style)
       \/ tree = <<>> /\ text \in {<<>>, <<"break">>, <<"//", "break">>, <<"//">>, <<"/*", "blank">>}
    /\ remarks = Comments(text)
    /\ splices = 0

SetStep(value) ==
    /\ splices < MaxSplices
    /\ splices' = splices + 1
    /\ text' = SetMemberText(text, value)
    /\ tree' = IF Editable(tree) THEN SetTree(tree, value) ELSE tree
    /\ UNCHANGED remarks

RemoveStep ==
    /\ splices < MaxSplices
    /\ splices' = splices + 1
    /\ text' = RemoveMemberText(text)
    /\ tree' = IF Editable(tree) THEN RemoveTree(tree) ELSE tree
    /\ remarks' = Comments(text')

JsoncNext == (\E value \in Values : SetStep(value)) \/ RemoveStep

JsoncSpec == JsoncInit /\ [][JsoncNext]_jsoncVars

-----------------------------------------------------------------------------
\* Every edit leaves a document that says what the old one said and, of the member
\* on the path, what it was set to: nobody else's member is lost, doubled or moved.
SaysTheTree == text = <<>> \/ SkipTrivia(text, 1) > Len(text) \/ Strip(text) = Canon(tree)

\* Nothing stands behind a line comment on its line, where it would be part of it.
LinesEnd == \A i \in DOMAIN text : text[i] = "//" => At(text, i + 1) \in {"break", "end"}

\* Setting the member keeps every comment of the user.
RemarksKept == Comments(text) = remarks

\* A member that has the value already leaves the text untouched to the last token:
\* doctor takes the registration for current exactly when the edit changes nothing.
SetIsSettled ==
    \A value \in Values :
        Editable(tree) =>
            ((SetMemberText(text, value) = text) <=>
                (HasKey(tree, Path[1]) /\ HasKey(Under(tree, Path[1]), Path[2])
                   /\ SetTree(tree, value) = tree))

\* An edit of the user's file says what it was told to say and leaves the rest of the
\* file to its user (jsonc.rs).
JsoncSound == SaysTheTree /\ LinesEnd /\ RemarksKept /\ SetIsSettled
=============================================================================

-------------------------------- MODULE Frame --------------------------------
(***************************************************************************)
(* What the dashboard paints: the areas of a frame (core                   *)
(* dashboard/geometry.rs, tui/render.rs), the cells that glyphs of one and *)
(* of two columns leave in it (tui/frame.rs) and the rows that reach the   *)
(* terminal (tui/output.rs).                                               *)
(***************************************************************************)
EXTENDS Integers, Sequences, FiniteSets

CONSTANTS
  Sizes,          \* widths and heights the terminal may have
  Painted,        \* those that cells are painted in
  MaxItems,       \* bound on the items of a list
  MaxFrames       \* bound on frames

VARIABLES
  size,           \* width and height of the terminal
  cells,          \* the frame that is drawn into
  previous,       \* the frame the renderer painted last, none at first
  screen,         \* what the terminal shows
  frames

frameVars == <<size, cells, previous, screen, frames>>

Unpainted == <<>>
Less(a, b) == IF a < b THEN 0 ELSE a - b        \* saturating_sub
Least(a, b) == IF a < b THEN a ELSE b

-----------------------------------------------------------------------------
(* Areas.                                                                  *)

Area(x, y, w, h) == [x |-> x, y |-> y, w |-> w, h |-> h]
Whole(s) == Area(0, 0, s[1], s[2])

\* Rect::columns and Rect::rows: the first part and the rest.
FirstColumns(a, n) == [a EXCEPT !.w = Least(n, a.w)]
OtherColumns(a, n) == Area(a.x + Least(n, a.w), a.y, a.w - Least(n, a.w), a.h)
FirstRows(a, n) == [a EXCEPT !.h = Least(n, a.h)]
OtherRows(a, n) == Area(a.x, a.y + Least(n, a.h), a.w, a.h - Least(n, a.h))

\* Rect::inset: what the border of a panel leaves.
Inset(a) == Area(IF a.w = 0 THEN a.x ELSE a.x + 1, IF a.h = 0 THEN a.y ELSE a.y + 1,
                 Less(a.w, 2), Less(a.h, 2))

Share(total, percent) == (total * percent) \div 100

\* Rect::centered: the area of help and of the choice of an agent.
Centered(a, w, h) ==
  Area(a.x + ((a.w - Share(a.w, w)) \div 2), a.y + ((a.h - Share(a.h, h)) \div 2),
       Share(a.w, w), Share(a.h, h))

\* dashboard::viewport.
Viewport(s) ==
  IF s[1] < 32 \/ s[2] < 10 THEN "minimal"
  ELSE IF s[1] < 76 THEN "compact" ELSE IF s[1] < 112 THEN "split" ELSE "sidebar"

\* render::draw: header, body and footer.
Header(s) == FirstRows(Whole(s), 3)
Body(s) == LET rest == OtherRows(Whole(s), 3) IN FirstRows(rest, Less(rest.h, 2))
Footer(s) == LET rest == OtherRows(Whole(s), 3) IN OtherRows(rest, Less(rest.h, 2))

\* render::body_view: a sidebar or tabs, and beside them a list and a detail, or one of them.
Navigation(s) ==
  IF Viewport(s) = "sidebar" THEN FirstColumns(Body(s), 16) ELSE FirstRows(Body(s), 1)
Content(s) ==
  IF Viewport(s) = "sidebar" THEN OtherColumns(Body(s), 16) ELSE OtherRows(Body(s), 1)
ListArea(s) ==
  IF Viewport(s) = "compact" THEN Content(s)
  ELSE FirstColumns(Content(s), Share(Content(s).w, 38))
DetailArea(s) ==
  IF Viewport(s) = "compact" THEN OtherColumns(Content(s), Content(s).w)
  ELSE OtherColumns(Content(s), Share(Content(s).w, 38))
Modal(s) == Centered(Whole(s), 90, 80)

Layout(s) == {Header(s), Footer(s), Navigation(s), ListArea(s), DetailArea(s)}

\* Grid::list: how many items of so many rows are left out above the selected one.
Skipped(rows, selected, height) ==
  LET above[start \in 0..selected] ==
        IF (selected + 1 - start) * rows > height /\ start < selected THEN above[start + 1]
        ELSE start
  IN above[0]

-----------------------------------------------------------------------------
(* Cells: blank, a glyph of one column, a glyph of two and its other half. *)

BlankRow(w) == [x \in 1..w |-> "blank"]
Junk(w) == [x \in 1..w |-> "junk"]
BlankGrid(s) == [y \in 1..s[2] |-> BlankRow(s[1])]

\* Grid::erase: half a glyph never stays.
Erase(row, x) ==
  [i \in DOMAIN row |->
     IF \/ i = x
        \/ i = x - 1 /\ row[x] = "rest"
        \/ i = x + 1 /\ row[i] = "rest"
     THEN "blank" ELSE row[i]]

\* Grid::put: a glyph that does not fit is refused, and erases what it covers.
Fits(g, x, y, columns) == y <= Len(g) /\ x + columns - 1 <= Len(g[y])
PutGlyph(g, x, y, columns) ==
  IF ~Fits(g, x, y, columns) THEN g
  ELSE LET clean == IF columns = 2 THEN Erase(Erase(g[y], x), x + 1) ELSE Erase(g[y], x)
       IN [g EXCEPT ![y] = IF columns = 2
                           THEN [clean EXCEPT ![x] = "wide", ![x + 1] = "rest"]
                           ELSE [clean EXCEPT ![x] = "narrow"]]

\* Grid::paragraph on one line: glyph after glyph, folded into the rows below or cut off.
Flowed(g, a, glyphs, wrap) ==
  LET next(p, n) ==
        LET over == p.x + n > a.x + a.w
            x == IF over THEN a.x ELSE p.x
            row == IF over THEN p.row + 1 ELSE p.row
        IN IF p.done \/ (over /\ ~wrap) \/ row >= a.h THEN [p EXCEPT !.done = TRUE]
           ELSE [x |-> x + n, row |-> row, done |-> FALSE,
                 g |-> PutGlyph(p.g, x + 1, a.y + row + 1, n)]
      after[i \in 0..Len(glyphs)] ==
        IF i = 0 THEN [x |-> a.x, row |-> 0, done |-> FALSE, g |-> g]
        ELSE next(after[i - 1], glyphs[i])
  IN IF a.w = 0 \/ a.h = 0 THEN g ELSE after[Len(glyphs)].g

\* Grid::fill: spaces, that erase the other half of a glyph at either edge.
Filled(g, a) ==
  [y \in DOMAIN g |->
     IF y - 1 \notin a.y..(a.y + a.h - 1) \/ a.w = 0 THEN g[y]
     ELSE [x \in DOMAIN g[y] |->
             IF \/ x - 1 \in a.x..(a.x + a.w - 1)
                \/ x = a.x /\ g[y][x] = "wide"
                \/ x = a.x + a.w + 1 /\ g[y][x] = "rest"
             THEN "blank" ELSE g[y][x]]]

-----------------------------------------------------------------------------
FrameInit ==
  /\ size \in Sizes /\ cells = Unpainted /\ previous = Unpainted
  /\ screen = [y \in 1..(IF size \in Painted THEN size[2] ELSE 0) |-> Junk(size[1])]
  /\ frames = 0

\* runtime::run: each frame starts blank, in the size the terminal has by then.  A terminal
\* that changed its size shows anything.
NewFrame(s) ==
  /\ size \in Painted /\ cells = Unpainted /\ frames < MaxFrames /\ frames' = frames + 1
  /\ size' = s /\ cells' = BlankGrid(s)
  /\ screen' = IF s = size THEN screen ELSE [y \in 1..s[2] |-> Junk(s[1])]
  /\ UNCHANGED previous

Drawing(g) == cells # Unpainted /\ cells' = g /\ UNCHANGED <<size, previous, screen, frames>>

\* Glyphs, text and backgrounds, anywhere in the frame.
Columns == {1, 2}
PutAny == \E x \in 1..size[1], y \in 1..size[2], columns \in Columns :
  Drawing(PutGlyph(cells, x, y, columns))
FlowAny == \E wrap \in BOOLEAN, from \in 0..1 :
  Drawing(Flowed(cells, Area(from, 0, size[1] - from, size[2]), <<1, 2, 2>>, wrap))
FillAny == \E x \in 0..(size[1] - 1), w \in 1..2 :
  Drawing(Filled(cells, Area(x, 0, w, 1)))

\* terminal::paint_row: the other half of a glyph is not written; the terminal lays out the
\* glyphs one after the other.
Laid(row) ==
  LET out[i \in 0..Len(row)] ==
        IF i = 0 THEN <<>>
        ELSE out[i - 1] \o (CASE row[i] = "rest" -> <<>> [] row[i] = "wide" -> <<"wide", "rest">>
                             [] OTHER -> <<row[i]>>)
  IN out[Len(row)]
Overlay(old, row) == [x \in DOMAIN old |-> IF x <= Len(Laid(row)) THEN Laid(row)[x] ELSE old[x]]

\* output::Renderer::draw with paint_plan: all of a frame of another size, the rows that
\* changed of any other.
Resized ==
  previous = Unpainted \/ Len(previous) # Len(cells) \/ Len(previous[1]) # Len(cells[1])
PresentFrame ==
  /\ cells # Unpainted
  /\ screen' = [y \in DOMAIN cells |->
                  IF Resized THEN Overlay(BlankRow(Len(cells[y])), cells[y])
                  ELSE IF previous[y] = cells[y] THEN screen[y]
                  ELSE Overlay(screen[y], cells[y])]
  /\ previous' = cells /\ cells' = Unpainted
  /\ UNCHANGED <<size, frames>>

FrameNext ==
  \/ \E s \in Painted : NewFrame(s)
  \/ PutAny \/ FlowAny \/ FillAny \/ PresentFrame

FrameSpec == FrameInit /\ [][FrameNext]_frameVars

-----------------------------------------------------------------------------
Inside(a, b) == a.x >= b.x /\ a.y >= b.y /\ a.x + a.w <= b.x + b.w /\ a.y + a.h <= b.y + b.h
Apart(a, b) == a.x + a.w <= b.x \/ b.x + b.w <= a.x \/ a.y + a.h <= b.y \/ b.y + b.h <= a.y

\* Whatever the size of the terminal, the areas of a frame are inside it, do not overlap and
\* leave nothing out, and what is inside a border is inside its panel (render::draw,
\* body_view, geometry).
LayoutFits ==
  Viewport(size) # "minimal" =>
    LET area(a) == a.w * a.h
    IN /\ \A a \in Layout(size) : Inside(a, Whole(size)) /\ Inside(Inset(a), a)
       /\ Inside(Modal(size), Whole(size)) /\ Inside(Inset(Modal(size)), Modal(size))
       /\ \A a, b \in Layout(size) : a # b => Apart(a, b)
       /\ area(Header(size)) + area(Footer(size)) + area(Navigation(size))
            + area(ListArea(size)) + area(DetailArea(size)) = size[1] * size[2]

\* The selected item of a list is in sight, however many items there are (Grid::list).
SelectedInSight ==
  Viewport(size) # "minimal" =>
    LET height == Inset(ListArea(size)).h
    IN \A selected \in 0..(MaxItems - 1) :
         height >= 2 => (selected + 1 - Skipped(2, selected, height)) * 2 <= height

GlyphsWhole(row) ==
  \A x \in DOMAIN row :
    /\ row[x] = "wide" => x + 1 \in DOMAIN row /\ row[x + 1] = "rest"
    /\ row[x] = "rest" => x - 1 \in DOMAIN row /\ row[x - 1] = "wide"

\* A glyph of two columns is never cut in half, neither in the frame nor on the terminal,
\* and the terminal shows the last frame although only changed rows reach it (Grid::put,
\* Grid::erase, Renderer::draw).
ShownAsDrawn ==
  /\ \A y \in DOMAIN cells : GlyphsWhole(cells[y])
  /\ cells = Unpainted /\ previous # Unpainted => screen = previous

\* What is painted has its place, whole, and is what the terminal shows (tui/frame.rs,
\* tui/render.rs, tui/output.rs).
FrameSound == LayoutFits /\ SelectedInSight /\ ShownAsDrawn
=============================================================================

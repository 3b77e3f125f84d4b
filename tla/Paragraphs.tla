----------------------------- MODULE Paragraphs -----------------------------
(***************************************************************************)
(* Paragraphs of one style (creator/paragraph.go, "plain") and of chunks   *)
(* in several (styled_paragraph.go, text_chunk.go), which may be links;    *)
(* and divisions (division.go) that put them below or beside each other.   *)
(* A client changes the paragraphs of a division and draws the division,   *)
(* paragraph by paragraph, or one of them alone.                           *)
(*                                                                         *)
(* A text is a sequence of runes; Glyphs has those the font has, with      *)
(* their widths; "s" is a space, "n" ends a line.  Lengths are multiples   *)
(* of 12, so that halves and thirds are whole; y is measured downwards.    *)
(* Colours, rendering modes and rotation are left out, and so are the      *)
(* names of fonts.                                                         *)
(***************************************************************************)
EXTENDS Integers, Sequences
LOCAL INSTANCE SequencesExt

CONSTANTS
  Glyphs,          \* rune -> width, for a font of size 1
  Divisions,       \* [inline, parts]: what a client has
  Chunks,          \* what Append and Insert are called with
  ParagraphEdits,  \* fields the setters change: [field, value]
  DrawContexts,    \* where a division is drawn
  MaxTextEdits,    \* bound: changes
  MaxDrawings      \* bound: how often something is drawn

VARIABLES
  division,  \* the division and its paragraphs
  pen,       \* what is being drawn
  drawings,  \* how often something was drawn
  textEdits  \* how many changes the client has made
paragraphVars == <<division, pen, drawings, textEdits>>

Space == "s"
LineFeed == "n"
Thousand == 1000

(***************************************************************************)
(* Widths, and wrapping.                                                   *)
(***************************************************************************)
Known(rune) == rune \in DOMAIN Glyphs
GlyphWidth(chunk, rune) == chunk.size * Glyphs[rune]
\* What a text takes with the spacing after each of its characters.
SpacedWidth(chunk, text) == FoldLeft(LAMBDA sum, r : sum + GlyphWidth(chunk, r) + chunk.spacing, 0, text)

\* All in one line; the last character of the last chunk is not followed by spacing.  -1: a rune is missing.
Shown(text) == SelectSeq(text, LAMBDA r : r # LineFeed)
TextMissing(p) == \E i \in DOMAIN p.chunks : \E k \in DOMAIN p.chunks[i].text :
                    p.chunks[i].text[k] # LineFeed /\ ~Known(p.chunks[i].text[k])
LastSpacing(p) ==
  IF p.chunks = << >> \/ Last(p.chunks).text = << >> \/ Last(Last(p.chunks).text) = LineFeed THEN 0
  ELSE Last(p.chunks).spacing
getTextWidth(p) ==
  IF TextMissing(p) THEN -1
  ELSE FoldLeft(LAMBDA sum, c : sum + SpacedWidth(c, Shown(c.text)), 0, p.chunks) - LastSpacing(p)

RightTrimmed(text) == LET kept == {i \in DOMAIN text : text[i] # Space} IN
  IF kept = {} THEN << >> ELSE SubSeq(text, 1, CHOOSE i \in kept : \A k \in kept : k <= i)
\* A plain paragraph's lines keep their last spaces.
Ended(p, text) == IF p.plain THEN text ELSE RightTrimmed(text)
\* Mutant of LastSpace: a line is broken where it is full.
NeverBack(p, part) == 0

\* The last space in the part of the line that is of this chunk; a plain paragraph does not break behind the first rune.
LastSpace(p, part) ==
  LET spaces == {i \in DOMAIN part : part[i] = Space /\ (p.plain => i > 1)} IN
  IF spaces = {} THEN 0 ELSE CHOOSE i \in spaces : \A k \in spaces : k <= i

Piece(c, text) == [of |-> c, text |-> text]
NothingWrapped == [lines |-> << >>, line |-> << >>, width |-> 0, part |-> << >>, failed |-> FALSE]
LineEnded(p, s, c, text) == [s EXCEPT !.lines = Append(@, Append(s.line, Piece(c, Ended(p, text)))), !.line = << >>]
\* Mutant of Broken: the rune that did not fit is lost.
RuneLost(p, s, c, r, space) ==
  LET rest == SubSeq(s.part, space + 1, Len(s.part))
  IN [LineEnded(p, s, c, SubSeq(s.part, 1, space)) EXCEPT !.part = rest, !.width = SpacedWidth(p.chunks[c], rest)]

Broken(p, s, c, r, space) ==
  LET rest == SubSeq(s.part, space + 1, Len(s.part)) \o <<r>>
  IN [LineEnded(p, s, c, SubSeq(s.part, 1, space)) EXCEPT !.part = rest, !.width = SpacedWidth(p.chunks[c], rest)]
\* Mutant of BrokenAt: the line begins as if it were empty.
WidthReset(p, s, c, r, space) ==
  IF space > 0 THEN [Broken(p, s, c, r, space) EXCEPT !.width = 0]
  ELSE [LineEnded(p, s, c, s.part) EXCEPT !.part = <<r>>, !.width = 0]

\* With no space to go back to, the line is broken before the rune.
BrokenAt(p, s, c, r, space) ==
  IF space > 0 THEN Broken(p, s, c, r, space)
  ELSE [LineEnded(p, s, c, s.part) EXCEPT !.part = <<r>>, !.width = SpacedWidth(p.chunks[c], <<r>>)]
WithRune(p, s, c, r) ==
  CASE s.failed -> s
    [] r = LineFeed -> [LineEnded(p, s, c, s.part) EXCEPT !.part = << >>, !.width = 0]
    [] r # LineFeed /\ ~Known(r) -> [s EXCEPT !.failed = TRUE]
    [] OTHER -> IF s.width + GlyphWidth(p.chunks[c], r) > p.width THEN BrokenAt(p, s, c, r, LastSpace(p, s.part))
                ELSE [s EXCEPT !.part = Append(@, r), !.width = @ + GlyphWidth(p.chunks[c], r) + p.chunks[c].spacing]
ChunkEnded(s, c) == IF s.failed \/ s.part = << >> THEN s
                    ELSE [s EXCEPT !.line = Append(@, Piece(c, s.part)), !.part = << >>]
WithChunk(p, s, c) == ChunkEnded(FoldLeft(LAMBDA t, r : WithRune(p, t, c, r), s, p.chunks[c].text), c)
LinesOf(s) == IF s.failed \/ s.line = << >> THEN s.lines ELSE Append(s.lines, s.line)
\* A rune the font does not have ends the text before the line it is on; callers do not look at the error.
wrapText(p) ==
  IF ~p.wraps \/ p.width <= 0 THEN <<[c \in DOMAIN p.chunks |-> Piece(c, p.chunks[c].text)]>>
  ELSE LinesOf(FoldLeft(LAMBDA s, c : WithChunk(p, s, c), NothingWrapped, [c \in DOMAIN p.chunks |-> c]))
SetWidth(p, width) == LET q == [p EXCEPT !.width = width] IN [q EXCEPT !.lines = wrapText(q)]

LineSize(p, line) ==
  FoldLeft(LAMBDA most, e : IF p.chunks[e.of].size > most THEN p.chunks[e.of].size ELSE most, 0, line)
LineHeightOf(p, line) == p.stretch * (IF p.plain THEN p.size ELSE LineSize(p, line))
LinesHeight(p, lines) == FoldLeft(LAMBDA sum, line : sum + LineHeightOf(p, line), 0, lines)
Height(p) == LinesHeight(p, IF p.lines = << >> THEN wrapText(p) ELSE p.lines)
Width(p) == IF p.wraps /\ p.width > 0 THEN p.width ELSE getTextWidth(p)

(***************************************************************************)
(* Drawing one line: where every piece begins and ends, and where the next *)
(* line is.                                                                *)
(***************************************************************************)
SpacesIn(text) == Len(SelectSeq(text, LAMBDA r : r = Space))
Inked(text) == SelectSeq(text, LAMBDA r : r # Space /\ Known(r))
\* As the paragraph counts it: no spacing behind the last rune of a piece.
CountedInk(p, e) ==
  SpacedWidth(p.chunks[e.of], Inked(e.text))
    - (IF e.text # << >> /\ Last(e.text) # Space THEN p.chunks[e.of].spacing ELSE 0)
InkOf(p, line) == FoldLeft(LAMBDA sum, e : sum + CountedInk(p, e), 0, line)
SpacesOf(line) == FoldLeft(LAMBDA sum, e : sum + SpacesIn(e.text), 0, line)
NaturalSpace(p, e) == GlyphWidth(p.chunks[e.of], Space)
SpaceOf(p, line) == FoldLeft(LAMBDA sum, e : sum + SpacesIn(e.text) * NaturalSpace(p, e), 0, line)

\* A line that is neither the last nor without a space is stretched; its spaces are all as wide.
Stretched(p, line, last) == p.align = "justify" /\ ~last /\ SpacesOf(line) > 0
SpaceWidth(p, line, e, last) ==
  IF Stretched(p, line, last) THEN (p.width - InkOf(p, line)) \div SpacesOf(line) ELSE NaturalSpace(p, e)
ShiftOf(p, line) ==
  CASE p.align = "center" -> (p.width - InkOf(p, line) - SpaceOf(p, line)) \div 2
    [] p.align = "right" -> p.width - InkOf(p, line) - SpaceOf(p, line)
    [] OTHER -> 0
\* Mutant of LeadingAfter: the line height is not used.
LeadingUnstretched(p, line, before, last) ==
  IF p.plain THEN p.size * p.stretch
  ELSE FoldLeft(LAMBDA leading, e : IF e.text = << >> THEN leading ELSE p.chunks[e.of].size,
                IF p.align \in {"center", "right"} THEN p.size * p.stretch ELSE before, line)

\* The leading that is set when the line ends: by a shift, or by the last chunk there is anything of.
LeadingAfter(p, line, before, last) ==
  IF p.plain THEN p.size * p.stretch
  ELSE FoldLeft(LAMBDA leading, e : IF e.text = << >> THEN leading
                                    ELSE (IF Last(e.text) = Space /\ p.align = "justify" /\ ~last THEN p.size
                                          ELSE p.chunks[e.of].size) * p.stretch,
                IF p.align \in {"center", "right"} THEN p.size * p.stretch ELSE before, line)

\* The link of a piece: its rectangle, and where it leads to, turned upside down.  A wrapped piece has a copy of the
\* chunk's; without wrapping it is the chunk's own, which is given its place once.
IsWrapped(p) == p.wraps /\ p.width > 0
\* Mutant of LinkOf: the destination is not turned upside down.
DestLeft(chunk, wrapped, rect, height) ==
  IF ~chunk.link THEN << >>
  ELSE IF ~wrapped /\ chunk.processed THEN chunk.placed
  ELSE <<[rect |-> rect, dest |-> chunk.dest]>>

LinkOf(chunk, wrapped, rect, height) ==
  IF ~chunk.link THEN << >>
  ELSE IF ~wrapped /\ chunk.processed THEN chunk.placed
  ELSE <<[rect |-> rect, dest |-> height - chunk.dest]>>
\* A piece: where its text begins and ends, and its link.  The text has spacing behind every rune that is no space;
\* the rectangles do not count it behind the last.
PieceMark(p, e, s, n, high, space) ==
  [of |-> e.of, line |-> n, text |-> e.text, x |-> s.x, base |-> s.base,
   end |-> s.x + SpacedWidth(p.chunks[e.of], Inked(e.text)) + SpacesIn(e.text) * space,
   link |-> LinkOf(p.chunks[e.of], IsWrapped(p),
                   [x |-> s.cursor, y |-> s.y, w |-> CountedInk(p, e) + SpacesIn(e.text) * space, h |-> high], s.ph)]
\* Mutant of PieceDrawn: the links do not move past spaces.
SpacesForgotten(s, p, e, mark, space) ==
  [s EXCEPT !.marks = Append(@, mark), !.x = mark.end, !.cursor = @ + CountedInk(p, e)]

PieceDrawn(s, p, e, mark, space) ==
  [s EXCEPT !.marks = Append(@, mark), !.x = mark.end, !.cursor = @ + CountedInk(p, e) + SpacesIn(e.text) * space]
DrawPieces(s, p, line, n, last) ==
  FoldLeft(LAMBDA t, e : PieceDrawn(t, p, e, PieceMark(p, e, t, n, LineHeightOf(p, line),
                                                       SpaceWidth(p, line, e, last)),
                                    SpaceWidth(p, line, e, last)), s, line)
\* T* moves by the leading; the cursor of the links by the height of the line.
LineDrawn(s, p, line, n, last) ==
  LET begun == [s EXCEPT !.base = IF n = 1 THEN @ ELSE @ + s.leading, !.x = s.left + ShiftOf(p, line),
                         !.cursor = s.left + ShiftOf(p, line)]
      leading == LeadingAfter(p, line, s.leading, last)
  IN [DrawPieces(begun, p, line, n, last) EXCEPT !.leading = leading, !.y = @ + LineHeightOf(p, line)]
FirstBase(p, ctx) == ctx.y + p.size * p.stretch
DrawLines(p, ctx, lines) ==
  FoldLeft(LAMBDA s, n : LineDrawn(s, p, lines[n], n, n = Len(lines)),
           [marks |-> << >>, left |-> ctx.x, x |-> ctx.x, cursor |-> ctx.x, base |-> FirstBase(p, ctx),
            y |-> FirstBase(p, ctx), leading |-> 0, ph |-> ctx.ph],
           [n \in DOMAIN lines |-> n]).marks

(***************************************************************************)
(* GeneratePageBlocks of a paragraph: the paragraph after it, whether it   *)
(* begins a page, its marks and the context behind it.                     *)
(***************************************************************************)
InMargins(p, ctx) == [ctx EXCEPT !.x = @ + p.left, !.y = @ + p.top, !.w = @ - (p.left + p.right),
                                 !.h = @ - (p.top + p.bottom)]
FreshPage(p, ctx) ==
  [ctx EXCEPT !.page = @ + 1, !.x = ctx.edge + p.left, !.y = ctx.margin, !.h = ctx.ph - 2 * ctx.margin - p.bottom,
              !.w = ctx.pw - 2 * ctx.edge - p.left - p.right]
\* What cannot be drawn: a rune the font does not have, if there is no wrapping to end the text before.
Undrawable(p) == \E n \in DOMAIN p.lines : \E i \in DOMAIN p.lines[n] : \E k \in DOMAIN p.lines[n][i].text :
                   LET r == p.lines[n][i].text[k] IN ~Known(r) /\ (r = LineFeed => p.plain)
\* Without wrapping the lines are the paragraph's own chunks, which remember that their link has its place.
Remembered(p, marks) ==
  IF IsWrapped(p) THEN p
  ELSE [p EXCEPT !.chunks = [c \in DOMAIN @ |->
                               IF ~@[c].link THEN @[c]
                               ELSE [@[c] EXCEPT !.processed = TRUE, !.placed = marks[c].link,
                                                 !.dest = marks[c].link[1].dest]]]
\* Mutant of After: the context does not move.
HeightNotCounted(p, ctx, begun, width) ==
  LET high == p.bottom
  IN [begun EXCEPT !.y = @ + high, !.h = @ - high, !.w = width,
                   !.x = (IF ctx.inline THEN @ + Width(p) + p.right ELSE @) - p.left]

After(p, ctx, begun, width) ==
  LET high == LinesHeight(p, p.lines) + p.bottom
  IN [begun EXCEPT !.y = @ + high, !.h = @ - high, !.w = width,
                   !.x = (IF ctx.inline THEN @ + Width(p) + p.right ELSE @) - p.left]
DrawnParagraph(p, ctx, begun, breaks) ==
  LET marks == DrawLines(p, begun, p.lines)
  IN [p |-> Remembered(p, marks), breaks |-> breaks, marks |-> marks, begun |-> begun, failed |-> Undrawable(p),
      context |-> IF p.absolute THEN ctx ELSE After(p, ctx, begun, ctx.w)]
AtPosition(p, ctx) == [ctx EXCEPT !.x = p.atX, !.y = p.atY]
\* Mutant of OnPage: the margins are not taken off first.
AskedBefore(p, ctx, inside) ==
  IF Height(p) > ctx.h THEN DrawnParagraph(p, ctx, FreshPage(p, inside), TRUE)
  ELSE DrawnParagraph(p, ctx, inside, FALSE)

OnPage(p, ctx, inside) ==
  IF Height(p) > inside.h THEN DrawnParagraph(p, ctx, FreshPage(p, inside), TRUE)
  ELSE DrawnParagraph(p, ctx, inside, FALSE)
\* At a position of its own a paragraph without a width is given its text's, in thousandths of the unit of widths.
Absolute(p) == IF p.width > 0 THEN SetWidth(p, p.width) ELSE SetWidth(p, Thousand * getTextWidth(p))
generateParagraph(p, ctx) ==
  IF p.absolute THEN DrawnParagraph(Absolute(p), ctx, AtPosition(p, ctx), FALSE)
  ELSE OnPage(SetWidth(p, ctx.w - (p.left + p.right)), ctx, InMargins(p, ctx))

(***************************************************************************)
(* A division: its paragraphs below or, inline, beside each other.  An     *)
(* inline part goes on the line if it fits, as wide as it was when it was  *)
(* last drawn.                                                             *)
(***************************************************************************)
NotDrawing == [mode |-> "client", at |-> 0, last |-> 0, inline |-> FALSE, ctx |-> << >>, div |-> << >>, line |-> << >>,
               high |-> 0, pages |-> << >>, start |-> << >>, boxes |-> << >>]
BeginDrawing(ctx, first, last, inline) ==
  [NotDrawing EXCEPT !.mode = "drawing", !.at = first, !.last = last, !.inline = inline,
                     !.ctx = [ctx EXCEPT !.inline = inline], !.div = [x |-> ctx.x, y |-> ctx.y, w |-> ctx.w, h |-> ctx.h],
                     !.line = [y |-> ctx.y, h |-> ctx.h], !.pages = << << >> >>, !.start = ctx]

FitsBeside(j, p) == (j.ctx.x - j.div.x) + Width(p) <= j.ctx.w
BesideOrBelow(j, p) ==
  CASE ~j.inline -> j
    [] j.inline /\ FitsBeside(j, p) -> [j EXCEPT !.ctx.y = j.line.y, !.ctx.h = j.line.h]
    [] OTHER -> [j EXCEPT !.ctx.x = j.div.x, !.ctx.w = j.div.w, !.line.y = @ + j.high, !.line.h = @ - j.high,
                 !.high = 0]

Marked(part, marks) == [i \in DOMAIN marks |-> [part |-> part, mark |-> marks[i]]]
WithMarks(pages, part, g) ==
  IF g.breaks THEN Append(pages, Marked(part, g.marks)) ELSE [pages EXCEPT ![Len(pages)] = @ \o Marked(part, g.marks)]
\* After a part: the height of the line it is on, or the page it has begun.
LineAfter(j, next) ==
  IF ~j.inline THEN j
  ELSE IF j.ctx.page # next.page
  THEN [j EXCEPT !.div.y = next.margin, !.div.h = next.ph - next.margin, !.line.y = next.margin,
                 !.line.h = next.ph - next.margin, !.high = next.h - (next.ph - next.margin)]
  ELSE [j EXCEPT !.high = IF j.ctx.h - next.h > @ THEN j.ctx.h - next.h ELSE @]
Advanced(j, g, again) ==
  [LineAfter(j, g.context) EXCEPT
     !.at = j.at + 1, !.pages = WithMarks(j.pages, j.at, g),
     !.boxes = Append(@, [part |-> j.at, page |-> g.begun.page, x |-> g.begun.x, y |-> g.begun.y, w |-> Width(g.p),
                          h |-> Height(g.p), again |-> again]),
     !.ctx = IF j.inline THEN g.context ELSE [g.context EXCEPT !.x = j.ctx.x]]

\* The height of a division, and what a table takes it for.
PartHeight(p) == Height(p) + p.top + p.bottom
DivisionHeight(d) == FoldLeft(LAMBDA sum, p : sum + PartHeight(p), 0, d.parts)

(***************************************************************************)
(* The client's calls, and the steps of drawing.                           *)
(***************************************************************************)
ParagraphsInit == division = << >> /\ pen = [NotDrawing EXCEPT !.mode = "none"] /\ drawings = 0 /\ textEdits = 0

NewDivision ==
  /\ pen.mode = "none"
  /\ \E d \in Divisions : division' = d
  /\ pen' = NotDrawing /\ UNCHANGED <<drawings, textEdits>>

MayEdit == pen.mode = "client" /\ textEdits < MaxTextEdits
PartEdited(i, p) == /\ division' = [division EXCEPT !.parts[i] = p]
              /\ textEdits' = textEdits + 1 /\ UNCHANGED <<pen, drawings>>
Rewrapped(p) == [p EXCEPT !.lines = wrapText(p)]

\* Insert, and Append, which inserts behind the last.
InsertChunk ==
  /\ MayEdit
  /\ \E i \in DOMAIN division.parts, chunk \in Chunks : \E at \in 0..Len(division.parts[i].chunks) :
       ~division.parts[i].plain
         /\ PartEdited(i, Rewrapped([division.parts[i] EXCEPT !.chunks = InsertAt(@, at + 1, chunk)]))
\* SetText: a plain paragraph keeps the lines of the old text.
SetText ==
  /\ MayEdit
  /\ \E i \in DOMAIN division.parts, chunk \in Chunks :
       PartEdited(i, IF division.parts[i].plain THEN [division.parts[i] EXCEPT !.chunks[1].text = chunk.text]
               ELSE Rewrapped([division.parts[i] EXCEPT !.chunks = <<chunk>>]))
SetParagraph ==
  /\ MayEdit
  /\ \E i \in DOMAIN division.parts, edit \in ParagraphEdits :
       PartEdited(i, [division.parts[i] EXCEPT ![edit.field] = edit.value])

MayDraw == pen.mode = "client" /\ drawings < MaxDrawings
DrawDivision ==
  /\ MayDraw
  /\ \E ctx \in DrawContexts : pen' = BeginDrawing(ctx, 1, Len(division.parts), division.inline)
  /\ UNCHANGED <<division, drawings, textEdits>>
DrawAlone ==
  /\ MayDraw
  /\ \E ctx \in DrawContexts, i \in DOMAIN division.parts : pen' = BeginDrawing(ctx, i, i, FALSE)
  /\ UNCHANGED <<division, drawings, textEdits>>

Drawing == pen.mode = "drawing" /\ pen.at <= pen.last
DrawPart ==
  /\ Drawing
  /\ \E j \in {BesideOrBelow(pen, division.parts[pen.at])} : \E g \in {generateParagraph(division.parts[pen.at], j.ctx)} :
       /\ division' = [division EXCEPT !.parts[pen.at] = g.p]
       /\ pen' = IF g.failed THEN NotDrawing
                 ELSE Advanced(j, g, \E c \in DOMAIN division.parts[pen.at].chunks :
                                       division.parts[pen.at].chunks[c].processed)
  /\ UNCHANGED <<drawings, textEdits>>
EndDrawing ==
  /\ pen.mode = "drawing" /\ pen.at > pen.last
  /\ pen' = [pen EXCEPT !.mode = "done"]
  /\ UNCHANGED <<division, drawings, textEdits>>
\* What has been drawn is taken.
TakeBlocks ==
  /\ pen.mode = "done"
  /\ drawings' = drawings + 1 /\ pen' = NotDrawing
  /\ UNCHANGED <<division, textEdits>>

ParagraphsNext == NewDivision \/ InsertChunk \/ SetText \/ SetParagraph \/ DrawDivision \/ DrawAlone \/ DrawPart
                  \/ EndDrawing \/ TakeBlocks
ParagraphsIdle == pen.mode = "none"
ParagraphsSpec == ParagraphsInit /\ [][ParagraphsNext]_paragraphVars

(***************************************************************************)
(* What should hold when something is drawn.                               *)
(***************************************************************************)
Done == pen.mode = "done"
AllMarks == FoldLeft(LAMBDA all, page : all \o page, << >>, pen.pages)
MarksOfPart(part) == LET own == SelectSeq(AllMarks, LAMBDA m : m.part = part) IN [i \in DOMAIN own |-> own[i].mark]
DrawnParts == {pen.boxes[i].part : i \in DOMAIN pen.boxes}
BoxOf(part) == CHOOSE box \in {pen.boxes[i] : i \in DOMAIN pen.boxes} : box.part = part

\* Every character that is no space is drawn, in order, whatever lines it is on; the text ends early, on a line's end,
\* if the font lacks a rune (wrapText).
Characters(text) == SelectSeq(text, LAMBDA r : r \notin {Space, LineFeed})
TextKept ==
  Done => \A part \in DrawnParts :
    LET p == division.parts[part]
        drawn == FoldLeft(LAMBDA all, m : all \o Characters(m.text), << >>, MarksOfPart(part))
        wanted == FoldLeft(LAMBDA all, c : all \o Characters(c.text), << >>, p.chunks)
    IN drawn = SubSeq(wanted, 1, Len(drawn)) /\ (~TextMissing(p) => drawn = wanted)

Uniform(p) == \A i \in DOMAIN p.chunks : p.chunks[i].size = p.size /\ p.chunks[i].spacing = 0
LineMarks(part, n) == SelectSeq(MarksOfPart(part), LAMBDA m : m.line = n)
\* Where the last character that is no space of a line ends.
VisibleEnd(p, marks) ==
  LET seen == {i \in DOMAIN marks : Characters(marks[i].text) # << >>} IN
  IF seen = {} THEN marks[1].x
  ELSE LET last == marks[CHOOSE i \in seen : \A k \in seen : k <= i]
           rest == Len(last.text) - Len(RightTrimmed(last.text))
       IN last.end - rest * GlyphWidth(p.chunks[last.of], Space)

\* No line of a wrapped text is wider than the paragraph, but for one rune of a word that went to a line of its own and
\* is too wide for that: whether it is is not asked.
TextOf(marks) == FoldLeft(LAMBDA all, m : all \o m.text, << >>, marks)
OverBy(p, marks) == LET text == RightTrimmed(TextOf(marks)) IN
  IF text = << >> \/ SpacesIn(text) > 0 THEN 0 ELSE GlyphWidth(p.chunks[Last(marks).of], Last(text))
LinesFit ==
  Done => \A part \in DrawnParts : LET p == division.parts[part] IN
    IsWrapped(p) /\ Uniform(p) =>
      \A n \in DOMAIN p.lines : LET marks == LineMarks(part, n) IN
        marks # << >> => VisibleEnd(p, marks) - marks[1].x <= p.width + OverBy(p, marks)

\* A word is broken only if it is too wide for a line, with the space before it.
WordEnds(text, i) == i = Len(text) \/ text[i + 1] \in {Space, LineFeed}
WordBegins(text, i) == i = 1 \/ text[i - 1] \in {Space, LineFeed}
WordAt(text, i) ==
  LET first == CHOOSE k \in 1..i : WordBegins(text, k) /\ \A l \in (k + 1)..i : ~WordBegins(text, l)
      last == CHOOSE k \in i..Len(text) : WordEnds(text, k) /\ \A l \in i..(k - 1) : ~WordEnds(text, l)
  IN SubSeq(text, first, last)
\* Which rune of the text the n-th that is no space is.
PlaceOf(text, n) ==
  CHOOSE i \in DOMAIN text : text[i] \notin {Space, LineFeed} /\ Len(Characters(SubSeq(text, 1, i))) = n
WordsWhole ==
  Done => \A part \in DrawnParts : LET p == division.parts[part] IN
    IsWrapped(p) /\ Len(p.chunks) = 1 /\ ~TextMissing(p) =>
      \A n \in 1..(Len(p.lines) - 1) :
        LET text == p.chunks[1].text
            shown == Len(FoldLeft(LAMBDA all, l : all \o Characters(l[1].text), << >>, SubSeq(p.lines, 1, n)))
        IN shown > 0 /\ ~WordEnds(text, PlaceOf(text, shown)) =>
             SpacedWidth(p.chunks[1], WordAt(text, PlaceOf(text, shown))) + GlyphWidth(p.chunks[1], Space) > p.width

\* Lines are one below the other, as far apart as they are high.
FirstBlank(p) == ~p.plain /\ p.align \in {"left", "justify"} /\ p.lines # << >>
  /\ \A i \in DOMAIN p.lines[1] : p.lines[1][i].text = << >>
BaselinesTrue ==
  Done => \A part \in DrawnParts : LET p == division.parts[part] IN
    Uniform(p) /\ ~FirstBlank(p) =>
      \A i \in DOMAIN MarksOfPart(part) :
        MarksOfPart(part)[i].base = BoxOf(part).y + MarksOfPart(part)[i].line * p.size * p.stretch

\* A link is over its text, and leads where it should.
LinksCover ==
  Done => \A part \in DrawnParts : LET p == division.parts[part] IN
    Uniform(p) /\ ~FirstBlank(p) /\ ~BoxOf(part).again =>
      \A i \in DOMAIN MarksOfPart(part) : LET m == MarksOfPart(part)[i] IN
        p.chunks[m.of].link =>
          m.link = <<[rect |-> [x |-> m.x, y |-> m.base, w |-> m.end - m.x, h |-> p.size * p.stretch],
                      dest |-> pen.start.ph - p.chunks[m.of].to]>>

\* Where the lines begin and end, the spaces at their ends counted; where a piece of a styled paragraph is broken there
\* are none.
AlignedTrue ==
  Done => \A part \in DrawnParts : LET p == division.parts[part] IN
    IsWrapped(p) /\ Uniform(p) =>
      \A n \in DOMAIN p.lines :
        LET marks == LineMarks(part, n)
            left == marks[1].x - BoxOf(part).x
            right == BoxOf(part).x + p.width - Last(marks).end
        IN marks # << >> =>
           /\ n < Len(p.lines) /\ ~p.plain => RightTrimmed(Last(marks).text) = Last(marks).text
           /\ CASE p.align = "left" -> left = 0
                [] p.align = "right" -> right = 0
                [] p.align = "center" -> left = right
                [] p.align = "justify" -> left = 0 /\ (n < Len(p.lines) /\ SpacesOf(p.lines[n]) > 0 => right = 0)

\* The parts of a division do not overlap.  Inline that is so of parts that are all as high, have no left margin, which
\* the next part does not count, and are on one page: the line that follows another is put below its last part, and
\* after a part that begins a page, above that.
AllAlike(boxes) ==
  \A i, j \in DOMAIN boxes : LET p == division.parts[boxes[i].part] IN
    /\ p.left = 0 /\ boxes[i].page = boxes[j].page /\ boxes[i].h = boxes[j].h
    /\ p.top = division.parts[boxes[j].part].top /\ p.bottom = division.parts[boxes[j].part].bottom
Overlap(a, b) == a.page = b.page /\ a.x < b.x + b.w /\ b.x < a.x + a.w /\ a.y < b.y + b.h /\ b.y < a.y + a.h
Flowing(box) == ~division.parts[box.part].absolute
PartsApart ==
  Done /\ (pen.inline => AllAlike(pen.boxes)) =>
    \A i, j \in DOMAIN pen.boxes :
      i < j /\ Flowing(pen.boxes[i]) /\ Flowing(pen.boxes[j]) => ~Overlap(pen.boxes[i], pen.boxes[j])

\* Nothing that fits on a page is above or below its margins, but for what an inline division has on a further page: it
\* takes the height of that without its lower margin.
InFrame ==
  Done /\ (pen.inline => Len(pen.pages) = 1) => \A i \in DOMAIN pen.boxes :
    Flowing(pen.boxes[i]) /\ pen.boxes[i].h + division.parts[pen.boxes[i].part].bottom <= pen.start.ph - 2 * pen.start.margin =>
      pen.boxes[i].y >= pen.start.margin /\ pen.boxes[i].y + pen.boxes[i].h <= pen.start.ph - pen.start.margin

\* A division is as high as it is measured.
HeightMeasured ==
  Done /\ ~pen.inline /\ Len(pen.pages) = 1 /\ Len(pen.boxes) = Len(division.parts)
    /\ (\A i \in DOMAIN pen.boxes : Flowing(pen.boxes[i])) =>
    pen.ctx.y = pen.start.y + DivisionHeight(division)

ParagraphsSound ==
  /\ TextKept /\ LinesFit /\ WordsWhole /\ BaselinesTrue /\ LinksCover /\ AlignedTrue /\ PartsApart /\ InFrame
  /\ HeightMeasured
=============================================================================

------------------------------- MODULE Tables -------------------------------
(***************************************************************************)
(* A table of the creator (creator/table.go): a client adds cells one      *)
(* after the other, skips some, puts the cells of other tables among them, *)
(* and names header rows; GeneratePageBlocks then measures the rows, cell  *)
(* by cell, and draws the cells, going to a new page where a row does not  *)
(* fit and repeating the header there.                                     *)
(*                                                                         *)
(* Lengths are even numbers of units, so that a half of one is whole; a    *)
(* line of text is LineHeight high.  A text is a row of words WordWidth    *)
(* wide.  A table is FullWidth wide, and its column widths are shares of   *)
(* that.  A cell with a list or another table in it is not modelled; a     *)
(* division is its paragraphs on top of each other.                        *)
(***************************************************************************)
EXTENDS Integers, Sequences
LOCAL INSTANCE SequencesExt
LOCAL INSTANCE TLC

CONSTANTS
  StartTables,   \* tables a client has built so far
  Items,         \* what a new cell is given: [span, content, indent, across, down]
  Skips,         \* calls that move on: [call |-> "cells" | "rows" | "over", rows, cols]
  SubTables,     \* tables whose cells are added
  SubPlaces,     \* <<row, column>>: where
  HeaderRows,    \* <<first, last>>
  Sizes,         \* <<widths of the columns, a row, its height>>: what a client sets
  Spots,         \* the y a table is drawn at
  TableMargins,  \* [top, bottom]
  MaxBuilding,   \* bound: calls of a client after it has a start table
  MaxTablePages  \* bound: pages after which a layout is taken to have no end

VARIABLES
  table,   \* the table, as its fields are
  built,   \* how many calls the client has made
  mixed,   \* history: cells of a subtable are among the table's
  layout   \* GeneratePageBlocks, as far as it has come
tableVars == <<table, built, mixed, layout>>

(***************************************************************************)
(* Lengths.                                                                *)
(***************************************************************************)
FullWidth == 24
WordWidth == 2
LineHeight == 4
DefaultRowHeight == 4
PageFrame == [height |-> 32, top |-> 4, bottom |-> 4, left |-> 4]
PageRoom == PageFrame.height - PageFrame.top - PageFrame.bottom

Larger(a, b) == IF a > b THEN a ELSE b
Smaller(a, b) == IF a < b THEN a ELSE b

\* What elements first to last of s add up to.
SumOf(s, first, last) == FoldLeft(LAMBDA sum, n : sum + n, 0, SubSeq(s, first, last))

(***************************************************************************)
(* Building a table.                                                       *)
(***************************************************************************)
NoRows == [first |-> 0, last |-> 0]
resetColumnWidths(cols) == [i \in 1..cols |-> FullWidth \div cols]
newTable(cols) == [rows |-> 0, cols |-> cols, cur |-> 0, widths |-> resetColumnWidths(cols), heights |-> << >>,
                   cells |-> << >>, header |-> NoRows, margins |-> [top |-> 0, bottom |-> 0]]

WithRows(t, row) ==
  IF row <= t.rows THEN t
  ELSE [t EXCEPT !.rows = row, !.heights = @ \o [i \in 1..(row - t.rows) |-> DefaultRowHeight]]

\* Mutant of SpanOf: the end of the row does not bound it.
SpanUnclamped(wanted, remainingCols) == Larger(wanted, 1)

\* The columns a cell really spans: one at least, and none beyond the row.
SpanOf(wanted, remainingCols) == Smaller(Larger(wanted, 1), remainingCols)

\* newCell, the setters of the cell and SetContent.
newCell(t, item) ==
  LET at == t.cur
      row == at \div t.cols + 1
      col == (at % t.cols) + 1
      span == SpanOf(item.span, t.cols - (col - 1))
  IN [WithRows(t, row) EXCEPT
        !.cur = at + span,
        !.cells = Append(@, [row |-> row, col |-> col, span |-> span, content |-> item.content,
                             indent |-> item.indent, across |-> item.across, down |-> item.down])]

\* SkipCells, SkipRows and SkipOver: how far each moves.
SkippedBy(t, skip) ==
  CASE skip.call = "cells" -> skip.cols
    [] skip.call = "rows" -> skip.rows * t.cols - 1
    [] skip.call = "over" -> skip.rows * t.cols + skip.cols - 1
Skip(t, skip) == IF SkippedBy(t, skip) < 0 THEN t ELSE [t EXCEPT !.cur = @ + SkippedBy(t, skip)]

\* The columns a table is short of for a cell.
ColumnsMissing(t, cell) == cell.span - (t.cols - (cell.col - 1))
WithColumns(t, cell) ==
  IF ColumnsMissing(t, cell) <= 0 THEN t
  ELSE [t EXCEPT !.cols = @ + ColumnsMissing(t, cell), !.widths = resetColumnWidths(t.cols + ColumnsMissing(t, cell))]

\* One cell of a subtable, moved to its place.
AddMovedCell(t, cell, height) ==
  LET wide == WithColumns(t, cell)
      long == WithRows(wide, cell.row)
  IN [long EXCEPT !.heights[cell.row] = IF cell.row > t.rows THEN height ELSE Larger(@, height),
                  !.cells = Append(@, cell)]
Moved(cell, row, col) == [cell EXCEPT !.row = @ + row - 1, !.col = @ + col - 1]
Before(a, b) == a.row < b.row \/ (a.row = b.row /\ a.col < b.col)
\* sort.Slice inserts one by one as long as there are few cells, so equal places keep their order.
SortedCells(cells) == SortSeq(cells, Before)
AddSubtable(t, row, col, sub) ==
  LET all == FoldLeft(LAMBDA u, cell : AddMovedCell(u, Moved(cell, row, col), sub.heights[cell.row]), t, sub.cells)
  IN [all EXCEPT !.cells = SortedCells(@)]

SetHeaderRows(t, first, last) ==
  IF first <= 0 \/ last <= 0 \/ first > last THEN t ELSE [t EXCEPT !.header = [first |-> first, last |-> last]]
SetColumnWidths(t, widths) == IF Len(widths) # t.cols THEN t ELSE [t EXCEPT !.widths = widths]
SetRowHeight(t, row, height) == IF row < 1 \/ row > Len(t.heights) THEN t ELSE [t EXCEPT !.heights[row] = height]

(***************************************************************************)
(* What is in a cell.  kind: "paragraph", "styled", "image", "division",   *)
(* or "none".  size: how many words a text has, how high an image or a     *)
(* division is.                                                            *)
(***************************************************************************)
IsText(content) == content.kind \in {"paragraph", "styled"}
\* Paragraph.wrapText: the lines a text is laid in; without a width there is only the one.
WordsIn(width) == width \div WordWidth
LinesIn(content, width) == IF width <= 0 THEN 1 ELSE (content.size + WordsIn(width) - 1) \div WordsIn(width)
ContentHeight(content, width) ==
  CASE IsText(content) -> LineHeight * LinesIn(content, width)
    [] content.kind = "none" -> 0
    [] OTHER -> content.size
\* What the text of the longest line, or an image, is wide; the column it is in for a division's.
ContentWidth(content, width) ==
  CASE IsText(content) -> WordWidth * (IF width <= 0 THEN content.size ELSE Smaller(content.size, WordsIn(width)))
    [] content.kind = "image" -> content.wide
    [] OTHER -> 0
\* Mutant of HeightAsked: the upper margin counts for no text.
TopMarginForgotten(content, width) ==
  ContentHeight(content, width)
    + (IF content.kind = "paragraph" THEN 2 * content.bottom + LineHeight \div 2 ELSE content.bottom)

\* What a cell asks of its row: a paragraph's bottom margin counts twice and its top margin not at all.
HeightAsked(content, width) ==
  CASE content.kind = "paragraph" -> ContentHeight(content, width) + 2 * content.bottom + LineHeight \div 2
    [] content.kind = "styled" -> ContentHeight(content, width) + content.top + content.bottom + LineHeight \div 2
    [] OTHER -> ContentHeight(content, width) + content.top + content.bottom

(***************************************************************************)
(* Measuring and drawing.  mode: "building", "measuring", "drawing",       *)
(* "done", and "endless" once MaxTablePages pages are made.                *)
(***************************************************************************)
NotLaid == [mode |-> "building", at |-> 0, y |-> 0, top |-> 0, room |-> 0, startrow |-> 0, header |-> NoRows,
            repeating |-> FALSE, resume |-> 0, resumeRow |-> 0, wrapped |-> << >>, after |-> 0, pages |-> << >>]

\* Mutant of InHeader: the last row is not of the header.
HeaderEndLeftOut(t, cell) == t.header.first # 0 /\ cell.row >= t.header.first /\ cell.row < t.header.last

InHeader(t, cell) == t.header.first # 0 /\ cell.row >= t.header.first /\ cell.row <= t.header.last
CellWidth(t, cell) == SumOf(t.widths, cell.col, cell.col + cell.span - 1)

BeginLayout(t, y) ==
  LET top == y + t.margins.top IN
  [NotLaid EXCEPT !.mode = "measuring", !.at = 1, !.y = y, !.top = top, !.after = top, !.pages = << << >> >>,
                  !.room = PageFrame.height - top - PageFrame.bottom, !.wrapped = [i \in DOMAIN t.cells |-> 0]]

\* The first loop, for one cell: its row grows to what it asks.
MeasuredTable(t, cell, width) ==
  [t EXCEPT !.heights[cell.row] = Larger(@, HeightAsked(cell.content, width - cell.indent))]
MeasuredLayout(l, t, cell, width) ==
  [l EXCEPT !.at = IF @ = Len(t.cells) THEN 1 ELSE @ + 1,
            !.mode = IF l.at = Len(t.cells) THEN "drawing" ELSE @,
            !.wrapped[l.at] = width - cell.indent,
            !.header = IF ~InHeader(t, cell) THEN @
                       ELSE [first |-> IF @.first = 0 THEN l.at ELSE @.first, last |-> l.at]]

\* Mutant of NextPage: the rows of the pages before are counted on.
RowsCountedOn(l, startrow) == [l EXCEPT !.pages = Append(@, << >>), !.top = PageFrame.top, !.room = PageRoom]

\* A row does not fit: the page ends, and the header comes first on the next.
NextPage(l, startrow) == [l EXCEPT !.pages = Append(@, << >>), !.top = PageFrame.top, !.room = PageRoom,
                                   !.startrow = startrow]
\* Mutant of ToHeader: the cell that did not fit is passed over.
HeaderForgetsPlace(t, l, cell) ==
  [NextPage(l, t.header.first - 1) EXCEPT !.resume = l.at + 1, !.resumeRow = cell.row - 1, !.at = l.header.first,
   !.repeating = TRUE]

ToHeader(t, l, cell) ==
  [NextPage(l, t.header.first - 1) EXCEPT !.resume = l.at, !.resumeRow = cell.row - 1, !.at = l.header.first,
                                          !.repeating = TRUE]

\* Where the content goes, in a cell of this width and height with this room below its upper edge.
Placed(cell, x, y, w, h, room, contentW, contentH) ==
  IF cell.content.kind = "none" THEN [x |-> x, y |-> y, width |-> w, room |-> room] ELSE
  [x |-> CASE cell.across = "left" -> x + cell.indent
           [] cell.across = "center" /\ w > contentW -> x + (w - contentW) \div 2
           [] cell.across = "right" /\ w > contentW -> x + w - contentW - cell.indent
           [] OTHER -> x,
   width |-> CASE cell.across = "left" -> w - cell.indent
               [] cell.across = "center" /\ w > contentW -> w - (w - contentW) \div 2
               [] cell.across = "right" /\ w > contentW -> contentW
               [] OTHER -> w,
   y |-> CASE cell.down = "middle" /\ h > contentH -> y + (h - contentH) \div 2
           [] cell.down = "bottom" /\ h > contentH -> y + h - contentH
           [] OTHER -> y,
   room |-> CASE cell.down = "middle" /\ h > contentH -> room - (h - contentH) \div 2
              [] cell.down = "bottom" /\ h > contentH -> contentH
              [] OTHER -> room]

\* The width a text is wrapped to when it is drawn.
DrawnWidth(content, width) == width - content.left - content.right
\* DrawWithContext takes a content of one block; any other is left out, with a line in the log.
IsShown(content, width, room) ==
  CASE content.kind = "none" -> FALSE
    [] content.kind = "image" -> content.size <= room
    [] content.kind = "division" -> content.size <= room - content.top
    [] OTHER -> ContentHeight(content, DrawnWidth(content, width)) <= room - content.top - content.bottom

\* What is left on the page of a cell: its box, and its content's.
Mark(l, cell, x, y, w, h, place) ==
  [cell |-> l.at, again |-> l.repeating, x |-> x, y |-> y, w |-> w, h |-> h,
   shown |-> IsShown(cell.content, place.width, place.room), cy |-> place.y + cell.content.top,
   ch |-> ContentHeight(cell.content, DrawnWidth(cell.content, place.width))]

\* Mutant of DrawnAt: the room the header takes is not taken off.
RoomUnderHeaderForgotten(l, cell, mark, place, yrel) ==
  LET drawn == [l EXCEPT !.pages[Len(l.pages)] = Append(@, mark), !.after = place.y + mark.h, !.at = @ + 1]
  IN IF l.repeating /\ l.at >= l.header.last
     THEN [drawn EXCEPT !.top = @ + yrel + mark.h, !.startrow = l.resumeRow, !.at = l.resume, !.repeating = FALSE]
     ELSE drawn

\* The cell is drawn, and after the last of the header the layout resumes where it left.
DrawnAt(l, cell, mark, place, yrel) ==
  LET drawn == [l EXCEPT !.pages[Len(l.pages)] = Append(@, mark), !.after = place.y + mark.h, !.at = @ + 1,
                         !.wrapped[l.at] = IF IsText(cell.content) THEN DrawnWidth(cell.content, place.width) ELSE @]
  IN IF l.repeating /\ l.at >= l.header.last
     THEN [drawn EXCEPT !.top = @ + yrel + mark.h, !.room = @ - (mark.h + yrel), !.startrow = l.resumeRow,
                        !.at = l.resume, !.repeating = FALSE]
     ELSE drawn

DrawPlaced(l, cell, x, y, w, h, yrel, place) == DrawnAt(l, cell, Mark(l, cell, x, y, w, h, place), place, yrel)
DrawContent(l, cell, x, w, h, yrel) ==
  DrawPlaced(l, cell, x, l.top + yrel, w, h, yrel,
             Placed(cell, x, l.top + yrel, w, h, l.room - yrel, ContentWidth(cell.content, l.wrapped[l.at]),
                    ContentHeight(cell.content, l.wrapped[l.at])))

\* The second loop, for one cell.
DrawCell(t, l, cell, yrel, h) ==
  IF h <= l.room - yrel
  THEN DrawContent(l, cell, PageFrame.left + SumOf(t.widths, 1, cell.col - 1), CellWidth(t, cell), h, yrel)
  ELSE IF l.header.first # 0 THEN ToHeader(t, l, cell)
  ELSE DrawContent(NextPage(l, cell.row - 1), cell, PageFrame.left + SumOf(t.widths, 1, cell.col - 1),
                   CellWidth(t, cell), h, 0)
DrawNext(t, l, cell) == DrawCell(t, l, cell, SumOf(t.heights, l.startrow + 1, cell.row - 1), t.heights[cell.row])

(***************************************************************************)
(* The client's calls, and the steps of GeneratePageBlocks.                *)
(***************************************************************************)
TablesInit == table = newTable(1) /\ built = 0 /\ mixed = FALSE /\ layout = [NotLaid EXCEPT !.mode = "none"]

\* NewTable, and what a client builds first.
NewTable ==
  /\ layout.mode = "none"
  /\ table' \in StartTables /\ layout' = NotLaid
  /\ UNCHANGED <<built, mixed>>

MayBuild == layout.mode = "building" /\ built < MaxBuilding
Built(t) == built' = built + 1 /\ table' = t /\ UNCHANGED layout

AddCell == MayBuild /\ (\E item \in Items : Built(newCell(table, item))) /\ UNCHANGED mixed
SkipOn == MayBuild /\ (\E skip \in Skips : Built(Skip(table, skip))) /\ UNCHANGED mixed
AddTable ==
  /\ MayBuild
  /\ \E sub \in SubTables, place \in SubPlaces : Built(AddSubtable(table, place[1], place[2], sub))
  /\ mixed' = TRUE
NameHeader == MayBuild /\ (\E rows \in HeaderRows : Built(SetHeaderRows(table, rows[1], rows[2]))) /\ UNCHANGED mixed
SetSizes ==
  /\ MayBuild
  /\ \E size \in Sizes : Built(SetRowHeight(SetColumnWidths(table, size[1]), size[2], size[3]))
  /\ UNCHANGED mixed
SetTableMargins == MayBuild /\ (\E m \in TableMargins : Built([table EXCEPT !.margins = m])) /\ UNCHANGED mixed

Generate ==
  /\ layout.mode = "building" /\ table.cells # << >>
  /\ \E y \in Spots : layout' = BeginLayout(table, y)
  /\ UNCHANGED <<table, built, mixed>>

Measure ==
  /\ layout.mode = "measuring"
  /\ LET cell == table.cells[layout.at] IN
       /\ table' = MeasuredTable(table, cell, CellWidth(table, cell))
       /\ layout' = MeasuredLayout(layout, table, cell, CellWidth(table, cell))
  /\ UNCHANGED <<built, mixed>>

Draw ==
  /\ layout.mode = "drawing" /\ layout.at <= Len(table.cells) /\ Len(layout.pages) <= MaxTablePages
  /\ layout' = DrawNext(table, layout, table.cells[layout.at])
  /\ UNCHANGED <<table, built, mixed>>

Finish ==
  /\ layout.mode = "drawing" /\ layout.at > Len(table.cells)
  /\ layout' = [layout EXCEPT !.mode = "done", !.after = @ + table.margins.bottom]
  /\ UNCHANGED <<table, built, mixed>>

NeverFinish ==
  /\ layout.mode = "drawing" /\ layout.at <= Len(table.cells) /\ Len(layout.pages) > MaxTablePages
  /\ layout' = [layout EXCEPT !.mode = "endless"]
  /\ UNCHANGED <<table, built, mixed>>

TablesNext == NewTable \/ AddCell \/ SkipOn \/ AddTable \/ NameHeader \/ SetSizes \/ SetTableMargins \/ Generate
              \/ Measure \/ Draw \/ Finish \/ NeverFinish
TablesIdle == layout.mode = "none"
TablesSpec == TablesInit /\ [][TablesNext]_tableVars

(***************************************************************************)
(* What should hold.                                                       *)
(***************************************************************************)
GridOf(cell) == {cell.row} \X (cell.col..(cell.col + cell.span - 1))
ReadInOrder(t) == \A i, j \in DOMAIN t.cells : i < j => ~Before(t.cells[j], t.cells[i])
CellsApart(t) == \A i, j \in DOMAIN t.cells : i # j => GridOf(t.cells[i]) \cap GridOf(t.cells[j]) = {}

\* Every cell is in the grid its table has rows and columns for, and a client that only makes cells and skips
\* (newCell, SkipCells, SkipRows, SkipOver) never puts two in one place, nor one before another.
GridSound ==
  /\ Len(table.heights) = table.rows /\ Len(table.widths) = table.cols
  /\ \A i \in DOMAIN table.cells : GridOf(table.cells[i]) \subseteq (1..table.rows) \X (1..table.cols)
  /\ ~mixed => ReadInOrder(table) /\ CellsApart(table)

\* A row and the header fit on a page together.
RepeatedHeight(t, l) ==
  IF l.header.first = 0 THEN 0 ELSE SumOf(t.heights, t.header.first, t.cells[l.header.last].row)
RowsFit(t, l) == \A i \in DOMAIN t.cells : t.heights[t.cells[i].row] + RepeatedHeight(t, l) <= PageRoom

\* GeneratePageBlocks comes to an end unless a row and the header do not fit on one page: then it makes pages for ever.
LayoutEnds == layout.mode = "endless" => ~RowsFit(table, layout)

\* Every cell is drawn once, in the order of the cells, whatever pages it takes and however often the header comes.
MarksOf(pages) == FoldLeft(LAMBDA all, page : all \o page, << >>, pages)
CellsOf(marks) == [i \in DOMAIN marks |-> marks[i].cell]
DrawnOnce ==
  layout.mode = "done" =>
    CellsOf(SelectSeq(MarksOf(layout.pages), LAMBDA m : ~m.again)) = [i \in DOMAIN table.cells |-> i]

\* "headers that are repeated for every page the table spans": every further page begins with the header's cells,
\* and repeats no other.
HeaderOfPage(page) == SelectSeq(page, LAMBDA m : m.again)
HeadersRepeated ==
  layout.mode = "done" /\ ReadInOrder(table) =>
    \A p \in 2..Len(layout.pages) :
      /\ CellsOf(HeaderOfPage(layout.pages[p])) =
           SelectSeq([i \in DOMAIN table.cells |-> i],
                     LAMBDA i : table.cells[i].row \in table.header.first..table.header.last)
      /\ \A k \in DOMAIN HeaderOfPage(layout.pages[p]) : layout.pages[p][k].again

\* A page is left only for a row that has no room on it.
FirstRowOf(p) == IF p = 1 THEN 1 ELSE table.cells[SelectSeq(layout.pages[p], LAMBDA m : ~m.again)[1].cell].row
RoomOf(p) == IF p = 1 THEN PageFrame.height - PageFrame.bottom - (layout.y + table.margins.top)
             ELSE PageRoom - RepeatedHeight(table, layout)
PagesFilled ==
  layout.mode = "done" /\ ReadInOrder(table) =>
    \A p \in 2..Len(layout.pages) : SumOf(table.heights, FirstRowOf(p - 1), FirstRowOf(p)) > RoomOf(p - 1)

\* No box is drawn over another, and none over the edge of the page's frame.  What comes after the table comes below.
Covers(m, n) == m.x < n.x + n.w /\ n.x < m.x + m.w /\ m.y < n.y + n.h /\ n.y < m.y + m.h
BoxesApart ==
  layout.mode = "done" /\ ReadInOrder(table) /\ CellsApart(table) /\ RowsFit(table, layout) =>
    \A p \in DOMAIN layout.pages : LET page == layout.pages[p] IN
      /\ \A i, j \in DOMAIN page : i < j => ~Covers(page[i], page[j])
      /\ \A i \in DOMAIN page : /\ page[i].y >= PageFrame.top
                                /\ page[i].y + page[i].h <= PageFrame.height - PageFrame.bottom
                                /\ page[i].x + page[i].w <= PageFrame.left + FullWidth
      /\ p = Len(layout.pages) =>
           \A i \in DOMAIN page : layout.after >= page[i].y + page[i].h + table.margins.bottom

\* What is in a cell is drawn in the cell: never dropped because it does not fit, never below the cell's edge.  That
\* is not so of a text with side margins, which is wrapped narrower than it was measured; of a content with margins
\* that is moved down, which loses the room its bottom margin needs; and of a paragraph whose top margin, which is
\* not measured, is more than its bottom margin and half a line.
MeasuredTrue(cell) ==
  /\ cell.content.left = 0 /\ cell.content.right = 0
  /\ cell.down = "top" \/ (cell.content.top = 0 /\ cell.content.bottom = 0)
  /\ cell.content.kind = "paragraph" => cell.content.top <= cell.content.bottom + LineHeight \div 2
ContentInCell ==
  layout.mode = "done" /\ ReadInOrder(table) /\ RowsFit(table, layout) =>
    \A p \in DOMAIN layout.pages : \A i \in DOMAIN layout.pages[p] :
      LET m == layout.pages[p][i]
          cell == table.cells[m.cell]
      IN cell.content.kind # "none" /\ MeasuredTrue(cell) => m.shown /\ m.cy >= m.y /\ m.cy + m.ch <= m.y + m.h

\* All of it: what a client builds and what is made of it (table.go).
TablesSound == GridSound /\ LayoutEnds /\ DrawnOnce /\ HeadersRepeated /\ PagesFilled /\ BoxesApart /\ ContentInCell
=============================================================================

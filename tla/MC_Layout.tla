----------------------------- MODULE MC_Layout -----------------------------
(***************************************************************************)
(* Laying out: tables of two and three columns, documents of up to five    *)
(* chapters, and divisions of three paragraphs.  A behaviour is one of one *)
(* of the three.                                                           *)
(***************************************************************************)
EXTENDS Tables, Creator, Paragraphs

(***************************************************************************)
(* Tables: a page has room for six lines; a cell has at most six, and the  *)
(* tall image four.                                                        *)
(***************************************************************************)
LayContent(kind, size) == [kind |-> kind, size |-> size, wide |-> 6, top |-> 0, bottom |-> 0, left |-> 0, right |-> 0]
LayMargins(c, top, bottom, side) == [c EXCEPT !.top = top, !.bottom = bottom, !.left = side, !.right = side]
LayItem(span, content, across, down) ==
  [span |-> span, content |-> content, indent |-> 2, across |-> across, down |-> down]
LayShort == LayContent("paragraph", 3)
LayLong == LayMargins(LayContent("styled", 12), 2, 2, 0)
LayTall == LayContent("image", 16)
LaySide == LayMargins(LayContent("styled", 8), 0, 2, 2)
LayGroup == LayMargins(LayContent("division", 8), 2, 0, 0)
McItems ==
  {LayItem(1, LayShort, "left", "top"), LayItem(2, LayLong, "right", "top"), LayItem(0, LayTall, "center", "middle"),
   LayItem(3, LaySide, "left", "bottom"), LayItem(1, LayGroup, "center", "bottom")}
McSkips ==
  {[call |-> "cells", rows |-> 0, cols |-> 1], [call |-> "over", rows |-> 1, cols |-> 1],
   [call |-> "rows", rows |-> 0, cols |-> 0]}
LayOne == newCell(newTable(2), LayItem(1, LayShort, "center", "middle"))
LayThree ==
  newCell(newCell(newCell(newTable(2), LayItem(2, LayMargins(LayShort, 2, 0, 0), "left", "top")),
                  LayItem(1, LayLong, "right", "top")), LayItem(1, LayContent("none", 0), "center", "middle"))
McStartTables ==
  {newTable(3), newCell(newTable(3), LayItem(1, LaySide, "right", "top")), LayThree,
   newCell(SetHeaderRows(LayThree, 1, 1), LayItem(2, LayTall, "left", "middle")),
   SetHeaderRows(SetRowHeight(LayThree, 1, 12), 1, 2)}
McSubTables ==
  {LayOne, newCell(newCell(newCell(newTable(2), LayItem(1, LayLong, "left", "top")),
                           LayItem(1, LayTall, "left", "top")), LayItem(1, LayShort, "left", "middle"))}
McSubPlaces == {<<1, 1>>, <<2, 2>>}
McHeaderRows == {<<1, 1>>, <<1, 2>>, <<2, 1>>}
McSizes == {<< <<16, 8>>, 1, 6>>}
McSpots == {4, 16}
McTableMargins == {[top |-> 2, bottom |-> 2]}

(***************************************************************************)
(* Documents: pages of 12, 14 and 16 lines, 4 of them margins.             *)
(***************************************************************************)
LayLeaf(kind, id, h, margin, rows) ==
  [kind |-> kind, id |-> id, h |-> h, top |-> margin, bottom |-> margin, rows |-> rows]
LayText == LayLeaf("text", 11, 3, 1, 0)
LayImage == LayLeaf("image", 12, 5, 1, 0)
LayBreak == LayLeaf("break", 14, 0, 0, 0)
LayRows == LayLeaf("table", 15, 3, 0, 4)
McLeaves == {LayText, LayImage, LayLeaf("block", 13, 4, 0, 0), LayBreak, LayRows, LayLeaf("bad", 16, 0, 0, 0)}
LayOptions(toc, front, headers, fails) == [toc |-> toc, front |-> front, headers |-> headers, tocFails |-> fails]
LayChapter(parent, contents) == [NewChapterOf(parent, TRUE) EXCEPT !.contents = contents]
LayBook ==
  <<LayChapter(0, <<LayText, SubchapterOf(2), SubchapterOf(3)>>), LayChapter(1, <<LayImage>>),
    [LayChapter(1, <<LayBreak, LayText, SubchapterOf(4)>>) EXCEPT !.top = 1], LayChapter(3, << >>)>>
LayTabled == <<LayChapter(0, <<LayRows, SubchapterOf(2)>>), LayChapter(1, << >>)>>
LayStart(options, chapters, size) == [options |-> options, chapters |-> chapters, size |-> size]
McStartBooks ==
  {LayStart(LayOptions(TRUE, TRUE, TRUE, FALSE), << >>, 12),
   LayStart(LayOptions(TRUE, FALSE, TRUE, TRUE), LayTabled, 12),
   LayStart(LayOptions(TRUE, TRUE, FALSE, FALSE), LayBook, 14),
   LayStart(LayOptions(FALSE, TRUE, TRUE, FALSE), LayBook, 12),
   LayStart(LayOptions(TRUE, FALSE, TRUE, FALSE), LayBook, 16)}

(***************************************************************************)
(* Divisions: texts of several lines, one with a wide rune, one that the   *)
(* font cannot show; and parts that are not wrapped, beside each other.    *)
(***************************************************************************)
McGlyphs == [r \in {"a", "b", "w", "s"} |-> IF r = "w" THEN 36 ELSE 12]
LayChunk(text, size, spacing, link) ==
  [text |-> text, size |-> size, spacing |-> spacing, link |-> link, to |-> 5, dest |-> 5, processed |-> FALSE,
   placed |-> << >>]
LayStyled(chunks) ==
  [plain |-> FALSE, chunks |-> chunks, lines |-> << >>, width |-> 0, wraps |-> TRUE, align |-> "left", stretch |-> 1,
   size |-> 1, left |-> 0, right |-> 0, top |-> 0, bottom |-> 0, absolute |-> FALSE, atX |-> 24, atY |-> 4]
LayPlain(text) == [LayStyled(<<LayChunk(text, 1, 0, FALSE)>>) EXCEPT !.plain = TRUE]
LayUnwrapped(p) == [p EXCEPT !.wraps = FALSE]
LayWord == <<"a", "s", "b">>
LayLines == <<"a", "b", "s", "a", "b", "a", "s", "w", "s", "a", "b">>
McChunks ==
  {LayChunk(LayWord, 1, 0, TRUE), LayChunk(LayLines, 1, 0, FALSE), LayChunk(<<"s", "a", "b", "a", "w">>, 1, 0, TRUE),
   LayChunk(<<"n", "a", "s", "n", "b", "s">>, 1, 0,
            TRUE), LayChunk(<<"a", "s", "b", "a", "b", "s", "?", "a">>, 1, 0, FALSE),
   LayChunk(<<"a", "a">>, 2, 12, TRUE)}
McDivisions ==
  [inline : BOOLEAN,
   parts : {<<LayPlain(LayWord), LayStyled(<<LayChunk(LayLines, 1, 0, TRUE)>>), LayPlain(LayLines)>>,
            <<LayUnwrapped(LayStyled(<<LayChunk(LayWord, 1, 0, TRUE)>>)), LayUnwrapped(LayPlain(LayWord)),
              [LayUnwrapped(LayPlain(<<"b">>)) EXCEPT !.stretch = 2]>>}]
LayEdit(f, v) == [field |-> f, value |-> v]
McParagraphEdits ==
  {LayEdit("align", "center"), LayEdit("align", "right"), LayEdit("align", "justify"), LayEdit("stretch", 2),
   LayEdit("wraps", FALSE), LayEdit("wraps", TRUE), LayEdit("absolute", TRUE), LayEdit("left", 12), LayEdit("top", 1),
   LayEdit("bottom", 1), LayEdit("size", 2)}
LayContext(y) ==
  [page |-> 1, x |-> 12, y |-> y, w |-> 60, h |-> 16 - y, pw |-> 84, ph |-> 20, margin |-> 4, edge |-> 12,
   inline |-> FALSE]
McDrawContexts == {LayContext(4), LayContext(12)}

LayoutVars == <<tableVars, creatorVars, paragraphVars>>
LayoutInit == TablesInit /\ CreatorInit /\ ParagraphsInit
LayoutIdle == TablesIdle /\ CreatorIdle /\ ParagraphsIdle
LayoutNext ==
  \/ CreatorIdle /\ ParagraphsIdle /\ TablesNext /\ UNCHANGED <<creatorVars, paragraphVars>>
  \/ TablesIdle /\ ParagraphsIdle /\ CreatorNext /\ UNCHANGED <<tableVars, paragraphVars>>
  \/ TablesIdle /\ CreatorIdle /\ ParagraphsNext /\ UNCHANGED <<tableVars, creatorVars>>

\* What is laid out is where it should be: the cells of tables, the pages, contents and outline of a document, and the
\* lines, links and parts of paragraphs (creator).
LayoutSound == TablesSound /\ CreatorSound /\ ParagraphsSound
=============================================================================

------------------------------ MODULE Creator ------------------------------
(***************************************************************************)
(* The creator (creator/creator.go): a client makes pages, draws chapters  *)
(* (chapters.go) and other drawables on them, and writes the document.     *)
(* What is drawn flows from page to page; chapters leave a line in the     *)
(* table of contents (toc.go, toc_line.go) and an item in the outline,     *)
(* with the page they are on.  The first Write finalizes: it counts how    *)
(* many pages will come before those, moves all page numbers by as many,   *)
(* and makes these pages, the headers and the footers.                     *)
(*                                                                         *)
(* Only the vertical is modelled: y is measured from the top of the page,  *)
(* and a mark keeps where its upper edge is above the bottom, as the       *)
(* content stream has it.  All page sizes have one width, so the margins,  *)
(* a tenth of it, stay.  A paragraph is as high as its lines are.  Rotated *)
(* images are not modelled, and a table is one of equal rows without a     *)
(* header: the module Tables has the others.                               *)
(***************************************************************************)
EXTENDS Integers, Sequences
LOCAL INSTANCE SequencesExt

CONSTANTS
  StartBooks,     \* what a client has set up: [options, chapters, size]
  Leaves,         \* drawables other than chapters
  AddedSizes,     \* heights of pages of other documents
  NewSizes,       \* heights SetPageSize is called with
  MovesTo,        \* where MoveTo goes
  MaxClientCalls, \* bound: calls of a client
  MaxChapters     \* bound: chapters

VARIABLES
  book,   \* the Creator
  job,    \* the call that is running
  made    \* how many calls the client has made
creatorVars == <<book, job, made>>

Margin == 2
HeadingHeight == 2
LineHeightOfTOC == 2
NoPage == 0
NoItem == [page |-> -1, y |-> 0]

(***************************************************************************)
(* Pages and the drawing context.                                          *)
(***************************************************************************)
ContextOf(height, page) == [page |-> page, y |-> Margin, h |-> height - 2 * Margin, ph |-> height]
initContext(b) == [b EXCEPT !.context = ContextOf(b.size, @.page)]

\* A page without content; it is not yet one of the creator's.
newPage(b) == initContext([b EXCEPT !.sheets = Append(@, [height |-> b.size, marks |-> << >>, made |-> TRUE])])
LastSheet(b) == Len(b.sheets)
NewPageOf(b) == LET n == newPage(b) IN [n EXCEPT !.pages = Append(@, LastSheet(n)), !.context.page = @ + 1]
\* Neither the width nor the height of the context are those of the page.
AddPageOf(b, height) ==
  [b EXCEPT !.sheets = Append(@, [height |-> height, marks |-> << >>, made |-> FALSE]),
            !.pages = Append(@, LastSheet(b) + 1),
            !.context.y = Margin, !.context.ph = height, !.context.page = @ + 1, !.loose = TRUE]

getActivePage(b) ==
  IF b.active # NoPage THEN b.active ELSE IF b.pages = << >> THEN NoPage ELSE b.pages[Len(b.pages)]

(***************************************************************************)
(* What a drawable other than a chapter leaves on pages: blocks of marks,  *)
(* one block a page, and the context that follows.                         *)
(***************************************************************************)
MarkAt(what, of, ctx, y, h) == [what |-> what, of |-> of, top |-> ctx.ph - y, h |-> h, total |-> 0]
\* Mutant of OnNextPage: the room of a fresh page is too high.
BottomForgotten(ctx, d) == [ctx EXCEPT !.page = @ + 1, !.y = Margin, !.h = ctx.ph - 2 * Margin + d.h]

\* Where a paragraph or an image that does not fit begins: on a page of its own.
OnNextPage(ctx, d) ==
  [ctx EXCEPT !.page = @ + 1, !.y = Margin, !.h = ctx.ph - 2 * Margin - d.bottom]
Within(ctx, d) == [ctx EXCEPT !.y = @ + d.top, !.h = @ - (d.top + d.bottom)]
Past(ctx, d) == [ctx EXCEPT !.y = @ + d.h + d.bottom, !.h = @ - (d.h + d.bottom)]
Flowed(what, d, begin, breaks) ==
  [blocks |-> (IF breaks THEN << << >> >> ELSE << >>) \o << <<MarkAt(what, d.id, begin, begin.y, d.h)>> >>,
   context |-> Past(begin, d)]

\* measured: the height the paragraph is taken to have when it is asked whether it fits.
Paragraph(what, d, measured, ctx) ==
  IF measured > Within(ctx, d).h THEN Flowed(what, d, OnNextPage(ctx, d), TRUE)
  ELSE Flowed(what, d, Within(ctx, d), FALSE)
\* An image is asked before its margins are taken off.
ImageOn(d, ctx) ==
  IF d.h > ctx.h THEN Flowed("image", d, OnNextPage(ctx, d), TRUE) ELSE Flowed("image", d, Within(ctx, d), FALSE)
\* A block moves the context down and leaves its height.
BlockOn(d, ctx) ==
  [blocks |-> << <<MarkAt("block", d.id, ctx, ctx.y, d.h)>> >>, context |-> [ctx EXCEPT !.y = @ + d.h]]
BreakOn(ctx) ==
  [blocks |-> << << >>, << >> >>, context |-> ContextOf(ctx.ph, ctx.page + 1)]

\* A table: the rows that fit, and the others on further pages, which the context does not count.
TableStart(ctx) ==
  [blocks |-> << << >> >>, y |-> ctx.y, row |-> ctx.y, room |-> ctx.ph - ctx.y - Margin, left |-> 0, h |-> 0]
RowAt(s, d, ctx, row) == [s EXCEPT !.blocks[Len(s.blocks)] = Append(@, MarkAt("row", d.id, ctx, row, d.h)),
                                   !.row = row + d.h, !.left = s.room - (row - s.y), !.h = d.h]
NextRow(s, d, ctx) ==
  IF d.h <= s.room - (s.row - s.y) THEN RowAt(s, d, ctx, s.row)
  ELSE RowAt([s EXCEPT !.blocks = Append(@, << >>), !.y = Margin, !.room = ctx.ph - 2 * Margin], d, ctx, Margin)
Tabled(s, ctx) == [blocks |-> s.blocks, context |-> [ctx EXCEPT !.y = s.row, !.h = s.left]]
TableOn(d, ctx) == Tabled(FoldLeft(LAMBDA s, i : NextRow(s, d, ctx), TableStart(ctx), [i \in 1..d.rows |-> i]), ctx)

GeneratePageBlocks(d, ctx) ==
  CASE d.kind = "text" -> Paragraph("text", d, d.h, ctx)
    [] d.kind = "image" -> ImageOn(d, ctx)
    [] d.kind = "block" -> BlockOn(d, ctx)
    [] d.kind = "break" -> BreakOn(ctx)
    [] d.kind = "table" -> TableOn(d, ctx)

\* Mutant of Spliced: the further pages are lost.
OnlyTheFirst(blocks, new) == [blocks EXCEPT ![Len(blocks)] = @ \o new[1]]

\* The first of the new blocks goes on the page the last of the old ones is.
Spliced(blocks, new) ==
  [blocks EXCEPT ![Len(blocks)] = @ \o new[1]] \o SubSeq(new, 2, Len(new))

(***************************************************************************)
(* Draw's second half: blocks onto pages.                                  *)
(***************************************************************************)
drawToPage(b, marks) == [b EXCEPT !.sheets[getActivePage(b)].marks = @ \o marks]
DrawBlocks(b, blocks) ==
  FoldLeft(LAMBDA c, marks : drawToPage(NewPageOf(c), marks), drawToPage(b, blocks[1]),
           SubSeq(blocks, 2, Len(blocks)))
\* Mutant of MoveContext: the height stays as it was.
HeightLeftBehind(b, ctx) == [b EXCEPT !.context.y = ctx.y]

\* The height of the context is what is left of the page.
MoveContext(b, ctx) == [b EXCEPT !.context.y = ctx.y, !.context.h = ctx.ph - ctx.y - Margin]
OnSomePage(b) == IF getActivePage(b) = NoPage THEN NewPageOf(b) ELSE b
Emitted(b, g) == MoveContext(DrawBlocks(b, g.blocks), g.context)
DrawLeaf(b, d) == Emitted(b, GeneratePageBlocks(d, b.context))

(***************************************************************************)
(* Chapters.                                                               *)
(***************************************************************************)
NoChapter == 0
NewChapterOf(parent, inTOC) ==
  [parent |-> parent, contents |-> << >>, item |-> NoItem, items |-> << >>, inTOC |-> inTOC, top |-> 0]
AddTo(b, c, d) == [b EXCEPT !.chapters[c].contents = Append(@, d)]
SubchapterOf(c) == [kind |-> "chapter", id |-> c, h |-> 0, top |-> 0, bottom |-> 0, rows |-> 0]
IsChapter(d) == d.kind = "chapter"

\* The line a chapter leaves in the table of contents; its paragraph has no text before it is first drawn.
TOCLine(c, page, y) == [chapter |-> c, page |-> page, link |-> page, y |-> y, drawn |-> FALSE]
WithLine(b, c, page, y) == IF ~b.chapters[c].inTOC THEN b ELSE [b EXCEPT !.toc = Append(@, TOCLine(c, page, y))]
\* Mutant of WithItem: a chapter that is drawn again gets a second item.
ItemTwice(b, c, page, y) ==
  LET here == [b EXCEPT !.chapters[c].item = [page |-> page - 1, y |-> y]]
      parent == b.chapters[c].parent
  IN IF parent = NoChapter THEN [here EXCEPT !.outline = Append(@, c)]
     ELSE [here EXCEPT !.chapters[parent].items = Append(@, c)]

\* The outline item: made and put under the parent's once, and moved when the chapter is drawn again.
WithItem(b, c, page, y) ==
  LET here == [b EXCEPT !.chapters[c].item = [page |-> page - 1, y |-> y]]
      parent == b.chapters[c].parent
  IN IF b.chapters[c].item # NoItem THEN here
     ELSE IF parent = NoChapter THEN [here EXCEPT !.outline = Append(@, c)]
     ELSE [here EXCEPT !.chapters[parent].items = Append(@, c)]
NeedsParentItem(b, c) ==
  b.chapters[c].item = NoItem /\ b.chapters[c].parent # NoChapter /\ b.chapters[b.chapters[c].parent].item = NoItem

HeadingOf(c) == [kind |-> "text", id |-> c, h |-> HeadingHeight, top |-> 0, bottom |-> 0, rows |-> 0]
HeadingOn(b, c, ctx) ==
  Paragraph("heading", HeadingOf(c), HeadingHeight, Within(ctx, [top |-> b.chapters[c].top, bottom |-> 0]))

\* Mutant of Headed: the page the chapter begins on before its heading is placed.
PageBeforeHeading(j, b, c, g) ==
  [job |-> [j EXCEPT !.stack = Append(@, b.chapters[c].contents), !.context = g.context,
                     !.blocks = IF @ = << >> THEN g.blocks ELSE Spliced(@, g.blocks)],
   book |-> WithItem(WithLine(b, c, j.context.page, g.context.y - HeadingHeight), c, j.context.page,
                     g.context.y - HeadingHeight)]

\* The heading is generated, and with where it is the line and the item.
Headed(j, b, c, g) ==
  [job |-> [j EXCEPT !.stack = Append(@, b.chapters[c].contents), !.context = g.context,
                     !.blocks = IF @ = << >> THEN g.blocks ELSE Spliced(@, g.blocks)],
   book |-> WithItem(WithLine(b, c, g.context.page, g.context.y - HeadingHeight), c, g.context.page,
                     g.context.y - HeadingHeight)]

(***************************************************************************)
(* The table of contents.                                                  *)
(***************************************************************************)
TocPiece(h, bottom) == [id |-> 0, h |-> h, top |-> 0, bottom |-> bottom]
LineMeasured(line) == IF line.drawn THEN LineHeightOfTOC ELSE 0
TocLineOn(s, line, g) == [blocks |-> Spliced(s.blocks, g.blocks), context |-> g.context]
GenerateTOC(b) ==
  FoldLeft(LAMBDA s, line :
             TocLineOn(s, line, Paragraph("line", [TocPiece(LineHeightOfTOC, 0) EXCEPT !.id = line.chapter],
                                          LineMeasured(line), s.context)),
           Paragraph("toc", TocPiece(HeadingHeight, 1), HeadingHeight, b.context), b.toc)

(***************************************************************************)
(* finalize, step by step.  generated: genpages; total: totPages; front,   *)
(* tocs: the pages made in front of the others.                            *)
(***************************************************************************)
Idle == [mode |-> "client", stack |-> << >>, blocks |-> << >>, context |-> ContextOf(0, 0), generated |-> 0,
         total |-> 0, tocs |-> << >>]
Estimate(b) == GenerateTOC([initContext(b) EXCEPT !.context.page = 1 + (IF b.options.front THEN 1 ELSE 0)])
\* "Update the table of content Page numbers, accounting for front Page and TOC."
Counted(b, generated) ==
  [b EXCEPT !.toc = [i \in DOMAIN @ |-> [@[i] EXCEPT !.page = @ + generated, !.drawn = TRUE]],
            !.context = ContextOf(b.size, 1 + (IF b.options.front THEN 1 ELSE 0))]

\* The front page goes before all others and is the one that is drawn on.
FrontLeaf == [kind |-> "text", id |-> 0, h |-> 4, top |-> 0, bottom |-> 0, rows |-> 0]
WithFront(b) ==
  LET n == newPage(b) IN
  Emitted([n EXCEPT !.pages = <<LastSheet(n)>> \o @, !.active = LastSheet(n)],
          Paragraph("front", FrontLeaf, FrontLeaf.h, n.context))

\* Mutant of LinksMoved: the links are not moved.
LinksLeft(b, generated) == b

LinksMoved(b, generated) == [b EXCEPT !.toc = [i \in DOMAIN @ |-> [@[i] EXCEPT !.link = @ + generated]]]
\* One block of the table of contents, on a page that is not yet among the others.
TocPage(b, marks) ==
  LET n == newPage(b) IN
  MoveContext(drawToPage([n EXCEPT !.active = LastSheet(n)], marks), n.context)
TocPages(b, blocks) == FoldLeft(TocPage, b, blocks)
\* Mutant of PagesWith: the table of contents goes before the front page.
ContentsFirst(b, tocs) == tocs \o b.pages

PagesWith(b, tocs) ==
  IF b.options.front THEN <<b.pages[1]>> \o tocs \o SubSeq(b.pages, 2, Len(b.pages)) ELSE tocs \o b.pages

\* Every item of the outline, moved and turned upside down with the height of the current page size.
ItemMoved(item, generated, size) ==
  IF item = NoItem THEN item ELSE [page |-> item.page + generated, y |-> size - item.y]
OutlineMoved(b, generated) ==
  [b EXCEPT !.chapters = [c \in DOMAIN @ |-> [@[c] EXCEPT !.item = ItemMoved(@, generated, b.size)]],
            !.tocItem = IF b.options.toc THEN (IF b.options.front THEN 1 ELSE 0) ELSE @]

HeaderMark(b, n, total, what, y) == [what |-> what, of |-> n, top |-> b.context.ph - y, h |-> Margin, total |-> total]
\* Mutant of HeadersOn: the page that is drawn on is not changed.
DrawnOnActive(b, n, total) ==
  IF ~b.options.headers THEN b
  ELSE MoveContext(drawToPage(b, <<HeaderMark(b, n, total, "header", 0),
                                   HeaderMark(b, n, total, "footer", b.size - Margin)>>), b.context)

HeadersOn(b, n, total) ==
  IF ~b.options.headers THEN [b EXCEPT !.active = b.pages[n]]
  ELSE MoveContext(drawToPage([b EXCEPT !.active = b.pages[n]],
                              <<HeaderMark(b, n, total, "header", 0),
                                HeaderMark(b, n, total, "footer", b.size - Margin)>>), b.context)

(***************************************************************************)
(* The client's calls.                                                     *)
(***************************************************************************)
BookOf(start) ==
  [pages |-> << >>, sheets |-> << >>, active |-> NoPage, size |-> start.size,
   context |-> [page |-> 0, y |-> 0, h |-> 0, ph |-> 0], chapters |-> start.chapters, outline |-> << >>, toc |-> << >>,
   tocItem |-> -1, options |-> start.options, finalized |-> FALSE,
   given |-> << >>, loose |-> FALSE, tabled |-> FALSE, spoilt |-> FALSE]
NoStart == [options |-> [toc |-> FALSE, front |-> FALSE, headers |-> FALSE, tocFails |-> FALSE], chapters |-> << >>,
            size |-> 0]
CreatorInit == book = BookOf(NoStart) /\ job = [Idle EXCEPT !.mode = "none"] /\ made = 0

\* New, and what a client sets up before it draws.
New ==
  /\ job.mode = "none"
  /\ \E start \in StartBooks : book' = BookOf(start)
  /\ job' = Idle /\ UNCHANGED made

MayCall == job.mode = "client" /\ made < MaxClientCalls
CallMade(b) == made' = made + 1 /\ book' = b /\ UNCHANGED job

NewPage == MayCall /\ CallMade(NewPageOf(book))
AddPage == MayCall /\ \E height \in AddedSizes : CallMade(AddPageOf(book, height))
SetPageSize == MayCall /\ \E height \in NewSizes : CallMade([book EXCEPT !.size = height, !.loose = TRUE])
MoveTo == MayCall /\ \E y \in MovesTo : CallMade([book EXCEPT !.context.y = y, !.loose = TRUE])

NewChapter ==
  /\ MayCall /\ Len(book.chapters) < MaxChapters
  /\ CallMade([book EXCEPT !.chapters = Append(@, NewChapterOf(NoChapter, TRUE))])
NewSubchapter ==
  /\ MayCall /\ Len(book.chapters) < MaxChapters
  /\ \E c \in DOMAIN book.chapters :
       CallMade([AddTo(book, c, SubchapterOf(Len(book.chapters) + 1)) EXCEPT
                 !.chapters = Append(@, NewChapterOf(c, TRUE))])
AddContent == MayCall /\ \E c \in DOMAIN book.chapters, d \in Leaves : CallMade(AddTo(book, c, d))

\* Draw of anything but a chapter: one that cannot be generated leaves nothing but the page there was none of.
IsBad(d) == d.kind = "bad"
DrawDrawable ==
  /\ MayCall
  /\ \E d \in Leaves :
       CallMade(IF IsBad(d) THEN OnSomePage(book)
              ELSE [DrawLeaf(OnSomePage(book), d) EXCEPT
                      !.given = IF d.kind \in {"break", "table"} THEN @ ELSE Append(@, [what |-> d.kind, of |-> d.id])])

(***************************************************************************)
(* Draw of a chapter: its heading, its contents, and those of the chapters *)
(* among them.                                                             *)
(***************************************************************************)
RECURSIVE Reading(_, _)
\* What a chapter gives to read, one thing after the other.
Reading(chapters, c) ==
  <<[what |-> "heading", of |-> c]>>
    \o FoldLeft(LAMBDA all, d : all \o (IF IsChapter(d) THEN Reading(chapters, d.id)
                                        ELSE IF d.kind \in {"break", "table"} THEN << >>
                                        ELSE <<[what |-> d.kind, of |-> d.id]>>),
                << >>, chapters[c].contents)

BeginChapter ==
  /\ MayCall
  /\ \E c \in DOMAIN book.chapters :
       /\ book' = OnSomePage(book)
       /\ job' = [Idle EXCEPT !.mode = "generating", !.stack = << <<SubchapterOf(c)>> >>,
                              !.context = OnSomePage(book).context, !.generated = c]
  /\ made' = made + 1

Top == job.stack[Len(job.stack)]
Content == Top[1]
Rest == [job EXCEPT !.stack[Len(job.stack)] = Tail(@)]
Generating == job.mode = "generating" /\ job.stack # << >>

\* A chapter: its heading first.  A subchapter whose parent was never drawn has no item to put its own under.
EnterChapter ==
  /\ Generating /\ Top # << >> /\ IsChapter(Content) /\ ~NeedsParentItem(book, Content.id)
  /\ LET next == Headed(Rest, book, Content.id, HeadingOn(book, Content.id, job.context)) IN
       book' = next.book /\ job' = next.job
  /\ UNCHANGED made

Panic ==
  /\ Generating /\ Top # << >> /\ IsChapter(Content) /\ NeedsParentItem(book, Content.id)
  /\ job' = [job EXCEPT !.mode = "panic"]
  /\ UNCHANGED <<book, made>>

Generated(g) == [Rest EXCEPT !.blocks = Spliced(@, g.blocks), !.context = g.context]
GenerateContent ==
  /\ Generating /\ Top # << >> /\ ~IsChapter(Content) /\ ~IsBad(Content)
  /\ job' = Generated(GeneratePageBlocks(Content, job.context))
  /\ book' = [book EXCEPT !.tabled = @ \/ (Content.kind = "table" /\ Len(TableOn(Content, job.context).blocks) > 1),
                          !.loose = @ \/ Content.kind \in {"table", "block"}]
  /\ UNCHANGED made

\* Nothing is drawn, though the lines and the items are there.
GenerateFails ==
  /\ Generating /\ Top # << >> /\ IsBad(Content)
  /\ job' = Idle /\ book' = [book EXCEPT !.spoilt = TRUE]
  /\ UNCHANGED made

LeaveChapter ==
  /\ Generating /\ Top = << >>
  /\ job' = [job EXCEPT !.stack = SubSeq(@, 1, Len(@) - 1)]
  /\ UNCHANGED <<book, made>>

EndChapter ==
  /\ job.mode = "generating" /\ job.stack = << >>
  /\ book' = [Emitted(book, job) EXCEPT !.given = @ \o Reading(book.chapters, job.generated)]
  /\ job' = Idle
  /\ UNCHANGED made

(***************************************************************************)
(* Write.  That finalize failed is not looked at.                          *)
(***************************************************************************)
BeginWrite ==
  /\ MayCall
  /\ job' = IF book.finalized THEN [Idle EXCEPT !.mode = "written"]
             ELSE [Idle EXCEPT !.mode = "counting", !.total = Len(book.pages)]
  /\ made' = made + 1 /\ UNCHANGED book

CountPages ==
  /\ job.mode = "counting"
  /\ IF book.options.toc
     THEN LET generated == (IF book.options.front THEN 1 ELSE 0) + Len(Estimate(book).blocks) IN
            job' = [job EXCEPT !.mode = "front", !.generated = generated] /\ book' = Counted(book, generated)
     ELSE job' = [job EXCEPT !.mode = "front", !.generated = IF book.options.front THEN 1 ELSE 0] /\ UNCHANGED book
  /\ UNCHANGED made

\* The client's function for the table of contents fails: Write writes the pages as they are.
TOCFails ==
  /\ job.mode \in {"counting", "tocs"} /\ book.options.toc /\ book.options.tocFails
  /\ job' = [job EXCEPT !.mode = "written"] /\ book' = [book EXCEPT !.spoilt = TRUE]
  /\ UNCHANGED made

MakeFront ==
  /\ job.mode = "front"
  /\ book' = IF book.options.front THEN WithFront(book) ELSE book
  /\ job' = [job EXCEPT !.mode = "tocs", !.total = @ + (IF book.options.front THEN 1 ELSE 0)]
  /\ UNCHANGED made

MakeTOC ==
  /\ job.mode = "tocs" /\ book.options.toc
  /\ LET ready == LinksMoved(initContext(book), job.generated)
         blocks == GenerateTOC(ready).blocks
         tocs == [i \in DOMAIN blocks |-> LastSheet(book) + i]
         drawn == TocPages(ready, blocks)
     IN /\ book' = [drawn EXCEPT !.pages = PagesWith(drawn, tocs)]
        /\ job' = [job EXCEPT !.mode = "outline", !.tocs = tocs, !.total = @ + Len(tocs)]
  /\ UNCHANGED made
NoTOC ==
  /\ job.mode = "tocs" /\ ~book.options.toc
  /\ job' = [job EXCEPT !.mode = "outline"]
  /\ UNCHANGED <<book, made>>

MoveOutline ==
  /\ job.mode = "outline"
  /\ book' = OutlineMoved(book, job.generated)
  /\ job' = [job EXCEPT !.mode = "headers"]
  /\ UNCHANGED made

DrawHeaders ==
  /\ job.mode = "headers"
  /\ book' = [FoldLeft(LAMBDA b, n : HeadersOn(b, n, job.total), book, [n \in DOMAIN book.pages |-> n])
               EXCEPT !.finalized = TRUE]
  /\ job' = [job EXCEPT !.mode = "written"]
  /\ UNCHANGED made

\* The pages are handed to the writer; the client may go on.
EndWrite == job.mode = "written" /\ job' = Idle /\ UNCHANGED <<book, made>>

CreatorNext ==
  New \/ NewPage \/ AddPage \/ SetPageSize \/ MoveTo \/ NewChapter \/ NewSubchapter \/ AddContent
  \/ DrawDrawable
  \/ BeginChapter \/ EnterChapter \/ Panic \/ GenerateContent \/ GenerateFails \/ LeaveChapter \/ EndChapter
  \/ BeginWrite \/ CountPages \/ TOCFails \/ MakeFront \/ MakeTOC \/ NoTOC \/ MoveOutline \/ DrawHeaders \/ EndWrite
CreatorIdle == job.mode = "none"
CreatorSpec == CreatorInit /\ [][CreatorNext]_creatorVars

(***************************************************************************)
(* What should hold.                                                       *)
(***************************************************************************)
MarksOn(sheet) == book.sheets[sheet].marks
IsContent(mark) == mark.what \in {"heading", "text", "image", "block"}
SheetsOf(what, of) ==
  {s \in DOMAIN book.sheets : \E i \in DOMAIN MarksOn(s) : MarksOn(s)[i].what = what /\ MarksOn(s)[i].of = of}
\* The document as the first Write hands it over.
JustFinalized == job.mode = "written" /\ job.total > 0 /\ ~book.spoilt

\* Whatever is drawn is on the pages in the order it was drawn, nothing twice, nothing left out (Draw).
InReadingOrder ==
  job.mode = "client" =>
    FoldLeft(LAMBDA all, sheet : all \o [i \in DOMAIN SelectSeq(sheet.marks, IsContent) |->
                                           [what |-> SelectSeq(sheet.marks, IsContent)[i].what,
                                            of |-> SelectSeq(sheet.marks, IsContent)[i].of]], << >>, book.sheets)
      = book.given

\* Until the document is finalized the context counts the pages, and drawing is on the last of them.
ContextCounts == job.mode = "client" /\ ~book.finalized /\ ~book.spoilt =>
                   book.context.page = Len(book.pages) /\ book.active = NoPage

\* Nothing is below the bottom margin, or above the top one, unless it is higher than a page or a block; that is so as long as no
\* client moves the context, changes the page size or adds a page, none of which sets the height of the context, and no
\* chapter goes on after a block or a table, which leave a height that is too much.
\* An image is asked whether it fits before its margins are taken off: it may stick out by its upper one.
SticksOut(mark) == IF mark.what = "image" THEN (CHOOSE d \in Leaves : d.id = mark.of).top ELSE 0
InsideMargins ==
  ~book.loose =>
    \A s \in DOMAIN book.sheets : \A i \in DOMAIN MarksOn(s) :
      MarksOn(s)[i].what \notin {"header", "footer", "block"}
        /\ MarksOn(s)[i].h <= book.sheets[s].height - 2 * Margin =>
        /\ MarksOn(s)[i].top <= book.sheets[s].height - Margin
        /\ MarksOn(s)[i].top - MarksOn(s)[i].h >= Margin - SticksOut(MarksOn(s)[i])
\* Nor is one thing drawn over another.
NothingOverdrawn ==
  ~book.loose /\ (~book.finalized \/ JustFinalized) /\ ~book.spoilt =>
    \A s \in DOMAIN book.sheets : \A i, j \in DOMAIN MarksOn(s) :
      i < j /\ {MarksOn(s)[i].what, MarksOn(s)[j].what} \cap {"header", "footer"} = {} =>
        MarksOn(s)[i].top - MarksOn(s)[i].h >= MarksOn(s)[j].top

\* The front page, the table of contents, and the client's pages in their order (finalize).
PagesInOrder ==
  JustFinalized =>
    /\ Len(book.pages) = job.total
    /\ \A i, j \in DOMAIN book.pages : i # j => book.pages[i] # book.pages[j]
    /\ LET before == (IF book.options.front THEN 1 ELSE 0) + Len(job.tocs)
           own == SubSeq(book.pages, before + 1, Len(book.pages))
       IN /\ \A i \in 1..(Len(own) - 1) : own[i] < own[i + 1]
          /\ \A i \in DOMAIN job.tocs : book.pages[before - Len(job.tocs) + i] = job.tocs[i]
          /\ book.options.front => SheetsOf("front", 0) = {book.pages[1]}

\* Every page has one header and one footer, with its own number and the number of all pages.
NumberOf(s, what) == SelectSeq(MarksOn(s), LAMBDA m : m.what = what)
HeadersNumbered ==
  JustFinalized /\ book.options.headers =>
    \A n \in DOMAIN book.pages : \A what \in {"header", "footer"} :
      LET marks == NumberOf(book.pages[n], what) IN
        Len(marks) = 1 /\ marks[1].of = n /\ marks[1].total = Len(book.pages)

\* The lines of the table of contents, their links, and the items of the outline name the page their chapter is on.
\* A chapter that was drawn twice has two of each.
OnOnePage(c) == \E s \in DOMAIN book.sheets :
                  /\ SheetsOf("heading", c) = {s}
                  /\ Len(SelectSeq(MarksOn(s), LAMBDA m : m.what = "heading" /\ m.of = c)) = 1
PageNumberOf(c) == CHOOSE n \in DOMAIN book.pages : book.pages[n] \in SheetsOf("heading", c)
LinesTrue == \A i \in DOMAIN book.toc : book.options.toc /\ OnOnePage(book.toc[i].chapter) =>
               /\ book.toc[i].page = PageNumberOf(book.toc[i].chapter)
               /\ book.toc[i].link = book.toc[i].page
ItemsTrue == \A c \in DOMAIN book.chapters : book.chapters[c].item # NoItem /\ OnOnePage(c) =>
               book.chapters[c].item.page = PageNumberOf(c) - 1

\* That is so if the table of contents is as long as was estimated before its lines had any text, and no table in a
\* chapter breaks: its pages are not counted.
EstimateRight == job.generated = (IF book.options.front THEN 1 ELSE 0) + Len(job.tocs)
NumbersTrue == JustFinalized /\ EstimateRight /\ ~book.tabled => LinesTrue /\ ItemsTrue
\* "Update the table of content Page numbers, accounting for front Page and TOC." (creator.go:363)
ContentsAccounted == JustFinalized => LinesTrue

\* Drawn twice, a chapter has one item in the outline, under its parent's, and it points to the heading.
OutlineSound ==
  /\ \A i, j \in DOMAIN book.outline : i # j => book.outline[i] # book.outline[j]
  /\ \A c \in DOMAIN book.chapters :
       book.chapters[c].item # NoItem =>
         c \in {(IF book.chapters[c].parent = NoChapter THEN book.outline
                 ELSE book.chapters[book.chapters[c].parent].items)[i] :
                  i \in DOMAIN (IF book.chapters[c].parent = NoChapter THEN book.outline
                                ELSE book.chapters[book.chapters[c].parent].items)}
  /\ JustFinalized /\ ~book.loose =>
       \A c \in DOMAIN book.chapters : book.chapters[c].item # NoItem /\ OnOnePage(c) =>
         \A s \in SheetsOf("heading", c) : \E i \in DOMAIN MarksOn(s) :
           MarksOn(s)[i].what = "heading" /\ MarksOn(s)[i].of = c /\ MarksOn(s)[i].top = book.chapters[c].item.y

\* All of it: what a creator draws and writes (creator.go, chapters.go, toc.go).
CreatorSound ==
  /\ InReadingOrder /\ ContextCounts /\ InsideMargins /\ NothingOverdrawn /\ PagesInOrder /\ HeadersNumbered
  /\ NumbersTrue /\ OutlineSound
=============================================================================

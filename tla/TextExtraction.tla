----------------------------- MODULE TextExtraction -----------------------------
(***************************************************************************)
(* The extractor: the text of a page with its position on it, as the       *)
(* handler of the content stream processor collects it operation by        *)
(* operation, the images with theirs, and the lines the text is joined to. *)
(*                                                                         *)
(* A page and a form are operations with the name of their resources;      *)
(* frames are the page and the forms being read in it.  Numbers of TJ and  *)
(* widths of glyphs are thousands of glyph units, and matrices turn by     *)
(* quarters only, so that all coordinates are whole.                       *)
(***************************************************************************)
EXTENDS ContentStream
LOCAL INSTANCE SequencesExt
LOCAL INSTANCE FiniteSetsExt

CONSTANTS
  Fonts,          \* function: resources -> (name -> font, [glyphs: code -> [text, wx], space])
  DefaultFont,    \* Helvetica, with every glyph
  Forms,          \* function: resources -> (name -> [ops, own]), own the form's resources or << >>
  PageImages,     \* function: resources -> names of images
  Pieces,         \* sequences of operations of which pages are made
  LongPieces,     \* those of which longer pages are made
  MaxPieces, MaxLongPieces, MaxForms, MaxFontCache,
  Marks, MaxMarks  \* marks of which page texts are made

VARIABLE txt  \* [step, page, pieces, long, frames, cache, results, res, marks]

(***************************************************************************)
(* Marks.                                                                  *)
(***************************************************************************)
Abs(n) == IF n < 0 THEN -n ELSE n
\* Matrix.Angle and its nearest multiple, ScalingFactorX and -Y.
Angle(m) == IF m[2] = 0 THEN (IF m[1] < 0 THEN 180 ELSE 0) ELSE IF m[2] > 0 THEN 270 ELSE 90
ScalingX(m) == Abs(m[1]) + Abs(m[2])
ScalingY(m) == Abs(m[3]) + Abs(m[4])
\* Point.Rotate.
Rotate(x, y, theta) ==
  CASE theta = 0 -> <<x, y>> [] theta = 90 -> <<-y, x>> [] theta = 180 -> <<-x, -y>> [] theta = 270 -> <<y, -x>>
Translation(x, y) == <<1, 0, 0, 1, x, y>>
\* newTextMark, of the rendering matrix and where the character ends.
TextMark(text, trm, end, space) ==
  [text |-> text, orient |-> Angle(trm), start |-> Rotate(trm[5], trm[6], Angle(trm)), end |-> Rotate(end[5], end[6], Angle(trm)),
   height |-> IF Angle(trm) % 180 = 90 THEN ScalingX(trm) ELSE ScalingY(trm), space |-> space * ScalingX(trm)]

(***************************************************************************)
(* The text object and its state.                                          *)
(***************************************************************************)
NewState == [tc |-> 0, tw |-> 0, th |-> 100, tl |-> 0, tfs |-> 0, trise |-> 0]
NewTextObject(ctm) == [ctm |-> ctm, tm |-> Identity, tlm |-> Identity, marks |-> << >>]
Frame(ops, res, form) ==
  [ops |-> ops, res |-> res, form |-> form, st |-> Step("ok", InitialState, << >>), state |-> NewState, fonts |-> << >>, tfont |-> << >>,
   to |-> << >>, marks |-> << >>]

\* Mutant of MoveTo.
MoveToPoint(to, x, y) == LET m == Concat(to.tm, Translation(x, y)) IN [to EXCEPT !.tlm = m, !.tm = m]

\* moveTo.
MoveTo(to, x, y) == LET m == Concat(to.tlm, Translation(x, y)) IN [to EXCEPT !.tlm = m, !.tm = m]

\* getCurrentFont.
CurrentFont(f) == IF f.fonts = << >> THEN DefaultFont ELSE Last(f.fonts)
\* Mutant of Advance.
AdvanceUnscaled(s, glyph, spacing) == glyph.wx * s.tfs + spacing + (IF glyph.text = " " THEN s.tw ELSE 0)

\* How far the text moves with a glyph, in renderText.
Advance(s, glyph, spacing) == ((glyph.wx * s.tfs + spacing + (IF glyph.text = " " THEN s.tw ELSE 0)) * s.th) \div 100
\* One turn of renderText: NUL is passed over; a glyph without a width ends it.
RenderGlyph(to, s, font, glyph) ==
  [to EXCEPT
     !.marks = Append(@, TextMark(glyph.text, Concat(Concat(to.ctm, to.tm), <<(s.tfs * s.th) \div 100, 0, 0, s.tfs, 0, s.trise>>),
                                  Concat(Concat(to.ctm, to.tm), Translation(Advance(s, glyph, 0), 0)), font.space)),
     !.tm = Concat(@, Translation(Advance(s, glyph, s.tc), 0))]
Rendered(to, s, font, codes) ==
  FoldLeft(LAMBDA at, code :
             LET glyph == font.glyphs[code]
             IN  IF ~at.ok \/ glyph.text = "NUL" THEN at
                 ELSE IF glyph.wx < 0 THEN [at EXCEPT !.ok = FALSE]
                 ELSE [at EXCEPT !.to = RenderGlyph(@, s, font, glyph)],
           [ok |-> TRUE, to |-> to], codes)

\* What a handler leaves: how it ended and the frame.
Ends(res, f) == [res |-> res, f |-> f]
Ok2(f) == Ends("ok", f)
ShowText(f, codes) ==
  IF f.to = << >> THEN Ends("panic", f)
  ELSE LET r == Rendered(f.to[1], f.state, CurrentFont(f), codes)
       IN  Ends(IF r.ok THEN "ok" ELSE "err", [f EXCEPT !.to = <<r.to>>])
\* showTextAdjusted: what renderText says is not heeded.
RECURSIVE ShowAdjusted(_, _)
ShowAdjusted(f, args) ==
  IF args = << >> THEN Ok2(f)
  ELSE LET a == Head(args)
       IN  CASE "num" \in DOMAIN a /\ f.to # << >> ->
                  ShowAdjusted([f EXCEPT !.to[1].tm = Concat(@, Translation(-a.num * f.state.tfs, 0))], Tail(args))
             [] "str" \in DOMAIN a /\ f.to # << >> -> ShowAdjusted(ShowText(f, a.str).f, Tail(args))
             [] {"num", "str"} \cap DOMAIN a # {} /\ f.to = << >> -> Ends("panic", f)
             [] OTHER -> Ends("err", f)
NextLine(f) ==
  IF f.to = << >> THEN Ends("panic", f) ELSE Ok2([f EXCEPT !.to[1] = MoveTo(@, 0, -f.state.tl)])
ThenShow(moved, codes) == IF moved.res = "ok" THEN ShowText(moved.f, codes) ELSE moved

(***************************************************************************)
(* The handler of extractPageText, by operators.                           *)
(***************************************************************************)
Setters == [Tc |-> "tc", Tw |-> "tw", Tz |-> "th", TL |-> "tl", Ts |-> "trise"]
\* The setters pass over what comes outside of a text object.
SetParameter(f, word, params) ==
  IF Len(params) # 1 \/ ~AllNums(params) THEN Ends("err", f)
  ELSE IF f.to = << >> \/ word = "Tr" THEN Ok2(f)
  ELSE Ok2([f EXCEPT !.state = [@ EXCEPT ![Setters[word]] = params[1].num]])

\* Mutant of SaveFont.
SaveFontOnce(f) == [f EXCEPT !.fonts = @ \o f.tfont]

\* q pushes the font it finds twice, and Q takes away two.
SaveFont(f) ==
  LET once == IF f.fonts = << >> THEN << >> ELSE Append(f.fonts, Last(f.fonts))
  IN  [f EXCEPT !.fonts = once \o f.tfont]
RestoreFont(f) ==
  LET once == IF f.fonts = << >> THEN << >> ELSE Front(f.fonts)
  IN  IF Len(once) >= 2 THEN [f EXCEPT !.fonts = Front(once), !.tfont = <<Last(once)>>] ELSE [f EXCEPT !.fonts = once]

BeginText(f) == [f EXCEPT !.to = <<NewTextObject(f.st.gs.ctm)>>]
EndText(f) ==
  IF f.to = << >> THEN Ends("panic", f) ELSE Ok2([f EXCEPT !.marks = @ \o f.to[1].marks, !.to = << >>])
Moved(f, word, params) ==
  IF Len(params) # 2 \/ ~AllNums(params) THEN Ends("err", f)
  ELSE IF f.to = << >> THEN Ends("panic", f)
  ELSE Ok2([f EXCEPT !.to[1] = MoveTo(@, params[1].num, params[2].num), !.state.tl = IF word = "TD" THEN -params[2].num ELSE @])
SetMatrix(f, params) ==
  IF Len(params) # 6 \/ ~AllNums(params) THEN Ends("err", f)
  ELSE IF f.to = << >> THEN Ends("panic", f)
  ELSE Ok2([f EXCEPT !.to[1].tm = Numbers(params), !.to[1].tlm = Numbers(params)])
Shown(f, word, params) ==
  IF Len(params) # 1 THEN Ends("err", f)
  ELSE IF word = "TJ" THEN (IF "arr" \in DOMAIN params[1] THEN ShowAdjusted(f, params[1].arr) ELSE Ok2(f))
  ELSE IF "str" \notin DOMAIN params[1] THEN Ends("err", f)
  ELSE ThenShow(IF word = "'" THEN NextLine(f) ELSE Ok2(f), params[1].str)
\* The quotation mark asks for one parameter and then takes three.
Quoted(f, params) == Ends(IF Len(params) = 1 THEN "panic" ELSE "err", f)
HandleText(f, word, params) ==
  CASE word = "q" -> Ok2(SaveFont(f))
    [] word = "Q" -> Ok2(RestoreFont(f))
    [] word = "BT" -> Ok2(BeginText(f))
    [] word = "ET" -> EndText(f)
    [] word = "T*" -> NextLine(f)
    [] word \in {"Td", "TD"} -> Moved(f, word, params)
    [] word = "Tm" -> SetMatrix(f, params)
    [] word \in {"Tj", "TJ", "'"} -> Shown(f, word, params)
    [] word = "\"" -> Quoted(f, params)
    [] word \in DOMAIN Setters \cup {"Tr"} -> SetParameter(f, word, params)
    [] OTHER -> Ok2(f)

(***************************************************************************)
(* Text joined to lines.  Averages are kept in units of 1 / Scale, and     *)
(* places in a line in halves.                                             *)
(***************************************************************************)
Scale == 64
\* ToText's tolerance, in tenths.
Tolerance(marks) == LET h == Max({0} \cup {marks[i].height : i \in DOMAIN marks}) IN IF 2 * h < 50 THEN 2 * h ELSE 50
\* Mutant of Before.
BeforeLower(a, b, tol) ==
  IF a.orient # b.orient THEN a.orient < b.orient
  ELSE IF 10 * Abs(a.start[2] - b.start[2]) > tol THEN a.start[2] < b.start[2] ELSE a.start[1] < b.start[1]

\* The comparison of sortPosition; with a tolerance it is no order.
Before(a, b, tol) ==
  IF a.orient # b.orient THEN a.orient < b.orient
  ELSE IF 10 * Abs(a.start[2] - b.start[2]) > tol THEN a.start[2] > b.start[2] ELSE a.start[1] < b.start[1]
\* sort.SliceStable of up to twenty: each in turn goes back while it is before its neighbour.
Inserted(s, m, tol) ==
  LET i == SelectLastInSeq(s, LAMBDA n : ~Before(m, n, tol)) IN SubSeq(s, 1, i) \o <<m>> \o SubSeq(s, i + 1, Len(s))
SortPosition(marks, tol) == FoldLeft(LAMBDA s, m : Inserted(s, m, tol), << >>, marks)

\* exponAve.update.
Update(ave, x) == IF ave = << >> THEN <<x * Scale>> ELSE <<(ave[1] + x * Scale) \div 2>>
MarkWidth(m) == Abs(m.start[1] - m.end[1])
\* Mutant of RemoveDuplicates.
RemoveDuplicatesAnywhere(words, ave) ==
  FoldLeft(LAMBDA kept, i : IF words[i].text = words[i - 1].text THEN kept ELSE Append(kept, words[i]),
           SubSeq(words, 1, 1), [i \in 1 .. Len(words) - 1 |-> i + 1])

\* removeDuplicates: words are [text, x]; a word goes if the one before it has its
\* text and lies no more than three tenths of the average width away.
RemoveDuplicates(words, ave) ==
  FoldLeft(LAMBDA kept, i : IF words[i].text = words[i - 1].text /\ (words[i].x - words[i - 1].x) * 5 * Scale <= 3 * ave
                            THEN kept ELSE Append(kept, words[i]),
           SubSeq(words, 1, 1), [i \in 1 .. Len(words) - 1 |-> i + 1])
\* A line ends.
WithLine(t) ==
  IF t.words = << >> THEN t.lines
  ELSE Append(t.lines, IF t.chars = << >> THEN t.words ELSE RemoveDuplicates(t.words, t.chars[1]))
\* Mutant of Broken.
BrokenStaysInLine(t, m) == [t EXCEPT !.lines = WithLine(t), !.words = << >>, !.y = m.start[2]]

Broken(t, m) == [t EXCEPT !.lines = WithLine(t), !.words = << >>, !.y = m.start[2], !.scanning = FALSE]
\* Where a word that stands for itself starts at most, times 10 * Scale.
NextWordX(t, m) ==
  LET char == 3 * t.chars[1]
      space == 5 * t.spaces[1]
  IN  10 * Scale * t.last + (IF m.space = 0 \/ char < space THEN char ELSE space)
Gap(t, m) == t.scanning /\ m.text # " " /\ NextWordX(t, m) < 10 * Scale * m.start[1]
Placed(t, m) ==
  [t EXCEPT !.words = @ \o (IF Gap(t, m) THEN <<[text |-> " ", x |-> t.last + m.start[1]]>> ELSE << >>)
                        \o <<[text |-> m.text, x |-> 2 * m.start[1]]>>,
            !.last = m.end[1], !.scanning = TRUE]
Measured(t, m) ==
  [t EXCEPT !.spaces = IF m.space = 0 THEN @ ELSE Update(@, m.space), !.chars = Update(@, MarkWidth(m))]
ToLine(t, m, tol) ==
  LET at == Measured(IF 10 * m.start[2] + tol < 10 * t.y THEN Broken(t, m) ELSE t, m) IN Placed(at, m)
\* toLinesOrient, of sorted marks of one orientation.
ToLinesOrient(marks, tol) ==
  IF marks = << >> THEN << >>
  ELSE WithLine(FoldLeft(LAMBDA t, m : ToLine(t, m, tol),
                         [lines |-> << >>, words |-> << >>, y |-> marks[1].start[2], scanning |-> FALSE, spaces |-> << >>,
                          chars |-> << >>, last |-> 0], marks))
\* ToText: the lines, each its words.
ToLines(sorted, tol) ==
  FlattenSeq([o \in 1 .. 4 |-> ToLinesOrient(SelectSeq(sorted, LAMBDA m : m.orient = 90 * (o - 1)), tol)])
ToText(marks) ==
  LET lines == ToLines(SortPosition(marks, Tolerance(marks)), Tolerance(marks))
  IN  [l \in DOMAIN lines |-> [i \in DOMAIN lines[l] |-> lines[l][i].text]]

(***************************************************************************)
(* Fonts and forms, by name, and the steps of an extraction.               *)
(***************************************************************************)
\* getFont: loaded fonts in the order of their loading, << >> if there is none;
\* the access of an entry that is found is set in a copy.
Cached(cache, name) == SelectInSeq(cache, LAMBDA e : e.name = name)
Load(cache, font) ==
  Append(IF Len(cache) >= MaxFontCache THEN Tail(cache) ELSE cache, font)
\* setFont.
WithFont(f, font, size) ==
  [f EXCEPT !.tfont = <<font>>, !.state.tfs = size,
            !.fonts = IF @ = << >> THEN <<font>> ELSE [@ EXCEPT ![Len(@)] = font]]

ExtractNone == [step |-> "idle", page |-> [ops |-> << >>, kind |-> "text"], pieces |-> 0, long |-> TRUE, frames |-> << >>, cache |-> << >>,
                results |-> << >>, res |-> "ok", marks |-> << >>]
ExtractIdle == txt = ExtractNone

Frames(f) == [txt.frames EXCEPT ![Len(txt.frames)] = f]
Reading == txt.step = "reading" /\ Last(txt.frames).ops # << >>
\* The operation that comes next, after the processor has done with it.
Next1 == Head(Last(txt.frames).ops)
Word == IF Len(Next1.op) = 1 THEN Next1.op[1] ELSE "?"
After == [Last(txt.frames) EXCEPT !.ops = Tail(@), !.st = Processed(@, Next1, << >>)]
Continue(f) == txt' = [txt EXCEPT !.frames = Frames(f)]
\* The text of the page so far, or the images of it all.
Stop(res) ==
  txt' = [txt EXCEPT !.step = "done", !.res = res, !.frames = << >>,
                     !.marks = IF txt.page.kind = "text" THEN txt.frames[1].marks ELSE IF res = "ok" THEN @ ELSE << >>]
Leave(end) == IF end.res = "ok" THEN Continue(end.f) ELSE Stop(end.res)

\* A client writes a page piece by piece.
AddPiece(piece) ==
  /\ txt.step \in {"idle", "writing"} /\ txt.pieces < (IF txt.long /\ piece \in LongPieces THEN MaxLongPieces ELSE MaxPieces)
  /\ txt' = [txt EXCEPT !.step = "writing", !.page.ops = @ \o piece, !.pieces = @ + 1, !.long = @ /\ piece \in LongPieces]
\* ExtractPageText, ExtractPageImages.
Extract(kind) ==
  /\ txt.step = "writing"
  /\ txt' = [txt EXCEPT !.step = "reading", !.page.kind = kind, !.frames = <<Frame(txt.page.ops, "page", << >>)>>]
\* ToText of any marks.
ChooseMarks(m) ==
  /\ txt.step \in {"idle", "marks"} /\ Len(txt.marks) < MaxMarks
  /\ txt' = [txt EXCEPT !.step = "marks", !.marks = Append(@, m)]

ProcessorStops == Reading /\ After.st.res # "ok" /\ Stop(After.st.res)
Going == Reading /\ After.st.res = "ok"

HandleOp ==
  Going /\ txt.page.kind = "text" /\ Word \notin {"Tf", "Do"} /\ Leave(HandleText(After, Word, Next1.params))

\* Tf makes a text object where there is none; a size that is no number is 0.
SelectFont(f, params) ==
  LET name == params[1].name[1]
      at == Cached(txt.cache, name)
      size == IF IsNum(params[2]) THEN params[2].num ELSE 0
  IN  IF at # 0 THEN Continue(WithFont(f, txt.cache[at].font, size))
      ELSE IF name \notin DOMAIN Fonts[f.res] THEN Stop("err")
      ELSE txt' = [txt EXCEPT !.frames = Frames(WithFont(f, Fonts[f.res][name], size)),
                              !.cache = Load(@, [name |-> name, font |-> Fonts[f.res][name]])]
HandleFont ==
  /\ Going /\ txt.page.kind = "text" /\ Word = "Tf"
  /\ LET p == Next1.params
         f == IF After.to = << >> THEN BeginText(After) ELSE After
     IN  IF Len(p) # 2 \/ "name" \notin DOMAIN p[1] THEN Stop("err") ELSE SelectFont(f, p)

\* Mutant of FormResult.
FormResultLast(name) == Len(txt.results)

\* What a form of that name gave before.
FormResult(name) == SelectInSeq(txt.results, LAMBDA r : r.name = name)
\* Mutant of EnterForm.
EnterFormHere(f, name) ==
  txt' = [txt EXCEPT !.frames = Append(Frames(f), [Frame(Forms[f.res][name].ops, f.res, <<name>>) EXCEPT !.st = f.st])]

EnterForm(f, name) ==
  LET form == Forms[f.res][name]
  IN  IF Len(txt.frames) > MaxForms THEN Stop("endless")
      ELSE txt' = [txt EXCEPT !.frames = Append(Frames(f), Frame(form.ops, IF form.own = << >> THEN f.res ELSE form.own[1], <<name>>))]
\* Do, for the text.
HandleForm ==
  /\ Going /\ txt.page.kind = "text" /\ Word = "Do"
  /\ LET p == Next1.params
         name == p[1].name[1]
     IN  IF p = << >> \/ "name" \notin DOMAIN p[1] THEN Stop("panic")
         ELSE IF name \notin DOMAIN Forms[After.res] THEN Continue(After)
         ELSE IF FormResult(name) # 0 THEN Continue([After EXCEPT !.marks = @ \o txt.results[FormResult(name)].marks])
         ELSE EnterForm(After, name)

\* The end of a form or of the page; text not ended is lost.
Finish ==
  /\ txt.step = "reading" /\ Last(txt.frames).ops = << >>
  /\ LET f == Last(txt.frames)
         up == txt.frames[Len(txt.frames) - 1]
     IN  IF Len(txt.frames) = 1 THEN Stop("ok")
         ELSE txt' = [txt EXCEPT !.frames = Append(Front(Front(@)), [up EXCEPT !.marks = @ \o f.marks]),
                                 !.results = IF txt.page.kind = "text" THEN Append(@, [name |-> f.form[1], marks |-> f.marks]) ELSE @]

\* processOperand: images where the transformation matrix puts them.
ImageMark(ctm) == [w |-> ScalingX(ctm), h |-> ScalingY(ctm), x |-> ctm[5], y |-> ctm[6], angle |-> Angle(ctm)]
Masks(op) == "image" \in DOMAIN op.params[1] /\ "IM" \in DOMAIN op.params[1].image.keys /\ op.params[1].image.keys["IM"] = [const |-> "true"]
Found(f) == txt' = [txt EXCEPT !.frames = Frames(f), !.marks = Append(@, ImageMark(f.st.gs.ctm))]
HandleImage ==
  /\ Going /\ txt.page.kind # "text"
  /\ LET p == Next1.params
         name == p[1].name[1]
     IN  CASE Word = "BI" /\ Len(p) = 1 ->
                IF Masks(Next1) /\ txt.page.kind = "images" THEN Continue(After) ELSE Found(After)
           [] Word = "Do" /\ Len(p) = 1 ->
                IF "name" \notin DOMAIN p[1] THEN Stop("err")
                ELSE IF name \in PageImages[After.res] THEN Found(After)
                ELSE IF name \in DOMAIN Forms[After.res] THEN EnterForm(After, name) ELSE Continue(After)
           [] OTHER -> Continue(After)

ExtractNext ==
  \/ \E piece \in Pieces \cup LongPieces : AddPiece(piece)
  \/ \E kind \in {"text", "images", "masks"} : Extract(kind)
  \/ \E m \in Marks : ChooseMarks(m)
  \/ ProcessorStops
  \/ HandleOp
  \/ HandleFont
  \/ HandleForm
  \/ HandleImage
  \/ Finish

(***************************************************************************)
(* The text of a page as the standard has it: the graphics state with the  *)
(* text state in it is saved and restored as one, a form goes on with it,  *)
(* and a place in text is taken through the text matrix and every          *)
(* transformation around it, the innermost first.                          *)
(***************************************************************************)
Through(m, p) == <<p[1] * m[1] + p[2] * m[3] + m[5], p[1] * m[2] + p[2] * m[4] + m[6]>>
OnPage(cms, p) == FoldRight(LAMBDA m, q : Through(m, q), cms, p)
WalkStart == [plain |-> TRUE, state |-> NewState, font |-> << >>, cms |-> << >>, saved |-> << >>, text |-> << >>, out |-> << >>,
              used |-> {}]
\* How far a glyph moves on.
Displacement(s, glyph, spacing) ==
  (s.th * (glyph.wx * s.tfs + (IF glyph.text = " " THEN s.tw ELSE 0) + spacing)) \div 100
\* A glyph at its place; text is <<matrix, start of the line, distance>>.
WalkGlyph(w, glyph, inForm) ==
  LET x == w.text[1].line[1] + w.text[1].x
      place(dx, dy) == OnPage(w.cms, Through(w.text[1].m, <<x + dx, w.text[1].line[2] + dy>>))
  IN  IF glyph.text = "NUL" THEN w
      ELSE [w EXCEPT !.plain = @ /\ glyph.wx >= 0,
                     !.out = Append(@, [text |-> glyph.text, at |-> place(0, w.state.trise), to |-> place(Displacement(w.state, glyph, 0), 0),
                                        flat |-> w.state.trise = 0, inForm |-> inForm, wide |-> Displacement(w.state, glyph, 0)]),
                     !.text[1].x = @ + Displacement(w.state, glyph, w.state.tc)]
WalkGlyphs(w, codes, inForm) == FoldLeft(LAMBDA v, c : WalkGlyph(v, v.font[1].glyphs[c], inForm), w, codes)
WalkLine(w, x, y) == [w EXCEPT !.text[1].line = <<@[1] + x, @[2] + y>>, !.text[1].x = 0]
WalkSaved(w) == [state |-> w.state, font |-> w.font, cms |-> w.cms]
\* Not plain: what the standard does not allow (text operators outside of text,
\* text begun twice or not ended, graphics operators in text, no font), and
\* where the extractor does otherwise: parameters set outside of text (the
\* setters pass over them) or lost by Q (only fonts are restored), and numbers
\* of TJ in text that is scaled (showTextAdjusted).
Unplain(w) == [w EXCEPT !.plain = FALSE]
WalkRestore(w) ==
  IF w.saved = << >> THEN Unplain(w)
  ELSE [w EXCEPT !.plain = @ /\ Last(w.saved).state = w.state, !.font = Last(w.saved).font, !.cms = Last(w.saved).cms, !.saved = Front(@)]
WalkParts(w, args, inForm) ==
  FoldLeft(LAMBDA v, a :
             IF "str" \in DOMAIN a THEN WalkGlyphs(v, a.str, inForm)
             ELSE IF "num" \in DOMAIN a
                  THEN [v EXCEPT !.text[1].x = @ - a.num * v.state.tfs, !.plain = @ /\ (v.state.th = 100 \/ a.num = 0)]
                  ELSE Unplain(v), w, args)
WalkInText(w, word, p, inForm) ==
  CASE word = "ET" -> [w EXCEPT !.text = << >>]
    [] word = "T*" -> WalkLine(w, 0, -w.state.tl)
    [] word = "Td" -> WalkLine(w, p[1].num, p[2].num)
    [] word = "TD" -> WalkLine([w EXCEPT !.state.tl = -p[2].num], p[1].num, p[2].num)
    [] word = "Tm" -> [w EXCEPT !.text = <<[m |-> Numbers(p), line |-> <<0, 0>>, x |-> 0]>>]
    [] word \in DOMAIN Setters -> [w EXCEPT !.state = [@ EXCEPT ![Setters[word]] = p[1].num]]
    [] word = "Tj" /\ w.font # << >> /\ "str" \in DOMAIN p[1] -> WalkGlyphs(w, p[1].str, inForm)
    [] word = "'" /\ w.font # << >> -> WalkGlyphs(WalkLine(w, 0, -w.state.tl), p[1].str, inForm)
    [] word = "TJ" /\ w.font # << >> /\ "arr" \in DOMAIN p[1] -> WalkParts(w, p[1].arr, inForm)
    [] OTHER -> Unplain(w)
RECURSIVE Walk(_, _, _, _)
WalkForm(w, res, p, deep) ==
  IF p = << >> \/ "name" \notin DOMAIN p[1] \/ deep = 0 THEN Unplain(w)
  ELSE IF p[1].name[1] \notin DOMAIN Forms[res] THEN w
  ELSE LET form == Forms[res][p[1].name[1]]
           own == IF form.own = << >> THEN res ELSE form.own[1]
           fresh == [w EXCEPT !.saved = << >>, !.font = << >>, !.used = @ \cup {<<p[1].name[1], form>>}]
           inside == Walk(fresh, form.ops, own, deep - 1)
       IN  [w EXCEPT !.out = inside.out, !.used = inside.used, !.plain = inside.plain /\ inside.text = << >>]
WalkTf(w, res, p) ==
  IF Len(p) # 2 \/ "name" \notin DOMAIN p[1] \/ ~IsNum(p[2]) \/ p[1].name[1] \notin DOMAIN Fonts[res] THEN Unplain(w)
  ELSE LET font == Fonts[res][p[1].name[1]]
       IN  [w EXCEPT !.font = <<font>>, !.used = @ \cup {<<p[1].name[1], font>>}, !.state.tfs = p[2].num]
Lengths == [ET |-> 0, Td |-> 2, TD |-> 2, Tm |-> 6, Tc |-> 1, Tw |-> 1, Tz |-> 1, TL |-> 1, Ts |-> 1, Tj |-> 1, TJ |-> 1]
WalkOp(w, op, res, deep) ==
  LET word == IF Len(op.op) = 1 THEN op.op[1] ELSE "?"
      p == op.params
  IN  IF word \in DOMAIN Lengths /\ Len(p) # Lengths[word] THEN Unplain(w) ELSE
      CASE word = "Tf" -> WalkTf(w, res, p)
        [] w.text # << >> /\ word # "Tf" -> WalkInText(w, word, p, deep < MaxForms)
        [] word = "BT" /\ w.text = << >> -> [w EXCEPT !.text = <<[m |-> Identity, line |-> <<0, 0>>, x |-> 0]>>]
        [] word = "q" /\ w.text = << >> -> [w EXCEPT !.saved = Append(@, WalkSaved(w))]
        [] word = "Q" /\ w.text = << >> -> WalkRestore(w)
        [] word = "cm" /\ w.text = << >> -> [w EXCEPT !.cms = Append(@, Numbers(p))]
        [] word = "Do" /\ w.text = << >> -> WalkForm(w, res, p, deep)
        [] word \in {"gs", "RG", "BI"} /\ w.text = << >> -> w
        [] OTHER -> Unplain(w)
Walk(w, ops, res, deep) == FoldLeft(LAMBDA v, op : WalkOp(v, op, res, deep), w, ops)
PageWalk == Walk(WalkStart, txt.page.ops, "page", MaxForms)

\* A name means one thing wherever it is used; fonts and the texts of forms are
\* kept by their names alone (fontCache, formResults).
Unambiguous(used) == \A u, v \in used : u[1] = v[1] => u = v

(***************************************************************************)
(* Properties.                                                             *)
(***************************************************************************)
\* Every character that a plain page shows becomes one mark, in the order of
\* the page and in the font that is selected (the font stack and the marks of
\* text objects, forms and pages), and outside of forms at the place the
\* standard gives it, with its text running to the right once it is turned by
\* its orientation (renderText).  Forms start with no font and a new state.
TextPlaced ==
  txt.step = "done" /\ txt.page.kind = "text" =>
    LET w == PageWalk
    IN  w.plain /\ w.text = << >> /\ Unambiguous(w.used) =>
          /\ txt.res = "ok"
          /\ [i \in DOMAIN txt.marks |-> txt.marks[i].text] = [i \in DOMAIN w.out |-> w.out[i].text]
          /\ \A i \in DOMAIN w.out :
               LET m == txt.marks[i]
                   o == w.out[i]
               IN  ~o.inForm =>
                     /\ m.start = Rotate(o.at[1], o.at[2], m.orient)
                     /\ o.flat => m.end = Rotate(o.to[1], o.to[2], m.orient) /\ m.end[2] = m.start[2]
                     /\ o.flat /\ o.wide > 0 => m.end[1] > m.start[1]

\* Every image that is drawn is given where its unit square lies; masks only if
\* they are asked for, and inside forms as if the form stood alone.
RECURSIVE Drawn(_, _, _, _, _)
Drawn(cms, ops, res, deep, masks) ==
  IF ops = << >> THEN << >>
  ELSE LET op == Head(ops)
           word == IF Len(op.op) = 1 THEN op.op[1] ELSE "?"
           rest == Drawn(CASE word = "q" -> Append(cms, Last(cms))
                           [] word = "Q" /\ Len(cms) > 1 -> Front(cms)
                           [] word = "cm" /\ Len(op.params) = 6 -> Append(Front(cms), Append(Last(cms), Numbers(op.params)))
                           [] OTHER -> cms, Tail(ops), res, deep, masks)
           name == op.params[1].name[1]
           form == Forms[res][name]
           square == <<[x |-> OnPage(Last(cms), <<0, 0>>), far |-> OnPage(Last(cms), <<1, 1>>)]>>
       IN  CASE word = "BI" -> (IF Masks(op) /\ ~masks THEN << >> ELSE square) \o rest
             [] word = "Do" /\ op.params # << >> /\ name \in PageImages[res] -> square \o rest
             [] word = "Do" /\ op.params # << >> /\ name \in DOMAIN Forms[res] /\ deep > 0 ->
                  Drawn(<<<< >>>>, form.ops, IF form.own = << >> THEN res ELSE form.own[1], deep - 1, masks) \o rest
             [] OTHER -> rest
ImagesPlaced ==
  txt.step = "done" /\ txt.page.kind # "text" /\ txt.res = "ok" =>
    LET drawn == Drawn(<<<< >>>>, txt.page.ops, "page", MaxForms, txt.page.kind = "masks")
    IN  /\ Len(txt.marks) = Len(drawn)
        /\ \A i \in DOMAIN drawn :
             LET m == txt.marks[i]
                 d == drawn[i]
             IN  /\ <<m.x, m.y>> = d.x
                 /\ {m.w, m.h} = {Abs(d.far[1] - d.x[1]), Abs(d.far[2] - d.x[2])}

\* The text of a page whose marks lie in rows (any two of a direction are near
\* each other or far apart, so that the comparison is an order): a line for
\* every row, from the top down, and in it the characters from left to right,
\* with a space, if the font is the same everywhere, where there is room for
\* one; not so equal characters of a row that are closer than three tenths of a
\* width (removeDuplicates).
Near(a, b, tol) == a.orient = b.orient /\ 10 * Abs(a.start[2] - b.start[2]) <= tol
InRows(marks, tol) ==
  \A a, b, c \in Range(marks) : Near(a, b, tol) /\ Near(b, c, tol) => Near(a, c, tol)
NoTwins(marks, tol) ==
  \A i, j, k \in DOMAIN marks :
    i # j /\ marks[i].text = marks[j].text /\ Near(marks[i], marks[j], tol) =>
      10 * Abs(marks[i].start[1] - marks[j].start[1]) > 3 * MarkWidth(marks[k])
Uniform(marks) ==
  \A i, j \in DOMAIN marks :
    MarkWidth(marks[i]) = MarkWidth(marks[j]) /\ marks[i].space = marks[j].space /\ marks[i].space > 0 /\ marks[i].text # " "
Rows(marks, tol) == {{i \in DOMAIN marks : Near(marks[i], marks[k], tol)} : k \in DOMAIN marks}
RowBefore(a, b) == a.orient < b.orient \/ (a.orient = b.orient /\ a.start[2] > b.start[2])
LeftBefore(marks, i, j) == marks[i].start[1] < marks[j].start[1] \/ (marks[i].start[1] = marks[j].start[1] /\ i < j)
Room(a, b) == LET gap == b.start[1] - a.end[1] IN 2 * gap > a.space \/ 10 * gap > 3 * MarkWidth(a)
Joined(marks, row, spaced) ==
  FlattenSeq([k \in DOMAIN row |->
    (IF k > 1 /\ spaced /\ Room(marks[row[k - 1]], marks[row[k]]) THEN <<" ">> ELSE << >>) \o <<marks[row[k]].text>>])
RowsOf(marks, tol) ==
  LET rows == SetToSortSeq(Rows(marks, tol), LAMBDA p, q : RowBefore(marks[CHOOSE i \in p : TRUE], marks[CHOOSE i \in q : TRUE]))
  IN  [r \in DOMAIN rows |-> SetToSortSeq(rows[r], LAMBDA i, j : LeftBefore(marks, i, j))]
Visible(words) == SelectSeq(words, LAMBDA c : c # " ")
SameLines(marks, lines, rows) ==
  /\ Len(lines) = Len(rows)
  /\ \A l \in DOMAIN rows :
       IF Uniform(marks) THEN lines[l] = Joined(marks, rows[l], TRUE)
       ELSE Visible(lines[l]) = Visible(Joined(marks, rows[l], FALSE))
LinesRead ==
  LET marks == txt.marks
      tol == Tolerance(marks)
  IN  txt.step \in {"marks", "done"} /\ txt.page.kind = "text" /\ InRows(marks, tol) /\ NoTwins(marks, tol) =>
        SameLines(marks, ToText(marks), RowsOf(marks, tol))

\* Text is joined the same a second time (sortPosition sorts the marks
\* of the page text in place).
TextStable ==
  txt.step = "marks" =>
    LET tol == Tolerance(txt.marks)
        sorted == SortPosition(txt.marks, tol)
    IN  SortPosition(sorted, tol) = sorted

\* What a page shows is extracted: its text and images where they are, and
\* the text in lines (ExtractPageText, ExtractPageImages, ToText).
TextRead == TextPlaced /\ ImagesPlaced /\ LinesRead /\ TextStable
===============================================================================

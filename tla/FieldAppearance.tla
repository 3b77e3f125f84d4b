-------------------------- MODULE FieldAppearance --------------------------
(***************************************************************************)
(* Appearances made for form fields (annotator/field_appearance.go).       *)
(*                                                                         *)
(* An appearance is a form XObject the size of the widget: its contents    *)
(* are laid out from the field's value, the widths of the glyphs, and the  *)
(* default appearance string (DA).  Lengths are whole thousandths of a     *)
(* point, glyph widths thousandths of the font's size.  A text is a        *)
(* sequence of characters; "n" "r" of a line's end are "lf" and "cr".      *)
(*                                                                         *)
(* What a generator returns is a record: r is "error", "nil" (no           *)
(* appearance), "panic", "form" or "states" (one form for each state).     *)
(***************************************************************************)
EXTENDS Integers, Sequences
LOCAL INSTANCE SequencesExt
LOCAL INSTANCE FiniteSetsExt

CONSTANT Fonts14  \* font name -> [wx: character -> glyph width, cap: cap height, 0 if unknown]

Failed == [r |-> "error"]
NoForm == [r |-> "nil"]
Panicked == [r |-> "panic"]

(***************************************************************************)
(* Styles, and what the widget's MK and BS dictionaries change in them.    *)
(***************************************************************************)
DefaultStyle ==
  [fraction |-> 650, check |-> "check", border |-> 0, bc |-> <<0>>, bg |-> <<1>>, lh |-> 1200,
   middle |-> FALSE, reticle |-> FALSE, allowMK |-> TRUE]

Coloured(old, comps) == IF Len(comps) \in {1, 3, 4} THEN comps ELSE old

\* applyAppearanceCharacteristics; a caption is looked at only where a font for it is given.
WithMK(style, wa, caption) ==
  IF ~style.allowMK \/ ~wa.mk.has THEN style
  ELSE [style EXCEPT !.border = IF wa.bs < 0 THEN @ ELSE wa.bs,
                     !.check = IF caption /\ Len(wa.mk.ca) = 1 THEN wa.mk.ca[1] ELSE @,
                     !.bc = Coloured(@, wa.mk.bc), !.bg = Coloured(@, wa.mk.bg)]

Wide(wa) == wa.rect[3] - wa.rect[1]
High(wa) == wa.rect[4] - wa.rect[2]

Rectangle(name, style) == [op |-> name, border |-> style.border, bc |-> style.bc, bg |-> style.bg]
\* drawRect and drawAlignmentReticle.
Background(style) ==
  (IF style.border > 0 THEN <<Rectangle("re", style)>> ELSE << >>)
  \o (IF style.reticle THEN <<Rectangle("reticle", [style EXCEPT !.border = 200])>> ELSE << >>)

Plain(name) == [op |-> name]
SetFont(font, size) == [op |-> "Tf", font |-> font, size |-> size]
MoveBy(x, y) == [op |-> "Td", x |-> x, y |-> y]
ShowString(s) == [op |-> "Tj", text |-> s]

Opened(style) == Background(style) \o <<Plain("BMC"), Plain("q"), Plain("BT")>>
Closed == <<Plain("ET"), Plain("Q"), Plain("EMC")>>

\* The form's box, the fonts of its resources, its contents.
FormAt(x, y, w, h, fonts, ops) == [r |-> "form", x |-> x, y |-> y, w |-> w, h |-> h, fonts |-> fonts, ops |-> ops]
FormOf(wa, fonts, ops) == FormAt(0, 0, Wide(wa), High(wa), fonts, ops)

(***************************************************************************)
(* The default appearance: the font and size of its Tf operators are       *)
(* taken out (a size of 0: by the height), the other operators copied.     *)
(* A size below 0 stands for one that is no number.                        *)
(***************************************************************************)
\* One operator of the DA; s: the font, the size, whether the size is free, the operators copied.
TakeDA(s, op, size0) ==
  LET size == IF op.size < 0 THEN s.size ELSE op.size
  IN  IF op.op # "Tf" THEN [s EXCEPT !.rest = Append(@, Plain(op.op))]
      ELSE [s EXCEPT !.font = IF op.font = "" THEN @ ELSE op.font,
                     !.size = IF size = 0 THEN size0 ELSE size, !.auto = @ /\ size = 0]

DAState(da, size0) ==
  FoldLeft(LAMBDA s, op : TakeDA(s, op, size0), [font |-> "", size |-> 0, auto |-> TRUE, rest |-> << >>], da)

\* The font to use: Helvetica if the DA names none, otherwise one of the form's resources.
FontName(s) == IF s.font = "" THEN "Helv" ELSE s.font
\* Mutant of FontMissing.
FontMissingNever(s, dr) == FALSE

FontMissing(s, dr) == s.font # "" /\ s.font \notin dr.fonts
\* dr.GetFontByName of a form without DR.
FontPanics(s, dr) == s.font # "" /\ ~dr.has

(***************************************************************************)
(* Lines.                                                                  *)
(***************************************************************************)
Encoded(font, s) == SelectSeq(s, LAMBDA c : c \in DOMAIN Fonts14[font].wx)
Width(font, s) == FoldLeft(LAMBDA w, c : w + (IF c \in DOMAIN Fonts14[font].wx THEN Fonts14[font].wx[c] ELSE 0), 0, s)

LineEnds(s) ==
  FoldLeft(LAMBDA t, i : IF s[i] = "lf" /\ i > 1 /\ s[i - 1] = "cr" THEN t
                         ELSE Append(t, IF s[i] = "cr" THEN "lf" ELSE s[i]), << >>, [i \in DOMAIN s |-> i])
\* strings.Split at line ends.
SplitLines(s) ==
  FoldLeft(LAMBDA ls, c : IF c = "lf" THEN Append(ls, << >>) ELSE [ls EXCEPT ![Len(ls)] = Append(@, c)], <<<< >>>>, s)

\* The last space of the line up to k; the one the line begins with does not count.
LastSpace(s, k) == Max({0} \cup {i \in 2 .. k : s[i] = " "})

\* Where the line is broken: the last space before the first glyph that passes the width; 0: nowhere.
BreakAt(font, size, width, s) ==
  LET over == {k \in DOMAIN s : /\ s[k] \in DOMAIN Fonts14[font].wx /\ LastSpace(s, k) > 0
                                /\ size * Width(font, SubSeq(s, 1, k)) > 1000 * width}
  IN  IF over = {} THEN 0 ELSE LastSpace(s, Min(over))

\* Mutant of BreakLine.
BreakLineLosesRest(lines, i, at) ==
  [lines EXCEPT ![i] = SubSeq(@, 1, at - 1)]
    \o (IF i < Len(lines) THEN << >> ELSE <<SubSeq(lines[i], at + 1, Len(lines[i]))>>)

\* The rest of the line goes to the end of the next one, without a space, or becomes the last.
BreakLine(lines, i, at) ==
  LET rest == SubSeq(lines[i], at + 1, Len(lines[i]))
      kept == [lines EXCEPT ![i] = SubSeq(@, 1, at - 1)]
  IN  IF i < Len(lines) THEN [kept EXCEPT ![i + 1] = @ \o rest] ELSE Append(kept, rest)

WrapAt(lines, i, at) == IF at = 0 THEN lines ELSE BreakLine(lines, i, at)
\* The lines are looked at in order, those added while looking too.
WrapLines(font, size, width, lines) ==
  FoldLeft(LAMBDA ls, i : IF i > Len(ls) THEN ls ELSE WrapAt(ls, i, BreakAt(font, size, width, ls[i])), lines,
           [i \in 1 .. Len(lines) + Len(FlattenSeq(lines)) |-> i])

(***************************************************************************)
(* Text fields.                                                            *)
(***************************************************************************)
Margin == 2000
NoMaxLen == -1

\* Mutant of FitWidth.
FitWidthTaken(l, wa) == l

\* A free size that makes the widest line pass the width is reduced until it fits.
FitWidth(l, wa) ==
  IF l.size = 0 \/ (l.auto /\ l.widest > 0 /\ Margin + (l.widest * l.size) \div 1000 > Wide(wa))
  THEN [l EXCEPT !.size = (950 * (Wide(wa) - Margin)) \div l.widest] ELSE l

LineHeight(size, multi, count, style) == IF multi /\ count > 1 THEN (style.lh * size) \div 1000 ELSE size

\* ... and one that makes the lines pass the height.
FitHeight(l, wa, multi, style) ==
  LET taken == l.count * LineHeight(l.size, multi, l.count, style)
  IN  IF l.auto /\ taken > High(wa) THEN [l EXCEPT !.size = (95 * High(wa)) \div (100 * l.count)] ELSE l

CapHeight(font, size) == ((IF Fonts14[font].cap > 0 THEN Fonts14[font].cap ELSE 1000) * size) \div 1000

Baseline(l, font, wa, multi, style) ==
  LET line == LineHeight(l.size, multi, l.count, style)
      taken == l.count * line
  IN  CASE High(wa) <= taken -> 0
        [] High(wa) > taken /\ multi /\ style.middle -> (High(wa) - taken) \div 2 + taken - line
        [] High(wa) > taken /\ multi /\ ~style.middle -> High(wa) - line - l.size \div 2
        [] High(wa) > taken /\ ~multi -> (High(wa) - CapHeight(font, l.size)) \div 2

\* Where the alignment wants a line (Q: 0 left, 1 centred, 2 right).
Aligned(q, wa, width) ==
  CASE q = 1 -> (Wide(wa) - width) \div 2
    [] q = 2 -> Wide(wa) - width
    [] OTHER -> Margin

\* Mutant of ShowLine.
ShowLineFromStart(s, line, font, l, wa, q, down, last) ==
  LET x == Aligned(q, wa, (Width(font, line) * l.size) \div 1000)
  IN  [x |-> Margin,
       ops |-> s.ops \o (IF x > Margin THEN <<MoveBy(x - Margin, 0)>> ELSE << >>) \o <<ShowString(line)>>
                   \o (IF last THEN << >> ELSE <<MoveBy(0, -down)>>)]

\* Moves to the right are written, those to the left only remembered.
ShowLine(s, line, font, l, wa, q, down, last) ==
  LET x == Aligned(q, wa, (Width(font, line) * l.size) \div 1000)
  IN  [x |-> x, ops |-> s.ops \o (IF x > s.x THEN <<MoveBy(x - s.x, 0)>> ELSE << >>) \o <<ShowString(line)>>
                   \o (IF last THEN << >> ELSE <<MoveBy(0, -down)>>)]

ShowLines(lines, font, l, wa, q, down) ==
  FoldLeft(LAMBDA s, i : ShowLine(s, lines[i], font, l, wa, q, down, i = Len(lines)), [x |-> Margin, ops |-> << >>],
           [i \in DOMAIN lines |-> i]).ops

LayOut(da, font, lines, wa) ==
  [size |-> da.size, auto |-> da.auto, widest |-> Max({0} \cup {Width(font, lines[i]) : i \in DOMAIN lines}),
   count |-> Cardinality({i \in DOMAIN lines : Encoded(font, lines[i]) # << >>})]

\* The layout l is ready: the contents.
TextForm(wa, f, style, da, font, lines, multi, l) ==
  LET down == (LineHeight(l.size, multi, l.count, style) * style.lh) \div 1000
  IN  FormOf(wa, {font}, Opened(style) \o da.rest \o <<SetFont(font, l.size),
                                                       MoveBy(Margin, Baseline(l, font, wa, multi, style))>>
                         \o ShowLines([i \in DOMAIN lines |-> Encoded(font, lines[i])], font, l, wa, f.q,
                                      down) \o Closed)

TextLines(da, font, wa, multi, value) ==
  IF ~multi THEN <<value>>
  ELSE IF da.auto THEN SplitLines(LineEnds(value))
  ELSE WrapLines(font, da.size, Wide(wa), SplitLines(LineEnds(value)))

TextOf(wa, f, style, da, multi, lines) ==
  TextForm(wa, f, style, da, FontName(da), lines, multi,
           FitHeight(FitWidth(LayOut(da, FontName(da), lines, wa), wa), wa, multi, style))

WidgetRefused(wa, style) == Len(wa.rect) # 4 \/ (wa.mk.has /\ style.allowMK /\ wa.mk.bad)

\* Rect, MK, MaxLen and font are looked at first: they fail even where there is no text to show.
Refusal(wa, style, da, dr, bad) ==
  IF WidgetRefused(wa, style) \/ bad THEN Failed
  ELSE IF FontPanics(da, dr) THEN Panicked
  ELSE IF FontMissing(da, dr) THEN Failed ELSE NoForm

Height0(wa, style) == IF Len(wa.rect) = 4 THEN (High(wa) * style.fraction) \div 1000 ELSE 0

GenText(wa, f, da, dr, style) ==
  LET refusal == Refusal(wa, style, da, dr, FALSE)
      multi == "Multiline" \in f.flags
  IN  IF refusal # NoForm \/ f.v.k # "string" \/ f.v.s = << >> THEN refusal
      ELSE TextOf(wa, f, style, da, multi, TextLines(da, FontName(da), wa, multi, f.v.s))

(***************************************************************************)
(* Comb fields: one box for each of MaxLen characters.                     *)
(***************************************************************************)
BoxWidth(wa, f) == Wide(wa) \div f.maxlen

Tallest(font, s) ==
  LET m == Max({0} \cup {Fonts14[font].wx[s[i]] : i \in {i \in DOMAIN s : s[i] \in DOMAIN Fonts14[font].wx}})
  IN  IF m = 0 THEN 1000 ELSE m

\* The size and the baseline; a font that has no heights has its widths taken for them.
CombSize(da, font, wa, s) ==
  IF da.auto /\ (da.size * Tallest(font, s)) \div 1000 > High(wa) THEN (95 * High(wa)) \div 100 ELSE da.size
CombBaseline(font, size, wa) ==
  IF High(wa) > CapHeight(font, size) THEN (High(wa) - CapHeight(font, size)) \div 2 ELSE 0

\* Mutant of ShowInBox.
ShowInBoxKeepsIndent(font, size, box, c, last) ==
  LET indent == (box - (size * Fonts14[font].wx[c]) \div 1000) \div 2
  IN  <<MoveBy(indent, 0), ShowString(<<c>>)>> \o (IF last THEN << >> ELSE <<MoveBy(box, 0)>>)

\* A glyph in the middle of its box, and to the next box.
ShowInBox(font, size, box, c, last) ==
  LET indent == (box - (size * Fonts14[font].wx[c]) \div 1000) \div 2
  IN  <<MoveBy(indent, 0), ShowString(<<c>>)>> \o (IF last THEN << >> ELSE <<MoveBy(box - indent, 0)>>)

\* A character the font lacks is passed over with its box.
ShowBoxes(font, size, box, s) ==
  FlattenSeq([i \in DOMAIN s |-> IF s[i] \in DOMAIN Fonts14[font].wx THEN ShowInBox(font, size, box, s[i], i = Len(s))
                                  ELSE << >>])

\* Mutant of FromRight.
FromRightNever(f, s, box) == << >>

FromRight(f, s, box) ==
  IF f.q = 2 /\ Len(s) < f.maxlen THEN <<MoveBy((f.maxlen - Len(s)) * box, 0)>> ELSE << >>

CombOf(wa, f, da, style, font, s, size) ==
  FormOf(wa, {font}, Opened(style) \o da.rest
                       \o (IF da.font = "" THEN <<SetFont(font, Height0(wa, style))>> ELSE << >>)
                       \o <<SetFont(font, da.size), MoveBy(0, CombBaseline(font, size, wa))>>
                       \o FromRight(f, s, BoxWidth(wa, f)) \o ShowBoxes(font, size, BoxWidth(wa, f), s) \o Closed)

CombText(f) == IF f.v.k = "string" THEN f.v.s ELSE << >>
\* The size reduced to the box is used to place the glyphs; the Tf before it has the one of the DA.
GenComb(wa, f, da, dr, style) ==
  LET refusal == Refusal(wa, style, da, dr, f.maxlen <= 0)
  IN  IF refusal # NoForm THEN refusal
      ELSE CombOf(wa, f, da, style, FontName(da), CombText(f), CombSize(da, FontName(da), wa, CombText(f)))

\* GetType: of the field's own flags.
ButtonType(own) == IF "Pushbutton" \in own THEN "push" ELSE IF "Radio" \in own THEN "radio" ELSE "checkbox"

(***************************************************************************)
(* Check boxes and combo boxes: a form for each state.                     *)
(***************************************************************************)
StatesOf(states) == [r |-> "states", states |-> states]
Yes == <<"Y", "e", "s">>
Off == <<"O", "f", "f">>

\* Mutant of CheckStates.
CheckStatesSwapped(on, off) == [s \in {Yes, Off} |-> IF s = Off THEN on ELSE off]

CheckStates(on, off) == [s \in {Yes, Off} |-> IF s = Yes THEN on ELSE off]

CheckOps(wa, style, size) ==
  LET wide == (Fonts14["ZaDb"].wx[style.check] * size) \div 1000
      high == (705 * size) \div 1000
      x == IF wide < Wide(wa) THEN (Wide(wa) - wide) \div 2 ELSE Margin
      y == IF high < High(wa) THEN (High(wa) - high) \div 2 ELSE 1000
  IN  Background(style) \o <<Plain("q"), Plain("g"), Plain("BT"), SetFont("ZaDb", size), MoveBy(x, y),
                             ShowString(<<style.check>>), Plain("ET"), Plain("Q")>>

\* genFieldCheckboxAppearance: the state off has no reticle and no resources.
GenCheckbox(wa, style) ==
  IF WidgetRefused(wa, style) \/ style.check \notin DOMAIN Fonts14["ZaDb"].wx THEN Failed
  ELSE StatesOf(CheckStates(FormOf(wa, {"ZaDb"}, CheckOps(wa, style, Height0(wa, style))),
                                FormOf(wa, {}, Background([style EXCEPT !.reticle = FALSE]))))

ComboFit(da, font, wa, s) ==
  LET wide == Width(font, s)
      size == IF da.size = 0 \/ (da.auto /\ wide > 0 /\ Margin + (wide * da.size) \div 1000 > Wide(wa))
              THEN (950 * (Wide(wa) - Margin)) \div wide ELSE da.size
  IN  IF da.auto /\ Margin + size > High(wa) THEN (95 * (High(wa) - Margin)) \div 100 ELSE size

ComboBaseline(size, wa) == IF High(wa) > size THEN (High(wa) - size) \div 2 + 1500 ELSE Margin

\* makeComboboxTextXObjForm.
ComboForm(wa, da, font, style, s, size) ==
  FormOf(wa, {font}, Opened(style) \o da.rest
                       \o <<SetFont(font, size), MoveBy(Margin, ComboBaseline(size, wa)),
                            ShowString(Encoded(font, s))>> \o Closed)

\* Mutant of Selectable.
SelectableButLast(f) == {f.opt[i].s : i \in {i \in DOMAIN f.opt : i < Len(f.opt) /\ f.opt[i].s # << >>}}

\* The choices there is a form for.
Selectable(f) == {f.opt[i].s : i \in {i \in DOMAIN f.opt : f.opt[i].s # << >>}}

\* The first entry of Opt that is either no string or name, or has a form made; 0: there is none.
FirstChoice(f) ==
  LET some == {i \in DOMAIN f.opt : f.opt[i].k = "other" \/ f.opt[i].s # << >>} IN IF some = {} THEN 0 ELSE Min(some)
OptRefused(f, i) == i # 0 /\ f.opt[i].k = "other"

ComboStates(wa, f, da, style) ==
  [c \in Selectable(f) |-> ComboForm(wa, da, FontName(da), style, c, ComboFit(da, FontName(da), wa, c))]

GenCombobox(wa, f, da, dr, style) ==
  LET refusal == Refusal(wa, style, da, dr, FALSE)
  IN  IF WidgetRefused(wa, style) \/ OptRefused(f, FirstChoice(f)) THEN Failed
      ELSE IF FirstChoice(f) = 0 THEN StatesOf(<< >>)
      ELSE IF refusal # NoForm THEN refusal
      ELSE IF \E i \in DOMAIN f.opt : OptRefused(f, i) THEN Failed
      ELSE StatesOf(ComboStates(wa, f, da, style))

(***************************************************************************)
(* Which generator, if any (GenerateAppearanceDict).  gen: only (where     *)
(* the widget has none), again (text fields anew), style.                  *)
(***************************************************************************)
Kept(wa, f, gen) == wa.ap.r \in {"form", "states", "nil", "bad"} /\ gen.only /\ ~(f.ft = "Tx" /\ gen.again)

TextAppearance(wa, f, da, dr, style) ==
  IF f.flags \cap {"Password", "FileSelect"} # {} THEN NoForm
  ELSE IF "Comb" \in f.flags /\ f.maxlen # NoMaxLen THEN GenComb(wa, f, da, dr, style)
  ELSE GenText(wa, f, da, dr, style)

\* f: the field with its flags (Flags) and its own (Ff); da: the field's DA, formda: the form's.
GenerateAppearance(wa, f, da, formda, dr, gen) ==
  LET size0 == Height0(wa, gen.style)
  IN  CASE Kept(wa, f, gen) -> wa.ap
        [] ~Kept(wa, f, gen) /\ f.ft = "Tx" ->
             TextAppearance(wa, f, DAState(da, size0), dr, WithMK(gen.style, wa, FALSE))
        [] ~Kept(wa, f, gen) /\ f.ft = "Btn" /\ ButtonType(f.own) = "checkbox" ->
             GenCheckbox(wa, WithMK(gen.style, wa, TRUE))
        [] ~Kept(wa, f, gen) /\ f.ft = "Ch" /\ "Combo" \in f.flags ->
             GenCombobox(wa, f, DAState(formda, size0), dr, WithMK(gen.style, wa, FALSE))
        [] OTHER -> NoForm

(***************************************************************************)
(* The appearance of a signature: lines "description: text" (NewSignature- *)
(* Field).  It is drawn in the page's coordinates, its box is the widget's *)
(* rectangle.                                                              *)
(***************************************************************************)
SignatureLines(lines) ==
  LET visible == SelectSeq(lines, LAMBDA l : l.text # << >>)
  IN  [i \in DOMAIN visible |->
         (IF visible[i].desc = << >> THEN << >> ELSE visible[i].desc \o <<":", " ">>) \o visible[i].text]

\* Without a rectangle the one that holds the lines, at the origin.
SignatureRect(opts, widest, count) ==
  IF opts.rect # << >> THEN opts.rect ELSE <<0, 0, (widest * opts.size) \div 1000,
                                             count * ((opts.lh * opts.size) \div 1000)>>

\* The size scaled down until width and height fit.
SignatureSize(opts, rect, widest, count) ==
  LET w == (widest * opts.size) \div 1000
      h == count * ((opts.lh * opts.size) \div 1000)
  IN  IF ~opts.auto \/ (w <= rect[3] - rect[1] /\ h <= rect[4] - rect[2]) THEN opts.size
      ELSE Min({(opts.size * ((1000 * (rect[3] - rect[1])) \div w)) \div 1000,
                (opts.size * ((1000 * (rect[4] - rect[2])) \div h)) \div 1000})

\* Words and spaces of a line; TJ moves by the width of a space.
SignatureWords(font, size, line) ==
  FlattenSeq([i \in DOMAIN line |->
    IF line[i] = " " THEN <<SetFont(font, size), [op |-> "TJ", move |-> Fonts14[font].wx[" "], text |-> << >>]>>
    ELSE <<SetFont(font, size), [op |-> "TJ", move |-> 0, text |-> Encoded(font, <<line[i]>>)]>>])

SignatureForm(font, rect, lines, size, down, rise, style) ==
  FormAt(rect[1], rect[2], rect[3] - rect[1], rect[4] - rect[2], {font},
    <<Rectangle("re", style), Plain("q"), [op |-> "cm", x |-> rect[1], y |-> rect[4] - down - rise], Plain("BT")>>
    \o FlattenSeq([i \in DOMAIN lines |-> Append(SignatureWords(font, size, lines[i]),
                                                 MoveBy(0, -down))]) \o <<Plain("ET"), Plain("Q")>>)

SignatureFitted(opts, lines, rect, size, style) ==
  LET down == (opts.lh * size) \div 1000
      rise == IF opts.auto THEN (rect[4] - rect[2] - Len(lines) * down) \div 2 ELSE 0
  IN  SignatureForm(opts.font, rect, lines, size, down, rise, style)

GenSignature(opts, lines) ==
  LET widest == Max({0} \cup {Width(opts.font, lines[i]) : i \in DOMAIN lines})
      rect == SignatureRect(opts, widest, Len(lines))
      style == [border |-> opts.border, bc |-> IF opts.border = 0 THEN <<1>> ELSE opts.bc, bg |-> opts.bg]
  IN  IF " " \notin DOMAIN Fonts14[opts.font].wx THEN Failed
      ELSE SignatureFitted(opts, lines, rect, SignatureSize(opts, rect, widest, Len(lines)), style)
=============================================================================

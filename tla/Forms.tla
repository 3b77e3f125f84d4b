------------------------------- MODULE Forms -------------------------------
(***************************************************************************)
(* Interactive forms: loading the field tree (model/fields.go, form.go),   *)
(* filling fields, making appearances (FieldAppearance), making fields     *)
(* (annotator/form_field.go), flattening (model/flatten.go), and writing   *)
(* the form and reading it again.                                          *)
(*                                                                         *)
(* A document is a record of its objects (dictionaries), the references    *)
(* of the form's Fields, the form's resources (dr) and DA, and its pages.  *)
(* A field dictionary may be a widget's too ("merged").  An optional entry *)
(* is a sequence of at most one element.  frm is the reader and what its   *)
(* client did to it; annotations are named by their objects.               *)
(***************************************************************************)
EXTENDS FieldAppearance, FiniteSets
LOCAL INSTANCE SequencesExt
LOCAL INSTANCE FiniteSetsExt

CONSTANTS FormDocs,    \* the documents
          Providers,   \* values to fill in: name -> value
          Generators,  \* generators the client flattens with: only, again, style
          MadeFields,  \* fields the client makes: pairs of field and widget, or "panic"
          MaxNesting,  \* of Kids, beyond which loading counts as endless
          MaxCalls     \* calls of the client

ASSUME FormsAssumption == MaxNesting \in Nat /\ MaxCalls \in Nat

VARIABLE frm

FormVars == <<frm>>
FormIdle == frm.at = "idle"

NoDoc == [objs |-> << >>, fields |-> << >>, dr |-> [has |-> FALSE, fonts |-> {}], da |-> << >>, pages |-> << >>]
FormInit ==
  frm = [at |-> "idle", doc |-> NoDoc, fields |-> << >>, tops |-> << >>, next |-> 1, stack |-> << >>, ann |-> << >>,
         pages |-> << >>, form |-> TRUE, calls |-> 0, filled |-> << >>, gen |-> << >>, all |-> FALSE, todo |-> << >>,
         targets |-> {}, page |-> 1, item |-> 1, kept |-> << >>, last |-> << >>, before |-> << >>, shot |-> << >>]

(***************************************************************************)
(* The tree of fields.                                                     *)
(***************************************************************************)
\* The field and its ancestors, nearest first.
Lineage(fields, i) ==
  LET up[j \in 0 .. Len(fields)] == IF j = 0 THEN << >> ELSE <<j>> \o up[fields[j].parent] IN up[i]

\* The field and its descendants, parents first (flattenFields).
WithKids(fields, i) ==
  LET down[j \in 1 .. Len(fields)] ==
        <<j>> \o FlattenSeq([k \in DOMAIN fields[j].kids |-> down[fields[j].kids[k]]])
  IN  down[i]
AllFields(fields, tops) == FlattenSeq([k \in DOMAIN tops |-> WithKids(fields, tops[k])])

PartialName(f) == IF f.t = << >> THEN "" ELSE f.t[1]

\* Flags: the nearest entry's presence is inherited, its value looked for in the field itself.
Flags(fields, i) ==
  LET having == SelectSeq(Lineage(fields, i), LAMBDA j : fields[j].ff # << >>)
  IN  IF having = << >> THEN <<{}>> ELSE fields[i].ff

\* getDA: the nearest of the text fields.
DefaultAppearance(fields, i) ==
  LET having == SelectSeq(Lineage(fields, i), LAMBDA j : fields[j].ft = "Tx" /\ fields[j].da # << >>)
  IN  IF having = << >> THEN << >> ELSE fields[having[1]].da[1]

(***************************************************************************)
(* Loading (newPdfAcroFormFromDict, newPdfFieldFromIndirectObject).        *)
(***************************************************************************)
NullField == -1
DirectField == 0
FieldTypes == {"Tx", "Btn", "Ch", "Sig"}

IsWidget(o) == o.sub = "Widget"
\* The type's own entries are read only if there is a type.
FieldOf(o, obj, parent) ==
  [parent |-> parent, own |-> 0, kids |-> << >>, annots |-> IF IsWidget(o) THEN <<obj>> ELSE << >>, ft |-> o.ft,
   t |-> o.t, ff |-> o.ff, v |-> o.v,
   da |-> IF o.ft = "Tx" THEN o.da ELSE << >>, q |-> IF o.ft = "Tx" THEN o.q ELSE 0,
   maxlen |-> IF o.ft = "Tx" THEN o.maxlen ELSE NoMaxLen, opt |-> IF o.ft \in {"Btn", "Ch"} THEN o.opt ELSE << >>]

AnnotOf(o) == [sub |-> o.sub, rect |-> o.rect, ap |-> o.ap, as |-> o.as, mk |-> o.mk, bs |-> o.bs]
PageOf(p) == [loaded |-> FALSE, again |-> FALSE, annots |-> << >>, file |-> p.annots, ops |-> p.ops,
              forms |-> p.forms, fonts |-> p.fonts]

Loading(doc) ==
  [frm EXCEPT !.at = "loading", !.doc = doc, !.fields = << >>, !.tops = << >>, !.next = 1, !.stack = << >>]
OpenForm(doc) ==
  FormIdle /\ frm' = [Loading(doc) EXCEPT !.ann = [i \in DOMAIN doc.objs |-> AnnotOf(doc.objs[i])],
                                          !.pages = [p \in DOMAIN doc.pages |-> PageOf(doc.pages[p])]]

\* The rest of the field after its own entries: a merged widget's Kids are not read.
Entered(s, obj, parent) ==
  LET o == s.doc.objs[obj]
      i == Len(s.fields) + 1
      added == Append(IF parent = 0 THEN s.fields ELSE [s.fields EXCEPT ![parent].kids = Append(@, i)],
                      FieldOf(o, obj, parent))
  IN  IF o.ft # "" /\ o.ft \notin FieldTypes THEN [s EXCEPT !.at = "failed"]
      ELSE [s EXCEPT !.fields = added, !.tops = IF parent = 0 THEN Append(@, i) ELSE @,
                     !.stack = IF IsWidget(o) THEN @ ELSE Append(@, [field |-> i, kids |-> o.kids])]

LoadField ==
  /\ frm.at = "loading" /\ frm.stack = << >> /\ frm.next <= Len(frm.doc.fields)
  /\ LET obj == frm.doc.fields[frm.next]
         s == [frm EXCEPT !.next = @ + 1]
     IN  frm' = CASE obj = NullField -> s
                  [] obj = DirectField -> [s EXCEPT !.at = "failed"]
                  [] OTHER -> Entered(s, obj, 0)

Top(s) == s[Len(s)]
\* A kid is a widget of the field, or a field below it.
LoadKid ==
  /\ frm.at = "loading" /\ frm.stack # << >> /\ Top(frm.stack).kids # << >>
  /\ LET obj == Head(Top(frm.stack).kids)
         field == Top(frm.stack).field
         s == [frm EXCEPT !.stack[Len(frm.stack)].kids = Tail(@)]
     IN  frm' = CASE obj = DirectField -> [s EXCEPT !.at = "failed"]
                  [] obj # DirectField /\ Len(frm.stack) > MaxNesting -> [s EXCEPT !.at = "endless"]
                  [] obj # DirectField /\ Len(frm.stack) <= MaxNesting /\ IsWidget(frm.doc.objs[obj]) ->
                       [s EXCEPT !.fields[field].annots = Append(@, obj)]
                  [] OTHER -> Entered(s, obj, field)

EndField ==
  /\ frm.at = "loading" /\ frm.stack # << >> /\ Top(frm.stack).kids = << >>
  /\ frm' = [frm EXCEPT !.stack = Front(@)]
EndForm ==
  /\ frm.at = "loading" /\ frm.stack = << >> /\ frm.next > Len(frm.doc.fields)
  /\ frm' = [frm EXCEPT !.at = "loaded"]

(***************************************************************************)
(* The client: loads a page's annotations, fills, makes fields.            *)
(***************************************************************************)
Calling == frm.at \in {"loaded", "done"} /\ frm.calls < MaxCalls
Called(s) == [s EXCEPT !.calls = @ + 1]

\* GetAnnotations reads the page's entry unless a list is there: also after all of
\* it was flattened (again).
GetAnnotations(p) ==
  IF p.loaded \/ p.file = << >> THEN p
  ELSE [p EXCEPT !.loaded = TRUE, !.annots = p.file, !.again = @ \/ frm.targets # {} \/ frm.at = "done"]
LoadPage(n) ==
  /\ Calling /\ ~frm.pages[n].loaded
  /\ frm' = [Called(frm) EXCEPT !.pages[n] = GetAnnotations(@)]

AsText(v) == [v EXCEPT !.k = "string"]
AsName(v) == [v EXCEPT !.k = "name"]

\* Mutant of FillState.
FillStateOfFirst(s, i, v) ==
  [s EXCEPT !.fields[i].v = AsName(v),
            !.ann = [w \in DOMAIN s.ann |-> IF s.fields[i].annots # << >> /\ w = s.fields[i].annots[1]
                                            THEN [s.ann[w] EXCEPT !.as = <<v.s>>] ELSE s.ann[w]]]

\* The value of a button or choice becomes the state of its widgets.
FillState(s, i, v) ==
  [s EXCEPT !.fields[i].v = AsName(v),
            !.ann = [w \in DOMAIN s.ann |-> IF \E k \in DOMAIN s.fields[i].annots : s.fields[i].annots[k] = w
                                            THEN [s.ann[w] EXCEPT !.as = <<v.s>>] ELSE s.ann[w]]]

\* fillFieldValue.
FillValue(s, i, v) ==
  CASE s.fields[i].ft = "Tx" /\ v.k \in {"name", "string"} -> [s EXCEPT !.fields[i].v = AsText(v)]
    [] s.fields[i].ft \in {"Btn", "Ch"} /\ v.k \in {"name", "string"} -> IF v.s = << >> THEN s ELSE FillState(s, i, v)
    [] s.fields[i].ft \in {"Btn", "Ch"} /\ v.k = "other" -> [s EXCEPT !.fields[i].v = v]
    [] OTHER -> s

Named(f, values) == PartialName(f) \in DOMAIN values \ {""}
FillField(s, i, values) ==
  IF Named(s.fields[i], values) THEN FillValue(s, i, values[PartialName(s.fields[i])]) ELSE s

\* Mutant of FillFrom.
FillFromTops(s, values) == FoldLeft(LAMBDA t, i : FillField(t, i, values), s, s.tops)

\* fill: every field, by its partial name.
FillFrom(s, values) == FoldLeft(LAMBDA t, i : FillField(t, i, values), s, AllFields(s.fields, s.tops))

FillForm(values) ==
  /\ Calling /\ frm.form
  /\ frm' = Called(FillFrom([frm EXCEPT !.filled = <<values>>], values))

\* Makers of fields: a field and the widget the client then puts on a page.
Made(ft, name, v, rect) ==
  [field |-> [parent |-> 0, own |-> 0, kids |-> << >>, annots |-> << >>, ft |-> ft, t |-> <<name>>, ff |-> << >>,
              v |-> v, da |-> << >>, q |-> 0,
              maxlen |-> NoMaxLen, opt |-> << >>],
   widget |-> [sub |-> "Widget", rect |-> rect, ap |-> [r |-> "none"], as |-> << >>, mk |-> [has |-> FALSE],
               bs |-> -1]]

NoValue == [k |-> "none", s |-> << >>]
NewTextField(name, rect, maxlen, value) ==
  LET m == Made("Tx", name, IF value = << >> THEN NoValue ELSE [k |-> "string", s |-> value], rect)
  IN  [m EXCEPT !.field.maxlen = IF maxlen > 0 THEN maxlen ELSE NoMaxLen]

CheckForm(wa, ops) == FormOf(wa, {"ZaDb"}, <<Plain("q")>> \o ops \o <<Plain("Q")>>)
NewCheckboxField(name, rect, checked) ==
  LET state == IF checked THEN Yes ELSE Off
      m == Made("Btn", name, [k |-> "name", s |-> state], rect)
      on == <<Plain("clip"), MoveBy(0, 3000), Plain("BT"), SetFont("ZaDb", 12000), MoveBy(0, 0),
              ShowString(<<"check">>), Plain("ET")>>
      off == <<Plain("BT"), SetFont("ZaDb", 12000), MoveBy(0, 0), Plain("ET")>>
  IN  [m EXCEPT !.field.ff = <<{}>>, !.widget.as = <<state>>,
                !.widget.ap = StatesOf([s \in {Yes, Off} |-> CheckForm(m.widget, IF s = Yes THEN on ELSE off)])]

NewComboboxField(name, rect, choices) ==
  LET m == Made("Ch", name, NoValue, rect)
  IN  [m EXCEPT !.field.ff = <<{"Combo"}>>,
                !.field.opt = [i \in DOMAIN choices |-> [k |-> "string", s |-> choices[i]]]]

\* A signature's name is empty; without options the rectangle is taken from none.
NewSignatureField(lines, opts) ==
  IF opts = << >> THEN << >>
  ELSE LET form == GenSignature(opts[1], SignatureLines(lines))
           m == Made("Sig", "", [k |-> "other", s |-> << >>],
                     IF form.r = "form" THEN <<form.x, form.y, form.x + form.w, form.y + form.h>> ELSE << >>)
       IN  [m EXCEPT !.widget.ap = form]

\* A signature field is its own widget (one dictionary), and does not list it.
WithWidget(f, w) == IF f.ft = "Sig" THEN [f EXCEPT !.own = w] ELSE [f EXCEPT !.annots = <<w>>]

\* The client makes a field, adds it to the form and its widget to page n (AddAnnotation).
MakeField(n, made) ==
  /\ Calling /\ frm.form
  /\ frm' = IF made = << >> THEN [Called(frm) EXCEPT !.at = "panic"]
            ELSE LET w == Len(frm.ann) + 1
                     i == Len(frm.fields) + 1
                 IN  [Called(frm) EXCEPT !.fields = Append(@, WithWidget(made.field, w)), !.tops = Append(@, i),
                                         !.ann = Append(@, made.widget), !.filled = << >>,
                                         !.pages[n] = [GetAnnotations(@) EXCEPT !.loaded = TRUE,
                                                       !.annots = Append(@, w)]]

(***************************************************************************)
(* Flattening (FlattenFields).                                             *)
(***************************************************************************)
StartFlatten(gen, all) ==
  /\ Calling /\ frm.form
  /\ LET order == AllFields(frm.fields, frm.tops)
     IN  frm' = [Called(frm) EXCEPT !.at = "generating", !.gen = gen, !.all = all, !.targets = {}, !.last = << >>,
                   !.todo = FlattenSeq([k \in DOMAIN order |->
                              [j \in DOMAIN frm.fields[order[k]].annots |-> <<order[k], frm.fields[order[k]].annots[j]>>]])]

Appearance(i, w) ==
  LET f == frm.fields[i]
      flags == Flags(frm.fields, i)
      own == IF f.ff = << >> THEN {} ELSE f.ff[1]
  IN  IF f.ft \in {"Tx", "Ch"} /\ flags = << >> /\ ~Kept(frm.ann[w], f, frm.gen[1]) THEN Panicked
      ELSE GenerateAppearance(frm.ann[w], [ft |-> f.ft, v |-> f.v, q |-> f.q, maxlen |-> f.maxlen, opt |-> f.opt,
                                           own |-> own,
                                           flags |-> IF flags = << >> THEN {} ELSE flags[1]],
                              DefaultAppearance(frm.fields, i), frm.doc.da, frm.doc.dr, frm.gen[1])

\* An appearance is made and put in the widget; one that fails ends the call, the ones before stay.
Generated(i, w, ap) ==
  frm' = CASE ap.r = "error" -> [frm EXCEPT !.at = "loaded", !.last = << >>]
           [] ap.r = "panic" -> [frm EXCEPT !.at = "panic"]
           [] OTHER -> [frm EXCEPT !.todo = Tail(@), !.targets = @ \cup {w}, !.ann[w].ap = ap, !.last = <<i, w>>]

GenerateNext ==
  /\ frm.at = "generating" /\ frm.todo # << >>
  /\ LET i == frm.todo[1][1]
         w == frm.todo[1][2]
     IN  Generated(i, w, IF frm.gen = << >> THEN frm.ann[w].ap ELSE Appearance(i, w))

\* All annotations: of the pages that have them loaded.
LoadedAnnots == UNION {ToSet(frm.pages[p].annots) : p \in {p \in DOMAIN frm.pages : frm.pages[p].loaded}}
StartPages ==
  /\ frm.at = "generating" /\ frm.todo = << >>
  /\ frm' = [frm EXCEPT !.at = "wrap", !.page = 1, !.last = << >>,
             !.targets = IF frm.all THEN @ \cup LoadedAnnots ELSE @,
                     !.shot = [p \in DOMAIN frm.pages |-> IF frm.pages[p].loaded THEN frm.pages[p].annots ELSE << >>]]

Depth(ops) == Cardinality({i \in DOMAIN ops : ops[i].op = "q"}) - Cardinality({i \in DOMAIN ops : ops[i].op = "Q"})
\* isWrapped.
Enclosed(ops) ==
  Len(ops) >= 2 /\ Depth(ops) = 0 /\ \A i \in DOMAIN ops : ops[i].op \in {"q", "Q"} \/ Depth(SubSeq(ops, 1, i)) >= 1
\* Mutant of WrapContents.
WrapContentsNever(ops) == ops

\* WrapContentStream.
WrapContents(ops) ==
  IF ops = << >> \/ Enclosed(ops) THEN ops
  ELSE <<Plain("q")>> \o ops \o [i \in 1 .. Depth(ops) + 1 |-> Plain("Q")]

\* Contents that do not parse end the call; the pages before are done.
WrapPage ==
  /\ frm.at = "wrap" /\ frm.page <= Len(frm.pages)
  /\ frm' = IF frm.gen = << >> THEN [frm EXCEPT !.at = "panic"]
            ELSE IF Plain("broken") \in ToSet(frm.pages[frm.page].ops) THEN [frm EXCEPT !.at = "loaded"]
            ELSE [frm EXCEPT !.at = "page", !.item = 1, !.kept = << >>, !.pages[frm.page].ops = WrapContents(@)]

\* getAnnotationActiveAppearance: << >> where there is none, for whatever reason.
ActiveAppearance(a) ==
  CASE a.ap.r = "form" /\ Len(a.rect) = 4 -> <<a.ap>>
    [] a.ap.r = "states" /\ Len(a.rect) = 4 /\ a.as # << >> ->
         IF a.as[1] \in DOMAIN a.ap.states THEN <<a.ap.states[a.as[1]]>> ELSE << >>
    [] OTHER -> << >>

Smaller(a, b) == IF a < b THEN a ELSE b
FreeName(forms) == Min((1 .. Cardinality(DOMAIN forms) + 1) \ DOMAIN forms)

\* Mutant of DrawAnnotation.
DrawAnnotationAtCorner(p, w, form, rect) ==
  [p EXCEPT !.forms = [n \in DOMAIN @ \cup {FreeName(@)} |-> IF n = FreeName(@) THEN form ELSE @[n]],
   !.fonts = @ \cup form.fonts,
            !.ops = @ \o <<Plain("q"), [op |-> "Do", name |-> FreeName(p.forms), x |-> rect[1], y |-> rect[2],
                                        of |-> w], Plain("Q")>>]

\* The form gets a new name in the page's resources, is drawn at the corner, and its fonts are added.
DrawAnnotation(p, w, form, rect) ==
  LET name == FreeName(p.forms)
  IN  [p EXCEPT !.forms = [n \in DOMAIN p.forms \cup {name} |-> IF n = name THEN form ELSE p.forms[n]],
                !.fonts = p.fonts \cup form.fonts,
                !.ops = p.ops \o <<Plain("q"), [op |-> "Do", name |-> name, x |-> Smaller(rect[1], rect[3]),
                                                y |-> Smaller(rect[2], rect[4]), of |-> w],
                                   Plain("Q")>>]

NeverDrawn == {"Popup", "Link", "Projection"}
FlattenAnnot ==
  /\ frm.at = "page"
  /\ LET p == frm.pages[frm.page]
         w == p.annots[frm.item]
         active == ActiveAppearance(frm.ann[w])
         s == [frm EXCEPT !.item = @ + 1]
     IN  /\ p.loaded /\ frm.item <= Len(p.annots)
         /\ frm' = CASE w \notin frm.targets -> [s EXCEPT !.kept = Append(@, w)]
                     [] w \in frm.targets /\ (frm.ann[w].sub \in NeverDrawn \/ active = << >>) -> s
                     [] w \in frm.targets /\ frm.ann[w].sub \notin NeverDrawn /\ active # << >> ->
                          [s EXCEPT !.pages[frm.page] = DrawAnnotation(p, w, active[1], frm.ann[w].rect)]

\* Mutant of EndPage.
EndPageKeepsAll ==
  /\ frm.at = "page" /\ (frm.pages[frm.page].loaded => frm.item > Len(frm.pages[frm.page].annots))
  /\ frm' = [frm EXCEPT !.at = "wrap", !.page = @ + 1]

\* With none left the page's list is nil: not loaded.
EndPage ==
  /\ frm.at = "page" /\ (frm.pages[frm.page].loaded => frm.item > Len(frm.pages[frm.page].annots))
  /\ frm' = [frm EXCEPT !.at = "wrap", !.page = @ + 1, !.pages[frm.page].annots = frm.kept,
             !.pages[frm.page].loaded = (frm.kept # << >>)]
EndFlatten ==
  /\ frm.at = "wrap" /\ frm.page > Len(frm.pages)
  /\ frm' = [frm EXCEPT !.at = "done", !.form = FALSE]

(***************************************************************************)
(* Writing the form (ToPdfObject) and reading it again.                    *)
(***************************************************************************)
Blank == [sub |-> "", ft |-> "", t |-> << >>, ff |-> << >>, v |-> NoValue, kids |-> << >>, da |-> << >>, q |-> 0,
          maxlen |-> NoMaxLen,
          opt |-> << >>, rect |-> << >>, ap |-> [r |-> "none"], as |-> << >>, mk |-> [has |-> FALSE], bs |-> -1]

WidgetDict(a) == [Blank EXCEPT !.sub = a.sub, !.rect = a.rect, !.ap = a.ap, !.as = a.as, !.mk = a.mk, !.bs = a.bs]
\* Children come before widgets; only a field of the form's own list is written by its type.
FieldDict(fields, i, base) ==
  LET f == fields[i]
      common == [Blank EXCEPT !.ft = f.ft, !.t = f.t, !.ff = f.ff, !.v = f.v,
                 !.kids = [k \in DOMAIN f.kids |-> base + f.kids[k]] \o f.annots]
  IN  IF f.parent # 0 \/ f.ft = "" THEN common
      ELSE [common EXCEPT !.da = f.da, !.q = f.q, !.maxlen = f.maxlen, !.opt = f.opt]

ObjectOf(fields, i, base) == IF fields[i].own # 0 THEN fields[i].own ELSE base + i
Objects(fields, ann) ==
  LET base == Len(ann)
      merged(w) == {i \in DOMAIN fields : fields[i].own = w}
      both(w, i) == [FieldDict(fields, i, base) EXCEPT !.sub = ann[w].sub, !.rect = ann[w].rect, !.ap = ann[w].ap,
                     !.as = ann[w].as]
  IN  [w \in 1 .. base |-> IF merged(w) = {} THEN WidgetDict(ann[w]) ELSE both(w, CHOOSE i \in merged(w) : TRUE)]
      \o [i \in DOMAIN fields |-> FieldDict(fields, i, base)]

WriteForm ==
  /\ Calling /\ frm.form /\ frm.before = << >>
  /\ LET doc == [frm.doc EXCEPT !.objs = Objects(frm.fields, frm.ann),
                                !.fields = [k \in DOMAIN frm.tops |-> ObjectOf(frm.fields, frm.tops[k], Len(frm.ann))]]
     IN  frm' = [Loading(doc) EXCEPT !.calls = @ + 1, !.before = <<frm.fields>>]

FormsNext ==
  \/ \E doc \in FormDocs : OpenForm(doc)
  \/ LoadField
  \/ LoadKid
  \/ EndField
  \/ EndForm
  \/ \E n \in DOMAIN frm.pages : LoadPage(n)
  \/ \E values \in Providers : FillForm(values)
  \/ \E n \in DOMAIN frm.pages, made \in MadeFields : MakeField(n, made)
  \/ \E gen \in Generators, all \in BOOLEAN : StartFlatten(gen, all)
  \/ GenerateNext
  \/ StartPages
  \/ WrapPage
  \/ FlattenAnnot
  \/ EndPage
  \/ EndFlatten
  \/ WriteForm

(***************************************************************************)
(* What must hold.                                                         *)
(***************************************************************************)
Read == frm.at = "loading" /\ frm.stack = << >> /\ frm.next > Len(frm.doc.fields)
Nearest(i) == LET up == SelectSeq(Lineage(frm.fields, i), LAMBDA j : frm.fields[j].ff # << >>)
              IN  IF up = << >> THEN {} ELSE frm.fields[up[1]].ff[1]

\* Each widget that the Kids of the form's fields lead to belongs to a field
\* (newPdfFieldFromIndirectObject); those below a merged field are not looked at.
WidgetsFound ==
  Read =>
    LET objs == frm.doc.objs
        known(S) == {o \in S : o > 0}
        below[n \in 0 .. MaxNesting] ==
          IF n = 0 THEN known(ToSet(frm.doc.fields))
          ELSE below[n - 1] \cup known(UNION {ToSet(objs[o].kids) : o \in {o \in below[n - 1] : ~IsWidget(objs[o])}})
    IN  {o \in below[MaxNesting] : IsWidget(objs[o])} =
          UNION {ToSet(frm.fields[i].annots) : i \in DOMAIN frm.fields}

\* A form that is written and read has the fields it had (ToPdfObject against
\* newPdfFieldFromIndirectObject).  Fields below others are written without what
\* belongs to their type (Nested); a signature field made here finds its widget.
Nested(f) == f.parent # 0
RoundTrip ==
  Read /\ frm.before # << >> =>
    /\ Len(frm.fields) = Len(frm.before[1])
    /\ \A i \in DOMAIN frm.fields :
         LET f == frm.before[1][i]
             g == frm.fields[i]
         IN  /\ <<g.parent, g.kids, g.ft, g.t, g.ff>> = <<f.parent, f.kids, f.ft, f.t, f.ff>>
             /\ <<g.v.k, g.v.s>> = <<f.v.k, f.v.s>>
             /\ g.annots = IF f.own # 0 THEN <<f.own>> ELSE f.annots
             /\ ~Nested(f) => <<g.da, g.q, g.maxlen, g.opt>> = <<f.da, f.q, f.maxlen, f.opt>>

\* After Fill every field that has one of the names, wherever it is in the tree,
\* has the value, and the widgets of a button or choice are in that state.
Filled ==
  frm.at = "loaded" /\ frm.filled # << >> =>
    \A i \in DOMAIN frm.fields :
      LET f == frm.fields[i]
          v == frm.filled[1][PartialName(f)]
      IN  PartialName(f) \in DOMAIN frm.filled[1] \ {""} /\ v.k \in {"name", "string"} =>
            /\ f.ft = "Tx" => f.v.s = v.s
            /\ f.ft \in {"Btn", "Ch"} /\ v.s # << >> =>
                 f.v.s = v.s /\ \A w \in ToSet(f.annots) : frm.ann[w].as = <<v.s>>

(***************************************************************************)
(* Appearances: what a viewer shows of one.                                *)
(***************************************************************************)
Shows(ops) ==
  FoldLeft(LAMBDA s, op :
             CASE op.op = "Td" -> [s EXCEPT !.x = @ + op.x, !.y = @ + op.y]
               [] op.op = "Tf" -> [s EXCEPT !.size = op.size, !.fonts = @ \cup {op.font}]
               [] op.op = "Tj" -> [s EXCEPT !.marks = Append(@, [x |-> s.x, size |-> s.size, text |-> op.text])]
               [] OTHER -> s, [x |-> 0, y |-> 0, size |-> 0, fonts |-> {}, marks |-> << >>], ops)
Letters(s) == SelectSeq(s, LAMBDA c : c # " ")
TextShown(ops) == FlattenSeq([k \in DOMAIN Shows(ops).marks |-> Shows(ops).marks[k].text])

\* A paragraph that is not the last and is broken: its rest goes behind the next one.
BreaksEarly(f, font, size, wide) ==
  LET ps == SplitLines(LineEnds(f.v.s)) IN \E k \in 1 .. Len(ps) - 1 : BreakAt(font, size, wide, ps[k]) # 0

\* A line that is to begin left of the one before, or of the margin.
MovesLeft(xs) == \E k \in DOMAIN xs : xs[k] < (IF k = 1 THEN Margin ELSE xs[k - 1])

\* The text of a field, whole, in its lines, which fit its width unless they are
\* one word, and begin where its alignment has them (genFieldTextAppearance).
TextLaidOut(f, ap, da) ==
  LET font == FontName(da)
      marks == Shows(ap.ops).marks
      wide(k) == (Width(font, marks[k].text) * marks[k].size) \div 1000
      starts == [k \in DOMAIN marks |-> CASE f.q = 1 -> (ap.w - wide(k)) \div 2
                                          [] f.q = 2 -> ap.w - wide(k)
                                          [] OTHER -> Margin]
      multi == "Multiline" \in Nearest(frm.last[1])
  IN  /\ Len(Letters(TextShown(ap.ops))) = Len(Letters(Encoded(font, f.v.s)))
      /\ (multi /\ ~da.auto => ~BreaksEarly(f, font, da.size, ap.w)) =>
           Letters(TextShown(ap.ops)) = Letters(Encoded(font, f.v.s))
      /\ \A k \in DOMAIN marks : da.auto \/ multi =>
           wide(k) <= ap.w \/ (~da.auto /\ ~\E j \in 2 .. Len(marks[k].text) : marks[k].text[j] = " ")
      /\ ~MovesLeft(starts) => \A k \in DOMAIN marks : marks[k].x = starts[k]

\* The characters of a comb field, each in its box (genFieldTextCombAppearance),
\* if the font has them all and they are not wider than the box.
CombLaidOut(f, ap, da) ==
  LET font == FontName(da)
      marks == Shows(ap.ops).marks
      box == ap.w \div f.maxlen
      first == IF f.q = 2 /\ Len(f.v.s) < f.maxlen THEN f.maxlen - Len(f.v.s) ELSE 0
      wide(k) == Width(font, marks[k].text) * marks[k].size
  IN  TextShown(ap.ops) = f.v.s /\ (\A k \in DOMAIN marks : wide(k) <= 1000 * box) =>
        \A k \in DOMAIN marks :
          /\ marks[k].x >= (first + k - 1) * box
          /\ marks[k].x + wide(k) \div 1000 <= (first + k) * box

FormsOf(ap) == CASE ap.r = "form" -> {ap} [] ap.r = "states" -> {ap.states[s] : s \in DOMAIN ap.states} [] OTHER -> {}

\* An appearance names only fonts it has, and those it has from a DA are the
\* form's; a check box has both states and shows its mark in one; a combo box has
\* a state for each choice, which shows it; what is a password has none.
StatesLaidOut(f, ap, da) ==
  /\ \A form \in FormsOf(ap) : Shows(form.ops).fonts \subseteq form.fonts
  /\ f.ft # "Btn" /\ da.font # "" => \A form \in FormsOf(ap) : form.fonts \subseteq frm.doc.dr.fonts
  /\ f.ft = "Btn" /\ ap.r = "states" => TextShown(ap.states[Yes].ops) # << >> /\ TextShown(ap.states[Off].ops) = << >>
  /\ f.ft = "Ch" /\ ap.r = "states" =>
       \A k \in DOMAIN f.opt : f.opt[k].s # << >> =>
         f.opt[k].s \in DOMAIN ap.states /\ TextShown(ap.states[f.opt[k].s].ops) = Encoded(FontName(da), f.opt[k].s)
  /\ f.ft = "Tx" /\ "Password" \in Nearest(frm.last[1]) => ap.r = "nil"

Fresh(ap) == \A form \in FormsOf(ap) : form.ops # << >>
\* GenerateAppearanceDict, of the widget it was last called for.
AppearancesSound ==
  frm.at = "generating" /\ frm.last # << >> /\ frm.gen # << >> =>
    LET f == frm.fields[frm.last[1]]
        ap == frm.ann[frm.last[2]].ap
        size0 == Height0(frm.ann[frm.last[2]], frm.gen[1].style)
        da == DAState(IF f.ft = "Ch" THEN frm.doc.da ELSE DefaultAppearance(frm.fields, frm.last[1]), size0)
    IN  Fresh(ap) =>
          /\ StatesLaidOut(f, ap, da)
          /\ f.ft = "Tx" /\ ap.r = "form" =>
               IF "Comb" \in Nearest(frm.last[1]) /\ f.maxlen # NoMaxLen THEN CombLaidOut(f, ap, da)
               ELSE TextLaidOut(f, ap, da)

(***************************************************************************)
(* Flattening.                                                             *)
(***************************************************************************)
Drawings(p, w) == {k \in DOMAIN p.ops : p.ops[k].op = "Do" /\ p.ops[k].of = w}
ToDraw(w) ==
  LET a == frm.ann[w]
  IN  /\ w \in frm.targets /\ a.sub \notin {"Popup", "Link", "Projection"} /\ Len(a.rect) = 4
      /\ \/ a.ap.r = "form"
         \/ a.ap.r = "states" /\ \E s \in DOMAIN a.ap.states : a.as = <<s>>

\* No annotation of a page is drawn twice, even if a call failed after its page
\* and the next one came again; unless the client loads the page's annotations
\* again in between: they all come back if none was left (again).
DrawnOnce ==
  \A n \in DOMAIN frm.pages : ~frm.pages[n].again =>
    \A w \in DOMAIN frm.ann : Cardinality(Drawings(frm.pages[n], w)) <= 1

\* Where the annotations were loaded, those to be flattened are drawn by the form
\* of their state, under a name of their own, at the lower left corner; the
\* others are left as they are; of the fields no widget is left.  A page whose
\* annotations nobody loaded is left as it is, and one that has none left gets
\* them all back when it is written (its Annots entry).
Flattened ==
  frm.at = "done" => \A n \in DOMAIN frm.pages :
    LET p == frm.pages[n]
        shot == ToSet(frm.shot[n])
    IN  ~p.again =>
        /\ \A w \in shot : ToDraw(w) <=> Drawings(p, w) # {}
        /\ \A w \in shot : \A k \in Drawings(p, w) :
             LET a == frm.ann[w]
                 d == p.ops[k]
             IN  /\ p.forms[d.name] = IF a.ap.r = "form" THEN a.ap ELSE a.ap.states[a.as[1]]
                 /\ {d.x} = {Min({a.rect[1], a.rect[3]})} /\ {d.y} = {Min({a.rect[2], a.rect[4]})}
                 /\ p.forms[d.name].fonts \subseteq p.fonts
                 /\ \A j \in DOMAIN p.ops \ {k} : p.ops[j].op = "Do" => p.ops[j].name # d.name
        /\ p.loaded => p.annots = SelectSeq(frm.shot[n], LAMBDA w : w \notin frm.targets)
        /\ shot # {} /\ ~p.loaded => shot \subseteq frm.targets

\* The forms are drawn in the page's own coordinates, whatever its contents did
\* (WrapContentStream), unless they restore more than they saved.
Overdrawn(ops) == \E k \in DOMAIN ops : Depth(SubSeq(ops, 1, k)) < 0
DrawnInDefault ==
  frm.at = "done" => \A n \in DOMAIN frm.pages :
    LET p == frm.pages[n]
        at[k \in 0 .. Len(p.ops)] ==
          IF k = 0 THEN <<0>>
          ELSE LET s == at[k - 1]
               IN  CASE p.ops[k].op = "q" -> Append(s, s[Len(s)])
                     [] p.ops[k].op = "Q" -> IF Len(s) > 1 THEN Front(s) ELSE s
                     [] p.ops[k].op = "cm" -> [s EXCEPT ![Len(s)] = @ + 1]
                     [] OTHER -> s
    IN  ~Overdrawn(frm.doc.pages[n].ops) => \A w \in DOMAIN frm.ann : \A k \in Drawings(p, w) : at[k][Len(at[k])] = 0

\* A form holds together: read, filled, given appearances, flattened, written.
FormsSound ==
  WidgetsFound /\ RoundTrip /\ Filled /\ AppearancesSound /\ DrawnOnce /\ Flattened /\ DrawnInDefault
=============================================================================

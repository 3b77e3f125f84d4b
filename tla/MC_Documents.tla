----------------------------- MODULE MC_Documents -----------------------------
(***************************************************************************)
(* The models of a document's objects, its interactive form, and the       *)
(* optimizers: see the modules Dictionaries, Forms and Optimizer.  A       *)
(* behaviour is of one of the three.                                       *)
(***************************************************************************)
EXTENDS Dictionaries, Forms, Optimizer, TLC

(***************************************************************************)
(* Dictionaries with one of the optional entries, without one, or with     *)
(* all; the client changes that entry or, of all, any.                     *)
(***************************************************************************)
\* A key of which no function knows.
Foreign == "foreign"
Optional(t) == (Known(t) \cup {Foreign}) \ Rows[t].needs
\* C0 and C1 of an exponential function are taken together only.
Consistent(t, K) == t = "Function2" => (("C0" \in K) = ("C1" \in K))
MCKeysOf ==
  [t \in Types |->
     { K \cup Rows[t].needs :
         K \in {K \in {Optional(t)} \cup UNION { {{k}, Optional(t) \ {k}} : k \in Optional(t) } : Consistent(t, K)} }]
MCEditsOf ==
  [t \in Types |->
     [K \in MCKeysOf[t] |->
        LET extra == K \ Rows[t].needs
        IN  IF Cardinality(extra) > 1 /\ ~(Optional(t) \subseteq K) THEN {}
            ELSE {k \in Fields(t) : Cardinality(extra) > 1 \/ extra \subseteq {k}}]]

HelvLetters == {"a", "b", "c", "d", ":", ",", "B"}
MCFonts14 ==
  "Helv" :> [wx |-> [c \in HelvLetters \cup {" ", "W"} |-> CASE c = " " -> 250 [] c = "W" -> 1000 [] OTHER -> 500],
             cap |-> 700]
  @@ "F1" :> [wx |-> [c \in {"a", "b", "c", " "} |-> IF c = "c" THEN 300 ELSE 600], cap |-> 0]
  @@ "ZaDb" :> [wx |-> [c \in {"check", "cross"} |-> 800], cap |-> 0]

NoMK == [has |-> FALSE, bad |-> FALSE, ca |-> << >>, bc |-> << >>, bg |-> << >>]
String(s) == [k |-> "string", s |-> s]
Name(s) == [k |-> "name", s |-> s]
Tf(font, size) == [op |-> "Tf", font |-> font, size |-> size]
DA(font, size) == <<<<Tf(font, size), [op |-> "g", font |-> "", size |-> 0]>>>>
\* An appearance that comes with the file.
FileForm(tag) == [r |-> "form", x |-> 0, y |-> 0, w |-> 10000, h |-> 10000, fonts |-> {tag}, ops |-> << >>]
Widget(rect) == [Blank EXCEPT !.sub = "Widget", !.rect = rect, !.mk = NoMK]
Text(name, rect, value, da) == [Widget(rect) EXCEPT !.ft = "Tx", !.t = <<name>>, !.v = String(value), !.da = da]
Box(x, y) == <<x, y, x + 20000, y + 10000>>
Annot(sub, tag) == [Blank EXCEPT !.sub = sub, !.rect = Box(0, 0), !.mk = NoMK, !.ap = FileForm(tag)]
Op(name) == [op |-> name]
APage(annots, ops) == [annots |-> annots, ops |-> [i \in DOMAIN ops |-> Op(ops[i])], forms |-> << >>, fonts |-> {}]
Check(name, rect) ==
  [Widget(rect) EXCEPT !.ft = "Btn", !.t = <<name>>, !.v = Name(Off), !.as = <<Off>>,
                       !.ap = [r |-> "states", states |-> (Yes :> FileForm("on") @@ Off :> FileForm("off"))]]
Combo(name, rect, opt) == [Widget(rect) EXCEPT !.ft = "Ch", !.t = <<name>>, !.ff = <<{"Combo"}>>, !.opt = opt]
Document(objs, fields, pages) ==
  [objs |-> objs, fields |-> fields, dr |-> [has |-> TRUE, fonts |-> {"Helv", "F1"}], da |-> DA("Helv", 0)[1],
   pages |-> pages]

\* Fields that are widgets, and annotations of other types.
Merged == Document(
  <<Text("a", Box(10000, 20000), <<"a", "b">>, DA("Helv", 0)), Check("c", <<30000, 40000, 20000, 30000>>),
    Combo("o", Box(0, 0), <<String(<<"B">>), Name(<<"a", "c">>), String(<< >>)>>),
    Annot("Link", "l"), Annot("Popup", "p"), Annot("Text", "t")>>,
  <<1, -1, 2, 3>>, <<APage(<<1, 4, 2, 5, 3, 6>>, <<"cm", "fill">>)>>)

\* A tree: fields below fields, widgets of one field on two pages, the second of which cannot be parsed.
Tree == Document(
  <<[Blank EXCEPT !.t = <<"p">>, !.ff = <<{"Multiline"}>>, !.ft = "Tx", !.da = DA("F1", 8000), !.kids = <<2, 3>>],
    [Blank EXCEPT !.t = <<"a">>, !.ft = "Tx", !.ff = <<{}>>, !.v = String(<<"a", "d", "b">>), !.q = 1,
     !.kids = <<4, 5>>],
    [Blank EXCEPT !.t = <<"c">>, !.ft = "Btn", !.v = Name(Yes), !.kids = <<6, 7>>, !.opt = <<String(<<"a">>)>>],
    Widget(Box(0, 0)), Widget(Box(0, 50000)), [Check("", Box(50000, 0)) EXCEPT !.ft = "", !.t = << >>],
    [Check("", Box(50000, 50000)) EXCEPT !.ft = "", !.t = << >>]>>,
  <<1>>, <<APage(<<4, 6>>, <<"q", "cm", "Q">>), APage(<<5, 7>>, <<"q", "cm">>)>>)
Torn == [Tree EXCEPT !.pages[2].ops = <<Op("broken")>>]

\* Text in lines, and in boxes; a style from the widget.
Para == <<"a", "b", " ", "b", "a", " ", "a", "a", "a", "lf", "b">>
Lines == Document(
  <<[Text("m", Box(0, 0), Para, DA("Helv", 8000)) EXCEPT !.ff = <<{"Multiline"}>>],
    [Text("n", <<0, 0, 15000, 40000>>, <<"b", "cr", "lf", "a", "a", " ", "b", "W", "a", " ", "c", "d">>,
          DA("Helv", 8000)) EXCEPT !.ff = <<{"Multiline"}>>, !.q = 2],
    [Text("v", Box(0, 0), <<"a", "a", "lf", "a">>, DA("Helv", 8000)) EXCEPT !.ff = <<{"Multiline"}>>, !.q = 2],
    [Text("u", Box(0, 0), <<"a", "a", "cr", "b", " ", "b", "b", "b", "b", "b", "b">>,
          DA("F1", 0)) EXCEPT !.ff = <<{"Multiline"}>>, !.q = 1],
    [Text("k", Box(0, 0), <<"a", "b", "a", "b">>, DA("F1", 6000)) EXCEPT !.ff = <<{"Comb"}>>, !.maxlen = 5, !.q = 2],
    [Text("l", Box(0, 0), <<"a", "d", "W">>, DA("Helv", 0)) EXCEPT !.ff = <<{"Comb"}>>, !.maxlen = 3],
    [Text("w", Box(0, 0), <<"a">>, DA("Helv", 0)) EXCEPT !.ff = <<{"Password"}>>],
    [Text("x", Box(0, 0), <<"b", " ", "b">>, << >>) EXCEPT
       !.mk = [has |-> TRUE, bad |-> FALSE, ca |-> <<"cross">>, bc |-> <<1, 0, 0>>, bg |-> << >>], !.bs = 1000],
    [Check("y", Box(0, 0)) EXCEPT !.mk = [has |-> TRUE, bad |-> FALSE, ca |-> <<"cross">>, bc |-> << >>,
                                          bg |-> <<0>>], !.ap = [r |-> "none"]]>>,
  <<1, 2, 3, 4, 5, 6, 7, 8, 9>>, <<APage(<<1, 2, 3>>, << >>)>>)

\* What is refused, or worse.
Direct == [Merged EXCEPT !.fields = <<1, 0>>]
Typeless == [Merged EXCEPT !.objs[2].ft = "Xx"]
Cycle == Document(<<[Blank EXCEPT !.t = <<"a">>, !.kids = <<1>>]>>, <<1>>, << >>)
Inherited == [Tree EXCEPT !.objs[2].ff = << >>]
NoFont == [Merged EXCEPT !.objs[3].opt = << >>, !.dr.fonts = {"F1"}]
NoDR == [Merged EXCEPT !.dr = [has |-> FALSE, fonts |-> {}]]
BadOpt == [Merged EXCEPT !.objs[3].opt = <<String(<<"B">>), [k |-> "other", s |-> << >>]>>]
BadMK == [Merged EXCEPT !.objs[2].mk = [has |-> TRUE, bad |-> TRUE, ca |-> << >>, bc |-> << >>, bg |-> << >>],
          !.pages[1].ops = <<Op("Q"), Op("fill")>>]

MCFormDocs == {Merged, Tree, Torn, Lines, Direct, Typeless, Cycle, Inherited, NoFont, NoDR, BadOpt, BadMK}

MCProviders == {"a" :> String(<<"b", " ", "a">>) @@ "c" :> Name(Yes) @@ "o" :> String(<<"B">>),
                "a" :> Name(<<"c">>) @@ "c" :> [k |-> "other",
                                                s |-> << >>] @@ "o" :> Name(<< >>) @@ "p" :> String(<<"d">>)}

Fancy == [DefaultStyle EXCEPT !.border = 500, !.reticle = TRUE, !.middle = TRUE]
MCGenerators == {<< >>, <<[only |-> FALSE, again |-> FALSE, style |-> DefaultStyle]>>,
                 <<[only |-> TRUE, again |-> TRUE, style |-> Fancy]>>}

SigOpts(rect, auto) ==
  <<[rect |-> rect, auto |-> auto, font |-> "Helv", size |-> 8000, lh |-> 1000, border |-> 0, bc |-> <<0>>,
     bg |-> <<1>>]>>
SigLines == <<[desc |-> <<"a">>, text |-> <<"b", " ", "c">>], [desc |-> << >>, text |-> << >>],
              [desc |-> << >>, text |-> <<"d">>]>>
MCMadeFields ==
  {NewTextField("a", Box(70000, 0), 3, << >>), NewCheckboxField("c", Box(70000, 0), TRUE),
   NewComboboxField("o", Box(70000, 0), <<<<"B">>>>),
   NewSignatureField(SigLines, SigOpts(Box(70000, 70000), TRUE)),
   NewSignatureField(SigLines, SigOpts(<< >>, FALSE)), NewSignatureField(SigLines, << >>)}

(***************************************************************************)
(* Optimizers: two pages, each with contents, resources and a font in      *)
(* them; what is alike is chosen.                                          *)
(***************************************************************************)
HInd(val, num) == [k |-> "ind", val |-> val, num |-> num]
HStream(dict, raw, num) == [k |-> "stream", dict |-> dict, raw |-> raw, num |-> num]
HDict(f, order) == [k |-> "dict", ent |-> [i \in DOMAIN order |-> [key |-> order[i], val |-> f[order[i]]]]]
HArray(items) == [k |-> "array", items |-> items]
HAtom(val) == [k |-> "atom", val |-> val]
HPage(type, contents, resources) ==
  HDict([Type |-> type, Parent |-> 5, Contents |-> contents, Resources |-> resources, Annots |-> 26],
        <<"Type", "Parent", "Contents", "Resources", "Annots">>)
\* c: the second page's contents; e: their data, filters and colour space; r: its resources; f: its font; w: metrics
\* of the fonts
OptDoc(c, e, r, f, w) ==
  [heap |-> <<
     HInd(2, 1), HDict([Author |-> 20], <<"Author">>), HInd(4, 2), HDict([Pages |-> 5], <<"Pages">>),
     HInd(6, 3), HDict([Kids |-> 7], <<"Kids">>), HArray(<<8, 10>>),
     HInd(9, 4), HPage(21, 12, 16), HInd(11, 5), HPage(22, c, r),
     HStream(13, <<"hex", "text">>, 6), HDict([Filter |-> 23, Cs |-> 20], <<"Filter", "Cs">>),
     HStream(15, e[1], 7), HDict([Filter |-> e[2], Cs |-> e[3]], <<"Filter", "Cs">>),
     HDict([Font |-> 18, Empty |-> 27], <<"Font", "Empty">>), HDict([Font |-> f, Empty |-> 28], <<"Font", "Empty">>),
     HInd(19, 8), HDict([Name |-> 20, Widths |-> 24], <<"Name", "Widths">>),
     HAtom("x"), HAtom("Page"), HAtom("Page"), HAtom("hex"),
     HDict([a |-> 20], <<"a">>), HDict([a |-> w], <<"a">>), HArray(<<30, 31>>),
     HDict([a |-> 20], << >>), HDict([a |-> 20], << >>),
     HArray(<<23>>),
     HInd(32, 9), HInd(33, 10),
     HDict([Rect |-> 20, Style |-> 36], <<"Rect", "Style">>), HDict([Rect |-> 20, Style |-> 37], <<"Rect", "Style">>),
     HInd(35, 11), HDict([Name |-> 20, Widths |-> 25], <<"Name", "Widths">>),
     HDict([a |-> 20], << >>), HDict([a |-> 20, b |-> w], IF w = 20 THEN <<"a">> ELSE << >>)>>,
   list |-> <<1, 3, 5, 8, 10, 12>> \o (IF c = 14 THEN <<14>> ELSE << >>) \o <<18, 30, 31>>
            \o (IF r = 17 /\ f = 34 THEN <<34>> ELSE << >>),
   roots |-> {1, 3}]
MCOptDocs ==
  {OptDoc(c, e, r, f, w) : c \in {12, 14}, r \in {16, 17}, f \in {18, 34}, w \in {20, 21},
                           e \in {<<<<"hex", "text">>, 23, 20>>, <<<<"hex", "other">>, 23, 20>>,
                                  <<<<"hex", "text">>, 29, 20>>, <<<<"hex", "text">>, 23, 21>>}}
MCOptOptions ==
  {{"direct"}, {"streams"}, {"identical"}, {"direct", "identical"}, {"streams", "compress"}, {"objstms", "compress"},
   {"direct", "streams", "identical", "objstms"}, {"direct", "streams", "identical", "compress"}}

DocumentsInit == DictInit /\ FormInit /\ OptInit
DocumentsNext ==
  \/ FormIdle /\ OptIdle /\ DictNext /\ UNCHANGED <<FormVars, optim>>
  \/ DictIdle /\ OptIdle /\ FormsNext /\ UNCHANGED <<dictVars, optim>>
  \/ DictIdle /\ FormIdle /\ OptNext /\ UNCHANGED <<dictVars, FormVars>>
DocumentsSpec == DocumentsInit /\ [][DocumentsNext]_<<dictVars, FormVars, optim>>


(***************************************************************************)
(* Names for the values above: TLC evaluates these once, and what a        *)
(* configuration gives a constant at every use.                            *)
(***************************************************************************)
TheKeysOf == MCKeysOf
TheEditsOf == MCEditsOf
TheFonts14 == MCFonts14
TheFormDocs == MCFormDocs
TheProviders == MCProviders
TheMadeFields == MCMadeFields
TheOptDocs == MCOptDocs
=============================================================================

------------------------------ MODULE MC_Contents ------------------------------
(***************************************************************************)
(* A page's contents, and the calculator of functions, the colour spaces   *)
(* and the fonts they are made with.  Each machine runs with the others    *)
(* idle.                                                                   *)
(***************************************************************************)
EXTENDS Calculator, TextExtraction, MC_Fonts
LOCAL INSTANCE TLC

(***************************************************************************)
(* Calculator: integers of four bits, halves, and for the functions of     *)
(* package math others that are easily computed.                           *)
(***************************************************************************)
McMath(word, args) == IF word = "sqrt" THEN <<args[1][1] \div 2, args[1][2]>> ELSE <<args[1][1] + 1, args[1][2]>>
I(v) == [int |-> v]
B(b) == [bool |-> b]
R(p, q) == [real |-> <<p, q>>]
McInts == {I(v) : v \in -8 .. 7}
McReals == {R(p, 2) : p \in {-3, -1, 1, 5}} \cup {R(p, 1) : p \in {-2, 0, 3}}
McBools == {B(TRUE), B(FALSE)}
W(s) == [op |-> s]
Law(left, right, S) == {[left |-> left, right |-> right, operands |-> o] : o \in S}
Ones(S) == {<<a>> : a \in S}
Twos(S, T) == {<<a, b>> : a \in S, b \in T}
Threes == {<<I(1), I(-2), B(TRUE)>>, <<R(1, 2), I(3), R(5, 2)>>}
Wide == (McInts \ {I(-8)}) \cup McReals
McLawCases ==
  UNION {
    Law(<<W("sub")>>, <<W("neg"), W("add")>>, Twos(Wide, Wide)),
    Law(<<W("exch")>>, <<I(2), I(1), W("roll")>>, Twos({I(1), B(TRUE)}, {I(2), R(1, 2)})),
    Law(<<W("dup")>>, <<I(0), W("index")>>, Ones(McBools \cup {I(3)})),
    Law(<<W("dup")>>, <<I(1), W("copy")>>, Ones(McBools \cup {I(3)})),
    Law(<<I(1), W("index")>>, <<I(2), W("copy"), W("pop")>>, Twos({I(1), B(TRUE)}, {I(2), R(1, 2)})),
    Law(<<I(2), W("copy"), W("idiv"), I(1), W("index"), W("mul"), I(3), I(1), W("roll"), W("mod"), W("add")>>,
        <<W("pop")>>, Twos(McInts, McInts)),
    Law(<<W("ne")>>, <<W("eq"), W("not")>>, Twos(Wide \cup McBools, {I(-2), R(1, 2), R(3, 1), B(TRUE)})),
    Law(<<W("ge")>>, <<W("lt"), W("not")>>, Twos(Wide, McReals \cup {I(3)})),
    Law(<<W("gt")>>, <<W("le"), W("not")>>, Twos(Wide, McReals \cup {I(3)})),
    Law(<<W("ge")>>, <<W("exch"), W("le")>>, Twos(Wide, McReals \cup {I(3)})),
    Law(<<W("and")>>, <<W("not"), W("exch"), W("not"), W("or"), W("not")>>, Twos(McInts, McInts) \cup Twos(McBools, McBools)),
    Law(<<W("xor")>>, <<I(2), W("copy"), W("or"), I(3), I(1), W("roll"), W("and"), W("not"), W("and")>>,
        Twos(McInts, McInts) \cup Twos(McBools, McBools)),
    Law(<<I(1), W("bitshift")>>, <<I(2), W("mul")>>, Ones(McInts)),
    Law(<<I(-1), W("bitshift")>>, <<W("dup"), I(2), W("mod"), W("abs"), W("sub"), I(2), W("idiv")>>, Ones(McInts)),
    Law(<<I(3), I(1), W("roll")>>, <<I(3), I(-2), W("roll")>>, Threes),
    Law(<<I(3), I(4), W("roll"), I(3), I(-1), W("roll")>>, << >>, Threes),
    Law(<<W("abs")>>, <<W("dup"), I(0), W("lt"), [proc |-> <<W("neg")>>], W("if")>>, Ones(Wide)),
    Law(<<W("truncate")>>,
        <<W("dup"), I(0), W("lt"), [proc |-> <<W("ceiling")>>], [proc |-> <<W("floor")>>], W("ifelse")>>, Ones(Wide)),
    Law(<<W("ceiling")>>, <<W("neg"), W("floor"), W("neg")>>, Ones(McReals)),
    Law(<<W("round")>>, <<R(1, 2), W("add"), W("floor")>>, Ones(McReals)),
    Law(<<W("cvi"), W("cvr")>>, <<W("truncate"), W("cvr")>>, Ones(Wide)),
    Law(<<W("dup"), I(3), I(1), W("roll"), W("div"), W("mul")>>, <<W("pop"), W("cvr")>>, Twos(Wide, Wide)) }
P(objs) == [proc |-> objs]
McPrograms ==
  {<<W("dup"), W("mul")>>, <<W("sqrt"), I(1), W("exch"), W("sub")>>, <<W("exch"), W("pop"), R(1, 2), W("add")>>,
   <<W("sin"), W("ln")>>, <<W("cos"), W("log")>>, <<R(1, 1), W("exp")>>, <<R(0, 1), W("atan")>>, <<R(2, 1), W("atan")>>,
   <<B(TRUE), P(<<P(<< >>), W("pop")>>), W("if"), R(-3, 2)>>, <<I(12), W("idiv")>>, <<W("copy")>>,
   <<W("dup"), R(0, 1), W("gt"), P(<<R(1, 3), W("mul")>>), P(<<W("neg"), B(FALSE), P(<<I(7)>>), W("if")>>), W("ifelse")>>}
McTexts ==
  {<<Open, I(2), Close>>, <<Open, W(".5"), Close>>, <<Open, R(1, 2), W("mul")>>, <<Open, I(1), I(2)>>, <<Open, I(12), I(12)>>,
   <<Open, Open, I(1), Close, Close, W("x")>>, <<Open, Stray, I(1), Close>>, <<I(1), Close>>, <<Open>>, <<Open, Open, W("dup")>>}
McArguments == {<<<<1, 2>>>>, <<<<-2, 1>>>>, <<<<1, 2>>, <<0, 1>>>>, << >>}

(***************************************************************************)
(* Colours: every family on its own, and one within another; tables and    *)
(* functions of few colours.                                               *)
(***************************************************************************)
McToneCurve(cs, v) ==
  CASE cs.name = "CalGray" -> <<v[1] + 10, v[1], v[1] - 10>>
    [] cs.name = "CalRGB" -> <<2 * v[1] - v[2], v[2], v[3]>>
    [] cs.name = "Lab" -> <<(v[1] + v[2]) \div 100, v[1] \div 100, (v[1] - v[3]) \div 100>>
Name(n) == NamedObject(n)
Arr(elems) == ArrayObject(elems)
Ref(o) == [ref |-> o]
Dict(n) == [dict |-> IF n = "Lab" THEN [name |-> n, range |-> <<-100 * 255, 100 * 255, -50 * 255, 50 * 255>>] ELSE [name |-> n]]
Cie(n) == Arr(<<Name(n), Dict(n)>>)
Icc(n, alt) == Arr(<<Name("ICCBased"), Ref([icc |-> [n |-> n, alt |-> alt]])>>)
Idx(base, hival, bytes) == Arr(<<Name("Indexed"), base, [int |-> hival], [bytes |-> bytes]>>)
Linear(c0, c1) == [type |-> 2, exp |-> 1, c0 |-> c0, c1 |-> c1]
Square(c0, c1) == [type |-> 2, exp |-> 2, c0 |-> c0, c1 |-> c1]
Table(size, table, n) ==
  [type |-> 0, size |-> size, table |-> table, n |-> n, bps |-> 8,
   domain |-> [i \in 1 .. 2 * Len(size) |-> IF i % 2 = 1 THEN 0 ELSE 255],
   encode |-> [i \in 1 .. 2 * Len(size) |-> IF i % 2 = 1 THEN 0 ELSE (size[i \div 2] - 1) * 255],
   range |-> [i \in 1 .. 2 * n |-> IF i % 2 = 1 THEN 0 ELSE 255],
   decode |-> [i \in 1 .. 2 * n |-> IF i % 2 = 1 THEN 0 ELSE 255]]
Inks(name, n, alt, f) == Arr(<<Name(name), [colorants |-> n], alt, Ref([fun |-> f])>>)
Gray == Name("DeviceGray")
RGB == Name("DeviceRGB")
CMYK == Name("DeviceCMYK")
TwoInks == Table(<<2, 3>>, <<0, 10, 20, 30, 250, 60, 70, 80, 90, 100, 110, 120, 130, 140, 150, 160, 170, 180>>, 3)
McSpaceObjects ==
  {Gray, RGB, CMYK, Name("Pattern"), Name("Lab"), Arr(<< >>), Arr(<<RGB>>), Arr(<<RGB, Gray>>), Ref(Gray),
   Cie("CalGray"), Cie("CalRGB"), Cie("Lab"), Arr(<<Name("Lab")>>), Arr(<<Ref(Name("CalRGB")), Dict("CalRGB")>>),
   Icc(1, << >>), Icc(3, << >>), Icc(4, << >>), Icc(2, << >>), Icc(3, <<Cie("Lab")>>), Icc(4, <<Name("Lab")>>), Icc(1, <<Cie("CalGray")>>),
   Arr(<<Name("Pattern")>>), Arr(<<Name("Pattern"), Ref(CMYK)>>), Arr(<<Name("Pattern"), Name("Lab")>>),
   Idx(RGB, 1, <<1, 2, 3, 255, 5, 6, 7>>), Idx(Ref(CMYK), 1, <<0, 51, 102, 153, 255, 0, 0, 0>>), Idx(Gray, 3, <<7, 9>>),
   Idx(Cie("Lab"), 0, <<255, 0, 128>>), Idx(Icc(3, << >>), 0, <<9, 8, 7>>), Idx(Cie("CalGray"), 1, <<255, 3>>),
   Idx(Idx(Gray, 0, <<1>>), 0, <<1>>), Idx(RGB, 256, <<1>>),
   Idx(Inks("Separation", 1, RGB, Linear(<<0, 255, 10>>, <<255, 0, 20>>)), 1, <<0, 200>>),
   Inks("Separation", 1, RGB, Linear(<<0, 255, 10>>, <<255, 0, 20>>)), Inks("Separation", 1, CMYK, Square(<<0, 0, 0, 0>>, <<255, 51, 0, 102>>)),
   Inks("Separation", 1, RGB, Linear(<<0, -51, 10>>, <<255, 300, 20>>)), Inks("Separation", 1, Gray, [type |-> 3]),
   Inks("Separation", 1, Gray, Table(<<3>>, <<255, 128, 0>>, 1)), Inks("Separation", 1, Gray, [Table(<<2>>, <<9, 8>>, 1) EXCEPT !.encode = <<0, 600>>]),
   Inks("DeviceN", 2, RGB, TwoInks), Inks("DeviceN", 4, RGB, Table(<<1, 1, 1, 2>>, <<5, 6, 7, 8, 9, 250>>, 3)),
   Inks("DeviceN", 1, Name("Lab"), TwoInks), Arr(<<Ref(Name("Separation")), [colorants |-> 1], Gray, [fun |-> Linear(<<0>>, <<255>>)]>>)}
McColourInputs ==
  {<<v>> : v \in {-255, 0, 51, 128, 255, 510}} \cup {<<v, w>> : v, w \in {0, 127, 255}}
    \cup {<<v, w, 51>> : v, w \in {-30, 0, 200, 255, 9000}} \cup {<<v, 51, 102, w>> : v, w \in {0, 153, 256}} \cup {<< >>}
Img(bpc, comps, samples, decode) == [bpc |-> bpc, comps |-> comps, samples |-> samples, decode |-> decode, spoilt |-> FALSE]
McColourImages ==
  {Img(8, 1, <<v, w>>, << >>) : v, w \in {0, 1, 2, 200}} \cup {Img(1, 1, <<0, 1, 1>>, d) : d \in {<< >>, <<255, 0>>}}
    \cup {Img(4, 1, <<0, 1, 9>>, << >>)}
    \cup {Img(b, 3, <<0, 1, v, 3, 1, 2>>, << >>) : b \in {2, 8}, v \in {0, 3}}
    \cup {Img(8, 3, <<90, 200, 255>>, <<0, 51 * 255, 0, 255, -255, 255>>), Img(8, 2, <<0, 255, 255, 128>>, << >>)}
    \cup {Img(8, 2, <<0, 255, 255>>, << >>), Img(8, 3, <<90, 200, 255, 7>>, << >>)}
    \cup {Img(b, 4, <<1, 0, 1, 0, 0, 1, 0, v>>, d) : b \in {1, 8}, v \in {0, 1}, d \in {<< >>, <<255, 0, 255, 0, 255, 0, 255, 0>>}}

(***************************************************************************)
(* Content streams: two calls of every kind, more of those that change the *)
(* state's colours.                                                        *)
(***************************************************************************)
McNumerals == "zero" :> 0 @@ "one" :> 1 @@ "two" :> 2 @@ "less" :> -1 @@ "fifth" :> 51 @@ "full" :> 255
McHexCodes == " " :> <<"2", "0">> @@ "#" :> <<"2", "3">> @@ "(" :> <<"2", "8">> @@ "A" :> <<"4", "1">> @@ "\n" :> <<"0", "A">>
McGoodSpaces ==
  [N1 |-> Inks("Separation", 1, RGB, Linear(<<0, 255, 10>>, <<255, 0, 20>>)), N2 |-> Inks("DeviceN", 2, RGB, TwoInks),
   ICC3 |-> Icc(3, <<Cie("Lab")>>), ICC4 |-> Icc(4, << >>), Ramp |-> Idx(RGB, 1, <<1, 2, 3, 255, 5, 6, 7>>),
   Tiles |-> Arr(<<Name("Pattern"), Ref(CMYK)>>)]
McPageSpaces == {McGoodSpaces, [N1 |-> McGoodSpaces.N1, Broken |-> Arr(<<RGB, Gray>>)]}
Num(n) == [num |-> McNumerals[n]]
Nm(n) == [name |-> <<n>>]
Call(o, args) == [op |-> o, args |-> args]
Nums(s) == [i \in DOMAIN s |-> Num(s[i])]
Letters(s) == [str |-> s]
McColourCalls ==
  {Call("q", << >>), Call("Q", << >>), Call("cm", Nums(<<"two", "zero", "zero", "less", "one", "two">>)),
   Call("CS", <<Nm("Tiles")>>), Call("cs", <<Nm("Lab")>>), Call("cs", <<Nm("N1")>>), Call("scn", Nums(<<"fifth">>)),
   Call("SCN", Nums(<<"fifth", "zero", "full", "zero">>) \o <<Nm("P1")>>), Call("RG", Nums(<<"full", "zero", "fifth">>))}
McCreatorCalls ==
  McColourCalls
    \cup {Call(o, << >>) : o \in {o \in DOMAIN CallKinds : CallKinds[o] = << >>}}
    \cup {Call(o, <<Num("two")>>) : o \in {o \in DOMAIN CallKinds : CallKinds[o] = <<"num">>}}
    \cup {Call(o, <<Nm("A")>>) : o \in {"gs", "Do", "sh", "BMC", "cs", "CS"}}
    \cup {Call(o, <<Nm(n)>>) : o \in {"CS"}, n \in DOMAIN McGoodSpaces \cup {"Pattern", "CalGray", "CalRGB", "DeviceCMYK"}}
    \cup {Call("SC", Nums(<<"fifth">>)), Call("SC", Nums(<<"full", "two", "zero">>)), Call("SCN", <<Nm("P1")>>), Call("scn", << >>),
          Call("k", Nums(<<"zero", "fifth", "zero", "full">>)), Call("K", Nums(<<"zero", "two", "zero", "full">>)),
          Call("m", Nums(<<"one", "two">>)), Call("re", Nums(<<"one", "two", "two", "one">>)),
          Call("c", Nums(<<"one", "two", "two", "one", "less", "less">>)), Call("Td", Nums(<<"less", "two">>)),
          Call("Tf", <<[name |-> <<"A", " ", "#", "(">>], Num("two")>>), Call("Tj", <<Letters(<<"A", "(", "\\", "\n", "B">>)>>),
          Call("'", <<Letters(<<"(", "A", ")">>)>>), Call("''", <<Num("one"), Num("less"), Letters(<< >>)>>),
          Call("Tj", <<[hex |-> <<"A", "(", "\n">>]>>), Call("Tj", <<[str |-> <<"A">>]>>),
          Call("TJ", <<[arr |-> <<Letters(<<"A">>), Num("less"), [arr |-> << >>], [hex |-> <<"A">>], [const |-> "null"], Nm("B")>>]>>),
          Call("d", <<[arr |-> Nums(<<"one", "two">>)], Num("zero")>>)}
    \cup {Call("TJ", <<[arr |-> <<[pairs |-> <<<<k, v>>, <<<<"B">>, Num("one")>>>>], Letters(<<"A">>)>>]>>) :
            k \in {<<"A", "null">>, <<"A", "#">>}, v \in {Nm("B"), Num("two"), [const |-> "true"], [pairs |-> << >>]}}
    \cup {Call("BI", <<[image |-> [keys |-> keys, data |-> data]]>>) :
            keys \in {"W" :> Num("two"), "BPC" :> Num("one") @@ "F" :> [arr |-> <<Nm("Fl"), Nm("A85")>>] @@ "H" :> Num("two")},
            data \in {<<"A", "B">>, << >>, <<"A", "\n">>, <<"E", " ", "A">>, <<" ", "E", "I", "A">>, <<"A", " ", "E", "I", " ", "B">>, <<"A", " ", "E">>}}
McContentTexts ==
  {<<"q", " ", "Q">>, <<"q", " ", "%", "(", "A", "\n", "Q">>, <<"(", "A">>, <<"/", "A", " ", "gs">>, <<"[", "one", "]", "full", " ", "TJ">>,
   <<"(", "A", "\\", "B", ")", "Tj">>, <<"<", "4", "1", "2", ">", "Tj">>, <<"<", "<", "/", "A", "null", "/", "B", " ", "one", ">", ">", "gs">>,
   <<"<", "<", "/", "A", "null", " ">>, <<"<", "<", "A", ">", ">", "gs">>, <<"/", "A", "#", "2", "gs">>, <<"/", "A", "#", "2", "8", "gs">>, <<")", "A">>, <<"BI", " ", "/", "Width", " ", "two", "\n", "ID", " ", "A", "\n", "E", "I", " ", "Q">>,
   <<"BI", "\n", "ID", " ", "A", " ", "B", "\n", "\n", "E", "I", "\n", "q", "\n">>, <<"BI", "\n", "E", "I", "\n">>, <<"BI", "\n", "ID", " ", "A">>,
   <<"BI", "\n", "/", "A", " ", "one", "ID">>, <<"true", " ", "false", " ", "null", " ", "A", "(", "A", "(", "B", ")", ")", "A", "\n">>,
   <<"[", "A", " ", "(", "B", ")", "]", "TJ">>, << >>}
McInlineFilters ==
  {[names |-> names, parms |-> parms] :
     names \in {<< >>, <<"Fl">>, <<"A85", "LZW">>, <<"A85", "Fl">>, <<"CCF">>, <<"AHx", "Fl">>, <<"ASCIIHexDecode", "LZWDecode", "Fl">>, <<"Fl", "LZWDecode">>, <<"RL">>, <<"DCT">>,
                <<"Fl", "None">>},
     parms \in {<< >>, <<"P">>, <<"array", <<"P", "Q">>>>, <<"array", <<"P", "null", "R">>>>, <<"array", << >>>>, <<"array", <<"P">>>>}}

(***************************************************************************)
(* Text: two fonts, one without some widths; a form whose font has the     *)
(* name of the page's; pieces of pages, and marks near each other.         *)
(***************************************************************************)
Glyph(text, wx) == [text |-> text, wx |-> wx]
McDefaultFont == [glyphs |-> [c \in {"a", "b", "s", "z"} |-> Glyph("d", 2)], space |-> 2]
Roman == [glyphs |-> [a |-> Glyph("A", 4), b |-> Glyph("B", 2), s |-> Glyph(" ", 2), z |-> Glyph("NUL", 2)], space |-> 2]
Greek == [glyphs |-> [a |-> Glyph("alpha", 2), b |-> Glyph("beta", -1), s |-> Glyph(" ", 0), z |-> Glyph("alpha", 4)], space |-> 0]
McFonts == [page |-> [F1 |-> Roman, F2 |-> Greek], own |-> [F1 |-> Greek]]
TOp(o, args) == [op |-> <<o>>, params |-> args]
NN(s) == [i \in DOMAIN s |-> [num |-> s[i]]]
SS(s) == [str |-> s]
FN(n, size) == TOp("Tf", <<[name |-> <<n>>], [num |-> size]>>)
DoX(n) == TOp("Do", <<[name |-> <<n>>]>>)
Object(ops) == <<TOp("BT", << >>)>> \o ops \o <<TOp("ET", << >>)>>
TShow(s) == TOp("Tj", <<SS(s)>>)
McForms ==
  [page |-> [X1 |-> [ops |-> Object(<<FN("F1", 1), TShow(<<"a">>)>>) \o <<DoX("I1")>>, own |-> <<"own">>],
             X2 |-> [ops |-> <<TOp("cm", NN(<<2, 0, 0, 2, 0, 0>>)), DoX("X1"), DoX("I1")>>, own |-> << >>],
             X3 |-> [ops |-> <<DoX("X3")>>, own |-> << >>],
             X5 |-> [ops |-> Object(<<FN("F2", 1), TShow(<<"s", "a">>)>>), own |-> << >>],
             X4 |-> [ops |-> Object(<<FN("F2", 1), TShow(<<"a">>)>>), own |-> << >>]],
   own |-> [X2 |-> [ops |-> Object(<<TShow(<<"a">>)>>), own |-> << >>]]]
McPageImages == [page |-> {"I1"}, own |-> {"I1", "I2"}]
McLongPieces ==
  {<<TOp("q", << >>)>>, <<TOp("Q", << >>)>>, <<TOp("cm", NN(<<0, 1, -1, 0, 3, 1>>))>>, <<TOp("cm", NN(<<2, 0, 0, 1, 1, 0>>))>>,
   <<FN("F1", 2)>>, <<TOp("q", << >>), FN("F2", 2), TOp("q", << >>), FN("F1", 2), TOp("Q", << >>)>>, <<DoX("X4")>>, <<DoX("I1")>>,
   Object(<<TOp("Td", NN(<<4, 2>>)), TShow(<<"a", "s", "a">>)>>),
   Object(<<FN("F1", 1), TOp("Tc", NN(<<2>>)), TOp("TL", NN(<<8>>)), TShow(<<"a">>), TOp("'", <<SS(<<"a">>)>>)>>),
   Object(<<FN("F1", 2), TOp("Tm", NN(<<0, -1, 1, 0, 2, 0>>)), TOp("TD", NN(<<2, -4>>)), TShow(<<"a", "b">>), TOp("T*", << >>), TShow(<<"b">>)>>),
   Object(<<TOp("Tz", NN(<<50>>)), TOp("Tw", NN(<<4>>)), TOp("Ts", NN(<<2>>)), FN("F2", 2), TShow(<<"a", "s", "a">>)>>)}
McPieces ==
  {<<FN("F2", 1)>>, <<DoX("X1")>>, <<DoX("X2")>>, <<DoX("X3")>>, <<DoX("X5")>>, <<DoX("no")>>, Object(<<TShow(<<"z", "b">>)>>),
   Object(<<FN("F1", 2), TOp("TJ", <<[arr |-> <<SS(<<"a">>), [num |-> -2], SS(<<"b">>), [num |-> 3], SS(<<"a">>)>>]>>)>>),
   Object(<<TOp("Tw", NN(<<2>>)), TOp("Tz", NN(<<100>>)), TOp("Tr", NN(<<1>>)), FN("F1", 1), TShow(<<"a", "s", "b">>)>>),
   <<TOp("Tc", NN(<<2>>))>>, <<TOp("ET", << >>)>>, <<TOp("BT", << >>)>>, <<TOp("T*", << >>)>>, <<TShow(<<"a">>)>>,
   <<TOp("\"", NN(<<1, 2>>) \o <<SS(<<"a">>)>>)>>, <<TOp("Tf", <<[name |-> <<"F1">>], SS(<<"a">>)>>)>>, <<TOp("Do", << >>)>>,
   <<TOp("TJ", <<[arr |-> << >>]>>)>>, <<TOp("TJ", <<SS(<<"a">>)>>)>>,
   <<[op |-> <<"BI">>, params |-> <<[image |-> [keys |-> [IM |-> [const |-> "true"]], data |-> << >>]]>>]>>}
Mk(text, o, x, y, w, h, s) == [text |-> text, orient |-> o, start |-> <<x, y>>, end |-> <<x + w, y>>, height |-> h, space |-> s]
McMarks ==
  {Mk(c, 0, x, y, 2, 10, 2) : c \in {"A", "B"}, x \in {0, 1, 4}, y \in {0, 2, 4}}
    \cup {Mk("A", 90, 0, 0, 2, 10, 0), Mk("B", 90, 2, 0, 2, 10, 2), Mk(" ", 0, 2, 0, 2, 10, 2), Mk("C", 0, 8, 2, 4, 5, 4)}

ContentsInit == CalcIdle /\ ClrIdle /\ ContentIdle /\ ExtractIdle /\ FontIdle
ContentsNext ==
  \/ ClrIdle /\ ContentIdle /\ ExtractIdle /\ FontIdle /\ CalcNext /\ UNCHANGED <<clr, cst, txt, fnt>>
  \/ CalcIdle /\ ContentIdle /\ ExtractIdle /\ FontIdle /\ ClrNext /\ UNCHANGED <<calc, cst, txt, fnt>>
  \/ CalcIdle /\ ClrIdle /\ ExtractIdle /\ FontIdle /\ ContentNext /\ UNCHANGED <<calc, clr, txt, fnt>>
  \/ CalcIdle /\ ClrIdle /\ ContentIdle /\ FontIdle /\ ExtractNext /\ UNCHANGED <<calc, clr, cst, fnt>>
  \/ CalcIdle /\ ClrIdle /\ ContentIdle /\ ExtractIdle /\ FontNext /\ UNCHANGED <<calc, clr, cst, txt>>
ContentsSpec == ContentsInit /\ [][ContentsNext]_<<calc, clr, cst, txt, fnt>>

\* Text: what is extracted from a page is what stands there, and the codes
\* of its fonts mean what they meant when they were written.
TextSound == TextRead /\ FontsSound

(***************************************************************************)
(* Names for the values above: TLC evaluates these once, and what a        *)
(* configuration gives a constant at every use.                            *)
(***************************************************************************)
ThePrograms == McPrograms
TheTexts == McTexts
TheLawCases == McLawCases
TheSpaceObjects == McSpaceObjects
TheColourInputs == McColourInputs
TheColourImages == McColourImages
ThePageSpaces == McPageSpaces
TheCreatorCalls == McCreatorCalls
TheColourCalls == McColourCalls
TheContentTexts == McContentTexts
TheInlineFilters == McInlineFilters
TheFonts == McFonts
TheForms == McForms
ThePieces == McPieces
TheLongPieces == McLongPieces
TheMarks == McMarks
TheSimpleEncodings == McSimpleEncodings
TheStdFonts == McStdFonts
TheRuneMaps == McRuneMaps
TheMapFiles == McMapFiles
TheAlphabets == McAlphabets
TheSimpleFonts == McSimpleFonts
TheTrueTypes == McTrueTypes
TheCidWidths == McCidWidths
===============================================================================

-------------------------------- MODULE MC_Fonts --------------------------------
(***************************************************************************)
(* Codes and fonts on small instances: encodings of eight codes, maps with *)
(* more entries than a section takes, files whose codes have one to three  *)
(* bytes.                                                                  *)
(***************************************************************************)
EXTENDS FontCodes
LOCAL INSTANCE TLC

\* Pieces of a file: their tokens, and what they say once they are whole.
Piece(tokens, map) == [tokens |-> tokens, map |-> map]
Says(pieces) ==
  [i \in DOMAIN pieces |->
     [upto |-> FoldLeft(LAMBDA n, p : n + Len(p.tokens), 0, SubSeq(pieces, 1, i)), map |-> pieces[i].map]]
Joint(pieces) == FlattenSeq([i \in DOMAIN pieces |-> pieces[i].tokens])
MapFile(pieces, ready, codes) ==
  [tokens |-> Joint(pieces), entries |-> Says(pieces), ready |-> Says(pieces)[ready].upto, codes |-> codes]
Text(word) == [k |-> "str", word |-> word]
Begin == <<NameToken("CIDInit"), NameToken("ProcSet"), Operand("findresource"), Operand("begin"), IntToken(12),
           Operand("dict"), Operand("begin"), Operand("begincmap")>>
LongInfo == <<NameToken("CIDSystemInfo"), IntToken(3), Operand("dict"), Operand("dup"), Operand("begin"),
              NameToken("Registry"), Text("Adobe"), Operand("def"), NameToken("Supplement"), IntToken(0), Operand("def"),
              Operand("end"), Operand("def")>>
ShortInfo == <<NameToken("CIDSystemInfo"), DictToken({"Registry", "Ordering", "Supplement"}), Operand("def")>>
Named == <<NameToken("CMapName"), NameToken("A"), Operand("B"), Operand("def"), NameToken("CMapType"), IntToken(2), Operand("def"),
           NameToken("CMapVersion"), IntToken(1), Operand("def")>>
Words(words) == Piece([i \in DOMAIN words |-> Operand(words[i])], NoFunction)
\* the numbers have n digits
Pair(n, a, b) == <<HexToken(n, a), HexToken(n, b)>>
Char(n, code, r) == Piece(<<HexToken(n, code), HexToken(4, r)>>, code :> r)
McMapFiles ==
  {MapFile(<<Piece(Begin \o LongInfo \o Named, NoFunction), Words(<<"begincodespacerange">>), Piece(Pair(4, 33088, 40956), NoFunction),
             Piece(Pair(2, 0, 127), NoFunction), Words(<<"endcodespacerange", "beginbfchar">>), Char(2, 65, 65), Char(4, 33089, 19968),
             Piece(<<HexToken(2, 66), NameToken("B")>>, 66 :> MissingCodeRune), Char(2, 65, 66), Words(<<"endbfchar", "beginbfrange">>),
             Piece(Pair(2, 48, 50) \o <<ArrayToken(<<HexToken(4, 48), HexToken(8, 0), HexToken(2, 53)>>)>>,
                   48 :> 48 @@ 49 :> 0 @@ 50 :> 53),
             Piece(Pair(4, 33088, 33090) \o <<HexToken(4, 20000)>>, 33088 :> 20000 @@ 33089 :> 20001 @@ 33090 :> 20002),
             Words(<<"endbfrange", "endcmap", "CMapName", "currentdict">>)>>,
           3, {<<65>>, <<127>>, <<129, 65>>, <<159, 252>>}),
   MapFile(<<Piece(<<NameToken("Adobe"), Operand("usecmap")>> \o ShortInfo, NoFunction), Words(<<"begincodespacerange">>),
             Piece(Pair(6, 65536, 131071), NoFunction), Piece(Pair(4, 32768, 33023), NoFunction), Words(<<"endcodespacerange", "beginbfrange">>),
             Piece(Pair(6, 66051, 66052) \o <<HexToken(4, 65535)>>, 66051 :> 65535 @@ 66052 :> 65536),
             Piece(Pair(4, 32773, 32773) \o <<[k |-> "hex", digits |-> <<13, 8, 3, 5, 13, 12, 0, 1>>]>>, 32773 :> 119809),
             Piece(Pair(4, 32774, 32774) \o <<[k |-> "hex", digits |-> <<13, 8, 3, 5>>]>>, 32774 :> MissingCodeRune),
             Words(<<"endbfrange", "endcmap">>)>>,
           3, {<<1, 2, 3>>, <<128, 5>>, <<1, 255, 255>>}),
   MapFile(<<Words(<<"begincodespacerange">>), Piece(Pair(4, 0, 65535), NoFunction), Words(<<"endcodespacerange", "beginbfchar">>),
             Piece(<<HexToken(4, 1), [k |-> "hex", digits |-> << >>]>>, 1 :> MissingCodeRune),
             Piece(<<HexToken(4, 2), [k |-> "hex", digits |-> <<4, 1, 0>>]>>, 2 :> 16640),
             Piece(<<[k |-> "hex", digits |-> <<0, 0, 1>>], HexToken(4, 65)>>, 16 :> 65)>>,
           2, {<<0, 1>>, <<255, 255>>, <<1, 0>>})}
McRuneMaps ==
  {NoFunction, 7 :> 65, 65535 :> 8364, 7 :> 120000,
   1 :> 65 @@ 2 :> 66 @@ 3 :> 67, 1 :> 65535 @@ 2 :> 65536, 32 :> 32 @@ 33 :> 160 @@ 34 :> 34 @@ 35 :> 163,
   [c \in {1, 3, 5, 7, 9} |-> 70 - c], [c \in {1, 2, 4, 5, 8, 9, 11, 4095} |-> c + 300]}

McSimpleEncodings ==
  [StandardEncoding |-> 1 :> 65 @@ 2 :> 66 @@ 3 :> 32 @@ 5 :> 67 @@ 6 :> 32 @@ 8 :> 39,
   WinAnsiEncoding  |-> 1 :> 65 @@ 2 :> 66 @@ 3 :> 32 @@ 4 :> 228 @@ 6 :> 32 @@ 7 :> 67 @@ 8 :> 8364,
   SymbolEncoding   |-> 1 :> 945 @@ 2 :> 946 @@ 3 :> 32]
McStdFonts ==
  [Helvetica |-> [encoding |-> "StandardEncoding", widths |-> [r \in {65, 66, 67, 32, 39, 228, 8364, 246} |-> r]],
   Symbol    |-> [encoding |-> "SymbolEncoding", widths |-> [r \in {945, 946, 32, 947, 948, 949} |-> r]]]
McAlphabets ==
  {{}, {65}, {8364}, {65, 228, 8364}, {228, 246, 8364}, {1234, 39, 246}, {65, 66, 67, 32, 39, 228, 8364, 246}, {65, 66, 32, 67, 39, 246},
   {947}, {946, 947, 948, 949}}
Lists ==
  {<< >>, <<IntToken(1), GlyphItem(200), GlyphItem(201), IntToken(5), GlyphItem(200)>>, <<GlyphItem(7), IntToken(0), GlyphItem(9), GlyphItem(0)>>,
   <<IntToken(3), GlyphItem(65), IntToken(3), GlyphItem(66), GlyphItem(67)>>, <<IntToken(4), GlyphItem(5), [k |-> "str"]>>,
   <<IntToken(7), GlyphItem(228), GlyphItem(39)>>}
Dictionary(std, encoding, shows) == [std |-> std, encoding |-> encoding, shows |-> shows]
McSimpleFonts ==
  {Dictionary("Helvetica", NoEncoding, "StandardEncoding"), Dictionary("none", EncodingName("WinAnsiEncoding"), "WinAnsiEncoding"),
   Dictionary("Symbol", EncodingName("custom"), "SymbolEncoding")}
    \cup {Dictionary(std, EncodingDict(TRUE, "WinAnsiEncoding", list), "WinAnsiEncoding") : std \in {"none", "Symbol"}, list \in Lists}
    \cup {Dictionary("Symbol", EncodingDict(typed, "none", list), "SymbolEncoding") : typed \in BOOLEAN, list \in Lists}
    \cup {Dictionary("none", EncodingDict(FALSE, "WinAnsiEncoding", list), "StandardEncoding") : list \in Lists}

Ttf(chars, glyphs, widths) ==
  LET From0(s) == [g \in 0 .. Len(s) - 1 |-> s[g + 1]]
  IN  [chars |-> chars, glyphs |-> From0(glyphs), widths |-> From0(widths)]
McTrueTypes ==
  {Ttf(65 :> 1 @@ 66 :> 2 @@ 67 :> 3 @@ 70 :> 4, <<0, 65, 66, 67, 70>>, <<5, 7, 7, 6, 7>>),
   Ttf(32 :> 1 @@ 65 :> 2 @@ 160 :> 1, <<0, 32, 65>>, <<5, 2, 6>>), Ttf(32 :> 1 @@ 33 :> 3 @@ 34 :> 6, <<0, 32, 0, 0, 0, 0, 34>>, <<5, 4, 8, 4, 8, 4, 4>>),
   Ttf(1 :> 1 @@ 2 :> 2 @@ 4 :> 4, <<0, 1, 2, 3, 4>>, <<1, 1, 2, 3, 2>>), Ttf(1 :> 2 @@ 2 :> 1 @@ 3 :> 3, <<0, 1, 2, 3>>, <<1, 2, 2, 2>>),
   Ttf(1000 :> 1 @@ 1001 :> 2, <<0, 1000, 1002>>, <<3, 3, 3>>)}
CidRange(first, last, w) == Piece(<<IntToken(first), IntToken(last), IntToken(w)>>, [c \in first .. last |-> w])
Listed(first, ws) ==
  Piece(<<IntToken(first), ArrayToken([i \in DOMAIN ws |-> IntToken(ws[i])])>>, [c \in first .. first + Len(ws) - 1 |-> ws[c - first + 1]])
McCidWidths ==
  {[items |-> Joint(p), entries |-> Says(p), DW |-> dw] :
     dw \in {<< >>, <<4>>},
     p \in {<<CidRange(1, 3, 7), Listed(2, <<8, 9, 10>>), CidRange(4, 4, 11), CidRange(6, 5, 1)>>, <<Listed(0, << >>), Listed(5, <<1, 2>>), CidRange(0, 8, 3)>>}}
===============================================================================

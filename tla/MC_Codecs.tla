------------------------------ MODULE MC_Codecs ------------------------------
(***************************************************************************)
(* The codecs: stream filters, fax rows, images, and the syntax of         *)
(* objects.  A behaviour picks one job of one of them.                     *)
(***************************************************************************)
EXTENDS Filters, CcittFax, Images, FormData, TLC

(***************************************************************************)
(* Filters: bytes below 16.  Short data of every kind, and longer ones     *)
(* with a run that begins and ends where literals and runs hand over.      *)
(***************************************************************************)
McFilterData ==
  {<< >>} \cup UNION {[1 .. n -> {0, 1, 15}] : n \in 1 .. 4} \cup UNION {[1 .. n -> {0, 1}] : n \in 5 .. 6}
    \cup {[i \in 1 .. n |-> IF i \in a .. b THEN 3 ELSE i % 2] : n \in 7 .. 11, a \in 1 .. 4, b \in 6 .. 11}
McEncoders ==
  {Plain(n) : n \in {"Raw", "RunLength", "ASCIIHex", "ASCII85"}}
    \cup {Flate(p, c, k) : p \in {1, 11, 12}, c \in 1 .. 3, k \in 1 .. 2} \cup {Lzw(1, 1, 1, x) : x \in 0 .. 1}
    \cup {Multi(<<Flate(1, 1, 1)>>), Multi(<<Plain("ASCIIHex"), Flate(1, 1, 1)>>),
          Multi(<<Plain("ASCII85"), Lzw(1, 1, 1, 0)>>)}
Parms(pred, cols, colors) == [Predictor |-> pred, Columns |-> cols, Colors |-> colors]
AllParms == {Parms(p, c, k) : p \in {2, 10, 12}, c \in 1 .. 2, k \in 1 .. 2}
OnlyFilter(f) == [Filter |-> f]
FilterWith(f, p) == [Filter |-> f, DecodeParms |-> p]
McHeadings ==
  {OnlyFilter(Name(n)) : n \in Methods \cup {"joined"}} \cup {OnlyFilter(Array(<<n>>)) : n \in {"Flate", "ASCII85"}}
    \cup {OnlyFilter(Array(s)) : s \in {<< >>, <<"ASCII85", "Flate">>, <<"ASCIIHex", "LZW">>, <<"LZW", "RunLength">>}}
    \cup {FilterWith(Name(n), Dict(p)) : n \in {"Flate", "LZW"}, p \in AllParms}
    \cup {FilterWith(Array(<<n>>), Array(<<Parms(12, 2, 1)>>)) : n \in {"Flate", "LZW"}}
    \cup {FilterWith(Array(<<"ASCIIHex", "Flate">>), p) :
            p \in {Array(<<Empty, Parms(12, 2, 1)>>), Array(<<Empty>>), Array(<<Empty, Empty>>), Array(<< >>),
                   Dict(Parms(12, 2, 1))}}

(***************************************************************************)
(* Fax: codes of the tables for lengths 0 and 1, and those of 64 and 1792  *)
(* for make-ups of 2 and of 4.  Rows of three pixels with every setting,   *)
(* of nine (with make-ups of both kinds) in one and in two dimensions.     *)
(***************************************************************************)
McWhite == 0 :> <<0, 0, 1, 1, 0, 1, 0, 1>> @@ 1 :> <<0, 0, 0, 1, 1, 1>>
             @@ 2 :> <<1, 1, 0, 1, 1>> @@ 4 :> <<0, 0, 0, 0, 0, 0, 0, 1, 0, 0, 0>>
McBlack == 0 :> <<0, 0, 0, 0, 1, 1, 0, 1, 1, 1>> @@ 1 :> <<0, 1, 0>>
             @@ 2 :> <<0, 0, 0, 0, 0, 0, 1, 1, 1, 1>> @@ 4 :> <<0, 0, 0, 0, 0, 0, 0, 1, 0, 0, 0>>
FaxRow(n) == [1 .. n -> {0, 255}]
Others == {<<0, 0, 0>>, <<0, 255, 255>>, <<255, 0, 255>>, <<0, 255, 0>>}
Turns(row) == Cardinality({i \in 1 .. Len(row) - 1 : row[i] # row[i + 1]})
McFaxImages == {<<a, b, a>> : a \in FaxRow(3), b \in Others} \cup {<<a>> : a \in {row \in FaxRow(9) : Turns(row) <= 3}}
McFaxSettings ==
  {e \in [K : {-1, 0, 1, 2}, EndOfLine : BOOLEAN, EncodedByteAlign : BOOLEAN, Columns : {3}, Rows : {0, 2, 4},
          EndOfBlock : BOOLEAN, BlackIs1 : BOOLEAN, Damaged : {0}] : e.BlackIs1 => e.Rows = 0 /\ ~e.EncodedByteAlign}
    \cup [K : {-1, 0}, EndOfLine : {FALSE}, EncodedByteAlign : {FALSE}, Columns : {9}, Rows : {0},
          EndOfBlock : {TRUE}, BlackIs1 : {TRUE}, Damaged : {2}]

(***************************************************************************)
(* Images of 1, 8 and 16 bits, with rows that fill their bytes and not,  *)
(* of one, three and four colours, with and without transparency; and      *)
(* streams of JPEG and JBIG2 with and without a Decode that inverts.       *)
(***************************************************************************)
Picture(w, h, bpc, comps, data, alpha) ==
  [w |-> w, h |-> h, bpc |-> bpc, comps |-> comps, data |-> data, alpha |-> alpha]
McPictures ==
  {Picture(2, 1, 8, 1, <<v, u>>, << >>) : v, u \in {0, 200}}
    \cup {Picture(1, 1, 8, 3, <<1, 2, 3>>, << >>), Picture(1, 2, 8, 3, <<10, 20, 130, 240, 250, 60>>, << >>),
          Picture(8, 1, 1, 1, <<170>>, << >>), Picture(16, 1, 1, 1, <<170, 3>>, << >>),
          Picture(9, 2, 1, 1, <<170, 128, 7, 0>>, << >>), Picture(9, 2, 8, 1, [i \in 1 .. 18 |-> 14 * i], << >>),
          Picture(1, 1, 8, 4, <<1, 2, 3, 4>>, << >>),
          Picture(1, 1, 16, 1, <<1, 2>>, << >>), Picture(1, 1, 16, 3, <<1, 2, 3, 4, 5, 6>>, << >>),
          Picture(2, 1, 8, 3, <<1, 2, 3, 9, 8, 7>>, <<0, 255>>), Picture(2, 1, 8, 1, <<5, 6>>, <<0, 255>>)}
McImgEncoders ==
  [kind : {"Raw", "Flate", "JBIG2"}, comps : {0}, bpc : {0}, w : {0}, h : {0}]
    \cup [kind : {"DCT"}, comps : {1, 3}, bpc : {8}, w : {1, 2}, h : {1}]
Source(f, by, w, h, bpc, comps, decode, model, data) ==
  [dict |-> [filter |-> f, w |-> w, h |-> h, bpc |-> bpc, comps |-> comps, decode |-> decode, smask |-> NoMask],
   stream |-> [by |-> by, data |-> data, model |-> model, w |-> w, h |-> h]]
McSources ==
  {Source("JBIG2", "JBIG2", 8, 1, 1, 1, <<1, 0>>, "none", <<170>>),
   Source("JBIG2", "JBIG2", 8, 1, 1, 1, << >>, "none", <<170>>),
   Source("DCT", "DCT", 2, 1, 8, 1, << >>, "Gray", <<3, 4>>),
   Source("DCT", "DCT", 1, 1, 8, 4, << >>, "CMYK", <<3, 4, 5, 6>>),
   Source("DCT", "DCT", 1, 2, 8, 3, << >>, "RGBA", <<3, 4, 5, 6, 7, 8>>),
   Source("Flate", "other", 2, 1, 8, 1, << >>, "Gray", <<3, 4>>)}
McScales == {[num |-> 1, den |-> 2], [num |-> 2, den |-> 3]}

(***************************************************************************)
(* Objects: every kind, with characters that are escaped, and names,       *)
(* strings, references at the edge of what the parser looks at; all texts  *)
(* of three characters out of ten, and dictionaries with any value of      *)
(* three characters.                                                       *)
(***************************************************************************)
McAsciiLetters == <<"a", "b", "d", "e", "f", "j", "l", "m", "n", "o", "r", "s", "t", "u", "F", "L", "R", "T", "V">>
McAsciiCodes == <<97, 98, 100, 101, 102, 106, 108, 109, 110, 111, 114, 115, 116, 117, 70, 76, 82, 84, 86>>
McAscii ==
  [c \in {McAsciiLetters[i] : i \in DOMAIN McAsciiLetters} |->
     McAsciiCodes[CHOOSE i \in DOMAIN McAsciiLetters : McAsciiLetters[i] = c]]
    @@ [c \in DecDigit |-> 48 + HexOf[c]]
    @@ ("nul" :> 0 @@ "c1" :> 1 @@ "c16" :> 16 @@ "c17" :> 17 @@ "c14" :> 14 @@ "c30" :> 30
          @@ "c224" :> 224 @@ "c225" :> 225 @@ "c238" :> 238 @@ "bs" :> 8 @@ "tab" :> 9 @@ "lf" :> 10 @@ "ff" :> 12 @@ "cr" :> 13
          @@ " " :> 32 @@ "#" :> 35
          @@ "%" :> 37 @@ "(" :> 40 @@ ")" :> 41 @@ "+" :> 43 @@ "," :> 44 @@ "-" :> 45 @@ "." :> 46 @@ "/" :> 47
          @@ "<" :> 60 @@ ">" :> 62 @@ "[" :> 91 @@ "\\" :> 92 @@ "]" :> 93)
McStr(s) == StringObject(s, FALSE)
McNamed(n) == NameObject(n)
McReal(m) == [k |-> "real", milli |-> m]
McBool(b) == [k |-> "bool", b |-> b]
McRef(n, g) == [k |-> "ref", num |-> n, gen |-> g]
McDictOf(n, v) == DictSet(EmptyDict, n, v)
McSynScalars ==
  {NullObject, McBool(TRUE), McBool(FALSE), IntObject(0), IntObject(-12), IntObject(2000000000), McReal(1500),
   McReal(-5),
   McReal(2000), McNamed(<<"a">>), McNamed(<<"a", "#", " ", "b">>), McNamed(<<"(", "/", "nul">>),
   McStr(<< >>), McStr(<<"(", "\\", "lf", "a">>), McStr(<<")", "cr", "1", "#">>),
    StringObject(<<"lf", "a">>, TRUE),
   StringObject(<<"o", " ">>, TRUE),
   McStr(<<"(", "(", "a", ")", ")">>),
   McRef(1, 0), McRef(8388608, 65535), McRef(83886080, 65535)}
McSynValues ==
  McSynScalars
    \cup {ArrayObject(<< >>), ArrayObject(<<IntObject(1), IntObject(2), McRef(3, 0), McNamed(<<"a">>)>>),
          ArrayObject(<<McStr(<<"a">>), ArrayObject(<<NullObject, McReal(500)>>), EmptyDict>>),
          McDictOf(<<"a">>, ArrayObject(<<McBool(TRUE), McBool(FALSE)>>)),
          McDictOf(<<"b">>, McDictOf(<<"a", "nul">>, McRef(5, 0)))}
McSynKeys == {<<"a">>, <<"b", "#">>, <<"a", "n", "u", "l", "l">>}
McSynMerged == {DictSet(McDictOf(<<"a">>, IntObject(4)), <<"d">>, McNamed(<<"e">>)),
                DictSet(McDictOf(<<"d">>, McNamed(<<"e">>)), <<"a">>, McReal(250))}
McSynTexts == UNION {[1 .. n -> {"[", "]", "1", "-", ",", " ", "%", "/", "(", ")"}] : n \in 1 .. 3}
                 \cup [1 .. 4 -> {"[", "]", "1", ","}]
                 \cup {<<"<", "<", "/", "a">> \o x \o <<">", ">">> : x \in [1 .. 3 -> {"1", "/", " ", "0", ".", "<"}]}
McSynData == {<<"a", "lf">>, <<">", ">", "e", "n", "d">>, << >>}
McGaps == {<<" ">>, <<"nul">>, <<"cr", "lf">>, <<"lf", "%", "a", ">", ">", "lf", "%", "]", "cr">>, <<"%", "a", "lf">>}
McField(t, v, r) == [t |-> t, v |-> v, byRef |-> r]
McFieldLists ==
  {<< >>, <<McField(<<"a">>, McStr(<<"b">>), FALSE)>>,
   <<McField(<<"a">>, McStr(<<"b">>), FALSE), McField(<<"b">>, McNamed(<<"a">>), FALSE),
     McField(<<"a">>, McReal(3000), FALSE)>>,
   <<McField(<<"a">>, McStr(<<"b">>), TRUE), McField(<<"b">>, ArrayObject(<<McRef(2, 0), NullObject>>), FALSE)>>}
McBlanks(n) == [i \in 1 .. n |-> " "]
McSheets ==
  [fields : McFieldLists, list : {"direct"}, fdf : {"direct", "byRef"}, trailer : {"full", "rootless"},
   before : {<< >>}, last : {"dict"}]
    \cup [fields : {<<McField(<<"a">>, McStr(<<"b">>), FALSE)>>}, list : {"direct", "byRef"}, fdf : {"direct"},
          trailer : {"full", "broken"}, before : {<< >>, McBlanks(12), McBlanks(13)},
          last : {"dict", "stream", "number"}]

CodecsIdle(filters, fax0, images, objects) ==
  /\ filters => FltIdle
  /\ fax0 => FaxIdle
  /\ images => ImgIdle
  /\ objects => syn = SynIdle
CodecsInit == FltIdle /\ FaxIdle /\ ImgIdle /\ syn = SynIdle
CodecsNext ==
  \/ CodecsIdle(FALSE, TRUE, TRUE, TRUE) /\ FltNext /\ UNCHANGED <<fax, xim, syn>>
  \/ CodecsIdle(TRUE, FALSE, TRUE, TRUE) /\ FaxNext /\ UNCHANGED <<flt, xim, syn>>
  \/ CodecsIdle(TRUE, TRUE, FALSE, TRUE) /\ ImgNext /\ UNCHANGED <<flt, fax, syn>>
  \/ CodecsIdle(TRUE, TRUE, TRUE, FALSE) /\ SynNext /\ UNCHANGED <<flt, fax, xim>>
CodecsSpec == CodecsInit /\ [][CodecsNext]_<<flt, fax, xim, syn>>

(***************************************************************************)
(* Names for the values above: TLC evaluates these once, and what a        *)
(* configuration gives a constant at every use.                            *)
(***************************************************************************)
TheFilterData == McFilterData
TheEncoders == McEncoders
TheHeadings == McHeadings
TheWhite == McWhite
TheBlack == McBlack
TheFaxImages == McFaxImages
TheFaxSettings == McFaxSettings
ThePictures == McPictures
TheImgEncoders == McImgEncoders
TheSources == McSources
TheScales == McScales
TheAscii == McAscii
TheSynValues == McSynValues
TheSynKeys == McSynKeys
TheSynTexts == McSynTexts
TheSynMerged == McSynMerged
TheSynData == McSynData
TheGaps == McGaps
TheSheets == McSheets
=============================================================================

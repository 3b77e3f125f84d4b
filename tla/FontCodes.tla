------------------------------- MODULE FontCodes -------------------------------
(***************************************************************************)
(* How a font's codes become characters, and back: the maps from codes to  *)
(* runes (internal/cmap), the encodings of simple fonts with their         *)
(* differences (internal/textencoding), and the fonts that write them into *)
(* a document and find them there again (model/font*.go).                  *)
(*                                                                         *)
(* A map is a sequence of tokens, and is read one token per step.  A rune  *)
(* is its number; a glyph is the rune that the list of glyphs has for it,  *)
(* 0 if it has none: the names of the 6339 listed glyphs and their runes   *)
(* are inverse to each other.                                              *)
(***************************************************************************)
EXTENDS Integers, Sequences, FiniteSets, SequencesExt, FiniteSetsExt, Functions
LOCAL INSTANCE TLC

CONSTANTS
  MaxBfEntries,     \* entries of a section of a map that is written (100 in the code)
  MaxCode,          \* the last code of a simple font (255)
  SimpleEncodings,  \* encodings by name: functions from codes to runes
  StdFonts,         \* standard fonts by name: their encoding, and the widths of their runes
  RuneMaps,         \* maps from codes to runes that a client has
  MapFiles,         \* maps of other programs
  Alphabets,        \* sets of runes that a client wants to show
  SimpleFonts,      \* dictionaries of simple fonts of other programs
  TrueTypes,        \* TrueType fonts: the glyph of a rune, the rune of a glyph's name, widths
  CidWidths,        \* widths in composite fonts of other programs: sequences of entries
  MaxShown          \* codes of a string

VARIABLE fnt  \* what has been made or read so far of the job at hand: [mode, job, ...]

MissingCodeRune == 65533
NoFunction == [c \in {} |-> 0]

(***************************************************************************)
(* Numbers in hexadecimal, strings of digits, bytes and UTF-16.            *)
(***************************************************************************)
HexPower == [k \in 0 .. 7 |-> 16 ^ k]
\* %0nx: more digits if the number needs them
DigitsOf(n, number) ==
  LET long == Max({n} \cup {k \in 1 .. 7 : HexPower[k - 1] <= number})
  IN  [i \in 1 .. long |-> (number \div HexPower[long - i]) % 16]
HexToken(n, number) == [k |-> "hex", digits |-> DigitsOf(n, number)]
\* a digit that is missing is a zero at the end
TokenBytes(t) ==
  LET ds == IF Len(t.digits) % 2 = 1 THEN Append(t.digits, 0) ELSE t.digits
  IN  [i \in 1 .. Len(ds) \div 2 |-> 16 * ds[2 * i - 1] + ds[2 * i]]
ToCharCode(bytes) == FoldLeft(LAMBDA code, b : 256 * code + b, 0, bytes)
HexToCharCode(t) == ToCharCode(TokenBytes(t))

HighSurrogate == 55296 .. 56319
LowSurrogate == 56320 .. 57343
Unit16(bytes, i) == 256 * bytes[2 * i - 1] + bytes[2 * i]
\* utf16.Decode, of which hexToRune takes the first rune
FirstRune(bytes) ==
  LET first == Unit16(bytes, 1)
      pair == first \in HighSurrogate /\ Len(bytes) >= 4 /\ Unit16(bytes, 2) \in LowSurrogate
  IN  IF pair THEN 65536 + 1024 * (first - 55296) + (Unit16(bytes, 2) - 56320)
      ELSE IF first \in HighSurrogate \cup LowSurrogate THEN MissingCodeRune ELSE first
HexToRune(t) ==
  LET bs == TokenBytes(t)
  IN  CASE Len(bs) = 0 -> MissingCodeRune
        [] Len(bs) = 1 -> bs[1]
        [] Len(bs) > 1 -> FirstRune(IF Len(bs) % 2 = 1 THEN Append(bs, 0) ELSE bs)

Operand(word) == [k |-> "op", word |-> word]
NameToken(word) == [k |-> "name", word |-> word]
IntToken(n) == [k |-> "int", n |-> n]
ArrayToken(items) == [k |-> "array", items |-> items]
DictToken(keys) == [k |-> "dict", keys |-> keys]

(***************************************************************************)
(* Writing a map.                                                          *)
(***************************************************************************)
Sorted(S) == SetToSortSeq(S, LAMBDA a, b : a < b)

\* Mutant: the end of a range is the code after it.
CharRangesOpen(map) ==
  LET Begins == Sorted({c \in DOMAIN map : c - 1 \notin DOMAIN map})
  IN  [i \in DOMAIN Begins |->
         [code0 |-> Begins[i], code1 |-> Min({e \in DOMAIN map : e >= Begins[i] /\ e + 1 \notin DOMAIN map}) + 1]]

\* the ranges of successive codes
CharRanges(map) ==
  LET S == DOMAIN map
      Begins == Sorted({c \in S : c - 1 \notin S})
      EndOf(c) == Min({e \in S : e >= c /\ e + 1 \notin S})
  IN  [i \in 1 .. Len(Begins) |-> [code0 |-> Begins[i], code1 |-> EndOf(Begins[i])]]

\* Mutant: the last section that is not full is left out.
SectionsWhole(opening, entries, closing) ==
  LET Own(i) == SubSeq(entries, (i - 1) * MaxBfEntries + 1, i * MaxBfEntries)
  IN  FlattenSeq([i \in 1 .. Len(entries) \div MaxBfEntries |->
                    <<IntToken(MaxBfEntries), Operand(opening)>> \o FlattenSeq(Own(i)) \o <<Operand(closing)>>])

Sections(opening, entries, closing) ==
  LET n == (Len(entries) + MaxBfEntries - 1) \div MaxBfEntries
      Upto(i) == Min({i * MaxBfEntries, Len(entries)})
      Section(i) == LET own == SubSeq(entries, (i - 1) * MaxBfEntries + 1, Upto(i))
                    IN  <<IntToken(Len(own)), Operand(opening)>> \o FlattenSeq(own) \o <<Operand(closing)>>
  IN  FlattenSeq([i \in 1 .. n |-> Section(i)])
ToBfData(map) ==
  LET ranges == CharRanges(map)
      Single(r) == r.code0 = r.code1
      Several(r) == ~Single(r)
      CharEntry(r) == <<HexToken(4, r.code0), HexToken(4, map[r.code0])>>
      RangeEntry(r) == <<HexToken(4, r.code0), HexToken(4, r.code1), HexToken(4, map[r.code0])>>
      chars == SelectSeq(ranges, Single)
      several == SelectSeq(ranges, Several)
  IN  Sections("beginbfchar", [i \in DOMAIN chars |-> CharEntry(chars[i])], "endbfchar")
        \o Sections("beginbfrange", [i \in DOMAIN several |-> RangeEntry(several[i])], "endbfrange")
CmapHeader ==
  <<NameToken("CIDInit"), NameToken("ProcSet"), Operand("findresource"), Operand("begin"), IntToken(12), Operand("dict"),
    Operand("begin"), Operand("begincmap"), NameToken("CIDSystemInfo"),
    DictToken({"Registry", "Ordering", "Supplement"}), Operand("def"), NameToken("CMapName"),
    NameToken("Adobe-Identity-UCS"), Operand("def"), NameToken("CMapType"), IntToken(2), Operand("def"), IntToken(1),
    Operand("begincodespacerange"), HexToken(4, 0), HexToken(4, 65535), Operand("endcodespacerange")>>
CmapTrailer ==
  <<Operand("endcmap"), Operand("CMapName"), Operand("currentdict"), NameToken("CMap"), Operand("defineresource"),
    Operand("pop"), Operand("end"), Operand("end")>>
CmapBytes(map) == CmapHeader \o (IF map = NoFunction THEN << >> ELSE ToBfData(map)) \o CmapTrailer

(***************************************************************************)
(* Reading a map: the map so far, in which section the parser is, and what *)
(* of an entry it has.                                                     *)
(***************************************************************************)
NewCmap(simple) ==
  [nbits |-> IF simple THEN 8 ELSE 16, spaces |-> << >>, map |-> NoFunction, section |-> "top", got |-> << >>,
   count |-> 0, prev |-> Operand("none"), failed |-> FALSE]
\* what NewToUnicodeCMap makes
MadeCmap(map) == [NewCmap(FALSE) EXCEPT !.map = map, !.spaces = <<[bytes |-> 0, low |-> 0, high |-> 65535]>>]
Begun(c, section) == [c EXCEPT !.section = section, !.got = << >>, !.count = 0]
Ended(c) == Begun(c, "top")
RefusedMap(c) == [c EXCEPT !.failed = TRUE]
WithToken(c, t) == [c EXCEPT !.got = Append(@, t)]

\* Mutant: the first of two entries counts.
MappedOnce(c, runes) == [c EXCEPT !.map = @ @@ runes, !.got = << >>]

Mapped(c, runes) == [c EXCEPT !.map = runes @@ @, !.got = << >>]
IsOp(t, word) == t = Operand(word)

SectionOfOp == [begincodespacerange |-> "spaces", beginbfchar |-> "chars", beginbfrange |-> "ranges",
                CIDSystemInfo |-> "system"]
SectionOfName == [CIDSystemInfo |-> "system", CMapName |-> "name", CMapType |-> "type", CMapVersion |-> "version"]
AtTop(c, t) ==
  LET next == [c EXCEPT !.prev = t]
  IN  CASE t.k = "op" /\ t.word \in DOMAIN SectionOfOp     -> Begun(next, SectionOfOp[t.word])
        [] t.k = "name" /\ t.word \in DOMAIN SectionOfName -> Begun(next, SectionOfName[t.word])
        [] IsOp(t, "usecmap") /\ c.prev.k # "name"         -> RefusedMap(c)
        [] OTHER                                           -> next

\* parseCodespaceRange: what is no string counts as an empty one, as the low end
NoBytes == [k |-> "hex", digits |-> << >>]
InSpaces(c, t) ==
  IF c.got = << >>
  THEN IF t.k = "op" THEN (IF t.word = "endcodespacerange" THEN Ended(c) ELSE RefusedMap(c))
       ELSE WithToken(c, IF t.k = "hex" THEN t ELSE NoBytes)
  ELSE LET low == c.got[1]
           ok == t.k = "hex" /\ Len(TokenBytes(t)) = Len(TokenBytes(low)) /\ HexToCharCode(low) <= HexToCharCode(t)
       IN  IF ~ok THEN RefusedMap(c)
           ELSE [c EXCEPT !.got = << >>,
                          !.spaces = Append(@, [bytes |-> Len(TokenBytes(t)), low |-> HexToCharCode(low),
                                                high |-> HexToCharCode(t)])]

InChars(c, t) ==
  IF IsOp(t, "endbfchar") THEN Ended(c)
  ELSE IF c.got = << >> THEN (IF t.k = "hex" THEN WithToken(c, t) ELSE RefusedMap(c))
  ELSE CASE t.k = "hex"  -> Mapped(c, HexToCharCode(c.got[1]) :> HexToRune(t))
         [] t.k = "name" -> Mapped(c, HexToCharCode(c.got[1]) :> MissingCodeRune)
         [] OTHER        -> RefusedMap(c)

InRanges(c, t) ==
  IF Len(c.got) < 2
  THEN IF c.got = << >> /\ IsOp(t, "endbfrange") THEN Ended(c)
       ELSE IF t.k = "hex" THEN WithToken(c, t) ELSE RefusedMap(c)
  ELSE LET from == HexToCharCode(c.got[1])
           to == HexToCharCode(c.got[2])
           listed == from <= to /\ Len(t.items) = to - from + 1 /\ \A i \in DOMAIN t.items : t.items[i].k = "hex"
       IN  CASE t.k = "hex"   -> Mapped(c, [code \in from .. to |-> HexToRune(t) + (code - from)])
             [] t.k = "array" -> IF ~listed THEN RefusedMap(c)
                                 ELSE Mapped(c, [code \in from .. to |-> HexToRune(t.items[code - from + 1])])
             [] OTHER         -> RefusedMap(c)

\* parseName, parseType, parseVersion: a few objects up to def
InValue(c, t) ==
  LET n == c.count + 1
      most == IF c.section = "name" THEN 10 ELSE 3
  IN  IF IsOp(t, "def") THEN Ended(c)
      ELSE IF t.k = "op" /\ c.section # "name" THEN RefusedMap(c)
      ELSE IF n = most THEN (IF c.section = "name" THEN RefusedMap(c) ELSE Ended(c))
      ELSE [c EXCEPT !.count = n]

\* parseSystemInfo: a dictionary, or operators up to end
InSystem(c, t) ==
  LET n == c.count + 1
      whole == {"Registry", "Ordering", "Supplement"} \subseteq t.keys
  IN  IF t.k = "dict" THEN (IF whole THEN Ended(c) ELSE RefusedMap(c))
      ELSE IF IsOp(t, "end") THEN Ended(c)
      ELSE IF n = 50 THEN RefusedMap(c)
      ELSE [c EXCEPT !.count = n]

ReadToken(c, t) ==
  CASE c.section = "top"    -> AtTop(c, t)
    [] c.section = "spaces" -> InSpaces(c, t)
    [] c.section = "chars"  -> InChars(c, t)
    [] c.section = "ranges" -> InRanges(c, t)
    [] c.section = "system" -> InSystem(c, t)
    [] OTHER                -> InValue(c, t)
\* the end of the file: sections of codes may be cut off, the others may not
AtFileEnd(c) ==
  IF c.section \in {"name", "type", "version", "system"} \/ c.spaces = << >> THEN RefusedMap(c)
  ELSE [Ended(c) EXCEPT !.spaces = SortSeq(@, LAMBDA s, r : s.low < r.low)]

(***************************************************************************)
(* Strings under a map: the shortest code that lies in a code space.  A    *)
(* code that the end of the string cuts off is taken as it is.             *)
(***************************************************************************)
MaxCodeLen == 4
\* Mutant: the number of bytes is not compared.
InCodespaceAnyLength(c, code, n) == \E i \in DOMAIN c.spaces : c.spaces[i].low <= code /\ code <= c.spaces[i].high

InCodespace(c, code, n) ==
  \E i \in DOMAIN c.spaces : LET s == c.spaces[i] IN n = s.bytes /\ s.low <= code /\ code <= s.high
CodeAhead(data, j) == ToCharCode(SubSeq(data, 1, Min({j, Len(data)})))
MatchLengths(c, data) == {j \in 1 .. MaxCodeLen : InCodespace(c, CodeAhead(data, j), j)}

MatchNext(c, s) ==
  LET lengths == MatchLengths(c, s.rest)
      j == Min(lengths)
  IN  IF ~s.matched \/ s.rest = << >> THEN s
      ELSE IF lengths = {} THEN [s EXCEPT !.matched = FALSE]
      ELSE [s EXCEPT !.codes = Append(@, CodeAhead(s.rest, j)),
                     !.rest = SubSeq(@, Min({j, Len(@)}) + 1, Len(@))]
BytesToCharcodes(c, data) ==
  IF c.nbits = 8 THEN [matched |-> TRUE, codes |-> data, rest |-> << >>]
  ELSE FoldLeft(LAMBDA s, b : MatchNext(c, s), [matched |-> TRUE, codes |-> << >>, rest |-> data], data)

(***************************************************************************)
(* Simple encodings, and those that differ from one in some codes.         *)
(***************************************************************************)
NotFound == -1
\* of several codes of a rune the lowest is used
Lowest(decode) == [r \in Range(decode) |-> Min({c \in DOMAIN decode : decode[c] = r})]
SimpleEncoder(name) ==
  [name |-> name, decode |-> SimpleEncodings[name], encode |-> Lowest(SimpleEncodings[name]),
   differences |-> NoFunction, encodeFirst |-> NoFunction]
\* of several differences with one rune the one that a map yields last
ApplyDifferences(base, differences) ==
  {[base EXCEPT !.differences = differences, !.encodeFirst = e] :
     e \in {f \in [Range(differences) \ {0} -> DOMAIN differences] : \A r \in DOMAIN f : differences[f[r]] = r}}
RuneToCharcode(enc, r) ==
  IF r \in DOMAIN enc.encodeFirst THEN enc.encodeFirst[r]
  ELSE IF r \in DOMAIN enc.encode THEN enc.encode[r] ELSE NotFound
CharcodeToRune(enc, code) ==
  IF code \in DOMAIN enc.differences THEN enc.differences[code]
  ELSE IF code \in DOMAIN enc.decode THEN enc.decode[code] ELSE NotFound

GlyphItem(r) == [k |-> "glyph", rune |-> r]

\* Mutant: a run is what follows the first code.
ToFontDifferencesFromFirst(differences) ==
  LET codes == Sorted(DOMAIN differences)
      Item(i) == IF i = 1 THEN <<IntToken(codes[1]), GlyphItem(differences[codes[1]])>>
                 ELSE IF codes[i] = codes[1] + 1 THEN <<GlyphItem(differences[codes[i]])>>
                 ELSE <<IntToken(codes[i])>>
  IN  FlattenSeq([i \in DOMAIN codes |-> Item(i)])

\* the code of each run, followed by its first glyph only if it is the first run
ToFontDifferences(differences) ==
  LET codes == Sorted(DOMAIN differences)
      Item(i) == IF i = 1 THEN <<IntToken(codes[1]), GlyphItem(differences[codes[1]])>>
                 ELSE IF codes[i] = codes[i - 1] + 1 THEN <<GlyphItem(differences[codes[i]])>>
                 ELSE <<IntToken(codes[i])>>
  IN  FlattenSeq([i \in DOMAIN codes |-> Item(i)])
FromFontDifferences(list) ==
  FoldLeft(LAMBDA s, x : CASE x.k = "int"   -> [s EXCEPT !.n = x.n]
                           [] x.k = "glyph" -> [s EXCEPT !.n = @ + 1, !.found = (s.n :> x.rune) @@ @]
                           [] OTHER         -> [s EXCEPT !.ok = FALSE],
           [ok |-> TRUE, n |-> 0, found |-> NoFunction], list)

(***************************************************************************)
(* Simple fonts.                                                           *)
(***************************************************************************)
NoEncoding == [k |-> "none"]
EncodingName(name) == [k |-> "name", name |-> name]
EncodingDict(typed, base, list) == [k |-> "dict", typed |-> typed, base |-> base, list |-> list]
NoEncoder == [name |-> "none"]
Simple(std, encoding, encoder) == [std |-> std, encoding |-> encoding, encoder |-> encoder]
\* Encoder: the font's own, that of the standard font, or the standard one
Encoder(font) ==
  IF font.encoder # NoEncoder THEN font.encoder
  ELSE SimpleEncoder(IF font.std \in DOMAIN StdFonts THEN StdFonts[font.std].encoding ELSE "StandardEncoding")

Symbolic == {"Symbol", "ZapfDingbats"}
NewStandard14Font(std) ==
  Simple(std, NoEncoding, IF std \in Symbolic THEN NoEncoder ELSE SimpleEncoder("WinAnsiEncoding"))

\* Mutant: codes of the alphabet are replaced too.
ReplacableAny(enc, alphabet) == [c \in 1 .. MaxCode |-> c]

\* NewStandard14FontWithEncoding: runes that are missing take codes that are free, then those of other runes
Replacable(enc, alphabet) ==
  LET gaps == {c \in 1 .. MaxCode : CharcodeToRune(enc, c) = NotFound}
      unused == {c \in 1 .. MaxCode : CharcodeToRune(enc, c) \notin alphabet} \ gaps
  IN  Sorted(gaps) \o Sorted(unused)
FontsWithEncoding(std, alphabet) ==
  LET enc == SimpleEncoder(StdFonts[std].encoding)
      missing == Sorted({r \in alphabet : RuneToCharcode(enc, r) = NotFound /\ r \in DOMAIN StdFonts[std].widths})
      slots == Replacable(enc, alphabet)
      differences == [c \in {slots[i] : i \in DOMAIN missing} |-> missing[CHOOSE i \in DOMAIN missing : slots[i] = c]]
  IN  IF Len(missing) > Len(slots) THEN {}
      ELSE {Simple(std, NoEncoding, e) : e \in ApplyDifferences(enc, differences)}

\* ToPdfObject of an encoder and of a font: what was read wins
EncodingObject(enc) ==
  IF enc.differences = NoFunction THEN EncodingName(enc.name)
  ELSE EncodingDict(TRUE, enc.name, ToFontDifferences(enc.differences))
WriteSimple(font) ==
  [std |-> font.std,
   encoding |-> IF font.encoding # NoEncoding THEN font.encoding
                ELSE IF font.encoder # NoEncoder THEN EncodingObject(font.encoder) ELSE NoEncoding]

\* Mutant: the base of a dictionary without a type counts.
BaseNameUntyped(d) ==
  IF d.encoding.base # "none" THEN d.encoding.base
  ELSE IF d.std \in DOMAIN StdFonts THEN StdFonts[d.std].encoding ELSE "StandardEncoding"

\* getFontEncoding and addEncoding
BaseName(d) ==
  IF d.encoding.typed /\ d.encoding.base # "none" THEN d.encoding.base
  ELSE IF d.std \in DOMAIN StdFonts THEN StdFonts[d.std].encoding ELSE "StandardEncoding"
EncodersOf(name, found) == IF name \in DOMAIN SimpleEncodings THEN ApplyDifferences(SimpleEncoder(name), found) ELSE {}
LoadSimple(d) ==
  CASE d.encoding.k = "none" -> {Simple(d.std, NoEncoding, NoEncoder)}
    [] d.encoding.k = "name" -> {Simple(d.std, d.encoding, e) : e \in EncodersOf(d.encoding.name, NoFunction)}
    [] d.encoding.k = "dict" ->
         LET read == FromFontDifferences(d.encoding.list)
         IN  IF ~read.ok THEN {} ELSE {Simple(d.std, d.encoding, e) : e \in EncodersOf(BaseName(d), read.found)}

(***************************************************************************)
(* Composite fonts: a code of two bytes is a glyph number in those that    *)
(* the library makes, and a rune where the encoder is Identity.            *)
(***************************************************************************)
GlyphRune(ttf, r) == LET g == ttf.glyphs[ttf.chars[r]] IN IF g = 0 THEN MissingCodeRune ELSE g
\* MakeToUnicode: the glyphs' runes, by rune and not by glyph number
MakeToUnicode(ttf) == MadeCmap([r \in DOMAIN ttf.chars |-> GlyphRune(ttf, r)])
RuneWidth(ttf, r) == ttf.widths[ttf.chars[r]]

\* Mutant: all runes of a width are one range.
MakeCIDWidthArrSets(ttf) ==
  LET runes == DOMAIN ttf.chars
      Gids(w) == {ttf.chars[r] : r \in {r \in runes : RuneWidth(ttf, r) = w}}
      ws == Sorted({RuneWidth(ttf, r) : r \in runes})
  IN  FlattenSeq([n \in DOMAIN ws |-> <<IntToken(Min(Gids(ws[n]))), IntToken(Max(Gids(ws[n]))), IntToken(ws[n])>>])

\* makeCIDWidthArr: one range of glyph numbers for successive runes of one width
MakeCIDWidthArr(ttf) ==
  LET runes == Sorted(DOMAIN ttf.chars)
      WidthAt(i) == RuneWidth(ttf, runes[i])
      firsts == Sorted({i \in DOMAIN runes : i = 1 \/ WidthAt(i) # WidthAt(i - 1)})
      LastOf(i) == Max({j \in DOMAIN runes : \A k \in i .. j : WidthAt(k) = WidthAt(i)})
      Gid(i) == IntToken(ttf.chars[runes[i]])
  IN  FlattenSeq([n \in DOMAIN firsts |->
                    LET i == firsts[n] IN <<Gid(i), Gid(LastOf(i)), IntToken(WidthAt(i))>>])
NewCompositePdfFont(ttf) ==
  [encoder |-> [k |-> "truetype", chars |-> ttf.chars], cmap |-> MakeToUnicode(ttf), W |-> MakeCIDWidthArr(ttf),
   DW |-> <<ttf.widths[0]>>, widths |-> NoFunction, defaultWidth |-> 0,
   runeWidths |-> [r \in DOMAIN ttf.chars |-> RuneWidth(ttf, r)]]

\* Mutant: a range ends before its last code.
NextWidthOpen(s, x) ==
  LET n == s.got[1].n
  IN  CASE Len(s.got) = 0                     -> [s EXCEPT !.got = <<x>>]
        [] Len(s.got) = 1 /\ x.k = "int"      -> [s EXCEPT !.got = Append(@, x)]
        [] Len(s.got) = 1 /\ x.k = "array"    ->
             [s EXCEPT !.got = << >>, !.widths = [c \in n .. n + Len(x.items) - 1 |-> x.items[c - n + 1].n] @@ @]
        [] Len(s.got) = 2                     -> [s EXCEPT !.got = << >>, !.widths = [c \in n .. s.got[2].n - 1 |-> x.n] @@ @]

\* W: a code and a list of widths, or two codes and a width; what stands alone at the end is not looked at
NextWidth(s, x) ==
  LET n == s.got[1].n
  IN  IF ~s.ok THEN s ELSE
      CASE s.got = << >>                             -> [s EXCEPT !.got = <<x>>]
        [] Len(s.got) = 1 /\ s.got[1].k # "int"      -> [s EXCEPT !.ok = FALSE]
        [] Len(s.got) = 1 /\ s.got[1].k = "int"      ->
             CASE x.k = "int"   -> [s EXCEPT !.got = Append(@, x)]
               [] x.k = "array" -> [s EXCEPT !.got = << >>,
                                             !.widths = [c \in n .. n + Len(x.items) - 1 |-> x.items[c - n + 1].n] @@ @]
               [] OTHER         -> [s EXCEPT !.ok = FALSE]
        [] OTHER                                     ->
             IF x.k # "int" THEN [s EXCEPT !.ok = FALSE]
             ELSE [s EXCEPT !.got = << >>, !.widths = [c \in n .. s.got[2].n |-> x.n] @@ @]
ReadWidths(W) == FoldLeft(NextWidth, [ok |-> TRUE, got |-> << >>, widths |-> NoFunction], W)
WidthsAccepted(W) == LET s == ReadWidths(W) IN s.ok /\ Len(s.got) < 2
LoadComposite(W, DW, cmap) ==
  [encoder |-> [k |-> "identity"], cmap |-> cmap, W |-> W, DW |-> DW, widths |-> ReadWidths(W).widths,
   defaultWidth |-> IF DW = << >> THEN 1000 ELSE DW[1], runeWidths |-> NoFunction]

CharWidth(font, code) ==
  IF code \in DOMAIN font.widths THEN font.widths[code]
  ELSE IF code \in DOMAIN font.runeWidths THEN font.runeWidths[code] ELSE font.defaultWidth
\* the code of a rune; of the runes with one glyph a map yields any
CidOfRune(encoder, r) ==
  IF encoder.k = "identity" THEN r ELSE IF r \in DOMAIN encoder.chars THEN encoder.chars[r] ELSE NotFound
RunesOfCid(encoder, code) ==
  IF encoder.k = "identity" THEN {code} ELSE {r \in DOMAIN encoder.chars : encoder.chars[r] = code}

\* Mutant: the encoder, then the map.
CharcodesToUnicodeByEncoder(font, code) ==
  LET runes == RunesOfCid(font.encoder, code)
  IN  IF runes # {} THEN runes ELSE IF code \in DOMAIN font.cmap.map THEN {font.cmap.map[code]} ELSE {MissingCodeRune}

\* CharcodesToUnicode: the map, then the encoder
CharcodesToUnicode(font, code) ==
  LET runes == RunesOfCid(font.encoder, code)
  IN  IF code \in DOMAIN font.cmap.map THEN {font.cmap.map[code]}
      ELSE IF runes = {} THEN {MissingCodeRune} ELSE runes
CidBytes(codes) == FlattenSeq([i \in DOMAIN codes |-> <<codes[i] \div 256, codes[i] % 256>>])
\* a byte that stands alone is the low one, one that is left over the high one
CidCodes(data) ==
  LET whole == IF Len(data) = 1 THEN <<0>> \o data ELSE IF Len(data) % 2 = 1 THEN Append(data, 0) ELSE data
  IN  [i \in 1 .. Len(whole) \div 2 |-> 256 * whole[2 * i - 1] + whole[2 * i]]

(***************************************************************************)
(* A map is written or found and read; a font is made or found, written    *)
(* and read again.                                                         *)
(***************************************************************************)
FontNone == [mode |-> "idle"]
FontIdle == fnt = FontNone
In(mode) == fnt.mode = mode
StartReading(job, tokens, simple) ==
  fnt' = [mode |-> "reading", job |-> job, rest |-> tokens, cmap |-> NewCmap(simple)]
WriteMap ==
  FontIdle /\ \E map \in RuneMaps, simple \in BOOLEAN :
    StartReading([k |-> "made", map |-> map], CmapBytes(MadeCmap(map).map), simple)
OpenMap ==
  FontIdle /\ \E file \in MapFiles : \E cut \in 0 .. Len(file.tokens) :
    StartReading([k |-> "file", file |-> file, cut |-> cut], SubSeq(file.tokens, 1, cut), FALSE)
ReadMap ==
  /\ In("reading") /\ fnt.rest # << >> /\ ~fnt.cmap.failed
  /\ fnt' = [fnt EXCEPT !.rest = Tail(@), !.cmap = ReadToken(@, Head(fnt.rest))]
EndMap ==
  /\ In("reading") /\ fnt.rest = << >> /\ ~fnt.cmap.failed
  /\ fnt' = [fnt EXCEPT !.mode = "map", !.cmap = AtFileEnd(@)]
\* strings of codes of a map's spaces, the last perhaps not whole
ShowCodes ==
  /\ In("map") /\ fnt.job.k = "file" /\ fnt.job.cut = Len(fnt.job.file.tokens) /\ ~fnt.cmap.failed
  /\ \E codes \in UNION {[1 .. n -> fnt.job.file.codes] : n \in 1 .. MaxShown} : \E lost \in 0 .. Len(Last(codes)) - 1 :
       LET bytes == FlattenSeq(codes)
       IN  fnt' = [mode |-> "string", codes |-> codes, lost |-> lost,
                   read |-> BytesToCharcodes(fnt.cmap, SubSeq(bytes, 1, Len(bytes) - lost))]

MakeFont ==
  FontIdle /\ \E std \in DOMAIN StdFonts :
    \/ fnt' = [mode |-> "font", job |-> [k |-> "std"], font |-> NewStandard14Font(std)]
    \/ \E alphabet \in Alphabets : \E font \in FontsWithEncoding(std, alphabet) :
         fnt' = [mode |-> "font", job |-> [k |-> "alphabet", alphabet |-> alphabet], font |-> font]
OpenFont ==
  FontIdle /\ \E d \in SimpleFonts : \E font \in LoadSimple(d) :
    fnt' = [mode |-> "font", job |-> [k |-> "dict", d |-> d], font |-> font]
WriteFont ==
  In("font") /\ \E font \in LoadSimple(WriteSimple(fnt.font)) :
    fnt' = [mode |-> "again", written |-> fnt.font, font |-> font]

MakeComposite ==
  FontIdle /\ \E ttf \in TrueTypes :
    fnt' = [mode |-> "composite", job |-> [k |-> "ttf", ttf |-> ttf], font |-> NewCompositePdfFont(ttf)]
WriteComposite == In("composite") /\ StartReading(fnt.job, CmapBytes(fnt.font.cmap.map), FALSE)
ReadComposite ==
  LET made == NewCompositePdfFont(fnt.job.ttf)
  IN  /\ In("map") /\ fnt.job.k = "ttf" /\ ~fnt.cmap.failed /\ WidthsAccepted(made.W)
      /\ fnt' = [mode |-> "loaded", job |-> fnt.job, font |-> LoadComposite(made.W, made.DW, fnt.cmap)]
OpenWidths ==
  FontIdle /\ \E own \in CidWidths : \E cut \in 0 .. Len(own.items) :
    LET W == SubSeq(own.items, 1, cut)
    IN  fnt' = [mode |-> "widths", own |-> own, cut |-> cut, ok |-> WidthsAccepted(W),
                font |-> LoadComposite(W, own.DW, NewCmap(FALSE))]

FontNext ==
  \/ WriteMap \/ OpenMap \/ ReadMap \/ EndMap \/ ShowCodes
  \/ MakeFont \/ OpenFont \/ WriteFont
  \/ MakeComposite \/ WriteComposite \/ ReadComposite \/ OpenWidths

(***************************************************************************)
(* Properties.                                                             *)
(***************************************************************************)
\* A map that is written and read has the same codes, and the same rune for
\* each code that stands alone, or whose rune is as far from that of the
\* first code of its run as the codes are (toBfData writes no more of a run
\* than its first rune); five digits do not come back as one rune.
OneUnit(r) == r < 65536 /\ r \notin HighSurrogate \cup LowSurrogate
RunStart(map, c) == Min({b \in DOMAIN map : b .. c \subseteq DOMAIN map})
RuneKept(map, c) == LET s == RunStart(map, c) IN OneUnit(map[s]) /\ map[c] - map[s] = c - s
CmapReadBack ==
  fnt.mode \in {"reading", "map"} /\ fnt.job.k \in {"made", "ttf"} =>
    /\ ~fnt.cmap.failed
    /\ In("map") /\ fnt.job.k = "made" =>
         LET map == fnt.job.map
             read == fnt.cmap.map
         IN  DOMAIN read = DOMAIN map /\ \A c \in DOMAIN map : RuneKept(map, c) => read[c] = map[c]

\* Of another program's map, however much of it there is, every entry that
\* is whole counts and nothing of one that is not; of two that speak of a
\* code the later counts (parseBfchar, parseBfrange).
WholeEntries(entries, cut) == SelectSeq(entries, LAMBDA e : e.upto <= cut)
LastSaying(entries, c) ==
  LET Saying(i) == c \in DOMAIN entries[i].map
  IN  entries[Max({i \in DOMAIN entries : Saying(i)})].map[c]
CmapMeans ==
  fnt.mode \in {"reading", "map"} /\ fnt.job.k = "file" =>
    LET job == fnt.job
        whole == WholeEntries(job.file.entries, job.cut)
        codes == UNION {DOMAIN whole[i].map : i \in DOMAIN whole}
    IN  /\ In("reading") => ~fnt.cmap.failed
        /\ In("map") => /\ fnt.cmap.failed = (job.cut < job.file.ready)
                        /\ ~fnt.cmap.failed => fnt.cmap.map = [c \in codes |-> LastSaying(whole, c)]

\* The codes of a string are found again, one after the other, however many
\* bytes each has; what is cut off at the end changes none before it
\* (matchCode tries the shortest code first).
StringsRead ==
  In("string") =>
    LET whole == IF fnt.lost = 0 THEN fnt.codes ELSE Front(fnt.codes)
        codes == [i \in DOMAIN whole |-> ToCharCode(whole[i])]
    IN  IsPrefix(codes, fnt.read.codes) /\ (fnt.lost = 0 => fnt.read = [matched |-> TRUE, codes |-> codes, rest |-> << >>])

\* The encoder for an alphabet encodes every rune of it that the font has:
\* none of its runes takes a code that another needs (font.go:163, "a
\* TextEncoder that encodes all the runes in `alphabet`").
AlphabetEncoded ==
  In("font") /\ fnt.job.k = "alphabet" =>
    LET font == fnt.font
        std == StdFonts[font.std]
    IN  \A r \in fnt.job.alphabet \cap (Range(SimpleEncodings[std.encoding]) \cup DOMAIN std.widths) :
          CharcodeToRune(font.encoder, RuneToCharcode(font.encoder, r)) = r

\* A code of another program's font shows the glyph that the last difference
\* for it names, or that of the base encoding, and a rune that it shows is
\* encoded as a code that shows it (getFontEncoding, ApplyDifferences).
CodeOfItem(list, i) ==
  LET numbers == {j \in 1 .. i : list[j].k = "int"}
  IN  IF numbers = {} THEN i - 1 ELSE list[Max(numbers)].n + (i - Max(numbers) - 1)
DifferencesShown ==
  In("font") /\ fnt.job.k = "dict" /\ fnt.job.d.encoding.k = "dict" =>
    LET d == fnt.job.d
        list == d.encoding.list
        enc == fnt.font.encoder
        base == SimpleEncodings[d.shows]
        For(c) == {i \in DOMAIN list : list[i].k = "glyph" /\ CodeOfItem(list, i) = c}
    IN  \A c \in 0 .. MaxCode :
          LET r == CharcodeToRune(enc, c)
          IN  /\ r = (IF For(c) # {} THEN list[Max(For(c))].rune ELSE IF c \in DOMAIN base THEN base[c] ELSE NotFound)
              /\ For(c) # {} /\ r # 0 => CharcodeToRune(enc, RuneToCharcode(enc, r)) = r

\* A font that is written and read shows for every code what it showed
\* before, if its differences are one run of codes: of any further run
\* toFontDifferences writes no first glyph.
OneRun(S) == S = {} \/ S = Min(S) .. Max(S)
FontReadBack ==
  In("again") =>
    LET before == Encoder(fnt.written)
        after == Encoder(fnt.font)
    IN  fnt.written.encoding # NoEncoding \/ OneRun(DOMAIN before.differences) =>
          \A c \in 0 .. MaxCode : CharcodeToRune(after, c) = CharcodeToRune(before, c)

\* A composite font that is written and read has every rune's width, if
\* glyph numbers ascend with the runes (makeCIDWidthArr makes ranges of
\* them), the same rune for a code in its map, and its text, if the glyph
\* numbers are the runes (MakeToUnicode has them by rune).
GlyphsAscend(ttf) == \A r, q \in DOMAIN ttf.chars : r < q => ttf.chars[r] <= ttf.chars[q]
CompositeKept ==
  In("loaded") =>
    LET ttf == fnt.job.ttf
        made == NewCompositePdfFont(ttf)
        runes == DOMAIN ttf.chars
        same == \A r \in runes : ttf.chars[r] = r /\ ttf.glyphs[r] = r
        text == Sorted(runes)
    IN  /\ GlyphsAscend(ttf) => \A r \in runes : CharWidth(fnt.font, CidOfRune(made.encoder, r)) = made.runeWidths[r]
        /\ \A c \in DOMAIN made.cmap.map : RuneKept(made.cmap.map, c) =>
             CharcodesToUnicode(fnt.font, c) = CharcodesToUnicode(made, c)
        /\ same => LET codes == CidCodes(CidBytes([i \in DOMAIN text |-> CidOfRune(made.encoder, text[i])]))
                   IN  [i \in DOMAIN codes |-> CharcodesToUnicode(fnt.font, codes[i])] = [i \in DOMAIN text |-> {text[i]}]

\* Widths that are not whole are refused, but for a last number that stands
\* alone; of two entries for a code the later counts
\* (newPdfCIDFontType2FromPdfObject).
WidthsMean ==
  In("widths") =>
    LET whole == WholeEntries(fnt.own.entries, fnt.cut)
        left == fnt.cut - (IF whole = << >> THEN 0 ELSE Last(whole).upto)
        codes == UNION {DOMAIN whole[i].map : i \in DOMAIN whole}
    IN  /\ fnt.ok = (left < 2)
        /\ fnt.ok => \A c \in 0 .. MaxCode :
             CharWidth(fnt.font, c) = (IF c \in codes THEN LastSaying(whole, c) ELSE fnt.font.defaultWidth)

\* Fonts: each of the above.
FontsSound ==
  CmapReadBack /\ CmapMeans /\ StringsRead /\ AlphabetEncoded /\ DifferencesShown /\ FontReadBack /\ CompositeKept /\ WidthsMean
================================================================================

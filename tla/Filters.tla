------------------------------- MODULE Filters -------------------------------
(***************************************************************************)
(* Stream encodings (pdf/core/encoding.go, stream.go): what an encoder     *)
(* writes, the dictionary that describes it, the encoder that is made from *)
(* that dictionary, and what it decodes.  A byte is below Base, which      *)
(* stands for 256; the other sizes scale with it.  What is behind a call   *)
(* of compress/zlib, lzw and image/jpeg is opaque: a header and the data.  *)
(***************************************************************************)
EXTENDS Integers, Sequences, FiniteSets
LOCAL INSTANCE SequencesExt
LOCAL INSTANCE TLC

CONSTANTS
  Base,      \* values of a byte
  Digit,     \* values of an ASCII85 digit
  Nibble,    \* values of a hexadecimal digit
  FilterData, \* what is encoded
  Encoders,  \* encoders of a client
  Headings   \* dictionaries of a client's, or another program's, streams

ASSUME FiltersAssumptions ==
  /\ Base \in Nat /\ Base % 2 = 0 /\ Base > 4 /\ Digit \in Nat /\ Nibble \in Nat
  /\ Digit ^ 5 >= Base ^ 4 /\ Nibble ^ 2 >= Base

VARIABLE flt  \* the stream: [step, how, by, data, dict, bytes, out]

Failed == [ok |-> FALSE, bytes |-> << >>]
Good(s) == [ok |-> TRUE, bytes |-> s]
Empty == [k \in {} |-> 0]
Opt(cond, key, value) == IF cond THEN key :> value ELSE Empty
Field(d, key, default) == IF key \in DOMAIN d THEN d[key] ELSE default
Rows(s, n) == [i \in 1 .. Len(s) \div n |-> SubSeq(s, n * (i - 1) + 1, n * i)]
Drop(s, n) == SubSeq(s, n + 1, Len(s))

(***************************************************************************)
(* Predictors.  "Flate" undoes all five PNG filters by pixel, "LZW" the    *)
(* first three, and Sub by byte.                                           *)
(***************************************************************************)
Abs(n) == IF n < 0 THEN -n ELSE n
paeth(a, b, c) ==
  LET pa == Abs(b - c)
      pb == Abs(a - c)
      pc == Abs(a + b - 2 * c)
  IN  IF pa <= pb /\ pa <= pc THEN a ELSE IF pb <= pc THEN b ELSE c

\* Mutant of UndoRow.
UndoRowNoCorner(row, prev, filter, bpp) ==
  LET out[j \in DOMAIN row] ==
        LET a == IF j > bpp THEN out[j - bpp] ELSE 0
            b == prev[j]
        IN  (row[j] + CASE filter = 0 -> 0 [] filter = 1 -> a [] filter = 2 -> b
                        [] filter = 3 -> (a + b) \div 2 [] filter = 4 -> paeth(a, b, 0)) % Base
  IN  [j \in DOMAIN row |-> out[j]]

\* One row, of the bytes behind the filter byte.
UndoRow(row, prev, filter, bpp) ==
  LET out[j \in DOMAIN row] ==
        LET a == IF j > bpp THEN out[j - bpp] ELSE 0
            b == prev[j]
            c == IF j > bpp THEN prev[j - bpp] ELSE 0
        IN  (row[j] + CASE filter = 0 -> 0 [] filter = 1 -> a [] filter = 2 -> b
                        [] filter = 3 -> (a + b) \div 2 [] filter = 4 -> paeth(a, b, c)) % Base
  IN  [j \in DOMAIN row |-> out[j]]

UndoPng(s, e, filters, bpp) ==
  LET n == e.cols * e.colors + 1
      step(acc, row) ==
        IF ~acc.ok \/ row[1] \notin filters THEN [acc EXCEPT !.ok = FALSE]
        ELSE LET r == UndoRow(Tail(row), acc.prev, row[1], bpp)
             IN  [acc EXCEPT !.bytes = @ \o r, !.prev = r]
      all == FoldLeft(step, [ok |-> TRUE, bytes |-> << >>, prev |-> [j \in 1 .. n - 1 |-> 0]], Rows(s, n))
  IN  IF Len(s) % n # 0 \/ n > Len(s) \/ ~all.ok THEN Failed ELSE Good(all.bytes)

UndoTiff(s, e) ==
  LET n == e.cols * e.colors
  IN  IF n < 1 THEN Good(<< >>)
      ELSE IF Len(s) % n # 0 \/ n > Len(s) THEN Failed
      ELSE Good(FlattenSeq([i \in 1 .. Len(s) \div n |->
             UndoRow(Rows(s, n)[i], [j \in 1 .. n |-> 0], 1, e.colors)]))

\* FlateEncoder.postDecodePredict
postDecodePredict(e, s) ==
  CASE e.pred <= 1 -> Good(s)
    [] e.pred = 2 -> UndoTiff(s, e)
    [] e.pred \in 10 .. 15 -> UndoPng(s, e, 0 .. 4, e.colors)
    [] OTHER -> Failed
\* The end of LZWEncoder.DecodeStream
LzwPredict(e, s) ==
  CASE e.pred <= 1 -> Good(s)
    [] e.pred = 2 -> UndoTiff(s, e)
    [] e.pred \in 10 .. 15 -> UndoPng(s, e, 0 .. 2, 1)
    [] OTHER -> Failed

(***************************************************************************)
(* Encoders: a record with its name, and settings for Flate and LZW.       *)
(***************************************************************************)
Flate(pred, cols, colors) == [name |-> "Flate", pred |-> pred, bpc |-> 8, cols |-> cols, colors |-> colors]
Lzw(pred, cols, colors, early) ==
  [name |-> "LZW", pred |-> pred, bpc |-> 8, cols |-> cols, colors |-> colors, early |-> early]
Plain(name) == [name |-> name]
Multi(list) == [name |-> "Multi", of |-> list]

\* External: a header, by which decoding tells whether it was given its own,
\* and the length, by which it tells where to stop.  That data is missing is an
\* error, which FlateEncoder.DecodeBytes ignores.
Header(e) == CASE e.name = "Flate" -> Base - 1 [] e.name = "LZW" -> Base - 2 - e.early
Pack(e, s) == <<Header(e), Len(s)>> \o s
Unpack(e, s) ==
  IF Len(s) < 2 \/ s[1] # Header(e) THEN Failed
  ELSE IF Len(s) >= 2 + s[2] THEN Good(SubSeq(s, 3, 2 + s[2]))
  ELSE IF e.name = "Flate" THEN Good(Drop(s, 2)) ELSE Failed

\* FlateEncoder.EncodeBytes: PNG Sub, in rows of Columns whatever Colors is.
FlateEncode(e, s) ==
  IF e.pred \notin {1, 11} \/ (e.pred = 11 /\ Len(s) % e.cols # 0) THEN Failed
  ELSE IF e.pred = 1 THEN Good(Pack(e, s))
  ELSE Good(Pack(e, FlattenSeq([i \in DOMAIN Rows(s, e.cols) |->
         LET row == Rows(s, e.cols)[i]
         IN  <<1>> \o [j \in DOMAIN row |-> IF j = 1 THEN row[1] ELSE (row[j] - row[j - 1]) % Base]])))

LzwEncode(e, s) == IF e.pred # 1 \/ e.early = 1 THEN Failed ELSE Good(Pack(e, s))

(***************************************************************************)
(* Run lengths: a length below Half copies, above Half repeats, Half ends. *)
(***************************************************************************)
Half == Base \div 2
RunByte(n) == (Base + 1 - n) % Base

RunLengthEncode(s) ==
  LET flush(lit) == IF lit = << >> THEN << >> ELSE <<Len(lit) - 1>> \o lit
      step(acc, b) ==
        IF b = acc.b0
        THEN LET wasLit == acc.lit # << >>
                 run == (IF wasLit THEN 1 ELSE acc.run) + 1
                 out == acc.out \o (IF wasLit THEN flush(Front(acc.lit)) ELSE << >>)
             IN  IF run >= Half - 1
                 THEN [b0 |-> b, out |-> out \o <<RunByte(run), b>>, lit |-> << >>, run |-> 0]
                 ELSE [b0 |-> b, out |-> out, lit |-> << >>, run |-> run]
        ELSE LET out == acc.out \o (IF acc.run > 1 THEN <<RunByte(acc.run), acc.b0>> ELSE << >>)
                 lit == (IF acc.run = 1 THEN <<acc.b0>> ELSE acc.lit) \o <<b>>
                 full == Len(lit) >= Half - 1
             IN  [b0 |-> b, run |-> 0, out |-> IF full THEN out \o flush(lit) ELSE out,
                  lit |-> IF full THEN << >> ELSE lit]
      end == FoldLeft(step, [b0 |-> s[1], out |-> << >>, lit |-> << >>, run |-> 1], Tail(s))
  IN  IF s = << >> THEN << >>
      ELSE end.out \o (IF end.lit # << >> THEN flush(end.lit)
                       ELSE IF end.run > 0 THEN <<RunByte(end.run), end.b0>> ELSE << >>) \o <<Half>>

RunLengthDecode(s) ==
  LET \* where the run that begins at i ends, and what it yields
      from[i \in 1 .. Len(s) + 1] ==
        IF i > Len(s) THEN Failed
        ELSE IF s[i] = Half THEN Good(<< >>)
        ELSE LET next == IF s[i] > Half THEN i + 2 ELSE i + s[i] + 2
                 run == IF s[i] > Half THEN [k \in 1 .. Base + 1 - s[i] |-> s[i + 1]]
                        ELSE SubSeq(s, i + 1, next - 1)
             IN  IF next > Len(s) + 1 THEN Failed
                 ELSE [from[next] EXCEPT !.bytes = IF from[next].ok THEN run \o @ ELSE @]
  IN  from[1]

(***************************************************************************)
(* ASCII: digits are numbers from 100 on.                                  *)
(***************************************************************************)
Chr(n) == 100 + n
Zed == 190
Tilde == 191
Greater == 192
Space == 193
Number(digits, radix) == FoldLeft(LAMBDA v, d : v * radix + d, 0, digits)
Places(v, radix, n) == [i \in 1 .. n |-> (v \div radix ^ (n - i)) % radix]

ASCIIHexEncode(s) ==
  FlattenSeq([i \in DOMAIN s |-> <<Chr(s[i] \div Nibble), Chr(s[i] % Nibble), Space>>]) \o <<Greater>>
ASCIIHexDecode(s) ==
  LET ends == {i \in DOMAIN s : s[i] = Greater}
      end == CHOOSE i \in ends : \A j \in ends : i <= j
      digits == SelectSeq(SubSeq(s, 1, end - 1), LAMBDA c : c # Space)
      even == IF Len(digits) % 2 = 1 THEN Append(digits, Chr(0)) ELSE digits
  IN  IF ends = {} \/ \E i \in DOMAIN digits : digits[i] \notin Chr(0) .. Chr(Nibble - 1) THEN Failed
      ELSE Good([i \in 1 .. Len(even) \div 2 |-> Number(<<even[2 * i - 1] - 100, even[2 * i] - 100>>, Nibble)])

\* Mutant of ASCII85Encode.
ASCII85EncodeShort(s) ==
  FlattenSeq([i \in 1 .. (Len(s) + 3) \div 4 |->
    LET group == SubSeq(s, 4 * i - 3, IF 4 * i < Len(s) THEN 4 * i ELSE Len(s))
        value == Number(group \o [k \in 1 .. 4 - Len(group) |-> 0], Base)
        digits == Places(value, Digit, 5)
    IN  IF value = 0 THEN <<Zed>> ELSE [k \in 1 .. Len(group) |-> Chr(digits[k])]]) \o <<Tilde, Greater>>

\* A group of zeros is a 'z', the last group too, when it is shorter than four.
ASCII85Encode(s) ==
  FlattenSeq([i \in 1 .. (Len(s) + 3) \div 4 |->
    LET group == SubSeq(s, 4 * i - 3, IF 4 * i < Len(s) THEN 4 * i ELSE Len(s))
        value == Number(group \o [k \in 1 .. 4 - Len(group) |-> 0], Base)
        digits == Places(value, Digit, 5)
    IN  IF value = 0 THEN <<Zed>> ELSE [k \in 1 .. Len(group) + 1 |-> Chr(digits[k])]]) \o <<Tilde, Greater>>

\* White space is skipped; what is left is groups of five, each 'z' one of its
\* own, up to the end mark.  Without the mark whatever is behind the last full
\* group, be it only white space, counts as a full one.
ASCII85Decode(s) ==
  LET step(acc, i) ==
        IF acc.bad \/ acc.end THEN acc
        ELSE IF s[i] = Space THEN [acc EXCEPT !.begun = TRUE]
        ELSE IF s[i] = Tilde /\ i < Len(s) /\ s[i + 1] = Greater THEN [acc EXCEPT !.end = TRUE]
        ELSE IF s[i] = Zed /\ acc.codes = << >> THEN [acc EXCEPT !.out = @ \o <<0, 0, 0, 0>>, !.begun = FALSE]
        ELSE IF s[i] \notin Chr(0) .. Chr(Digit - 1) THEN [acc EXCEPT !.bad = TRUE]
        ELSE IF Len(acc.codes) < 4 THEN [acc EXCEPT !.codes = Append(@, s[i] - 100), !.begun = TRUE]
        ELSE [acc EXCEPT !.codes = << >>, !.begun = FALSE,
                         !.out = @ \o Places(Number(Append(acc.codes, s[i] - 100), Digit) % Base ^ 4, Base, 4)]
      acc == FoldLeft(step, [out |-> << >>, codes |-> << >>, begun |-> FALSE, end |-> FALSE, bad |-> FALSE],
                      [i \in DOMAIN s |-> i])
      n == Len(acc.codes)
      pad == acc.codes \o [k \in 1 .. 5 - n |-> IF acc.end THEN Digit - 1 ELSE 0]
      last == SubSeq(Places(Number(pad, Digit) % Base ^ 4, Base, 4), 1, IF acc.end THEN n - 1 ELSE 4)
  IN  IF acc.bad THEN Failed ELSE Good(IF acc.begun THEN acc.out \o last ELSE acc.out)

(***************************************************************************)
(* EncodeBytes, DecodeBytes and DecodeStream of every encoder.  Only       *)
(* DecodeStream undoes predictors, and MultiEncoder calls DecodeBytes.     *)
(***************************************************************************)
EncodeOne(e, s) ==
  CASE e.name = "Flate" -> FlateEncode(e, s)
    [] e.name = "LZW" -> LzwEncode(e, s)
    [] e.name = "RunLength" -> Good(RunLengthEncode(s))
    [] e.name = "ASCIIHex" -> Good(ASCIIHexEncode(s))
    [] e.name = "ASCII85" -> Good(ASCII85Encode(s))
    [] e.name = "Raw" -> Good(s)
    [] OTHER -> Failed
DecodeOne(e, s) ==
  CASE e.name \in {"Flate", "LZW"} -> Unpack(e, s)
    [] e.name = "RunLength" -> RunLengthDecode(s)
    [] e.name = "ASCIIHex" -> ASCIIHexDecode(s)
    [] e.name = "ASCII85" -> ASCII85Decode(s)
    [] e.name = "Raw" -> Good(s)
    [] OTHER -> Failed

EncodeBytes(e, s) ==
  IF e.name # "Multi" THEN EncodeOne(e, s)
  ELSE FoldLeft(LAMBDA r, one : IF r.ok THEN EncodeOne(one, r.bytes) ELSE r, Good(s), Reverse(e.of))
MultiDecode(e, s) == FoldLeft(LAMBDA r, one : IF r.ok THEN DecodeOne(one, r.bytes) ELSE r, Good(s), e.of)
DecodeBytes(e, s) == IF e.name = "Multi" THEN MultiDecode(e, s) ELSE DecodeOne(e, s)

DecodeStreamBy(e, s) ==
  LET r == DecodeBytes(e, s)
  IN  IF ~r.ok \/ (e.name = "Flate" /\ e.bpc # 8) THEN Failed
      ELSE CASE e.name = "Flate" -> postDecodePredict(e, r.bytes)
             [] e.name = "LZW" -> LzwPredict(e, r.bytes)
             [] OTHER -> r

(***************************************************************************)
(* Dictionaries: Filter is a name or an array, DecodeParms a dictionary or *)
(* an array of them; a null is an empty one.                               *)
(***************************************************************************)
Name(n) == [kind |-> "name", of |-> <<n>>]
Array(s) == [kind |-> "array", of |-> s]
Dict(d) == [kind |-> "dict", of |-> <<d>>]

\* Mutant of MakeDecodeParams.
MakeDecodeParamsOneColor(e) ==
  IF e.name \notin {"Flate", "LZW"} \/ e.pred <= 1 THEN Empty
  ELSE ("Predictor" :> e.pred) @@ Opt(e.bpc # 8, "BitsPerComponent", e.bpc) @@ Opt(e.cols # 1, "Columns", e.cols)

\* MakeDecodeParams of Flate and of LZW
MakeDecodeParams(e) ==
  IF e.name \notin {"Flate", "LZW"} \/ e.pred <= 1 THEN Empty
  ELSE ("Predictor" :> e.pred) @@ Opt(e.bpc # 8, "BitsPerComponent", e.bpc)
         @@ Opt(e.cols # 1, "Columns", e.cols) @@ Opt(e.colors # 1, "Colors", e.colors)

DictOfOne(e) ==
  Opt(e.name # "Raw", "Filter", Name(e.name))
    @@ Opt(MakeDecodeParams(e) # Empty, "DecodeParms", Dict(MakeDecodeParams(e)))
    @@ Opt(e.name = "LZW", "EarlyChange", Field(e, "early", 1))

\* MultiEncoder: the name is all names with spaces between them, "joined" here.
DictOfMulti(e) ==
  LET parms == [i \in DOMAIN e.of |-> MakeDecodeParams(e.of[i])]
      rest == FoldLeft(LAMBDA d, one : Opt(one.name = "LZW", "EarlyChange", Field(one, "early", 1)) @@ d,
                       Empty, e.of)
  IN  ("Filter" :> Name(IF Len(e.of) = 1 THEN e.of[1].name ELSE "joined")) @@ rest
        @@ Opt(Len(e.of) = 1 /\ parms[1] # Empty, "DecodeParms", Dict(parms[1]))
        @@ Opt(Len(e.of) > 1, "DecodeParms", Array(parms))
MakeStreamDict(e) == IF e.name = "Multi" THEN DictOfMulti(e) ELSE DictOfOne(e)

None == [name |-> "None"]   \* the error of a failed constructor
WithParms(e, d) ==
  LET pred == Field(d, "Predictor", 1)
  IN  [e EXCEPT !.pred = pred, !.bpc = Field(d, "BitsPerComponent", 8),
                !.cols = IF pred > 1 THEN Field(d, "Columns", 1) ELSE 1,
                !.colors = IF pred > 1 THEN Field(d, "Colors", 1) ELSE 1]

\* decodeParams is Empty when none were handed over.  An array of one is looked
\* into and forgotten.
newFlateEncoderFromStream(dict, decodeParams) ==
  LET own == Field(dict, "DecodeParms", Dict(Empty))
  IN  IF decodeParams # Empty THEN WithParms(Flate(1, 1, 1), decodeParams)
      ELSE IF own.kind = "array" THEN IF Len(own.of) = 1 THEN Flate(1, 1, 1) ELSE None
      ELSE WithParms(Flate(1, 1, 1), own.of[1])

newLZWEncoderFromStream(dict, decodeParams) ==
  LET own == Field(dict, "DecodeParms", Dict(Empty))
      e == Lzw(1, 1, 1, Field(dict, "EarlyChange", 1))
  IN  IF decodeParams # Empty THEN WithParms(e, decodeParams)
      ELSE IF own.kind = "array" THEN IF Len(own.of) = 1 THEN WithParms(e, own.of[1]) ELSE None
      ELSE WithParms(e, own.of[1])

\* Parameters are handed over as they are, also empty ones: then no other is
\* looked for.
newMultiEncoderFromStream(dict) ==
  LET own == Field(dict, "DecodeParms", Dict(Empty))
      names == dict.Filter.of
      given == own.kind = "array" /\ own.of # << >>
      parms(i) == IF given THEN own.of[i] ELSE IF own.kind = "dict" THEN own.of[1] ELSE Empty
      one(i) ==
        CASE names[i] = "Flate" ->
               IF given THEN WithParms(Flate(1, 1, 1), parms(i)) ELSE newFlateEncoderFromStream(dict, parms(i))
          [] names[i] = "LZW" ->
               IF given THEN WithParms(Lzw(1, 1, 1, Field(dict, "EarlyChange", 1)), parms(i))
               ELSE newLZWEncoderFromStream(dict, parms(i))
          [] names[i] \in {"ASCIIHex", "ASCII85"} -> Plain(names[i])
          [] OTHER -> None
      list == [i \in DOMAIN names |-> one(i)]
  IN  IF (own.kind = "array" /\ Len(own.of) \in 1 .. Len(names) - 1) \/ None \in ToSet(list) THEN None
      ELSE Multi(list)

Methods == {"Flate", "LZW", "RunLength", "ASCIIHex", "ASCII85"}
EncoderFor(method, dict) ==
  CASE method = "Flate" -> newFlateEncoderFromStream(dict, Empty)
    [] method = "LZW" -> newLZWEncoderFromStream(dict, Empty)
    [] method \in Methods \ {"Flate", "LZW"} -> Plain(method)
    [] OTHER -> None
NewEncoderFromStream(dict) ==
  LET filter == Field(dict, "Filter", Array(<< >>))
  IN  IF filter.kind = "name" THEN EncoderFor(filter.of[1], dict)
      ELSE CASE Len(filter.of) = 0 -> Plain("Raw")
             [] Len(filter.of) = 1 -> EncoderFor(filter.of[1], dict)
             [] OTHER -> newMultiEncoderFromStream(dict)

(***************************************************************************)
(* Inline images: the same filters, with parameters looked for elsewhere,  *)
(* and decoded with DecodeBytes (contentstream/encoding.go).               *)
(***************************************************************************)
newFlateEncoderFromInlineImage(dict) ==
  LET own == Field(dict, "DecodeParms", Dict(Empty))
  IN  IF own.kind = "array" THEN None ELSE WithParms(Flate(1, 1, 1), own.of[1])
newLZWEncoderFromInlineImage(dict) ==
  LET own == Field(dict, "DecodeParms", Dict(Empty))
  IN  IF own.kind = "array" THEN None
      ELSE WithParms(Lzw(1, 1, 1, Field(own.of[1], "EarlyChange", 1)), own.of[1])
\* With an array of parameters, one without parameters looks at the whole
\* array, and refuses it.
newMultiEncoderFromInlineImage(dict) ==
  LET own == Field(dict, "DecodeParms", Dict(Empty))
      names == dict.Filter.of
      mine(i) == [k \in {"DecodeParms"} |->
                    IF own.kind = "dict" \/ own.of = << >> \/ own.of[i] = Empty THEN own ELSE Dict(own.of[i])]
      one(i) == CASE names[i] = "Flate" -> newFlateEncoderFromInlineImage(mine(i))
                  [] names[i] = "LZW" -> newLZWEncoderFromInlineImage(mine(i))
                  [] names[i] \in {"ASCIIHex", "ASCII85"} -> Plain(names[i])
                  [] OTHER -> None
      short == own.kind = "array" /\ Len(own.of) \in 1 .. Len(names) - 1
      list == IF short THEN <<None>> ELSE [i \in DOMAIN names |-> one(i)]
  IN  IF None \in ToSet(list) THEN None ELSE Multi(list)

\* Mutant of InlineFor.
InlineForLess(method, dict) ==
  CASE method = "Flate" -> newFlateEncoderFromInlineImage(dict)
    [] method = "LZW" -> newLZWEncoderFromInlineImage(dict)
    [] method \in {"ASCIIHex", "ASCII85"} -> Plain(method)
    [] OTHER -> None

InlineFor(method, dict) ==
  CASE method = "Flate" -> newFlateEncoderFromInlineImage(dict)
    [] method = "LZW" -> newLZWEncoderFromInlineImage(dict)
    [] method \in Methods \ {"Flate", "LZW"} -> Plain(method)
    [] OTHER -> None
newEncoderFromInlineImage(dict) ==
  LET filter == Field(dict, "Filter", Array(<< >>))
  IN  IF filter.kind = "name" THEN InlineFor(filter.of[1], dict)
      ELSE CASE Len(filter.of) = 0 -> Plain("Raw")
             [] Len(filter.of) = 1 -> InlineFor(filter.of[1], dict)
             [] OTHER -> newMultiEncoderFromInlineImage(dict)

(***************************************************************************)
(* A stream is made by an encoder, or from a dictionary, or elsewhere; it  *)
(* is then decoded.                                                        *)
(***************************************************************************)
FltIdle == flt = [step |-> "idle"]

MakeStream(e, data) ==
  LET r == EncodeBytes(e, data)
  IN  flt' = IF ~r.ok THEN [step |-> "refused"]
             ELSE [step |-> "stream", how |-> "made", by |-> e, data |-> data,
                   dict |-> MakeStreamDict(e), bytes |-> r.bytes]

EncodeStream(dict, data) ==
  LET e == NewEncoderFromStream(dict)
      used == IF e.name = "LZW" THEN [e EXCEPT !.early = 0] ELSE e
      r == IF e = None THEN Failed ELSE EncodeBytes(used, data)
  IN  flt' = IF ~r.ok THEN [step |-> "refused"]
             ELSE [step |-> "stream", how |-> "encoded", by |-> used, data |-> data,
                   dict |-> Opt(e.name = "LZW", "EarlyChange", 0) @@ dict, bytes |-> r.bytes]

\* A last group of less than four bytes, all zero.
ZeroTail(s) == LET n == Len(s) % 4 IN n > 0 /\ \A i \in Len(s) - n + 1 .. Len(s) : s[i] = 0

\* External: a row as the standard has it, and all rows with one PNG filter.
PngRow(row, prev, filter, bpp) ==
  [j \in 1 .. Len(row) + 1 |->
    IF j = 1 THEN filter
    ELSE LET a == IF j - 1 > bpp THEN row[j - 1 - bpp] ELSE 0
             c == IF j - 1 > bpp THEN prev[j - 1 - bpp] ELSE 0
             b == prev[j - 1]
         IN  (row[j - 1] - CASE filter = 0 -> 0 [] filter = 1 -> a [] filter = 2 -> b
                             [] filter = 3 -> (a + b) \div 2 [] filter = 4 -> paeth(a, b, c)) % Base]
Predicted(e, s, filter) ==
  LET n == e.cols * e.colors
      rows == Rows(s, n)
      prev(i) == IF i = 1 THEN [j \in 1 .. n |-> 0] ELSE rows[i - 1]
  IN  CASE e.pred = 1 -> s
        [] e.pred = 2 -> FlattenSeq([i \in DOMAIN rows |-> Tail(PngRow(rows[i], prev(i), 1, e.colors))])
        [] OTHER -> FlattenSeq([i \in DOMAIN rows |-> PngRow(rows[i], prev(i), filter, e.colors)])
\* External: what a dictionary means, the encoders in their order.
Meant(dict) ==
  LET filter == dict.Filter
      names == filter.of
      own == Field(dict, "DecodeParms", Dict(Empty))
      parms(i) == IF own.kind = "dict" THEN own.of[1] ELSE IF i \in DOMAIN own.of THEN own.of[i] ELSE Empty
      settings(e, i) == IF e.name \in {"Flate", "LZW"} THEN WithParms(e, parms(i)) ELSE e
  IN  [i \in DOMAIN names |->
        settings(CASE names[i] = "Flate" -> Flate(1, 1, 1)
                   [] names[i] = "LZW" -> Lzw(1, 1, 1, Field(dict, "EarlyChange", 1))
                   [] OTHER -> Plain(names[i]), i)]
\* External: how another program leaves its data; the first is as encoded, the
\* last a stream that was cut off.
Layouts == {"plain", "spaced", "split mark", "no mark", "blank for mark", "cut"}
LaidOut(layout, s) ==
  LET unmarked == SubSeq(s, 1, Len(s) - 2)
  IN  CASE layout = "plain" -> s
        [] layout = "spaced" -> FlattenSeq([i \in DOMAIN unmarked |-> <<unmarked[i], Space>>]) \o <<Tilde, Greater>>
        [] layout = "split mark" -> unmarked \o <<Tilde, Space, Greater>>
        [] layout = "no mark" -> unmarked
        [] layout = "blank for mark" -> Append(unmarked, Space)
        [] layout = "cut" -> Front(s)
LayoutFits(layout, list) ==
  CASE layout = "plain" -> TRUE
    [] layout = "cut" -> Len(list) = 1 /\ list[1].name \in {"Flate", "LZW"}
    [] OTHER -> Len(list) = 1 /\ list[1].name = "ASCII85"
\* External: a stream of another program.
Foreign(dict, data, filter, layout) ==
  LET list == Meant(dict)
      encode(e, s) == IF e.name \in {"Flate", "LZW"} THEN Pack(e, Predicted(e, s, filter)) ELSE EncodeOne(e, s).bytes
      fits == \A i \in DOMAIN list : list[i].name \in {"Flate", "LZW"} =>
                list[i].pred = 1 \/ (Len(data) > 0 /\ Len(data) % (list[i].cols * list[i].colors) = 0)
  IN  /\ list # << >> /\ fits /\ LayoutFits(layout, list) /\ ~(list[1].name = "ASCII85" /\ ZeroTail(data))
      /\ flt' = [step |-> "stream", how |-> "foreign", by |-> Multi(list), data |-> data, dict |-> dict, layout |-> layout,
                 bytes |-> LaidOut(layout, FoldLeft(LAMBDA s, e : encode(e, s), data, Reverse(list)))]

DecodeStream ==
  /\ flt.step = "stream"
  /\ flt' = [step |-> "read",
             out |-> LET e == NewEncoderFromStream(flt.dict)
                     IN  IF e = None THEN Failed ELSE DecodeStreamBy(e, flt.bytes),
             inline |-> LET e == newEncoderFromInlineImage(flt.dict)
                        IN  IF e = None THEN Failed ELSE DecodeBytes(e, flt.bytes)] @@ flt

FltStart ==
  \E data \in FilterData : \/ \E e \in Encoders : MakeStream(e, data)
                           \/ \E dict \in Headings : EncodeStream(dict, data)
                           \/ \E dict \in Headings, f \in 0 .. 4, layout \in Layouts : Foreign(dict, data, f, layout)
FltNext == (FltIdle /\ FltStart) \/ DecodeStream

Single(e) == IF e.name = "Multi" /\ Len(e.of) = 1 THEN e.of[1] ELSE e
Predicts(e) == e.name \in {"Flate", "LZW"} /\ e.pred > 1
Uses(e, P(_)) == IF e.name = "Multi" THEN \E i \in DOMAIN e.of : P(e.of[i]) ELSE P(e)

\* What comes back is not what went in: a last group of zeros in ASCII85 comes
\* back as four, nothing at all is no run-length data and has no row to predict, rows
\* of several colours are predicted as if they had one, and several filters undo
\* no predictor.
Lossy(e, data) ==
  CASE e.name = "ASCII85" -> ZeroTail(data)
    [] e.name = "RunLength" -> data = << >>
    [] e.name = "Flate" -> e.pred = 11 /\ (e.colors # 1 \/ data = << >>)
    [] e.name = "Multi" -> Uses(e, Predicts)
    [] OTHER -> FALSE

\* A stream that MakeStream or EncodeStream made decodes to what was put in,
\* but for the cases above, and for a client's encoder of several filters, the
\* name of which in the dictionary is no filter's (core.DecodeStream).
StreamReadBack ==
  flt.step = "read" /\ flt.how \in {"made", "encoded"} =>
    \/ flt.out = Good(flt.data) \/ Lossy(Single(flt.by), flt.data)
    \/ flt.how = "made" /\ Single(flt.by).name = "Multi" /\ flt.out = Failed

\* A stream of another program is decoded right or refused, whichever of its
\* filters predict and how (postDecodePredict), but for: several filters one of
\* which predicts, Flate with its parameters in an array of one, and Sub under
\* LZW with several colours.  What is left of a Flate stream that was cut off is
\* returned without an error; ASCII85 without its end mark is right if the last
\* group is full, and white space behind it is four bytes more.
ForeignRead ==
  flt.step = "read" /\ flt.how = "foreign" =>
    LET e == Single(flt.by)
    IN  \/ flt.out \in {Failed, Good(flt.data)}
        \/ flt.layout = "cut" /\ flt.data # << >> /\ flt.out = Good(Front(flt.data))
        \/ flt.layout \in {"no mark", "blank for mark"} /\ Len(flt.data) % 4 # 0
        \/ flt.layout = "blank for mark" /\ flt.out = Good(flt.data \o <<0, 0, 0, 0>>)
        \/ e.name = "Multi" /\ Uses(e, Predicts)
        \/ e.name = "Flate" /\ e.pred > 1 /\ flt.dict.DecodeParms.kind = "array"
        \/ e.name = "LZW" /\ e.pred > 2 /\ e.colors > 1

\* The encoder made from the dictionary an encoder describes itself with has
\* the settings of that encoder, as far as they matter (MakeStreamDict,
\* newFlateEncoderFromStream, newLZWEncoderFromStream).
SettingsKept ==
  flt.step = "stream" /\ flt.how = "made" =>
    LET e == Single(flt.by)
        r == NewEncoderFromStream(flt.dict)
    IN  \/ r = e \/ e.name = "Multi"
        \/ e.name \in {"Flate", "LZW"} /\ e.pred = 1 /\ [e EXCEPT !.cols = 1, !.colors = 1] = r

\* As an inline image these bytes are what they are as a stream, but when there
\* is a predictor, parameters in an array, or LZW whose EarlyChange stands where
\* a stream has it (newEncoderFromInlineImage, ToImage).
InlineAgrees ==
  flt.step = "read" =>
    \/ flt.inline = flt.out
    \/ Uses(flt.by, Predicts) \/ "EarlyChange" \in DOMAIN flt.dict
    \/ Field(flt.dict, "DecodeParms", Dict(Empty)).kind = "array"

\* Streams keep their bytes, whoever wrote them and wherever they are.
StreamsSound == StreamReadBack /\ ForeignRead /\ SettingsKept /\ InlineAgrees
=============================================================================

------------------------------ MODULE CcittFax ------------------------------
(***************************************************************************)
(* CCITT fax encoding (pdf/internal/ccittfax, and CCITTFaxEncoder of       *)
(* pdf/core/encoding.go): Group 3 in one dimension (K = 0), Group 3 mixed  *)
(* (K > 0) and Group 4 (K < 0).  An image is a sequence of rows of pixels, *)
(* what is written a sequence of bits.  The codes are the tables' own, of  *)
(* which an instance takes a few: Terms stands for 64, the first length    *)
(* with a make-up code, OwnMakeups for 27 and Makeups for 40.              *)
(***************************************************************************)
EXTENDS Integers, Sequences, FiniteSets
LOCAL INSTANCE SequencesExt
LOCAL INSTANCE TLC

CONSTANTS
  Terms, OwnMakeups, Makeups,
  White, Black,  \* codes of run lengths: below Terms, and of make-ups
  FaxImages,     \* sequences of rows, all of the same length
  FaxSettings    \* encoders: [K, EndOfLine, EncodedByteAlign, Columns, Rows, EndOfBlock, BlackIs1, Damaged]

EOL == <<0, 0, 0, 0, 0, 0, 0, 0, 0, 0, 0, 1>>
EOL0 == Append(EOL, 0)
EOL1 == Append(EOL, 1)
Modes == [P |-> <<0, 0, 0, 1>>, H |-> <<0, 0, 1>>, V0 |-> <<1>>,
          R1 |-> <<0, 1, 1>>, R2 |-> <<0, 0, 0, 0, 1, 1>>, R3 |-> <<0, 0, 0, 0, 0, 1, 1>>,
          L1 |-> <<0, 1, 0>>, L2 |-> <<0, 0, 0, 0, 1, 0>>, L3 |-> <<0, 0, 0, 0, 0, 1, 0>>]
Shift == [V0 |-> 0, R1 |-> 1, R2 |-> 2, R3 |-> 3, L1 |-> -1, L2 |-> -2, L3 |-> -3]

PrefixFree(codes) == \A a, b \in DOMAIN codes : a # b => ~IsPrefix(codes[a], codes[b])
\* What the trees of decode.go rest on.
ASSUME FaxAssumptions ==
  /\ Terms \in Nat \ {0} /\ OwnMakeups < Makeups
  /\ PrefixFree(White) /\ PrefixFree(Black) /\ PrefixFree(Modes)

VARIABLE fax  \* [step, enc, image, bits, dict, out]

Codes(isWhite) == IF isWhite THEN White ELSE Black
WhitePixel(e) == IF e.BlackIs1 THEN 0 ELSE 1
Pixel(e, isWhite) == IF isWhite THEN WhitePixel(e) ELSE 1 - WhitePixel(e)
Aligned(s) == s \o [i \in 1 .. (8 - (Len(s) % 8)) % 8 |-> 0]
RowEnd(e, s) == IF e.EncodedByteAlign THEN Aligned(s) ELSE s
\* Positions in a row count from 0, and -1 is before it.
At(row, i) == row[i + 1]

\* getRunCode, until a code ends the run.
RunBits(len, isWhite) ==
  LET bits[n \in 0 .. len] ==
        LET m == n \div Terms
            take == IF m > Makeups THEN Makeups * Terms ELSE m * Terms
        IN  IF n < Terms THEN Codes(isWhite)[n] ELSE Codes(isWhite)[take] \o bits[n - take]
  IN  bits[len]

seekChangingElem(e, row, i) ==
  LET color == IF i > -1 THEN At(row, i) ELSE WhitePixel(e)
      changed == {j \in i + 1 .. Len(row) - 1 : At(row, j) # color}
  IN  IF i >= Len(row) THEN i
      ELSE IF changed = {} THEN Len(row) ELSE CHOOSE j \in changed : \A k \in changed : j <= k

seekB1(e, coding, ref, a0) ==
  LET c == seekChangingElem(e, ref, a0)
  IN  IF c < Len(ref) /\ (\/ a0 = -1 /\ At(ref, c) = WhitePixel(e)
                          \/ a0 >= 0 /\ a0 < Len(coding) /\ At(coding, a0) = At(ref, c))
      THEN seekChangingElem(e, ref, c) ELSE c

encodeRow1D(e, row, prefix) ==
  LET from[pos \in 0 .. Len(row), isWhite \in BOOLEAN] ==
        IF pos >= Len(row) THEN << >>
        ELSE LET other == {j \in pos .. Len(row) - 1 : At(row, j) # Pixel(e, isWhite)}
                 end == IF other = {} THEN Len(row) ELSE CHOOSE j \in other : \A k \in other : j <= k
             IN  RunBits(end - pos, isWhite) \o from[end, ~isWhite]
  IN  prefix \o from[0, TRUE]

\* Mutant of Row2D.
Row2DPassFirst(e, row, ref) ==
  LET from[a0 \in -1 .. Len(row)] ==
        LET a1 == seekChangingElem(e, row, a0)
            b1 == seekB1(e, row, ref, a0)
            b2 == seekChangingElem(e, ref, b1)
            a2 == seekChangingElem(e, row, a1)
            isWhite == a0 = -1 \/ At(row, a0) = WhitePixel(e)
            vertical == CHOOSE v \in DOMAIN Shift : Shift[v] = a1 - b1
        IN  IF a0 >= Len(row) THEN << >>
            ELSE IF b2 <= a1 THEN Modes.P \o from[b2]
            ELSE IF a1 - b1 \notin -3 .. 3
            THEN Modes.H \o RunBits(a1 - a0 - (IF a0 = -1 THEN 1 ELSE 0), isWhite)
                   \o RunBits(a2 - a1, ~isWhite) \o from[a2]
            ELSE Modes[vertical] \o from[a1]
  IN  from[-1]

Row2D(e, row, ref) ==
  LET from[a0 \in -1 .. Len(row)] ==
        LET a1 == seekChangingElem(e, row, a0)
            b1 == seekB1(e, row, ref, a0)
            b2 == seekChangingElem(e, ref, b1)
            a2 == seekChangingElem(e, row, a1)
            isWhite == a0 = -1 \/ At(row, a0) = WhitePixel(e)
            vertical == CHOOSE v \in DOMAIN Shift : Shift[v] = a1 - b1
        IN  IF a0 >= Len(row) THEN << >>
            ELSE IF b2 < a1 THEN Modes.P \o from[b2]
            ELSE IF a1 - b1 \notin -3 .. 3
            THEN Modes.H \o RunBits(a1 - a0 - (IF a0 = -1 THEN 1 ELSE 0), isWhite)
                   \o RunBits(a2 - a1, ~isWhite) \o from[a2]
            ELSE Modes[vertical] \o from[a1]
  IN  from[-1]

\* The rows that are written.  Group 3 in two dimensions leaves a group of K at
\* Rows, and goes on with the next one.
Limited(e) == e.Rows > 0 /\ ~e.EndOfBlock
Written(e, image) ==
  LET all == [i \in DOMAIN image |-> i]
      skipped(i) == Limited(e) /\ i > e.Rows
                    /\ (e.K <= 0 \/ e.Rows % e.K = 0 \/ (i - 1) \div e.K = e.Rows \div e.K)
  IN  SelectSeq(all, LAMBDA i : ~skipped(i))
WhiteRow(e, n) == [i \in 1 .. n |-> WhitePixel(e)]
Times(n, s) == FlattenSeq([i \in 1 .. n |-> s])
AllRows(e, image, row(_)) == FoldLeft(LAMBDA acc, i : RowEnd(e, acc \o row(i)), << >>, Written(e, image))

encodeG31D(e, image) ==
  AllRows(e, image, LAMBDA i : encodeRow1D(e, image[i], EOL)) \o (IF e.EndOfBlock THEN Times(6, EOL) ELSE << >>)
\* The first of every K rows in one dimension.  Rows is looked at before each.
encodeG32D(e, image) ==
  AllRows(e, image, LAMBDA i : IF i % e.K = 1 \/ e.K = 1 THEN encodeRow1D(e, image[i], EOL1)
                               ELSE EOL0 \o Row2D(e, image[i], image[i - 1]))
    \o (IF e.EndOfBlock THEN Times(6, EOL1) ELSE << >>)
encodeG4(e, image) ==
  AllRows(e, image, LAMBDA i : Row2D(e, image[i], IF i = 1 THEN WhiteRow(e, Len(image[1])) ELSE image[i - 1]))
    \o (IF e.EndOfBlock THEN Times(2, EOL) ELSE << >>)

Unpadded(e, image) ==
  CASE e.K = 0 -> encodeG31D(e, image) [] e.K > 0 -> encodeG32D(e, image) [] OTHER -> encodeG4(e, image)
Encode(e, image) == Aligned(Unpadded(e, image))

(***************************************************************************)
(* Decoding.  A state of it: the bits left, the rows so far, how many of   *)
(* the last ones took no bits, and whether it is over: done, with an       *)
(* error, or never.                                                        *)
(***************************************************************************)
Starts(bits, code) == IsPrefix(code, bits)
After(bits, n) == SubSeq(bits, n + 1, Len(bits))
NoCode == "none"
\* findRunLen: the code that the bits begin with; there is one at most.
Match(bits, codes) ==
  LET found == {c \in DOMAIN codes : Starts(bits, codes[c])}
  IN  IF found = {} THEN NoCode ELSE CHOOSE c \in found : TRUE

\* Runs of one colour up to one below Terms: [ok, bits, n].
NextRun(bits, isWhite) ==
  LET from[n \in 0 .. Len(bits)] ==
        LET rest == After(bits, n)
            codes == Codes(isWhite)
            found == {c \in DOMAIN codes : Starts(rest, codes[c])}
            run == CHOOSE c \in found : TRUE
            next == n + Len(codes[run])
        IN  IF found = {} THEN [ok |-> FALSE, bits |-> bits, n |-> 0]
            ELSE IF run < Terms THEN [ok |-> TRUE, bits |-> After(bits, next), n |-> run]
            ELSE [from[next] EXCEPT !.n = @ + run]
  IN  from[0]

drawPixels(e, row, isWhite, n) == IF n < 0 THEN row ELSE row \o [i \in 1 .. n |-> Pixel(e, isWhite)]

\* A state steps until its end is no longer "no", at most n times.
Iterate(step(_), s, n) ==
  LET after[i \in 0 .. n] ==
        LET t == after[i - 1] IN IF i = 0 THEN s ELSE IF t.end = "no" THEN step(t) ELSE t
  IN  after[n]

\* decodeRow1D; a row ends when it is full, or for want of a code.
Row1D(e, bits) ==
  LET step(s) ==
        LET r == NextRun(s.bits, s.white)
            drawn == drawPixels(e, s.row, s.white, r.n)
        IN  IF ~r.ok THEN [s EXCEPT !.end = "nocode"]
            ELSE [bits |-> r.bits, row |-> drawn, white |-> ~s.white,
                  end |-> IF Len(drawn) >= e.Columns THEN "full" ELSE "no"]
  IN  Iterate(step, [bits |-> bits, row |-> << >>, white |-> TRUE, end |-> "no"], 2 * e.Columns + 2)

\* Mutant of seekB12D.
seekB12DInside(e, coding, ref, a0, isWhite) ==
  LET c == seekChangingElem(e, ref, a0)
  IN  IF c < Len(ref) /\ (\/ a0 = -1 /\ At(ref, c) = WhitePixel(e)
                          \/ a0 >= 0 /\ a0 < Len(coding) /\ At(coding, a0) = At(ref, c))
      THEN seekChangingElem(e, ref, c) ELSE c

seekB12D(e, coding, ref, a0, isWhite) ==
  LET c == seekChangingElem(e, ref, a0)
  IN  IF c < Len(ref) /\ (\/ a0 = -1 /\ At(ref, c) = WhitePixel(e)
                          \/ a0 >= 0 /\ a0 < Len(coding) /\ At(coding, a0) = At(ref, c)
                          \/ a0 >= Len(coding) /\ At(ref, c) = Pixel(e, isWhite))
      THEN seekChangingElem(e, ref, c) ELSE c

\* Two runs: the first of them has been read.
Across(e, s, first) ==
  LET second == NextRun(first.bits, ~s.white)
      row == drawPixels(e, drawPixels(e, s.row, s.white, first.n), ~s.white, second.n)
  IN  IF first.ok /\ second.ok THEN [s EXCEPT !.bits = second.bits, !.row = row, !.a0 = Len(row)]
      ELSE [s EXCEPT !.end = "error"]

\* One code of a row: its mode, and where a0, the colour and the bits are then.
Step2D(e, ref, s) ==
  LET mode == Match(s.bits, Modes)
      rest == After(s.bits, Len(Modes[mode]))
      b1 == seekB12D(e, s.row, ref, s.a0, s.white)
      to(a) == a - s.a0 - (IF s.a0 = -1 THEN 1 ELSE 0)
      b2 == seekChangingElem(e, ref, b1)
  IN  CASE mode = NoCode -> [s EXCEPT !.end = "nocode"]
        [] mode = "P" -> [s EXCEPT !.bits = rest, !.row = drawPixels(e, @, s.white, to(b2)), !.a0 = b2]
        [] mode = "H" -> Across(e, s, NextRun(rest, s.white))
        [] OTHER -> LET a1 == b1 + Shift[mode]
                    IN  [s EXCEPT !.bits = rest, !.row = drawPixels(e, @, s.white, to(a1)),
                                  !.a0 = a1, !.white = ~@]
Full(e, s) == IF s.end = "no" /\ Len(s.row) >= e.Columns THEN [s EXCEPT !.end = "full"] ELSE s
Undo2D(e, ref, bits) ==
  Iterate(LAMBDA s : Full(e, Step2D(e, ref, s)),
          [bits |-> bits, row |-> << >>, a0 |-> -1, white |-> TRUE, end |-> "no"], 2 * e.Columns + 2)

\* Behind a row: the bits are aligned again, by how many of them are gone.
Skipped(e, bits) == IF e.EncodedByteAlign THEN After(bits, Len(bits) % 8) ELSE bits
Enough(e, rows) == Limited(e) /\ Len(rows) >= e.Rows
Count(bits, code, n) ==
  LET has[k \in 0 .. n] == k = 0 \/ (has[k - 1] /\ Starts(After(bits, (k - 1) * Len(code)), code))
  IN  CHOOSE k \in 0 .. n : has[k] /\ (k = n \/ ~has[k + 1])

\* The loops go on while there are bits.  A group of rows that took none is
\* read again and again, and only in one dimension do its rows count.
Stuck(e, idle) == IF e.K = 0 THEN idle > 0 /\ ~Limited(e) ELSE idle >= e.K
\* A row r has been read.
RowTaken(e, s, r, rows) ==
  LET left == Skipped(e, r.bits)
      idle == IF Len(left) = Len(s.bits) THEN s.idle + 1 ELSE 0
  IN  [s EXCEPT !.bits = left, !.rows = rows, !.idle = idle,
                !.end = IF Enough(e, rows) THEN "done" ELSE IF e.K >= 0 /\ Stuck(e, idle) THEN "never" ELSE "no"]

\* One row of each group, or what ends the image: [bits, rows, nth, idle, end].
RowOr(e, s, done, wrong, r, rows) ==
  CASE Len(s.bits) = 0 \/ done -> [s EXCEPT !.end = "done"]
    [] Len(s.bits) > 0 /\ ~done /\ wrong -> [s EXCEPT !.end = "error"]
    [] OTHER -> RowTaken(e, s, r, rows)

G31DRow(e, s, eols, r) == RowOr(e, s, eols = 6, eols > 1 \/ (eols = 0 /\ e.EndOfLine), r, Append(s.rows, r.row))
G31D(e, s) ==
  LET eols == Count(s.bits, EOL, 6) IN G31DRow(e, s, eols, Row1D(e, After(s.bits, eols * Len(EOL))))

G32DRow(e, s, rtc, marked, r) ==
  RowOr(e, [s EXCEPT !.nth = (@ + 1) % e.K], rtc = 6, rtc > 1 \/ (~marked /\ e.EndOfLine) \/ r.end = "error", r,
        IF r.row = << >> THEN s.rows ELSE Append(s.rows, r.row))
G32D(e, s) ==
  LET first == s.nth = 0
      own == IF first THEN EOL1 ELSE EOL0
      marked == Starts(s.bits, own)
      body == IF marked THEN After(s.bits, Len(own)) ELSE s.bits
  IN  G32DRow(e, s, Count(s.bits, EOL1, 6), marked, IF first THEN Row1D(e, body) ELSE Undo2D(e, Last(s.rows), body))

G4Row(e, s, eofb, r) == RowOr(e, s, eofb = 2, eofb = 1 \/ r.end # "full", r, Append(s.rows, r.row))
G4(e, s) ==
  G4Row(e, s, Count(s.bits, EOL, 2), Undo2D(e, IF s.rows = << >> THEN WhiteRow(e, e.Columns) ELSE Last(s.rows), s.bits))

NextRow(e, s) == CASE e.K = 0 -> G31D(e, s) [] e.K > 0 -> G32D(e, s) [] OTHER -> G4(e, s)
RECURSIVE RowsFrom(_, _)
RowsFrom(e, s) == IF s.end # "no" THEN s ELSE RowsFrom(e, NextRow(e, s))
Decode(e, bits) == RowsFrom(e, [bits |-> bits, rows |-> << >>, nth |-> 0, idle |-> 0, end |-> "no"])

(***************************************************************************)
(* CCITTFaxEncoder: its dictionary, and bytes for pixels.                  *)
(***************************************************************************)
Set(cond, key, value) == IF cond THEN key :> value ELSE [k \in {} |-> value]
Got(d, key, default) == IF key \in DOMAIN d THEN d[key] ELSE default

\* Mutant of FaxDecodeParams.
FaxDecodeParamsEnded(e) ==
  [K |-> e.K, Columns |-> e.Columns]
    @@ Set(e.BlackIs1, "BlackIs1", TRUE) @@ Set(e.EncodedByteAlign, "EncodedByteAlign", TRUE)
    @@ Set(e.EndOfLine /\ e.K >= 0, "EndOfLine", TRUE) @@ Set(e.Rows # 0 /\ ~e.EndOfBlock, "Rows", e.Rows)

FaxDecodeParams(e) ==
  [K |-> e.K, Columns |-> e.Columns]
    @@ Set(e.BlackIs1, "BlackIs1", TRUE) @@ Set(e.EncodedByteAlign, "EncodedByteAlign", TRUE)
    @@ Set(e.EndOfLine /\ e.K >= 0, "EndOfLine", TRUE) @@ Set(e.Rows # 0 /\ ~e.EndOfBlock, "Rows", e.Rows)
    @@ Set(~e.EndOfBlock, "EndOfBlock", FALSE) @@ Set(e.Damaged # 0, "Damaged", e.Damaged)

\* DamagedRowsBeforeError is taken from the dictionary when it is not there.
newCCITTFaxEncoderFromStream(d) ==
  [K |-> Got(d, "K", 0), Columns |-> Got(d, "Columns", 1728), BlackIs1 |-> Got(d, "BlackIs1", FALSE),
   EncodedByteAlign |-> Got(d, "EncodedByteAlign", FALSE), EndOfLine |-> Got(d, "EndOfLine", FALSE),
   Rows |-> Got(d, "Rows", 0), EndOfBlock |-> Got(d, "EndOfBlock", TRUE), Damaged |-> 0]

\* EncodeBytes is given a byte for each pixel, 255 for 1; DecodeBytes returns
\* eight to a byte, and does not begin one with each row.
FaxRowsOf(e, data) == [i \in 1 .. Len(data) \div e.Columns |->
                        [j \in 1 .. e.Columns |-> IF data[(i - 1) * e.Columns + j] = 255 THEN 1 ELSE 0]]
FaxBytes(rows) == LET all == Aligned(FlattenSeq(rows))
                  IN  [i \in 1 .. Len(all) \div 8 |-> SubSeq(all, 8 * i - 7, 8 * i)]

FaxIdle == fax = [step |-> "idle"]
EncodeFax(e, image) ==
  /\ fax.step = "idle"
  /\ LET rows == FaxRowsOf(e, FlattenSeq(image))
     IN  fax' = [step |-> "written", enc |-> e, rows |-> rows, bits |-> Encode(e, rows), dict |-> FaxDecodeParams(e)]
ReadRows(r) == [step |-> "read", end |-> r.end, out |-> r.rows, bytes |-> FaxBytes(r.rows)]
DecodeFax ==
  /\ fax.step = "written"
  /\ fax' = ReadRows(Decode(newCCITTFaxEncoderFromStream(fax.dict), fax.bits)) @@ fax

FaxNext == (\E e \in FaxSettings, image \in FaxImages : Len(image[1]) = e.Columns /\ EncodeFax(e, image)) \/ DecodeFax

\* Nothing says where the image ends: bits that fill the last byte are read
\* as rows.
Unended(e) == ~e.EndOfBlock /\ (e.Rows = 0 \/ e.Rows > Len(fax.rows))
Padded(e) == Len(Unpadded(e, fax.rows)) % 8 # 0
Shown(e) == SubSeq(fax.rows, 1, IF Limited(e) /\ e.Rows < Len(fax.rows) THEN e.Rows ELSE Len(fax.rows))
\* In the filling there is no end of line and no code: an error, but where
\* neither is asked for the rows are empty, for ever or until there are enough.
FillingRead(e) ==
  CASE e.K < 0 \/ e.EndOfLine -> "error" [] e.K = 0 /\ e.Rows > 0 -> "done" [] OTHER -> "never"

\* What an encoder wrote, the encoder made from its dictionary decodes to the
\* rows that were to be written, whichever group, end of line, end of block,
\* alignment and colours are asked for (Encode, Decode).  Where neither an end
\* of block nor the number of rows says where they end and the last byte is
\* filled, an error is returned, or nothing ever (decodeG31D, decodeG32D).
FaxReadBack ==
  fax.step = "read" =>
    /\ fax.end = IF Unended(fax.enc) /\ Padded(fax.enc) THEN FillingRead(fax.enc) ELSE "done"
    /\ fax.end = "done" => SelectSeq(fax.out, LAMBDA row : row # << >>) = Shown(fax.enc)

\* Group 4 needs no end of line or make-up to fit in its bits: a row of the
\* line above is one bit long (encodeG4), so an image of equal white rows is as
\* long as its rows and its end of block.
FaxCompact ==
  fax.step # "idle" /\ fax.enc.K < 0 /\ ~fax.enc.EncodedByteAlign
    /\ (\A i \in DOMAIN fax.rows : fax.rows[i] = WhiteRow(fax.enc, fax.enc.Columns)) =>
       Len(fax.bits) = Len(Aligned([i \in 1 .. Len(Shown(fax.enc)) + (IF fax.enc.EndOfBlock THEN 24 ELSE 0) |-> 0]))

\* A dictionary describes the encoder that wrote it, but for
\* DamagedRowsBeforeError, Rows with an end of block and EndOfLine in Group 4
\* (MakeDecodeParams, newCCITTFaxEncoderFromStream).
FaxSettingsKept ==
  fax.step # "idle" =>
    newCCITTFaxEncoderFromStream(fax.dict) =
      [fax.enc EXCEPT !.Damaged = 0, !.Rows = IF fax.enc.EndOfBlock THEN 0 ELSE @,
                      !.EndOfLine = @ /\ fax.enc.K >= 0]

\* Fax images keep their rows and their settings, in no more bits than needed.
FaxSound == FaxReadBack /\ FaxCompact /\ FaxSettingsKept
=============================================================================

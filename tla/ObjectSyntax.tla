---------------------------- MODULE ObjectSyntax ----------------------------
(***************************************************************************)
(* Reading objects: the parser of PDF files (core/parser.go) and its twin  *)
(* for FDF files (fdf/parser.go), which differ where lib says so.          *)
(*                                                                         *)
(* A text is a sequence of characters; "lf" "cr" "tab" "ff" "bs" "nul" are *)
(* control characters.  An object is a record: k is its kind.  The parser  *)
(* calls itself for what arrays and dictionaries hold: what has been begun *)
(* and not ended is a stack of frames, and a step reads one token.         *)
(*                                                                         *)
(* A stream's length given by a reference, and its correction by the       *)
(* table's offsets, are ObjectLookup's matter.                             *)
(***************************************************************************)
EXTENDS Integers, Sequences
LOCAL INSTANCE SequencesExt
LOCAL INSTANCE FiniteSetsExt

CONSTANTS
  Ascii,      \* character -> its code, for those the texts use
  MaxNumber,  \* the largest integer the build has
  MaxItems    \* bound on the items of an array being read

VARIABLE syn

Blanks == {" ", "lf", "cr", "tab", "ff", "nul"}
LineEnd == {"lf", "cr"}
\* \s of a regular expression
Spaces == Blanks \ {"nul"}
Digits == <<"0", "1", "2", "3", "4", "5", "6", "7", "8", "9">>
DecDigit == ToSet(Digits)
Signs == {"+", "-"}
LowerHex == Digits \o <<"a", "b", "c", "d", "e", "f">>
UpperHex == Digits \o <<"A", "B", "C", "D", "E", "F">>
HexDigit == ToSet(LowerHex) \cup ToSet(UpperHex)
HexOf == [c \in HexDigit |-> (CHOOSE i \in 1 .. 16 : c \in {LowerHex[i], UpperHex[i]}) - 1]
Octal == DecDigit \ {"8", "9"}
CharOf == [n \in 0 .. 255 |-> IF \E c \in DOMAIN Ascii : Ascii[c] = n THEN CHOOSE c \in DOMAIN Ascii : Ascii[c] = n
                              ELSE "other"]
NumberOf(ds) == FoldLeft(LAMBDA n, c : 10 * n + HexOf[c], 0, ds)

\* A value read, and where the text goes on; ok: no error.
Parsed(val, at) == [ok |-> TRUE, val |-> val, at |-> at]
NotRead == [ok |-> FALSE, val |-> [k |-> "none"], at |-> 0]
Absent == [k |-> "none"]
NullObject == [k |-> "null"]

\* The first position from i on that holds none of the characters.
Beyond(text, i, chars) == Min({j \in i .. Len(text) : text[j] \notin chars} \cup {Len(text) + 1})
\* ... that holds one of them.
Until(text, i, chars) == Min({j \in i .. Len(text) : text[j] \in chars} \cup {Len(text) + 1})
Holds(text, i, word) == i + Len(word) - 1 <= Len(text) /\ SubSeq(text, i, i + Len(word) - 1) = word
Peeked(text, i, n) == SubSeq(text, i, Min({i + n - 1, Len(text)}))
\* The positions after i.
Ahead(text, i) == [k \in 1 .. (Len(text) - i) |-> i + k]

\* Mutant of SkipComments.
SkipCommentsOnce(text, i) ==
  LET k == Beyond(text, i, Blanks)
  IN  IF k <= Len(text) /\ text[k] = "%" THEN Beyond(text, Until(text, k, LineEnd), Blanks) ELSE k

\* Blanks and comments, of as many lines as there are.
SkipComments(text, i) ==
  LET past[j \in 1 .. (Len(text) + 1)] ==
        LET k == Beyond(text, j, Blanks)
        IN  IF k <= Len(text) /\ text[k] = "%" THEN past[Until(text, k, LineEnd)] ELSE k
  IN  past[i]

(***************************************************************************)
(* Names, strings, numbers.                                                *)
(***************************************************************************)
NameEnds == Blanks \cup {"/", "[", "]", "(", "<", ">"}

\* A # with two digits is a byte; with anything else it stays, without the two characters (FDF: an error).
NameEscape(lib, text, s, j) ==
  IF j + 2 > Len(text) THEN [s EXCEPT !.stop = TRUE, !.ok = FALSE]
  ELSE IF {text[j + 1], text[j + 2]} \subseteq HexDigit
       THEN [s EXCEPT !.val = Append(@, CharOf[16 * HexOf[text[j + 1]] + HexOf[text[j + 2]]]), !.at = j + 3]
       ELSE IF lib = "fdf" THEN [s EXCEPT !.stop = TRUE, !.ok = FALSE]
            ELSE [s EXCEPT !.val = Append(@, "#"), !.at = j + 3]

NameChar(lib, text, s, j) ==
  IF s.stop \/ j < s.at THEN s
  ELSE IF text[j] \in NameEnds THEN [s EXCEPT !.stop = TRUE]
  ELSE IF text[j] = "#" THEN NameEscape(lib, text, s, j)
  ELSE [s EXCEPT !.val = Append(@, text[j]), !.at = j + 1]

\* parseName: the name's characters.
ParseName(lib, text, i) ==
  IF text[i] # "/" THEN NotRead
  ELSE LET s == FoldLeft(LAMBDA t, j : NameChar(lib, text, t, j),
                         [val |-> << >>, at |-> i + 1, stop |-> FALSE, ok |-> TRUE], Ahead(text, i))
       IN  IF s.ok THEN Parsed(s.val, s.at) ELSE NotRead

EscapeOf == [c \in {"n", "r", "t", "b", "f", "(", ")", "\\"} |->
               CASE c = "n" -> "lf" [] c = "r" -> "cr" [] c = "t" -> "tab" [] c = "b" -> "bs" [] c = "f" -> "ff"
                 [] OTHER -> c]

\* Up to three octal digits; the parser wants two characters after the first, digits or not.
OctalEscape(text, s, j) ==
  LET ds == SubSeq(text, j + 1, Min({j + 3, Beyond(text, j + 1, Octal) - 1}))
  IN  IF j + 3 > Len(text) THEN [s EXCEPT !.stop = TRUE, !.ok = FALSE]
      ELSE [s EXCEPT !.at = j + 1 + Len(ds),
                     !.val = Append(@, CharOf[FoldLeft(LAMBDA n, c : 8 * n + HexOf[c], 0, ds) % 256])]

\* An escape that is none is dropped with its character.
StringEscape(text, s, j) ==
  IF j = Len(text) THEN [s EXCEPT !.stop = TRUE, !.ok = FALSE]
  ELSE IF text[j + 1] \in Octal THEN OctalEscape(text, s, j)
  ELSE [s EXCEPT !.at = j + 2,
                 !.val = IF text[j + 1] \in DOMAIN EscapeOf THEN Append(@, EscapeOf[text[j + 1]]) ELSE @]

\* Mutant of StringChar.
StringCharFlat(text, s, j) ==
  IF s.stop \/ j < s.at THEN s
  ELSE IF text[j] = "\\" THEN StringEscape(text, s, j)
  ELSE IF text[j] = ")" THEN [s EXCEPT !.stop = TRUE, !.ok = TRUE, !.at = j + 1]
  ELSE [s EXCEPT !.val = Append(@, text[j]), !.at = j + 1]

StringChar(text, s, j) ==
  IF s.stop \/ j < s.at THEN s
  ELSE IF text[j] = "\\" THEN StringEscape(text, s, j)
  ELSE IF text[j] = ")" /\ s.depth = 1 THEN [s EXCEPT !.stop = TRUE, !.ok = TRUE, !.at = j + 1]
  ELSE [s EXCEPT !.val = Append(@, text[j]), !.at = j + 1,
                 !.depth = @ + (IF text[j] = "(" THEN 1 ELSE 0) - (IF text[j] = ")" THEN 1 ELSE 0)]

StringObject(s, hex) == [k |-> "str", s |-> s, hex |-> hex]

ParseString(text, i) ==
  LET s == FoldLeft(LAMBDA t, j : StringChar(text, t, j),
                    [val |-> << >>, at |-> i + 1, depth |-> 1, stop |-> FALSE, ok |-> FALSE], Ahead(text, i))
  IN  IF s.stop /\ s.ok THEN Parsed(StringObject(s.val, FALSE), s.at) ELSE NotRead

\* Mutant of PairsRead.
PairsReadUneven(hs) == Len(hs) \div 2
\* How many bytes the digits make, the last digit of an odd number followed by a 0.
PairsRead(hs) == (Len(hs) + 1) \div 2

\* Bytes up to the first pair that is no number (FDF: none then).
HexBytes(lib, hs) ==
  LET padded == Append(hs, "0")
      bad == {n \in 1 .. PairsRead(hs) : ~({padded[2 * n - 1], padded[2 * n]} \subseteq HexDigit)}
      good == IF bad = {} THEN PairsRead(hs) ELSE IF lib = "fdf" THEN 0 ELSE Min(bad) - 1
  IN  [n \in 1 .. good |-> CharOf[16 * HexOf[padded[2 * n - 1]] + HexOf[padded[2 * n]]]]

ParseHexString(lib, text, i) ==
  LET e == Until(text, i, {">"})
      hs == SelectSeq(SubSeq(text, i + 1, e - 1), LAMBDA c : c \notin Blanks)
  IN  IF e > Len(text) THEN NotRead ELSE Parsed(StringObject(HexBytes(lib, hs), TRUE), e + 1)

Exponents(lib) == IF lib = "fdf" THEN {"e"} ELSE {"e", "E"}
\* Mutant of NumberChar.
NumberCharNoSign(lib, s, c) ==
  IF s.stop \/ c \notin DecDigit \cup Exponents(lib) \cup {"."} THEN [s EXCEPT !.stop = TRUE]
  ELSE [s EXCEPT !.val = Append(@, c), !.real = @ \/ c \notin DecDigit]
\* A sign is taken at the start and after an exponent's e only.
NumberChar(lib, s, c) ==
  IF s.stop THEN s
  ELSE IF s.signs /\ c \in Signs THEN [s EXCEPT !.val = Append(@, c), !.signs = FALSE]
  ELSE IF c \in DecDigit THEN [s EXCEPT !.val = Append(@, c)]
  ELSE IF c = "." THEN [s EXCEPT !.val = Append(@, c), !.real = TRUE]
  ELSE IF c \in Exponents(lib) THEN [s EXCEPT !.val = Append(@, "e"), !.real = TRUE, !.signs = TRUE]
  ELSE [s EXCEPT !.stop = TRUE]

Unsigned(cs) == IF cs # << >> /\ Head(cs) \in Signs THEN Tail(cs) ELSE cs
Signed(cs, n) == IF cs # << >> /\ Head(cs) = "-" THEN -n ELSE n
IsWhole(cs) == cs # << >> /\ ToSet(cs) \subseteq DecDigit
Power[n \in 0 .. 12] == IF n = 0 THEN 1 ELSE 10 * Power[n - 1]

\* strconv.ParseInt; ok: the characters are an integer the build has.
WholeNumber(cs) ==
  LET ds == Unsigned(cs)
      n == FoldLeft(LAMBDA m, c : IF m > (MaxNumber - HexOf[c]) \div 10 THEN MaxNumber + 1 ELSE 10 * m + HexOf[c],
                    0, ds)
  IN  IF IsWhole(ds) /\ n <= MaxNumber THEN Parsed([k |-> "int", n |-> Signed(cs, n)], 0) ELSE NotRead

\* strconv.ParseFloat, in thousandths: digits with one point at most, then perhaps an exponent.
RealNumber(cs) ==
  LET e == Until(cs, 1, {"e"})
      mantissa == Unsigned(SubSeq(cs, 1, e - 1))
      point == Until(mantissa, 1, {"."})
      ds == SubSeq(mantissa, 1, point - 1) \o SubSeq(mantissa, point + 1, Len(mantissa))
      xs == SubSeq(cs, e + 1, Len(cs))
      shift == (IF e > Len(cs) THEN 0 ELSE Signed(xs, NumberOf(Unsigned(xs)))) + 3
                 - (IF point > Len(mantissa) THEN 0 ELSE Len(mantissa) - point)
      value == IF shift < 0 THEN NumberOf(ds) \div Power[-shift] ELSE NumberOf(ds) * Power[shift]
  IN  IF IsWhole(ds) /\ (e > Len(cs) \/ IsWhole(Unsigned(xs)))
      THEN Parsed([k |-> "real", milli |-> Signed(cs, value)], 0) ELSE NotRead

\* What is no number counts as 0 (FDF: an error).
ParseNumber(lib, text, i) ==
  LET s == FoldLeft(LAMBDA t, c : NumberChar(lib, t, c),
                    [val |-> << >>, signs |-> TRUE, real |-> FALSE, stop |-> FALSE],
                    SubSeq(text, i, Len(text)))
      n == IF s.real THEN RealNumber(s.val) ELSE WholeNumber(s.val)
  IN  IF n.ok THEN Parsed(n.val, i + Len(s.val))
      ELSE IF lib = "fdf" THEN NotRead
      ELSE Parsed(IF s.real THEN [k |-> "real", milli |-> 0] ELSE [k |-> "int", n |-> 0], i + Len(s.val))

(***************************************************************************)
(* Two numbers and a word: references, and the heads of indirect objects.  *)
(***************************************************************************)
\* Mutant of Pair.
PairUnended(w, p, word) ==
  LET a == Beyond(w, p, DecDigit)
      b == Beyond(w, a, Spaces)
      c == Beyond(w, b, DecDigit)
  IN  [ok |-> p < a /\ a < b /\ b < c, first |-> SubSeq(w, p, a - 1), second |-> SubSeq(w, b, c - 1),
       length |-> c - p]

\* The numbers at p, blanks between them and before the word.
Pair(w, p, word) ==
  LET a == Beyond(w, p, DecDigit)
      b == Beyond(w, a, Spaces)
      c == Beyond(w, b, DecDigit)
      d == Beyond(w, c, Spaces)
  IN  [ok |-> p < a /\ a < b /\ b < c /\ c < d /\ Holds(w, d, word), first |-> SubSeq(w, p, a - 1),
       second |-> SubSeq(w, b, c - 1), length |-> d + Len(word) - p]

\* How far ahead a reference is looked for.
Lookahead == 15

\* In a text's next characters; the range +-. of the expression has the comma in it.
LooksNumeric(w) ==
  LET p == Beyond(w, 1, {"+", ",", "-", "."})
  IN  (p <= Len(w) /\ w[p] \in DecDigit) \/ \E j \in 1 .. (p - 1) : w[j] = "."

ParsePlain(lib, text, i) ==
  LET w == Peeked(text, i, Lookahead)
      ref == Pair(w, Beyond(w, 1, Spaces), <<"R">>)
  IN  IF Holds(w, 1, <<"n", "u", "l", "l">>) THEN Parsed(NullObject, i + 4)
      ELSE IF Holds(w, 1, <<"f", "a", "l", "s", "e">>) THEN Parsed([k |-> "bool", b |-> FALSE], i + 5)
      ELSE IF Holds(w, 1, <<"t", "r", "u", "e">>) THEN Parsed([k |-> "bool", b |-> TRUE], i + 4)
      ELSE IF ref.ok
           THEN Parsed([k |-> "ref", num |-> NumberOf(ref.first), gen |-> NumberOf(ref.second)],
                    Until(text, i, {"R"}) + 1)
      ELSE IF LooksNumeric(w) THEN ParseNumber(lib, text, i)
      ELSE NotRead

\* parseObject of what holds no other object.
ParseScalar(lib, text, i) ==
  CASE text[i] = "/" -> LET n == ParseName(lib, text, i)
                        IN  IF n.ok THEN Parsed([k |-> "name", name |-> n.val], n.at) ELSE NotRead
    [] text[i] = "(" -> ParseString(text, i)
    [] text[i] = "<" -> ParseHexString(lib, text, i)
    [] OTHER -> ParsePlain(lib, text, i)

(***************************************************************************)
(* Arrays, dictionaries, indirect objects, FDF files: the frames.          *)
(***************************************************************************)
\* A dictionary: its keys in the order they were first set, and what they hold.
EmptyDict == [k |-> "dict", keys |-> << >>, vals |-> [n \in {} |-> Absent]]
\* Mutant of DictSet.
DictSetAgain(d, key, v) ==
  [d EXCEPT !.keys = Append(@, key), !.vals = [n \in DOMAIN @ \cup {key} |-> IF n = key THEN v ELSE @[n]]]
DictSet(d, key, v) ==
  [d EXCEPT !.keys = IF key \in DOMAIN d.vals THEN @ ELSE Append(@, key),
            !.vals = [n \in DOMAIN @ \cup {key} |-> IF n = key THEN v ELSE @[n]]]

ArrayFrame == [f |-> "array", items |-> << >>]
DictFrame == [f |-> "dict", dict |-> EmptyDict, key |-> << >>]
\* last: the object is no container, and what follows it is not looked at.
IndirectFrame(num) == [f |-> "indirect", num |-> num, obj |-> Absent, last |-> FALSE]
FileFrame == [f |-> "file", objs |-> [n \in {} |-> Absent], trailer |-> Absent, trailing |-> FALSE]

Indirect(num, obj) == [k |-> "indirect", num |-> num, obj |-> obj]
StreamOf(num, dict, data) == [k |-> "stream", num |-> num, dict |-> dict, data |-> data]

Moved(s, mode, at) == [s EXCEPT !.mode = mode, !.at = at]
Push(s, frame, at) == [s EXCEPT !.stack = Append(@, frame), !.mode = frame.f, !.at = at]
Pop(s) == [s EXCEPT !.stack = Front(@)]
TopFrame(s) == Last(s.stack)
SetTop(s, frame) == [s EXCEPT !.stack[Len(s.stack)] = frame]
Completed(s, v, at) == [s EXCEPT !.mode = "done", !.val = v, !.at = at]

\* A file's object: the next of a number takes the place of the one before.
Filed(frame, v) ==
  [frame EXCEPT !.objs = [n \in DOMAIN @ \cup {v.num} |-> IF n = v.num THEN v ELSE @[n]]]

\* An indirect object is complete: s without its frame.
GiveIndirect(s, v, at) ==
  IF s.stack = << >> THEN Completed(s, v, at) ELSE Moved(SetTop(s, Filed(TopFrame(s), v)), "file", at)

\* The object an indirect one comes to hold; after one that is no container, it is complete.
ToIndirect(s, frame, v, at) ==
  IF frame.last THEN GiveIndirect(Pop(s), Indirect(frame.num, v), at)
  ELSE Moved(SetTop(s, [frame EXCEPT !.obj = v]), "indirect", at)

\* A value goes to the frame that wanted it.
Give(s, v, at) ==
  IF s.stack = << >> THEN Completed(s, v, at)
  ELSE LET frame == TopFrame(s)
       IN  CASE frame.f = "array" -> Moved(SetTop(s, [frame EXCEPT !.items = Append(@, v)]), "array", at)
             [] frame.f = "dict" -> Moved(SetTop(s, [frame EXCEPT !.dict = DictSet(@, frame.key, v)]), "dict", at)
             [] frame.f = "indirect" -> ToIndirect(s, frame, v, at)
             [] frame.f = "file" -> Completed(SetTop(s, [frame EXCEPT !.trailer = v]), Absent, at)

\* An error ends everything, except that a file's trailer may be left unread.
Fail(s) ==
  IF s.stack # << >> /\ s.stack[1].f = "file" /\ s.stack[1].trailing
  THEN [s EXCEPT !.mode = "done", !.stack = <<@[1]>>]
  ELSE [s EXCEPT !.mode = "error", !.stack = << >>]

Here(s) == IF s.at > Len(s.text) THEN "end" ELSE s.text[s.at]
TwoHere(s, c) == Here(s) = c /\ s.at < Len(s.text) /\ s.text[s.at + 1] = c

\* parseObject, up to where it calls itself; comments before the object are passed over.
ReadObject ==
  /\ syn.mode = "object"
  /\ syn' = CASE Here(syn) = "end" -> Fail(syn)
              [] Here(syn) \in Blanks -> Moved(syn, "object", Beyond(syn.text, syn.at, Blanks))
              [] Here(syn) = "%" -> Moved(syn, "object", Beyond(syn.text, Until(syn.text, syn.at, LineEnd), Blanks))
              [] Here(syn) = "[" -> Push(syn, ArrayFrame, syn.at + 1)
              [] TwoHere(syn, "<") -> Push(syn, DictFrame, syn.at + 2)
              [] OTHER -> LET r == ParseScalar(syn.lib, syn.text, syn.at)
                          IN  IF r.ok THEN Give(syn, r.val, r.at) ELSE Fail(syn)

\* parseArray's loop: blanks are passed over here, comments are not.
ReadArray ==
  /\ syn.mode = "array"
  /\ Len(TopFrame(syn).items) < MaxItems
  /\ LET i == Beyond(syn.text, syn.at, Blanks)
     IN  syn' = IF i > Len(syn.text) THEN Fail(syn)
                ELSE IF syn.text[i] = "]" THEN Give(Pop(syn), [k |-> "array", items |-> TopFrame(syn).items], i + 1)
                ELSE Moved(syn, "object", i)

NullSuffix == <<"n", "u", "l", "l">>
\* Mutant of NullBug.
NullBugAlways(text, n) == Len(n.val) > 4 /\ IsSuffix(NullSuffix, n.val)
\* A key that ends with null, before a name: the null is taken for the value.
NullBug(text, n) ==
  LET i == Beyond(text, n.at, Blanks)
  IN  Len(n.val) > 4 /\ IsSuffix(NullSuffix, n.val) /\ i <= Len(text) /\ text[i] = "/"

\* ParseDict's loop at a key.
ReadKey(s, i) ==
  LET n == ParseName(s.lib, s.text, i)
      frame == TopFrame(s)
  IN  IF ~n.ok THEN Fail(s)
      ELSE IF NullBug(s.text, n)
           THEN Moved(SetTop(s, [frame EXCEPT !.dict = DictSet(@, SubSeq(n.val, 1, Len(n.val) - 4), NullObject)]),
                      "dict",
                   Beyond(s.text, n.at, Blanks))
           ELSE Moved(SetTop(s, [frame EXCEPT !.key = n.val]), "object", n.at)

ReadDict ==
  /\ syn.mode = "dict"
  /\ LET i == SkipComments(syn.text, syn.at)
     IN  syn' = IF i >= Len(syn.text) THEN Fail(syn)
                ELSE IF syn.text[i] = ">" /\ syn.text[i + 1] = ">" THEN Give(Pop(syn), TopFrame(syn).dict, i + 2)
                ELSE ReadKey(syn, i)

(***************************************************************************)
(* ParseIndirectObject.                                                    *)
(***************************************************************************)
ObjWord == <<"o", "b", "j">>
Endobj == <<"e", "n", "d">> \o ObjWord
StreamWord == <<"s", "t", "r", "e", "a", "m">>
HeadAhead == 20

\* Where in the next characters an object's head is.
HeadPlaces(w) == {p \in 1 .. Len(w) : Pair(w, p, ObjWord).ok}

\* The head may stand a little further on; FDF wants all the characters to be there.
ReadHead(s, i) ==
  LET w == Peeked(s.text, i, HeadAhead)
      p == Min(HeadPlaces(w))
      head == Pair(w, p, ObjWord)
  IN  IF HeadPlaces(w) = {} \/ (s.lib = "fdf" /\ Len(w) < HeadAhead) THEN Fail(s)
      ELSE Push(s, IndirectFrame(NumberOf(head.first)), i + p - 1 + head.length)

BeginIndirect == /\ syn.mode = "head"
                 /\ syn' = ReadHead(syn, syn.at)

\* A line that begins with e and is no endobj is passed over, and what follows is the object.
ReadEnd(s) ==
  LET e == Until(s.text, s.at, LineEnd)
      frame == TopFrame(s)
  IN  IF e > Len(s.text) THEN Fail(s)
      ELSE IF Holds(s.text, s.at, Endobj)
      THEN GiveIndirect(Pop(s),
                        Indirect(frame.num, IF frame.obj = Absent /\ s.lib = "core" THEN NullObject ELSE frame.obj),
                        e)
      ELSE Moved(SetTop(s, [frame EXCEPT !.last = TRUE]), "object", e)

\* What follows the word: one blank perhaps, and a line's end.
DataAt(text, i) ==
  LET a == IF text[i] \in Blanks \ LineEnd THEN i + 1 ELSE i
  IN  IF text[a] = "cr" THEN IF text[a + 1] = "lf" THEN a + 2 ELSE a + 1
      ELSE IF text[a] = "lf" THEN a + 1 ELSE a

\* /L stands for /Length.
LengthKey == <<"L">>
\* The stream's data, as many bytes as its Length says; then nine characters, whatever they are.
ReadStream(s) ==
  LET frame == TopFrame(s)
      length == IF frame.obj.k = "dict" /\ LengthKey \in DOMAIN frame.obj.vals
                THEN frame.obj.vals[LengthKey] ELSE Absent
      i == DataAt(s.text, s.at + Len(StreamWord))
  IN  IF length.k # "int" THEN Fail(s)
      ELSE IF length.n < 0 \/ i + length.n - 1 > Len(s.text) THEN Fail(s)
      ELSE GiveIndirect(Pop(s), StreamOf(frame.num, frame.obj, SubSeq(s.text, i, i + length.n - 1)),
                        Beyond(s.text, Beyond(s.text, i + length.n, Blanks) + 9, Blanks))

\* The loop: containers and strings until endobj or stream; anything else is the object.
ReadIndirect ==
  /\ syn.mode = "indirect"
  /\ syn' = CASE syn.at >= Len(syn.text) -> Fail(syn)
              [] Here(syn) \in Blanks \cup {"%"} -> Moved(syn, "indirect", SkipComments(syn.text, syn.at))
              [] Here(syn) \in {"/", "(", "[", "<"} -> Moved(syn, "object", syn.at)
              [] Here(syn) = "e" -> ReadEnd(syn)
              [] Holds(syn.text, syn.at, StreamWord) -> ReadStream(syn)
              [] OTHER -> Moved(SetTop(syn, [TopFrame(syn) EXCEPT !.last = TRUE]), "object", syn.at)

(***************************************************************************)
(* FDF files: objects one after another up to the trailer.                 *)
(***************************************************************************)
TrailerWord == <<"t", "r", "a", "i", "l", "e", "r">>
\* The version: within the file's first characters.
VersionAt(text) ==
  \E i \in 1 .. HeadAhead - 7 :
    /\ i + 7 <= Len(text)
    /\ SubSeq(text, i, i + 4) = <<"%", "F", "D", "F", "-">>
    /\ text[i + 5] \in DecDigit /\ text[i + 6] = "." /\ text[i + 7] \in DecDigit
\* Otherwise PDF's is looked for, in all of the file.
PdfVersionIn(text) ==
  \E i \in 1 .. Len(text) - 6 :
    /\ SubSeq(text, i, i + 3) = <<"P", "D", "F", "-">>
    /\ text[i + 4] \in DecDigit /\ text[i + 5] = "." /\ text[i + 6] \in DecDigit

BeginFile ==
  /\ syn.mode = "begin"
  /\ syn' = IF VersionAt(syn.text) \/ PdfVersionIn(syn.text) THEN Push(syn, FileFrame, 1) ELSE Fail(syn)

ReadFile ==
  /\ syn.mode = "file"
  /\ LET i == SkipComments(syn.text, syn.at)
         j == SkipComments(syn.text, i + Len(TrailerWord))
         trailing == SetTop(syn, [TopFrame(syn) EXCEPT !.trailing = TRUE])
     IN  syn' = IF i + HeadAhead - 1 > Len(syn.text) THEN Fail(syn)
                ELSE IF ~Holds(syn.text, i, TrailerWord) THEN ReadHead(syn, i)
                ELSE IF Holds(syn.text, j, <<"<", "<">>) THEN Push(trailing, DictFrame, j + 2)
                ELSE Fail(trailing)

SynRead ==
  \/ ReadObject
  \/ ReadArray
  \/ ReadDict
  \/ BeginIndirect
  \/ ReadIndirect
  \/ BeginFile
  \/ ReadFile
=============================================================================

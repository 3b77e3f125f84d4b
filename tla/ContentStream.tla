---------------------------- MODULE ContentStream ----------------------------
(***************************************************************************)
(* Content streams (package contentstream): operations made by a creator,  *)
(* written, parsed, and processed with a graphics state.                   *)
(*                                                                         *)
(* A text is a sequence of characters; an operand (cm, BI), a name of a    *)
(* colour space and a numeral are one character each, and two numerals are *)
(* never next to each other.  An operation is [op, params]; op is the      *)
(* sequence of characters of its word.                                     *)
(***************************************************************************)
EXTENDS ColorSpaces
LOCAL INSTANCE SequencesExt
LOCAL INSTANCE FiniteSetsExt
LOCAL INSTANCE TLC

CONSTANTS
  Numerals,      \* function: numeral -> integer
  HexCodes,      \* function: character -> its two hexadecimal digits
  PageSpaces,    \* the ColorSpace dictionaries of pages: functions from names to objects
  CreatorCalls,  \* calls of the creator: [op, args]
  ColourCalls,   \* those of which longer contents are made
  ContentTexts,  \* texts that are parsed
  MaxCalls, MaxColourCalls,
  InlineFilters  \* values of an inline image's Filter and DecodeParms: [names, array, parms]

VARIABLE cst  \* [step, made, ops, wrapped, end, filter]

(***************************************************************************)
(* Characters.                                                             *)
(***************************************************************************)
Blanks == {" ", "\n"}
Delimiters == {"(", ")", "<", ">", "[", "]", "{", "}", "/", "%"}
\* Characters with an escape in strings.
Escapes == [c \in {"(", ")", "\\", "\n"} |-> IF c = "\n" THEN "n" ELSE c]
From(s, i) == SubSeq(s, i, Len(s))
\* skipSpaces.
SkipBlanks(s) == LET i == SelectInSeq(s, LAMBDA c : c \notin Blanks) IN IF i = 0 THEN << >> ELSE From(s, i)
\* To the end of the line.
SkipLine(s) == LET i == SelectInSeq(s, LAMBDA c : c = "\n") IN IF i = 0 THEN << >> ELSE From(s, i)

(***************************************************************************)
(* WriteString of objects.                                                 *)
(***************************************************************************)
Numeral(v) == CHOOSE n \in DOMAIN Numerals : Numerals[n] = v
\* Mutant of WrittenName.
WrittenNamePlain(name) ==
  <<"/">> \o FlattenSeq([i \in DOMAIN name |->
               IF name[i] \in Blanks \cup {"#"} THEN <<"#">> \o HexCodes[name[i]] ELSE <<name[i]>>])

WrittenName(name) ==
  <<"/">> \o FlattenSeq([i \in DOMAIN name |->
               IF name[i] \in Blanks \cup Delimiters \cup {"#"} THEN <<"#">> \o HexCodes[name[i]] ELSE <<name[i]>>])
WrittenString(str) ==
  <<"(">> \o FlattenSeq([i \in DOMAIN str |-> IF str[i] \in DOMAIN Escapes THEN <<"\\", Escapes[str[i]]>> ELSE <<str[i]>>]) \o <<")">>
WrittenHex(str) == <<"<">> \o FlattenSeq([i \in DOMAIN str |-> HexCodes[str[i]]]) \o <<">">>

RECURSIVE Written(_)
Written(o) ==
  CASE "num" \in DOMAIN o -> <<Numeral(o.num)>>
    [] "const" \in DOMAIN o -> <<o.const>>
    [] "name" \in DOMAIN o -> WrittenName(o.name)
    [] "str" \in DOMAIN o -> WrittenString(o.str)
    [] "hex" \in DOMAIN o -> WrittenHex(o.hex)
    [] "arr" \in DOMAIN o ->
         <<"[">> \o FlattenSeq([i \in DOMAIN o.arr |-> Written(o.arr[i]) \o (IF i < Len(o.arr) THEN <<" ">> ELSE << >>)]) \o <<"]">>
    [] "pairs" \in DOMAIN o ->
         <<"<", "<">> \o FlattenSeq([i \in DOMAIN o.pairs |-> WrittenName(o.pairs[i][1]) \o <<" ">> \o Written(o.pairs[i][2])])
           \o <<">", ">">>

\* The keys of an inline image in the order they are written in.
ImageKeys == <<"BPC", "CS", "D", "DP", "F", "H", "IM", "Intent", "I", "W">>
WrittenImage(img) ==
  FlattenSeq([i \in 1 .. 10 |->
    IF ImageKeys[i] \in DOMAIN img.keys THEN <<"/", ImageKeys[i], " ">> \o Written(img.keys[ImageKeys[i]]) \o <<"\n">> ELSE << >>])
    \o <<"ID", " ">> \o img.data \o <<"\n", "E", "I", "\n">>

\* ContentStreamOperations.Bytes.
Bytes(ops) ==
  FlattenSeq([i \in DOMAIN ops |->
    IF ops[i].op = <<"BI">> THEN <<"BI", "\n">> \o WrittenImage(ops[i].params[1].image)
    ELSE FlattenSeq([k \in DOMAIN ops[i].params |-> Written(ops[i].params[k]) \o <<" ">>]) \o ops[i].op \o <<"\n">>])

(***************************************************************************)
(* The parser: from a text, what is read of it and what is left.           *)
(***************************************************************************)
Got(kind, val, rest) == [kind |-> kind, val |-> val, rest |-> rest]
AtEof == Got("eof", << >>, << >>)
Malformed == Got("bad", << >>, << >>)
Panicked == Got("panic", << >>, << >>)
Faults == {"eof", "bad", "panic"}
NameStops == Blanks \cup {"/", "[", "(", "]", "<", ">"}

RECURSIVE ReadName(_, _), ReadString(_, _, _), ReadHex(_, _), SkipComments(_), ReadWithin(_, _)

\* parseName, after the slash.
ReadName(s, name) ==
  IF s = << >> \/ Head(s) \in NameStops THEN Got("obj", [name |-> name], s)
  ELSE IF Head(s) # "#" THEN ReadName(Tail(s), Append(name, Head(s)))
  ELSE IF Len(s) < 3 THEN AtEof
  ELSE LET coded == {c \in DOMAIN HexCodes : HexCodes[c] = <<s[2], s[3]>>}
       IN  IF coded = {} THEN Malformed ELSE ReadName(From(s, 4), Append(name, CHOOSE c \in coded : TRUE))

\* parseString, after the parenthesis; an unknown escape is dropped with what follows it.
ReadString(s, depth, str) ==
  IF s = << >> \/ (Head(s) = "\\" /\ Len(s) < 2) THEN AtEof
  ELSE IF Head(s) = "\\"
       THEN LET meant == {c \in DOMAIN Escapes : Escapes[c] = s[2]}
            IN  ReadString(From(s, 3), depth, IF meant = {} THEN str ELSE Append(str, CHOOSE c \in meant : TRUE))
  ELSE IF Head(s) = ")" /\ depth = 1 THEN Got("obj", [str |-> str], Tail(s))
  ELSE ReadString(Tail(s), CASE Head(s) = "(" -> depth + 1 [] Head(s) = ")" -> depth - 1 [] OTHER -> depth, Append(str, Head(s)))

\* parseHexString, after the bracket: other characters are skipped, and 0
\* completes a pair.
HexDigits == UNION {{HexCodes[c][1], HexCodes[c][2]} : c \in DOMAIN HexCodes}
Decoded(digits) ==
  LET even == IF Len(digits) % 2 = 1 THEN Append(digits, "0") ELSE digits
  IN  [i \in 1 .. Len(even) \div 2 |-> CHOOSE c \in DOMAIN HexCodes : HexCodes[c] = <<even[2 * i - 1], even[2 * i]>>]
ReadHex(s, digits) ==
  IF s = << >> THEN AtEof
  ELSE IF Head(s) = ">" THEN Got("obj", [hex |-> Decoded(digits)], Tail(s))
  ELSE ReadHex(Tail(s), IF Head(s) \in HexDigits THEN Append(digits, Head(s)) ELSE digits)

\* parseOperand.
ReadOperand(s) ==
  LET i == SelectInSeq(s, LAMBDA c : c \in Delimiters \cup Blanks)
  IN  IF i = 0 THEN AtEof ELSE IF i = 1 THEN Malformed ELSE Got("op", SubSeq(s, 1, i - 1), From(s, i))

\* What is neither an array nor a dictionary.
ReadSimple(s) ==
  CASE Head(s) = "/" -> ReadName(Tail(s), << >>)
    [] Head(s) = "(" -> ReadString(Tail(s), 1, << >>)
    [] Head(s) = "<" -> ReadHex(Tail(s), << >>)
    [] Head(s) \in DOMAIN Numerals -> Got("obj", [num |-> Numerals[Head(s)]], Tail(s))
    [] Head(s) \in {"null", "true", "false"} -> Got("obj", [const |-> Head(s)], Tail(s))
    [] OTHER -> ReadOperand(s)

\* parseObject, parseArray and parseDict: open are the arrays and dictionaries
\* around, the innermost last.  Operands in them become strings.  A key that
\* ends in null and is followed by a name loses it and is null; one that is
\* followed by nothing stops the program.
WithPair(pairs, key, val) ==
  IF \E i \in DOMAIN pairs : pairs[i][1] = key
  THEN [i \in DOMAIN pairs |-> IF pairs[i][1] = key THEN <<key, val>> ELSE pairs[i]] ELSE Append(pairs, <<key, val>>)
WithValue(open, val) ==
  [open EXCEPT ![Len(open)] = IF "arr" \in DOMAIN @ THEN [arr |-> Append(@.arr, val)]
                              ELSE [pairs |-> WithPair(@.pairs, @.key[1], val), key |-> << >>]]
WithKey(open, key) == [open EXCEPT ![Len(open)].key = <<key>>]
Place(open, item) ==
  IF open = << >> \/ item.kind \in Faults THEN item
  ELSE ReadWithin(item.rest, WithValue(open, IF item.kind = "op" THEN [str |-> item.val] ELSE item.val))
PlaceKey(open, name) ==
  LET key == name.val.name
      after == SkipBlanks(name.rest)
      nulled == Len(key) > 1 /\ Last(key) = "null"
  IN  IF name.kind # "obj" THEN name
      ELSE IF nulled /\ after = << >> THEN Panicked
      ELSE IF nulled /\ Head(after) = "/"
           THEN ReadWithin(name.rest, WithValue(WithKey(open, Front(key)), [const |-> "null"]))
           ELSE ReadWithin(name.rest, WithKey(open, key))
ReadKey(s, open) ==
  CASE Len(s) < 2 -> AtEof
    [] Len(s) >= 2 /\ s[1] = ">" /\ s[2] = ">" -> Place(Front(open), Got("obj", [pairs |-> Last(open).pairs], From(s, 3)))
    [] Len(s) >= 2 /\ s[1] = "/" -> PlaceKey(open, ReadName(Tail(s), << >>))
    [] OTHER -> Malformed
ReadValue(s, open) ==
  CASE Len(s) < 2 -> AtEof
    [] Len(s) >= 2 /\ s[1] = "[" -> ReadWithin(Tail(s), Append(open, [arr |-> << >>]))
    [] Len(s) >= 2 /\ s[1] = "<" /\ s[2] = "<" -> ReadWithin(From(s, 3), Append(open, [pairs |-> << >>, key |-> << >>]))
    [] OTHER -> Place(open, ReadSimple(s))
SkipComments(s) == IF s # << >> /\ Head(s) = "%" THEN SkipComments(SkipBlanks(SkipLine(s))) ELSE s
ReadWithin(s0, open) ==
  LET s == SkipBlanks(s0)
      inArray == open # << >> /\ "arr" \in DOMAIN Last(open)
      atKey == open # << >> /\ ~inArray /\ Last(open).key = << >>
  IN  CASE inArray /\ s = << >> -> AtEof
        [] inArray /\ s # << >> /\ Head(s) = "]" -> Place(Front(open), Got("obj", Last(open), Tail(s)))
        [] atKey -> ReadKey(s, open)
        [] OTHER -> ReadValue(SkipComments(s), open)
ReadItem(s) == ReadWithin(s, << >>)

\* ParseInlineImage: the data, read until E and I between two blanks.
RECURSIVE ReadData(_, _, _, _)
ReadData(s, state, data, skip) ==
  IF s = << >> THEN AtEof
  ELSE LET c == Head(s)
           held == Append(skip, c)
       IN  CASE state = 0 -> IF c \in Blanks THEN ReadData(Tail(s), 1, data, <<c>>) ELSE ReadData(Tail(s), 0, Append(data, c), skip)
             [] state = 1 -> IF c = "E" THEN ReadData(Tail(s), 2, data, held)
                             ELSE ReadData(Tail(s), IF c \in Blanks THEN 1 ELSE 0, data \o held, << >>)
             [] state = 2 -> IF c = "I" THEN ReadData(Tail(s), 3, data, held) ELSE ReadData(Tail(s), 0, data \o held, << >>)
             [] state = 3 -> IF c \in Blanks THEN Got("data", data, Tail(s)) ELSE ReadData(Tail(s), 0, data \o held, << >>)

LongKeys == [BitsPerComponent |-> "BPC", ColorSpace |-> "CS", Decode |-> "D", DecodeParms |-> "DP", Filter |-> "F", Height |-> "H",
             ImageMask |-> "IM", Interpolate |-> "I", Width |-> "W"]
KeyOf(k) == IF k \in DOMAIN LongKeys THEN LongKeys[k] ELSE k
\* ParseInlineImage; operands other than EI and ID are passed over.
RECURSIVE ReadImage(_, _)
ImageRead(keys, data) ==
  IF data.kind = "data" THEN Got("obj", [keys |-> keys, data |-> data.val], data.rest) ELSE Malformed
ImageKey(name, value, keys) ==
  IF value.kind = "panic" THEN value
  ELSE IF name = << >> \/ value.kind # "obj" \/ KeyOf(name[1]) \notin Range(ImageKeys) THEN Malformed
  ELSE ReadImage(value.rest, [keys EXCEPT ![KeyOf(name[1])] = value.val])
ImageItem(item, keys) ==
  LET start == IF item.rest # << >> /\ Head(item.rest) \in Blanks THEN Tail(item.rest) ELSE item.rest
  IN  CASE item.kind \in Faults -> IF item.kind = "panic" THEN item ELSE Malformed
        [] item.kind = "obj" -> IF "name" \in DOMAIN item.val THEN ImageKey(item.val.name, ReadItem(item.rest), keys) ELSE Malformed
        [] item.kind = "op" /\ item.val = <<"E", "I">> -> Got("obj", [keys |-> keys, data |-> << >>], item.rest)
        [] item.kind = "op" /\ item.val = <<"ID">> -> ImageRead(keys, ReadData(start, 0, << >>, << >>))
        [] OTHER -> ReadImage(item.rest, keys)
ReadImage(s, keys) == ImageItem(ReadItem(s), keys)

Given(keys) == [k \in {k \in DOMAIN keys : keys[k] # [const |-> "none"]} |-> keys[k]]
NoKeys == [k \in Range(ImageKeys) |-> [const |-> "none"]]

\* ContentStreamParser.Parse: at the end of the text the operations so far,
\* whatever has been begun; kind is the fault that ends it.
RECURSIVE ReadOps(_, _, _)
OpImage(image, op, ops) ==
  IF image.kind # "obj" THEN [kind |-> image.kind, ops |-> Append(ops, op)]
  ELSE ReadOps(image.rest, << >>, Append(ops, [op EXCEPT !.params = Append(@, [image |-> [image.val EXCEPT !.keys = Given(@)]])]))
OpItem(item, params, ops) ==
  LET op == [op |-> item.val, params |-> params]
  IN  CASE item.kind \in Faults -> [kind |-> item.kind, ops |-> ops]
        [] item.kind = "obj" -> ReadOps(item.rest, Append(params, item.val), ops)
        [] item.kind = "op" /\ item.val = <<"BI">> -> OpImage(ReadImage(item.rest, NoKeys), op, ops)
        [] OTHER -> ReadOps(item.rest, << >>, Append(ops, op))
ReadOps(s, params, ops) == OpItem(ReadItem(s), params, ops)
ParseContent(text) == ReadOps(text \o <<"\n">>, << >>, << >>)

\* newEncoderFromInlineImage and newMultiEncoderFromInlineImage: the filters in
\* order, each with its parameters; << >> is an error.  In an array of several
\* only some of the abbreviations are known.
Alone == [Fl |-> "FlateDecode", FlateDecode |-> "FlateDecode", LZW |-> "LZWDecode", LZWDecode |-> "LZWDecode",
          AHx |-> "ASCIIHexDecode", ASCIIHexDecode |-> "ASCIIHexDecode", A85 |-> "ASCII85Decode", ASCII85Decode |-> "ASCII85Decode",
          CCF |-> "CCITTFaxDecode", CCITTFaxDecode |-> "CCITTFaxDecode", RL |-> "RunLengthDecode", RunLengthDecode |-> "RunLengthDecode"]
InArray == [n \in {"Fl", "FlateDecode", "LZWDecode", "ASCIIHexDecode", "A85", "ASCII85Decode"} |-> Alone[n]]
HeedsParms == {"FlateDecode", "LZWDecode"}
\* Parameters that are an array, or in an array and none.
Refused(parms) == parms # << >> /\ parms[1] = "array"
OneEncoder(name, parms) ==
  IF name \notin DOMAIN Alone \/ (Alone[name] \in HeedsParms /\ Refused(parms)) THEN << >>
  ELSE <<<<Alone[name], IF Alone[name] \in HeedsParms THEN parms ELSE << >>>>>>
\* Mutant of MultiEncoder.
MultiEncoderFirst(names, parms) ==
  IF \E i \in DOMAIN names : names[i] \notin DOMAIN InArray THEN << >>
  ELSE [i \in DOMAIN names |-> OneEncoder(names[i], IF Len(parms) < 2 THEN parms ELSE IF parms[2] = << >> THEN << >> ELSE <<parms[2][1]>>)[1]]

\* parms: << >>, <<dictionary>>, or <<"array", its dictionaries or "null"s>>.
MultiEncoder(names, parms) ==
  LET listed == Len(parms) > 1 /\ parms[2] # << >>
      each(i) == IF ~listed THEN parms ELSE IF parms[2][i] = "null" THEN <<"array">> ELSE <<parms[2][i]>>
      heeded(i) == IF InArray[names[i]] \in HeedsParms THEN each(i) ELSE << >>
  IN  IF \/ listed /\ Len(parms[2]) < Len(names)
         \/ \E i \in DOMAIN names : names[i] \notin DOMAIN InArray \/ Refused(heeded(i))
      THEN << >> ELSE [i \in DOMAIN names |-> <<InArray[names[i]], heeded(i)>>]
InlineEncoder(f) ==
  IF f.names = << >> THEN <<<<"Raw", << >>>>>>
  ELSE IF Len(f.names) = 1 THEN OneEncoder(f.names[1], f.parms) ELSE MultiEncoder(f.names, f.parms)

(***************************************************************************)
(* The creator: the operands of its calls, and the kinds of their          *)
(* parameters; numbers are written as reals.                               *)
(***************************************************************************)
N(n) == [i \in 1 .. n |-> "num"]
StateCalls == ("q" :> << >>) @@ ("Q" :> << >>) @@ ("cm" :> N(6)) @@ ("w" :> N(1)) @@ ("J" :> <<"name">>) @@ ("j" :> <<"name">>)
  @@ ("M" :> N(1)) @@ ("d" :> <<"arr", "num">>) @@ ("ri" :> <<"name">>) @@ ("i" :> N(1)) @@ ("gs" :> <<"name">>)
PathCalls == ("m" :> N(2)) @@ ("l" :> N(2)) @@ ("c" :> N(6)) @@ ("v" :> N(4)) @@ ("y" :> N(4)) @@ ("h" :> << >>) @@ ("re" :> N(4))
PaintCalls == [o \in {"S", "s", "f", "f*", "B", "B*", "b", "b*", "n", "W", "W*"} |-> << >>] @@ ("Do" :> <<"name">>) @@ ("sh" :> <<"name">>)
SpaceCalls == ("CS" :> <<"name">>) @@ ("cs" :> <<"name">>) @@ ("G" :> N(1)) @@ ("g" :> N(1)) @@ ("RG" :> N(3)) @@ ("rg" :> N(3))
  @@ ("K" :> N(4)) @@ ("k" :> N(4))
\* SC, SCN and scn take any numbers, and the last two a pattern's name.
AnyColourCalls == {"SC", "SCN", "scn"}
TextStateCalls == [o \in {"Tc", "Tw", "Tz", "TL", "Tr", "Ts"} |-> N(1)] @@ ("Tf" :> <<"name", "num">>) @@ ("BT" :> << >>) @@ ("ET" :> << >>)
TextShowCalls == ("Td" :> N(2)) @@ ("TD" :> N(2)) @@ ("Tm" :> N(6)) @@ ("T*" :> << >>) @@ ("Tj" :> <<"str">>) @@ ("'" :> <<"str">>)
  @@ ("''" :> <<"num", "num", "str">>) @@ ("TJ" :> <<"arr">>) @@ ("BMC" :> <<"name">>) @@ ("EMC" :> << >>)
CallKinds == StateCalls @@ PathCalls @@ PaintCalls @@ SpaceCalls @@ TextStateCalls @@ TextShowCalls
IsNum(o) == "num" \in DOMAIN o
AllNums(args) == \A i \in DOMAIN args : IsNum(args[i])
Callable(c) ==
  \/ c.op \in DOMAIN CallKinds /\ Len(c.args) = Len(CallKinds[c.op]) /\ \A i \in DOMAIN c.args : CallKinds[c.op][i] \in DOMAIN c.args[i]
  \/ c.op \in AnyColourCalls /\ AllNums(c.args)
  \/ c.op \in {"SCN", "scn"} /\ c.args # << >> /\ AllNums(Front(c.args)) /\ "name" \in DOMAIN Last(c.args)
  \/ c.op = "BI" /\ Len(c.args) = 1 /\ "image" \in DOMAIN c.args[1]

\* SetStrokingColor and SetNonStrokingColor: nothing but device colours.
SetColourCall(side, color) ==
  LET n == CASE color.of = "DeviceGray" -> 1 [] color.of = "DeviceRGB" -> 2 [] color.of = "DeviceCMYK" -> 3 [] OTHER -> 0
      word == IF side = "stroke" THEN <<"G", "RG", "K">> ELSE <<"g", "rg", "k">>
  IN  IF n = 0 THEN << >> ELSE <<[op |-> <<word[n]>>, params |-> [i \in DOMAIN color.vals |-> [num |-> color.vals[i]]]]>>

Saves(op) == op.op = <<"q">>
Restores(op) == op.op = <<"Q">>
Depth(ops) == FoldLeft(LAMBDA d, o : d + (IF Saves(o) THEN 1 ELSE IF Restores(o) THEN -1 ELSE 0), 0, ops)

\* Mutant of IsWrapped.
IsWrappedBalanced(ops) == Len(ops) >= 2 /\ Depth(ops) = 0

\* isWrapped.
IsWrapped(ops) ==
  /\ Len(ops) >= 2 /\ Depth(ops) = 0
  /\ \A i \in DOMAIN ops : Saves(ops[i]) \/ Restores(ops[i]) \/ Depth(SubSeq(ops, 1, i)) >= 1

\* WrapIfNeeded.
WrapIfNeeded(ops) ==
  LET q == <<[op |-> <<"q">>, params |-> << >>]>> \o ops
  IN  IF ops = << >> \/ IsWrapped(ops) THEN ops
      ELSE q \o [i \in 1 .. (IF Depth(q) > 0 THEN Depth(q) ELSE 0) |-> [op |-> <<"Q">>, params |-> << >>]]

(***************************************************************************)
(* The processor.  A matrix is <<a, b, c, d, tx, ty>>.                     *)
(***************************************************************************)
MaxAbsNumber == 10 ^ 9
Identity == <<1, 0, 0, 1, 0, 0>>
\* Concat: b before m.
Concat(m, b) ==
  LET product == <<b[1] * m[1] + b[2] * m[3], b[1] * m[2] + b[2] * m[4], b[3] * m[1] + b[4] * m[3], b[3] * m[2] + b[4] * m[4],
                   b[5] * m[1] + b[6] * m[3] + m[5], b[5] * m[2] + b[6] * m[4] + m[6]>>
  IN  [i \in 1 .. 6 |-> Between(product[i], -MaxAbsNumber, MaxAbsNumber)]

\* newPdfPageResourcesColorspacesFromPdfObject: all of them or, when one does not
\* load, none, and GetColorspaceByName then has no space of any name.
LoadSpaces(spaces) ==
  LET loaded == [n \in DOMAIN spaces |-> LoadSpace(spaces[n])]
  IN  [n \in {n \in DOMAIN spaces : \A m \in DOMAIN spaces : loaded[m] # << >>} |-> loaded[n]]
\* getColorspace: the page's spaces, and the CIE based ones by their names.
DefaultLab == [name |-> "Lab", range |-> <<-100 * Unit, 100 * Unit, -100 * Unit, 100 * Unit>>]
SpaceByName(name, spaces) ==
  IF name \in Devices THEN <<[name |-> name]>>
  ELSE IF name = "Pattern" THEN <<[name |-> name, under |-> << >>]>>
  ELSE IF name \in DOMAIN spaces THEN spaces[name]
  ELSE IF name \in {"CalGray", "CalRGB"} THEN <<[name |-> name]>>
  ELSE IF name = "Lab" THEN <<DefaultLab>> ELSE << >>

\* getInitialColor; a pattern has none.
RECURSIVE InitialColor(_)
InitialColor(cs) ==
  LET lower(i) == IF cs.range[i] > 0 THEN cs.range[i] ELSE 0
      zeros(n) == [i \in 1 .. n |-> 0]
  IN  CASE cs.name \in {"DeviceGray", "CalGray"} -> Colour(cs.name, zeros(1))
        [] cs.name \in {"DeviceRGB", "CalRGB"} -> Colour(cs.name, zeros(3))
        [] cs.name = "DeviceCMYK" -> Colour(cs.name, <<0, 0, 0, Unit>>)
        [] cs.name = "Lab" -> Colour(cs.name, <<lower(1), lower(3), 0>>)
        [] cs.name = "ICCBased" -> InitialColor(IF cs.alt = << >> THEN ForProfile(cs.n) ELSE cs.alt[1])
        [] cs.name = "Indexed" -> InitialColor(cs.base)
        [] cs.name \in {"Separation", "DeviceN"} -> InitialColor(cs.alt)
        [] cs.name = "Pattern" -> << >>

Numbers(params) == [i \in DOMAIN params |-> params[i].num]
\* ColorFromPdfObjects: as of numbers; of a pattern its name, after its colour.
ColorFromObjects(cs, params) ==
  IF cs.name # "Pattern" THEN (IF AllNums(params) THEN ColorFromFloats(cs, Numbers(params)) ELSE << >>)
  ELSE IF params = << >> \/ "name" \notin DOMAIN Last(params) THEN << >>
  ELSE IF Len(params) = 1 THEN <<[of |-> "Pattern", vals |-> << >>, under |-> << >>]>>
  ELSE IF cs.under = << >> \/ ~AllNums(Front(params)) THEN << >>
  ELSE LET under == ColorFromFloats(cs.under[1], Numbers(Front(params)))
       IN  IF under = << >> THEN << >> ELSE <<[of |-> "Pattern", vals |-> << >>, under |-> under]>>

InitialState ==
  LET both(v) == [stroke |-> v, fill |-> v]
  IN  [space |-> both([name |-> "DeviceGray"]), color |-> both(Colour("DeviceGray", <<0>>)), ctm |-> Identity]

Step(res, gs, stack) == [res |-> res, gs |-> gs, stack |-> stack]
Coloured(gs, side, space, color) == [gs EXCEPT !.space[side] = space, !.color[side] = color]

\* Mutant of InSpace.
InSpaceSameColour(gs, stack, side, cs) ==
  IF cs = << >> THEN Step("err", gs, stack) ELSE Step("ok", [gs EXCEPT !.space[side] = cs[1]], stack)

\* A space, if it is one, with the colour it starts with.
InSpace(gs, stack, side, cs) ==
  IF cs = << >> THEN Step("err", gs, stack) ELSE Step("ok", Coloured(gs, side, cs[1], InitialColor(cs[1])), stack)
\* A colour, if it is one.
InColor(gs, stack, side, cs, color) ==
  CASE color = << >> -> Step("err", gs, stack)
    [] color = Outside -> Step("panic", gs, stack)
    [] OTHER -> Step("ok", Coloured(gs, side, cs, color), stack)

\* handleCommand_CS, _cs.
SetSpace(gs, stack, side, params, spaces) ==
  IF Len(params) # 1 \/ "name" \notin DOMAIN params[1] THEN Step("err", gs, stack)
  ELSE InSpace(gs, stack, side, SpaceByName(params[1].name[1], spaces))

\* handleCommand_SC, _SCN, _sc, _scn: only SC asks a pattern for its components.
SetColor(gs, stack, side, params, patterns) ==
  LET cs == gs.space[side]
      free == patterns /\ cs.name = "Pattern"
  IN  IF ~free /\ cs.name = "Pattern" /\ cs.under = << >> THEN Step("panic", gs, stack)
      ELSE IF ~free /\ Len(params) # GetNumComponents(cs) THEN Step("err", gs, stack)
      ELSE InColor(gs, stack, side, cs, ColorFromObjects(cs, params))

\* handleCommand_G, _g, _RG, _rg, _K, _k.
DeviceOf == [w \in {"G", "g", "RG", "rg", "K", "k"} |->
               [name |-> CASE w \in {"G", "g"} -> "DeviceGray" [] w \in {"RG", "rg"} -> "DeviceRGB" [] OTHER -> "DeviceCMYK"]]
SetDevice(gs, stack, side, cs, params) == InColor(gs, stack, side, cs, ColorFromObjects(cs, params))

\* handleCommand_cm.
Transform(gs, stack, params) ==
  IF Len(params) # 6 \/ ~AllNums(params) THEN Step("err", gs, stack)
  ELSE Step("ok", [gs EXCEPT !.ctm = Concat(@, Numbers(params))], stack)

\* One turn of Process: what an operation does to the state and the stack.
ProcessOp(word, p, gs, stack, spaces) ==
  LET side == IF word \in {"CS", "SC", "SCN", "G", "RG", "K"} THEN "stroke" ELSE "fill"
  IN  CASE word = "q" -> Step("ok", gs, Append(stack, gs))
        [] word = "Q" -> IF stack = << >> THEN Step("panic", gs, stack) ELSE Step("ok", Last(stack), Front(stack))
        [] word \in {"CS", "cs"} -> SetSpace(gs, stack, side, p, spaces)
        [] word \in {"SC", "SCN", "sc", "scn"} -> SetColor(gs, stack, side, p, word # "SC")
        [] word \in DOMAIN DeviceOf -> SetDevice(gs, stack, side, DeviceOf[word], p)
        [] word = "cm" -> Transform(gs, stack, p)
        [] OTHER -> Step("ok", gs, stack)

Processed(st, op, spaces) ==
  IF st.res = "ok" THEN ProcessOp(IF Len(op.op) = 1 THEN op.op[1] ELSE "?", op.params, st.gs, st.stack, spaces) ELSE st
\* Process: it ends with the first operation that fails.
Process(ops, page) ==
  LET spaces == LoadSpaces(page)
      before[i \in 1 .. Len(ops) + 1] ==
        IF i = 1 THEN Step("ok", InitialState, << >>) ELSE Processed(before[i - 1], ops[i - 1], spaces)
  IN  before[Len(ops) + 1]

(***************************************************************************)
(* A client makes contents and has them read and processed, or reads a     *)
(* text.                                                                   *)
(***************************************************************************)
ContentNone == [step |-> "idle", made |-> << >>, ops |-> << >>, wrapped |-> << >>, end |-> Step("ok", InitialState, << >>), filter |-> << >>]
ContentIdle == cst = ContentNone

Long(ops) == \A i \in DOMAIN ops : \E c \in ColourCalls : ops[i] = [op |-> <<c.op>>, params |-> c.args]

\* A call of the creator.
AddCall(c) ==
  /\ cst.step \in {"idle", "making"} /\ Callable(c)
  /\ Len(cst.ops) < (IF Long(cst.ops) /\ c \in ColourCalls THEN MaxColourCalls ELSE MaxCalls)
  /\ cst' = [cst EXCEPT !.step = "making", !.ops = Append(@, [op |-> <<c.op>>, params |-> c.args])]

\* The present colour of one side is set anew.
ColourAgain(side, st) ==
  LET color == st.gs.color[side]
  IN  /\ st.res = "ok" /\ color # << >> /\ SetColourCall(side, color[1]) # << >>
      /\ \A i \in DOMAIN color[1].vals : color[1].vals[i] \in {Numerals[n] : n \in DOMAIN Numerals}
      /\ cst' = [cst EXCEPT !.step = "again", !.ops = @ \o SetColourCall(side, color[1])]
AddColour(side) ==
  cst.step = "making" /\ Len(cst.ops) < MaxColourCalls /\ \E page \in PageSpaces : ColourAgain(side, Process(cst.ops, page))

WrapContents ==
  /\ cst.step = "making"
  /\ cst' = [cst EXCEPT !.step = "again", !.wrapped = <<cst.ops>>, !.ops = WrapIfNeeded(@)]

Taken(read, made, page) ==
  cst' = [cst EXCEPT !.step = CASE read.kind = "eof" -> "read" [] read.kind = "bad" -> "refused" [] OTHER -> "panicked",
                     !.made = made, !.ops = read.ops, !.end = IF read.kind = "eof" THEN Process(read.ops, page) ELSE @]
WriteAndRead(page) == cst.step \in {"making", "again"} /\ Taken(ParseContent(Bytes(cst.ops)), cst.ops, page)
ReadForeign(text, page) == ContentIdle /\ Taken(ParseContent(text), << >>, page)

ChooseFilter(f) == ContentIdle /\ cst' = [cst EXCEPT !.step = "filter", !.filter = <<f>>]

ContentNext ==
  \/ \E c \in CreatorCalls \cup ColourCalls : AddCall(c)
  \/ \E side \in {"stroke", "fill"} : AddColour(side)
  \/ WrapContents
  \/ \E page \in PageSpaces : WriteAndRead(page)
  \/ \E text \in ContentTexts, page \in PageSpaces : ReadForeign(text, page)
  \/ \E f \in InlineFilters : ChooseFilter(f)

(***************************************************************************)
(* Properties.                                                             *)
(***************************************************************************)
\* Data of an inline image that is found again: no E and I stand between two
\* blanks in it, and it ends neither in a blank nor in a blank and E.
DataKept(data) ==
  LET d == data \o <<"\n">>
  IN  /\ data = << >> \/ Last(data) \notin Blanks
      /\ Len(data) < 2 \/ ~(Last(data) = "E" /\ data[Len(data) - 1] \in Blanks)
      /\ \A i \in 1 .. Len(d) - 3 : ~(d[i] \in Blanks /\ d[i + 1] = "E" /\ d[i + 2] = "I" /\ d[i + 3] \in Blanks)
RECURSIVE NullKeys(_)
NullKeys(o) ==
  \/ "arr" \in DOMAIN o /\ \E i \in DOMAIN o.arr : NullKeys(o.arr[i])
  \/ "pairs" \in DOMAIN o /\ \E i \in DOMAIN o.pairs :
       \/ Len(o.pairs[i][1]) > 1 /\ Last(o.pairs[i][1]) = "null" /\ "name" \in DOMAIN o.pairs[i][2]
       \/ NullKeys(o.pairs[i][2])
Plain(ops) ==
  \A i \in DOMAIN ops : \A k \in DOMAIN ops[i].params :
    LET o == ops[i].params[k] IN IF "image" \in DOMAIN o THEN DataKept(o.image.data) ELSE ~NullKeys(o)

\* Contents that are written are read as the same operations, and contents
\* that are read and written again are read as the same (Bytes and Parse); not
\* so an inline image whose data looks like its end, and a key of a dictionary
\* that ends in null and has a name (Plain).  No contents that are written stop
\* the parser.
ContentKept ==
  /\ cst.made # << >> /\ cst.step \in {"read", "refused"} /\ Plain(cst.made) => cst.step = "read" /\ cst.ops = cst.made
  /\ cst.step = "read" /\ Plain(cst.ops) => ParseContent(Bytes(cst.ops)) = [kind |-> "eof", ops |-> cst.ops]
  /\ cst.step = "panicked" => cst.made = << >>

\* What is added to wrapped contents starts in the default state
\* (WrapIfNeeded), unless they restore what they have not saved; contents that
\* do stop the processor.
Overdrawn(ops) == \E i \in DOMAIN ops : Depth(SubSeq(ops, 1, i)) < 0
DefaultAfterWrap ==
  cst.step = "read" /\ cst.wrapped # << >> /\ ~Overdrawn(cst.wrapped[1]) /\ cst.end.res = "ok" =>
    cst.end.gs = InitialState /\ cst.end.stack = << >>
StopsOverdrawn ==
  cst.step = "read" /\ cst.end.res # "err" => (Overdrawn(cst.ops) => cst.end.res = "panic")

\* A colour in the state is one that the space beside it can show, whichever
\* operators put the two there (getInitialColor, ColorFromPdfObjects against
\* ColorToRGB); a pattern may have none.
StateColoured ==
  cst.step = "read" /\ cst.end.res = "ok" =>
    \A side \in {"stroke", "fill"} :
      LET cs == cst.end.gs.space[side]
          color == cst.end.gs.color[side]
          rgb == ColorToRGB(cs, color[1])
      IN  IF cs.name = "Pattern" THEN color = << >> \/ color[1].of = "Pattern"
          ELSE color # << >> /\ rgb # << >> /\ rgb[1].of = "DeviceRGB" /\ InUnit(rgb[1].vals)

\* The colour a space starts with is one that the space accepts; not so of Lab,
\* whose second range is taken for the lower bound of a.
RECURSIVE OverLab(_)
OverLab(cs) ==
  CASE cs.name = "Lab" -> TRUE [] cs.name = "ICCBased" -> cs.alt # << >> /\ OverLab(cs.alt[1]) [] OTHER -> FALSE
StartAccepted ==
  cst.step = "read" /\ cst.end.res = "ok" /\ cst.ops # << >> /\ Last(cst.ops).op \in {<<"CS">>, <<"cs">>} =>
    LET cs == cst.end.gs.space[IF Last(cst.ops).op = <<"CS">> THEN "stroke" ELSE "fill"]
        start == InitialColor(cs)
    IN  cs.name \in Devices \cup CieBased \cup {"ICCBased"} /\ ~OverLab(cs) => ColorFromFloats(cs, start[1].vals) = start

\* A colour of the state that the creator sets anew is the colour of the state.
ColourSetAnew ==
  /\ cst.step = "read" /\ cst.wrapped = << >> /\ cst.end.res = "ok"
  /\ cst.made # << >> /\ Last(cst.made).op \in {<<"G">>, <<"RG">>, <<"K">>}
  =>
    cst.end.gs.color.stroke[1].vals = Numbers(Last(cst.made).params)

\* The filters of an inline image are those it has alone, in the array's order;
\* refused are the abbreviations that an array does not know, and a Flate or
\* LZW filter without parameters when others have some.
FiltersChosen ==
  cst.step = "filter" /\ Len(cst.filter[1].names) > 1 =>
    LET f == cst.filter[1]
        e == InlineEncoder(f)
        parm(i) == IF Len(f.parms) < 2 THEN f.parms ELSE <<f.parms[2][i]>>
        lacks(i) == Len(f.parms) > 1 /\ (Len(f.parms[2]) < i \/ f.parms[2][i] = "null")
    IN  IF e # << >> THEN \A i \in DOMAIN f.names :
          InlineEncoder([f EXCEPT !.names = <<f.names[i]>>, !.parms = IF lacks(i) THEN << >> ELSE parm(i)]) = <<e[i]>>
        ELSE \E i \in DOMAIN f.names : f.names[i] \notin DOMAIN InArray \/ lacks(i)

ContentSound ==
  /\ ContentKept /\ DefaultAfterWrap /\ StopsOverdrawn /\ StateColoured /\ StartAccepted /\ ColourSetAnew /\ FiltersChosen
===============================================================================

----------------------------- MODULE Primitives -----------------------------
(***************************************************************************)
(* Objects made, edited, written and read again (core/primitives.go,       *)
(* writeObject of model/writer.go).  A client edits a dictionary and has   *)
(* it written as an indirect object; or a value somebody else wrote, with  *)
(* blanks and comments wherever the syntax allows them and characters      *)
(* spelled another way, is read.                                           *)
(***************************************************************************)
EXTENDS ObjectSyntax
LOCAL INSTANCE SequencesExt
LOCAL INSTANCE FiniteSetsExt

CONSTANTS
  SynValues,  \* objects that are written
  SynKeys,    \* keys of the dictionary a client edits
  SynTexts,   \* texts of any kind
  SynMerged,  \* dictionaries merged into it
  SynData,    \* data of streams
  Gaps,       \* what may stand between two tokens
  MaxEdits    \* bound on the client's calls

IntObject(n) == [k |-> "int", n |-> n]
NameObject(cs) == [k |-> "name", name |-> cs]
ArrayObject(items) == [k |-> "array", items |-> items]

\* The decimal digits of a number.
Decimal(n) ==
  LET of[m \in 0 .. n] == IF m < 10 THEN <<Digits[m + 1]>> ELSE Append(of[m \div 10], Digits[(m % 10) + 1])
  IN  of[n]
\* FormatInt
WriteInt(n) == IF n < 0 THEN <<"-">> \o Decimal(-n) ELSE Decimal(n)

\* FormatFloat with as many decimals as it takes: none for a whole number.
WriteReal(milli) ==
  LET m == IF milli < 0 THEN -milli ELSE milli
      three == SubSeq(Decimal(1000 + (m % 1000)), 2, 4)
      kept == Max({0} \cup {j \in 1 .. 3 : three[j] # "0"})
  IN  (IF milli < 0 THEN <<"-">> ELSE << >>) \o Decimal(m \div 1000)
        \o (IF kept = 0 THEN << >> ELSE <<".">> \o SubSeq(three, 1, kept))

Hex2(c) == <<LowerHex[(Ascii[c] \div 16) + 1], LowerHex[(Ascii[c] % 16) + 1]>>
EscapedChars == {EscapeOf[c] : c \in DOMAIN EscapeOf}
LetterOf(c) == CHOOSE e \in DOMAIN EscapeOf : EscapeOf[e] = c
\* Mutant of WriteStringChar.
WriteStringCharPlain(c) == IF c \in {"(", "\\"} THEN <<"\\", c>> ELSE <<c>>
WriteStringChar(c) == IF c \in EscapedChars THEN <<"\\", LetterOf(c)>> ELSE <<c>>

Delimiting == {"(", ")", "<", ">", "[", "]", "{", "}", "/", "%"}
\* Mutant of Unprintable.
UnprintableButHash(c) == Ascii[c] < 33 \/ Ascii[c] > 126 \/ c \in Delimiting
Unprintable(c) == Ascii[c] < 33 \/ Ascii[c] > 126 \/ c = "#" \/ c \in Delimiting
WriteNameChar(c) == IF Unprintable(c) THEN <<"#">> \o Hex2(c) ELSE <<c>>
Spell(cs, Write(_)) == FoldLeft(LAMBDA t, c : t \o Write(c), << >>, cs)
WriteName(cs) == <<"/">> \o Spell(cs, WriteNameChar)

Between(texts, gap) ==
  FoldLeft(LAMBDA t, i : t \o (IF i = 1 THEN << >> ELSE gap) \o texts[i], << >>, [i \in DOMAIN texts |-> i])
Joined(texts) == Between(texts, << >>)

RECURSIVE WriteString(_)
\* WriteString of each kind of object; streams and indirect objects are written as references.
WriteString(o) ==
  CASE o.k = "null" -> NullSuffix
    [] o.k = "bool" -> IF o.b THEN <<"t", "r", "u", "e">> ELSE <<"f", "a", "l", "s", "e">>
    [] o.k = "int" -> WriteInt(o.n)
    [] o.k = "real" -> WriteReal(o.milli)
    [] o.k = "name" -> WriteName(o.name)
    [] o.k = "str" -> IF o.hex THEN <<"<">> \o Spell(o.s, Hex2) \o <<">">>
                      ELSE <<"(">> \o Spell(o.s, WriteStringChar) \o <<")">>
    [] o.k = "ref" -> Decimal(o.num) \o <<" ">> \o Decimal(o.gen) \o <<" ", "R">>
    [] o.k \in {"indirect", "stream"} -> Decimal(o.num) \o <<" ", "0", " ", "R">>
    [] o.k = "array" -> <<"[">> \o Between([i \in DOMAIN o.items |-> WriteString(o.items[i])], <<" ">>) \o <<"]">>
    [] o.k = "dict" ->
         <<"<", "<">>
           \o Joined([i \in DOMAIN o.keys |-> WriteName(o.keys[i]) \o <<" ">> \o WriteString(o.vals[o.keys[i]])])
           \o <<">", ">">>

Head0(num) == Decimal(num) \o <<" ", "0", " ">> \o ObjWord \o <<"lf">>
EndLine == <<"lf">> \o Endobj \o <<"lf">>
\* writeObject
WriteObject(o) ==
  IF o.k = "stream"
  THEN Head0(o.num) \o WriteString(o.dict) \o <<"lf">> \o StreamWord \o <<"lf">> \o o.data
         \o <<"lf", "e", "n", "d">> \o StreamWord \o EndLine
  ELSE Head0(o.num) \o WriteString(o.obj) \o EndLine

(***************************************************************************)
(* Editing a dictionary.  NilOf: a nil pointer of a type.                  *)
(***************************************************************************)
NilOf == [k |-> "nil"]
SetIfNotNil(d, key, v) == IF v.k = "nil" THEN d ELSE DictSet(d, key, v)
\* Mutant of DictRemove.
DictRemoveKeepsKey(d, key) ==
  [d EXCEPT !.vals = [n \in DOMAIN @ \ {key} |-> @[n]]]
DictRemove(d, key) ==
  [d EXCEPT !.keys = SelectSeq(@, LAMBDA n : n # key), !.vals = [n \in DOMAIN @ \ {key} |-> @[n]]]
DictMerge(d, e) == FoldLeft(LAMBDA x, n : DictSet(x, n, e.vals[n]), d, e.keys)

\* PdfObjectArray's Append and Set; Set outside the array is refused.
ArrayAppend(a, v) == [a EXCEPT !.items = Append(@, v)]
ArraySet(a, i, v) == IF i \in DOMAIN a.items THEN [a EXCEPT !.items[i] = v] ELSE a

\* TraceToDirectObject: a reference is looked up first, and ten indirect objects are gone through.
Resolved(objs, o) == IF o.k # "ref" THEN o ELSE IF o.num \in DOMAIN objs THEN objs[o.num] ELSE NullObject
TraceMaxDepth == 10
TraceToDirectObject(objs, o) ==
  LET into[n \in 0 .. TraceMaxDepth] == IF n = 0 THEN Resolved(objs, o)
                                        ELSE IF into[n - 1].k = "indirect" THEN into[n - 1].obj ELSE into[n - 1]
  IN  IF into[TraceMaxDepth].k = "indirect" THEN Absent ELSE into[TraceMaxDepth]

\* GetArray, GetDict, GetString...: the direct object, if it is of the kind.
GetOf(objs, o, kind) ==
  LET direct == TraceToDirectObject(objs, o)
  IN  IF direct.k = kind THEN direct ELSE Absent

(***************************************************************************)
(* The jobs.  syn.job says what is being read.                             *)
(***************************************************************************)
SynIdle == [mode |-> "idle", lib |-> "core", job |-> [kind |-> "edit", obj |-> EmptyDict, calls |-> 0],
            text |-> << >>,
            at |-> 1, stack |-> << >>, val |-> Absent]
Reading(lib, mode, job, text) == [SynIdle EXCEPT !.lib = lib, !.mode = mode, !.job = job, !.text = text]

Edited(d) ==
  /\ syn.mode = "idle" /\ syn.job.calls < MaxEdits
  /\ syn' = [syn EXCEPT !.job.obj = d, !.job.calls = @ + 1]
EditSet == \E n \in SynKeys, v \in SynValues : Edited(DictSet(syn.job.obj, n, v))
EditSetIfNotNil == \E n \in SynKeys, v \in {NilOf, NullObject} : Edited(SetIfNotNil(syn.job.obj, n, v))
EditRemove == \E n \in SynKeys : Edited(DictRemove(syn.job.obj, n))
EditMerge == \E e \in SynMerged : Edited(DictMerge(syn.job.obj, e))
EditClear == Edited(EmptyDict)
EditArray ==
  syn.mode = "idle" /\ \E n \in DOMAIN syn.job.obj.vals : \E i \in {0, 1} :
    LET a == syn.job.obj.vals[n]
    IN  /\ a.k = "array"
        /\ Edited(DictSet(syn.job.obj, n, IF i = 0 THEN ArrayAppend(a, NullObject) ELSE ArraySet(a, i, NullObject)))

\* The client is done: the dictionary goes to the file.
WriteEdited ==
  /\ syn.mode = "idle" /\ syn.job.calls > 0
  /\ LET o == Indirect(12, syn.job.obj)
     IN  syn' = Reading("core", "head", [kind |-> "object", obj |-> o], WriteObject(o))
\* A file goes on after an object: the parser looks at 20 characters.
MoreFile == [i \in 1 .. 12 |-> " "]
\* Objects that are no dictionaries, and streams.
WriteOther ==
  /\ syn = SynIdle
  /\ \E lib \in {"core", "fdf"} :
       \E o \in {Indirect(7, v) : v \in SynValues}
                  \cup {StreamOf(7, DictSet(EmptyDict, LengthKey, IntObject(Len(s))), s) : s \in SynData} :
         syn' = Reading(lib, "head", [kind |-> "object", obj |-> o], WriteObject(o) \o MoreFile)

EditNext ==
  \/ EditSet
  \/ EditSetIfNotNil
  \/ EditRemove
  \/ EditMerge
  \/ EditClear
  \/ EditArray
  \/ WriteEdited
  \/ WriteOther

(***************************************************************************)
(* The same objects as another program writes them.                        *)
(***************************************************************************)
Octal3(c) == <<"\\", Digits[(Ascii[c] \div 64) + 1], Digits[((Ascii[c] \div 8) % 8) + 1], Digits[(Ascii[c] % 8) + 1]>>
HexName(c) == <<"#">> \o Hex2(c)
Upper(cs) == [i \in DOMAIN cs |-> UpperHex[HexOf[cs[i]] + 1]]
\* A last digit 0 of a hexadecimal string may be left out.
ButLastZero(cs) == IF cs # << >> /\ Last(cs) = "0" THEN Front(cs) ELSE cs
\* Parentheses in pairs may stand as they are.
Paired(cs) ==
  LET depth[i \in 0 .. Len(cs)] == IF i = 0 THEN 0
                                   ELSE depth[i - 1] + (IF cs[i] = "(" THEN 1 ELSE 0) - (IF cs[i] = ")" THEN 1 ELSE 0)
  IN  (\A i \in DOMAIN cs : depth[i] >= 0) /\ depth[Len(cs)] = 0
OctalOr(c) == IF c \in {"(", ")"} THEN <<c>> ELSE Octal3(c)
\* Numbers with a sign and zeros in front, every character of strings and names by its number.
Respelled(o) ==
  CASE o.k = "int" -> <<IF o.n < 0 THEN "-" ELSE "+", "0">> \o WriteInt(IF o.n < 0 THEN -o.n ELSE o.n)
    [] o.k = "real" -> WriteInt(o.milli) \o <<"e", "-", "3">>
    [] o.k = "name" -> <<"/">> \o Spell(o.name, HexName)
    [] o.k = "str" /\ o.hex -> <<"<">> \o ButLastZero(Upper(Spell(o.s, Hex2))) \o <<">">>
    [] o.k = "str" /\ ~o.hex /\ Paired(o.s) -> <<"(">> \o Spell(o.s, OctalOr) \o <<")">>
    [] o.k = "str" /\ ~o.hex /\ ~Paired(o.s) -> <<"(">> \o Spell(o.s, Octal3) \o <<")">>
    [] OTHER -> WriteString(o)

RECURSIVE Laid(_, _)
\* The gap wherever a token ends.
Laid(o, gap) ==
  CASE o.k = "array" -> <<"[">> \o gap \o Joined([i \in DOMAIN o.items |-> Laid(o.items[i], gap) \o gap]) \o <<"]">>
    [] o.k = "dict" ->
         <<"<", "<">> \o gap
           \o Joined([i \in DOMAIN o.keys |->
                        Respelled(NameObject(o.keys[i])) \o gap \o Laid(o.vals[o.keys[i]], gap) \o gap])
           \o <<">", ">">>
    [] OTHER -> Respelled(o)

ReadForeign ==
  /\ syn = SynIdle
  /\ \E lib \in {"core", "fdf"}, v \in SynValues \cup SynMerged, gap \in Gaps :
       syn' = Reading(lib, "object", [kind |-> "laid", obj |-> v, gap |-> gap], gap \o Laid(v, gap) \o <<" ">>)

\* Any text; what has been read of it is written, and read once more.
ReadAny == /\ syn = SynIdle
           /\ \E lib \in {"core", "fdf"}, text \in SynTexts :
                syn' = Reading(lib, "object", [kind |-> "any", obj |-> Absent], text)
WriteRead ==
  /\ syn.mode = "done" /\ syn.job.kind = "any"
  /\ LET o == Indirect(7, syn.val)
     IN  syn' = Reading(syn.lib, "head", [kind |-> "object", obj |-> o], WriteObject(o) \o MoreFile)

(***************************************************************************)
(* What the reader owes the writer.                                        *)
(***************************************************************************)
RECURSIVE Parts(_)
\* The object and all it is made of.
Parts(o) ==
  {o} \cup CASE o.k = "array" -> UNION {Parts(o.items[i]) : i \in DOMAIN o.items}
             [] o.k = "dict" -> UNION {Parts(o.vals[n]) : n \in DOMAIN o.vals}
             [] o.k = "stream" -> Parts(o.dict)
             [] o.k = "indirect" -> Parts(o.obj)
             [] OTHER -> {}

RECURSIVE Normal(_)
\* What comes back: a real number that is whole comes back as an integer.
Normal(o) ==
  CASE o.k = "real" /\ o.milli % 1000 = 0 -> IntObject(o.milli \div 1000)
    [] o.k = "array" -> ArrayObject([i \in DOMAIN o.items |-> Normal(o.items[i])])
    [] o.k = "dict" -> [o EXCEPT !.vals = [n \in DOMAIN @ |-> Normal(@[n])]]
    [] o.k = "indirect" -> Indirect(o.num, Normal(o.obj))
    [] OTHER -> o

\* A key that ends with null and has a name for its value is read wrong.
NullKeys(o) ==
  \E d \in {p \in Parts(o) : p.k = "dict"} :
    \E n \in DOMAIN d.vals : Len(n) > 4 /\ IsSuffix(NullSuffix, n) /\ d.vals[n].k = "name"
\* A reference longer than what the parser looks at is no reference to it.
LongReference(o) == \E r \in {p \in Parts(o) : p.k = "ref"} : Len(WriteString(r)) > Lookahead

\* Whatever calls made an object, it is read as it was written (parser.go:1418, writer.go:683); the exceptions are
\* keys that end with null before a name (parser.go:662) and references of more than 15 characters (parser.go:572).
RoundTrip ==
  syn.job.kind = "object" /\ syn.mode \in {"done", "error"} /\ ~NullKeys(syn.job.obj) /\ ~LongReference(syn.job.obj)
    => syn.mode = "done" /\ syn.val = Normal(syn.job.obj)

HasComment(gap) == "%" \in ToSet(gap)
\* A comment directly after a name becomes part of it (parser.go:222).
NameSwallows(o, gap) == Head(gap) = "%" /\ \E p \in Parts(o) : p.k \in {"name", "dict"} /\ p # EmptyDict
\* Blanks and comments between tokens, and other spellings of characters and numbers, change nothing, except that
\* an array with a comment before its end is refused (parser.go:463 looks for ] before it passes comments over).
LaidTheSame ==
  syn.job.kind = "laid" /\ syn.mode \in {"done", "error"}
    /\ ~NullKeys(syn.job.obj) /\ ~NameSwallows(syn.job.obj, syn.job.gap)
    => IF HasComment(syn.job.gap) /\ \E p \in Parts(syn.job.obj) : p.k = "array" THEN syn.mode = "error"
       ELSE LongReference(syn.job.obj) \/ (syn.mode = "done" /\ syn.val = syn.job.obj)

\* What the parser has read of an array took at least as many characters; an item that begins with a comma counts
\* as a number without a digit and takes none, for ever (parser.go:30, 463).
Consumes ==
  \A i \in DOMAIN syn.stack :
    syn.stack[i].f = "array" => Len(syn.stack[i].items) < syn.at \/ "," \in ToSet(syn.text)

DictInOrder(d) == ToSet(d.keys) = DOMAIN d.vals /\ Len(d.keys) = Cardinality(DOMAIN d.vals)
\* The list of keys and the map of values stay each other's (primitives.go:648, 692).
KeysMatch ==
  /\ \A d \in {p \in Parts(syn.job.obj) : p.k = "dict"} : DictInOrder(d)
  /\ \A i \in DOMAIN syn.stack : syn.stack[i].f = "dict" => DictInOrder(syn.stack[i].dict)
=============================================================================

------------------------------ MODULE FormData ------------------------------
(***************************************************************************)
(* FDF files: the values of form fields (fdf/fielddata.go, Root and trace  *)
(* of fdf/parser.go).  A sheet is what a program exports: its fields, and  *)
(* how the file is laid out.  Keys are abbreviated: F is FDF, Fs Fields,   *)
(* Rt Root.                                                                *)
(***************************************************************************)
EXTENDS Primitives
LOCAL INSTANCE SequencesExt
LOCAL INSTANCE FiniteSetsExt

CONSTANT Sheets  \* [fields: sequence of [t, v, byRef], list: "direct" or "byRef", fdf: "direct" or "byRef",
                 \*  trailer: "full", "rootless" or "broken", before: characters, last: "dict", "stream", "number"]

KeyT == <<"T">>
KeyV == <<"V">>
KeyFields == <<"F", "s">>
KeyFdf == <<"F">>
KeyRoot == <<"R", "t">>

(***************************************************************************)
(* From the objects of a file to the fields' values.                       *)
(***************************************************************************)
\* trace: one step, to an indirect object.
FdfTrace(objs, o) ==
  IF o.k = "indirect" THEN o.obj
  ELSE IF o.k # "ref" THEN o
  ELSE IF o.num \in DOMAIN objs /\ objs[o.num].k = "indirect" THEN objs[o.num].obj ELSE Absent

Entry(o, key) == IF o.k = "dict" /\ key \in DOMAIN o.vals THEN o.vals[key] ELSE Absent

\* The FDF dictionary of an object; Absent if it has none.
FdfOf(objs, o) ==
  LET d == FdfTrace(objs, Entry(FdfTrace(objs, o), KeyFdf))
  IN  IF d.k = "dict" THEN d ELSE Absent

\* Mutant of FdfRoot.
FdfRootTrailerOnly(objs, trailer) == FdfOf(objs, Entry(trailer, KeyRoot))
\* Root: by the trailer, otherwise the first object with an FDF dictionary.
FdfRoot(objs, trailer) ==
  LET fromTrailer == FdfOf(objs, Entry(trailer, KeyRoot))
      others == {n \in DOMAIN objs : FdfOf(objs, objs[n]) # Absent}
  IN  IF fromTrailer # Absent THEN fromTrailer
      ELSE IF others # {} THEN FdfOf(objs, objs[Min(others)]) ELSE Absent

NoObjects == [x \in {} |-> Absent]
NameOf(field) == GetOf(NoObjects, Entry(field, KeyT), "str")
\* Mutant of FieldAdded.
FieldAddedFirst(m, field) ==
  IF field = Absent \/ NameOf(field) = Absent \/ NameOf(field).s \in DOMAIN m THEN m
  ELSE [n \in DOMAIN m \cup {NameOf(field).s} |-> IF n \in DOMAIN m THEN m[n] ELSE field]
FieldAdded(m, field) ==
  IF field = Absent \/ NameOf(field) = Absent THEN m
  ELSE [n \in DOMAIN m \cup {NameOf(field).s} |-> IF n = NameOf(field).s THEN field ELSE m[n]]

\* FieldDictionaries: the last of a name.
FieldDictionaries(fields) ==
  FoldLeft(LAMBDA m, item : FieldAdded(m, GetOf(NoObjects, item, "dict")), [n \in {} |-> EmptyDict], fields.items)

\* FieldValues; the objects know no parser, so that a reference is null.
FieldValues(fields) ==
  LET m == FieldDictionaries(fields)
  IN  [n \in DOMAIN m |-> TraceToDirectObject(NoObjects, Entry(m[n], KeyV))]

\* Load: the fields' values, or a refusal.
LoadFdf(file) ==
  LET fields == GetOf(NoObjects, Entry(FdfRoot(file.objs, file.trailer), KeyFields), "array")
  IN  IF fields # Absent THEN [ok |-> TRUE, values |-> FieldValues(fields)] ELSE [ok |-> FALSE]

(***************************************************************************)
(* The file another program exports.                                       *)
(***************************************************************************)
Version == <<"%", "F", "D", "F", "-", "1", ".", "2", "lf">>
RefTo(n) == [k |-> "ref", num |-> n, gen |-> 0]
DictOf(keys, vals) == FoldLeft(LAMBDA d, i : DictSet(d, keys[i], vals[i]), EmptyDict, [i \in DOMAIN keys |-> i])
FieldOf(f) == DictOf(<<KeyV, KeyT>>, <<IF f.byRef THEN RefTo(4) ELSE f.v, StringObject(f.t, FALSE)>>)
FieldList(sheet) == ArrayObject([i \in DOMAIN sheet.fields |-> FieldOf(sheet.fields[i])])
FdfDict(sheet) == DictOf(<<KeyFields>>, <<IF sheet.list = "byRef" THEN RefTo(3) ELSE FieldList(sheet)>>)
Catalog(sheet) == DictOf(<<KeyFdf>>, <<IF sheet.fdf = "byRef" THEN RefTo(2) ELSE FdfDict(sheet)>>)
LastObject(sheet) ==
  CASE sheet.last = "dict" -> << >>
    [] sheet.last = "number" -> WriteObject(Indirect(9, IntObject(5)))
    [] sheet.last = "stream" -> WriteObject(StreamOf(9, DictOf(<<LengthKey>>, <<IntObject(2)>>), <<"a", "a">>))
Trailer(sheet) ==
  TrailerWord \o <<"lf">>
    \o (IF sheet.trailer = "broken" THEN <<"<">>
        ELSE WriteString(IF sheet.trailer = "full" THEN DictOf(<<KeyRoot>>, <<RefTo(1)>>) ELSE EmptyDict))
    \o <<"lf", "%", "%", "E", "O", "F", "lf", " ", " ", " ", " ", " ", " ", " ">>

WriteFdf(sheet) ==
  sheet.before \o Version
    \o WriteObject(Indirect(3, FieldList(sheet))) \o WriteObject(Indirect(4, IntObject(8)))
    \o WriteObject(Indirect(2, FdfDict(sheet))) \o WriteObject(Indirect(1, Catalog(sheet)))
    \o LastObject(sheet) \o Trailer(sheet)

ReadForm ==
  /\ syn = SynIdle
  /\ \E sheet \in Sheets :
       syn' = Reading("fdf", "begin", [kind |-> "sheet", obj |-> Absent, sheet |-> sheet], WriteFdf(sheet))

SynNext == EditNext \/ ReadForeign \/ ReadAny \/ WriteRead \/ ReadForm \/ SynRead

(***************************************************************************)
(* What a sheet is read as.                                                *)
(***************************************************************************)
Names(sheet) == {f.t : f \in ToSet(sheet.fields)}
LastOf(sheet, t) == sheet.fields[Max({i \in DOMAIN sheet.fields : sheet.fields[i].t = t})]
Expected(sheet) ==
  [t \in Names(sheet) |-> IF LastOf(sheet, t).byRef THEN NullObject ELSE Normal(LastOf(sheet, t).v)]

\* The version is looked for in the first 20 characters and then as PDF's, though parser.go:982 says %FDF; the
\* objects end where there is neither an object nor the trailer within 20 characters, as after a stream or a
\* number, whose endobj stays (parser.go:831, 835).
Refused(sheet) ==
  \/ Len(sheet.before) > 12
  \/ sheet.last # "dict"
  \/ sheet.list = "byRef" \* the list of fields is not looked up (fielddata.go:35)

\* A file that has been exported gives every field the value of its last entry, a reference counting as null,
\* whether the trailer names the catalog or not; files of the kinds named above are refused.
FdfSound ==
  syn.job.kind = "sheet" /\ syn.mode \in {"done", "error"} =>
    LET got == IF syn.mode = "done" THEN LoadFdf(syn.stack[1]) ELSE [ok |-> FALSE]
    IN  IF Refused(syn.job.sheet) THEN ~got.ok ELSE got.ok /\ got.values = Expected(syn.job.sheet)

SyntaxSound == KeysMatch /\ RoundTrip /\ LaidTheSame /\ Consumes /\ FdfSound
=============================================================================

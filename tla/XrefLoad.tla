------------------------------ MODULE XrefLoad ------------------------------
(***************************************************************************)
(* Loading the cross references of a PDF file: core.NewParser calls        *)
(* loadXrefs, which reads the section that startxref points at, the xref   *)
(* stream its trailer names (XRefStm), and then the chain of Prev          *)
(* sections, merging each section's entries into parser.xrefs.ObjectMap.   *)
(*                                                                         *)
(* A file has xref sections at some offsets.  Only what the loader tells   *)
(* apart is kept of a section: what it says of each object, its Prev and   *)
(* XRefStm entries, and whether it can be parsed.  The entry an xref       *)
(* stream has for itself is left out of Objs.                              *)
(*                                                                         *)
(* The Length of an xref stream may be a reference.  It is looked up among *)
(* the entries loaded so far, and such a lookup may repair the table in    *)
(* the middle of the load.  Objs are no streams; what object streams are   *)
(* read through, their own entries included, is in its place.              *)
(***************************************************************************)
EXTENDS Naturals, Sequences, FiniteSets

CONSTANTS
  Objs,      \* object numbers
  Gens,      \* generation numbers
  MaxGen,    \* the largest of them
  FileSize,  \* the length of the file
  Offs,      \* offsets at which the file has an xref section; 0 is none of them
  Files,     \* what the file may have at these offsets
  NoPrev,    \* Prev or XRefStm: the key is missing
  BadPrev,   \* Prev or XRefStm: the value is not an integer
  Nowhere,   \* an offset where no xref section starts
  Nothing,   \* no object is there
  Direct,    \* Length is not a reference
  Outside    \* startxref: an offset past the end of the file

PrevVals == Offs \cup {NoPrev, BadPrev, Nowhere}

\* absent: not listed.  free: 'f' or type 0.  low: in use, at offset 0.
\* used: in use, at an offset.  packed: type 2, inside an object stream.
\* is: the number and the generation of the object that stands there.
EntryKinds == {"absent", "free", "low", "used", "packed"}
Places == (Objs \X Gens) \cup {Nothing}
Entry == [t : EntryKinds, gen : Gens, is : Places]

\* status "late": an error after the entries, a table without a trailer, a
\* stream whose data ends in the middle of one; "bad": an error before them;
\* "unreadable": nothing of the section can be read.
Section == [kind   : {"table", "stream"},
            status : {"ok", "late", "bad", "unreadable"},
            len    : Objs \cup {Direct},
            ent    : [Objs -> Entry],
            prev   : PrevVals,
            stm    : PrevVals]

\* objs: where the file has "number generation obj".  ints: the objects that
\* are integers.  broken: those that cannot be parsed.
File == [sec : [Offs -> Section], objs : SUBSET (Objs \X Gens),
         ints : SUBSET Objs, broken : SUBSET Objs]

ASSUME Assumptions ==
  /\ Objs \subseteq Nat
  /\ MaxGen \in Nat /\ Gens \subseteq 0 .. MaxGen /\ 0 \in Gens
  /\ FileSize \in Nat /\ Offs \subseteq 1 .. FileSize
  /\ Files \subseteq File
  /\ {NoPrev, BadPrev, Nowhere, Outside} \cap Offs = {}
  /\ NoPrev \notin {BadPrev, Nowhere, Outside}
  /\ Nowhere # BadPrev
  /\ Direct \notin Objs

\* What an entry leads to is in the file.
ASSUME WellPlaced ==
  /\ Nothing \notin Objs \X Gens
  /\ \A f \in Files, off \in Offs, o \in Objs :
       LET e == f.sec[off].ent[o]
       IN  /\ e.t \in {"low", "used"} => e.is \in f.objs \cup {Nothing}
           /\ e.t = "packed" => e.is \in {<<o, 0>>, Nothing}

VARIABLES
  file,       \* one of Files, the file being read, never changes
  startxref,  \* the offset after the last startxref
  pc,         \* what loadXrefs does next
  next,       \* the Prev value about to be followed (xx in loadXrefs)
  prevList,   \* Prev values seen so far, the loop guard
  xrefs,      \* parser.xrefs.ObjectMap
  sorted,     \* parser.xrefs.sortedObjects, {} when not computed yet
  cache,      \* parser.ObjCache: where an object was read, or Nothing
  tried,      \* parser.repairsAttempted
  inLookup,   \* parser.streamLengthReferenceLookupInProgress
  loaded,     \* history: the offsets of the sections merged, in order
  basis       \* history: the table a repair put in place last, and how many
              \* sections were merged before

tables == <<xrefs, sorted, cache, tried, inLookup, loaded, basis>>
vars == <<file, startxref, pc, next, prevList, tables>>

-----------------------------------------------------------------------------
(* XrefObject.  "at" is the section that located the object (its offset is  *)
(* in that revision of the file), 0 when the recorded offset is 0, Nowhere  *)
(* when no section did; "is" is what stands there.                          *)
XrefObject == [type : {"n", "c"}, gen : Gens, at : Offs \cup {0, Nowhere}, is : Places]
NoXref == [type |-> "-", gen |-> 0, at |-> 0, is |-> Nothing]
XrefTable == [Objs -> XrefObject \cup {NoXref}]

(* What the section at off offers for object o.  A table skips free entries *)
(* and in-use entries with an offset of 0 or 1; a stream takes the latter.  *)
Offered(off, o) ==
  LET e == file.sec[off].ent[o]
  IN  CASE e.t = "used" -> [type |-> "n", gen |-> e.gen, at |-> off, is |-> e.is]
        [] e.t = "low" /\ file.sec[off].kind = "stream" ->
             [type |-> "n", gen |-> e.gen, at |-> 0, is |-> e.is]
        [] e.t = "packed" /\ file.sec[off].kind = "stream" ->
             [type |-> "c", gen |-> 0, at |-> off, is |-> e.is]
        [] OTHER -> NoXref

\* Mutants of Merge: the generation test forgotten; the last section read wins.
MergeIgnoresGen(cur, new) == IF cur = NoXref THEN new ELSE cur
MergeLastWins(cur, new) == IF new # NoXref THEN new ELSE cur

(* An in-use entry is loaded if the object is unknown or if its generation  *)
(* is higher; a compressed one only if the object is unknown.               *)
Merge(cur, new) ==
  IF /\ new # NoXref
     /\ cur = NoXref \/ (new.type = "n" /\ new.gen > cur.gen)
  THEN new
  ELSE cur

\* Mutant of Merged: what a repair put in place is lost.
MergedBefore(table, off) == [o \in Objs |-> Merge(xrefs[o], Offered(off, o))]

\* The section at off, merged into a table.
Merged(table, off) == [o \in Objs |-> Merge(table[o], Offered(off, o))]

(* xrefNextObjectOffset: called when a stream object is parsed, sorts the   *)
(* objects known at that moment and keeps the list.                         *)
SortedAfterStream(table, list) ==
  IF list = {}
  THEN {o \in Objs : table[o].type = "n" /\ table[o].at # 0}
  ELSE list

-----------------------------------------------------------------------------
(* Looking up an object in the middle of the load.  got: "found", and then  *)
(* it is in the cache, "null" or "error".  mended: the table was replaced.  *)
Result(table, c, t, got, mended) ==
  [table |-> table, cache |-> c, tried |-> t, got |-> got, mended |-> mended]

Whole(place) == place # Nothing /\ place[1] \notin file.broken

\* repairRebuildXrefsTopDown: the highest generation of every object.
Scanned ==
  [o \in Objs |->
     LET gens == {g \in Gens : <<o, g>> \in file.objs}
     IN  IF gens = {} THEN NoXref
         ELSE LET top == CHOOSE g \in gens : \A h \in gens : h <= g
              IN  [type |-> "n", gen |-> top, at |-> Nowhere, is |-> <<o, top>>]]

\* lookupByNumber, without repairs, in a new table.
LookupOnce(table, c, t, o) ==
  IF table[o] = NoXref THEN Result(table, c, t, "null", TRUE)
  ELSE IF Whole(table[o].is)
  THEN Result(table, [c EXCEPT ![o] = table[o].is], t, "found", TRUE)
  ELSE Result(table, c, t, "error", TRUE)

\* rebuildXrefTable: every entry goes to the number of the object it leads to,
\* in the order of a Go map.  If one leads to none the file is scanned, but
\* once only; what was looked up till then stays in the cache.
Stands(o) == IF cache[o] # Nothing THEN cache[o] ELSE xrefs[o].is
Known == {o \in Objs : xrefs[o] # NoXref}
Readable == {o \in Known : cache[o] # Nothing \/ Whole(xrefs[o].is)}
Renumbered ==
  {table \in [Objs -> {NoXref} \cup {[xrefs[o] EXCEPT !.gen = Stands(o)[2]] : o \in Known}] :
     \A m \in Objs :
       LET from == {o \in Known : Stands(o)[1] = m}
       IN  IF from = {} THEN table[m] = NoXref
           ELSE \E o \in from : table[m] = [xrefs[o] EXCEPT !.gen = Stands(o)[2]]}
NoCache == [o \in Objs |-> Nothing]
Rebuilt(o) ==
  IF Readable = Known
  THEN {LookupOnce(table, NoCache, tried, o) : table \in Renumbered}
  ELSE IF ~tried
  THEN {LookupOnce(Scanned, NoCache, TRUE, o)}
  ELSE {Result(xrefs, [m \in Objs |-> IF m \in S THEN Stands(m) ELSE cache[m]],
               tried, "error", FALSE) : S \in SUBSET Readable}

\* LookupByNumber.  An entry that leads to no object has the file scanned, one
\* that leads to another object has the table rebuilt.
Lookup(o) ==
  LET is == xrefs[o].is
  IN  IF cache[o] # Nothing THEN {Result(xrefs, cache, tried, "found", FALSE)}
      ELSE IF xrefs[o] = NoXref THEN {Result(xrefs, cache, tried, "null", FALSE)}
      ELSE IF ~Whole(is)
      THEN IF tried \/ xrefs[o].type = "c"
           THEN {Result(xrefs, cache, tried, "error", FALSE)}
           ELSE {LookupOnce(Scanned, cache, TRUE, o)}
      ELSE IF is[1] = o
      THEN {Result(xrefs, [cache EXCEPT ![o] = is], tried, "found", FALSE)}
      ELSE Rebuilt(o)

\* traceStreamLength: a lookup that failed is not tried again.
Unchanged(got) == Result(xrefs, cache, tried, got, FALSE)
Lengths(off) ==
  LET s == file.sec[off]
  IN  IF s.kind = "table" \/ s.status = "unreadable" \/ s.len = Direct
      THEN {Unchanged("direct")}
      ELSE IF s.len \in inLookup THEN {Unchanged("error")}
      ELSE Lookup(s.len)

\* It has to be an integer.
LengthRead(off, r) ==
  \/ r.got = "direct"
  \/ r.got = "found" /\ r.cache[file.sec[off].len][1] \in file.ints

(* repairSeekXrefMarker: the last xref table of the file, 0 if none.        *)
Tables == {off \in Offs : file.sec[off].kind = "table"}
LastTable ==
  IF Tables = {} THEN 0 ELSE CHOOSE t \in Tables : \A u \in Tables : u <= t

(* parseXref at an offset: the section there, or the repair's choice.       *)
Target(v) == IF v \in Offs THEN v ELSE LastTable

(* The effect of parseXrefTable / parseXrefStream on the section at off, r  *)
(* being what looking up its Length gave and left: a table is merged while  *)
(* it is read, its trailer comes last; a stream is checked before its first *)
(* entry is used, but not that its data ends with an entry.                 *)
ParseSection(off, r) ==
  LET s      == file.sec[off]
      merges == s.status \in {"ok", "late"} /\ LengthRead(off, r)
      list   == IF r.mended THEN {} ELSE sorted
  IN  /\ xrefs'  = IF merges THEN Merged(r.table, off) ELSE r.table
      /\ loaded' = IF merges THEN Append(loaded, off) ELSE loaded
      /\ sorted' = IF s.kind = "stream" /\ s.status # "unreadable" /\ LengthRead(off, r)
                   THEN SortedAfterStream(r.table, list) ELSE list
      /\ cache' = r.cache
      /\ tried' = r.tried
      /\ inLookup' = IF r.got = "error" THEN inLookup \cup {s.len} ELSE inLookup
      /\ basis' = IF r.mended THEN [table |-> r.table, from |-> Len(loaded)] ELSE basis

ParseOK(off, r) == file.sec[off].status = "ok" /\ LengthRead(off, r)

-----------------------------------------------------------------------------
Init ==
  /\ file \in Files
  /\ startxref \in Offs \cup {Nowhere, Outside}
  /\ pc = "main"
  /\ next = NoPrev
  /\ prevList = {}
  /\ xrefs = [o \in Objs |-> NoXref]
  /\ sorted = {}
  /\ cache = NoCache
  /\ tried = FALSE
  /\ inLookup = {}
  /\ loaded = << >>
  /\ basis = [table |-> xrefs, from |-> 0]

(* Read the section at startxref.  Any error ends the load.                 *)
ReadMain ==
  LET off == Target(startxref)
  IN  /\ pc = "main"
      /\ off # 0
      /\ \E r \in Lengths(off) :
           /\ ParseSection(off, r)
           /\ pc' = IF ParseOK(off, r) THEN "xrefstm" ELSE "failed"
      /\ next' = file.sec[off].prev
      /\ UNCHANGED <<file, startxref, prevList>>

(* No table to fall back on.  For an offset outside the file                *)
(* repairLocateXref only looks through the end of the file, and may miss    *)
(* the last table.                                                          *)
NoMain ==
  /\ pc = "main"
  /\ Target(startxref) = 0 \/ startxref = Outside
  /\ pc' = "failed"
  /\ UNCHANGED <<file, startxref, next, prevList, tables>>

(* Read the xref stream named by the XRefStm entry of the main trailer.     *)
(* parseXrefStream goes to that offset without the repair of parseXref and  *)
(* fails on anything but a stream.                                          *)
ReadXRefStm ==
  LET stm == file.sec[Target(startxref)].stm
  IN  /\ pc = "xrefstm"
      /\ CASE stm = NoPrev ->
                pc' = "prev" /\ UNCHANGED tables
           [] stm \in Offs /\ file.sec[stm].kind = "stream" ->
                \E r \in Lengths(stm) :
                  /\ ParseSection(stm, r)
                  /\ pc' = IF ParseOK(stm, r) THEN "prev" ELSE "failed"
           [] OTHER ->
                pc' = "failed" /\ UNCHANGED tables
      /\ UNCHANGED <<file, startxref, next, prevList>>

\* Mutants of RecordPrev: nothing is recorded; a missing Prev is recorded too.
RecordNothing(p) == prevList
RecordAnything(p) == prevList \cup {p}

\* prevList = append(prevList, prevoff), unless there is no Prev.
RecordPrev(p) == prevList \cup ({p} \ {NoPrev})

(* One round of the Prev loop.  A section that cannot be read ends the loop *)
(* and keeps what is loaded; a Prev that was seen before ends it too; a     *)
(* Prev that is not an integer fails the unchecked type assertion.          *)
FollowPrev ==
  LET off == Target(next)
      p   == file.sec[off].prev
  IN  /\ pc = "prev"
      /\ next \notin {NoPrev, BadPrev}
      /\ IF off = 0
         THEN pc' = "end" /\ UNCHANGED <<next, prevList, tables>>
         ELSE \E r \in Lengths(off) :
              /\ ParseSection(off, r)
              /\ IF ~ParseOK(off, r)
                 THEN pc' = "end" /\ UNCHANGED <<next, prevList>>
                 ELSE CASE p = BadPrev ->
                             pc' = "panic" /\ UNCHANGED <<next, prevList>>
                        [] p \in prevList ->
                             pc' = "end" /\ next' = p /\ UNCHANGED prevList
                        [] OTHER ->
                             /\ next' = p
                             /\ prevList' = RecordPrev(p)
                             /\ UNCHANGED pc
      /\ UNCHANGED <<file, startxref>>

\* Mutant of EndOfChain: the type of the main trailer's Prev is not checked.
EndOfChainUnchecked ==
  /\ pc = "prev"
  /\ next = NoPrev
  /\ pc' = "end"
  /\ UNCHANGED <<file, startxref, next, prevList, tables>>

(* The loop's exits on the value of Prev: none, or the main trailer's Prev  *)
(* is not an integer and is ignored.                                        *)
EndOfChain ==
  /\ pc = "prev"
  /\ next \in {NoPrev, BadPrev}
  /\ pc' = "end"
  /\ UNCHANGED <<file, startxref, next, prevList, tables>>

(* NewParser refuses a file whose table is empty.                           *)
Finish ==
  /\ pc = "end"
  /\ pc' = IF \A o \in Objs : xrefs[o] = NoXref THEN "failed" ELSE "done"
  /\ UNCHANGED <<file, startxref, next, prevList, tables>>

Next == ReadMain \/ NoMain \/ ReadXRefStm \/ FollowPrev \/ EndOfChain \/ Finish

Spec == Init /\ [][Next]_vars

\* The loader is one sequential call: it takes its next step until it returns.
FairSpec == Spec /\ WF_vars(Next)

-----------------------------------------------------------------------------
TypeOK ==
  /\ file \in File
  /\ startxref \in Offs \cup {Nowhere, Outside}
  /\ pc \in {"main", "xrefstm", "prev", "end", "done", "failed", "panic"}
  /\ next \in PrevVals
  /\ prevList \in SUBSET (Offs \cup {Nowhere})
  /\ xrefs \in XrefTable
  /\ sorted \in SUBSET Objs
  /\ cache \in [Objs -> Places]
  /\ tried \in BOOLEAN
  /\ inLookup \in SUBSET Objs
  /\ loaded \in Seq(Offs)
  /\ basis \in [table : XrefTable, from : 0 .. Len(loaded)]

\* What was read of an object, in order: the repaired table, if there is one,
\* and the sections merged since.
Reads == 0 .. (Len(loaded) - basis.from)
Read(i, o) ==
  IF i = 0 THEN basis.table[o] ELSE Offered(loaded[basis.from + i], o)

(* Precedence (comment on loadXrefs: the sections read first win; comment   *)
(* in parseXrefTable: unless a later one has a higher generation).  At any  *)
(* moment the entry of an object is the first one, in reading order, among  *)
(* the entries of the highest generation of all that was read so far, and   *)
(* an object is unknown only if nothing offers it.  A section that fails    *)
(* after its entries counts as read; a table that was repaired while a      *)
(* Length was looked up counts as what was read first.                      *)
Precedence ==
  \A o \in Objs :
    IF xrefs[o] = NoXref
    THEN \A i \in Reads : Read(i, o) = NoXref
    ELSE \E i \in Reads :
           /\ Read(i, o) = xrefs[o]
           /\ \A j \in Reads :
                LET x == Read(j, o)
                IN  x # NoXref => IF j < i THEN x.gen < xrefs[o].gen
                                           ELSE x.gen <= xrefs[o].gen

(* The circularity guard of the Prev loop ("Prevent circular reference!"):  *)
(* however the Prev entries are linked, a load merges at most one section   *)
(* per distinct Prev value, plus the main one, its XRefStm and the first    *)
(* Prev, which loadXrefs does not record.                                   *)
BoundedLoad == Len(loaded) <= Cardinality(prevList) + 3

(* loadXrefs returns on every file, circular or damaged.                    *)
Terminates == <>(pc \in {"done", "failed", "panic"})

(* What the loader has merged it keeps: a later section, whole or not,      *)
(* never makes an object unknown again and never lowers its generation.     *)
(* Only a repair of the whole table does.                                   *)
NeverForgets ==
  [][basis' = basis =>
       \A o \in Objs : xrefs[o] # NoXref =>
         xrefs'[o] # NoXref /\ xrefs'[o].gen >= xrefs[o].gen]_vars

(* The comment on loadXrefs, "The earlier xrefs have higher precedence.  If *)
(* objects already loaded will ignore older versions", read for an object   *)
(* that the newest section frees, in a file without an XRefStm: it is not   *)
(* in the table.                                                            *)
FreedStaysFree ==
  LET main == file.sec[Target(startxref)]
  IN  pc = "done" /\ main.stm = NoPrev =>
        \A o \in Objs : main.ent[o].t = "free" => xrefs[o] = NoXref

(* The comment on sortedObjects, "List of objects sorted by offset (only    *)
(* objects with offsets, not ones in streams)": once loading is over, a     *)
(* list that was computed has every object that has an offset.              *)
SortedComplete ==
  pc = "done" /\ sorted # {} =>
    {o \in Objs : xrefs[o].type = "n" /\ xrefs[o].at # 0} \subseteq sorted

(* The comment "For compatibility: If Prev is invalid, just go with         *)
(* whatever xrefs are loaded already": no Prev value makes the load crash.  *)
InvalidPrevTolerated == pc # "panic"
=============================================================================

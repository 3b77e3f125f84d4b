--------------------------- MODULE XrefLoadProofs ---------------------------
(***************************************************************************)
(* Proofs about XrefLoad, for every file, every set of object numbers and  *)
(* every way the sections are linked.                                      *)
(***************************************************************************)
EXTENDS XrefLoad, FiniteSetTheorems, WellFoundedInduction, TLAPS

(* What a section offers for an object is an XrefObject or nothing.         *)
LEMMA OfferedType ==
  ASSUME NEW off \in Offs, NEW o \in Objs, file \in File
  PROVE  Offered(off, o) \in XrefObject \cup {NoXref}
<1>1. file.sec[off] \in Section
  BY Assumptions DEF File
<1>2. file.sec[off].ent[o] \in Entry
  BY <1>1 DEF Section
<1>3. file.sec[off].ent[o].gen \in Gens /\ 0 \in Gens /\ file.sec[off].ent[o].is \in Places
  BY <1>2, Assumptions DEF Entry
<1> QED
  BY <1>3 DEF Offered, XrefObject, NoXref

(* NoXref is not an XrefObject: its type tells.                             *)
LEMMA NoXrefIsNone == NoXref \notin XrefObject
BY DEF NoXref, XrefObject

(* Merging a section keeps the type of the table.                           *)
LEMMA MergedType ==
  ASSUME NEW off \in Offs, TypeOK, NEW table \in XrefTable
  PROVE  Merged(table, off) \in XrefTable
<1> SUFFICES ASSUME NEW o \in Objs
             PROVE  Merge(table[o], Offered(off, o)) \in XrefObject \cup {NoXref}
  BY DEF Merged, XrefTable
<1> QED
  BY OfferedType DEF Merge, TypeOK, XrefTable

(* Of numbers that are bounded there is a last one.                         *)
LEMMA LastOf ==
  ASSUME NEW n \in Nat, NEW T \in SUBSET (0 .. n), T # {}
  PROVE  \E t \in T : \A u \in T : u <= t
<1> DEFINE FromEnd == {d \in Nat : \E t \in T : d = n - t}
<1>1. FromEnd # {}
  <2>1. PICK t \in T : TRUE
    OBVIOUS
  <2>2. n - t \in FromEnd
    OBVIOUS
  <2> QED
    BY <2>2
<1>2. PICK d \in FromEnd : \A e \in FromEnd : <<e, d>> \notin OpToRel(<, Nat)
  BY <1>1, NatLessThanWellFounded, WFMin
<1>3. PICK t \in T : d = n - t
  BY <1>2
<1>4. ASSUME NEW u \in T
      PROVE  u <= t
  <2>1. n - u \in FromEnd
    OBVIOUS
  <2>2. ~ (n - u < d)
    BY <1>2, <2>1 DEF OpToRel
  <2> QED
    BY <1>3, <2>2
<1> QED
  BY <1>4

(* repairSeekXrefMarker finds a section or nothing: among the tables of a   *)
(* file there is a last one.                                                *)
LEMMA TargetType ==
  ASSUME NEW v
  PROVE  Target(v) \in Offs \cup {0}
<1>0. FileSize \in Nat /\ Offs \subseteq 1 .. FileSize
  BY Assumptions
<1>1. Tables \subseteq Offs /\ Tables \in SUBSET (0 .. FileSize)
  <2>1. Tables \subseteq Offs
    BY DEF Tables
  <2>2. \A t \in Offs : t \in 0 .. FileSize
    BY <1>0
  <2> QED
    BY <2>1, <2>2
<1>2. Tables # {} => \E t \in Tables : \A u \in Tables : u <= t
  BY <1>0, <1>1, LastOf
<1> QED
  BY <1>0, <1>1, <1>2 DEF Target, LastTable

(* Generations are numbers.                                                 *)
LEMMA GenType ==
  ASSUME NEW x \in XrefObject
  PROVE  x.gen \in Nat /\ x.type \in {"n", "c"}
<1>1. x.gen \in Gens /\ x.type \in {"n", "c"}
  BY DEF XrefObject
<1>2. Gens \subseteq Nat
  BY Assumptions
<1> QED
  BY <1>1, <1>2

(* A file that is scanned gives a table: of the generations of an object    *)
(* that the file has there is a highest one.                                *)
LEMMA ScannedType ==
  ASSUME TypeOK
  PROVE  Scanned \in XrefTable
<1> SUFFICES ASSUME NEW o \in Objs
             PROVE  Scanned[o] \in XrefObject \cup {NoXref}
  BY DEF Scanned, XrefTable
<1> DEFINE gens == {g \in Gens : <<o, g>> \in file.objs}
<1>1. CASE gens = {}
  BY <1>1 DEF Scanned
<1>2. CASE gens # {}
  <2> DEFINE top == CHOOSE g \in gens : \A h \in gens : h <= g
  <2>1. top \in gens
    <3>0. MaxGen \in Nat /\ Gens \subseteq 0 .. MaxGen
      BY Assumptions
    <3>1. gens \in SUBSET (0 .. MaxGen)
      BY <3>0
    <3>2. \E t \in gens : \A u \in gens : u <= t
      BY <1>2, <3>0, <3>1, LastOf
    <3> QED
      BY <3>2
  <2>2. Scanned[o] = [type |-> "n", gen |-> top, at |-> Nowhere, is |-> <<o, top>>]
    BY <1>2 DEF Scanned
  <2>3. top \in Gens /\ <<o, top>> \in Places
    <3>1. top \in Gens
      BY <2>1
    <3> HIDE DEF top
    <3> QED
      BY <3>1 DEF Places
  <2> QED
    BY <2>2, <2>3 DEF XrefObject
<1> QED
  BY <1>1, <1>2

(* Every outcome of a lookup has a table, a cache and a flag of their      *)
(* types; without a repair the table is the one there was.                  *)
Outcome ==
  [table : XrefTable, cache : [Objs -> Places], tried : BOOLEAN,
   got : {"direct", "found", "null", "error"}, mended : BOOLEAN]
Fits(r) == r \in Outcome /\ (~r.mended => r.table = xrefs)

LEMMA LookupOnceType ==
  ASSUME NEW table \in XrefTable, NEW c \in [Objs -> Places], NEW t \in BOOLEAN,
         NEW o \in Objs
  PROVE  Fits(LookupOnce(table, c, t, o))
<1>1. table[o].is \in Places
  BY DEF XrefTable, XrefObject, NoXref, Places
<1> QED
  BY <1>1 DEF LookupOnce, Result, Outcome, Fits

LEMMA StandsType ==
  ASSUME TypeOK, NEW o \in Objs
  PROVE  /\ Stands(o) \in Places
         /\ o \in Readable => Stands(o) \in Objs \X Gens
<1>1. xrefs[o].is \in Places
  BY DEF TypeOK, XrefTable, XrefObject, NoXref, Places
<1>2. cache[o] \in Places
  BY DEF TypeOK
<1> QED
  BY <1>1, <1>2 DEF Stands, Readable, Whole, Places

LEMMA RebuiltType ==
  ASSUME TypeOK, NEW o \in Objs, NEW r \in Rebuilt(o)
  PROVE  Fits(r)
<1>1. CASE Readable = Known
  <2>1. PICK table \in Renumbered : r = LookupOnce(table, NoCache, tried, o)
    BY <1>1 DEF Rebuilt
  <2>2. \A m \in Known : [xrefs[m] EXCEPT !.gen = Stands(m)[2]] \in XrefObject
    <3> SUFFICES ASSUME NEW m \in Known
                 PROVE  [xrefs[m] EXCEPT !.gen = Stands(m)[2]] \in XrefObject
      OBVIOUS
    <3>1. Stands(m)[2] \in Gens
      BY <1>1, StandsType DEF Known
    <3>2. xrefs[m] \in XrefObject
      BY DEF Known, TypeOK, XrefTable
    <3> QED
      BY <3>1, <3>2 DEF XrefObject
  <2>3. table \in XrefTable
    BY <2>2 DEF Renumbered, XrefTable
  <2>4. NoCache \in [Objs -> Places] /\ tried \in BOOLEAN
    BY DEF NoCache, Places, TypeOK
  <2> QED
    BY <2>1, <2>3, <2>4, LookupOnceType
<1>2. CASE Readable # Known /\ ~tried
  <2>1. r = LookupOnce(Scanned, NoCache, TRUE, o)
    BY <1>2 DEF Rebuilt
  <2>2. NoCache \in [Objs -> Places]
    BY DEF NoCache, Places
  <2> QED
    BY <2>1, <2>2, ScannedType, LookupOnceType
<1>3. CASE Readable # Known /\ tried
  <2>1. PICK S \in SUBSET Readable :
          r = Result(xrefs, [m \in Objs |-> IF m \in S THEN Stands(m) ELSE cache[m]],
                     tried, "error", FALSE)
    BY <1>3 DEF Rebuilt
  <2>2. [m \in Objs |-> IF m \in S THEN Stands(m) ELSE cache[m]] \in [Objs -> Places]
    BY StandsType DEF TypeOK
  <2> QED
    BY <2>1, <2>2 DEF Result, Fits, Outcome, TypeOK
<1> QED
  BY <1>1, <1>2, <1>3

LEMMA LookupType ==
  ASSUME TypeOK, NEW o \in Objs, NEW r \in Lookup(o)
  PROVE  Fits(r)
<1>1. /\ xrefs \in XrefTable /\ cache \in [Objs -> Places] /\ tried \in BOOLEAN
      /\ xrefs[o].is \in Places
  BY DEF TypeOK, XrefTable, XrefObject, NoXref, Places
<1>2. CASE \E got \in {"found", "null", "error"} : r = Result(xrefs, cache, tried, got, FALSE)
  BY <1>1, <1>2 DEF Result, Fits, Outcome
<1>3. CASE r = LookupOnce(Scanned, cache, TRUE, o)
  BY <1>1, <1>3, ScannedType, LookupOnceType
<1>4. CASE r = Result(xrefs, [cache EXCEPT ![o] = xrefs[o].is], tried, "found", FALSE)
  BY <1>1, <1>4 DEF Result, Fits, Outcome
<1>5. CASE r \in Rebuilt(o)
  BY <1>5, RebuiltType
<1> QED
  BY <1>2, <1>3, <1>4, <1>5 DEF Lookup

LEMMA LengthsType ==
  ASSUME TypeOK, NEW off \in Offs, NEW r \in Lengths(off)
  PROVE  Fits(r) /\ (r.got = "error" => file.sec[off].len \in Objs)
<1>1. file.sec[off].len \in Objs \cup {Direct}
  BY DEF TypeOK, File, Section
<1>2. CASE \E got \in {"direct", "error"} : r = Unchanged(got)
  BY <1>1, <1>2 DEF Unchanged, Result, Fits, Outcome, TypeOK, Lengths
<1>3. CASE file.sec[off].len \in Objs /\ r \in Lookup(file.sec[off].len)
  BY <1>3, LookupType
<1> QED
  BY <1>1, <1>2, <1>3 DEF Lengths

(* What parsing a section does to the table, the history and the list.      *)
TablesOK ==
  /\ xrefs \in XrefTable
  /\ sorted \in SUBSET Objs
  /\ cache \in [Objs -> Places]
  /\ tried \in BOOLEAN
  /\ inLookup \in SUBSET Objs
  /\ loaded \in Seq(Offs)
  /\ basis \in [table : XrefTable, from : 0 .. Len(loaded)]

LEMMA ParseSectionType ==
  ASSUME NEW off \in Offs, TypeOK, NEW r \in Lengths(off), ParseSection(off, r)
  PROVE  TablesOK'
<1>1. /\ r.table \in XrefTable /\ r.cache \in [Objs -> Places] /\ r.tried \in BOOLEAN
      /\ r.got = "error" => file.sec[off].len \in Objs
  BY LengthsType DEF Fits, Outcome
<1>2. xrefs' \in XrefTable
  BY <1>1, MergedType DEF ParseSection
<1>3. loaded' \in Seq(Offs) /\ Len(loaded) \in Nat /\ Len(loaded') \in {Len(loaded), Len(loaded) + 1}
  BY DEF TypeOK, ParseSection
<1>4. sorted' \in SUBSET Objs
  BY DEF TypeOK, SortedAfterStream, ParseSection
<1>5. inLookup' \in SUBSET Objs
  BY <1>1 DEF TypeOK, ParseSection
<1>6. basis' \in [table : XrefTable, from : 0 .. Len(loaded')]
  <2>1. Len(loaded) \in 0 .. Len(loaded') /\ (0 .. Len(loaded)) \subseteq 0 .. Len(loaded')
    BY <1>3
  <2>2. CASE r.mended
    BY <1>1, <2>1, <2>2 DEF ParseSection
  <2>3. CASE ~r.mended
    BY <2>1, <2>3 DEF ParseSection, TypeOK
  <2> QED
    BY <2>2, <2>3
<1> QED
  BY <1>1, <1>2, <1>3, <1>4, <1>5, <1>6 DEF TablesOK, ParseSection

(* The Prev of a section is one of the values a Prev can have.              *)
LEMMA PrevType ==
  ASSUME NEW off \in Offs, file \in File
  PROVE  file.sec[off].prev \in PrevVals /\ file.sec[off].stm \in PrevVals
BY DEF File, Section

(* Every step of the loader keeps the types.                                *)
LEMMA TypeStep == TypeOK /\ [Next]_vars => TypeOK'
<1> SUFFICES ASSUME TypeOK, [Next]_vars
             PROVE  TypeOK'
  OBVIOUS
<1>0. TypeOK <=> /\ file \in File /\ startxref \in Offs \cup {Nowhere, Outside}
                 /\ pc \in {"main", "xrefstm", "prev", "end", "done", "failed", "panic"}
                 /\ next \in PrevVals /\ prevList \in SUBSET (Offs \cup {Nowhere})
                 /\ TablesOK
  BY DEF TypeOK, TablesOK
<1>k. UNCHANGED tables => TablesOK'
  BY <1>0 DEF tables, TablesOK
<1>1. CASE ReadMain
  <2> DEFINE off == Target(startxref)
  <2>1. off \in Offs
    BY <1>1, TargetType DEF ReadMain
  <2>2. file.sec[off].prev \in PrevVals
    BY <2>1, PrevType DEF TypeOK
  <2>3. TablesOK'
    BY <1>1, <2>1, ParseSectionType DEF ReadMain
  <2> QED
    BY <1>0, <1>1, <2>2, <2>3 DEF ReadMain, TypeOK, TablesOK
<1>2. CASE NoMain
  BY <1>0, <1>k, <1>2 DEF NoMain, TypeOK, TablesOK
<1>3. CASE ReadXRefStm
  <2> DEFINE stm == file.sec[Target(startxref)].stm
  <2>1. TablesOK'
    BY <1>k, <1>3, ParseSectionType DEF ReadXRefStm
  <2>2. pc' \in {"prev", "failed"}
    BY <1>3 DEF ReadXRefStm
  <2> QED
    BY <1>0, <1>3, <2>1, <2>2 DEF ReadXRefStm, TypeOK, TablesOK
<1>4. CASE FollowPrev
  <2> DEFINE off == Target(next)
             p   == file.sec[off].prev
  <2>1. CASE off = 0
    BY <1>0, <1>k, <1>4, <2>1 DEF FollowPrev, TypeOK, TablesOK
  <2>2. CASE off # 0
    <3>1. off \in Offs
      BY <2>2, TargetType
    <3>2. p \in PrevVals
      BY <3>1, PrevType DEF TypeOK
    <3>3. TablesOK'
      BY <1>4, <2>2, <3>1, ParseSectionType DEF FollowPrev
    <3>4. p # BadPrev => RecordPrev(p) \in SUBSET (Offs \cup {Nowhere})
      BY <3>2 DEF RecordPrev, PrevVals, TypeOK
    <3> QED
      BY <1>0, <1>4, <2>2, <3>2, <3>3, <3>4 DEF FollowPrev, TypeOK, TablesOK
  <2> QED
    BY <2>1, <2>2
<1>5. CASE EndOfChain
  BY <1>0, <1>k, <1>5 DEF EndOfChain, TypeOK, TablesOK
<1>6. CASE Finish
  BY <1>0, <1>k, <1>6 DEF Finish, TypeOK, TablesOK
<1>7. CASE UNCHANGED vars
  BY <1>0, <1>k, <1>7 DEF vars, TypeOK, TablesOK
<1> QED
  BY <1>1, <1>2, <1>3, <1>4, <1>5, <1>6, <1>7 DEF Next

(* The loader never leaves its types: loadXrefs merges only entries of      *)
(* sections the file has, and prevList holds offsets only.                  *)
THEOREM TypeCorrect == Spec => []TypeOK
<1>1. Init => TypeOK
  <2> SUFFICES ASSUME Init PROVE TypeOK
    OBVIOUS
  <2>1. file \in File
    BY Assumptions DEF Init
  <2>2. xrefs \in XrefTable /\ cache \in [Objs -> Places]
    BY DEF Init, XrefTable, NoCache, Places
  <2>3. loaded \in Seq(Offs) /\ Len(loaded) = 0
    BY DEF Init
  <2>4. basis \in [table : XrefTable, from : 0 .. Len(loaded)]
    BY <2>2, <2>3 DEF Init
  <2> QED
    BY <2>1, <2>2, <2>3, <2>4 DEF Init, TypeOK, PrevVals
<1> QED
  BY <1>1, TypeStep, PTL DEF Spec

-----------------------------------------------------------------------------
(* The outcomes of a merge, told apart for the proof of Precedence: an      *)
(* entry that is not taken never has a higher generation.                   *)
LEMMA MergeCases ==
  ASSUME NEW cur \in XrefObject \cup {NoXref},
         NEW new \in XrefObject \cup {NoXref},
         new.type = "c" => new.gen = 0
  PROVE  LET res == Merge(cur, new)
         IN  \/ res = cur /\ new = NoXref
             \/ res = cur /\ cur # NoXref /\ new # NoXref /\ new.gen <= cur.gen
             \/ res = new /\ new # NoXref /\ cur = NoXref
             \/ res = new /\ new # NoXref /\ cur # NoXref /\ cur.gen < new.gen
<1>1. new # NoXref => new.gen \in Nat /\ new.type \in {"n", "c"}
  BY GenType
<1>2. cur # NoXref => cur.gen \in Nat
  BY GenType
<1> QED
  BY <1>1, <1>2 DEF Merge

(* Precedence of any table, over what was read for it.                      *)
ReadOf(bas, list, i, o) ==
  IF i = 0 THEN bas.table[o] ELSE Offered(list[bas.from + i], o)
PrecedenceOf(table, bas, list) ==
  \A o \in Objs :
    IF table[o] = NoXref
    THEN \A i \in 0 .. (Len(list) - bas.from) : ReadOf(bas, list, i, o) = NoXref
    ELSE \E i \in 0 .. (Len(list) - bas.from) :
           /\ ReadOf(bas, list, i, o) = table[o]
           /\ \A j \in 0 .. (Len(list) - bas.from) :
                LET x == ReadOf(bas, list, j, o)
                IN  x # NoXref => IF j < i THEN x.gen < table[o].gen
                                           ELSE x.gen <= table[o].gen

LEMMA PrecedenceIs == Precedence <=> PrecedenceOf(xrefs, basis, loaded)
BY DEF Precedence, PrecedenceOf, Reads, Read, ReadOf

(* A table that was repaired is all that was read for it.                   *)
LEMMA RepairPrecedence ==
  ASSUME NEW table \in XrefTable, NEW list \in Seq(Offs)
  PROVE  PrecedenceOf(table, [table |-> table, from |-> Len(list)], list)
<1> DEFINE bas == [table |-> table, from |-> Len(list)]
<1>1. Len(list) \in Nat /\ bas.from = Len(list) /\ bas.table = table
  OBVIOUS
<1>2. 0 .. (Len(list) - bas.from) = {0}
  BY <1>1
<1>3. \A o \in Objs : ReadOf(bas, list, 0, o) = table[o]
  BY <1>1 DEF ReadOf
<1>4. \A o \in Objs : table[o] # NoXref => table[o].gen \in Nat
  BY GenType DEF XrefTable
<1> HIDE DEF bas
<1> QED
  BY <1>2, <1>3, <1>4 DEF PrecedenceOf, bas

(* Merging one more section preserves it.                                   *)
LEMMA MergePrecedence ==
  ASSUME file \in File, NEW off \in Offs, NEW table \in XrefTable, NEW list \in Seq(Offs),
         NEW bas \in [table : XrefTable, from : 0 .. Len(list)],
         PrecedenceOf(table, bas, list)
  PROVE  PrecedenceOf(Merged(table, off), bas, Append(list, off))
<1> DEFINE k == Len(list) - bas.from
           n == k + 1
           more == Append(list, off)
           merged == Merged(table, off)
<1>1. /\ Len(list) \in Nat /\ bas.from \in Nat /\ k \in Nat /\ bas.table \in XrefTable
      /\ bas.from + n = Len(list) + 1
      /\ Len(more) - bas.from = n
      /\ more[bas.from + n] = off
      /\ \A i \in 1 .. k : /\ bas.from + i \in 1 .. Len(list)
                           /\ more[bas.from + i] = list[bas.from + i]
                           /\ list[bas.from + i] \in Offs
  OBVIOUS
<1> SUFFICES ASSUME NEW o \in Objs
             PROVE  IF merged[o] = NoXref
                    THEN \A i \in 0 .. n : ReadOf(bas, more, i, o) = NoXref
                    ELSE \E i \in 0 .. n :
                           /\ ReadOf(bas, more, i, o) = merged[o]
                           /\ \A j \in 0 .. n :
                                LET x == ReadOf(bas, more, j, o)
                                IN  x # NoXref => IF j < i THEN x.gen < merged[o].gen
                                                           ELSE x.gen <= merged[o].gen
  BY <1>1 DEF PrecedenceOf
<1> DEFINE cur == table[o]
           new == Offered(off, o)
           old(i) == ReadOf(bas, list, i, o)
           res == merged[o]
<1>2. /\ ReadOf(bas, more, n, o) = new
      /\ \A i \in 0 .. k : ReadOf(bas, more, i, o) = old(i)
  BY <1>1 DEF ReadOf
<1>3. res = Merge(cur, new)
  BY DEF Merged
<1>4. cur \in XrefObject \cup {NoXref} /\ new \in XrefObject \cup {NoXref}
  BY OfferedType DEF XrefTable
<1>5. \A x \in XrefObject : x.gen \in Nat
  BY GenType
<1>6. \A i \in 0 .. k : old(i) \in XrefObject \cup {NoXref}
  BY <1>1, OfferedType DEF ReadOf, XrefTable
<1>7. IF cur = NoXref
      THEN \A i \in 0 .. k : old(i) = NoXref
      ELSE \E i \in 0 .. k :
             /\ old(i) = cur
             /\ \A j \in 0 .. k :
                  old(j) # NoXref => IF j < i THEN old(j).gen < cur.gen
                                              ELSE old(j).gen <= cur.gen
  BY DEF PrecedenceOf
<1>8. \/ res = cur /\ new = NoXref
      \/ res = cur /\ cur # NoXref /\ new # NoXref /\ new.gen <= cur.gen
      \/ res = new /\ new # NoXref /\ cur = NoXref
      \/ res = new /\ new # NoXref /\ cur # NoXref /\ cur.gen < new.gen
  <2>1. new.type = "c" => new.gen = 0
    BY DEF Offered, NoXref
  <2> QED
    BY <1>3, <1>4, <2>1, MergeCases
<1> HIDE DEF cur, new, old, res
<1>9. \A i \in 0 .. n : i \in 0 .. k \/ i = n
  BY <1>1
<1>a. CASE res = cur /\ cur = NoXref /\ new = NoXref
  BY <1>2, <1>7, <1>9, <1>a DEF res
<1>b. CASE /\ res = cur /\ cur # NoXref
           /\ new # NoXref => new.gen <= cur.gen
  <2>1. PICK i \in 0 .. k :
             /\ old(i) = cur
             /\ \A j \in 0 .. k :
                  old(j) # NoXref => IF j < i THEN old(j).gen < cur.gen
                                              ELSE old(j).gen <= cur.gen
    BY <1>7, <1>b
  <2>2. i \in 0 .. n /\ ~ (n < i)
    BY <1>1
  <2> QED
    BY <1>2, <1>9, <1>b, <2>1, <2>2 DEF res
<1>c. CASE /\ res = new /\ new # NoXref
           /\ cur # NoXref => cur.gen < new.gen
  <2>1. \A i \in 0 .. k : old(i) # NoXref => old(i).gen < new.gen
    <3>1. CASE cur = NoXref
      BY <1>7, <3>1
    <3>2. CASE cur # NoXref
      <4>1. \A i \in 0 .. k : old(i) # NoXref => old(i).gen <= cur.gen
        BY <1>4, <1>5, <1>6, <1>7, <3>2
      <4> QED
        BY <1>4, <1>5, <1>6, <1>c, <3>2, <4>1
    <3> QED
      BY <3>1, <3>2
  <2>2. n \in 0 .. n /\ \A i \in 0 .. k : i < n
    BY <1>1
  <2>3. new.gen <= new.gen
    BY <1>4, <1>5, <1>c
  <2> QED
    BY <1>2, <1>9, <1>c, <2>1, <2>2, <2>3 DEF res
<1> QED
  BY <1>8, <1>a, <1>b, <1>c

(* Parsing a section, with a repair or without, preserves it.               *)
LEMMA ParsePrecedence ==
  ASSUME TypeOK, PrecedenceOf(xrefs, basis, loaded),
         NEW off \in Offs, NEW r \in Lengths(off), ParseSection(off, r)
  PROVE  PrecedenceOf(xrefs', basis', loaded')
<1>1. Fits(r) /\ r.table \in XrefTable
  BY LengthsType DEF Fits, Outcome
<1>2. loaded \in Seq(Offs) /\ file \in File /\ basis' \in [table : XrefTable, from : 0 .. Len(loaded)]
  BY <1>1 DEF TypeOK, ParseSection
<1>3. PrecedenceOf(r.table, basis', loaded)
  <2>1. CASE r.mended
    BY <1>1, <1>2, <2>1, RepairPrecedence DEF ParseSection
  <2>2. CASE ~r.mended
    <3>1. r.table = xrefs /\ basis' = basis
      BY <1>1, <2>2 DEF Fits, ParseSection
    <3> QED
      BY <3>1
  <2> QED
    BY <2>1, <2>2
<1>4. CASE xrefs' = r.table /\ loaded' = loaded
  BY <1>3, <1>4
<1>5. CASE xrefs' = Merged(r.table, off) /\ loaded' = Append(loaded, off)
  <2>1. PrecedenceOf(Merged(r.table, off), basis', Append(loaded, off))
    BY <1>1, <1>2, <1>3, MergePrecedence
  <2> QED
    BY <1>5, <2>1
<1> QED
  BY <1>4, <1>5 DEF ParseSection

(* Parsing a section is all a step does to the table.                       *)
LEMMA StepParsesOrKeeps ==
  ASSUME TypeOK, [Next]_vars
  PROVE  /\ UNCHANGED file
         /\ \/ UNCHANGED <<xrefs, loaded, basis>>
            \/ \E off \in Offs : \E r \in Lengths(off) : ParseSection(off, r)
<1>1. CASE ReadMain
  <2>1. Target(startxref) \in Offs
    BY <1>1, TargetType DEF ReadMain
  <2> QED
    BY <1>1, <2>1 DEF ReadMain
<1>2. CASE ReadXRefStm
  BY <1>2 DEF ReadXRefStm, tables
<1>3. CASE FollowPrev
  <2>1. Target(next) # 0 => Target(next) \in Offs
    BY TargetType
  <2> QED
    BY <1>3, <2>1 DEF FollowPrev, tables
<1>4. CASE NoMain \/ EndOfChain \/ Finish \/ UNCHANGED vars
  BY <1>4 DEF NoMain, EndOfChain, Finish, vars, tables
<1> QED
  BY <1>1, <1>2, <1>3, <1>4 DEF Next

(* The step that keeps Precedence, for the theorem and for NeverForgets.    *)
LEMMA PrecedenceStep == TypeOK /\ Precedence /\ [Next]_vars => Precedence'
<1> SUFFICES ASSUME TypeOK, Precedence, [Next]_vars
             PROVE  Precedence'
  OBVIOUS
<1>1. PrecedenceOf(xrefs, basis, loaded)
  BY PrecedenceIs
<1>2. Precedence' <=> PrecedenceOf(xrefs', basis', loaded')
  <2>1. \A q, o : Offered(q, o)' = Offered(q, o)
    BY StepParsesOrKeeps DEF Offered
  <2> QED
    BY <2>1 DEF Precedence, PrecedenceOf, Reads, Read, ReadOf
<1>3. PrecedenceOf(xrefs', basis', loaded')
  <2>1. CASE UNCHANGED <<xrefs, loaded, basis>>
    BY <1>1, <2>1
  <2>2. CASE \E off \in Offs : \E r \in Lengths(off) : ParseSection(off, r)
    BY <1>1, <2>2, ParsePrecedence
  <2> QED
    BY <2>1, <2>2, StepParsesOrKeeps
<1> QED
  BY <1>2, <1>3

(* Whatever the sections of the file say and however Prev links them, the   *)
(* table has for each object the first entry, in reading order, of the      *)
(* highest generation.  A repair in the middle of the load is the start of  *)
(* what is read.                                                            *)
THEOREM PrecedenceHolds == Spec => []Precedence
<1>1. Init => Precedence
  <2> SUFFICES ASSUME Init PROVE Precedence
    OBVIOUS
  <2>1. /\ xrefs = [o \in Objs |-> NoXref] /\ loaded = << >>
        /\ basis = [table |-> xrefs, from |-> 0]
    BY DEF Init
  <2>2. Reads = {0} /\ \A o \in Objs : Read(0, o) = NoXref
    BY <2>1 DEF Reads, Read
  <2> QED
    BY <2>1, <2>2 DEF Precedence
<1> QED
  BY <1>1, PrecedenceStep, TypeCorrect, PTL DEF Spec

(* No section makes the loader lose an object or lower its generation; a    *)
(* step that does either repaired the table.                                *)
THEOREM NeverForgetsHolds == Spec => NeverForgets
<1>1. TypeOK /\ Precedence /\ [Next]_vars =>
        [basis' = basis => \A o \in Objs : xrefs[o] # NoXref =>
            xrefs'[o] # NoXref /\ xrefs'[o].gen >= xrefs[o].gen]_vars
  <2> SUFFICES ASSUME TypeOK, Precedence, [Next]_vars, basis' = basis,
                      NEW o \in Objs, xrefs[o] # NoXref
               PROVE  xrefs'[o] # NoXref /\ xrefs'[o].gen >= xrefs[o].gen
    OBVIOUS
  <2>1. xrefs[o].gen \in Nat
    BY GenType DEF TypeOK, XrefTable
  <2>2. CASE UNCHANGED <<xrefs, loaded, basis>>
    BY <2>1, <2>2
  <2>3. ASSUME NEW off \in Offs, NEW r \in Lengths(off), ParseSection(off, r)
        PROVE  xrefs'[o] # NoXref /\ xrefs'[o].gen >= xrefs[o].gen
    <3>1. Fits(r)
      BY <2>3, LengthsType
    <3>2. r.table[o] = xrefs[o]
      <4>1. CASE ~r.mended
        BY <3>1, <4>1 DEF Fits
      <4>2. CASE r.mended
        <5>1. basis.table = r.table /\ basis.from = Len(loaded)
          BY <2>3, <4>2 DEF ParseSection
        <5>2. Reads = {0}
          BY <5>1 DEF Reads, TypeOK
        <5>3. Read(0, o) = xrefs[o]
          BY <5>2 DEF Precedence
        <5> QED
          BY <5>1, <5>3 DEF Read
      <4> QED
        BY <4>1, <4>2
    <3>3. xrefs'[o] = xrefs[o] \/ xrefs'[o] = Merge(xrefs[o], Offered(off, o))
      BY <2>3, <3>2 DEF ParseSection, Merged
    <3>4. Offered(off, o) # NoXref => Offered(off, o).gen \in Nat
      BY OfferedType, GenType DEF TypeOK
    <3> QED
      BY <2>1, <3>3, <3>4 DEF Merge
  <2> QED
    BY <2>2, <2>3, StepParsesOrKeeps
<1> QED
  BY <1>1, TypeCorrect, PrecedenceHolds, PTL DEF Spec, NeverForgets

-----------------------------------------------------------------------------
(* BoundedLoad is not inductive: it needs what each phase of loadXrefs can  *)
(* have merged, and that the last round of the loop leaves next = NoPrev.   *)
LoadBudget ==
  /\ pc = "main" => Len(loaded) = 0
  /\ pc = "xrefstm" => Len(loaded) <= 1
  /\ pc = "prev" /\ next # NoPrev => Len(loaded) <= Cardinality(prevList) + 2
  /\ BoundedLoad

(* prevList is finite: the offsets of a file are.                           *)
LEMMA PrevListFinite ==
  ASSUME TypeOK
  PROVE  IsFiniteSet(prevList) /\ Cardinality(prevList) \in Nat
<1>1. IsFiniteSet(1 .. FileSize)
  BY Assumptions, FS_Interval
<1>2. IsFiniteSet(Offs \cup {Nowhere})
  BY <1>1, Assumptions, FS_Subset, FS_AddElement
<1> QED
  BY <1>2, FS_Subset, FS_CardinalityType DEF TypeOK

(* A section adds at most one to the history.                               *)
LEMMA ParseSectionLen ==
  ASSUME NEW off, NEW r, TypeOK, ParseSection(off, r)
  PROVE  Len(loaded') \in Nat /\ Len(loaded') <= Len(loaded) + 1
BY DEF ParseSection, TypeOK

(* Every step of the loader keeps within the budget.                        *)
LEMMA BudgetStep == TypeOK /\ LoadBudget /\ [Next]_vars => LoadBudget'
<1> SUFFICES ASSUME TypeOK, LoadBudget, [Next]_vars
             PROVE  LoadBudget'
  OBVIOUS
<1>1. IsFiniteSet(prevList) /\ Cardinality(prevList) \in Nat
  BY PrevListFinite
<1>2. Len(loaded) \in Nat
  BY DEF TypeOK
<1>3. CASE ReadMain
  <2>1. Len(loaded') \in Nat /\ Len(loaded') <= Len(loaded) + 1
    BY <1>3, ParseSectionLen DEF ReadMain
  <2> QED
    BY <1>1, <1>2, <1>3, <2>1 DEF ReadMain, LoadBudget, BoundedLoad
<1>4. CASE ReadXRefStm
  <2>1. Len(loaded') \in Nat /\ Len(loaded') <= Len(loaded) + 1
    BY <1>2, <1>4, ParseSectionLen DEF ReadXRefStm, tables
  <2> QED
    BY <1>1, <1>2, <1>4, <2>1 DEF ReadXRefStm, LoadBudget, BoundedLoad
<1>5. CASE FollowPrev
  <2>1. Len(loaded') \in Nat /\ Len(loaded') <= Len(loaded) + 1
    BY <1>2, <1>5, ParseSectionLen DEF FollowPrev, tables
  <2>2. Len(loaded) <= Cardinality(prevList) + 2
    BY <1>5 DEF FollowPrev, LoadBudget
  <2>3. CASE UNCHANGED prevList /\ (pc' # "prev" \/ next' = NoPrev)
    BY <1>1, <1>2, <1>5, <2>1, <2>2, <2>3 DEF FollowPrev, LoadBudget, BoundedLoad
  <2>4. ASSUME NEW p, p \notin prevList, prevList' = prevList \cup {p}
        PROVE  LoadBudget'
    <3>1. Cardinality(prevList') = Cardinality(prevList) + 1
      BY <1>1, <2>4, FS_AddElement
    <3>2. pc' \in {"prev", "end", "panic"}
      BY <1>5 DEF FollowPrev
    <3> QED
      BY <1>1, <1>2, <2>1, <2>2, <3>1, <3>2 DEF LoadBudget, BoundedLoad
  <2>5. \/ UNCHANGED prevList /\ (pc' # "prev" \/ next' = NoPrev)
        \/ \E p : p \notin prevList /\ prevList' = prevList \cup {p}
    BY <1>5 DEF FollowPrev, RecordPrev
  <2> QED
    BY <2>3, <2>4, <2>5
<1>6. CASE NoMain \/ EndOfChain \/ Finish
  BY <1>1, <1>2, <1>6 DEF NoMain, EndOfChain, Finish, LoadBudget, BoundedLoad, tables
<1>7. CASE UNCHANGED vars
  BY <1>7 DEF vars, tables, LoadBudget, BoundedLoad
<1> QED
  BY <1>3, <1>4, <1>5, <1>6, <1>7 DEF Next

(* The circularity guard bounds every load, for every file.                 *)
THEOREM BoundedLoadHolds == Spec => []BoundedLoad
<1>1. Init => LoadBudget
  <2> SUFFICES ASSUME Init PROVE LoadBudget
    OBVIOUS
  <2>1. Cardinality(prevList) = 0 /\ Len(loaded) = 0
    BY FS_EmptySet DEF Init
  <2> QED
    BY <2>1 DEF Init, LoadBudget, BoundedLoad
<1>2. LoadBudget => BoundedLoad
  BY DEF LoadBudget
<1> QED
  BY <1>1, <1>2, BudgetStep, TypeCorrect, PTL DEF Spec
=============================================================================

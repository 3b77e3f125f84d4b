------------------------------ MODULE Appender ------------------------------
(***************************************************************************)
(* model.PdfAppender: changes to a document, written behind its original   *)
(* bytes.                                                                  *)
(*                                                                         *)
(* The file is in memory twice.  Objects of the read-only reader ("ro")    *)
(* stand for what is in the file already and are referred to by their      *)
(* number; objects of the client's reader ("rd") may have changed; objects *)
(* of another document ("ext") are new, and so are the duplicates that are *)
(* made of pages ("dup").  What of all that goes into the new revision is  *)
(* decided by addNewObjects.                                               *)
(*                                                                         *)
(* Resource dictionaries and arrays of content streams are pointers: a     *)
(* duplicate of a page shares them with it.  Names are sequences, so that  *)
(* one may be the beginning of another.                                    *)
(***************************************************************************)
EXTENDS Naturals, Sequences, FiniteSets, Functions, Reachable

CONSTANTS
  FileNodes,  \* objects of the file
  ExtNodes,   \* objects of another document
  Streams,    \* those of either that are streams
  FilePages,  \* the pages of the file, a sequence
  ExtPage,    \* the page of the other document
  Links,      \* what an object refers to, but for Parent and what a page's model has
  Up,         \* the Parent of an object, or Nil
  Annots,     \* the annotations of a page
  Own,        \* nodes with a media box of their own
  Fields,     \* the fields of the file's form, or Nil
  FieldKids,  \* the fields below a field
  PageRes,    \* page -> kind of resource -> name -> object, or Nil
  PageText,   \* page -> the streams in its array of content streams
  Kinds,      \* kinds of resources
  Merged,     \* those that MergePageWith merges
  Places,     \* the pages that calls replace or merge into, by number
  SignPlaces, \* those they sign, which may not be there
  MaxSigned,  \* bound on the signatures
  MaxCalls,   \* bound on the calls before Write
  MaxWrites,  \* bound on the calls of Write
  Licensed,   \* no stamp on the pages
  Changes,    \* what the client may have changed in the file: <<node, "data" or "dict">>
  Stamp,      \* the stamp
  Nil

Pages == Range(FilePages) \cup {ExtPage}
Homes(p) == IF p = ExtPage THEN {"ext"} ELSE {"ro", "rd"}
HomeOf(p) == IF p = ExtPage THEN "ext" ELSE "rd"
In(ow, set) == {<<ow, n>> : n \in set}

Nodes == FileNodes \cup ExtNodes

ASSUME AppenderAssumptions ==
  /\ IsFiniteSet(Nodes) /\ FileNodes \cap ExtNodes = {} /\ Streams \subseteq Nodes
  /\ Nil \notin Nodes /\ Stamp \notin Nodes
  /\ MaxCalls \in Nat /\ MaxWrites \in Nat
  /\ Changes \subseteq FileNodes \X {"data", "dict"}
  /\ IsFiniteSet(Kinds) /\ Merged \subseteq Kinds

\* A page is in the file once.
ASSUME PagesAssumptions ==
  /\ FilePages \in Seq(FileNodes) /\ \A i, j \in DOMAIN FilePages : FilePages[i] = FilePages[j] => i = j
  /\ ExtPage \in ExtNodes
  /\ Fields = Nil \/ Fields \in Seq(FileNodes)
  /\ \A f \in FileNodes : FieldKids[f] \in Seq(FileNodes)

\* What an object refers to is in the same file.
ASSUME LinksAssumptions ==
  \A doc \in {FileNodes, ExtNodes} :
    /\ \A n \in doc : Links[n] \subseteq doc /\ Up[n] \in doc \cup {Nil}
    /\ \A p \in doc \cap Pages :
         /\ Annots[p] \cup PageText[p] \subseteq doc
         /\ \A k \in Kinds : PageRes[p][k] # Nil =>
              /\ IsFiniteSet(DOMAIN PageRes[p][k])
              /\ \A n \in DOMAIN PageRes[p][k] : PageRes[p][k][n] \in doc

\* A name is a sequence.
ASSUME NamesAssumption ==
  \A p \in Pages, k \in Kinds :
    PageRes[p][k] # Nil =>
      \A n \in DOMAIN PageRes[p][k] : Len(n) \in Nat /\ n = [i \in 1 .. Len(n) |-> n[i]]

VARIABLES
  pages,   \* a.pages: models of pages
  dicts,   \* what is in the resource dictionaries now
  conts,   \* what is in the arrays of content streams now
  changed, \* objects of the client's reader that the client changed, and where
  form,    \* a.acroForm: the top-level fields, or Nil
  signed,  \* the calls of Sign that added a widget to a page
  fresh,   \* the objects made so far
  newObjs, \* a.newObjects
  calls,
  writes,
  written, \* a.written
  seen,    \* history: what new objects referred to when they were noted as new
  want,    \* history: the pages each page is made of
  out      \* the file written by the last call, or Nil

appVars == <<pages, dicts, conts, changed, form, signed, fresh, newObjs, calls,
             writes, written, seen, want, out>>

(***************************************************************************)
(* Pages.                                                                  *)
(***************************************************************************)
\* The model a reader has of a page.  A dictionary or an array is known by
\* the reader, the page and the kind of resource.
ModelOf(ow, p) ==
  [obj |-> <<ow, p>>, up |-> Up[p], box |-> p \in Own, home |-> ow,
   res |-> [k \in Kinds |-> IF PageRes[p][k] = Nil THEN Nil ELSE <<ow, p, k>>],
   cont |-> <<ow, p>>,
   uses |-> {[kind |-> u[1], name |-> u[2], obj |-> <<ow, PageRes[p][u[1]][u[2]]>>, sure |-> TRUE] :
               u \in UNION {{k} \X DOMAIN PageRes[p][k] : k \in {k \in Kinds : PageRes[p][k] # Nil}}},
   notes |-> In(ow, Annots[p])]

\* PdfPage.Duplicate: another dictionary, and the same of everything in it.
Duplicate(p, k) == [p EXCEPT !.obj = <<"dup", k>>]

\* procPage, in a licensed build and in one that is not: there the stamp is
\* added to the array of content streams in place.
ProcPage(c, p) == IF Licensed THEN c ELSE [c EXCEPT ![p.cont] = Append(@, Stamp)]

\* For some pages of the file, which have arrays of their own.
ProcPages(c, ps) ==
  IF Licensed THEN c
  ELSE [a \in DOMAIN c |-> IF \E p \in ps : p.cont = a THEN Append(c[a], Stamp) ELSE c[a]]

IsKept(p) == p.obj[1] = "ro"

AllDicts == UNION {{<<ow, p, k>> : ow \in Homes(p), k \in {k \in Kinds : PageRes[p][k] # Nil}} : p \in Pages}

ASSUME NilAssumption == Nil \notin AllDicts

AppInit ==
  /\ pages = [i \in DOMAIN FilePages |-> ModelOf("ro", FilePages[i])]
  /\ dicts = [d \in AllDicts |-> [n \in DOMAIN PageRes[d[2]][d[3]] |-> <<d[1], PageRes[d[2]][d[3]][n]>>]]
  /\ conts = [a \in UNION {{<<ow, p>> : ow \in Homes(p)} : p \in Pages} |-> <<a[2]>>]
  /\ changed \in SUBSET Changes
  /\ form = IF Fields = Nil THEN Nil ELSE [i \in DOMAIN Fields |-> <<"ro", Fields[i]>>]
  /\ signed = << >>
  /\ fresh = 0 /\ newObjs = {} /\ seen = {} /\ calls = 0 /\ writes = 0 /\ written = FALSE
  /\ want = [i \in DOMAIN FilePages |-> <<FilePages[i]>>]
  /\ out = Nil

\* Calls may come after a Write too, one that failed or wrote nothing new.
Called == calls < MaxCalls /\ calls' = calls + 1
Unwritten == out' = Nil /\ UNCHANGED <<changed, writes, written, seen>>

\* AddPages, with a page of the client's reader or of another document.
AddPages(p) ==
  /\ Called
  /\ LET d == Duplicate(ModelOf(HomeOf(p), p), fresh)
     IN  /\ pages' = Append(pages, d)
         /\ conts' = ProcPage(conts, d)
  /\ fresh' = fresh + 1
  /\ want' = Append(want, <<p>>)
  /\ UNCHANGED <<dicts, form, signed, newObjs>> /\ Unwritten

ReplacePage(i, p) ==
  /\ Called /\ i \in DOMAIN pages
  /\ LET d == Duplicate(ModelOf(HomeOf(p), p), fresh)
     IN  /\ pages' = [pages EXCEPT ![i] = d]
         /\ conts' = ProcPage(conts, d)
  /\ fresh' = fresh + 1
  /\ want' = [want EXCEPT ![i] = <<p>>]
  /\ UNCHANGED <<dicts, form, signed, newObjs>> /\ Unwritten

\* RemovePage duplicates the pages of the file that stay.
RemovePage(i) ==
  /\ Called /\ i \in DOMAIN pages
  /\ LET dup(j) == IF IsKept(pages[j]) THEN Duplicate(pages[j], fresh + j) ELSE pages[j]
         kept == {j \in DOMAIN pages \ {i} : IsKept(pages[j])}
         place(j) == IF j < i THEN j ELSE j + 1
     IN  /\ pages' = [j \in 1 .. Len(pages) - 1 |-> dup(place(j))]
         /\ conts' = ProcPages(conts, {pages[j] : j \in kept})
         /\ want' = [j \in 1 .. Len(pages) - 1 |-> want[place(j)]]
  /\ fresh' = fresh + Len(pages) + 1
  /\ UNCHANGED <<dicts, form, signed, newObjs>> /\ Unwritten

(***************************************************************************)
(* MergePageWith.                                                          *)
(***************************************************************************)
Names(d, p) == UNION {DOMAIN d[p.res[k]] : k \in {k \in Kinds : p.res[k] # Nil}}

\* The first number that makes a name the page in the file does not have.
RenameOf(name, taken) ==
  Append(name, CHOOSE i \in 1 .. Cardinality(taken) + 1 :
                 /\ Append(name, i) \notin taken
                 /\ \A j \in 1 .. i - 1 : Append(name, j) \in taken)

\* Mutant of Renames.
RenamesNone(src, add) == [n \in {} |-> n]

Renames(src, add) == [n \in src \cap add |-> RenameOf(n, src)]

Begins(old, name) == Len(old) <= Len(name) /\ SubSeq(name, 1, Len(old)) = old

\* strings.Replace of one name, which may be the beginning of another.
Replace(name, old, new) ==
  IF Begins(old, name) THEN new \o SubSeq(name, Len(old) + 1, Len(name)) ELSE name

\* The content after all replacements, in the order of a map.
Renamed(name, ren, order) ==
  LET after[i \in 0 .. Len(order)] ==
        IF i = 0 THEN name ELSE Replace(after[i - 1], order[i], ren[order[i]])
  IN  after[Len(order)]

Orders(names) == {f \in [1 .. Cardinality(names) -> names] : Range(f) = names}

\* mergeResources for one kind: what is in src is added to dest in place.
MergeResources(dest, src, ren) ==
  LET to(n) == IF n \in DOMAIN ren THEN ren[n] ELSE n
      added == {to(n) : n \in DOMAIN src}
  IN  [x \in DOMAIN dest \cup added |->
         IF x \in added THEN src[CHOOSE n \in DOMAIN src : to(n) = x] ELSE dest[x]]

\* No dictionary is of two kinds.
MergeAllResources(d, src, add, ren) ==
  LET merged(x) == {k \in Merged : src.res[k] = x /\ add.res[k] # Nil}
  IN  [x \in DOMAIN d |->
         IF merged(x) = {} THEN d[x]
         ELSE MergeResources(d[x], d[add.res[CHOOSE k \in merged(x) : TRUE]], ren)]

\* GetMediaBox finds one: in the page or above it.
BoxAbove[n \in Nodes \cup {Nil}] ==
  n # Nil /\ (n \in Own \/ BoxAbove[Up[n]])
\* Mutant of HasBox.
HasOwnBox(p) == p.box

HasBox(p) == p.box \/ BoxAbove[p.up]

\* History: the merge keeps what a name means.  It does not where another
\* name that is replaced begins it, where it is replaced in the text but the
\* other page's dictionary is taken as it is, or has a name like the new one
\* already, and for kinds that are not merged.
IsSure(u, src, add, ren) ==
  /\ u.kind \in Merged
  /\ \A old \in DOMAIN ren : Begins(old, u.name) => old = u.name
  /\ u.name \in DOMAIN ren =>
       src.res[u.kind] # Nil /\ ren[u.name] \notin DOMAIN dicts[add.res[u.kind]]

\* What the other page's text uses, under its new names.
UsesMerged(src, add, ren, order) ==
  {[u EXCEPT !.name = Renamed(u.name, ren, order), !.sure = IsSure(u, src, add, ren)] : u \in add.uses}

\* Mutant of MergedPage.
MergedPageOwnContent(src, add, ren, order, k) ==
  [src EXCEPT !.res = [q \in Kinds |-> IF @[q] = Nil /\ q \in Merged THEN add.res[q] ELSE @[q]],
              !.uses = @ \cup UsesMerged(src, add, ren, order),
              !.notes = @ \cup add.notes]

\* The page that is merged into.  Where it has no resources of a kind, the
\* dictionary of the other page becomes its own, with the names it has.
MergedPage(src, add, ren, order, k) ==
  [src EXCEPT !.res = [q \in Kinds |-> IF @[q] = Nil /\ q \in Merged THEN add.res[q] ELSE @[q]],
              !.cont = <<"new", k>>,
              !.uses = @ \cup UsesMerged(src, add, ren, order),
              !.notes = @ \cup add.notes]

\* A media box that is missing is noticed when all the rest is done.
MergePageWith(i, p, bigger) ==
  /\ Called /\ i \in DOMAIN pages
  /\ LET src == IF IsKept(pages[i]) THEN Duplicate(pages[i], fresh) ELSE pages[i]
         add == Duplicate(ModelOf(HomeOf(p), p), fresh + 1)
         ren == Renames(Names(dicts, src), Names(dicts, add))
         c1  == ProcPage(conts, add)
         new == <<"new", fresh>>
     IN \E order \in Orders(DOMAIN ren) :
          LET page == MergedPage(src, add, ren, order, fresh)
          IN /\ dicts' = MergeAllResources(dicts, src, add, ren)
             /\ conts' = [a \in DOMAIN c1 \cup {new} |->
                            IF a = new THEN c1[src.cont] \o c1[add.cont] ELSE c1[a]]
             /\ pages' = [pages EXCEPT ![i] =
                  IF bigger /\ HasBox(src) /\ HasBox(add) THEN [page EXCEPT !.box = TRUE] ELSE page]
  /\ fresh' = fresh + 2
  /\ want' = [want EXCEPT ![i] = Append(@, p)]
  /\ UNCHANGED <<form, signed, newObjs>> /\ Unwritten

(***************************************************************************)
(* Sign and ReplaceAcroForm.                                               *)
(***************************************************************************)
\* AllFields: a field and all below it, in one list.
FieldsBelow(o) ==
  IF o[1] = "dup" THEN << >> ELSE [j \in DOMAIN FieldKids[o[2]] |-> <<o[1], FieldKids[o[2]][j]>>]
AllFields(f) ==
  IF f = Nil THEN << >>
  ELSE LET all[i \in 0 .. Len(f)] ==
             IF i = 0 THEN << >> ELSE all[i - 1] \o <<f[i]>> \o FieldsBelow(f[i])
       IN  all[Len(f)]

\* The signature dictionary is a new object even where the page is not found.
Sign(i) ==
  /\ Called /\ Len(signed) < MaxSigned
  /\ LET dict == <<"dup", fresh>>
         widget == <<"dup", fresh + 1>>
         page == [Duplicate(pages[i], fresh + 2) EXCEPT !.notes = @ \cup {widget}]
     IN /\ newObjs' = newObjs \cup {dict}
        /\ IF i \in DOMAIN pages
           THEN /\ pages' = [pages EXCEPT ![i] = page]
                /\ conts' = ProcPage(conts, page)
                /\ form' = Append(AllFields(form), widget)
                /\ signed' = Append(signed, [dict |-> dict, widget |-> widget, page |-> page.obj])
           ELSE UNCHANGED <<pages, conts, form, signed>>
  /\ fresh' = fresh + 3
  /\ UNCHANGED <<dicts, want>> /\ Unwritten

ReplaceAcroForm(f) ==
  /\ Called /\ form # f
  /\ form' = f
  /\ UNCHANGED <<pages, dicts, conts, signed, fresh, newObjs, want>> /\ Unwritten

(***************************************************************************)
(* Write.                                                                  *)
(***************************************************************************)
IsFile(o) == o[1] \in {"ro", "rd", "ext"}
IsStream(o) == IsFile(o) /\ o[2] \in Streams

\* What a page's dictionary refers to.
PageRefs(p) ==
  p.notes \cup (UNION {Range(dicts[p.res[k]]) : k \in {k \in Kinds : p.res[k] # Nil}})
          \cup (IF p.cont[1] = "new" THEN {p.cont} ELSE In(p.cont[1], PageText[p.cont[2]]))

\* What an object refers to; of the pages of a file also what their models
\* are made from.
Refs(o) ==
  IF IsFile(o)
  THEN In(o[1], Links[o[2]])
         \cup (IF o[2] \in Pages THEN PageRefs(ModelOf(o[1], o[2])) ELSE {})
  ELSE (UNION {PageRefs(pages[i]) : i \in {i \in DOMAIN pages : pages[i].obj = o}})
         \cup UNION {{signed[i].dict, signed[i].page} : i \in {i \in DOMAIN signed : signed[i].widget = o}}

ParentOf(o) == IF IsFile(o) /\ Up[o[2]] # Nil THEN {<<o[1], Up[o[2]]>>} ELSE {}

\* All objects there are, when so many were made.
HeapOf(made) ==
  ({"ro", "rd"} \X FileNodes) \cup ({"ext"} \X ExtNodes) \cup ({"dup", "new"} \X (0 .. made - 1))
Heap == HeapOf(fresh)

\* Mutant of IsNotChanged.
IsNotChangedEver(o) == o[1] = "rd" /\ IsStream(o)

\* A stream of the client's reader is compared with the file's, but in its
\* data only: its dictionary is asked for of an object that is a stream.
IsNotChanged(o) == o[1] = "rd" /\ IsStream(o) /\ <<o[2], "data">> \notin changed

\* Mutant of IsNew.
IsNewAnywhere(o) == ~IsNotChanged(o)

\* addNewObjects: nothing of the read-only reader, and no stream that is as
\* it was, with all that it alone leads to.
IsNew(o) == o[1] # "ro" /\ ~IsNotChanged(o)
\* Mutant of AddNewObjects.
AddNewObjectsOnly(set) == newObjs \cup set

\* What was noted as new before is not looked into again.
AddNewObjects(set) ==
  newObjs \cup Closure(set \ newObjs,
                      [o \in Heap |-> {r \in (Refs(o) \cup ParentOf(o)) \ newObjs : IsNew(r)}])

\* PdfWriter.addObjects for the form: whatever it leads to, but for Parents;
\* what the writer has already is not looked into.
FormObjects(have) ==
  IF form = Nil THEN {}
  ELSE Closure(Range(form), [o \in Heap |-> IF o \in have THEN {} ELSE Refs(o)])

\* The pages of the new revision: a page of the file is referred to, another
\* takes what it inherits from the Parents it has.  Content that is not
\* written shows nothing.
WrittenPages(objs) ==
  [i \in DOMAIN pages |->
     [obj |-> pages[i].obj,
      shows |-> IF pages[i].cont[1] = "new" /\ pages[i].cont \notin objs THEN Nil
                ELSE conts[pages[i].cont],
      box |-> IF IsKept(pages[i]) THEN pages[i].box ELSE HasBox(pages[i])]]

OldPages == [i \in DOMAIN FilePages |->
               [obj |-> <<"ro", FilePages[i]>>, shows |-> <<FilePages[i]>>,
                box |-> HasBox(ModelOf("ro", FilePages[i]))]]

\* Write may fail where a handler cannot sign; all is in place by then, and
\* the client may try again.
Write(fails) ==
  /\ ~written /\ writes < MaxWrites
  /\ fails => newObjs \cap {signed[i].dict : i \in DOMAIN signed} # {}
  /\ writes' = writes + 1
  /\ newObjs' = AddNewObjects({pages[i].obj : i \in {i \in DOMAIN pages : ~IsKept(pages[i])}})
  /\ seen' = seen \cup UNION {{o} \X Refs(o) : o \in newObjs' \ newObjs}
  /\ out' = IF fails THEN Nil
            ELSE IF newObjs' = {}
            THEN [pages |-> OldPages, objs |-> {}, fields |-> Nil]
            ELSE LET objs == newObjs' \cup FormObjects(newObjs')
                 IN  [pages |-> WrittenPages(objs), objs |-> objs, fields |-> form]
  /\ written' = (~fails /\ newObjs' # {})
  /\ UNCHANGED <<pages, dicts, conts, changed, form, signed, fresh, calls, want>>

Edit ==
  \/ \E p \in Pages : AddPages(p)
  \/ \E i \in Places, p \in Pages : ReplacePage(i, p)
  \/ \E i \in DOMAIN pages : RemovePage(i)
  \/ \E i \in Places, p \in Pages, bigger \in BOOLEAN : MergePageWith(i, p, bigger)
  \/ \E i \in SignPlaces : Sign(i)
  \/ ReplaceAcroForm(<< >>)

AppNext == Edit \/ \E fails \in BOOLEAN : Write(fails)
AppSpec == AppInit /\ [][AppNext]_appVars

(***************************************************************************)
(* Properties.                                                             *)
(***************************************************************************)
AppTypeOK ==
  /\ \A i \in DOMAIN pages : pages[i].cont \in DOMAIN conts
  /\ \A i \in DOMAIN pages : \A k \in Kinds : pages[i].res[k] \in DOMAIN dicts \cup {Nil}
  /\ Len(want) = Len(pages)
  /\ calls <= MaxCalls /\ writes <= MaxWrites /\ written \in BOOLEAN
  /\ \A o \in newObjs : o[1] # "ro"

\* A page without the stamps on it.
Stampless(shows) ==
  LET kept[i \in 0 .. Len(shows)] ==
        IF i = 0 THEN << >>
        ELSE IF shows[i] = Stamp THEN kept[i - 1] ELSE Append(kept[i - 1], shows[i])
  IN  kept
Unstamped(shows) == Stampless(shows)[Len(shows)]

\* Object o was noted as new by a Write that failed, and refers to r only
\* since: addNewObjects does not come to r by way of o.
IsLate(o, r) == o \in newObjs /\ r \in Refs(o) /\ <<o, r>> \notin seen

\* What Write leaves shows the pages the client asked for, in their order
\* and each made of the pages merged into it, whatever the calls, a Write
\* that failed before included.  A page that this Write had come to and that
\* another was merged into since has lost its content (appender.go:149).
\* (Where the last page was removed nothing is new, and the original is all
\* that is written: appender.go:604.)
PagesShown ==
  out # Nil /\ want # << >> =>
    /\ DOMAIN out.pages = DOMAIN want
    /\ \A i \in DOMAIN want :
         \/ pages[i].cont[1] = "new" /\ IsLate(pages[i].obj, pages[i].cont)
         \/ Unstamped(out.pages[i].shows) = want[i]

\* A reference in the new revision leads to an object written with it, or
\* to one that has its number in the file already: never to an object of
\* another document, or a new one, that was left out (addNewObjects).  The
\* exception is what an object came to refer to after a Write that failed.
RevisionClosed ==
  out # Nil =>
    \A o \in out.objs : \A r \in Refs(o) :
      r \in out.objs \/ r[1] \in {"ro", "rd"} \/ IsLate(o, r)

\* A page refers to its version of an object: where the client changed one, a
\* page that is written leads to the changed one, unless the way to it leads
\* through an object of the file, or was made after a Write that failed.  A
\* stream that was changed in its dictionary alone is lost (appender.go:199).
ChangesWritten ==
  out # Nil =>
    \A c \in {c \in changed : c[2] = "dict" => c[1] \notin Streams} : \A i \in DOMAIN pages :
      <<"rd", c[1]>> \in Refs(pages[i].obj) =>
        <<"rd", c[1]>> \in out.objs \/ IsLate(pages[i].obj, <<"rd", c[1]>>)

\* Where no call changed a resource dictionary of the client's pages.
ClientDictsKept == \A d \in AllDicts : d[1] # "ro" => DOMAIN dicts[d] = DOMAIN PageRes[d[2]][d[3]]

\* A name in the content of a page means the same object as before, after any
\* number of pages were merged, of the file, of the client or of another
\* document: MergePageWith renames in the text what it renames in the
\* dictionaries.  The names whose meaning the replacement of text loses are
\* the ones IsSure names, and no others.
NamesResolve ==
  \A i \in DOMAIN pages : \A u \in {u \in pages[i].uses : u.sure} :
    LET d == pages[i].res[u.kind]
    IN  d # Nil /\ u.name \in DOMAIN dicts[d] /\ dicts[d][u.name] = u.obj

\* A page that is written anew keeps the media box it had inherited.
BoxesKept ==
  out # Nil => \A i \in DOMAIN out.pages :
    ~IsKept(out.pages[i]) =>
      (out.pages[i].box <=> \E j \in 1 .. Len(want[i]) : j = 1 /\ BoxAbove[want[i][j]])

\* appender.go:117 says of objects of the original that they are not
\* appended.  Those that the form leads to are: see PdfWriter.addObjects.
OriginalsNotAppended == out # Nil => \A o \in out.objs : o[1] # "ro"

\* Pages of the client are not changed by merging or adding them: not with a
\* stamp, nor where a dictionary of theirs became that of a page of the file.
ClientPagesKept ==
  ClientDictsKept /\ \A p \in Pages : \A ow \in Homes(p) \ {"ro"} : conts[<<ow, p>>] = <<p>>

\* appender.go:466 promises that Write can be called once.
WriteOnce == writes <= 1

\* A revision shows the pages asked for, with their boxes, is closed, has what
\* was changed and means the same by its names.
RevisionSound == AppTypeOK /\ PagesShown /\ RevisionClosed /\ ChangesWritten /\ NamesResolve /\ BoxesKept
=============================================================================

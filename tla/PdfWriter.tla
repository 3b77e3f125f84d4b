------------------------------ MODULE PdfWriter ------------------------------
(***************************************************************************)
(* model.PdfWriter: collecting the objects of a document, numbering them,  *)
(* encrypting them and writing them with a cross reference section.        *)
(*                                                                         *)
(* Objects are pointers: pages that were read from one document are shared *)
(* by the writers they are added to, and a writer changes the Parent of a  *)
(* page it is given.  A node is an indirect object or a stream with the    *)
(* direct objects in it; it refers to other nodes, and has strings.  Which *)
(* keys a string was encrypted with is all the model knows of its bytes.   *)
(*                                                                         *)
(* Methods run to completion, one at a time; a step is one object visited  *)
(* or written.  A writer is used for one document: after a successful      *)
(* Write it is not used any more.                                          *)
(***************************************************************************)
EXTENDS Naturals, Sequences, FiniteSets, Reachable

CONSTANTS
  Writers,
  DocNodes,   \* nodes that were read or made by the client
  Pages,      \* those that are pages
  DocStrs,    \* strings, direct objects inside nodes
  Docs,       \* what refers to what
  Attachable, \* outlines and forms the client may set
  OCs,        \* optional content properties it may set
  Combos,     \* sets of options it may combine
  Refreshed,  \* pages it calls ToPdfObject of at any time
  MaxPages,   \* bound on the pages added to a writer
  BadRef,     \* a reference that was not resolved
  None,       \* no Parent, or a null one
  Original    \* strings of the client's objects

Own == {"info", "root", "pages", "encrypt", "objstm"} \X Writers
Info(w) == <<"info", w>>
Root(w) == <<"root", w>>
Tree(w) == <<"pages", w>>
Enc(w) == <<"encrypt", w>>
ObjStm(w) == <<"objstm", w>>
Nodes == DocNodes \cup Own

\* The producer and the like in Info; O and U in Encrypt.
OwnStrs == {"info", "encrypt"} \X Writers
Strs == DocStrs \cup OwnStrs
Copies == Writers \cup {Original}

\* rc4, aes: Encrypt was called, with an algorithm that raises the version or
\* not.  modern: the version is above 1.4.  objstm: the ObjectStreams optimizer.
Options == {"rc4", "aes", "modern", "objstm"}

\* kids: what the keys other than Parent refer to.  up: Parent.  lazy: pages
\* whose model refers to other objects by references.
Doc == [kids : [DocNodes -> Seq(DocNodes)], up : [DocNodes -> DocNodes \cup {None}],
        strs : [DocNodes -> SUBSET DocStrs], streams : SUBSET DocNodes,
        lazy : SUBSET Pages]

ASSUME Assumptions ==
  /\ Pages \subseteq DocNodes /\ Attachable \subseteq DocNodes
  /\ Refreshed \subseteq Pages
  /\ IsFiniteSet(DocNodes) /\ IsFiniteSet(Writers)
  /\ DocNodes \cap Own = {} /\ DocStrs \cap OwnStrs = {}
  /\ Docs \subseteq Doc
  /\ OCs \subseteq Seq(DocNodes \cup {BadRef})
  /\ Combos \subseteq SUBSET Options
  /\ MaxPages \in Nat
  /\ BadRef \notin Nodes /\ None \notin Nodes \cup {BadRef}
  /\ Original \notin Writers

VARIABLES
  doc,   \* never changes
  up,    \* Parent of each node, in the client's objects
  raw,   \* pages whose dictionary has unresolved references now
  text,  \* the numbers of the objects each string was encrypted for
  wr     \* the writers

vars == <<doc, up, raw, text, wr>>

-----------------------------------------------------------------------------
(* A writer.  objects: in the order of their numbers.  extra: outlines and  *)
(* forms.  seen: where references were resolved.  pending: nodes with a     *)
(* Parent that was not there when they were added.  todo: what a method     *)
(* under way has still to visit, next first.  out: what was written, in the *)
(* order of the file.  erred: a method returned an error.                   *)
NewWriter(w) ==
  [objects |-> <<Info(w), Root(w), Tree(w)>>, pages |-> << >>, optional |-> << >>,
   extra |-> << >>, seen |-> {Info(w), Root(w), Tree(w)}, pending |-> {},
   todo |-> << >>, phase |-> "open", opts |-> {}, at |-> 1, marked |-> {},
   out |-> << >>, erred |-> FALSE]

Busy(w) == wr[w].phase \in {"adding", "optional", "collecting", "writing"}
Ready(w) == wr[w].phase = "open" /\ \A v \in Writers : ~Busy(v)

Elems(s) == {s[i] : i \in DOMAIN s}

\* Those elements of s that are in T, in their order.
Those(s, T) ==
  LET some[i \in 0 .. Len(s)] ==
        IF i = 0 THEN << >>
        ELSE IF s[i] \in T THEN Append(some[i - 1], s[i]) ELSE some[i - 1]
  IN  some[Len(s)]

Has(w, n) == n \in Elems(wr[w].objects)
Encrypting(w) == wr[w].opts \cap {"rc4", "aes"} # {}
Streams(w) == doc.streams \cup {ObjStm(w)}

\* What the values of a node's keys, Parent left out, refer to.
DocKids(r, n) ==
  IF n \in r THEN [i \in DOMAIN doc.kids[n] |-> BadRef] ELSE doc.kids[n]
Kids(n) ==
  IF n \in DocNodes THEN DocKids(raw, n)
  ELSE CASE n[1] = "pages" -> wr[n[2]].pages
         [] n[1] = "root"  -> <<Tree(n[2])>> \o wr[n[2]].optional \o wr[n[2]].extra
         [] OTHER          -> << >>

StrsOf(n) ==
  IF n \in DocNodes THEN doc.strs[n]
  ELSE IF n[1] \in {"info", "encrypt"} THEN {n} ELSE {}

Reach(S) == Closure(S, [n \in Nodes |-> Elems(Kids(n)) \cap Nodes])

\* ResolveReferencesDeep follows Parent too, as it is in u, and stops where it
\* was before.
Deep(u, w, n) ==
  Closure({n} \ wr[w].seen, [m \in Nodes |->
    ((IF m \in DocNodes THEN Elems(doc.kids[m]) \cup ({u[m]} \ {None})
      ELSE Elems(Kids(m))) \cap Nodes) \ wr[w].seen])

-----------------------------------------------------------------------------
Set(w, r) == wr' = [wr EXCEPT ![w] = r]

\* Mutant of AddObject.
AddObjectAgain(s, n) == Append(s, n)

AddObject(s, n) == IF n \in Elems(s) THEN s ELSE Append(s, n)

\* Mutants of ParentOf.
ParentKept(w, p) == up[p]
ParentReference(w, p) == BadRef

ParentOf(w, p) == Tree(w)

(* AddPage.  ToPdfObject fills the page's dictionary anew, with references  *)
(* if it was read lazily, and its Parent is replaced; then addObject        *)
(* resolves the references if the page is new.  The dictionary is visited   *)
(* even if the page was there before.                                       *)
AddPage(w, p) ==
  LET filled == IF p \in doc.lazy THEN raw \cup {p} ELSE raw
      under  == [up EXCEPT ![p] = ParentOf(w, p)]
      new    == IF Has(w, p) THEN {} ELSE Deep(under, w, p)
  IN  /\ Ready(w) /\ Len(wr[w].pages) < MaxPages
      /\ up' = under
      /\ raw' = filled \ new
      /\ Set(w, [wr[w] EXCEPT !.pages = Append(@, p),
                              !.objects = AddObject(@, p),
                              !.seen = @ \cup new,
                              !.todo = DocKids(filled \ new, p),
                              !.phase = "adding"])
      /\ UNCHANGED <<doc, text>>

(* AddOutlineTree and SetForms: Write adds them.                            *)
Attach(w, n) ==
  /\ Ready(w) /\ n \notin Elems(wr[w].extra)
  /\ Set(w, [wr[w] EXCEPT !.extra = Append(@, n)])
  /\ UNCHANGED <<doc, up, raw, text>>

(* SetOCProperties adds them at once, and ignores errors.                   *)
SetOCProperties(w, oc) ==
  /\ Ready(w) /\ wr[w].optional = << >>
  /\ Set(w, [wr[w] EXCEPT !.optional = oc, !.todo = oc, !.phase = "optional"])
  /\ UNCHANGED <<doc, up, raw, text>>

(* Encrypt, SetVersion, SetOptimizer.                                       *)
Configure(w, o) ==
  /\ Ready(w) /\ o \notin wr[w].opts /\ wr[w].opts \cup {o} \in Combos
  /\ Set(w, [wr[w] EXCEPT !.opts = @ \cup {o},
                          !.objects = IF o \in {"rc4", "aes"} THEN AddObject(@, Enc(w)) ELSE @])
  /\ UNCHANGED <<doc, up, raw, text>>

(* The client, or another writer's AddPage, calls a page's ToPdfObject.     *)
Refresh(p) ==
  /\ \A v \in Writers : ~Busy(v)
  /\ up' = [up EXCEPT ![p] = doc.up[p]]
  /\ raw' = IF p \in doc.lazy THEN raw \cup {p} ELSE raw
  /\ UNCHANGED <<doc, text, wr>>

-----------------------------------------------------------------------------
\* Mutant of Visited: an array is left after its first element.
VisitedFirst(s) == IF s = << >> THEN s ELSE <<Head(s)>>

\* What a new node refers to is visited next, all of it.
Visited(s) == s

\* Mutant of Rest.
RestAll(w) == wr[w].todo

Rest(w) == Tail(wr[w].todo)

Working(w) == wr[w].phase \in {"adding", "optional", "collecting"}

(* addObjects: the next node.  New ones are appended, before what they      *)
(* refer to; a Parent that is not there is noted.                           *)
Visit(w) ==
  LET n     == Head(wr[w].todo)
      new   == Deep(up, w, n)
      visit == DocKids(raw \ new, n)
  IN  /\ Working(w) /\ wr[w].todo # << >> /\ n # BadRef
      /\ IF Has(w, n)
         THEN Set(w, [wr[w] EXCEPT !.todo = Rest(w)]) /\ UNCHANGED raw
         ELSE /\ raw' = raw \ new
              /\ Set(w, [wr[w] EXCEPT
                   !.objects = AddObject(@, n),
                   !.seen = @ \cup new,
                   !.todo = Visited(visit) \o Rest(w),
                   !.pending = IF up[n] = None \/ Has(w, up[n]) THEN @
                               ELSE @ \cup {<<up[n], n>>}])
      /\ UNCHANGED <<doc, up, text>>

(* A reference: the method returns an error, what was added stays.          *)
VisitRef(w) ==
  /\ Working(w) /\ wr[w].todo # << >> /\ Head(wr[w].todo) = BadRef
  /\ Set(w, [wr[w] EXCEPT !.todo = << >>, !.phase = "open",
                          !.erred = @ \/ wr[w].phase # "optional"])
  /\ UNCHANGED <<doc, up, raw, text>>

AddDone(w) ==
  /\ wr[w].phase \in {"adding", "optional"} /\ wr[w].todo = << >>
  /\ Set(w, [wr[w] EXCEPT !.phase = "open"])
  /\ UNCHANGED <<doc, up, raw, text>>

(* Write, up to the outlines and forms.                                     *)
Write(w) ==
  /\ Ready(w)
  /\ Set(w, [wr[w] EXCEPT !.todo = wr[w].extra, !.phase = "collecting"])
  /\ UNCHANGED <<doc, up, raw, text>>

\* Mutant of Nulled.
NothingNulled(w) == up

\* Parents that were never added are replaced with null.
Nulled(w) ==
  [n \in DocNodes |-> IF <<up[n], n>> \in wr[w].pending /\ ~Has(w, up[n])
                      THEN None ELSE up[n]]

\* The ObjectStreams optimizer puts the indirect objects into an object stream,
\* in front, and keeps them.
Grouped(w, s) ==
  IF "objstm" \in wr[w].opts
  THEN <<ObjStm(w)>> \o Those(s, Nodes \ doc.streams) \o Those(s, doc.streams)
  ELSE s

(* ... up to updateObjectNumbers.  From here on the writer's objects are    *)
(* copies.                                                                  *)
Number(w) ==
  /\ wr[w].phase = "collecting" /\ wr[w].todo = << >>
  /\ up' = Nulled(w)
  /\ Set(w, [wr[w] EXCEPT !.objects = Grouped(w, @), !.phase = "writing"])
  /\ UNCHANGED <<doc, raw, text>>

-----------------------------------------------------------------------------
NumOf(w, n) == CHOOSE i \in DOMAIN wr[w].objects : wr[w].objects[i] = n

Modern(w) == wr[w].opts \cap {"modern", "aes"} # {}

\* Mutant of Skipped.
SkippedNever(w, n) == FALSE

\* Members of the object stream are not written on their own, in a document
\* that would not need a cross reference stream without it.
Skipped(w, n) ==
  /\ "objstm" \in wr[w].opts /\ ~Modern(w)
  /\ n \notin Streams(w)

\* Mutants of CopyOf and of NewlyEncrypted.
CopyShared(w) == Original
EncryptToo(w, n) ==
  IF ~Encrypting(w) THEN {} ELSE (Reach({n}) \cap Elems(wr[w].objects)) \ wr[w].marked
StreamsLeft(w, n) ==
  IF ~Encrypting(w) \/ n \in {Enc(w), ObjStm(w)} THEN {}
  ELSE ((Reach({n}) \cap Elems(wr[w].objects)) \ wr[w].marked) \ doc.streams

\* copyObjects: the strings a writer encrypts.
CopyOf(w) == w

\* PdfCrypt.Encrypt follows pointers, and marks the objects it was at.
NewlyEncrypted(w, n) ==
  IF ~Encrypting(w) \/ n \in {Enc(w), ObjStm(w)} THEN {}
  ELSE (Reach({n}) \cap Elems(wr[w].objects)) \ wr[w].marked

\* Each string gets the key of every object it is in.
Encrypted(w, new) ==
  [t \in Copies \X Strs |->
     IF t[1] # CopyOf(w) THEN text[t]
     ELSE text[t] \cup {NumOf(w, m) : m \in {m \in new : t[2] \in StrsOf(m)}}]

\* Writing a node, with its strings as they are and references by number.
Written(w, n, num, how, txt) ==
  [num |-> num, node |-> n, how |-> how,
   keys |-> [s \in Strs |-> IF s \in StrsOf(n) THEN txt[<<CopyOf(w), s>>] ELSE {}],
   refs |-> Elems(Kids(n)),
   parent |-> IF n \in DocNodes THEN up[n] ELSE None]

Members(w) ==
  Those(wr[w].objects, Nodes \ Streams(w))

(* The next object: encrypted, and written unless it is skipped.  An object *)
(* stream has its members written into it.                                  *)
WriteObject(w) ==
  LET n == wr[w].objects[wr[w].at]
      new == NewlyEncrypted(w, n)
  IN  /\ wr[w].phase = "writing" /\ wr[w].at <= Len(wr[w].objects)
      /\ IF Skipped(w, n)
         THEN text' = text /\ Set(w, [wr[w] EXCEPT !.at = @ + 1])
         ELSE /\ text' = Encrypted(w, new)
              /\ Set(w, [wr[w] EXCEPT
                   !.at = @ + 1,
                   !.marked = @ \cup new,
                   !.out = @ \o
                     <<Written(w, n, wr[w].at, "object", text')>> \o
                     IF n # ObjStm(w) THEN << >>
                     ELSE [i \in DOMAIN Members(w) |->
                             Written(w, Members(w)[i], NumOf(w, Members(w)[i]), "member", text')]])
      /\ UNCHANGED <<doc, up, raw>>

(* The cross reference section and the trailer.                             *)
WriteXref(w) ==
  /\ wr[w].phase = "writing" /\ wr[w].at > Len(wr[w].objects)
  /\ Set(w, [wr[w] EXCEPT !.phase = "done"])
  /\ UNCHANGED <<doc, up, raw, text>>

-----------------------------------------------------------------------------
Init ==
  /\ doc \in Docs
  /\ up = doc.up
  /\ raw = doc.lazy
  /\ text = [t \in Copies \X Strs |-> {}]
  /\ wr = [w \in Writers |-> NewWriter(w)]

\* The steps of a method under way.
Work ==
  \E w \in Writers :
    Visit(w) \/ VisitRef(w) \/ AddDone(w) \/ Number(w) \/ WriteObject(w) \/ WriteXref(w)

Client ==
  \/ \E w \in Writers :
       \/ \E p \in Pages : AddPage(w, p)
       \/ \E n \in Attachable : Attach(w, n)
       \/ \E oc \in OCs : SetOCProperties(w, oc)
       \/ \E o \in Options : Configure(w, o)
       \/ Write(w)
  \/ \E p \in Refreshed : Refresh(p)

Next == Work \/ Client

Spec == Init /\ [][Next]_vars

\* A method runs until it returns.
FairSpec == Spec /\ WF_vars(Work)

-----------------------------------------------------------------------------
WriterState ==
  [objects : Seq(Nodes), pages : Seq(Pages), optional : Seq(DocNodes \cup {BadRef}),
   extra : Seq(DocNodes), seen : SUBSET Nodes, pending : SUBSET (Nodes \X DocNodes), todo : Seq(DocNodes \cup {BadRef}),
   phase : {"open", "adding", "optional", "collecting", "writing", "done"},
   opts : SUBSET Options, at : Nat \ {0}, marked : SUBSET Nodes,
   out : Seq([num : Nat \ {0}, node : Nodes, how : {"object", "member"},
              keys : [Strs -> SUBSET Nat],
              refs : SUBSET (Nodes \cup {BadRef}), parent : Nodes \cup {None}]),
   erred : BOOLEAN]

(* Types, with what bounds them: objects are numbered from 1, a Parent is    *)
(* an object and never a reference.                                         *)
TypeOK ==
  /\ doc \in Doc
  /\ up \in [DocNodes -> Nodes \cup {None}]
  /\ raw \in SUBSET Pages
  /\ text \in [Copies \X Strs -> SUBSET Nat]
  /\ wr \in [Writers -> WriterState]

\* The object that the cross reference section has under a number: what was
\* written last under it.
Finished(w) == wr[w].phase = "done" /\ ~wr[w].erred
Under(w, num) == {i \in DOMAIN wr[w].out : wr[w].out[i].num = num}
Entry(w, num) ==
  wr[w].out[CHOOSE i \in Under(w, num) : \A j \in Under(w, num) : j <= i]
Numbers(w) == {wr[w].out[i].num : i \in DOMAIN wr[w].out}

(* Every reference in a finished file, Parent included, leads to the object *)
(* that was meant.                                                          *)
NoDangling ==
  \A w \in Writers : Finished(w) =>
    \A i \in DOMAIN wr[w].out :
      LET e == wr[w].out[i]
      IN  \A m \in e.refs \cup ({e.parent} \ {None}) :
            /\ Has(w, m)
            /\ NumOf(w, m) \in Numbers(w)
            /\ Entry(w, NumOf(w, m)).node = m

(* addObjects collects what can be reached from the catalog, nothing less   *)
(* and nothing else, and nothing twice, whatever the circles.               *)
CollectsReachable ==
  \A w \in Writers : Finished(w) =>
    /\ Elems(wr[w].objects) \ {Enc(w), ObjStm(w)} = Reach({Info(w), Root(w)})
    /\ Cardinality(Elems(wr[w].objects)) = Len(wr[w].objects)

(* "How to handle the parent? Make sure it is present?": the page tree of a *)
(* finished file is one; every page of it has the tree as its Parent.       *)
PagesInTree ==
  \A w \in Writers : Finished(w) =>
    \A i \in DOMAIN wr[w].out :
      wr[w].out[i].node \in Elems(wr[w].pages) => wr[w].out[i].parent = Tree(w)

(* What a reader decrypts a string to is what the client put there.  The    *)
(* reader uses the number of the object a string is in, once, but not for   *)
(* what is in an object stream, Encrypt and Info.                           *)
Expected(w, e) ==
  IF ~Encrypting(w) \/ e.how = "member" \/ e.node \in {Enc(w), Info(w)}
  THEN {} ELSE {e.num}
Reads(w, n) ==
  LET e == Entry(w, NumOf(w, n))
  IN  \A s \in StrsOf(n) : e.keys[s] = Expected(w, e)
ReadBack ==
  \A w \in Writers : Finished(w) =>
    \A n \in Elems(wr[w].objects) \ {Info(w)} : Reads(w, n)

(* Info, too, reads back.                                                   *)
InfoReadBack == \A w \in Writers : Finished(w) => Reads(w, Info(w))

(* "Encrypt encrypts the output file": nothing the client put into it can   *)
(* be read without the key.                                                 *)
OutputCiphered ==
  \A w \in Writers : Finished(w) /\ Encrypting(w) =>
    \A i \in DOMAIN wr[w].out :
      wr[w].out[i].node # Enc(w) =>
        \A s \in StrsOf(wr[w].out[i].node) : wr[w].out[i].keys[s] # {}

(* "Make a copy of objects": a writer never encrypts the client's own.      *)
OriginalsUntouched == \A s \in Strs : text[<<Original, s>>] = {}

(* A document is written once: no object is in the file twice.              *)
WrittenOnce ==
  \A w \in Writers : \A i, j \in DOMAIN wr[w].out :
    wr[w].out[i].node = wr[w].out[j].node => i = j

(* "Should never be a reference, should already be resolved": what a writer *)
(* is given is resolved before it is visited.                               *)
AlwaysResolved == \A w \in Writers : ~wr[w].erred

(* AddPage and Write return, whatever circles the objects form.             *)
Returns == \A w \in Writers : Busy(w) ~> ~Busy(w)

(* A finished file is whole: it has what can be reached, nothing twice, its *)
(* references lead where they should and its pages into its tree.           *)
FileWhole == NoDangling /\ CollectsReachable /\ PagesInTree /\ WrittenOnce

(* What is in it reads back, and nothing of it without the key.             *)
TextKept == ReadBack /\ OutputCiphered

(* Of two writers neither ciphers what the other, or the client, holds.     *)
CopiesApart == ReadBack /\ OriginalsUntouched
=============================================================================

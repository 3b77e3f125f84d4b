------------------------------ MODULE PageTree ------------------------------
(***************************************************************************)
(* The page tree: model.PdfReader reads it into a list of pages, each with *)
(* a PdfPage model, and PdfWriter.AddPage moves a page out of it, with the *)
(* attributes it inherits.                                                 *)
(*                                                                         *)
(* A page is in two places: its dictionary, which buildPageList corrects   *)
(* and which the nodes below it refer to, and its model, which is a copy   *)
(* and fills the dictionary anew in ToPdfObject.  The value of an          *)
(* attribute is known by the node of the file that defines it.             *)
(*                                                                         *)
(* A document that needs a password is loaded by each Decrypt that         *)
(* succeeds; a lookup in it may fail, once: see the component PdfCrypt.    *)
(***************************************************************************)
EXTENDS Naturals, Sequences, FiniteSets

CONSTANTS
  Nodes,     \* objects of the file that may be in the tree
  Attrs,     \* inheritable attributes
  Resources, \* one of them, of which every model has one
  Docs,      \* the files
  MaxLoads,  \* bound on the loads
  MaxOut,    \* bound on the pages written
  Nil,       \* no Parent, no value
  Fresh,     \* an empty resource dictionary
  Tree       \* the page tree of the writer

\* kids, parent, own: Kids, Parent and the attributes in a node's dictionary.
\* fails: nodes of which the first lookup fails.  lazy: NewPdfReaderLazy.
Doc == [type : [Nodes -> {"Pages", "Page", "Other"}], kids : [Nodes -> Seq(Nodes)],
        parent : [Nodes -> Nodes \cup {Nil}], own : [Nodes -> SUBSET Attrs],
        root : Nodes, fails : SUBSET Nodes, lazy : BOOLEAN]

Parents == Nodes \cup {Nil, Tree}
Values == [Attrs -> Nodes \cup {Nil, Fresh}]

ASSUME Assumptions ==
  /\ IsFiniteSet(Nodes)
  /\ Resources \in Attrs
  /\ Docs \subseteq Doc
  /\ MaxLoads \in Nat /\ MaxOut \in Nat
  /\ Nodes \cap {Nil, Fresh, Tree} = {} /\ Cardinality({Nil, Fresh, Tree}) = 3

VARIABLES
  doc,       \* never changes
  known,     \* nodes that were looked up
  traversed, \* nodes in which references are looked for no more
  parent,    \* Parent in each dictionary now
  isRef,     \* the nodes whose Parent is a reference
  value,     \* the attributes in each dictionary now
  pageList,  \* the pages, in order
  models,    \* r.PageList, their models
  stack,     \* activations of buildPageList, the innermost first
  seen,      \* traversedPageNodes
  phase,
  loads,
  out        \* pages added to the writer, and what they have there

dicts == <<parent, isRef, value>>
lists == <<pageList, models>>
walk == <<stack, seen>>
vars == <<doc, known, traversed, dicts, lists, walk, phase, loads, out>>

-----------------------------------------------------------------------------
Elems(s) == {s[i] : i \in DOMAIN s}
Lost == doc.fails \ known  \* what cannot be looked up, this time

(* The Parents from n upwards, by dictionaries par; a circle gives more     *)
(* than there are nodes.  They are not followed through the references refs.*)
Ancestors(par, refs, n) ==
  LET up[i \in 0 .. Cardinality(Nodes) + 1] ==
        IF i = 0 THEN <<n>>
        ELSE LET s == up[i - 1]
                 last == s[Len(s)]
             IN  IF Len(s) < i \/ last = Tree \/ last \in refs \/ par[last] = Nil
                 THEN s ELSE Append(s, par[last])
  IN  Tail(up[Cardinality(Nodes) + 1])

Circular(s) == Len(s) > Cardinality(Nodes)

\* The value of attribute a in the first of the nodes that has one.
FirstOf(val, s, a) ==
  LET has == {i \in DOMAIN s : s[i] # Tree /\ val[s[i]][a] # Nil}
  IN  IF has = {} THEN Nil ELSE val[s[CHOOSE i \in has : \A j \in has : i <= j]][a]

-----------------------------------------------------------------------------
\* Mutant of StartList.
StartListKept == pageList

\* r.pageList starts anew; r.PageList, of the models, does not.
StartList == << >>

Frame(n, par) == [node |-> n, par |-> par, at |-> 0]

(* loadStructure, up to buildPageList.                                      *)
Load ==
  /\ phase \in {"closed", "ready", "failed"} /\ loads < MaxLoads /\ out = << >>
  /\ loads' = loads + 1
  /\ known' = known \cup {doc.root}
  /\ IF doc.root \in Lost
     THEN phase' = "failed" /\ UNCHANGED <<pageList, walk>>
     ELSE /\ phase' = "loading"
          /\ pageList' = StartList
          /\ stack' = <<Frame(doc.root, Nil)>>
          /\ seen' = {}
  /\ UNCHANGED <<doc, traversed, dicts, models, out>>

Top == stack[1]
Pop == stack' = Tail(stack)
Error == phase' = "failed" /\ stack' = << >>
Entering == phase = "loading" /\ stack # << >> /\ Top.at = 0

\* Mutant of Corrected.
Uncorrected(par) == par

\* "Set the parent (in case missing or incorrect)".  The root is left alone.
Corrected(par) == IF Top.par = Nil THEN par ELSE [par EXCEPT ![Top.node] = Top.par]
Linked(refs) == IF Top.par = Nil THEN refs ELSE refs \ {Top.node}

AlreadyTraversed(n) == n \in seen

Skip ==
  /\ Entering /\ AlreadyTraversed(Top.node)
  /\ Pop
  /\ UNCHANGED <<doc, known, traversed, dicts, lists, seen, phase, loads, out>>

\* Mutant of ModelOf.
ModelBare(n) ==
  [node |-> n, parent |-> parent[n], ref |-> n \in isRef, value |-> value[n]]

(* newPdfPageFromDict.  Resources that are missing are looked for in the    *)
(* model, which has empty ones from the start.                              *)
ModelOf(n) ==
  [node |-> n, parent |-> parent[n], ref |-> n \in isRef,
   value |-> [value[n] EXCEPT ![Resources] = IF @ = Nil THEN Fresh ELSE @]]

\* Mutant of AddModel.
AddModelFirst(s, m) == <<m>> \o s

AddModel(s, m) == Append(s, m)

PageNode ==
  /\ Entering /\ ~AlreadyTraversed(Top.node) /\ doc.type[Top.node] = "Page"
  /\ seen' = seen \cup {Top.node}
  /\ models' = AddModel(models, ModelOf(Top.node))
  /\ pageList' = Append(pageList, Top.node)
  /\ parent' = Corrected(parent) /\ isRef' = Linked(isRef)
  /\ Pop
  /\ UNCHANGED <<doc, known, traversed, value, phase, loads, out>>

OtherNode ==
  /\ Entering /\ ~AlreadyTraversed(Top.node) /\ doc.type[Top.node] = "Other"
  /\ seen' = seen \cup {Top.node}
  /\ Error
  /\ UNCHANGED <<doc, known, traversed, dicts, lists, loads, out>>

\* What traverseObjectData gets to from n.
Untraversed(n, par) ==
  LET next(m) == (Elems(doc.kids[m]) \cup {par[m]}) \cap (Nodes \ traversed)
  IN  {m \in Nodes : \A C \in SUBSET Nodes :
         {n} \ traversed \subseteq C /\ (\A k \in C : next(k) \subseteq C) => m \in C}

(* A Pages node.  Unless the reader is lazy it replaces the references in   *)
(* all that can be reached; a lookup that fails leaves some of it undone.   *)
PagesNode ==
  LET n     == Top.node
      par   == Corrected(parent)
      reach == Untraversed(n, par)
  IN  /\ Entering /\ ~AlreadyTraversed(n) /\ doc.type[n] = "Pages"
      /\ seen' = seen \cup {n}
      /\ parent' = par
      /\ \/ /\ doc.lazy
            /\ stack' = [stack EXCEPT ![1].at = 1]
            /\ isRef' = Linked(isRef)
            /\ UNCHANGED <<known, traversed, phase>>
         \/ /\ ~doc.lazy /\ reach \cap Lost = {}
            /\ stack' = [stack EXCEPT ![1].at = 1]
            /\ isRef' = Linked(isRef) \ reach
            /\ known' = known \cup reach
            /\ traversed' = traversed \cup reach
            /\ UNCHANGED phase
         \/ /\ ~doc.lazy
            /\ \E f \in reach \cap Lost, part \in SUBSET (reach \ Lost) :
                 /\ n \in part
                 /\ \E done \in SUBSET part : isRef' = Linked(isRef) \ done
                 /\ known' = known \cup part \cup {f}
                 /\ traversed' = traversed \cup part
            /\ Error
      /\ UNCHANGED <<doc, value, lists, loads, out>>

\* Mutant of NextKid.
SameKid(i) == i

NextKid(i) == i + 1

(* The next kid of a Pages node.                                            *)
Kid ==
  LET c == doc.kids[Top.node][Top.at]
  IN  /\ phase = "loading" /\ stack # << >> /\ Top.at \in DOMAIN doc.kids[Top.node]
      /\ known' = known \cup {c}
      /\ IF c \in Lost
         THEN Error
         ELSE /\ stack' = <<Frame(c, Top.node)>> \o [stack EXCEPT ![1].at = NextKid(@)]
              /\ UNCHANGED phase
      /\ UNCHANGED <<doc, traversed, dicts, lists, seen, loads, out>>

KidsDone ==
  /\ phase = "loading" /\ stack # << >> /\ Top.at = Len(doc.kids[Top.node]) + 1
  /\ Pop
  /\ UNCHANGED <<doc, known, traversed, dicts, lists, seen, phase, loads, out>>

(* Outlines and forms are loaded, and loadStructure returns.                *)
Loaded ==
  /\ phase = "loading" /\ stack = << >>
  /\ phase' = "ready"
  /\ UNCHANGED <<doc, known, traversed, dicts, lists, walk, loads, out>>

-----------------------------------------------------------------------------
GetPage(i) == models[i]

\* Mutant of Inherited: only the page's own parent is asked.
InheritedOnce(val, s, a) == IF s = << >> THEN Nil ELSE FirstOf(val, <<s[1]>>, a)

Inherited(val, s, a) == FirstOf(val, s, a)

\* GetMediaBox, by the model.  References are followed.
BoxOf(m, a) ==
  IF m.value[a] # Nil THEN m.value[a]
  ELSE Inherited(value, Ancestors([parent EXCEPT ![m.node] = m.parent], {}, m.node), a)

\* The Parents of a page when its model has filled the dictionary.
FilledRefs(page) == IF page.ref THEN isRef \cup {page.node} ELSE isRef \ {page.node}
Upwards(page) ==
  Ancestors([parent EXCEPT ![page.node] = page.parent], FilledRefs(page), page.node)

(* AddPage: the model fills the dictionary, attributes that are missing are *)
(* copied from the Parents, and the writer's page tree becomes the Parent.  *)
(* Through a circle of Parents it walks for ever.                           *)
AddPage(i) ==
  LET page == GetPage(i)
      n    == page.node
      up   == Upwards(page)
      val  == [a \in Attrs |-> IF page.value[a] # Nil THEN page.value[a] ELSE Inherited(value, up, a)]
  IN  /\ phase \in {"ready", "failed"} /\ Len(out) < MaxOut
      /\ i \in DOMAIN pageList
      /\ IF Circular(up)
         THEN /\ phase' = "stuck"
              /\ parent' = [parent EXCEPT ![n] = page.parent] /\ isRef' = FilledRefs(page)
              /\ UNCHANGED <<value, out>>
         ELSE /\ parent' = [parent EXCEPT ![n] = Tree]
              /\ isRef' = isRef \ {n}
              /\ value' = [value EXCEPT ![n] = val]
              /\ out' = Append(out, [node |-> n, value |-> val])
              /\ UNCHANGED phase
      /\ UNCHANGED <<doc, known, traversed, lists, walk, loads>>

-----------------------------------------------------------------------------
Init ==
  /\ doc \in Docs
  /\ known = {} /\ traversed = {}
  /\ parent = doc.parent
  /\ isRef = {n \in Nodes : doc.parent[n] # Nil}
  /\ value = [n \in Nodes |-> [a \in Attrs |-> IF a \in doc.own[n] THEN n ELSE Nil]]
  /\ pageList = << >> /\ models = << >>
  /\ stack = << >> /\ seen = {}
  /\ phase = "closed" /\ loads = 0
  /\ out = << >>

Walk == Skip \/ PageNode \/ OtherNode \/ PagesNode \/ Kid \/ KidsDone \/ Loaded

Next == Load \/ Walk \/ \E i \in DOMAIN pageList : AddPage(i)

Spec == Init /\ [][Next]_vars

\* loadStructure runs until it returns.
FairSpec == Spec /\ WF_vars(Walk)

-----------------------------------------------------------------------------
Model == [node : Nodes, parent : Parents, ref : BOOLEAN, value : Values]

(* Types.  Every model has Resources.                                       *)
TypeOK ==
  /\ doc \in Doc
  /\ known \in SUBSET Nodes /\ traversed \in SUBSET Nodes
  /\ parent \in [Nodes -> Parents] /\ isRef \in SUBSET Nodes
  /\ value \in [Nodes -> Values]
  /\ pageList \in Seq(Nodes) /\ models \in Seq(Model)
  /\ \A i \in DOMAIN models : models[i].value[Resources] # Nil
  /\ stack \in Seq([node : Nodes, par : Nodes \cup {Nil}, at : Nat])
  /\ seen \in SUBSET Nodes
  /\ phase \in {"closed", "loading", "ready", "failed", "stuck"}
  /\ loads \in 0 .. MaxLoads
  /\ out \in Seq([node : Nodes, value : Values])

(* The ways down from the root: which kid is taken where, never back to a   *)
(* node on the way.                                                         *)
Step(k, n) == [kid |-> k, node |-> n]
Last(s) == s[Len(s)].node
Further(s) ==
  IF doc.type[Last(s)] # "Pages" THEN {}
  ELSE {Append(s, Step(k, doc.kids[Last(s)][k])) :
          k \in {k \in DOMAIN doc.kids[Last(s)] :
                  \A i \in DOMAIN s : s[i].node # doc.kids[Last(s)][k]}}
Ways ==
  LET long[l \in 1 .. Cardinality(Nodes)] ==
        IF l = 1 THEN {<<Step(1, doc.root)>>} ELSE UNION {Further(s) : s \in long[l - 1]}
  IN  UNION {long[l] : l \in 1 .. Cardinality(Nodes)}

\* Where t and s part, t takes an earlier kid.
Before(t, s) ==
  \E i \in DOMAIN t \cap DOMAIN s :
    (\A j \in 1 .. i - 1 : t[j] = s[j]) /\ t[i].kid < s[i].kid

(* The pages in the order of the tree: each that there is a way to, once,   *)
(* and whichever way leads to a later page, one to an earlier is before.    *)
InOrder(list) ==
  LET ways == Ways
  IN  /\ \A i, j \in DOMAIN list : list[i] = list[j] => i = j
      /\ Elems(list) = {n \in {Last(s) : s \in ways} : doc.type[n] = "Page"}
      /\ \A s \in ways : \A j \in DOMAIN list : list[j] = Last(s) =>
           \A i \in 1 .. j - 1 : \E t \in ways : Last(t) = list[i] /\ Before(t, s)

(* "Cyclic recursion, skipping": whatever circles and shared nodes there    *)
(* are, and however often it is loaded, the list has every page once, in    *)
(* the order of the tree.                                                   *)
PagesInOrder == phase = "ready" => InOrder(pageList)

(* "GetPage returns the PdfPage model for the specified page number":       *)
(* loading again, which does not empty the list of the models, does no      *)
(* harm, unless the load before was broken off.                             *)
ModelsMatch ==
  phase = "ready" /\ doc.fails = {} =>
    \A i \in DOMAIN pageList : GetPage(i).node = pageList[i]

(* A tree as ISO 32000 has it.                                              *)
Proper ==
  /\ doc.parent[doc.root] = Nil
  /\ \A n \in Nodes, k \in Nodes : n \in Elems(doc.kids[k]) => doc.parent[n] = k
Effective(n, a) ==
  LET val == [m \in Nodes |-> [b \in Attrs |-> IF b \in doc.own[m] THEN m ELSE Nil]]
  IN  FirstOf(val, <<n>> \o Ancestors(doc.parent, {}, n), a)

(* GetMediaBox "gets the inheritable media box value, either from the page  *)
(* or a higher up page/pages struct": in a proper tree, lazy or not, it is  *)
(* the one that the file has for the page.                                  *)
BoxFound ==
  phase = "ready" /\ Proper /\ out = << >> =>
    \A i \in DOMAIN models : \A a \in Attrs \ {Resources} :
      BoxOf(models[i], a) = Effective(models[i].node, a)

(* "Copy inherited fields if missing": a page of a proper tree, read by the *)
(* reader that is not lazy, keeps in the new document what it has in the    *)
(* old, whatever other pages were moved before.                             *)
InheritedKept ==
  Proper /\ ~doc.lazy /\ doc.fails = {} =>
    \A i \in DOMAIN out : \A a \in Attrs \ {Resources} :
      out[i].value[a] = Effective(out[i].node, a)

(* "Resources should always be accessible": the same of Resources.          *)
ResourcesKept ==
  Proper /\ ~doc.lazy /\ doc.fails = {} =>
    \A i \in DOMAIN out :
      Effective(out[i].node, Resources) # Nil =>
        out[i].value[Resources] = Effective(out[i].node, Resources)

(* AddPage follows Parents without a guard.  Those that buildPageList sets  *)
(* are no circle, whatever the file has: after a load that succeeded, the   *)
(* way up from a page ends, unless there is a circle of Parents that the    *)
(* load did not set, of nodes outside the tree, or that the models still    *)
(* have from the file, of pages; or the root has a Parent.                  *)
Loose == (Nodes \ seen) \cup {n \in Nodes : doc.type[n] = "Page"}
NeverStuck ==
  /\ phase = "ready" /\ doc.parent[doc.root] = Nil
  /\ \A S \in (SUBSET Loose) \ {{}} : \E n \in S : doc.parent[n] \notin S
  => \A i \in DOMAIN pageList : ~Circular(Upwards(GetPage(i)))

(* loadStructure returns, on every tree.                                    *)
Returns == phase = "loading" ~> phase # "loading"

(* Loading: the list has the pages in the order of the tree, each with its  *)
(* model, in a tree without a circle upwards, however often it is loaded.   *)
TreeRead == PagesInOrder /\ ModelsMatch /\ NeverStuck

(* The inherited boxes are those of the file, in it and where a page went.  *)
BoxesTrue == BoxFound /\ InheritedKept
=============================================================================

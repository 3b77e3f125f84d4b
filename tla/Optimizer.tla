------------------------------ MODULE Optimizer ------------------------------
(***************************************************************************)
(* The optimizers (model/optimize) a writer gives its objects to, one      *)
(* after another: what counts as a duplicate, and the replacement of       *)
(* objects in place.                                                       *)
(*                                                                         *)
(* Objects are nodes of a heap; what a node holds are pointers to others.  *)
(* list has the objects that will be written, table doubles as the objects *)
(* already visited and as what replaces them.  replaceObjectsInPlace calls *)
(* itself: the values being gone through are a stack.  Data of a stream is *)
(* known by its encodings, the outermost first, and what they encode.      *)
(***************************************************************************)
EXTENDS Integers, Sequences, FiniteSets, Reachable
LOCAL INSTANCE SequencesExt
LOCAL INSTANCE FiniteSetsExt
LOCAL INSTANCE TLC

CONSTANTS
  OptDocs,     \* documents: [heap, list, roots]; roots are the objects the trailer refers to
  OptOptions,  \* options: sets of names of optimizers
  Squeezed,    \* data that takes less room when it is compressed
  OptDepth     \* how far from the trailer a reader looks

VARIABLE optim  \* [at, chain, heap, list, table, stack, was]; was, the document before, is not in the code

Names1 == <<"direct", "streams", "identical", "objstms", "compress">>
\* New
Chain(options) == SelectSeq(Names1, LAMBDA n : n \in options)

Vals(n) ==
  CASE n.k = "ind" -> <<n.val>> [] n.k = "stream" -> <<n.dict>> [] n.k = "atom" -> << >>
    [] n.k = "dict" -> [i \in DOMAIN n.ent |-> n.ent[i].val] [] n.k \in {"array", "objstm"} -> n.items
WithVals(n, vals) ==
  CASE n.k = "ind" -> [n EXCEPT !.val = vals[1]] [] n.k = "stream" -> [n EXCEPT !.dict = vals[1]]
    [] n.k = "dict" -> [n EXCEPT !.ent = [i \in DOMAIN n.ent |-> [key |-> n.ent[i].key, val |-> vals[i]]]]
    [] n.k \in {"array", "objstm"} -> [n EXCEPT !.items = vals]
Held(n) == ToSet(Vals(n))
Container(n) == n.k \in {"ind", "stream", "objstm"}
\* What an object refers to without a reference in between.
Through(h) == [o \in DOMAIN h |-> IF Container(h[o]) THEN {} ELSE Held(h[o])]
\* No object of the list, nor what it has inside, refers to an object that has
\* a number and is not in the list.
SelfContained(h, list) ==
  \A o \in ToSet(list), x \in DOMAIN h :
    x \in Held(h[o]) => \A c \in Closure({x}, Through(h)) : Container(h[c]) => c \in ToSet(list)

Once(seq) == \A i, j \in DOMAIN seq : seq[i] = seq[j] => i = j
\* What the parser and the models give a writer: pointers lead to objects, the
\* list has every object with a number that one in it refers to, once; without
\* references, objects nest; the dictionary of a stream is in no other.
Entries(P) == [key : STRING, val : P]
IsNode(n, P) ==
  /\ "k" \in DOMAIN n /\ n.k \in {"ind", "stream", "objstm", "atom", "array", "dict"}
  /\ n.k = "ind" => "val" \in DOMAIN n /\ n.val \in P
  /\ n.k = "stream" => "dict" \in DOMAIN n /\ n.dict \in P
  /\ n.k \in {"array", "objstm"} => "items" \in DOMAIN n /\ n.items \in Seq(P)
  /\ n.k = "dict" => "ent" \in DOMAIN n /\ n.ent \in Seq(Entries(P))
IsHeap(h) ==
  /\ Len(h) \in Nat /\ h = [o \in 1 .. Len(h) |-> h[o]]
  /\ \A o \in 1 .. Len(h) : IsNode(h[o], 1 .. Len(h))
IsList(h, list) ==
  /\ list \in Seq(DOMAIN h) /\ Once(list)
  /\ \A o \in ToSet(list) : Container(h[o])
Acyclic(h) ==
  \A o \in DOMAIN h : ~Container(h[o]) => \A v \in Held(h[o]) : o \notin Closure({v}, Through(h))
StreamDictsApart(h) ==
  \A o \in DOMAIN h : h[o].k = "stream" =>
    /\ h[h[o].dict].k = "dict"
    /\ \A p \in DOMAIN h : h[p].k = "dict" => h[o].dict \notin Held(h[p])
ASSUME OptDocsAssumption ==
  \A doc \in OptDocs : /\ IsHeap(doc.heap) /\ IsList(doc.heap, doc.list) /\ SelfContained(doc.heap, doc.list)
                       /\ Acyclic(doc.heap) /\ StreamDictsApart(doc.heap)
ASSUME FilterAssumption == "Filter" \in STRING
Keys(n) == {n.ent[i].key : i \in DOMAIN n.ent}
\* Get of a dictionary that has the key.
Get(n, key) == n.ent[SelectInSeq(n.ent, LAMBDA e : e.key = key)].val
\* Set
SetKey(n, key, o) ==
  IF key \in Keys(n) THEN [n EXCEPT !.ent[SelectInSeq(n.ent, LAMBDA e : e.key = key)].val = o]
  ELSE [n EXCEPT !.ent = Append(@, [key |-> key, val |-> o])]

\* WriteString: an object with a number is written as a reference to it.
Printed(h) ==
  LET text[o \in DOMAIN h] ==
        LET n == h[o]
        IN  CASE Container(n) -> <<"R", n.num>> [] n.k = "atom" -> <<"atom", n.val>>
              [] n.k = "array" -> <<"array", [i \in DOMAIN n.items |-> text[n.items[i]]]>>
              [] n.k = "dict" -> <<"dict", [i \in DOMAIN n.ent |-> <<n.ent[i].key, text[n.ent[i].val]>>]>>
  IN  text

\* Mutant of Renumbered.
StaleNumbers(h, list) == h
\* updateObjectNumbers
Renumbered(h, list) ==
  [o \in DOMAIN h |-> IF o \in ToSet(list) THEN [h[o] EXCEPT !.num = SelectInSeq(list, LAMBDA x : x = o)] ELSE h[o]]

\* What of seq is in S, in its order.
Chosen(seq, S) ==
  LET kept[i \in 0 .. Len(seq)] ==
        IF i = 0 THEN << >> ELSE IF seq[i] \in S THEN Append(kept[i - 1], seq[i]) ELSE kept[i - 1]
  IN  kept[Len(seq)]
\* Lists of two or more of seq that have the same key.
Groups(seq, key) ==
  {g \in {Chosen(seq, {o \in ToSet(seq) : key[o] = key[x]}) : x \in ToSet(seq)} : Len(g) > 1}
\* All of a group are to be replaced by its first.
ToFirst(groups) == [o \in UNION {ToSet(Tail(g)) : g \in groups} |-> (CHOOSE g \in groups : o \in ToSet(g))[1]]

\* Replaces the values of a node, or the list's (of = 0), from the first on.
Frame(of, vals) == [of |-> of, vals |-> vals, i |-> 1]
StartReplacing(h, list, table) ==
  optim' = [optim EXCEPT !.heap = h, !.list = list, !.table = table, !.chain = Tail(@),
                     !.at = IF table = << >> THEN "next" ELSE "replacing",
                     !.stack = IF table = << >> THEN << >> ELSE <<Frame(0, list)>>]

(***************************************************************************)
(* The optimizers.                                                         *)
(***************************************************************************)
Runs(name) == optim.at = "next" /\ optim.chain # << >> /\ Head(optim.chain) = name

\* processDict: dictionaries in dictionaries, but not in arrays.
DictsIn(h) ==
  LET found[o \in DOMAIN h] ==
        IF h[o].k # "dict" THEN << >>
        ELSE FlattenSeq([i \in DOMAIN h[o].ent |->
               LET v == h[o].ent[i].val IN IF h[v].k = "dict" THEN <<v>> \o found[v] ELSE << >>])
  IN  found
DirectDicts(h, list) ==
  FlattenSeq([i \in DOMAIN list |-> IF h[list[i]].k = "ind" THEN DictsIn(h)[h[list[i]].val] ELSE << >>])
\* Each group gets an indirect object of its own in front of the others, with
\* a copy of the first; the groups come in the order of a map.
CombineDuplicateDirectObjects ==
  /\ Runs("direct")
  /\ LET h == Renumbered(optim.heap, optim.list)
         size == Cardinality(DOMAIN h)
     IN  \E groups \in SetToSeqs(Groups(DirectDicts(h, optim.list), Printed(h))) :
           LET Made(i) == size + 2 * i
               new == [o \in size + 1 .. size + 2 * Len(groups) |->
                        LET i == (o - size + 1) \div 2
                        IN  IF o = Made(i) THEN [k |-> "ind", val |-> o - 1, num |-> 0] ELSE h[groups[i][1]]]
           IN  StartReplacing([o \in 1 .. size + 2 * Len(groups) |-> IF o <= size THEN h[o] ELSE new[o]],
                              [i \in DOMAIN groups |-> Made(i)] \o optim.list,
                              [o \in UNION {ToSet(groups[i]) : i \in DOMAIN groups} |->
                                 Made(CHOOSE i \in DOMAIN groups : o \in ToSet(groups[i]))])

\* Mutant of Deleted.
DeletedWithFirst(groups) == UNION {ToSet(g) : g \in groups}
\* What is deleted from the list: all of a group but the first.
Deleted(groups) == UNION {ToSet(Tail(g)) : g \in groups}
Without(list, gone) == Chosen(list, ToSet(list) \ gone)
OfKind(h, list, k) == Chosen(list, {o \in ToSet(list) : h[o].k = k})

CombineDuplicateStreams ==
  /\ Runs("streams")
  /\ LET streams == OfKind(optim.heap, optim.list, "stream")
         groups == Groups(streams, [o \in ToSet(streams) |-> optim.heap[o].raw])
     IN  StartReplacing(optim.heap, Without(optim.list, Deleted(groups)), ToFirst(groups))

\* A name that is an object of its own is none here.
IsPage(h, n) == "Type" \in Keys(n) /\ h[Get(n, "Type")] = [k |-> "atom", val |-> "Page"]
HasDict(h, o) == h[o].k = "ind" /\ h[h[o].val].k = "dict"
Comparable(h, o) == HasDict(h, o) /\ ~IsPage(h, h[h[o].val])
CombineIdenticalIndirectObjects ==
  /\ Runs("identical")
  /\ LET h == Renumbered(optim.heap, optim.list)
         text == Printed(h)
         seq == Chosen(optim.list, {o \in ToSet(optim.list) : Comparable(h, o)})
         groups == Groups(seq, [o \in ToSet(seq) |-> text[h[o].val]])
     IN  StartReplacing(h, Without(optim.list, Deleted(groups)), ToFirst(groups))

\* What is in the object stream stays in the list: the writer knows that it is not to be written.
\* (Generations are 0.)
ObjectStreams ==
  /\ Runs("objstms")
  /\ LET members == OfKind(optim.heap, optim.list, "ind")
         others == Without(optim.list, ToSet(members))
         new == Cardinality(DOMAIN optim.heap) + 1
         stm == [k |-> "objstm", items |-> members, num |-> 0]
     IN  StartReplacing(IF Len(members) > 1 THEN Append(optim.heap, stm) ELSE optim.heap,
                        (IF Len(members) > 1 THEN <<new>> ELSE << >>) \o members \o others, << >>)

ResolvedNode(h, o) == IF h[o].k = "ind" THEN h[h[o].val] ELSE h[o]
IsName(h, dict, key) == key \in Keys(dict) /\ ResolvedNode(h, Get(dict, key)).k = "atom"
\* A stream is compressed where that makes it smaller, and where it has no
\* Filter that is a name; one that has a list of filters is compressed again.
Compressed(h, o) == ~IsName(h, h[h[o].dict], "Filter") /\ h[o].raw[Len(h[o].raw)] \in Squeezed
CompressStreams ==
  /\ Runs("compress")
  /\ LET h == optim.heap
         streams == {o \in ToSet(optim.list) : h[o].k = "stream" /\ Compressed(h, o)}
         dicts == {h[o].dict : o \in streams}
         flate == Cardinality(DOMAIN h) + 1
     IN  StartReplacing([o \in 1 .. flate |->
                           IF o = flate THEN [k |-> "atom", val |-> "flate"]
                           ELSE IF o \in streams THEN [h[o] EXCEPT !.raw = <<"flate">> \o @]
                           ELSE IF o \in dicts THEN SetKey(h[o], "Filter", flate) ELSE h[o]],
                        optim.list, << >>)

(***************************************************************************)
(* replaceObjectsInPlace.                                                  *)
(***************************************************************************)
Topmost == Last(optim.stack)
Below == Front(optim.stack)
ReplaceNext ==
  /\ optim.at = "replacing" /\ Topmost.i <= Len(Topmost.vals)
  /\ LET o == Topmost.vals[Topmost.i]
         rest == [Topmost EXCEPT !.i = @ + 1]
     IN  IF o \in DOMAIN optim.table
         THEN optim' = [optim EXCEPT !.stack = Append(Below, [rest EXCEPT !.vals[Topmost.i] = optim.table[o]])]
         ELSE optim' = [optim EXCEPT
                !.table = [x \in DOMAIN @ \cup {o} |-> IF x = o THEN o ELSE @[x]],
                !.stack = Append(Below, rest) \o (IF optim.heap[o].k = "atom" THEN << >>
                                                  ELSE <<Frame(o, Vals(optim.heap[o]))>>)]
ReplaceEnd ==
  /\ optim.at = "replacing" /\ Topmost.i > Len(Topmost.vals)
  /\ optim' = IF Topmost.of = 0
              THEN [optim EXCEPT !.at = "next", !.list = Topmost.vals, !.stack = << >>, !.table = << >>]
              ELSE [optim EXCEPT !.heap[Topmost.of] = WithVals(@, Topmost.vals), !.stack = Below]

OptNone ==
  [at |-> "idle", chain |-> << >>, heap |-> << >>, list |-> << >>, table |-> << >>, stack |-> << >>, was |-> << >>]
OptInit == optim = OptNone
OptIdle == optim.at = "idle"
Optimize(doc, options) ==
  /\ optim.at = "idle"
  /\ optim' = [optim EXCEPT !.at = "next", !.chain = Chain(options), !.heap = doc.heap, !.list = doc.list,
                        !.was = <<doc, options>>]
OptNext ==
  \/ \E doc \in OptDocs, options \in OptOptions : Optimize(doc, options)
  \/ CombineDuplicateDirectObjects \/ CombineDuplicateStreams \/ CombineIdenticalIndirectObjects
  \/ ObjectStreams \/ CompressStreams
  \/ ReplaceNext \/ ReplaceEnd
OptSpec == OptInit /\ [][OptNext]_optim

(***************************************************************************)
(* Properties.                                                             *)
(***************************************************************************)
OptDone == optim.at = "next" /\ optim.chain = << >>
Was == optim.was[1]
Ran(name) == name \in optim.was[2]

\* Streams with the data of another whose dictionary differs: combined, they have one dictionary.
Clashing(h, list) ==
  LET streams == {o \in ToSet(list) : h[o].k = "stream"}
  IN  {o \in streams : \E x \in streams : h[x].raw = h[o].raw /\ Printed(h)[h[x].dict] # Printed(h)[h[o].dict]}
FiltersOf(h, dict) ==
  IF "Filter" \notin Keys(dict) THEN << >>
  ELSE LET f == ResolvedNode(h, Get(dict, "Filter"))
       IN  IF f.k = "atom" THEN <<f.val>> ELSE [i \in DOMAIN f.items |-> h[f.items[i]].val]
\* What a reader gets.
Decoded(h, o) ==
  LET f == FiltersOf(h, h[h[o].dict])
  IN  IF IsPrefix(f, h[o].raw) THEN SubSeq(h[o].raw, Len(f) + 1, Len(h[o].raw)) ELSE <<"garbled">>

\* Two objects, of the document before and after, and what is at the same place in each.
Resolved(h, o) == IF h[o].k = "ind" THEN h[o].val ELSE o
Inside(h, o) ==
  LET n == h[o]
  IN  CASE n.k = "dict" -> {<<n.ent[i].key, Resolved(h, n.ent[i].val)>> : i \in DOMAIN n.ent}
        [] n.k = "array" -> {<<ToString(i), Resolved(h, n.items[i])>> : i \in DOMAIN n.items}
        [] n.k = "stream" -> {<<"dict", n.dict>>}
        [] OTHER -> {}
SamePlace(h1, h2, pair) ==
  {<<x[1][2], x[2][2]>> : x \in {x \in Inside(h1, pair[1]) \X Inside(h2, pair[2]) :
                                    x[1][1] = x[2][1] /\ x[1][1] # "Filter"}}

Skipped1 == IF Ran("streams") THEN Clashing(Was.heap, Was.list) ELSE {}
Pairs ==
  LET from[n \in Nat] ==
        IF n = 0 THEN {<<Was.heap[r].val, optim.heap[r].val>> : r \in Was.roots}
        ELSE LET before == from[n - 1]
             IN  before \cup UNION {SamePlace(Was.heap, optim.heap, p) : p \in {x \in before : x[1] \notin Skipped1}}
  IN  from[OptDepth]
CompressedTwice(o) ==
  Ran("compress") /\ Compressed(Was.heap, o) /\ "Filter" \in Keys(Was.heap[Was.heap[o].dict])
Alike(a, b) ==
  LET n == Was.heap[a]
      m == optim.heap[b]
  IN  /\ n.k = m.k
      /\ n.k = "atom" => n.val = m.val
      /\ n.k = "array" => Len(n.items) = Len(m.items)
      /\ n.k = "dict" => Keys(n) \ {"Filter"} = Keys(m) \ {"Filter"}
      /\ n.k = "stream" /\ a \notin Skipped1 /\ ~CompressedTwice(a) => Decoded(Was.heap, a) = Decoded(optim.heap, b)

\* Who follows the references from the trailer finds what was there before.
\* (Streams are combined by their data alone, whatever their dictionaries say,
\* and one with a list of filters is compressed again and loses them.)
MeaningKept == OptDone => \A p \in Pairs : Alike(p[1], p[2])

\* Every object that one in the list refers to, and every one the trailer
\* refers to, is in the list, and once: nothing that was combined is still
\* referred to, and nothing that is referred to was deleted.
ListClosed == OptDone => SelfContained(optim.heap, optim.list) /\ Once(optim.list)
RootsListed == OptDone => Was.roots \subseteq ToSet(optim.list)

\* Pages that look the same are still two.
PagesOf(h, list) == {o \in ToSet(list) : HasDict(h, o) /\ IsPage(h, h[h[o].val])}
PagesApart == OptDone => PagesOf(optim.heap, optim.list) = PagesOf(Was.heap, Was.list)

\* No duplicates are left of what was combined, nor come up meanwhile.
DuplicatesGone ==
  OptDone =>
    LET h == Renumbered(optim.heap, optim.list)
        streams == OfKind(h, optim.list, "stream")
        dicts == DirectDicts(h, optim.list)
    IN  /\ Ran("streams") => Once([i \in DOMAIN streams |-> h[streams[i]].raw])
        /\ Ran("direct") /\ optim.was[2] \cap {"streams", "identical"} = {} =>
             Once([i \in DOMAIN dicts |-> Printed(h)[dicts[i]]])

OptimizerSound == MeaningKept /\ ListClosed /\ RootsListed /\ PagesApart /\ DuplicatesGone
=============================================================================

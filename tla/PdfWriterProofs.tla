--------------------------- MODULE PdfWriterProofs ---------------------------
(***************************************************************************)
(* Proofs about PdfWriter, for every document, however its objects refer   *)
(* to each other, and any number of pages; and about Dictionaries, the     *)
(* models whose objects a writer is given, for every dictionary and any    *)
(* number of changes.                                                      *)
(***************************************************************************)
EXTENDS PdfWriter, Dictionaries, CommonLemmas

-----------------------------------------------------------------------------
(* The heap is finite.                                                      *)
LEMMA NodesFinite == IsFiniteSet(Nodes)
<1> DEFINE Kinds == {"info", "root", "pages", "encrypt", "objstm"}
<1>1. IsFiniteSet({}) /\ Kinds = (((({} \cup {"info"}) \cup {"root"}) \cup {"pages"}) \cup {"encrypt"}) \cup {"objstm"}
  BY FS_EmptySet
<1>2. IsFiniteSet(Kinds)
  <2>1. IsFiniteSet({} \cup {"info"})
    BY <1>1, FS_AddElement
  <2>2. IsFiniteSet(({} \cup {"info"}) \cup {"root"})
    BY <2>1, FS_AddElement
  <2>3. IsFiniteSet((({} \cup {"info"}) \cup {"root"}) \cup {"pages"})
    BY <2>2, FS_AddElement
  <2>4. IsFiniteSet(((({} \cup {"info"}) \cup {"root"}) \cup {"pages"}) \cup {"encrypt"})
    BY <2>3, FS_AddElement
  <2>5. IsFiniteSet((((({} \cup {"info"}) \cup {"root"}) \cup {"pages"}) \cup {"encrypt"}) \cup {"objstm"})
    BY <2>4, FS_AddElement
  <2> QED
    BY <1>1, <2>5
<1> HIDE DEF Kinds
<1>3. IsFiniteSet(Kinds \X Writers)
  BY <1>2, FS_Product, Assumptions
<1>4. Own = Kinds \X Writers
  BY DEF Own, Kinds
<1> QED
  BY <1>3, <1>4, FS_Union, Assumptions DEF Nodes

LEMMA ClosureOfNodes ==
  ASSUME NEW next \in [Nodes -> SUBSET Nodes], NEW S \in SUBSET Nodes
  PROVE  /\ Closure(S, next) \in SUBSET Nodes
         /\ S \subseteq Closure(S, next)
         /\ \A m \in Closure(S, next) : next[m] \subseteq Closure(S, next)
         /\ \A C \in SUBSET Nodes :
              S \subseteq C /\ (\A m \in C : next[m] \subseteq C) => Closure(S, next) \subseteq C
BY NodesFinite, ClosureLeast

-----------------------------------------------------------------------------
(* Sequences without a repetition.                                          *)
Distinct(s) == \A i, j \in DOMAIN s : s[i] = s[j] => i = j

LEMMA ElemsType ==
  ASSUME NEW D, NEW s \in Seq(D)
  PROVE  Elems(s) \subseteq D
BY DEF Elems

LEMMA AppendFacts ==
  ASSUME NEW D, NEW s \in Seq(D), NEW x \in D
  PROVE  /\ Append(s, x) \in Seq(D)
         /\ Elems(Append(s, x)) = Elems(s) \cup {x}
         /\ Distinct(s) /\ x \notin Elems(s) => Distinct(Append(s, x))
<1> DEFINE t == Append(s, x)
<1>1. /\ t \in Seq(D) /\ Len(s) \in Nat
      /\ DOMAIN s = 1 .. Len(s) /\ DOMAIN t = 1 .. Len(s) + 1
      /\ \A i \in 1 .. Len(s) : t[i] = s[i]
      /\ t[Len(s) + 1] = x
  OBVIOUS
<1> HIDE DEF t
<1>2. Elems(t) = Elems(s) \cup {x}
  <2>1. Elems(t) \subseteq Elems(s) \cup {x}
    BY <1>1 DEF Elems
  <2>2. \A i \in DOMAIN s : i \in DOMAIN t /\ s[i] = t[i]
    BY <1>1
  <2>3. Len(s) + 1 \in DOMAIN t
    BY <1>1
  <2> QED
    BY <1>1, <2>1, <2>2, <2>3 DEF Elems
<1>3. Distinct(s) /\ x \notin Elems(s) => Distinct(t)
  BY <1>1 DEF Distinct, Elems
<1> QED
  BY <1>1, <1>2, <1>3 DEF t

LEMMA ConcatFacts ==
  ASSUME NEW D, NEW s \in Seq(D), NEW t \in Seq(D)
  PROVE  /\ s \o t \in Seq(D)
         /\ Elems(s \o t) = Elems(s) \cup Elems(t)
         /\ Distinct(s) /\ Distinct(t) /\ Elems(s) \cap Elems(t) = {} => Distinct(s \o t)
<1> DEFINE u == s \o t
<1>1. /\ u \in Seq(D) /\ Len(s) \in Nat /\ Len(t) \in Nat
      /\ DOMAIN s = 1 .. Len(s) /\ DOMAIN t = 1 .. Len(t)
      /\ DOMAIN u = 1 .. Len(s) + Len(t)
      /\ \A i \in 1 .. Len(s) : u[i] = s[i]
      /\ \A i \in 1 .. Len(s) + Len(t) : i > Len(s) => u[i] = t[i - Len(s)]
  OBVIOUS
<1> HIDE DEF u
<1>2. \A i \in DOMAIN u : \/ i \in DOMAIN s /\ u[i] = s[i]
                          \/ i > Len(s) /\ i - Len(s) \in DOMAIN t /\ u[i] = t[i - Len(s)]
  BY <1>1
<1>3. Elems(u) = Elems(s) \cup Elems(t)
  <2>1. Elems(u) \subseteq Elems(s) \cup Elems(t)
    BY <1>2 DEF Elems
  <2>2. \A i \in DOMAIN s : i \in DOMAIN u /\ s[i] = u[i]
    BY <1>1
  <2>3. \A i \in DOMAIN t : i + Len(s) \in DOMAIN u /\ t[i] = u[i + Len(s)]
    <3> TAKE i \in DOMAIN t
    <3>1. i + Len(s) \in 1 .. Len(s) + Len(t) /\ i + Len(s) > Len(s) /\ (i + Len(s)) - Len(s) = i
      BY <1>1
    <3> QED
      BY <1>1, <3>1
  <2>4. Elems(s) \subseteq Elems(u)
    BY <2>2 DEF Elems
  <2>5. Elems(t) \subseteq Elems(u)
    BY <2>3 DEF Elems
  <2> QED
    BY <2>1, <2>4, <2>5
<1>4. ASSUME Distinct(s), Distinct(t), Elems(s) \cap Elems(t) = {}
      PROVE  Distinct(u)
  <2> SUFFICES ASSUME NEW i \in DOMAIN u, NEW j \in DOMAIN u, u[i] = u[j]
               PROVE  i = j
    BY DEF Distinct
  <2>1. CASE i \in DOMAIN s /\ j \in DOMAIN s
    BY <1>1, <1>4, <2>1 DEF Distinct
  <2>2. CASE i \notin DOMAIN s /\ j \notin DOMAIN s
    <3>1. i - Len(s) = j - Len(s)
      BY <1>2, <1>4, <2>2 DEF Distinct
    <3> QED
      BY <1>1, <3>1
  <2>3. CASE ~(i \in DOMAIN s <=> j \in DOMAIN s)
    <3>1. \A k \in DOMAIN u : IF k \in DOMAIN s THEN u[k] \in Elems(s) ELSE u[k] \in Elems(t)
      BY <1>2 DEF Elems
    <3> QED
      BY <1>4, <2>3, <3>1
  <2> QED
    BY <2>1, <2>2, <2>3
<1> QED
  BY <1>1, <1>3, <1>4 DEF u

LEMMA ConcatHead ==
  ASSUME NEW D, NEW s \in Seq(D), NEW t \in Seq(D), Len(s) \in Nat \ {0}
  PROVE  Len(s \o t) \in Nat \ {0} /\ s \o t # << >> /\ (s \o t)[1] = s[1]
OBVIOUS

LEMMA ConcatAssoc ==
  ASSUME NEW D, NEW s \in Seq(D), NEW t \in Seq(D), NEW u \in Seq(D)
  PROVE  (s \o t) \o u = s \o (t \o u)
<1> DEFINE l == (s \o t) \o u
           r == s \o (t \o u)
<1>1. l \in Seq(D) /\ r \in Seq(D) /\ Len(l) = Len(r)
  OBVIOUS
<1>2. \A i \in 1 .. Len(l) : l[i] = r[i]
  BY SMTT(30)
<1> HIDE DEF l, r
<1>3. DOMAIN l = 1 .. Len(l) /\ DOMAIN r = 1 .. Len(l)
  BY <1>1
<1>4. l = [i \in 1 .. Len(l) |-> l[i]] /\ r = [i \in 1 .. Len(l) |-> r[i]]
  BY <1>1, <1>3
<1>5. l = r
  BY <1>2, <1>4
<1> QED
  BY <1>5 DEF l, r

LEMMA OneFacts ==
  ASSUME NEW D, NEW x \in D
  PROVE  <<x>> \in Seq(D) /\ Elems(<<x>>) = {x} /\ Distinct(<<x>>)
BY DEF Elems, Distinct

(* What Those computes: the elements in T, none added, none twice.          *)
LEMMA ThoseFacts ==
  ASSUME NEW D, NEW s \in Seq(D), NEW T
  PROVE  /\ Those(s, T) \in Seq(D)
         /\ Elems(Those(s, T)) = Elems(s) \cap T
         /\ Distinct(s) => Distinct(Those(s, T))
<1> DEFINE Body(f, m) ==
             [i \in 0 .. m |-> IF i = 0 THEN << >>
                               ELSE IF s[i] \in T THEN Append(f[i - 1], s[i]) ELSE f[i - 1]]
           Exists(m) == \E f : f = Body(f, m)
           some == CHOOSE f : f = Body(f, Len(s))
<1>1. Len(s) \in Nat /\ DOMAIN s = 1 .. Len(s) /\ \A i \in 1 .. Len(s) : s[i] \in D
  OBVIOUS
<1>2. \A m \in 0 .. Len(s) : Exists(m)
  <2> DEFINE Bad == {m \in 0 .. Len(s) : ~Exists(m)}
  <2> SUFFICES ASSUME Bad # {} PROVE FALSE
    OBVIOUS
  <2>1. PICK m \in Bad : \A k \in Bad : m <= k
    <3> HIDE DEF Exists
    <3>1. Bad \in SUBSET Nat
      BY <1>1
    <3> QED
      BY <3>1, LeastOf
  <2>2. m # 0
    <3> DEFINE f == [i \in 0 .. 0 |-> << >>]
    <3>1. f = Body(f, 0)
      OBVIOUS
    <3> QED
      BY <3>1
  <2>3. m \in 1 .. Len(s) /\ m - 1 \in 0 .. Len(s) /\ m - 1 \notin Bad
    <3> HIDE DEF Exists
    <3> QED
      BY <1>1, <2>1, <2>2
  <2>4. PICK f : f = Body(f, m - 1)
    BY <2>3
  <2> DEFINE h == [i \in 0 .. m |->
                     IF i = m THEN IF s[m] \in T THEN Append(f[m - 1], s[m]) ELSE f[m - 1]
                     ELSE f[i]]
  <2>5. \A i \in 0 .. m - 1 : h[i] = f[i]
    BY <2>3
  <2>6. \A i \in 0 .. m : h[i] = Body(h, m)[i]
    <3> TAKE i \in 0 .. m
    <3>1. CASE i = m
      BY <2>3, <2>5, <3>1
    <3>2. CASE i # m
      <4>1. i \in 0 .. m - 1 /\ (i # 0 => i - 1 \in 0 .. m - 1)
        BY <2>3, <3>2
      <4>2. f[i] = IF i = 0 THEN << >>
                   ELSE IF s[i] \in T THEN Append(f[i - 1], s[i]) ELSE f[i - 1]
        BY <2>4, <4>1
      <4> QED
        BY <2>5, <4>1, <4>2
    <3> QED
      BY <3>1, <3>2
  <2>7. h = Body(h, m)
    <3> HIDE DEF Exists
    <3>1. DOMAIN h = 0 .. m /\ DOMAIN Body(h, m) = 0 .. m
      OBVIOUS
    <3> QED
      BY <2>6, <3>1
  <2>8. Exists(m)
    BY <2>7
  <2> QED
    BY <2>1, <2>8
<1>3. some = Body(some, Len(s))
  <2>1. Exists(Len(s))
    <3>1. Len(s) \in 0 .. Len(s)
      BY <1>1
    <3> HIDE DEF Exists
    <3> QED
      BY <1>2, <3>1
  <2> HIDE DEF Body
  <2> QED
    BY <2>1
<1> HIDE DEF some, Exists
<1>4. \A i \in 0 .. Len(s) :
        some[i] = IF i = 0 THEN << >>
                  ELSE IF s[i] \in T THEN Append(some[i - 1], s[i]) ELSE some[i - 1]
  BY <1>3
<1> HIDE DEF Body
<1> DEFINE Right(i) ==
             /\ some[i] \in Seq(D)
             /\ Elems(some[i]) = {s[j] : j \in 1 .. i} \cap T
             /\ Distinct(s) => Distinct(some[i])
<1>5. \A i \in 0 .. Len(s) : Right(i)
  <2> DEFINE Bad == {m \in 0 .. Len(s) : ~Right(m)}
  <2> SUFFICES ASSUME Bad # {} PROVE FALSE
    OBVIOUS
  <2>1. PICK m \in Bad : \A k \in Bad : m <= k
    <3> HIDE DEF Right
    <3>1. Bad \in SUBSET Nat
      BY <1>1
    <3> QED
      BY <3>1, LeastOf
  <2>2. m # 0
    <3>1. some[0] = << >>
      BY <1>1, <1>4
    <3>2. << >> \in Seq(D) /\ Elems(<< >>) = {} /\ Distinct(<< >>)
      BY DEF Elems, Distinct
    <3>3. {s[j] : j \in 1 .. 0} = {}
      OBVIOUS
    <3> QED
      BY <3>1, <3>2, <3>3
  <2>3. m \in 1 .. Len(s) /\ m - 1 \in 0 .. Len(s) /\ m - 1 \notin Bad
    <3> HIDE DEF Right
    <3> QED
      BY <1>1, <2>1, <2>2
  <2>4. Right(m - 1)
    BY <2>3
  <2>5. some[m] = IF s[m] \in T THEN Append(some[m - 1], s[m]) ELSE some[m - 1]
    BY <1>4, <2>3
  <2>6. {s[j] : j \in 1 .. m} = {s[j] : j \in 1 .. m - 1} \cup {s[m]} /\ s[m] \in D
    BY <1>1, <2>3
  <2>7. Distinct(s) => s[m] \notin {s[j] : j \in 1 .. m - 1}
    BY <1>1, <2>3 DEF Distinct
  <2>8. CASE s[m] \in T
    <3> DEFINE q == some[m - 1]
               x == s[m]
    <3>1. q \in Seq(D) /\ x \in D
      BY <2>4, <2>6
    <3>2. /\ Append(q, x) \in Seq(D) /\ Elems(Append(q, x)) = Elems(q) \cup {x}
          /\ Distinct(q) /\ x \notin Elems(q) => Distinct(Append(q, x))
      BY <3>1, AppendFacts
    <3>3. some[m] = Append(q, x)
      BY <2>5, <2>8
    <3>4. Elems(q) = {s[j] : j \in 1 .. m - 1} \cap T /\ (Distinct(s) => Distinct(q))
      BY <2>4
    <3> HIDE DEF q, x
    <3> QED
      BY <2>6, <2>7, <2>8, <3>2, <3>3, <3>4 DEF x
  <2>9. CASE s[m] \notin T
    BY <2>4, <2>5, <2>6, <2>9
  <2>10. Right(m)
    BY <2>8, <2>9
  <2> QED
    BY <2>1, <2>10
<1>6. Those(s, T) = some[Len(s)]
  BY DEF Those, some, Body
<1>7. Elems(s) = {s[j] : j \in 1 .. Len(s)}
  BY <1>1 DEF Elems
<1>8. Right(Len(s))
  <2>1. Len(s) \in 0 .. Len(s)
    BY <1>1
  <2> HIDE DEF Right
  <2> QED
    BY <1>5, <2>1
<1> QED
  BY <1>6, <1>7, <1>8

-----------------------------------------------------------------------------
(* The objects a writer makes are none of the document's, nor each other.   *)
LEMMA OwnFacts ==
  ASSUME NEW w \in Writers
  PROVE  /\ {Info(w), Root(w), Tree(w), Enc(w), ObjStm(w)} \subseteq Own
         /\ {Info(w), Root(w), Tree(w), Enc(w), ObjStm(w)} \subseteq Nodes \ DocNodes
         /\ Info(w)[1] = "info" /\ Root(w)[1] = "root" /\ Tree(w)[1] = "pages"
         /\ Enc(w)[1] = "encrypt" /\ ObjStm(w)[1] = "objstm"
         /\ \A n \in {Info(w), Root(w), Tree(w), Enc(w), ObjStm(w)} : n[2] = w
<1>1. {Info(w), Root(w), Tree(w), Enc(w), ObjStm(w)} \subseteq Own
  BY DEF Info, Root, Tree, Enc, ObjStm, Own
<1>2. Own \subseteq Nodes \ DocNodes
  BY Assumptions DEF Nodes
<1> QED
  BY <1>1, <1>2 DEF Info, Root, Tree, Enc, ObjStm

LEMMA OwnKinds ==
  ASSUME NEW n \in Own
  PROVE  n[1] \in {"info", "root", "pages", "encrypt", "objstm"} /\ n[2] \in Writers
BY DEF Own

(* The fields of a writer.                                                  *)
LEMMA WriterFields ==
  ASSUME TypeOK, NEW w \in Writers
  PROVE  /\ wr[w] \in WriterState
         /\ wr[w].objects \in Seq(Nodes) /\ wr[w].pages \in Seq(Pages)
         /\ wr[w].optional \in Seq(DocNodes \cup {BadRef})
         /\ wr[w].extra \in Seq(DocNodes) /\ wr[w].seen \in SUBSET Nodes
         /\ wr[w].pending \in SUBSET (Nodes \X DocNodes)
         /\ wr[w].todo \in Seq(DocNodes \cup {BadRef})
         /\ wr[w].opts \in SUBSET Options /\ wr[w].at \in Nat \ {0}
         /\ wr[w].marked \in SUBSET Nodes
BY DEF TypeOK, WriterState

LEMMA SeqWider ==
  ASSUME NEW D, NEW E, D \subseteq E, NEW s \in Seq(D)
  PROVE  s \in Seq(E)
OBVIOUS

LEMMA DocKidsType ==
  ASSUME TypeOK, NEW r, NEW n \in DocNodes
  PROVE  DocKids(r, n) \in Seq(DocNodes \cup {BadRef})
<1>1. doc.kids[n] \in Seq(DocNodes)
  BY DEF TypeOK, Doc
<1>2. [i \in DOMAIN doc.kids[n] |-> BadRef] \in Seq({BadRef})
  BY <1>1
<1> QED
  BY <1>1, <1>2, SeqWider DEF DocKids

LEMMA KidsType ==
  ASSUME TypeOK, NEW n \in Nodes
  PROVE  Kids(n) \in Seq(Nodes \cup {BadRef})
<1> DEFINE All == Nodes \cup {BadRef}
<1>1. CASE n \in DocNodes
  BY <1>1, DocKidsType, SeqWider DEF Kids, Nodes
<1>2. CASE n \notin DocNodes
  <2>1. n \in Own
    BY <1>2 DEF Nodes
  <2>2. n[2] \in Writers
    BY <2>1, OwnKinds
  <2> DEFINE v == n[2]
  <2>3. /\ wr[v].pages \in Seq(All) /\ wr[v].optional \in Seq(All) /\ wr[v].extra \in Seq(All)
    <3>1. Pages \subseteq All /\ DocNodes \subseteq All /\ DocNodes \cup {BadRef} \subseteq All
      BY Assumptions DEF Nodes
    <3> QED
      BY <2>2, <3>1, WriterFields, SeqWider
  <2>4. <<Tree(v)>> \in Seq(All)
    <3>1. Tree(v) \in All
      BY <2>2, OwnFacts
    <3> QED
      BY <3>1, OneFacts
  <2> HIDE DEF All
  <2>5. << >> \in Seq(All) /\ <<Tree(v)>> \o wr[v].optional \o wr[v].extra \in Seq(All)
    <3> DEFINE a == <<Tree(v)>>
               b == wr[v].optional
               c == wr[v].extra
    <3> HIDE DEF a, b, c
    <3>1. a \in Seq(All) /\ b \in Seq(All) /\ c \in Seq(All)
      BY <2>3, <2>4 DEF a, b, c
    <3>2. << >> \in Seq(All) /\ a \o b \o c \in Seq(All)
      BY <3>1
    <3> QED
      BY <3>2 DEF a, b, c
  <2> QED
    BY <1>2, <2>3, <2>5 DEF Kids, All
<1> QED
  BY <1>1, <1>2

(* The closures that the code computes are sets of nodes.                   *)
LEMMA DeepFacts ==
  ASSUME TypeOK, NEW w \in Writers, NEW n \in Nodes, NEW u
  PROVE  /\ Deep(u, w, n) \in SUBSET Nodes
         /\ n \notin wr[w].seen => n \in Deep(u, w, n)
<1> DEFINE next == [m \in Nodes |->
    ((IF m \in DocNodes THEN Elems(doc.kids[m]) \cup ({u[m]} \ {None})
      ELSE Elems(Kids(m))) \cap Nodes) \ wr[w].seen]
<1>1. next \in [Nodes -> SUBSET Nodes]
  OBVIOUS
<1>2. {n} \ wr[w].seen \in SUBSET Nodes
  OBVIOUS
<1>3. Deep(u, w, n) = Closure({n} \ wr[w].seen, next)
  BY DEF Deep
<1> HIDE DEF next
<1> QED
  BY <1>1, <1>2, <1>3, ClosureOfNodes

LEMMA ReachFacts ==
  ASSUME TypeOK, NEW S \in SUBSET Nodes
  PROVE  /\ Reach(S) \in SUBSET Nodes
         /\ S \subseteq Reach(S)
         /\ \A m \in Reach(S) : Elems(Kids(m)) \cap Nodes \subseteq Reach(S)
         /\ \A C \in SUBSET Nodes :
              S \subseteq C /\ (\A m \in C : Elems(Kids(m)) \cap Nodes \subseteq C)
              => Reach(S) \subseteq C
<1> DEFINE next == [n \in Nodes |-> Elems(Kids(n)) \cap Nodes]
<1>1. next \in [Nodes -> SUBSET Nodes]
  OBVIOUS
<1>2. Reach(S) = Closure(S, next)
  BY DEF Reach
<1>3. \A m \in Nodes : next[m] = Elems(Kids(m)) \cap Nodes
  OBVIOUS
<1> HIDE DEF next
<1>4. /\ Closure(S, next) \in SUBSET Nodes /\ S \subseteq Closure(S, next)
      /\ \A m \in Closure(S, next) : next[m] \subseteq Closure(S, next)
      /\ \A C \in SUBSET Nodes :
           S \subseteq C /\ (\A m \in C : next[m] \subseteq C) => Closure(S, next) \subseteq C
  BY <1>1, ClosureOfNodes
<1> DEFINE R == Closure(S, next)
<1> HIDE DEF R
<1>5. \A C \in SUBSET Nodes :
        (\A m \in C : next[m] \subseteq C) <=> (\A m \in C : Elems(Kids(m)) \cap Nodes \subseteq C)
  BY <1>3
<1> QED
  BY <1>2, <1>3, <1>4, <1>5

(* The number of an object of a writer.                                     *)
LEMMA NumOfType ==
  ASSUME TypeOK, NEW w \in Writers, NEW n \in Elems(wr[w].objects)
  PROVE  /\ NumOf(w, n) \in DOMAIN wr[w].objects
         /\ wr[w].objects[NumOf(w, n)] = n
         /\ NumOf(w, n) \in Nat \ {0}
<1>1. \E i \in DOMAIN wr[w].objects : wr[w].objects[i] = n
  BY DEF Elems
<1>2. /\ NumOf(w, n) \in DOMAIN wr[w].objects /\ wr[w].objects[NumOf(w, n)] = n
  BY <1>1 DEF NumOf
<1>3. DOMAIN wr[w].objects \subseteq Nat \ {0}
  BY WriterFields
<1> QED
  BY <1>2, <1>3

-----------------------------------------------------------------------------
(* What a step does to the fields of the writer it is of; it leaves the     *)
(* other writers alone.                                                     *)
LEMMA SetType ==
  ASSUME TypeOK, NEW w \in Writers, NEW r \in WriterState, Set(w, r)
  PROVE  /\ wr' \in [Writers -> WriterState]
         /\ wr'[w] = r
         /\ \A v \in Writers : v # w => wr'[v] = wr[v]
BY DEF Set, TypeOK

LEMMA TailType ==
  ASSUME NEW D, NEW s \in Seq(D), s # << >>
  PROVE  Head(s) \in D /\ Tail(s) \in Seq(D)
OBVIOUS

LEMMA AddObjectFacts ==
  ASSUME NEW D, NEW s \in Seq(D), NEW n \in D
  PROVE  /\ AddObject(s, n) \in Seq(D)
         /\ Elems(AddObject(s, n)) = Elems(s) \cup {n}
         /\ Distinct(s) => Distinct(AddObject(s, n))
BY AppendFacts DEF AddObject

LEMMA AddPageEffect ==
  ASSUME TypeOK, NEW w \in Writers, NEW p \in Pages, AddPage(w, p)
  PROVE  LET filled == IF p \in doc.lazy THEN raw \cup {p} ELSE raw
             new    == IF Has(w, p) THEN {} ELSE Deep(up', w, p)
         IN  /\ wr' \in [Writers -> WriterState]
             /\ wr'[w] = [wr[w] EXCEPT !.pages = Append(@, p),
                              !.objects = AddObject(@, p),
                              !.seen = @ \cup new,
                              !.todo = DocKids(filled \ new, p),
                              !.phase = "adding"]
             /\ wr'[w].pages = Append(wr[w].pages, p)
             /\ wr'[w].objects = AddObject(wr[w].objects, p)
             /\ wr'[w].seen = wr[w].seen \cup new
             /\ wr'[w].todo = DocKids(filled \ new, p)
             /\ wr'[w].phase = "adding"
             /\ \A v \in Writers : v # w => wr'[v] = wr[v]
<1> DEFINE filled == IF p \in doc.lazy THEN raw \cup {p} ELSE raw
           new    == IF Has(w, p) THEN {} ELSE Deep(up', w, p)
           r == [wr[w] EXCEPT !.pages = Append(@, p),
                              !.objects = AddObject(@, p),
                              !.seen = @ \cup new,
                              !.todo = DocKids(filled \ new, p),
                              !.phase = "adding"]
<1>1. Set(w, r)
  BY DEF AddPage
<1>2. p \in Nodes /\ p \in DocNodes
  BY Assumptions DEF Nodes
<1>3. /\ Append(wr[w].pages, p) \in Seq(Pages)
      /\ AddObject(wr[w].objects, p) \in Seq(Nodes)
      /\ wr[w].seen \cup new \in SUBSET Nodes
      /\ DocKids(filled \ new, p) \in Seq(DocNodes \cup {BadRef})
  BY <1>2, WriterFields, AddObjectFacts, DeepFacts, DocKidsType
<1>4. r \in WriterState /\ r.pages = Append(wr[w].pages, p)
      /\ r.objects = AddObject(wr[w].objects, p) /\ r.seen = wr[w].seen \cup new
      /\ r.todo = DocKids(filled \ new, p) /\ r.phase = "adding"
  <2> DEFINE a == Append(wr[w].pages, p)
             b == AddObject(wr[w].objects, p)
             c == wr[w].seen \cup new
             d == DocKids(filled \ new, p)
  <2> HIDE DEF a, b, c, d
  <2>1. wr[w] \in WriterState
    BY WriterFields
  <2>2. r = [wr[w] EXCEPT !.pages = a, !.objects = b, !.seen = c, !.todo = d, !.phase = "adding"]
    BY DEF a, b, c, d
  <2>3. /\ a \in Seq(Pages) /\ b \in Seq(Nodes) /\ c \in SUBSET Nodes
        /\ d \in Seq(DocNodes \cup {BadRef})
    BY <1>3 DEF a, b, c, d
  <2> HIDE DEF r
  <2>4. r \in WriterState /\ r.pages = a /\ r.objects = b /\ r.seen = c /\ r.todo = d
        /\ r.phase = "adding"
    BY <2>1, <2>2, <2>3 DEF WriterState
  <2> QED
    BY <2>4 DEF a, b, c, d
<1> HIDE DEF r
<1>5. wr' \in [Writers -> WriterState] /\ wr'[w] = r /\ \A v \in Writers : v # w => wr'[v] = wr[v]
  BY <1>1, <1>4, SetType
<1> QED
  BY <1>4, <1>5 DEF r

LEMMA AttachEffect ==
  ASSUME TypeOK, NEW w \in Writers, NEW n \in Attachable, Attach(w, n)
  PROVE  /\ wr' \in [Writers -> WriterState]
         /\ wr'[w] = [wr[w] EXCEPT !.extra = Append(@, n)]
         /\ \A v \in Writers : v # w => wr'[v] = wr[v]
<1> DEFINE e == Append(wr[w].extra, n)
           r == [wr[w] EXCEPT !.extra = e]
<1>1. Set(w, r)
  BY DEF Attach
<1>2. n \in DocNodes /\ wr[w] \in WriterState /\ wr[w].extra \in Seq(DocNodes)
  BY WriterFields, Assumptions
<1>5. e \in Seq(DocNodes)
  BY <1>2
<1> HIDE DEF e
<1>3. r \in WriterState
  BY <1>2, <1>5 DEF WriterState
<1> HIDE DEF r
<1>4. wr' \in [Writers -> WriterState] /\ wr'[w] = r /\ \A v \in Writers : v # w => wr'[v] = wr[v]
  BY <1>1, <1>3, SetType
<1> QED
  BY <1>4 DEF r, e

LEMMA SetOCPropertiesEffect ==
  ASSUME TypeOK, NEW w \in Writers, NEW oc \in OCs, SetOCProperties(w, oc)
  PROVE  /\ wr' \in [Writers -> WriterState]
         /\ wr'[w] = [wr[w] EXCEPT !.optional = oc, !.todo = oc, !.phase = "optional"]
         /\ \A v \in Writers : v # w => wr'[v] = wr[v]
<1> DEFINE r == [wr[w] EXCEPT !.optional = oc, !.todo = oc, !.phase = "optional"]
<1>1. Set(w, r)
  BY DEF SetOCProperties
<1>2. oc \in Seq(DocNodes \cup {BadRef}) /\ wr[w] \in WriterState
  BY WriterFields, Assumptions
<1>3. r \in WriterState
  BY <1>2 DEF WriterState
<1> HIDE DEF r
<1>4. wr' \in [Writers -> WriterState] /\ wr'[w] = r /\ \A v \in Writers : v # w => wr'[v] = wr[v]
  BY <1>1, <1>3, SetType
<1> QED
  BY <1>4 DEF r

LEMMA ConfigureEffect ==
  ASSUME TypeOK, NEW w \in Writers, NEW o \in Options, Configure(w, o)
  PROVE  LET objs == IF o \in {"rc4", "aes"} THEN AddObject(wr[w].objects, Enc(w))
                     ELSE wr[w].objects
         IN  /\ wr' \in [Writers -> WriterState]
             /\ wr'[w] = [wr[w] EXCEPT !.opts = @ \cup {o}, !.objects = objs]
             /\ \A v \in Writers : v # w => wr'[v] = wr[v]
<1> DEFINE objs == IF o \in {"rc4", "aes"} THEN AddObject(wr[w].objects, Enc(w))
                   ELSE wr[w].objects
           r == [wr[w] EXCEPT !.opts = @ \cup {o}, !.objects = objs]
<1>1. Set(w, r)
  BY DEF Configure
<1>2. objs \in Seq(Nodes)
  BY WriterFields, OwnFacts, AddObjectFacts
<1> HIDE DEF objs
<1>3. r \in WriterState
  BY <1>2, WriterFields, ZenonT(60) DEF WriterState
<1> HIDE DEF r
<1>4. wr' \in [Writers -> WriterState] /\ wr'[w] = r /\ \A v \in Writers : v # w => wr'[v] = wr[v]
  BY <1>1, <1>3, SetType
<1> QED
  BY <1>4 DEF r, objs

\* The next node, if the writer does not have it yet.
LEMMA VisitEffect ==
  ASSUME TypeOK, NEW w \in Writers, Visit(w)
  PROVE  LET n == Head(wr[w].todo)
             new == Deep(up, w, n)
             visit == DocKids(raw \ new, n)
         IN  /\ n \in DocNodes
             /\ wr' \in [Writers -> WriterState]
             /\ Has(w, n) => wr'[w] = [wr[w] EXCEPT !.todo = Tail(@)] /\ raw' = raw
             /\ ~Has(w, n) =>
                  /\ raw' = raw \ new
                  /\ wr'[w] = [wr[w] EXCEPT
                       !.objects = Append(@, n),
                       !.seen = @ \cup new,
                       !.todo = visit \o Tail(@),
                       !.pending = IF up[n] = None \/ Has(w, up[n]) THEN @
                                   ELSE @ \cup {<<up[n], n>>}]
             /\ \A v \in Writers : v # w => wr'[v] = wr[v]
<1> DEFINE n == Head(wr[w].todo)
           new == Deep(up, w, n)
           visit == DocKids(raw \ new, n)
           tail == Tail(wr[w].todo)
           pend == IF up[n] = None \/ Has(w, up[n]) THEN wr[w].pending
                   ELSE wr[w].pending \cup {<<up[n], n>>}
<1>1. wr[w].todo # << >> /\ n # BadRef
  BY DEF Visit
<1>2. n \in DocNodes \cup {BadRef} /\ tail \in Seq(DocNodes \cup {BadRef})
  BY <1>1, WriterFields, TailType
<1>3. n \in DocNodes /\ n \in Nodes
  BY <1>1, <1>2 DEF Nodes
<1>4. CASE Has(w, n)
  <2> DEFINE r == [wr[w] EXCEPT !.todo = tail]
  <2>1. Set(w, r) /\ raw' = raw
    BY <1>4 DEF Visit, Rest
  <2>2. r \in WriterState
    BY <1>2, WriterFields, ZenonT(60) DEF WriterState
  <2> HIDE DEF r
  <2>3. wr' \in [Writers -> WriterState] /\ wr'[w] = r /\ \A v \in Writers : v # w => wr'[v] = wr[v]
    BY <2>1, <2>2, SetType
  <2> QED
    BY <1>3, <1>4, <2>1, <2>3 DEF r
<1>5. CASE ~Has(w, n)
  <2> DEFINE objs == Append(wr[w].objects, n)
             got  == wr[w].seen \cup new
             todo == visit \o tail
             r == [wr[w] EXCEPT !.objects = objs, !.seen = got, !.todo = todo, !.pending = pend]
  <2>1. raw' = raw \ new /\ Set(w, r)
    BY <1>5 DEF Visit, Rest, Visited, AddObject, Has
  <2>2. objs \in Seq(Nodes) /\ got \in SUBSET Nodes
    BY <1>3, WriterFields, DeepFacts
  <2>3. todo \in Seq(DocNodes \cup {BadRef})
    BY <1>2, <1>3, DocKidsType, ConcatFacts
  <2>4. pend \in SUBSET (Nodes \X DocNodes)
    BY <1>3, WriterFields DEF TypeOK
  <2> HIDE DEF objs, got, todo, pend
  <2>5. r \in WriterState
    BY <2>2, <2>3, <2>4, WriterFields, ZenonT(60) DEF WriterState
  <2> HIDE DEF r
  <2>6. wr' \in [Writers -> WriterState] /\ wr'[w] = r /\ \A v \in Writers : v # w => wr'[v] = wr[v]
    BY <2>1, <2>5, SetType
  <2> QED
    BY <1>3, <1>5, <2>1, <2>6 DEF r, objs, got, todo, pend
<1> QED
  BY <1>4, <1>5

LEMMA VisitRefEffect ==
  ASSUME TypeOK, NEW w \in Writers, VisitRef(w)
  PROVE  /\ wr' \in [Writers -> WriterState]
         /\ wr'[w] = [wr[w] EXCEPT !.todo = << >>, !.phase = "open",
                                   !.erred = @ \/ wr[w].phase # "optional"]
         /\ \A v \in Writers : v # w => wr'[v] = wr[v]
<1> DEFINE e == wr[w].erred \/ wr[w].phase # "optional"
           none == << >>
           r == [wr[w] EXCEPT !.todo = none, !.phase = "open", !.erred = e]
<1>1. Set(w, r)
  BY DEF VisitRef
<1>2. e \in BOOLEAN /\ wr[w] \in WriterState /\ none \in Seq(DocNodes \cup {BadRef})
  BY WriterFields
<1> HIDE DEF e, none
<1>3. r \in WriterState
  BY <1>2 DEF WriterState
<1> HIDE DEF r
<1>4. wr' \in [Writers -> WriterState] /\ wr'[w] = r /\ \A v \in Writers : v # w => wr'[v] = wr[v]
  BY <1>1, <1>3, SetType
<1> QED
  BY <1>4 DEF r, e, none

LEMMA AddDoneEffect ==
  ASSUME TypeOK, NEW w \in Writers, AddDone(w)
  PROVE  /\ wr' \in [Writers -> WriterState]
         /\ wr'[w] = [wr[w] EXCEPT !.phase = "open"]
         /\ \A v \in Writers : v # w => wr'[v] = wr[v]
<1> DEFINE r == [wr[w] EXCEPT !.phase = "open"]
<1>1. Set(w, r)
  BY DEF AddDone
<1>2. r \in WriterState
  BY WriterFields, ZenonT(60) DEF WriterState
<1> HIDE DEF r
<1>3. wr' \in [Writers -> WriterState] /\ wr'[w] = r /\ \A v \in Writers : v # w => wr'[v] = wr[v]
  BY <1>1, <1>2, SetType
<1> QED
  BY <1>3 DEF r

LEMMA WriteEffect ==
  ASSUME TypeOK, NEW w \in Writers, Write(w)
  PROVE  /\ wr' \in [Writers -> WriterState]
         /\ wr'[w] = [wr[w] EXCEPT !.todo = wr[w].extra, !.phase = "collecting"]
         /\ \A v \in Writers : v # w => wr'[v] = wr[v]
<1> DEFINE r == [wr[w] EXCEPT !.todo = wr[w].extra, !.phase = "collecting"]
<1>1. Set(w, r)
  BY DEF Write
<1>2. wr[w].extra \in Seq(DocNodes \cup {BadRef})
  BY WriterFields, SeqWider
<1>3. r \in WriterState
  BY <1>2, WriterFields, ZenonT(60) DEF WriterState
<1> HIDE DEF r
<1>4. wr' \in [Writers -> WriterState] /\ wr'[w] = r /\ \A v \in Writers : v # w => wr'[v] = wr[v]
  BY <1>1, <1>3, SetType
<1> QED
  BY <1>4 DEF r

LEMMA GroupedFacts ==
  ASSUME TypeOK, NEW w \in Writers, NEW s \in Seq(Nodes)
  PROVE  /\ Grouped(w, s) \in Seq(Nodes)
         /\ Elems(Grouped(w, s)) =
              Elems(s) \cup (IF "objstm" \in wr[w].opts THEN {ObjStm(w)} ELSE {})
         /\ Distinct(s) /\ ObjStm(w) \notin Elems(s) => Distinct(Grouped(w, s))
         /\ "objstm" \in wr[w].opts => Grouped(w, s) # << >> /\ Grouped(w, s)[1] = ObjStm(w)
<1>1. CASE "objstm" \notin wr[w].opts
  BY <1>1 DEF Grouped
<1>2. CASE "objstm" \in wr[w].opts
  <2> DEFINE a == <<ObjStm(w)>>
             b == Those(s, Nodes \ doc.streams)
             c == Those(s, doc.streams)
  <2>1. /\ a \in Seq(Nodes) /\ Elems(a) = {ObjStm(w)} /\ Distinct(a)
        /\ ObjStm(w) \in Nodes /\ a[1] = ObjStm(w) /\ Len(a) = 1
    BY OwnFacts, OneFacts
  <2>2. /\ b \in Seq(Nodes) /\ Elems(b) = Elems(s) \cap (Nodes \ doc.streams)
        /\ Distinct(s) => Distinct(b)
    BY ThoseFacts
  <2>3. /\ c \in Seq(Nodes) /\ Elems(c) = Elems(s) \cap doc.streams
        /\ Distinct(s) => Distinct(c)
    BY ThoseFacts
  <2>4. Elems(s) \subseteq Nodes
    BY ElemsType
  <2>5. Grouped(w, s) = a \o b \o c
    BY <1>2 DEF Grouped
  <2> HIDE DEF a, b, c
  <2>6. /\ a \o b \in Seq(Nodes) /\ Elems(a \o b) = Elems(a) \cup Elems(b)
        /\ Distinct(a) /\ Distinct(b) /\ Elems(a) \cap Elems(b) = {} => Distinct(a \o b)
    BY <2>1, <2>2, ConcatFacts
  <2> DEFINE ab == a \o b
  <2>9. ab \in Seq(Nodes)
    BY <2>6
  <2>10. Len(ab) \in Nat \ {0} /\ ab[1] = ObjStm(w)
    BY <2>1, <2>2, ConcatHead
  <2> HIDE DEF ab
  <2>7. /\ ab \o c \in Seq(Nodes) /\ Elems(ab \o c) = Elems(ab) \cup Elems(c)
        /\ Distinct(ab) /\ Distinct(c) /\ Elems(ab) \cap Elems(c) = {} => Distinct(ab \o c)
    BY <2>3, <2>9, ConcatFacts
  <2>8. ab \o c # << >> /\ (ab \o c)[1] = ObjStm(w)
    BY <2>3, <2>9, <2>10, ConcatHead
  <2> QED
    BY <1>2, <2>1, <2>2, <2>3, <2>4, <2>5, <2>6, <2>7, <2>8 DEF ab
<1> QED
  BY <1>1, <1>2

LEMMA NumberEffect ==
  ASSUME TypeOK, NEW w \in Writers, Number(w)
  PROVE  /\ wr' \in [Writers -> WriterState]
         /\ wr'[w] = [wr[w] EXCEPT !.objects = Grouped(w, @), !.phase = "writing"]
         /\ \A v \in Writers : v # w => wr'[v] = wr[v]
<1> DEFINE objs == Grouped(w, wr[w].objects)
           r == [wr[w] EXCEPT !.objects = objs, !.phase = "writing"]
<1>1. Set(w, r)
  BY DEF Number
<1>2. objs \in Seq(Nodes)
  BY WriterFields, GroupedFacts
<1> HIDE DEF objs
<1>3. r \in WriterState
  BY <1>2, WriterFields, ZenonT(60) DEF WriterState
<1> HIDE DEF r
<1>4. wr' \in [Writers -> WriterState] /\ wr'[w] = r /\ \A v \in Writers : v # w => wr'[v] = wr[v]
  BY <1>1, <1>3, SetType
<1> QED
  BY <1>4 DEF r, objs

LEMMA WriteXrefEffect ==
  ASSUME TypeOK, NEW w \in Writers, WriteXref(w)
  PROVE  /\ wr' \in [Writers -> WriterState]
         /\ wr'[w] = [wr[w] EXCEPT !.phase = "done"]
         /\ \A v \in Writers : v # w => wr'[v] = wr[v]
<1> DEFINE r == [wr[w] EXCEPT !.phase = "done"]
<1>1. Set(w, r)
  BY DEF WriteXref
<1>2. r \in WriterState
  BY WriterFields, ZenonT(60) DEF WriterState
<1> HIDE DEF r
<1>3. wr' \in [Writers -> WriterState] /\ wr'[w] = r /\ \A v \in Writers : v # w => wr'[v] = wr[v]
  BY <1>1, <1>2, SetType
<1> QED
  BY <1>3 DEF r

(* What a writer writes of a node.                                          *)
OutEntry ==
  [num : Nat \ {0}, node : Nodes, how : {"object", "member"},
   keys : [Strs -> SUBSET Nat],
   refs : SUBSET (Nodes \cup {BadRef}), parent : Nodes \cup {None}]

TextType == [Copies \X Strs -> SUBSET Nat]

LEMMA WrittenType ==
  ASSUME TypeOK, NEW w \in Writers, NEW n \in Nodes, NEW num \in Nat \ {0},
         NEW how \in {"object", "member"}, NEW txt \in TextType
  PROVE  Written(w, n, num, how, txt) \in OutEntry
<1> DEFINE keys == [s \in Strs |-> IF s \in StrsOf(n) THEN txt[<<CopyOf(w), s>>] ELSE {}]
           refs == Elems(Kids(n))
           parent == IF n \in DocNodes THEN up[n] ELSE None
<1>1. keys \in [Strs -> SUBSET Nat]
  <2>1. \A s \in Strs : txt[<<CopyOf(w), s>>] \in SUBSET Nat
    BY DEF TextType, CopyOf, Copies
  <2> QED
    BY <2>1
<1>2. refs \in SUBSET (Nodes \cup {BadRef})
  BY KidsType, ElemsType
<1>3. parent \in Nodes \cup {None}
  BY DEF TypeOK
<1> HIDE DEF keys, refs, parent
<1>4. Written(w, n, num, how, txt) =
        [num |-> num, node |-> n, how |-> how, keys |-> keys, refs |-> refs, parent |-> parent]
  BY DEF Written, keys, refs, parent
<1> QED
  BY <1>1, <1>2, <1>3, <1>4 DEF OutEntry

LEMMA MembersFacts ==
  ASSUME TypeOK, NEW w \in Writers
  PROVE  /\ Members(w) \in Seq(Nodes)
         /\ Elems(Members(w)) = Elems(wr[w].objects) \ Streams(w)
         /\ Distinct(wr[w].objects) => Distinct(Members(w))
<1>1. wr[w].objects \in Seq(Nodes) /\ Elems(wr[w].objects) \subseteq Nodes
  BY WriterFields, ElemsType
<1>2. /\ Members(w) \in Seq(Nodes)
      /\ Elems(Members(w)) = Elems(wr[w].objects) \cap (Nodes \ Streams(w))
      /\ Distinct(wr[w].objects) => Distinct(Members(w))
  BY <1>1, ThoseFacts DEF Members
<1> QED
  BY <1>1, <1>2

\* What a step appends to the file: the node, and the members of a stream.
MemberEntries(w, txt) ==
  [i \in DOMAIN Members(w) |->
     Written(w, Members(w)[i], NumOf(w, Members(w)[i]), "member", txt)]
Batch(w, n, txt) ==
  <<Written(w, n, wr[w].at, "object", txt)>> \o
  IF n # ObjStm(w) THEN << >> ELSE MemberEntries(w, txt)

LEMMA BatchType ==
  ASSUME TypeOK, NEW w \in Writers, NEW n \in Nodes, NEW txt \in TextType
  PROVE  /\ MemberEntries(w, txt) \in Seq(OutEntry)
         /\ Batch(w, n, txt) \in Seq(OutEntry)
         /\ wr[w].out \o <<Written(w, n, wr[w].at, "object", txt)>> \o
              (IF n # ObjStm(w) THEN << >> ELSE MemberEntries(w, txt))
            = wr[w].out \o Batch(w, n, txt)
<1> DEFINE one == <<Written(w, n, wr[w].at, "object", txt)>>
           more == IF n # ObjStm(w) THEN << >> ELSE MemberEntries(w, txt)
<1>1. one \in Seq(OutEntry)
  <2>1. Written(w, n, wr[w].at, "object", txt) \in OutEntry
    BY WriterFields, WrittenType
  <2> QED
    BY <2>1
<1>2. MemberEntries(w, txt) \in Seq(OutEntry)
  <2>1. \A i \in DOMAIN Members(w) :
          Written(w, Members(w)[i], NumOf(w, Members(w)[i]), "member", txt) \in OutEntry
    <3> TAKE i \in DOMAIN Members(w)
    <3>1. Members(w)[i] \in Elems(wr[w].objects)
      BY MembersFacts DEF Elems
    <3>2. Members(w)[i] \in Nodes
      BY <3>1, WriterFields, ElemsType
    <3> QED
      BY <3>1, <3>2, NumOfType, WrittenType
  <2>2. \E k \in Nat : DOMAIN Members(w) = 1 .. k
    BY MembersFacts
  <2> QED
    BY <2>1, <2>2 DEF MemberEntries
<1>3. more \in Seq(OutEntry)
  BY <1>2
<1>4. Batch(w, n, txt) = one \o more
  BY DEF Batch
<1> HIDE DEF one, more
<1>5. Batch(w, n, txt) \in Seq(OutEntry)
  BY <1>1, <1>3, <1>4
<1>6. wr[w].out \in Seq(OutEntry)
  BY WriterFields DEF WriterState, OutEntry
<1>7. (wr[w].out \o one) \o more = wr[w].out \o Batch(w, n, txt)
  <2> DEFINE out == wr[w].out
  <2>1. out \in Seq(OutEntry)
    BY <1>6
  <2> HIDE DEF out
  <2>2. (out \o one) \o more = out \o (one \o more)
    BY <1>1, <1>3, <2>1, ConcatAssoc
  <2> QED
    BY <1>4, <2>2 DEF out
<1> QED
  BY <1>2, <1>5, <1>7 DEF one, more

LEMMA EncryptedType ==
  ASSUME TypeOK, NEW w \in Writers, NEW n \in Nodes
  PROVE  /\ NewlyEncrypted(w, n) \subseteq Elems(wr[w].objects)
         /\ Encrypted(w, NewlyEncrypted(w, n)) \in TextType
<1> DEFINE new == NewlyEncrypted(w, n)
<1>1. new \subseteq Elems(wr[w].objects)
  BY DEF NewlyEncrypted
<1> HIDE DEF new
<1>2. \A t \in Copies \X Strs : {NumOf(w, m) : m \in {m \in new : t[2] \in StrsOf(m)}} \in SUBSET Nat
  BY <1>1, NumOfType
<1>3. Encrypted(w, new) \in TextType
  BY <1>2 DEF Encrypted, TextType, TypeOK
<1> QED
  BY <1>1, <1>3 DEF new

LEMMA WriteObjectEffect ==
  ASSUME TypeOK, NEW w \in Writers, WriteObject(w)
  PROVE  LET n == wr[w].objects[wr[w].at]
             new == NewlyEncrypted(w, n)
         IN  /\ wr[w].phase = "writing"
             /\ wr[w].at \in DOMAIN wr[w].objects /\ n \in Nodes
             /\ wr' \in [Writers -> WriterState]
             /\ text' \in TextType
             /\ Skipped(w, n) => text' = text /\ wr'[w] = [wr[w] EXCEPT !.at = @ + 1]
             /\ ~Skipped(w, n) =>
                  /\ text' = Encrypted(w, new)
                  /\ wr'[w] = [wr[w] EXCEPT !.at = @ + 1, !.marked = @ \cup new,
                                            !.out = @ \o Batch(w, n, text')]
             /\ \A v \in Writers : v # w => wr'[v] = wr[v]
<1> DEFINE n == wr[w].objects[wr[w].at]
           new == NewlyEncrypted(w, n)
           at == wr[w].at + 1
<1>1. /\ wr[w].phase = "writing" /\ wr[w].at \in DOMAIN wr[w].objects /\ n \in Nodes
      /\ at \in Nat \ {0}
  BY WriterFields DEF WriteObject
<1>2. CASE Skipped(w, n)
  <2> DEFINE r == [wr[w] EXCEPT !.at = at]
  <2>1. Set(w, r) /\ text' = text
    BY <1>2 DEF WriteObject
  <2> HIDE DEF at
  <2>2. r \in WriterState
    BY <1>1, WriterFields, ZenonT(60) DEF WriterState
  <2> HIDE DEF r
  <2>3. wr' \in [Writers -> WriterState] /\ wr'[w] = r /\ \A v \in Writers : v # w => wr'[v] = wr[v]
    BY <2>1, <2>2, SetType
  <2>4. text' \in TextType
    BY <2>1 DEF TypeOK, TextType
  <2> QED
    BY <1>1, <1>2, <2>1, <2>3, <2>4 DEF r, at
<1>3. CASE ~Skipped(w, n)
  <2> DEFINE marked == wr[w].marked \cup new
             out == wr[w].out \o Batch(w, n, text')
             r == [wr[w] EXCEPT !.at = at, !.marked = marked, !.out = out]
  <2>1. text' = Encrypted(w, new)
    BY <1>3 DEF WriteObject
  <2>2. text' \in TextType /\ new \in SUBSET Nodes
    BY <1>1, <2>1, EncryptedType, WriterFields, ElemsType
  <2>3. Set(w, r)
    <3> DEFINE batch == Batch(w, n, text')
    <3>1. wr[w].out \o batch =
            wr[w].out \o <<Written(w, n, wr[w].at, "object", text')>> \o
              IF n # ObjStm(w) THEN << >> ELSE MemberEntries(w, text')
      BY <1>1, <2>2, BatchType
    <3> QED
      BY <1>3, <3>1 DEF WriteObject, MemberEntries
  <2>4. out \in Seq(OutEntry)
    <3>1. wr[w].out \in Seq(OutEntry) /\ Batch(w, n, text') \in Seq(OutEntry)
      BY <1>1, <2>2, WriterFields, BatchType DEF WriterState, OutEntry
    <3> QED
      BY <3>1, ConcatFacts
  <2>5. marked \in SUBSET Nodes
    BY <2>2, WriterFields
  <2> HIDE DEF at, marked, out, new
  <2>6. r \in WriterState
    BY <1>1, <2>4, <2>5, WriterFields, ZenonT(60) DEF WriterState, OutEntry
  <2> HIDE DEF r
  <2>7. wr' \in [Writers -> WriterState] /\ wr'[w] = r /\ \A v \in Writers : v # w => wr'[v] = wr[v]
    BY <2>3, <2>6, SetType
  <2> QED
    BY <1>1, <1>3, <2>1, <2>2, <2>7 DEF r, at, marked, out, new
<1> QED
  BY <1>2, <1>3

-----------------------------------------------------------------------------
(* Types.                                                                   *)
LEMMA TypeInit == Init => TypeOK
<1> SUFFICES ASSUME Init PROVE TypeOK
  OBVIOUS
<1>1. doc \in Doc
  BY Assumptions DEF Init
<1>2. up \in [DocNodes -> Nodes \cup {None}] /\ raw \in SUBSET Pages
  BY <1>1 DEF Init, Doc, Nodes
<1>3. text \in [Copies \X Strs -> SUBSET Nat]
  BY DEF Init
<1>4. ASSUME NEW w \in Writers
      PROVE  NewWriter(w) \in WriterState
  <2> DEFINE objs == <<Info(w), Root(w), Tree(w)>>
             none == << >>
  <2>1. objs \in Seq(Nodes) /\ {Info(w), Root(w), Tree(w)} \in SUBSET Nodes
    BY OwnFacts
  <2>2. /\ none \in Seq(Pages) /\ none \in Seq(DocNodes \cup {BadRef})
        /\ none \in Seq(DocNodes) /\ none \in Seq(OutEntry)
    OBVIOUS
  <2>3. NewWriter(w) =
          [objects |-> objs, pages |-> none, optional |-> none,
           extra |-> none, seen |-> {Info(w), Root(w), Tree(w)}, pending |-> {},
           todo |-> none, phase |-> "open", opts |-> {}, at |-> 1, marked |-> {},
           out |-> none, erred |-> FALSE]
    BY DEF NewWriter
  <2> HIDE DEF objs, none
  <2> QED
    BY <2>1, <2>2, <2>3 DEF WriterState, OutEntry
<1>5. wr \in [Writers -> WriterState]
  BY <1>4 DEF Init
<1> QED
  BY <1>1, <1>2, <1>3, <1>5 DEF TypeOK

LEMMA TypeStep ==
  ASSUME TypeOK, [Next]_vars
  PROVE  TypeOK'
<1> USE DEF TypeOK
<1>1. CASE UNCHANGED vars
  BY <1>1 DEF vars
<1>2. ASSUME NEW w \in Writers, NEW p \in Pages, AddPage(w, p)
      PROVE  TypeOK'
  <2>1. Tree(w) \in Nodes
    BY OwnFacts
  <2>2. up' \in [DocNodes -> Nodes \cup {None}] /\ raw' \in SUBSET Pages
    BY <1>2, <2>1 DEF AddPage, ParentOf
  <2> QED
    BY <1>2, <2>2, AddPageEffect DEF AddPage
<1>3. ASSUME NEW w \in Writers, NEW n \in Attachable, Attach(w, n)
      PROVE  TypeOK'
  BY <1>3, AttachEffect DEF Attach
<1>4. ASSUME NEW w \in Writers, NEW oc \in OCs, SetOCProperties(w, oc)
      PROVE  TypeOK'
  BY <1>4, SetOCPropertiesEffect DEF SetOCProperties
<1>5. ASSUME NEW w \in Writers, NEW o \in Options, Configure(w, o)
      PROVE  TypeOK'
  BY <1>5, ConfigureEffect DEF Configure
<1>6. ASSUME NEW p \in Refreshed, Refresh(p)
      PROVE  TypeOK'
  <2>1. p \in Pages /\ doc.up \in [DocNodes -> DocNodes \cup {None}]
    BY Assumptions DEF Doc
  <2>2. up' \in [DocNodes -> Nodes \cup {None}] /\ raw' \in SUBSET Pages
    BY <1>6, <2>1, Assumptions DEF Refresh, Nodes
  <2> QED
    BY <1>6, <2>2 DEF Refresh
<1>7. ASSUME NEW w \in Writers, Visit(w)
      PROVE  TypeOK'
  <2>1. raw' \in SUBSET Pages
    BY <1>7 DEF Visit
  <2> QED
    BY <1>7, <2>1, VisitEffect DEF Visit
<1>8. ASSUME NEW w \in Writers, VisitRef(w)
      PROVE  TypeOK'
  BY <1>8, VisitRefEffect DEF VisitRef
<1>9. ASSUME NEW w \in Writers, AddDone(w)
      PROVE  TypeOK'
  BY <1>9, AddDoneEffect DEF AddDone
<1>10. ASSUME NEW w \in Writers, Write(w)
      PROVE  TypeOK'
  BY <1>10, WriteEffect DEF Write
<1>11. ASSUME NEW w \in Writers, Number(w)
      PROVE  TypeOK'
  <2>1. up' \in [DocNodes -> Nodes \cup {None}]
    BY <1>11 DEF Number, Nulled
  <2> QED
    BY <1>11, <2>1, NumberEffect DEF Number
<1>12. ASSUME NEW w \in Writers, WriteObject(w)
      PROVE  TypeOK'
  BY <1>12, WriteObjectEffect DEF WriteObject, TextType
<1>13. ASSUME NEW w \in Writers, WriteXref(w)
      PROVE  TypeOK'
  BY <1>13, WriteXrefEffect DEF WriteXref
<1> QED
  BY <1>1, <1>2, <1>3, <1>4, <1>5, <1>6, <1>7, <1>8, <1>9, <1>10, <1>11, <1>12, <1>13
  DEF Next, Work, Client

(* Types: objects are numbered from 1, a Parent is an object and never a    *)
(* reference, and the numbers a string is encrypted for are numbers of      *)
(* objects, whatever the documents and however many writers share them.     *)
THEOREM TypeCorrect == Spec => []TypeOK
<1>1. Init => TypeOK
  BY TypeInit
<1>2. TypeOK /\ [Next]_vars => TypeOK'
  BY TypeStep
<1> QED
  BY <1>1, <1>2, PTL DEF Spec

-----------------------------------------------------------------------------
(* A step field by field.                                                   *)
LEMMA AddPageFields ==
  ASSUME TypeOK, NEW w \in Writers, NEW p \in Pages, AddPage(w, p)
  PROVE  LET fill == IF p \in doc.lazy THEN raw \cup {p} ELSE raw
             new == IF Has(w, p) THEN {} ELSE Deep(up', w, p)
         IN  /\ wr'[w].pages = Append(wr[w].pages, p)
             /\ wr'[w].objects = AddObject(wr[w].objects, p)
             /\ wr'[w].seen = wr[w].seen \cup new
             /\ wr'[w].todo = DocKids(fill \ new, p)
             /\ wr'[w].phase = "adding"
             /\ wr'[w].optional = wr[w].optional /\ wr'[w].extra = wr[w].extra
             /\ wr'[w].pending = wr[w].pending /\ wr'[w].opts = wr[w].opts
             /\ wr'[w].at = wr[w].at /\ wr'[w].marked = wr[w].marked
             /\ wr'[w].out = wr[w].out /\ wr'[w].erred = wr[w].erred
<1> DEFINE fill == IF p \in doc.lazy THEN raw \cup {p} ELSE raw
           new == IF Has(w, p) THEN {} ELSE Deep(up', w, p)
           x1 == Append(wr[w].pages, p)
           x2 == AddObject(wr[w].objects, p)
           x3 == wr[w].seen \cup new
           x4 == DocKids(fill \ new, p)
           x5 == "adding"
<1>1. wr'[w] = [wr[w] EXCEPT !.pages = x1, !.objects = x2, !.seen = x3, !.todo = x4, !.phase = x5]
  BY AddPageEffect
<1> HIDE DEF x1, x2, x3, x4, x5
<1>2. /\ wr'[w].pages = x1
      /\ wr'[w].objects = x2
      /\ wr'[w].seen = x3
      /\ wr'[w].todo = x4
      /\ wr'[w].phase = x5
      /\ wr'[w].optional = wr[w].optional /\ wr'[w].extra = wr[w].extra
      /\ wr'[w].pending = wr[w].pending /\ wr'[w].opts = wr[w].opts
      /\ wr'[w].at = wr[w].at /\ wr'[w].marked = wr[w].marked
      /\ wr'[w].out = wr[w].out /\ wr'[w].erred = wr[w].erred
  BY <1>1, WriterFields DEF WriterState
<1> QED
  BY <1>2 DEF x1, x2, x3, x4, x5

LEMMA AttachFields ==
  ASSUME TypeOK, NEW w \in Writers, NEW n \in Attachable, Attach(w, n)
  PROVE  /\ wr'[w].extra = Append(wr[w].extra, n)
         /\ wr'[w].objects = wr[w].objects /\ wr'[w].pages = wr[w].pages
         /\ wr'[w].optional = wr[w].optional /\ wr'[w].seen = wr[w].seen
         /\ wr'[w].pending = wr[w].pending /\ wr'[w].todo = wr[w].todo
         /\ wr'[w].phase = wr[w].phase /\ wr'[w].opts = wr[w].opts
         /\ wr'[w].at = wr[w].at /\ wr'[w].marked = wr[w].marked
         /\ wr'[w].out = wr[w].out /\ wr'[w].erred = wr[w].erred
<1> DEFINE x1 == Append(wr[w].extra, n)
<1>1. wr'[w] = [wr[w] EXCEPT !.extra = x1]
  BY AttachEffect
<1> HIDE DEF x1
<1>2. /\ wr'[w].extra = x1
      /\ wr'[w].objects = wr[w].objects /\ wr'[w].pages = wr[w].pages
      /\ wr'[w].optional = wr[w].optional /\ wr'[w].seen = wr[w].seen
      /\ wr'[w].pending = wr[w].pending /\ wr'[w].todo = wr[w].todo
      /\ wr'[w].phase = wr[w].phase /\ wr'[w].opts = wr[w].opts
      /\ wr'[w].at = wr[w].at /\ wr'[w].marked = wr[w].marked
      /\ wr'[w].out = wr[w].out /\ wr'[w].erred = wr[w].erred
  BY <1>1, WriterFields DEF WriterState
<1> QED
  BY <1>2 DEF x1

LEMMA SetOCPropertiesFields ==
  ASSUME TypeOK, NEW w \in Writers, NEW oc \in OCs, SetOCProperties(w, oc)
  PROVE  /\ wr'[w].optional = oc
         /\ wr'[w].todo = oc
         /\ wr'[w].phase = "optional"
         /\ wr'[w].objects = wr[w].objects /\ wr'[w].pages = wr[w].pages
         /\ wr'[w].extra = wr[w].extra /\ wr'[w].seen = wr[w].seen
         /\ wr'[w].pending = wr[w].pending /\ wr'[w].opts = wr[w].opts
         /\ wr'[w].at = wr[w].at /\ wr'[w].marked = wr[w].marked
         /\ wr'[w].out = wr[w].out /\ wr'[w].erred = wr[w].erred
<1> DEFINE x1 == oc
           x2 == oc
           x3 == "optional"
<1>1. wr'[w] = [wr[w] EXCEPT !.optional = x1, !.todo = x2, !.phase = x3]
  BY SetOCPropertiesEffect
<1> HIDE DEF x1, x2, x3
<1>2. /\ wr'[w].optional = x1
      /\ wr'[w].todo = x2
      /\ wr'[w].phase = x3
      /\ wr'[w].objects = wr[w].objects /\ wr'[w].pages = wr[w].pages
      /\ wr'[w].extra = wr[w].extra /\ wr'[w].seen = wr[w].seen
      /\ wr'[w].pending = wr[w].pending /\ wr'[w].opts = wr[w].opts
      /\ wr'[w].at = wr[w].at /\ wr'[w].marked = wr[w].marked
      /\ wr'[w].out = wr[w].out /\ wr'[w].erred = wr[w].erred
  BY <1>1, WriterFields DEF WriterState
<1> QED
  BY <1>2 DEF x1, x2, x3

LEMMA ConfigureFields ==
  ASSUME TypeOK, NEW w \in Writers, NEW o \in Options, Configure(w, o)
  PROVE  /\ wr'[w].opts = wr[w].opts \cup {o}
         /\ wr'[w].objects = IF o \in {"rc4", "aes"} THEN AddObject(wr[w].objects, Enc(w)) ELSE wr[w].objects
         /\ wr'[w].pages = wr[w].pages /\ wr'[w].optional = wr[w].optional
         /\ wr'[w].extra = wr[w].extra /\ wr'[w].seen = wr[w].seen
         /\ wr'[w].pending = wr[w].pending /\ wr'[w].todo = wr[w].todo
         /\ wr'[w].phase = wr[w].phase /\ wr'[w].at = wr[w].at
         /\ wr'[w].marked = wr[w].marked /\ wr'[w].out = wr[w].out
         /\ wr'[w].erred = wr[w].erred
<1> DEFINE x1 == wr[w].opts \cup {o}
           x2 == IF o \in {"rc4", "aes"} THEN AddObject(wr[w].objects, Enc(w)) ELSE wr[w].objects
<1>1. wr'[w] = [wr[w] EXCEPT !.opts = x1, !.objects = x2]
  BY ConfigureEffect
<1> HIDE DEF x1, x2
<1>2. /\ wr'[w].opts = x1
      /\ wr'[w].objects = x2
      /\ wr'[w].pages = wr[w].pages /\ wr'[w].optional = wr[w].optional
      /\ wr'[w].extra = wr[w].extra /\ wr'[w].seen = wr[w].seen
      /\ wr'[w].pending = wr[w].pending /\ wr'[w].todo = wr[w].todo
      /\ wr'[w].phase = wr[w].phase /\ wr'[w].at = wr[w].at
      /\ wr'[w].marked = wr[w].marked /\ wr'[w].out = wr[w].out
      /\ wr'[w].erred = wr[w].erred
  BY <1>1, WriterFields DEF WriterState
<1> QED
  BY <1>2 DEF x1, x2

LEMMA VisitRefFields ==
  ASSUME TypeOK, NEW w \in Writers, VisitRef(w)
  PROVE  /\ wr'[w].todo = << >>
         /\ wr'[w].phase = "open"
         /\ wr'[w].erred = (wr[w].erred \/ wr[w].phase # "optional")
         /\ wr'[w].objects = wr[w].objects /\ wr'[w].pages = wr[w].pages
         /\ wr'[w].optional = wr[w].optional /\ wr'[w].extra = wr[w].extra
         /\ wr'[w].seen = wr[w].seen /\ wr'[w].pending = wr[w].pending
         /\ wr'[w].opts = wr[w].opts /\ wr'[w].at = wr[w].at
         /\ wr'[w].marked = wr[w].marked /\ wr'[w].out = wr[w].out
<1> DEFINE x1 == << >>
           x2 == "open"
           x3 == (wr[w].erred \/ wr[w].phase # "optional")
<1>1. wr'[w] = [wr[w] EXCEPT !.todo = x1, !.phase = x2, !.erred = x3]
  BY VisitRefEffect
<1> HIDE DEF x1, x2, x3
<1>2. /\ wr'[w].todo = x1
      /\ wr'[w].phase = x2
      /\ wr'[w].erred = x3
      /\ wr'[w].objects = wr[w].objects /\ wr'[w].pages = wr[w].pages
      /\ wr'[w].optional = wr[w].optional /\ wr'[w].extra = wr[w].extra
      /\ wr'[w].seen = wr[w].seen /\ wr'[w].pending = wr[w].pending
      /\ wr'[w].opts = wr[w].opts /\ wr'[w].at = wr[w].at
      /\ wr'[w].marked = wr[w].marked /\ wr'[w].out = wr[w].out
  BY <1>1, WriterFields DEF WriterState
<1> QED
  BY <1>2 DEF x1, x2, x3

LEMMA AddDoneFields ==
  ASSUME TypeOK, NEW w \in Writers, AddDone(w)
  PROVE  /\ wr'[w].phase = "open"
         /\ wr'[w].objects = wr[w].objects /\ wr'[w].pages = wr[w].pages
         /\ wr'[w].optional = wr[w].optional /\ wr'[w].extra = wr[w].extra
         /\ wr'[w].seen = wr[w].seen /\ wr'[w].pending = wr[w].pending
         /\ wr'[w].todo = wr[w].todo /\ wr'[w].opts = wr[w].opts
         /\ wr'[w].at = wr[w].at /\ wr'[w].marked = wr[w].marked
         /\ wr'[w].out = wr[w].out /\ wr'[w].erred = wr[w].erred
<1> DEFINE x1 == "open"
<1>1. wr'[w] = [wr[w] EXCEPT !.phase = x1]
  BY AddDoneEffect
<1> HIDE DEF x1
<1>2. /\ wr'[w].phase = x1
      /\ wr'[w].objects = wr[w].objects /\ wr'[w].pages = wr[w].pages
      /\ wr'[w].optional = wr[w].optional /\ wr'[w].extra = wr[w].extra
      /\ wr'[w].seen = wr[w].seen /\ wr'[w].pending = wr[w].pending
      /\ wr'[w].todo = wr[w].todo /\ wr'[w].opts = wr[w].opts
      /\ wr'[w].at = wr[w].at /\ wr'[w].marked = wr[w].marked
      /\ wr'[w].out = wr[w].out /\ wr'[w].erred = wr[w].erred
  BY <1>1, WriterFields DEF WriterState
<1> QED
  BY <1>2 DEF x1

LEMMA WriteFields ==
  ASSUME TypeOK, NEW w \in Writers, Write(w)
  PROVE  /\ wr'[w].todo = wr[w].extra
         /\ wr'[w].phase = "collecting"
         /\ wr'[w].objects = wr[w].objects /\ wr'[w].pages = wr[w].pages
         /\ wr'[w].optional = wr[w].optional /\ wr'[w].extra = wr[w].extra
         /\ wr'[w].seen = wr[w].seen /\ wr'[w].pending = wr[w].pending
         /\ wr'[w].opts = wr[w].opts /\ wr'[w].at = wr[w].at
         /\ wr'[w].marked = wr[w].marked /\ wr'[w].out = wr[w].out
         /\ wr'[w].erred = wr[w].erred
<1> DEFINE x1 == wr[w].extra
           x2 == "collecting"
<1>1. wr'[w] = [wr[w] EXCEPT !.todo = x1, !.phase = x2]
  BY WriteEffect
<1> HIDE DEF x1, x2
<1>2. /\ wr'[w].todo = x1
      /\ wr'[w].phase = x2
      /\ wr'[w].objects = wr[w].objects /\ wr'[w].pages = wr[w].pages
      /\ wr'[w].optional = wr[w].optional /\ wr'[w].extra = wr[w].extra
      /\ wr'[w].seen = wr[w].seen /\ wr'[w].pending = wr[w].pending
      /\ wr'[w].opts = wr[w].opts /\ wr'[w].at = wr[w].at
      /\ wr'[w].marked = wr[w].marked /\ wr'[w].out = wr[w].out
      /\ wr'[w].erred = wr[w].erred
  BY <1>1, WriterFields DEF WriterState
<1> QED
  BY <1>2 DEF x1, x2

LEMMA NumberFields ==
  ASSUME TypeOK, NEW w \in Writers, Number(w)
  PROVE  /\ wr'[w].objects = Grouped(w, wr[w].objects)
         /\ wr'[w].phase = "writing"
         /\ wr'[w].pages = wr[w].pages /\ wr'[w].optional = wr[w].optional
         /\ wr'[w].extra = wr[w].extra /\ wr'[w].seen = wr[w].seen
         /\ wr'[w].pending = wr[w].pending /\ wr'[w].todo = wr[w].todo
         /\ wr'[w].opts = wr[w].opts /\ wr'[w].at = wr[w].at
         /\ wr'[w].marked = wr[w].marked /\ wr'[w].out = wr[w].out
         /\ wr'[w].erred = wr[w].erred
<1> DEFINE x1 == Grouped(w, wr[w].objects)
           x2 == "writing"
<1>1. wr'[w] = [wr[w] EXCEPT !.objects = x1, !.phase = x2]
  BY NumberEffect
<1> HIDE DEF x1, x2
<1>2. /\ wr'[w].objects = x1
      /\ wr'[w].phase = x2
      /\ wr'[w].pages = wr[w].pages /\ wr'[w].optional = wr[w].optional
      /\ wr'[w].extra = wr[w].extra /\ wr'[w].seen = wr[w].seen
      /\ wr'[w].pending = wr[w].pending /\ wr'[w].todo = wr[w].todo
      /\ wr'[w].opts = wr[w].opts /\ wr'[w].at = wr[w].at
      /\ wr'[w].marked = wr[w].marked /\ wr'[w].out = wr[w].out
      /\ wr'[w].erred = wr[w].erred
  BY <1>1, WriterFields DEF WriterState
<1> QED
  BY <1>2 DEF x1, x2

LEMMA WriteXrefFields ==
  ASSUME TypeOK, NEW w \in Writers, WriteXref(w)
  PROVE  /\ wr'[w].phase = "done"
         /\ wr'[w].objects = wr[w].objects /\ wr'[w].pages = wr[w].pages
         /\ wr'[w].optional = wr[w].optional /\ wr'[w].extra = wr[w].extra
         /\ wr'[w].seen = wr[w].seen /\ wr'[w].pending = wr[w].pending
         /\ wr'[w].todo = wr[w].todo /\ wr'[w].opts = wr[w].opts
         /\ wr'[w].at = wr[w].at /\ wr'[w].marked = wr[w].marked
         /\ wr'[w].out = wr[w].out /\ wr'[w].erred = wr[w].erred
<1> DEFINE x1 == "done"
<1>1. wr'[w] = [wr[w] EXCEPT !.phase = x1]
  BY WriteXrefEffect
<1> HIDE DEF x1
<1>2. /\ wr'[w].phase = x1
      /\ wr'[w].objects = wr[w].objects /\ wr'[w].pages = wr[w].pages
      /\ wr'[w].optional = wr[w].optional /\ wr'[w].extra = wr[w].extra
      /\ wr'[w].seen = wr[w].seen /\ wr'[w].pending = wr[w].pending
      /\ wr'[w].todo = wr[w].todo /\ wr'[w].opts = wr[w].opts
      /\ wr'[w].at = wr[w].at /\ wr'[w].marked = wr[w].marked
      /\ wr'[w].out = wr[w].out /\ wr'[w].erred = wr[w].erred
  BY <1>1, WriterFields DEF WriterState
<1> QED
  BY <1>2 DEF x1

LEMMA VisitFields ==
  ASSUME TypeOK, NEW w \in Writers, Visit(w)
  PROVE  LET n == Head(wr[w].todo)
             new == Deep(up, w, n)
         IN  /\ n \in DocNodes
             /\ \/ /\ Has(w, n) /\ raw' = raw
                   /\ wr'[w].todo = Tail(wr[w].todo) /\ wr'[w].objects = wr[w].objects
                   /\ wr'[w].seen = wr[w].seen /\ wr'[w].pending = wr[w].pending
                \/ /\ ~Has(w, n) /\ raw' = raw \ new
                   /\ wr'[w].todo = DocKids(raw \ new, n) \o Tail(wr[w].todo)
                   /\ wr'[w].objects = Append(wr[w].objects, n)
                   /\ wr'[w].seen = wr[w].seen \cup new
                   /\ wr'[w].pending = IF up[n] = None \/ Has(w, up[n]) THEN wr[w].pending
                                       ELSE wr[w].pending \cup {<<up[n], n>>}
             /\ wr'[w].pages = wr[w].pages /\ wr'[w].optional = wr[w].optional
             /\ wr'[w].extra = wr[w].extra /\ wr'[w].phase = wr[w].phase
             /\ wr'[w].opts = wr[w].opts /\ wr'[w].at = wr[w].at
             /\ wr'[w].marked = wr[w].marked /\ wr'[w].out = wr[w].out
             /\ wr'[w].erred = wr[w].erred
<1> DEFINE n == Head(wr[w].todo)
           new == Deep(up, w, n)
           x1 == Append(wr[w].objects, n)
           x2 == wr[w].seen \cup new
           x3 == DocKids(raw \ new, n) \o Tail(wr[w].todo)
           x4 == IF up[n] = None \/ Has(w, up[n]) THEN wr[w].pending
                 ELSE wr[w].pending \cup {<<up[n], n>>}
           x5 == Tail(wr[w].todo)
<1>1. n \in DocNodes
  BY VisitEffect
<1>2. CASE Has(w, n)
  <2>1. wr'[w] = [wr[w] EXCEPT !.todo = x5] /\ raw' = raw
    BY <1>2, VisitEffect
  <2> HIDE DEF n, x5
  <2> QED
    BY <1>1, <1>2, <2>1, WriterFields DEF WriterState, n, x5
<1>3. CASE ~Has(w, n)
  <2>1. /\ wr'[w] = [wr[w] EXCEPT !.objects = x1, !.seen = x2, !.todo = x3, !.pending = x4]
        /\ raw' = raw \ new
    BY <1>3, VisitEffect
  <2> HIDE DEF x1, x2, x3, x4
  <2>2. /\ wr'[w].objects = x1 /\ wr'[w].seen = x2 /\ wr'[w].todo = x3 /\ wr'[w].pending = x4
        /\ wr'[w].pages = wr[w].pages /\ wr'[w].optional = wr[w].optional
        /\ wr'[w].extra = wr[w].extra /\ wr'[w].phase = wr[w].phase
        /\ wr'[w].opts = wr[w].opts /\ wr'[w].at = wr[w].at
        /\ wr'[w].marked = wr[w].marked /\ wr'[w].out = wr[w].out
        /\ wr'[w].erred = wr[w].erred
    BY <2>1, WriterFields DEF WriterState
  <2> QED
    BY <1>1, <1>3, <2>1, <2>2 DEF x1, x2, x3, x4
<1> QED
  BY <1>2, <1>3
-----------------------------------------------------------------------------
(***************************************************************************)
(* Proofs about the files that PdfWriter leaves: what is in them, under    *)
(* which number, and what their strings are encrypted with.                *)
(***************************************************************************)

-----------------------------------------------------------------------------
(* The file.  What a writer has is there once; from Number on its objects   *)
(* keep their numbers, and every entry of the file carries the number of    *)
(* the node that it is of.                                                  *)
Late(w) == wr[w].phase \in {"writing", "done"}

ObjectsInv(w) ==
  /\ Distinct(wr[w].objects)
  /\ {Info(w), Root(w), Tree(w)} \subseteq Elems(wr[w].objects)
  /\ Elems(wr[w].objects) \subseteq
       DocNodes \cup {Info(w), Root(w), Tree(w), Enc(w)} \cup
       (IF Late(w) /\ "objstm" \in wr[w].opts THEN {ObjStm(w)} ELSE {})
  /\ Late(w) /\ "objstm" \in wr[w].opts => wr[w].objects[1] = ObjStm(w)
  /\ wr[w].opts = {} \/ wr[w].opts \in Combos

\* The numbers below at are in the file, or in its object stream.
OutInv(w) ==
  /\ ~Late(w) => wr[w].out = << >> /\ wr[w].at = 1 /\ wr[w].marked = {}
  /\ wr[w].phase = "done" => wr[w].at > Len(wr[w].objects)
  /\ \A i \in DOMAIN wr[w].out :
       /\ wr[w].out[i].node \in Elems(wr[w].objects)
       /\ wr[w].out[i].num = NumOf(w, wr[w].out[i].node)
  /\ \A k \in DOMAIN wr[w].objects :
       k < wr[w].at => k \in Numbers(w) \/ Skipped(w, wr[w].objects[k])
  /\ wr[w].at > 1 /\ "objstm" \in wr[w].opts =>
       \A n \in Elems(wr[w].objects) \ Streams(w) : NumOf(w, n) \in Numbers(w)

FileInv == \A w \in Writers : ObjectsInv(w) /\ OutInv(w)

(* The text.  A string of a writer's copies is encrypted with the number of *)
(* each object it is in that Encrypt was at, and with no other.             *)
OutText(w) ==
  \A i \in DOMAIN wr[w].out :
    LET e == wr[w].out[i]
    IN  /\ \A s \in StrsOf(e.node) :
             e.keys[s] = IF Encrypting(w) /\ e.node # Enc(w) THEN {e.num} ELSE {}
        /\ e.how = "member" => ~Encrypting(w)

TextInv(w) ==
  /\ wr[w].marked \subseteq Elems(wr[w].objects) \ {Enc(w)}
  /\ ~Encrypting(w) => wr[w].marked = {}
  /\ \A s \in Strs :
       text[<<w, s>>] = {NumOf(w, m) : m \in {m \in wr[w].marked : s \in StrsOf(m)}}
  /\ OutText(w)

\* Hypotheses.  A string is in one node: nothing was made by Duplicate.
Unshared == \A d \in Docs : \A m, n \in DocNodes :
              m # n => d.strs[m] \cap d.strs[n] = {}
\* Object streams are not asked for together with encryption.
StreamsPlain == \A o \in Combos : "objstm" \in o => o \cap {"rc4", "aes"} = {}
\* ... nor with a version that has cross reference streams anyway.
StreamsOld == \A o \in Combos : "objstm" \in o => o \cap {"modern", "aes"} = {}

\* Each node in the file so far is one before at, or a member.
OnceInv(w) ==
  /\ \A i, j \in DOMAIN wr[w].out : wr[w].out[i].node = wr[w].out[j].node => i = j
  /\ \A i \in DOMAIN wr[w].out :
       \/ \E k \in DOMAIN wr[w].objects : k < wr[w].at /\ wr[w].objects[k] = wr[w].out[i].node
       \/ "objstm" \in wr[w].opts /\ wr[w].at > 1 /\ wr[w].out[i].node \notin Streams(w)

(* What was collected.  A page whose references are not resolved when it is *)
(* visited makes AddPage fail; otherwise what an object refers to is there  *)
(* or still to be visited, and nothing else is.                             *)
Doomed(w) ==
  \/ wr[w].erred
  \/ wr[w].phase = "adding" /\ wr[w].todo # << >> /\ Head(wr[w].todo) = BadRef

\* What an object of a writer leads to when its references are resolved.
Leads(w, n) ==
  IF n \in DocNodes THEN Elems(doc.kids[n])
  ELSE IF n = Tree(w) THEN Elems(wr[w].pages)
  ELSE IF n = Root(w) THEN {Tree(w)} \cup Elems(wr[w].optional) \cup Elems(wr[w].extra)
  ELSE {}

\* ... of which a writer has visited all, or has yet to; outlines and forms
\* are added by Write.
Collecting(w) == wr[w].phase \in {"collecting", "writing", "done"}
Followed(w, n) ==
  IF n = Root(w) /\ ~Collecting(w) THEN {Tree(w)} \cup Elems(wr[w].optional) ELSE Leads(w, n)

Resolved(w) ==
  \A p \in raw : /\ p \in wr[w].seen => Has(w, p)
                 /\ Has(w, p) => doc.kids[p] = << >>

Gathered(w) ==
  \A n \in Elems(wr[w].objects) : Followed(w, n) \subseteq Elems(wr[w].objects) \cup Elems(wr[w].todo)

ClosedIn(w, C) ==
  /\ {Info(w), Root(w)} \subseteq C
  /\ \A n \in C \cap Elems(wr[w].objects) : Leads(w, n) \subseteq C
Justified(w) ==
  \A C \in SUBSET Nodes : ClosedIn(w, C) =>
    /\ Elems(wr[w].objects) \ {Enc(w), ObjStm(w)} \subseteq C
    /\ Elems(wr[w].todo) \subseteq C

Plain(w) ==
  /\ wr[w].todo \in Seq(DocNodes) /\ wr[w].optional \in Seq(DocNodes)
  /\ wr[w].phase \in {"open", "writing", "done"} => wr[w].todo = << >>

Good(w) == Plain(w) /\ Resolved(w) /\ Gathered(w) /\ Justified(w)

CollectInv ==
  /\ doc \in Docs
  /\ doc.lazy = {} => raw = {}
  /\ \A w \in Writers : Doomed(w) \/ Good(w)

\* Hypotheses.  The client uses one writer and leaves its pages alone, or has
\* read all of the document.
Alone == (\E w : Writers = {w}) /\ Refreshed = {}
Eager == \A d \in Docs : d.lazy = {}
OCsResolved == OCs \subseteq Seq(DocNodes)

ParentsInv(w) ==
  /\ \A n \in Elems(wr[w].objects) \cap DocNodes :
       up[n] # None /\ ~Has(w, up[n]) => ~Late(w) /\ <<up[n], n>> \in wr[w].pending
  /\ \A p \in Elems(wr[w].pages) : up[p] = Tree(w)
  /\ \A i \in DOMAIN wr[w].out, n \in Elems(wr[w].objects) : wr[w].out[i].node = n =>
       /\ wr[w].out[i].refs = Elems(Kids(n))
       /\ wr[w].out[i].parent = IF n \in DocNodes THEN up[n] ELSE None

-----------------------------------------------------------------------------
(* Steps that leave the file alone.                                         *)
LEMMA FrameFile ==
  ASSUME NEW v \in Writers, ObjectsInv(v), OutInv(v), doc' = doc,
         wr'[v].objects = wr[v].objects, wr'[v].opts = wr[v].opts, wr'[v].at = wr[v].at,
         wr'[v].marked = wr[v].marked, wr'[v].out = wr[v].out, Late(v)' <=> Late(v),
         wr'[v].phase = "done" => wr[v].phase = "done" \/ wr[v].at > Len(wr[v].objects)
  PROVE  ObjectsInv(v)' /\ OutInv(v)'
<1>1. ObjectsInv(v)'
  BY DEF ObjectsInv
<1>2. /\ Numbers(v)' = Numbers(v) /\ Streams(v)' = Streams(v)
      /\ \A n : NumOf(v, n)' = NumOf(v, n) /\ (Skipped(v, n)' <=> Skipped(v, n))
  BY DEF Numbers, Streams, NumOf, Skipped, Modern
<1>3. OutInv(v)'
  BY <1>2 DEF OutInv
<1> QED
  BY <1>1, <1>3

LEMMA EarlyFile ==
  ASSUME NEW v \in Writers, ~Late(v)',
         wr'[v].out = << >>, wr'[v].at = 1, wr'[v].marked = {},
         Distinct(wr'[v].objects), Len(wr'[v].objects) \in Nat,
         DOMAIN wr'[v].objects = 1 .. Len(wr'[v].objects),
         {Info(v), Root(v), Tree(v)} \subseteq Elems(wr'[v].objects),
         Elems(wr'[v].objects) \subseteq DocNodes \cup {Info(v), Root(v), Tree(v), Enc(v)},
         wr'[v].opts = {} \/ wr'[v].opts \in Combos
  PROVE  ObjectsInv(v)' /\ OutInv(v)'
<1>1. ObjectsInv(v)'
  BY DEF ObjectsInv
<1>2. DOMAIN wr'[v].out = {}
  OBVIOUS
<1>3. OutInv(v)'
  BY <1>2 DEF OutInv, Late
<1> QED
  BY <1>1, <1>3

\* Before Number, what a writer has.
LEMMA EarlyFacts ==
  ASSUME TypeOK, FileInv, NEW w \in Writers, ~Late(w)
  PROVE  /\ wr[w].out = << >> /\ wr[w].at = 1 /\ wr[w].marked = {}
         /\ Distinct(wr[w].objects)
         /\ {Info(w), Root(w), Tree(w)} \subseteq Elems(wr[w].objects)
         /\ Elems(wr[w].objects) \subseteq DocNodes \cup {Info(w), Root(w), Tree(w), Enc(w)}
         /\ wr[w].opts = {} \/ wr[w].opts \in Combos
BY DEF FileInv, ObjectsInv, OutInv

\* ... and what it has after a step that adds at most n.
LEMMA EarlyStep ==
  ASSUME TypeOK, TypeOK', FileInv, NEW w \in Writers, ~Late(w), ~Late(w)',
         NEW n \in DocNodes \cup {Enc(w)},
         wr'[w].objects \in {wr[w].objects, AddObject(wr[w].objects, n)},
         wr'[w].out = wr[w].out, wr'[w].at = wr[w].at, wr'[w].marked = wr[w].marked,
         wr'[w].opts = wr[w].opts \/ wr'[w].opts \in Combos
  PROVE  ObjectsInv(w)' /\ OutInv(w)'
<1>1. n \in Nodes /\ wr[w].objects \in Seq(Nodes)
  BY OwnFacts, WriterFields DEF Nodes
<1> DEFINE s == AddObject(wr[w].objects, n)
<1>2. s \in Seq(Nodes) /\ Elems(s) = Elems(wr[w].objects) \cup {n} /\ (Distinct(wr[w].objects) => Distinct(s))
  BY <1>1, AddObjectFacts
<1> HIDE DEF s
<1>3. wr'[w].objects \in {wr[w].objects, s}
  BY DEF s
<1> DEFINE o == wr'[w].objects
<1>4. /\ o \in Seq(Nodes) /\ Distinct(o)
      /\ {Info(w), Root(w), Tree(w)} \subseteq Elems(o)
      /\ Elems(o) \subseteq DocNodes \cup {Info(w), Root(w), Tree(w), Enc(w)}
  BY <1>1, <1>2, <1>3, EarlyFacts
<1>5. Len(o) \in Nat /\ DOMAIN o = 1 .. Len(o)
  BY <1>4
<1>6. wr'[w].opts = {} \/ wr'[w].opts \in Combos
  BY EarlyFacts
<1> HIDE DEF o
<1> QED
  BY <1>4, <1>5, <1>6, EarlyFacts, EarlyFile DEF o

\* Number puts the object stream in front.
LEMMA NumberFile ==
  ASSUME TypeOK, TypeOK', FileInv, NEW w \in Writers, Number(w)
  PROVE  ObjectsInv(w)' /\ OutInv(w)'
<1> DEFINE s == wr[w].objects
           g == Grouped(w, s)
<1>1. wr'[w] = [wr[w] EXCEPT !.objects = g, !.phase = "writing"]
  BY NumberEffect
<1>2. /\ wr'[w].objects = g /\ wr'[w].opts = wr[w].opts /\ wr'[w].at = wr[w].at
      /\ wr'[w].marked = wr[w].marked /\ wr'[w].out = wr[w].out /\ wr'[w].phase = "writing"
  BY <1>1, WriterFields DEF WriterState
<1>3. ~Late(w) /\ Late(w)'
  BY <1>2 DEF Number, Late
<1>4. s \in Seq(Nodes) /\ ObjStm(w) \notin Elems(s)
  <2>1. ObjStm(w) \notin DocNodes \cup {Info(w), Root(w), Tree(w), Enc(w)}
    BY OwnFacts
  <2> QED
    BY <1>3, <2>1, EarlyFacts, WriterFields
<1>5. /\ g \in Seq(Nodes)
      /\ Elems(g) = Elems(s) \cup (IF "objstm" \in wr[w].opts THEN {ObjStm(w)} ELSE {})
      /\ Distinct(s) => Distinct(g)
      /\ "objstm" \in wr[w].opts => g[1] = ObjStm(w)
  BY <1>4, GroupedFacts
<1> HIDE DEF g, s
<1>6. ObjectsInv(w)'
  BY <1>2, <1>3, <1>5, EarlyFacts DEF ObjectsInv, s
<1>7. OutInv(w)'
  <2>1. DOMAIN wr'[w].out = {} /\ wr'[w].at = 1
    BY <1>2, <1>3, EarlyFacts
  <2>2. DOMAIN wr'[w].objects = 1 .. Len(g) /\ Len(g) \in Nat
    BY <1>2, <1>5
  <2> QED
    BY <1>2, <1>3, <2>1, <2>2 DEF OutInv
<1> QED
  BY <1>6, <1>7

LEMMA WrittenFields ==
  ASSUME NEW w, NEW n, NEW num, NEW how, NEW txt
  PROVE  LET e == Written(w, n, num, how, txt)
         IN  /\ e.num = num /\ e.node = n /\ e.how = how
             /\ \A s \in Strs : s \in StrsOf(n) => e.keys[s] = txt[<<CopyOf(w), s>>]
             /\ e.refs = Elems(Kids(n))
             /\ e.parent = IF n \in DocNodes THEN up[n] ELSE None
BY DEF Written

\* What is in a file after an object was written, and where.
AnObject(w, txt) == Written(w, wr[w].objects[wr[w].at], wr[w].at, "object", txt)
AMember(w, k, txt) == Written(w, Members(w)[k], NumOf(w, Members(w)[k]), "member", txt)

LEMMA ConcatIndex ==
  ASSUME NEW D, NEW s \in Seq(D), NEW t \in Seq(D)
  PROVE  /\ Len(s) \in Nat /\ DOMAIN s = 1 .. Len(s)
         /\ Len(t) \in Nat /\ DOMAIN t = 1 .. Len(t)
         /\ DOMAIN (s \o t) = 1 .. Len(s) + Len(t) /\ Len(s \o t) = Len(s) + Len(t)
         /\ \A i \in 1 .. Len(s) : (s \o t)[i] = s[i]
         /\ \A k \in 1 .. Len(t) : (s \o t)[Len(s) + k] = t[k]
OBVIOUS

LEMMA OutStep ==
  ASSUME TypeOK, NEW w \in Writers, WriteObject(w),
         ~Skipped(w, wr[w].objects[wr[w].at])
  PROVE  LET n   == wr[w].objects[wr[w].at]
             l   == Len(wr[w].out)
             out == wr'[w].out
         IN  /\ l \in Nat /\ DOMAIN wr[w].out = 1 .. l /\ \E m \in Nat : DOMAIN out = 1 .. m
             /\ \A i \in DOMAIN wr[w].out : i \in DOMAIN out /\ out[i] = wr[w].out[i]
             /\ l + 1 \in DOMAIN out /\ out[l + 1] = AnObject(w, text')
             /\ n = ObjStm(w) => \A k \in DOMAIN Members(w) :
                  l + 1 + k \in DOMAIN out /\ out[l + 1 + k] = AMember(w, k, text')
             /\ \A i \in DOMAIN out :
                  \/ i \in DOMAIN wr[w].out
                  \/ i = l + 1
                  \/ n = ObjStm(w) /\ \E k \in DOMAIN Members(w) : i = l + 1 + k
<1> DEFINE n    == wr[w].objects[wr[w].at]
           old  == wr[w].out
           l    == Len(old)
           out  == wr'[w].out
           mem  == MemberEntries(w, text')
           more == IF n # ObjStm(w) THEN << >> ELSE mem
           one  == <<AnObject(w, text')>>
           batch == Batch(w, n, text')
<1>1. n \in Nodes /\ text' \in TextType /\ out = old \o batch
  <2> DEFINE a == wr[w].marked \cup NewlyEncrypted(w, n)
             b == old \o batch
  <2>1. n \in Nodes /\ text' \in TextType
    BY WriteObjectEffect
  <2>2. wr'[w] = [wr[w] EXCEPT !.at = @ + 1, !.marked = a, !.out = b]
    BY WriteObjectEffect
  <2> HIDE DEF a, b
  <2>3. wr'[w].out = b
    BY <2>2, WriterFields DEF WriterState
  <2> QED
    BY <2>1, <2>3 DEF b
<1>2. old \in Seq(OutEntry) /\ batch \in Seq(OutEntry) /\ mem \in Seq(OutEntry)
  BY <1>1, BatchType, WriterFields DEF WriterState, OutEntry
<1>3. batch = one \o more
  BY DEF Batch, AnObject
<1>4. DOMAIN mem = DOMAIN Members(w) /\ \A k \in DOMAIN mem : mem[k] = AMember(w, k, text')
  BY DEF MemberEntries, AMember
<1>5. AnObject(w, text') \in OutEntry
  BY <1>1, WrittenType, WriterFields DEF AnObject
<1>6. one \in Seq(OutEntry) /\ Len(one) = 1 /\ one[1] = AnObject(w, text')
  BY <1>5
<1>7. more \in Seq(OutEntry)
  BY <1>2
<1>8. DOMAIN more = IF n # ObjStm(w) THEN {} ELSE DOMAIN mem
  BY <1>2
<1>9. n = ObjStm(w) => more = mem
  OBVIOUS
<1> HIDE DEF n, out, mem, more, one, batch, old
<1>10. /\ Len(more) \in Nat /\ DOMAIN more = 1 .. Len(more)
       /\ DOMAIN batch = 1 .. 1 + Len(more) /\ batch[1] = one[1] /\ Len(batch) = 1 + Len(more)
       /\ \A k \in DOMAIN more : batch[1 + k] = more[k]
  <2> DEFINE k1 == Len(one)
             k2 == Len(more)
  <2>1. /\ k2 \in Nat /\ DOMAIN more = 1 .. k2
        /\ DOMAIN batch = 1 .. k1 + k2 /\ Len(batch) = k1 + k2
        /\ \A i \in 1 .. k1 : batch[i] = one[i]
        /\ \A k \in 1 .. k2 : batch[k1 + k] = more[k]
    BY <1>3, <1>6, <1>7, ConcatIndex
  <2>2. k1 = 1
    BY <1>6
  <2> HIDE DEF k1, k2
  <2>3. batch[1] = one[1]
    BY <2>1, <2>2
  <2> QED
    BY <2>1, <2>2, <2>3 DEF k2
<1>11. /\ l \in Nat /\ DOMAIN old = 1 .. l /\ DOMAIN out = 1 .. l + Len(batch)
       /\ \A i \in 1 .. l : out[i] = old[i]
       /\ \A k \in 1 .. Len(batch) : out[l + k] = batch[k]
  BY <1>1, <1>2, ConcatIndex
<1> HIDE DEF l
<1>12. l + 1 \in DOMAIN out /\ out[l + 1] = AnObject(w, text')
  BY <1>6, <1>10, <1>11
<1>13. ASSUME NEW k \in DOMAIN more
       PROVE  l + 1 + k \in DOMAIN out /\ out[l + 1 + k] = more[k]
  <2> DEFINE m == Len(more)
  <2>2. k \in 1 .. m /\ m \in Nat /\ l \in Nat /\ Len(batch) = 1 + m
    BY <1>10, <1>11, <1>13
  <2> HIDE DEF m
  <2>1. 1 + k \in 1 .. Len(batch) /\ l + 1 + k = l + (1 + k) /\ l + 1 + k \in 1 .. l + Len(batch)
    BY <2>2
  <2> QED
    BY <1>10, <1>11, <2>1
<1>14. ASSUME n = ObjStm(w), NEW k \in DOMAIN Members(w)
       PROVE  l + 1 + k \in DOMAIN out /\ out[l + 1 + k] = AMember(w, k, text')
  BY <1>4, <1>8, <1>9, <1>13, <1>14
<1>15. ASSUME NEW i \in DOMAIN out, i \notin DOMAIN old, i # l + 1
       PROVE  n = ObjStm(w) /\ \E k \in DOMAIN Members(w) : i = l + 1 + k
  <2>1. i - (l + 1) \in DOMAIN more /\ i = l + 1 + (i - (l + 1))
    BY <1>10, <1>11, <1>15
  <2> QED
    BY <1>4, <1>8, <2>1
<1>16. \E m \in Nat : DOMAIN out = 1 .. m
  BY <1>10, <1>11
<1>17. \A i \in DOMAIN old : i \in DOMAIN out /\ out[i] = old[i]
  BY <1>10, <1>11
<1> QED
  BY <1>11, <1>12, <1>14, <1>15, <1>16, <1>17 DEF n, out, l, old

LEMMA WriteObjectSame ==
  ASSUME TypeOK, NEW w \in Writers, WriteObject(w)
  PROVE  /\ wr'[w].objects = wr[w].objects /\ wr'[w].opts = wr[w].opts
         /\ wr'[w].phase = "writing" /\ wr[w].phase = "writing"
         /\ wr'[w].at = wr[w].at + 1 /\ wr[w].at \in Nat \ {0}
         /\ wr'[w].pages = wr[w].pages /\ wr'[w].optional = wr[w].optional
         /\ wr'[w].extra = wr[w].extra /\ wr'[w].seen = wr[w].seen
         /\ wr'[w].todo = wr[w].todo /\ wr'[w].erred = wr[w].erred
         /\ wr'[w].pending = wr[w].pending
         /\ Numbers(w) \subseteq Numbers(w)'
         /\ Late(w) /\ Late(w)'
<1> DEFINE n == wr[w].objects[wr[w].at]
<1>1. wr[w].phase = "writing" /\ wr[w] \in WriterState /\ wr[w].at \in Nat \ {0}
  BY WriterFields DEF WriteObject
<1>2. CASE Skipped(w, n)
  <2>1. wr'[w] = [wr[w] EXCEPT !.at = @ + 1]
    BY <1>2, WriteObjectEffect
  <2> QED
    BY <1>1, <2>1 DEF WriterState, Numbers, Late
<1>3. CASE ~Skipped(w, n)
  <2> DEFINE a == wr[w].marked \cup NewlyEncrypted(w, n)
             b == wr[w].out \o Batch(w, n, text')
  <2>1. wr'[w] = [wr[w] EXCEPT !.at = @ + 1, !.marked = a, !.out = b]
    BY <1>3, WriteObjectEffect
  <2>2. \A i \in DOMAIN wr[w].out : i \in DOMAIN wr'[w].out /\ wr'[w].out[i] = wr[w].out[i]
    BY <1>3, OutStep
  <2>3. Numbers(w) \subseteq Numbers(w)'
    BY <2>2 DEF Numbers
  <2> HIDE DEF a, b
  <2> QED
    BY <1>1, <2>1, <2>3 DEF WriterState, Late
<1> QED
  BY <1>2, <1>3

LEMMA WriteObjectFile ==
  ASSUME TypeOK, TypeOK', FileInv, NEW w \in Writers, WriteObject(w)
  PROVE  ObjectsInv(w)' /\ OutInv(w)'
<1> DEFINE n == wr[w].objects[wr[w].at]
           l == Len(wr[w].out)
           out == wr'[w].out
<1>1. doc' = doc
  BY DEF WriteObject
<1>2. ObjectsInv(w) /\ OutInv(w)
  BY DEF FileInv
<1>3. ObjectsInv(w)'
  BY <1>1, <1>2, WriteObjectSame DEF ObjectsInv
<1>4. /\ Streams(w)' = Streams(w)
      /\ \A m : NumOf(w, m)' = NumOf(w, m) /\ (Skipped(w, m)' <=> Skipped(w, m))
  BY <1>1, WriteObjectSame DEF Streams, NumOf, Skipped, Modern
<1>5. wr[w].at \in DOMAIN wr[w].objects /\ n \in Elems(wr[w].objects)
  BY WriteObjectEffect DEF Elems
<1>6. NumOf(w, n) = wr[w].at
  <2>1. NumOf(w, n) \in DOMAIN wr[w].objects /\ wr[w].objects[NumOf(w, n)] = n
    BY <1>5, NumOfType
  <2> QED
    BY <1>2, <1>5, <2>1 DEF ObjectsInv, Distinct
<1>7. \A i \in DOMAIN out : out[i].node \in Elems(wr[w].objects) /\ out[i].num = NumOf(w, out[i].node)
  <2>1. CASE Skipped(w, n)
    <3>2. wr'[w] = [wr[w] EXCEPT !.at = @ + 1]
      BY <2>1, WriteObjectEffect
    <3>1. out = wr[w].out
      BY <3>2, WriterFields DEF WriterState
    <3> QED
      BY <1>2, <3>1 DEF OutInv
  <2>2. CASE ~Skipped(w, n)
    <3> TAKE i \in DOMAIN out
    <3>1. CASE i \in DOMAIN wr[w].out
      BY <1>2, <2>2, <3>1, OutStep DEF OutInv
    <3>2. CASE i = l + 1
      <4>1. out[i].node = n /\ out[i].num = wr[w].at
        BY <2>2, <3>2, OutStep, WrittenFields DEF AnObject
      <4> QED
        BY <1>5, <1>6, <4>1
    <3>3. ASSUME NEW k \in DOMAIN Members(w), i = l + 1 + k, n = ObjStm(w)
          PROVE  out[i].node \in Elems(wr[w].objects) /\ out[i].num = NumOf(w, out[i].node)
      <4> DEFINE m == Members(w)[k]
      <4>1. out[i].node = m /\ out[i].num = NumOf(w, m)
        BY <2>2, <3>3, OutStep, WrittenFields DEF AMember
      <4>2. m \in Elems(Members(w))
        BY DEF Elems
      <4> QED
        BY <4>1, <4>2, MembersFacts
    <3> QED
      BY <2>2, <3>1, <3>2, <3>3, OutStep
  <2> QED
    BY <2>1, <2>2
<1>8. ASSUME NEW k \in DOMAIN wr[w].objects, k < wr[w].at + 1
      PROVE  k \in Numbers(w)' \/ Skipped(w, wr[w].objects[k])
  <2>1. CASE k < wr[w].at
    BY <1>2, <2>1, WriteObjectSame DEF OutInv
  <2>2. CASE ~(k < wr[w].at) /\ ~Skipped(w, n)
    <3>1. k = wr[w].at
      BY <1>8, <2>2, WriterFields
    <3>2. out[l + 1].num = k /\ l + 1 \in DOMAIN out
      BY <2>2, <3>1, OutStep, WrittenFields DEF AnObject
    <3> QED
      BY <3>2 DEF Numbers
  <2>3. CASE ~(k < wr[w].at) /\ Skipped(w, n)
    BY <1>8, <2>3, WriterFields
  <2> QED
    BY <2>1, <2>2, <2>3
<1>9. ASSUME "objstm" \in wr[w].opts, NEW m \in Elems(wr[w].objects) \ Streams(w)
      PROVE  NumOf(w, m) \in Numbers(w)'
  <2>1. CASE wr[w].at > 1
    BY <1>2, <1>9, <2>1, WriteObjectSame DEF OutInv
  <2>2. CASE wr[w].at = 1
    <3>1. n = ObjStm(w)
      BY <1>2, <1>9, <2>2, WriteObjectSame DEF ObjectsInv
    <3>2. ~Skipped(w, n)
      BY <3>1 DEF Skipped, Streams
    <3>3. m \in Elems(Members(w))
      BY MembersFacts
    <3>4. PICK k \in DOMAIN Members(w) : Members(w)[k] = m
      BY <3>3 DEF Elems
    <3>5. l + 1 + k \in DOMAIN out /\ out[l + 1 + k].num = NumOf(w, m)
      BY <3>1, <3>2, <3>4, OutStep, WrittenFields DEF AMember
    <3> QED
      BY <3>5 DEF Numbers
  <2> QED
    BY <2>1, <2>2, WriterFields
<1>10. OutInv(w)'
  <2>1. Late(w)' /\ wr'[w].phase # "done"
    BY WriteObjectSame
  <2> HIDE DEF n, l, out
  <2> QED
    BY <1>4, <1>7, <1>8, <1>9, <2>1, WriteObjectSame DEF OutInv, out
<1> QED
  BY <1>3, <1>10

-----------------------------------------------------------------------------
LEMMA FileInit == Init => FileInv
<1> SUFFICES ASSUME Init, NEW w \in Writers
             PROVE  ObjectsInv(w) /\ OutInv(w)
  BY DEF FileInv
<1> DEFINE o == <<Info(w), Root(w), Tree(w)>>
<1>1. wr[w] = NewWriter(w)
  BY DEF Init
<1>2. /\ wr[w].objects = o /\ wr[w].out = << >> /\ wr[w].at = 1 /\ wr[w].marked = {}
      /\ wr[w].phase = "open" /\ wr[w].opts = {}
  BY <1>1 DEF NewWriter
<1>3. Info(w) # Root(w) /\ Info(w) # Tree(w) /\ Root(w) # Tree(w)
  BY OwnFacts
<1>4. Distinct(o) /\ DOMAIN o = 1 .. 3 /\ Elems(o) = {Info(w), Root(w), Tree(w)}
  <2>1. DOMAIN o = {1, 2, 3} /\ DOMAIN o = 1 .. 3
    OBVIOUS
  <2>2. o[1] = Info(w) /\ o[2] = Root(w) /\ o[3] = Tree(w)
    OBVIOUS
  <2> HIDE DEF o
  <2> QED
    BY <1>3, <2>1, <2>2 DEF Distinct, Elems
<1> HIDE DEF o
<1>5. ObjectsInv(w)
  BY <1>2, <1>4 DEF ObjectsInv, Late
<1>6. OutInv(w)
  BY <1>2, <1>4 DEF OutInv, Late
<1> QED
  BY <1>5, <1>6

LEMMA OthersFile ==
  ASSUME FileInv, doc' = doc, NEW v \in Writers, wr'[v] = wr[v]
  PROVE  ObjectsInv(v)' /\ OutInv(v)'
<1>1. ObjectsInv(v) /\ OutInv(v)
  BY DEF FileInv
<1>2. Late(v)' <=> Late(v)
  BY DEF Late
<1> QED
  BY <1>1, <1>2, FrameFile

LEMMA FileStep ==
  ASSUME TypeOK, TypeOK', FileInv, [Next]_vars
  PROVE  FileInv'
<1> SUFFICES ASSUME NEW v \in Writers
             PROVE  ObjectsInv(v)' /\ OutInv(v)'
  BY DEF FileInv
<1> DEFINE Goal == ObjectsInv(v)' /\ OutInv(v)'
<1>1. CASE UNCHANGED vars
  BY <1>1, OthersFile DEF vars
<1>2. ASSUME NEW w \in Writers, NEW p \in Pages, AddPage(w, p)
      PROVE  Goal
  <2>1. doc' = doc /\ (v # w => wr'[v] = wr[v]) /\ ~Late(w)
    BY <1>2, AddPageEffect DEF AddPage, Ready, Late
  <2>2. ~Late(w)' /\ p \in DocNodes
    BY <1>2, AddPageFields, Assumptions DEF Late
  <2>3. CASE v = w
    BY <1>2, <2>1, <2>2, <2>3, AddPageFields, EarlyStep
  <2> QED
    BY <2>1, <2>3, OthersFile
<1>3. ASSUME NEW w \in Writers, NEW n \in Attachable, Attach(w, n)
      PROVE  Goal
  <2>1. doc' = doc /\ (v # w => wr'[v] = wr[v])
    BY <1>3, AttachEffect DEF Attach
  <2>2. CASE v = w
    BY <1>3, <2>1, <2>2, AttachFields, FrameFile DEF FileInv, Late
  <2> QED
    BY <2>1, <2>2, OthersFile
<1>4. ASSUME NEW w \in Writers, NEW oc \in OCs, SetOCProperties(w, oc)
      PROVE  Goal
  <2>1. doc' = doc /\ (v # w => wr'[v] = wr[v]) /\ ~Late(w)
    BY <1>4, SetOCPropertiesEffect DEF SetOCProperties, Late, Ready
  <2>2. CASE v = w
    BY <1>4, <2>1, <2>2, SetOCPropertiesFields, FrameFile DEF FileInv, Late
  <2> QED
    BY <2>1, <2>2, OthersFile
<1>5. ASSUME NEW w \in Writers, NEW o \in Options, Configure(w, o)
      PROVE  Goal
  <2>1. doc' = doc /\ (v # w => wr'[v] = wr[v]) /\ ~Late(w) /\ wr[w].opts \cup {o} \in Combos
    BY <1>5, ConfigureEffect DEF Configure, Ready, Late
  <2>2. ~Late(w)'
    BY <1>5, <2>1, ConfigureFields DEF Late
  <2>3. CASE v = w
    BY <1>5, <2>1, <2>2, <2>3, ConfigureFields, EarlyStep
  <2> QED
    BY <2>1, <2>3, OthersFile
<1>6. ASSUME NEW p \in Refreshed, Refresh(p)
      PROVE  Goal
  BY <1>6, OthersFile DEF Refresh
<1>7. ASSUME NEW w \in Writers, Visit(w)
      PROVE  Goal
  <2>1. doc' = doc /\ (v # w => wr'[v] = wr[v]) /\ ~Late(w)
    BY <1>7, VisitEffect DEF Visit, Working, Late
  <2>2. CASE v = w
    <3> DEFINE n == Head(wr[w].todo)
    <3>1. /\ n \in DocNodes
          /\ wr'[w].objects \in {wr[w].objects, AddObject(wr[w].objects, n)}
          /\ ~Late(w)'
      BY <1>7, <2>1, VisitFields DEF Has, AddObject, Late
    <3> HIDE DEF n
    <3> QED
      BY <1>7, <2>1, <2>2, <3>1, VisitFields, EarlyStep
  <2> QED
    BY <2>1, <2>2, OthersFile
<1>8. ASSUME NEW w \in Writers, VisitRef(w)
      PROVE  Goal
  <2>1. doc' = doc /\ (v # w => wr'[v] = wr[v]) /\ ~Late(w)
    BY <1>8, VisitRefEffect DEF VisitRef, Late, Working
  <2>2. CASE v = w
    BY <1>8, <2>1, <2>2, VisitRefFields, FrameFile DEF FileInv, Late
  <2> QED
    BY <2>1, <2>2, OthersFile
<1>9. ASSUME NEW w \in Writers, AddDone(w)
      PROVE  Goal
  <2>1. doc' = doc /\ (v # w => wr'[v] = wr[v]) /\ ~Late(w)
    BY <1>9, AddDoneEffect DEF AddDone, Late
  <2>2. CASE v = w
    BY <1>9, <2>1, <2>2, AddDoneFields, FrameFile DEF FileInv, Late
  <2> QED
    BY <2>1, <2>2, OthersFile
<1>10. ASSUME NEW w \in Writers, Write(w)
      PROVE  Goal
  <2>1. doc' = doc /\ (v # w => wr'[v] = wr[v]) /\ ~Late(w)
    BY <1>10, WriteEffect DEF Write, Late, Ready
  <2>2. CASE v = w
    BY <1>10, <2>1, <2>2, WriteFields, FrameFile DEF FileInv, Late
  <2> QED
    BY <2>1, <2>2, OthersFile
<1>11. ASSUME NEW w \in Writers, Number(w)
       PROVE  Goal
  BY <1>11, NumberFile, NumberEffect, OthersFile DEF Number
<1>12. ASSUME NEW w \in Writers, WriteObject(w)
       PROVE  Goal
  <2>1. doc' = doc /\ (v # w => wr'[v] = wr[v])
    BY <1>12, WriteObjectEffect DEF WriteObject
  <2> QED
    BY <1>12, <2>1, WriteObjectFile, OthersFile
<1>13. ASSUME NEW w \in Writers, WriteXref(w)
       PROVE  Goal
  <2>1. doc' = doc /\ (v # w => wr'[v] = wr[v]) /\ wr[w].phase = "writing" /\ wr[w].at > Len(wr[w].objects)
    BY <1>13, WriteXrefEffect DEF WriteXref
  <2>2. CASE v = w
    BY <1>13, <2>1, <2>2, WriteXrefFields, FrameFile DEF FileInv, Late
  <2> QED
    BY <2>1, <2>2, OthersFile
<1> QED
  BY <1>1, <1>2, <1>3, <1>4, <1>5, <1>6, <1>7, <1>8, <1>9, <1>10, <1>11, <1>12, <1>13
  DEF Next, Work, Client

-----------------------------------------------------------------------------
(* The text.                                                                *)
LEMMA DocKept == [Next]_vars => doc' = doc
BY DEF Next, vars, Work, Client, AddPage, Attach, SetOCProperties, Configure, Write, Refresh,
       Visit, VisitRef, AddDone, Number, WriteObject, WriteXref

LEMMA StrsFacts ==
  ASSUME TypeOK, NEW n \in Nodes
  PROVE  /\ StrsOf(n) \subseteq Strs
         /\ n \in DocNodes => StrsOf(n) = doc.strs[n] /\ StrsOf(n) \subseteq DocStrs
         /\ n \notin DocNodes => StrsOf(n) \subseteq {n} /\ StrsOf(n) \subseteq OwnStrs
<1>1. CASE n \in DocNodes
  BY <1>1 DEF StrsOf, TypeOK, Doc, Strs
<1>2. CASE n \notin DocNodes
  <2>1. n \in Own
    BY <1>2 DEF Nodes
  <2>2. n[1] \in {"info", "encrypt"} => n \in OwnStrs
    BY <2>1 DEF Own, OwnStrs
  <2> QED
    BY <1>2, <2>2 DEF StrsOf, Strs
<1> QED
  BY <1>1, <1>2

\* A string tells the node that it is in.
LEMMA StrsApart ==
  ASSUME TypeOK, doc \in Docs, Unshared, NEW m \in Nodes, NEW n \in Nodes,
         NEW s, s \in StrsOf(m), s \in StrsOf(n)
  PROVE  m = n
<1>1. CASE m \in DocNodes /\ n \in DocNodes
  BY <1>1, StrsFacts DEF Unshared
<1>2. CASE m \notin DocNodes /\ n \notin DocNodes
  <2>1. s = m
    BY <1>2, StrsFacts
  <2>2. s = n
    BY <1>2, StrsFacts
  <2> QED
    BY <2>1, <2>2
<1>3. CASE ~(m \in DocNodes <=> n \in DocNodes)
  <2>1. s \in DocStrs
    BY <1>3, StrsFacts
  <2>2. s \in OwnStrs
    BY <1>3, StrsFacts
  <2> QED
    BY <2>1, <2>2, Assumptions
<1> QED
  BY <1>1, <1>2, <1>3

\* Nothing refers to the dictionary of the encryption or to an object stream.
LEMMA KidsKinds ==
  ASSUME TypeOK, NEW m \in Nodes, NEW k \in Elems(Kids(m))
  PROVE  k \in DocNodes \cup {BadRef} \/ (m[1] = "root" /\ k = Tree(m[2]) /\ m \notin DocNodes)
<1>1. CASE m \in DocNodes
  BY <1>1, DocKidsType, ElemsType DEF Kids
<1>2. CASE m \notin DocNodes
  <2>1. m[1] \in {"info", "root", "pages", "encrypt", "objstm"} /\ m[2] \in Writers
    BY <1>2, OwnKinds DEF Nodes
  <2> DEFINE v == m[2]
  <2>2. /\ wr[v].pages \in Seq(Pages) /\ wr[v].optional \in Seq(DocNodes \cup {BadRef})
        /\ wr[v].extra \in Seq(DocNodes)
    BY <2>1, WriterFields
  <2>3. CASE m[1] = "pages"
    <3>1. Kids(m) = wr[v].pages
      BY <1>2, <2>3 DEF Kids
    <3> QED
      BY <2>2, <3>1, ElemsType, Assumptions
  <2>4. CASE m[1] = "root"
    <3> DEFINE a == <<Tree(v)>>
               b == wr[v].optional
               c == wr[v].extra
               ab == a \o b
               All == Nodes \cup {BadRef}
    <3>1. Kids(m) = ab \o c
      BY <1>2, <2>4 DEF Kids
    <3>2. a \in Seq(All) /\ Elems(a) = {Tree(v)}
      BY <2>1, OwnFacts, OneFacts
    <3>3. b \in Seq(All) /\ c \in Seq(All)
      BY <2>2, SeqWider DEF Nodes
    <3>4. Elems(b) \subseteq DocNodes \cup {BadRef} /\ Elems(c) \subseteq DocNodes
      BY <2>2, ElemsType
    <3> HIDE DEF a, b, c, All
    <3>5. ab \in Seq(All) /\ Elems(ab) = Elems(a) \cup Elems(b)
      BY <3>2, <3>3, ConcatFacts
    <3> HIDE DEF ab
    <3>6. Elems(ab \o c) = Elems(ab) \cup Elems(c)
      BY <3>3, <3>5, ConcatFacts
    <3> QED
      BY <1>2, <2>4, <3>1, <3>2, <3>4, <3>5, <3>6
  <2>5. CASE m[1] \in {"info", "encrypt", "objstm"}
    <3>1. Kids(m) = << >>
      BY <1>2, <2>5 DEF Kids
    <3> QED
      BY <3>1 DEF Elems
  <2> QED
    BY <2>1, <2>3, <2>4, <2>5
<1> QED
  BY <1>1, <1>2

LEMMA NoKid ==
  ASSUME TypeOK, NEW w \in Writers, NEW m \in Nodes
  PROVE  Enc(w) \notin Elems(Kids(m)) /\ ObjStm(w) \notin Elems(Kids(m))
<1> SUFFICES ASSUME NEW k \in {Enc(w), ObjStm(w)}, k \in Elems(Kids(m))
             PROVE  FALSE
  OBVIOUS
<1>1. k \in Own /\ k \notin DocNodes \cup {BadRef} /\ k[1] # "pages"
  BY OwnFacts, Assumptions
<1>2. m \in Own /\ k = Tree(m[2])
  BY <1>1, KidsKinds DEF Nodes
<1>3. k[1] = "pages"
  BY <1>2, OwnKinds, OwnFacts
<1> QED
  BY <1>1, <1>3

\* So Encrypt does not come to them.
LEMMA NewlyFacts ==
  ASSUME TypeOK, NEW w \in Writers, NEW n \in Elems(wr[w].objects)
  PROVE  /\ NewlyEncrypted(w, n) \subseteq Elems(wr[w].objects) \ {Enc(w)}
         /\ ~Encrypting(w) => NewlyEncrypted(w, n) = {}
         /\ Encrypting(w) /\ n \notin {Enc(w), ObjStm(w)} =>
              n \in NewlyEncrypted(w, n) \cup wr[w].marked
<1>1. n \in Nodes
  BY WriterFields, ElemsType
<1>2. CASE ~Encrypting(w) \/ n \in {Enc(w), ObjStm(w)}
  BY <1>2 DEF NewlyEncrypted
<1>3. CASE Encrypting(w) /\ n \notin {Enc(w), ObjStm(w)}
  <2> DEFINE C == Nodes \ {Enc(w)}
  <2>1. {n} \subseteq C /\ C \in SUBSET Nodes /\ {n} \in SUBSET Nodes
    BY <1>1, <1>3
  <2>2. \A m \in C : Elems(Kids(m)) \cap Nodes \subseteq C
    BY NoKid
  <2> HIDE DEF C
  <2>3. Reach({n}) \subseteq C /\ {n} \subseteq Reach({n})
    BY <2>1, <2>2, ReachFacts
  <2>4. NewlyEncrypted(w, n) = (Reach({n}) \cap Elems(wr[w].objects)) \ wr[w].marked
    BY <1>3 DEF NewlyEncrypted
  <2> QED
    BY <1>3, <2>3, <2>4 DEF C
<1> QED
  BY <1>2, <1>3

LEMMA FrameText ==
  ASSUME NEW v \in Writers, TextInv(v), doc' = doc,
         \A s \in Strs : text'[<<v, s>>] = text[<<v, s>>],
         wr'[v].objects = wr[v].objects, wr'[v].opts = wr[v].opts,
         wr'[v].marked = wr[v].marked, wr'[v].out = wr[v].out
  PROVE  TextInv(v)'
<1>1. /\ \A n : NumOf(v, n)' = NumOf(v, n) /\ StrsOf(n)' = StrsOf(n)
      /\ Encrypting(v)' <=> Encrypting(v)
  BY DEF NumOf, StrsOf, Encrypting
<1>2. OutText(v) => OutText(v)'
  BY DEF OutText, StrsOf, Encrypting
<1> QED
  BY <1>1, <1>2 DEF TextInv

LEMMA EarlyText ==
  ASSUME NEW v \in Writers, TextInv(v), text' = text,
         wr[v].marked = {}, wr'[v].marked = {}, wr'[v].out = << >>
  PROVE  TextInv(v)'
<1>1. \A s \in Strs : text'[<<v, s>>] = {}
  BY DEF TextInv
<1>2. DOMAIN wr'[v].out = {}
  OBVIOUS
<1>3. OutText(v)'
  BY <1>2 DEF OutText
<1> QED
  BY <1>1, <1>3 DEF TextInv

\* What is in the table for a writer's string after an object was written.
LEMMA TextStep ==
  ASSUME TypeOK, TypeOK', FileInv, doc \in Docs, Unshared, StreamsPlain,
         NEW w \in Writers, TextInv(w), WriteObject(w)
  PROVE  TextInv(w)'
<1> DEFINE n == wr[w].objects[wr[w].at]
           new == NewlyEncrypted(w, n)
           l == Len(wr[w].out)
           out == wr'[w].out
           marked == wr'[w].marked
<1>1. doc' = doc /\ ObjectsInv(w) /\ OutInv(w)
  BY DEF WriteObject, FileInv
<1>2. /\ \A m : NumOf(w, m)' = NumOf(w, m) /\ StrsOf(m)' = StrsOf(m)
      /\ Encrypting(w)' <=> Encrypting(w)
  BY <1>1, WriteObjectSame DEF NumOf, StrsOf, Encrypting
<1>3. CASE Skipped(w, n)
  <2>1. wr'[w] = [wr[w] EXCEPT !.at = @ + 1] /\ text' = text
    BY <1>3, WriteObjectEffect
  <2>2. wr'[w].marked = wr[w].marked /\ wr'[w].out = wr[w].out
    BY <2>1, WriterFields DEF WriterState
  <2> QED
    BY <1>1, <2>1, <2>2, FrameText, WriteObjectSame
<1>4. CASE ~Skipped(w, n)
  <2>1. wr[w].at \in DOMAIN wr[w].objects /\ n \in Elems(wr[w].objects) /\ n \in Nodes
    BY WriteObjectEffect DEF Elems
  <2>2. text' = Encrypted(w, new) /\ marked = wr[w].marked \cup new
    <3> DEFINE a == wr[w].marked \cup new
               b == wr[w].out \o Batch(w, n, text')
    <3>1. /\ text' = Encrypted(w, new)
          /\ wr'[w] = [wr[w] EXCEPT !.at = @ + 1, !.marked = a, !.out = b]
      BY <1>4, WriteObjectEffect
    <3> HIDE DEF a, b
    <3>2. marked = a
      BY <3>1, WriterFields DEF WriterState
    <3> QED
      BY <3>1, <3>2 DEF a
  <2>3. /\ marked \subseteq Elems(wr[w].objects) \ {Enc(w)}
        /\ ~Encrypting(w) => marked = {}
        /\ Encrypting(w) /\ n \notin {Enc(w), ObjStm(w)} => n \in marked
    BY <2>1, <2>2, NewlyFacts DEF TextInv
  <2>4. \A s \in Strs :
          text'[<<w, s>>] = {NumOf(w, m) : m \in {m \in marked : s \in StrsOf(m)}}
    <3> TAKE s \in Strs
    <3>1. text'[<<w, s>>] = text[<<w, s>>] \cup {NumOf(w, m) : m \in {m \in new : s \in StrsOf(m)}}
      BY <2>2 DEF Encrypted, CopyOf, Copies
    <3>2. text[<<w, s>>] = {NumOf(w, m) : m \in {m \in wr[w].marked : s \in StrsOf(m)}}
      BY DEF TextInv
    <3> HIDE DEF marked, new
    <3> QED
      BY <2>2, <3>1, <3>2
  <2>5. NumOf(w, n) = wr[w].at
    <3>1. NumOf(w, n) \in DOMAIN wr[w].objects /\ wr[w].objects[NumOf(w, n)] = n
      BY <2>1, NumOfType
    <3> QED
      BY <1>1, <2>1, <3>1 DEF ObjectsInv, Distinct
  <2>6. \A s \in StrsOf(n) :
          text'[<<w, s>>] = IF Encrypting(w) /\ n # Enc(w) THEN {wr[w].at} ELSE {}
    <3> TAKE s \in StrsOf(n)
    <3>1. s \in Strs /\ text'[<<w, s>>] = {NumOf(w, m) : m \in {m \in marked : s \in StrsOf(m)}}
      BY <2>1, <2>4, StrsFacts
    <3>2. \A m \in marked : s \in StrsOf(m) => m = n
      <4>1. \A m \in marked : m \in Nodes
        BY <2>3, WriterFields, ElemsType
      <4> QED
        BY <2>1, <4>1, StrsApart
    <3>3. n # ObjStm(w)
      BY OwnFacts DEF StrsOf
    <3>4. CASE Encrypting(w) /\ n # Enc(w)
      <4>1. {m \in marked : s \in StrsOf(m)} = {n}
        BY <2>3, <3>2, <3>3, <3>4
      <4> QED
        BY <2>5, <3>1, <3>4, <4>1
    <3>5. CASE ~(Encrypting(w) /\ n # Enc(w))
      <4>1. {m \in marked : s \in StrsOf(m)} = {}
        BY <2>3, <3>2, <3>5
      <4> QED
        BY <3>1, <3>5, <4>1
    <3> QED
      BY <3>4, <3>5
  <2>7. n = ObjStm(w) => ~Encrypting(w)
    <3> SUFFICES ASSUME n = ObjStm(w) PROVE ~Encrypting(w)
      OBVIOUS
    <3>1. ObjStm(w) \notin DocNodes \cup {Info(w), Root(w), Tree(w), Enc(w)}
      BY OwnFacts
    <3>2. "objstm" \in wr[w].opts
      BY <1>1, <2>1, <3>1 DEF ObjectsInv
    <3>3. wr[w].opts \in Combos
      BY <1>1, <3>2 DEF ObjectsInv
    <3> QED
      BY <3>2, <3>3 DEF StreamsPlain, Encrypting
  <2>8. \A i \in DOMAIN out : \A s \in StrsOf(out[i].node) :
          out[i].keys[s] = IF Encrypting(w) /\ out[i].node # Enc(w) THEN {out[i].num} ELSE {}
    <3> TAKE i \in DOMAIN out
    <3>1. CASE i \in DOMAIN wr[w].out
      BY <1>4, <3>1, OutStep, ZenonT(60) DEF TextInv, OutText
    <3>2. CASE i = l + 1
      <4>1. out[i] = AnObject(w, text')
        BY <1>4, <3>2, OutStep
      <4>2. /\ out[i].node = n /\ out[i].num = wr[w].at
            /\ \A s \in Strs : s \in StrsOf(n) => out[i].keys[s] = text'[<<w, s>>]
        BY <4>1, WrittenFields DEF AnObject, CopyOf
      <4> HIDE DEF out, n
      <4> QED
        BY <2>1, <2>6, <4>2, StrsFacts
    <3>3. ASSUME NEW k \in DOMAIN Members(w), i = l + 1 + k, n = ObjStm(w), NEW s \in StrsOf(out[i].node)
          PROVE  out[i].keys[s] = {} /\ ~Encrypting(w)
      <4> DEFINE m == Members(w)[k]
      <4>1. out[i] = AMember(w, k, text')
        BY <1>4, <3>3, OutStep
      <4>2. /\ out[i].node = m
            /\ \A x \in Strs : x \in StrsOf(m) => out[i].keys[x] = text'[<<w, x>>]
        BY <4>1, WrittenFields DEF AMember, CopyOf
      <4>3. m \in Nodes
        BY MembersFacts, ElemsType DEF Elems
      <4>4. s \in Strs /\ s \in StrsOf(m)
        BY <3>3, <4>2, <4>3, StrsFacts
      <4>5. marked = {}
        BY <2>3, <2>7, <3>3
      <4>6. text'[<<w, s>>] = {}
        BY <2>4, <4>4, <4>5
      <4> QED
        BY <2>7, <3>3, <4>2, <4>4, <4>6
    <3> QED
      BY <1>4, <3>1, <3>2, <3>3, OutStep
  <2>12. \A i \in DOMAIN out : out[i].how = "member" => ~Encrypting(w)
    <3> TAKE i \in DOMAIN out
    <3>1. CASE i \in DOMAIN wr[w].out
      BY <1>4, <3>1, OutStep DEF TextInv, OutText
    <3>2. CASE i = l + 1
      BY <1>4, <3>2, OutStep, WrittenFields DEF AnObject
    <3> QED
      BY <1>4, <2>7, <3>1, <3>2, OutStep
  <2> HIDE DEF n, new, l, out, marked
  <2>9. marked \subseteq Elems(wr'[w].objects) \ {Enc(w)} /\ (~Encrypting(w)' => marked = {})
    BY <1>2, <2>3, WriteObjectSame
  <2>10. \A s \in Strs :
           text'[<<w, s>>] = {NumOf(w, m)' : m \in {m \in marked : s \in StrsOf(m)'}}
    BY <1>2, <2>4
  <2>11. Encrypting(w)' = Encrypting(w)
    BY <1>1, WriteObjectSame DEF Encrypting
  <2>13. OutText(w)'
    BY <1>1, <2>8, <2>11, <2>12 DEF OutText, StrsOf, out
  <2> QED
    BY <2>9, <2>10, <2>13 DEF TextInv, marked
<1> QED
  BY <1>3, <1>4

\* Another writer's strings are not this one's.
LEMMA TextOther ==
  ASSUME TypeOK, NEW w \in Writers, WriteObject(w), NEW v \in Writers, v # w, TextInv(v)
  PROVE  TextInv(v)'
<1> DEFINE n == wr[w].objects[wr[w].at]
<1>1. wr'[v] = wr[v] /\ doc' = doc
  BY WriteObjectEffect DEF WriteObject
<1>2. text' = text \/ text' = Encrypted(w, NewlyEncrypted(w, n))
  BY WriteObjectEffect
<1>3. \A s \in Strs : text'[<<v, s>>] = text[<<v, s>>]
  BY <1>2 DEF Encrypted, CopyOf, Copies
<1> QED
  BY <1>1, <1>3, FrameText

TextAll == doc \in Docs /\ OriginalsUntouched /\ \A w \in Writers : TextInv(w)

LEMMA TextInit == Init => TextAll
<1> SUFFICES ASSUME Init PROVE TextAll
  OBVIOUS
<1>1. \A t \in Copies \X Strs : text[t] = {}
  BY DEF Init
<1>2. OriginalsUntouched
  BY <1>1 DEF OriginalsUntouched, Copies
<1>3. ASSUME NEW w \in Writers
      PROVE  TextInv(w)
  <2>1. \A s \in Strs : text[<<w, s>>] = {}
    BY <1>1 DEF Copies
  <2>2. wr[w].marked = {} /\ wr[w].out = << >>
    BY DEF Init, NewWriter
  <2>3. DOMAIN wr[w].out = {}
    BY <2>2
  <2> QED
    BY <2>1, <2>2, <2>3 DEF TextInv, OutText
<1> QED
  BY <1>2, <1>3 DEF TextAll, Init

LEMMA TextAllStep ==
  ASSUME TypeOK, TypeOK', FileInv, TextAll, Unshared, StreamsPlain, [Next]_vars
  PROVE  TextAll'
<1> DEFINE Goal == OriginalsUntouched' /\ \A v \in Writers : TextInv(v)'
<1>1. doc' = doc /\ doc \in Docs /\ OriginalsUntouched /\ \A v \in Writers : TextInv(v)
  BY DocKept DEF TextAll
<1>2. ASSUME NEW w \in Writers, text' = text, \A v \in Writers : v # w => wr'[v] = wr[v],
             TextInv(w)'
      PROVE  Goal
  <2>1. OriginalsUntouched'
    BY <1>1, <1>2 DEF OriginalsUntouched
  <2>2. ASSUME NEW v \in Writers
        PROVE  TextInv(v)'
    BY <1>1, <1>2, FrameText
  <2> QED
    BY <2>1, <2>2
<1>3. ASSUME UNCHANGED vars
      PROVE  Goal
  <2>1. text' = text /\ wr' = wr
    BY <1>3 DEF vars
  <2>2. OriginalsUntouched'
    BY <1>1, <2>1 DEF OriginalsUntouched
  <2>3. \A v \in Writers : TextInv(v)'
    BY <1>1, <2>1, FrameText
  <2> QED
    BY <2>2, <2>3
<1>4. ASSUME NEW w \in Writers, NEW p \in Pages, AddPage(w, p)
      PROVE  Goal
  <2>1. text' = text /\ (\A v \in Writers : v # w => wr'[v] = wr[v]) /\ ~Late(w)
    BY <1>4, AddPageEffect DEF AddPage, Late, Ready
  <2>2. TextInv(w)'
    BY <1>4, <1>1, <2>1, AddPageFields, EarlyFacts, EarlyText
  <2> QED
    BY <1>2, <2>1, <2>2
<1>5. ASSUME NEW w \in Writers, NEW n \in Attachable, Attach(w, n)
      PROVE  Goal
  <2>1. text' = text /\ \A v \in Writers : v # w => wr'[v] = wr[v]
    BY <1>5, AttachEffect DEF Attach
  <2>2. TextInv(w)'
    BY <1>5, <1>1, <2>1, AttachFields, FrameText
  <2> QED
    BY <1>2, <2>1, <2>2
<1>6. ASSUME NEW w \in Writers, NEW oc \in OCs, SetOCProperties(w, oc)
      PROVE  Goal
  <2>1. text' = text /\ \A v \in Writers : v # w => wr'[v] = wr[v]
    BY <1>6, SetOCPropertiesEffect DEF SetOCProperties
  <2>2. TextInv(w)'
    BY <1>6, <1>1, <2>1, SetOCPropertiesFields, FrameText
  <2> QED
    BY <1>2, <2>1, <2>2
<1>7. ASSUME NEW w \in Writers, NEW o \in Options, Configure(w, o)
      PROVE  Goal
  <2>1. text' = text /\ (\A v \in Writers : v # w => wr'[v] = wr[v]) /\ ~Late(w)
    BY <1>7, ConfigureEffect DEF Configure, Late, Ready
  <2>2. TextInv(w)'
    BY <1>7, <1>1, <2>1, ConfigureFields, EarlyFacts, EarlyText
  <2> QED
    BY <1>2, <2>1, <2>2
<1>8. ASSUME NEW w \in Writers, Visit(w)
      PROVE  Goal
  <2>1. text' = text /\ (\A v \in Writers : v # w => wr'[v] = wr[v]) /\ ~Late(w)
    BY <1>8, VisitEffect DEF Visit, Late, Working
  <2>2. TextInv(w)'
    BY <1>8, <1>1, <2>1, VisitFields, EarlyFacts, EarlyText
  <2> QED
    BY <1>2, <2>1, <2>2
<1>9. ASSUME NEW w \in Writers, VisitRef(w)
      PROVE  Goal
  <2>1. text' = text /\ \A v \in Writers : v # w => wr'[v] = wr[v]
    BY <1>9, VisitRefEffect DEF VisitRef
  <2>2. TextInv(w)'
    BY <1>9, <1>1, <2>1, VisitRefFields, FrameText
  <2> QED
    BY <1>2, <2>1, <2>2
<1>10. ASSUME NEW w \in Writers, AddDone(w)
      PROVE  Goal
  <2>1. text' = text /\ \A v \in Writers : v # w => wr'[v] = wr[v]
    BY <1>10, AddDoneEffect DEF AddDone
  <2>2. TextInv(w)'
    BY <1>10, <1>1, <2>1, AddDoneFields, FrameText
  <2> QED
    BY <1>2, <2>1, <2>2
<1>11. ASSUME NEW w \in Writers, Write(w)
      PROVE  Goal
  <2>1. text' = text /\ \A v \in Writers : v # w => wr'[v] = wr[v]
    BY <1>11, WriteEffect DEF Write
  <2>2. TextInv(w)'
    BY <1>11, <1>1, <2>1, WriteFields, FrameText
  <2> QED
    BY <1>2, <2>1, <2>2
<1>12. ASSUME NEW w \in Writers, Number(w)
      PROVE  Goal
  <2>1. text' = text /\ (\A v \in Writers : v # w => wr'[v] = wr[v]) /\ ~Late(w)
    BY <1>12, NumberEffect DEF Number, Late
  <2>2. TextInv(w)'
    BY <1>12, <1>1, <2>1, NumberFields, EarlyFacts, EarlyText
  <2> QED
    BY <1>2, <2>1, <2>2
<1>13. ASSUME NEW w \in Writers, WriteXref(w)
      PROVE  Goal
  <2>1. text' = text /\ \A v \in Writers : v # w => wr'[v] = wr[v]
    BY <1>13, WriteXrefEffect DEF WriteXref
  <2>2. TextInv(w)'
    BY <1>13, <1>1, <2>1, WriteXrefFields, FrameText
  <2> QED
    BY <1>2, <2>1, <2>2
<1>14. ASSUME NEW w \in Writers, WriteObject(w)
      PROVE  Goal
  <2> DEFINE n == wr[w].objects[wr[w].at]
  <2>1. text' = text \/ text' = Encrypted(w, NewlyEncrypted(w, n))
    BY <1>14, WriteObjectEffect
  <2>2. OriginalsUntouched'
    BY <1>1, <2>1, Assumptions DEF OriginalsUntouched, Encrypted, CopyOf, Copies
  <2>3. TextInv(w)'
    BY <1>14, <1>1, TextStep
  <2>4. \A v \in Writers : v # w => TextInv(v)'
    BY <1>14, <1>1, TextOther
  <2> QED
    BY <2>2, <2>3, <2>4
<1>15. ASSUME NEW p \in Refreshed, Refresh(p)
       PROVE  Goal
  <2>1. text' = text /\ wr' = wr
    BY <1>15 DEF Refresh
  <2> QED
    BY <1>1, <2>1, FrameText DEF OriginalsUntouched
<1> HIDE DEF Goal
<1>16. Goal
  BY <1>3, <1>4, <1>5, <1>6, <1>7, <1>8, <1>9, <1>10, <1>11, <1>12, <1>13, <1>14, <1>15
  DEF Next, Work, Client
<1> QED
  BY <1>1, <1>16 DEF TextAll, Goal

-----------------------------------------------------------------------------
LEMMA GreatestOf ==
  ASSUME NEW l \in Nat, NEW T \in SUBSET (1 .. l), T # {}
  PROVE  \E t \in T : \A u \in T : u <= t
<1> DEFINE S == {l - t : t \in T}
<1>0. \A t \in T : l - t \in Nat
  OBVIOUS
<1>1. S \in SUBSET Nat /\ S # {}
  BY <1>0
<1>2. PICK x \in S : \A y \in S : x <= y
  <2> HIDE DEF S
  <2> QED
    BY <1>1, LeastOf
<1>3. PICK t \in T : x = l - t
  BY <1>2
<1>4. ASSUME NEW u \in T
      PROVE  u <= t
  <2>1. l - t <= l - u
    BY <1>2, <1>3
  <2>2. t \in 1 .. l /\ u \in 1 .. l
    OBVIOUS
  <2> QED
    BY <2>1, <2>2
<1> QED
  BY <1>4

\* What the cross reference section of a finished file has under the number of
\* an object is that object.
LEMMA EntryFacts ==
  ASSUME TypeOK, FileInv, NEW w \in Writers, wr[w].phase = "done",
         NEW n \in Elems(wr[w].objects)
  PROVE  LET e == Entry(w, NumOf(w, n))
         IN  /\ NumOf(w, n) \in Numbers(w)
             /\ e.node = n /\ e.num = NumOf(w, n)
             /\ \E i \in DOMAIN wr[w].out : e = wr[w].out[i]
<1> DEFINE k == NumOf(w, n)
           U == Under(w, k)
           l == Len(wr[w].out)
<1>1. ObjectsInv(w) /\ OutInv(w) /\ Late(w)
  BY DEF FileInv, Late
<1>2. k \in DOMAIN wr[w].objects /\ wr[w].objects[k] = n /\ k \in Nat \ {0}
  BY NumOfType
<1>3. k < wr[w].at /\ wr[w].at > 1
  <2>1. wr[w].at > Len(wr[w].objects) /\ wr[w].at \in Nat /\ wr[w].objects \in Seq(Nodes)
    BY <1>1, WriterFields DEF OutInv
  <2>2. k \in 1 .. Len(wr[w].objects) /\ Len(wr[w].objects) \in Nat
    BY <1>2, <2>1
  <2> QED
    BY <2>1, <2>2
<1>4. k \in Numbers(w)
  <2>1. CASE Skipped(w, n)
    BY <1>1, <1>3, <2>1 DEF OutInv, Skipped
  <2>2. CASE ~Skipped(w, n)
    BY <1>1, <1>2, <1>3, <2>2 DEF OutInv
  <2> QED
    BY <2>1, <2>2
<1>5. l \in Nat /\ DOMAIN wr[w].out = 1 .. l
  BY WriterFields DEF WriterState
<1>6. U # {} /\ U \in SUBSET (1 .. l)
  BY <1>4, <1>5 DEF Under, Numbers
<1> HIDE DEF U, l
<1>7. PICK i \in U : \A j \in U : j <= i
  BY <1>5, <1>6, GreatestOf
<1>8. PICK i0 \in U : Entry(w, k) = wr[w].out[i0]
  <2> DEFINE c == CHOOSE x \in U : \A j \in U : j <= x
  <2>1. c \in U
    BY <1>7
  <2>2. Entry(w, k) = wr[w].out[c]
    BY DEF Entry, U
  <2> QED
    BY <2>1, <2>2
<1>9. i0 \in DOMAIN wr[w].out /\ wr[w].out[i0].num = k
  BY <1>8 DEF U, Under
<1>10. wr[w].out[i0].node \in Elems(wr[w].objects) /\ k = NumOf(w, wr[w].out[i0].node)
  BY <1>1, <1>9 DEF OutInv
<1>11. wr[w].out[i0].node = n
  BY <1>2, <1>10, NumOfType
<1> QED
  BY <1>4, <1>8, <1>9, <1>11

LEMMA ReadBackFacts ==
  ASSUME TypeOK, FileInv, TextAll
  PROVE  ReadBack /\ OutputCiphered /\ OriginalsUntouched
<1>1. ASSUME NEW w \in Writers, Finished(w), NEW n \in Elems(wr[w].objects) \ {Info(w)}
      PROVE  Reads(w, n)
  <2> DEFINE e == Entry(w, NumOf(w, n))
  <2>1. e.node = n /\ \E i \in DOMAIN wr[w].out : e = wr[w].out[i]
    BY <1>1, EntryFacts DEF Finished
  <2> HIDE DEF e
  <2>2. PICK i \in DOMAIN wr[w].out : e = wr[w].out[i]
    BY <2>1
  <2>3. \A s \in StrsOf(n) : e.keys[s] = IF Encrypting(w) /\ n # Enc(w) THEN {e.num} ELSE {}
    BY <2>1, <2>2 DEF TextAll, TextInv, OutText
  <2>4. e.how = "member" => ~Encrypting(w)
    BY <2>2 DEF TextAll, TextInv, OutText
  <2>5. Expected(w, e) = IF Encrypting(w) /\ n # Enc(w) THEN {e.num} ELSE {}
    BY <1>1, <2>1, <2>4 DEF Expected, Encrypting
  <2> QED
    BY <2>3, <2>5 DEF Reads, e
<1>2. ReadBack
  BY <1>1 DEF ReadBack
<1>3. OutputCiphered
  <2> SUFFICES ASSUME NEW w \in Writers, Encrypting(w), NEW i \in DOMAIN wr[w].out,
                      wr[w].out[i].node # Enc(w), NEW s \in StrsOf(wr[w].out[i].node)
               PROVE  wr[w].out[i].keys[s] # {}
    BY DEF OutputCiphered
  <2>1. wr[w].out[i].keys[s] = {wr[w].out[i].num}
    BY DEF TextAll, TextInv, OutText
  <2> QED
    BY <2>1
<1> QED
  BY <1>2, <1>3 DEF TextAll

(* Two writers, or any number of them, may share the pages of a document,   *)
(* in any order of their calls and with ToPdfObject called in between: what *)
(* a reader decrypts a string of a finished file to is what the client put  *)
(* there, and the client's own strings are never encrypted.                 *)
THEOREM CopiesApartHolds ==
  ASSUME Unshared, StreamsPlain
  PROVE  Spec => []CopiesApart
<1>1. Init => TypeOK /\ FileInv /\ TextAll
  BY TypeInit, FileInit, TextInit
<1>2. (TypeOK /\ FileInv /\ TextAll) /\ [Next]_vars => (TypeOK /\ FileInv /\ TextAll)'
  BY TypeStep, FileStep, TextAllStep
<1>3. TypeOK /\ FileInv /\ TextAll => CopiesApart
  BY ReadBackFacts DEF CopiesApart
<1> QED
  BY <1>1, <1>2, <1>3, PTL DEF Spec

(* Encrypt encrypts: nothing that the client put into an encrypted file can *)
(* be read without the key, and all of it can be read with the key.         *)
THEOREM TextKeptHolds ==
  ASSUME Unshared, StreamsPlain
  PROVE  Spec => []TextKept
<1>1. Init => TypeOK /\ FileInv /\ TextAll
  BY TypeInit, FileInit, TextInit
<1>2. (TypeOK /\ FileInv /\ TextAll) /\ [Next]_vars => (TypeOK /\ FileInv /\ TextAll)'
  BY TypeStep, FileStep, TextAllStep
<1>3. TypeOK /\ FileInv /\ TextAll => TextKept
  BY ReadBackFacts DEF TextKept
<1> QED
  BY <1>1, <1>2, <1>3, PTL DEF Spec

-----------------------------------------------------------------------------
(* Nothing is written twice.                                                *)
LEMMA FrameOnce ==
  ASSUME NEW v \in Writers, OnceInv(v), doc' = doc, wr'[v].objects = wr[v].objects,
         wr'[v].opts = wr[v].opts, wr'[v].at = wr[v].at, wr'[v].out = wr[v].out
  PROVE  OnceInv(v)'
BY DEF OnceInv, Streams

LEMMA EarlyOnce ==
  ASSUME NEW v \in Writers, wr'[v].out = << >>
  PROVE  OnceInv(v)'
<1>1. DOMAIN wr'[v].out = {}
  OBVIOUS
<1> QED
  BY <1>1 DEF OnceInv

LEMMA OnceStep ==
  ASSUME TypeOK, TypeOK', FileInv, StreamsOld, NEW w \in Writers, OnceInv(w), WriteObject(w)
  PROVE  OnceInv(w)'
<1> DEFINE n == wr[w].objects[wr[w].at]
           l == Len(wr[w].out)
           out == wr'[w].out
           at == wr[w].at
<1>1. doc' = doc /\ ObjectsInv(w) /\ Streams(w)' = Streams(w)
  BY DEF WriteObject, FileInv, Streams
<1>2. /\ at \in DOMAIN wr[w].objects /\ n \in Elems(wr[w].objects) /\ n \in Nodes
      /\ wr[w].objects \in Seq(Nodes) /\ DOMAIN wr[w].objects \subseteq Nat
      /\ wr'[w].at = at + 1 /\ at \in Nat \ {0}
  <2>1. wr[w].objects \in Seq(Nodes)
    BY WriterFields
  <2>2. DOMAIN wr[w].objects \subseteq Nat
    BY <2>1
  <2>3. at \in DOMAIN wr[w].objects /\ n \in Nodes
    BY WriteObjectEffect
  <2>4. n \in Elems(wr[w].objects)
    BY <2>3 DEF Elems
  <2> QED
    BY <2>1, <2>2, <2>3, <2>4, WriteObjectSame
<1>3. CASE Skipped(w, n)
  <2>1. wr'[w] = [wr[w] EXCEPT !.at = @ + 1]
    BY <1>3, WriteObjectEffect
  <2>2. out = wr[w].out
    BY <2>1, WriterFields DEF WriterState
  <2> HIDE DEF out, at, n, l
  <2>3. \A k \in DOMAIN wr[w].objects : k < at => k < at + 1
    BY <1>2
  <2>4. at > 1 => at + 1 > 1
    BY <1>2
  <2> QED
    BY <1>1, <1>2, <2>2, <2>3, <2>4, WriteObjectSame DEF OnceInv, out, at
<1>4. CASE ~Skipped(w, n)
  <2>1. "objstm" \in wr[w].opts /\ n \notin Streams(w) => FALSE
    <3> SUFFICES ASSUME "objstm" \in wr[w].opts, n \notin Streams(w) PROVE FALSE
      OBVIOUS
    <3>1. wr[w].opts \in Combos
      BY <1>1 DEF ObjectsInv
    <3> QED
      BY <1>4, <3>1 DEF Skipped, Modern, StreamsOld
  <2>2. n = ObjStm(w) => at = 1 /\ "objstm" \in wr[w].opts
    <3> SUFFICES ASSUME n = ObjStm(w) PROVE at = 1 /\ "objstm" \in wr[w].opts
      OBVIOUS
    <3>1. "objstm" \in wr[w].opts
      <4>1. ObjStm(w) \notin DocNodes \cup {Info(w), Root(w), Tree(w), Enc(w)}
        BY OwnFacts
      <4> QED
        BY <1>1, <1>2, <4>1 DEF ObjectsInv
    <3>2. wr[w].objects[1] = ObjStm(w) /\ 1 \in DOMAIN wr[w].objects
      BY <1>1, <1>2, <3>1, WriteObjectSame DEF ObjectsInv
    <3> QED
      BY <1>1, <1>2, <3>1, <3>2 DEF ObjectsInv, Distinct
  <2>3. \A i \in DOMAIN wr[w].out : out[i].node # n /\ out[i] = wr[w].out[i]
    <3> TAKE i \in DOMAIN wr[w].out
    <3>1. out[i] = wr[w].out[i]
      BY <1>4, OutStep
    <3>2. ASSUME wr[w].out[i].node = n
          PROVE  FALSE
      <4>1. CASE \E k \in DOMAIN wr[w].objects : k < at /\ wr[w].objects[k] = n
        <5>1. PICK k \in DOMAIN wr[w].objects : k < at /\ wr[w].objects[k] = n
          BY <4>1
        <5>2. k = at
          BY <1>1, <1>2, <5>1 DEF ObjectsInv, Distinct
        <5> QED
          BY <1>2, <5>1, <5>2
      <4>2. CASE "objstm" \in wr[w].opts /\ n \notin Streams(w)
        BY <2>1, <4>2
      <4> QED
        BY <3>2, <4>1, <4>2 DEF OnceInv
    <3> QED
      BY <3>1, <3>2
  <2>4. l + 1 \in DOMAIN out /\ out[l + 1].node = n
    BY <1>4, OutStep, WrittenFields DEF AnObject
  <2>5. ASSUME n = ObjStm(w)
        PROVE  /\ DOMAIN wr[w].out = {}
               /\ \A k \in DOMAIN Members(w) :
                    out[l + 1 + k].node = Members(w)[k] /\ Members(w)[k] \notin Streams(w)
               /\ Distinct(Members(w)) /\ n \in Streams(w)
    <3>1. DOMAIN wr[w].out = {}
      <4>1. \A k \in DOMAIN wr[w].objects : ~(k < 1)
        BY <1>2, WriterFields
      <4>2. at = 1
        BY <2>2, <2>5
      <4> QED
        BY <4>1, <4>2 DEF OnceInv
    <3>2. \A k \in DOMAIN Members(w) : out[l + 1 + k].node = Members(w)[k]
      BY <1>4, <2>5, OutStep, WrittenFields DEF AMember
    <3>3. \A k \in DOMAIN Members(w) : Members(w)[k] \notin Streams(w)
      <4>1. \A k \in DOMAIN Members(w) : Members(w)[k] \in Elems(Members(w))
        BY DEF Elems
      <4> QED
        BY <4>1, MembersFacts
    <3>4. Distinct(Members(w))
      BY <1>1, MembersFacts DEF ObjectsInv
    <3> QED
      BY <2>5, <3>1, <3>2, <3>3, <3>4 DEF Streams
  <2>6. \A i \in DOMAIN out :
          \/ i \in DOMAIN wr[w].out
          \/ i = l + 1
          \/ n = ObjStm(w) /\ \E k \in DOMAIN Members(w) : i = l + 1 + k
    BY <1>4, OutStep
  <2> HIDE DEF n, l, out, at
  <2>7. \A i, j \in DOMAIN out : out[i].node = out[j].node => i = j
    <3> SUFFICES ASSUME NEW i \in DOMAIN out, NEW j \in DOMAIN out, out[i].node = out[j].node
                 PROVE  i = j
      OBVIOUS
    <3>1. CASE n # ObjStm(w)
      BY <2>3, <2>4, <2>6, <3>1 DEF OnceInv
    <3>2. CASE n = ObjStm(w)
      <4>1. \A x \in DOMAIN out : x = l + 1 \/ \E k \in DOMAIN Members(w) : x = l + 1 + k
        BY <2>5, <2>6, <3>2
      <4>2. CASE i = l + 1 \/ j = l + 1
        BY <2>4, <2>5, <3>2, <4>1, <4>2
      <4>3. CASE i # l + 1 /\ j # l + 1
        <5>1. PICK x \in DOMAIN Members(w) : i = l + 1 + x
          BY <4>1, <4>3
        <5>2. PICK y \in DOMAIN Members(w) : j = l + 1 + y
          BY <4>1, <4>3
        <5>3. x = y
          BY <2>5, <3>2, <5>1, <5>2 DEF Distinct
        <5> QED
          BY <5>1, <5>2, <5>3
      <4> QED
        BY <4>2, <4>3
    <3> QED
      BY <3>1, <3>2
  <2>8. ASSUME NEW i \in DOMAIN out
        PROVE  \/ \E k \in DOMAIN wr[w].objects : k < at + 1 /\ wr[w].objects[k] = out[i].node
               \/ "objstm" \in wr[w].opts /\ out[i].node \notin Streams(w)
    <3>1. CASE i \in DOMAIN wr[w].out
      <4>1. \A k \in DOMAIN wr[w].objects : k < at => k < at + 1
        BY <1>2
      <4> QED
        BY <2>3, <3>1, <4>1 DEF OnceInv, at
    <3>2. CASE i = l + 1
      <4>1. at < at + 1
        BY <1>2
      <4> QED
        BY <1>2, <2>4, <3>2, <4>1 DEF n, at
    <3> QED
      BY <2>2, <2>5, <2>6, <3>1, <3>2
  <2>9. at + 1 > 1
    BY <1>2
  <2> QED
    BY <1>1, <1>2, <2>7, <2>8, <2>9, WriteObjectSame DEF OnceInv, out
<1> QED
  BY <1>3, <1>4

OnceAll == \A w \in Writers : OnceInv(w)

LEMMA OnceInit == Init => OnceAll
<1> SUFFICES ASSUME Init, NEW w \in Writers
             PROVE  OnceInv(w)
  BY DEF OnceAll
<1>1. wr[w].out = << >>
  BY DEF Init, NewWriter
<1>2. DOMAIN wr[w].out = {}
  BY <1>1
<1> QED
  BY <1>2 DEF OnceInv

LEMMA OnceAllStep ==
  ASSUME TypeOK, TypeOK', FileInv, FileInv', OnceAll, StreamsOld, [Next]_vars
  PROVE  OnceAll'
<1> SUFFICES ASSUME NEW v \in Writers
             PROVE  OnceInv(v)'
  BY DEF OnceAll
<1>1. doc' = doc /\ OnceInv(v)
  BY DocKept DEF OnceAll
\* A file that is not begun has nothing twice.
<1>2. CASE ~Late(v)'
  BY <1>2, EarlyOnce DEF FileInv, OutInv
<1>3. CASE wr'[v] = wr[v]
  BY <1>1, <1>3, FrameOnce
<1>4. ASSUME NEW w \in Writers, Number(w)
      PROVE  OnceInv(v)'
  <2>1. (v # w => wr'[v] = wr[v]) /\ ~Late(w)
    BY <1>4, NumberEffect DEF Number, Late
  <2>2. CASE v = w
    BY <1>4, <2>1, <2>2, NumberFields, EarlyFacts, EarlyOnce
  <2> QED
    BY <1>3, <2>1, <2>2
<1>5. ASSUME NEW w \in Writers, WriteObject(w)
      PROVE  OnceInv(v)'
  <2>1. v # w => wr'[v] = wr[v]
    BY <1>5, WriteObjectEffect
  <2> QED
    BY <1>1, <1>3, <1>5, <2>1, OnceStep
<1>6. ASSUME NEW w \in Writers, WriteXref(w)
      PROVE  OnceInv(v)'
  <2>1. v # w => wr'[v] = wr[v]
    BY <1>6, WriteXrefEffect
  <2>2. CASE v = w
    BY <1>1, <1>6, <2>2, WriteXrefFields, FrameOnce
  <2> QED
    BY <1>3, <2>1, <2>2
<1>7. ASSUME NEW w \in Writers, NEW p \in Pages, AddPage(w, p)
      PROVE  OnceInv(v)'
  <2>1. v # w => wr'[v] = wr[v]
    BY <1>7, AddPageEffect
  <2>2. wr'[w].phase \notin {"writing", "done"}
    BY <1>7, AddPageFields DEF AddPage
  <2> QED
    BY <1>2, <1>3, <2>1, <2>2 DEF Late
<1>8. ASSUME NEW w \in Writers, NEW n \in Attachable, Attach(w, n)
      PROVE  OnceInv(v)'
  <2>1. v # w => wr'[v] = wr[v]
    BY <1>8, AttachEffect
  <2>2. wr'[w].phase \notin {"writing", "done"}
    BY <1>8, AttachFields DEF Attach, Ready
  <2> QED
    BY <1>2, <1>3, <2>1, <2>2 DEF Late
<1>9. ASSUME NEW w \in Writers, NEW oc \in OCs, SetOCProperties(w, oc)
      PROVE  OnceInv(v)'
  <2>1. v # w => wr'[v] = wr[v]
    BY <1>9, SetOCPropertiesEffect
  <2>2. wr'[w].phase \notin {"writing", "done"}
    BY <1>9, SetOCPropertiesFields DEF SetOCProperties
  <2> QED
    BY <1>2, <1>3, <2>1, <2>2 DEF Late
<1>10. ASSUME NEW w \in Writers, NEW o \in Options, Configure(w, o)
      PROVE  OnceInv(v)'
  <2>1. v # w => wr'[v] = wr[v]
    BY <1>10, ConfigureEffect
  <2>2. wr'[w].phase \notin {"writing", "done"}
    BY <1>10, ConfigureFields DEF Configure, Ready
  <2> QED
    BY <1>2, <1>3, <2>1, <2>2 DEF Late
<1>11. ASSUME NEW w \in Writers, Visit(w)
      PROVE  OnceInv(v)'
  <2>1. v # w => wr'[v] = wr[v]
    BY <1>11, VisitEffect
  <2>2. wr'[w].phase \notin {"writing", "done"}
    BY <1>11, VisitFields DEF Visit, Working
  <2> QED
    BY <1>2, <1>3, <2>1, <2>2 DEF Late
<1>12. ASSUME NEW w \in Writers, VisitRef(w)
      PROVE  OnceInv(v)'
  <2>1. v # w => wr'[v] = wr[v]
    BY <1>12, VisitRefEffect
  <2>2. wr'[w].phase \notin {"writing", "done"}
    BY <1>12, VisitRefFields DEF VisitRef
  <2> QED
    BY <1>2, <1>3, <2>1, <2>2 DEF Late
<1>13. ASSUME NEW w \in Writers, AddDone(w)
      PROVE  OnceInv(v)'
  <2>1. v # w => wr'[v] = wr[v]
    BY <1>13, AddDoneEffect
  <2>2. wr'[w].phase \notin {"writing", "done"}
    BY <1>13, AddDoneFields DEF AddDone
  <2> QED
    BY <1>2, <1>3, <2>1, <2>2 DEF Late
<1>14. ASSUME NEW w \in Writers, Write(w)
      PROVE  OnceInv(v)'
  <2>1. v # w => wr'[v] = wr[v]
    BY <1>14, WriteEffect
  <2>2. wr'[w].phase \notin {"writing", "done"}
    BY <1>14, WriteFields DEF Write
  <2> QED
    BY <1>2, <1>3, <2>1, <2>2 DEF Late
<1>15. ASSUME NEW p \in Refreshed, Refresh(p)
      PROVE  OnceInv(v)'
  BY <1>3, <1>15 DEF Refresh
<1>16. CASE UNCHANGED vars
  BY <1>3, <1>16 DEF vars
<1> QED
  BY <1>4, <1>5, <1>6, <1>7, <1>8, <1>9, <1>10, <1>11, <1>12, <1>13, <1>14, <1>15, <1>16
  DEF Next, Work, Client

-----------------------------------------------------------------------------
(* What a writer collects.                                                  *)
LEMMA LeadsSame ==
  ASSUME NEW w, doc' = doc, wr'[w].pages = wr[w].pages,
         wr'[w].optional = wr[w].optional, wr'[w].extra = wr[w].extra
  PROVE  \A n : Leads(w, n)' = Leads(w, n)
BY DEF Leads

LEMMA DocKidsValue ==
  ASSUME TypeOK, NEW r, NEW n \in DocNodes
  PROVE  /\ doc.kids[n] \in Seq(DocNodes)
         /\ n \notin r \/ doc.kids[n] = << >> => DocKids(r, n) = doc.kids[n]
         /\ n \in r /\ doc.kids[n] # << >> =>
              DocKids(r, n) # << >> /\ Head(DocKids(r, n)) = BadRef
<1>1. doc.kids[n] \in Seq(DocNodes)
  BY DEF TypeOK, Doc
<1>2. n \notin r => DocKids(r, n) = doc.kids[n]
  BY DEF DocKids
<1> DEFINE s == doc.kids[n]
           t == [i \in DOMAIN s |-> BadRef]
<1>3. s = << >> => t = s
  OBVIOUS
<1>4. s # << >> => t # << >> /\ Head(t) = BadRef
  <2>1. t \in Seq({BadRef}) /\ Len(t) = Len(s)
    BY <1>1
  <2>2. s # << >> => Len(s) \in Nat \ {0}
    BY <1>1
  <2> HIDE DEF t, s
  <2> QED
    BY <2>1, <2>2, TailType
<1>5. n \in r => DocKids(r, n) = t
  BY DEF DocKids
<1> QED
  BY <1>1, <1>2, <1>3, <1>4, <1>5

\* Nothing is taken back, and nothing is justified by less.
LEMMA MoreClosed ==
  ASSUME NEW w, NEW C, ClosedIn(w, C)', Elems(wr[w].objects) \subseteq Elems(wr'[w].objects),
         \A n \in Elems(wr[w].objects) : Leads(w, n) \subseteq Leads(w, n)'
  PROVE  ClosedIn(w, C)
BY DEF ClosedIn

LEMMA FrameGood ==
  ASSUME NEW v \in Writers, Good(v), doc' = doc, Resolved(v)',
         wr'[v].objects = wr[v].objects, wr'[v].pages = wr[v].pages,
         wr'[v].optional = wr[v].optional, wr'[v].extra = wr[v].extra,
         wr'[v].todo = wr[v].todo,
         Collecting(v)' <=> Collecting(v),
         wr'[v].phase \in {"open", "writing", "done"} => wr[v].todo = << >>
  PROVE  Good(v)'
<1>1. \A n : Leads(v, n)' = Leads(v, n) /\ Followed(v, n)' = Followed(v, n)
  BY LeadsSame DEF Followed
<1>2. Plain(v)'
  BY DEF Good, Plain
<1>3. Gathered(v)'
  BY <1>1 DEF Good, Gathered
<1>4. Justified(v)'
  <2>1. \A C \in SUBSET Nodes : ClosedIn(v, C)' => ClosedIn(v, C)
    BY <1>1 DEF ClosedIn
  <2> QED
    BY <2>1 DEF Good, Justified
<1> QED
  BY <1>2, <1>3, <1>4 DEF Good

LEMMA FrameResolved ==
  ASSUME NEW v, Resolved(v), doc' = doc, raw' = raw, wr'[v].seen = wr[v].seen,
         wr'[v].objects = wr[v].objects
  PROVE  Resolved(v)'
BY DEF Resolved, Has

\* A writer that is doomed stays so: the next thing it does is to fail.
LEMMA DoomedStep ==
  ASSUME TypeOK, [Next]_vars, NEW v \in Writers, Doomed(v)
  PROVE  Doomed(v)'
<1>1. CASE wr'[v] = wr[v]
  BY <1>1 DEF Doomed
<1> DEFINE Stuck == wr[v].phase = "adding" /\ wr[v].todo # << >> /\ Head(wr[v].todo) = BadRef
<1>2. wr[v].erred \/ Stuck
  BY DEF Doomed
<1>3. ASSUME NEW w \in Writers, NEW p \in Pages, AddPage(w, p)
      PROVE  Doomed(v)'
  <2>1. v # w => wr'[v] = wr[v]
    BY <1>3, AddPageEffect
  <2>2. v = w => wr[v].erred
    BY <1>2, <1>3 DEF AddPage, Ready
  <2> QED
    BY <1>1, <1>3, <2>1, <2>2, AddPageFields DEF Doomed
<1>4. ASSUME NEW w \in Writers, NEW n \in Attachable, Attach(w, n)
      PROVE  Doomed(v)'
  <2>1. v # w => wr'[v] = wr[v]
    BY <1>4, AttachEffect
  <2> QED
    BY <1>1, <1>4, <2>1, AttachFields DEF Doomed
<1>5. ASSUME NEW w \in Writers, NEW oc \in OCs, SetOCProperties(w, oc)
      PROVE  Doomed(v)'
  <2>1. v # w => wr'[v] = wr[v]
    BY <1>5, SetOCPropertiesEffect
  <2>2. v = w => wr[v].erred
    BY <1>2, <1>5 DEF SetOCProperties, Ready
  <2> QED
    BY <1>1, <1>5, <2>1, <2>2, SetOCPropertiesFields DEF Doomed
<1>6. ASSUME NEW w \in Writers, NEW o \in Options, Configure(w, o)
      PROVE  Doomed(v)'
  <2>1. v # w => wr'[v] = wr[v]
    BY <1>6, ConfigureEffect
  <2> QED
    BY <1>1, <1>6, <2>1, ConfigureFields DEF Doomed
<1>7. ASSUME NEW w \in Writers, Write(w)
      PROVE  Doomed(v)'
  <2>1. v # w => wr'[v] = wr[v]
    BY <1>7, WriteEffect
  <2>2. v = w => wr[v].erred
    BY <1>2, <1>7 DEF Write, Ready
  <2> QED
    BY <1>1, <1>7, <2>1, <2>2, WriteFields DEF Doomed
<1>8. ASSUME NEW w \in Writers, Visit(w)
      PROVE  Doomed(v)'
  <2>1. v # w => wr'[v] = wr[v]
    BY <1>8, VisitEffect
  <2>2. v = w => wr[v].erred
    BY <1>2, <1>8 DEF Visit
  <2> QED
    BY <1>1, <1>8, <2>1, <2>2, VisitFields DEF Doomed
<1>9. ASSUME NEW w \in Writers, VisitRef(w)
      PROVE  Doomed(v)'
  <2>1. v # w => wr'[v] = wr[v]
    BY <1>9, VisitRefEffect
  <2>2. v = w => wr'[v].erred
    <3>1. wr'[w].erred = (wr[w].erred \/ wr[w].phase # "optional")
      BY <1>9, VisitRefFields
    <3> QED
      BY <1>2, <3>1
  <2> QED
    BY <1>1, <2>1, <2>2 DEF Doomed
<1>10. ASSUME NEW w \in Writers, AddDone(w)
       PROVE  Doomed(v)'
  <2>1. v # w => wr'[v] = wr[v]
    BY <1>10, AddDoneEffect
  <2>2. v = w => wr[v].erred
    BY <1>2, <1>10 DEF AddDone
  <2> QED
    BY <1>1, <1>10, <2>1, <2>2, AddDoneFields DEF Doomed
<1>11. ASSUME NEW w \in Writers, Number(w)
       PROVE  Doomed(v)'
  <2>1. v # w => wr'[v] = wr[v]
    BY <1>11, NumberEffect
  <2>2. v = w => wr[v].erred
    BY <1>2, <1>11 DEF Number
  <2> QED
    BY <1>1, <1>11, <2>1, <2>2, NumberFields DEF Doomed
<1>12. ASSUME NEW w \in Writers, WriteObject(w)
       PROVE  Doomed(v)'
  <2>1. v # w => wr'[v] = wr[v]
    BY <1>12, WriteObjectEffect
  <2>2. v = w => wr[v].erred
    BY <1>2, <1>12 DEF WriteObject
  <2> QED
    BY <1>1, <1>12, <2>1, <2>2, WriteObjectSame DEF Doomed
<1>13. ASSUME NEW w \in Writers, WriteXref(w)
       PROVE  Doomed(v)'
  <2>1. v # w => wr'[v] = wr[v]
    BY <1>13, WriteXrefEffect
  <2>2. v = w => wr[v].erred
    BY <1>2, <1>13 DEF WriteXref
  <2> QED
    BY <1>1, <1>13, <2>1, <2>2, WriteXrefFields DEF Doomed
<1>14. ASSUME NEW p \in Refreshed, Refresh(p)
       PROVE  Doomed(v)'
  BY <1>1, <1>14 DEF Refresh
<1>15. CASE UNCHANGED vars
  BY <1>1, <1>15 DEF vars
<1> QED
  BY <1>3, <1>4, <1>5, <1>6, <1>7, <1>8, <1>9, <1>10, <1>11, <1>12, <1>13, <1>14, <1>15
  DEF Next, Work, Client
LEMMA TailElems ==
  ASSUME NEW D, NEW s \in Seq(D), s # << >>
  PROVE  Elems(s) = {Head(s)} \cup Elems(Tail(s))
<1> DEFINE t == Tail(s)
           h == Head(s)
<1>1. /\ Len(s) \in Nat \ {0} /\ DOMAIN s = 1 .. Len(s) /\ h = s[1]
      /\ DOMAIN t = 1 .. Len(s) - 1 /\ \A i \in 1 .. Len(s) - 1 : t[i] = s[i + 1]
  OBVIOUS
<1> HIDE DEF t, h
<1>2. ASSUME NEW i \in DOMAIN s
      PROVE  s[i] = h \/ \E j \in DOMAIN t : t[j] = s[i]
  <2>1. CASE i = 1
    BY <1>1, <2>1
  <2>2. CASE i # 1
    <3>1. i - 1 \in 1 .. Len(s) - 1 /\ (i - 1) + 1 = i
      BY <1>1, <2>2
    <3> QED
      BY <1>1, <3>1
  <2> QED
    BY <2>1, <2>2
<1>3. \A j \in DOMAIN t : j + 1 \in DOMAIN s /\ s[j + 1] = t[j]
  BY <1>1
<1>4. 1 \in DOMAIN s /\ s[1] = h
  BY <1>1
<1>5. Elems(s) \subseteq {h} \cup Elems(t)
  BY <1>2 DEF Elems
<1>6. {h} \cup Elems(t) \subseteq Elems(s)
  BY <1>3, <1>4 DEF Elems
<1> QED
  BY <1>5, <1>6 DEF t, h

\* A page is added: it is visited, and the page tree leads to it.
LEMMA AddPageGood ==
  ASSUME TypeOK, TypeOK', FileInv, NEW w \in Writers, NEW p \in Pages, AddPage(w, p), Good(w)
  PROVE  Doomed(w)' \/ Good(w)'
<1> DEFINE fill == IF p \in doc.lazy THEN raw \cup {p} ELSE raw
           new == IF Has(w, p) THEN {} ELSE Deep(up', w, p)
           objs == wr[w].objects
<1>1. /\ wr'[w].pages = Append(wr[w].pages, p) /\ wr'[w].objects = AddObject(objs, p)
      /\ wr'[w].seen = wr[w].seen \cup new /\ wr'[w].todo = DocKids(fill \ new, p)
      /\ wr'[w].phase = "adding" /\ raw' = fill \ new /\ doc' = doc
      /\ wr'[w].optional = wr[w].optional /\ wr'[w].extra = wr[w].extra
  BY AddPageFields DEF AddPage
<1>2. /\ p \in DocNodes /\ p \in Nodes /\ wr[w].phase = "open" /\ wr[w].todo = << >>
      /\ wr[w].objects \in Seq(Nodes) /\ wr[w].pages \in Seq(Pages)
  BY WriterFields, Assumptions DEF AddPage, Ready, Good, Plain, Nodes
<1>3. CASE p \in raw' /\ doc.kids[p] # << >>
  <2>1. wr'[w].todo # << >> /\ Head(wr'[w].todo) = BadRef
    BY <1>1, <1>2, <1>3, DocKidsValue
  <2> QED
    BY <1>1, <2>1 DEF Doomed
<1>4. CASE ~(p \in raw' /\ doc.kids[p] # << >>)
  <2>1. wr'[w].todo = doc.kids[p] /\ doc.kids[p] \in Seq(DocNodes)
    BY <1>1, <1>2, <1>4, DocKidsValue
  <2>2. Elems(wr'[w].objects) = Elems(objs) \cup {p} /\ Elems(wr'[w].pages) = Elems(wr[w].pages) \cup {p}
    BY <1>1, <1>2, AddObjectFacts, AppendFacts
  <2>3. Plain(w)'
    BY <1>1, <2>1 DEF Good, Plain
  <2>4. Resolved(w)'
    <3> SUFFICES ASSUME NEW q \in raw'
                 PROVE  /\ q \in wr'[w].seen => q \in Elems(objs) \cup {p}
                        /\ q \in Elems(objs) \cup {p} => doc.kids[q] = << >>
      BY <1>1, <2>2 DEF Resolved, Has
    <3>1. CASE q = p
      BY <1>4, <3>1
    <3>2. CASE q # p
      <4>1. q \in raw /\ q \notin new
        BY <1>1, <3>2
      <4> QED
        BY <1>1, <3>2, <4>1 DEF Good, Resolved, Has
    <3> QED
      BY <3>1, <3>2
  <2>5. \A n : /\ Leads(w, n) \subseteq Leads(w, n)'
               /\ n # Tree(w) => Leads(w, n)' = Leads(w, n)
               /\ n = Tree(w) => Leads(w, n)' = Elems(wr[w].pages) \cup {p}
    <3>1. Tree(w) \notin DocNodes
      BY OwnFacts
    <3> QED
      BY <1>1, <2>2, <3>1 DEF Leads
  <2>6. Elems(wr[w].todo) = {} /\ Elems(wr'[w].todo) = Elems(doc.kids[p]) /\ Leads(w, p)' = Elems(doc.kids[p])
    BY <1>1, <1>2, <2>1 DEF Elems, Leads
  <2>7. Gathered(w)'
    <3> SUFFICES ASSUME NEW n \in Elems(objs) \cup {p}
                 PROVE  Followed(w, n)' \subseteq Elems(objs) \cup {p} \cup Elems(doc.kids[p])
      BY <2>2, <2>6 DEF Gathered
    <3>1. n # p => n \in Elems(objs) /\ Followed(w, n) \subseteq Elems(objs)
      BY <2>6 DEF Good, Gathered
    <3>2. ~Collecting(w) /\ ~Collecting(w)' /\ Root(w) # Tree(w) /\ Root(w) # p /\ p # Tree(w)
      BY <1>1, <1>2, OwnFacts DEF Collecting
    <3>3. CASE n = Tree(w)
      <4>1. Leads(w, n) = Elems(wr[w].pages)
        BY <3>3, OwnFacts DEF Leads
      <4>2. Followed(w, n) = Leads(w, n) /\ Followed(w, n)' = Leads(w, n)'
        BY <3>2, <3>3 DEF Followed
      <4> QED
        BY <2>5, <3>1, <3>2, <3>3, <4>1, <4>2
    <3>4. CASE n = Root(w)
      BY <1>1, <3>1, <3>2, <3>4 DEF Followed
    <3>5. CASE n \notin {Tree(w), Root(w)}
      BY <2>5, <2>6, <3>1, <3>5 DEF Followed
    <3> QED
      BY <3>3, <3>4, <3>5
  <2>8. Justified(w)'
    <3> SUFFICES ASSUME NEW C \in SUBSET Nodes, ClosedIn(w, C)'
                 PROVE  /\ (Elems(objs) \cup {p}) \ {Enc(w), ObjStm(w)} \subseteq C
                        /\ Elems(doc.kids[p]) \subseteq C
      BY <2>2, <2>6 DEF Justified
    <3>1. ClosedIn(w, C)
      BY <2>2, <2>5, MoreClosed
    <3>2. Elems(objs) \ {Enc(w), ObjStm(w)} \subseteq C
      BY <3>1 DEF Good, Justified
    <3>3. Tree(w) \in Elems(objs) /\ Tree(w) \notin {Enc(w), ObjStm(w)}
      BY OwnFacts DEF FileInv, ObjectsInv
    <3>4. p \in C
      BY <2>2, <2>5, <3>2, <3>3 DEF ClosedIn
    <3>5. Elems(doc.kids[p]) \subseteq C
      BY <2>2, <2>6, <3>4 DEF ClosedIn
    <3> QED
      BY <3>2, <3>4, <3>5
  <2> QED
    BY <2>3, <2>4, <2>7, <2>8 DEF Good
<1> QED
  BY <1>3, <1>4

\* What a new object refers to is put in front of what is still to be visited.
LEMMA VisitGood ==
  ASSUME TypeOK, TypeOK', FileInv, NEW w \in Writers, Visit(w), Good(w)
  PROVE  Good(w)'
<1> DEFINE n == Head(wr[w].todo)
           new == Deep(up, w, n)
           objs == wr[w].objects
           tail == Tail(wr[w].todo)
<1>1. /\ n \in DocNodes /\ n \in Nodes /\ tail \in Seq(DocNodes) /\ wr[w].todo \in Seq(DocNodes)
      /\ wr[w].todo # << >>
  BY VisitFields, TailType DEF Visit, Good, Plain, Nodes
<1>2. Elems(wr[w].todo) = {n} \cup Elems(tail)
  BY <1>1, TailElems
<1>3. /\ doc' = doc /\ wr'[w].pages = wr[w].pages /\ wr'[w].optional = wr[w].optional
      /\ wr'[w].extra = wr[w].extra /\ wr'[w].phase = wr[w].phase
      /\ wr[w].phase \in {"adding", "optional", "collecting"}
  BY VisitFields DEF Visit, Working
<1>4. \A m : Leads(w, m)' = Leads(w, m) /\ Followed(w, m)' = Followed(w, m)
  BY <1>3, LeadsSame DEF Followed, Collecting
<1>5. CASE Has(w, n)
  <2>1. /\ wr'[w].todo = tail /\ wr'[w].objects = objs /\ raw' = raw /\ wr'[w].seen = wr[w].seen
    BY <1>5, VisitFields
  <2>2. Plain(w)'
    BY <1>1, <1>3, <2>1 DEF Good, Plain
  <2>3. Resolved(w)'
    BY <1>3, <2>1, FrameResolved DEF Good
  <2>4. Gathered(w)'
    BY <1>2, <1>4, <1>5, <2>1 DEF Good, Gathered, Has
  <2>5. Justified(w)'
    BY <1>2, <1>4, <2>1 DEF Good, Justified, ClosedIn
  <2> QED
    BY <2>2, <2>3, <2>4, <2>5 DEF Good
<1>6. CASE ~Has(w, n)
  <2>1. /\ raw' = raw \ new /\ wr'[w].todo = DocKids(raw \ new, n) \o tail
        /\ wr'[w].objects = Append(objs, n) /\ wr'[w].seen = wr[w].seen \cup new
    BY <1>6, VisitFields
  <2>2. n \notin raw \ new
    <3>1. n \in raw => n \notin wr[w].seen
      BY <1>6 DEF Good, Resolved
    <3>2. n \notin wr[w].seen => n \in new
      BY <1>1, DeepFacts
    <3> QED
      BY <3>1, <3>2
  <2>3. wr'[w].todo = doc.kids[n] \o tail /\ doc.kids[n] \in Seq(DocNodes)
    BY <1>1, <2>1, <2>2, DocKidsValue
  <2>4. wr'[w].todo \in Seq(DocNodes) /\ Elems(wr'[w].todo) = Elems(doc.kids[n]) \cup Elems(tail)
    <3> DEFINE k == doc.kids[n]
    <3>1. k \in Seq(DocNodes) /\ tail \in Seq(DocNodes) /\ wr'[w].todo = k \o tail
      BY <1>1, <2>3
    <3> HIDE DEF k, tail
    <3>2. k \o tail \in Seq(DocNodes) /\ Elems(k \o tail) = Elems(k) \cup Elems(tail)
      BY <3>1, ConcatFacts
    <3> QED
      BY <3>1, <3>2 DEF k
  <2>5. Elems(wr'[w].objects) = Elems(objs) \cup {n}
    BY <1>1, <2>1, WriterFields, AppendFacts
  <2>6. Plain(w)'
    BY <1>3, <2>4 DEF Good, Plain
  <2>7. Resolved(w)'
    <3> SUFFICES ASSUME NEW q \in raw'
                 PROVE  /\ q \in wr'[w].seen => q \in Elems(objs) \cup {n}
                        /\ q \in Elems(objs) \cup {n} => doc.kids[q] = << >>
      BY <1>3, <2>5 DEF Resolved, Has
    <3>1. q # n /\ q \in raw /\ q \notin new
      BY <2>1, <2>2
    <3> QED
      BY <2>1, <3>1 DEF Good, Resolved, Has
  <2>8. Leads(w, n) = Elems(doc.kids[n]) /\ Followed(w, n) = Elems(doc.kids[n])
    <3>1. n # Root(w)
      BY <1>1, OwnFacts
    <3> QED
      BY <1>1, <3>1 DEF Leads, Followed
  <2>9. Gathered(w)'
    <3> SUFFICES ASSUME NEW m \in Elems(objs) \cup {n}
                 PROVE  Followed(w, m) \subseteq Elems(objs) \cup {n} \cup Elems(doc.kids[n]) \cup Elems(tail)
      BY <1>4, <2>4, <2>5 DEF Gathered
    <3> QED
      BY <1>2, <2>8 DEF Good, Gathered
  <2>10. Justified(w)'
    <3> SUFFICES ASSUME NEW C \in SUBSET Nodes, ClosedIn(w, C)'
                 PROVE  /\ (Elems(objs) \cup {n}) \ {Enc(w), ObjStm(w)} \subseteq C
                        /\ Elems(doc.kids[n]) \cup Elems(tail) \subseteq C
      BY <2>4, <2>5 DEF Justified
    <3>1. ClosedIn(w, C)
      BY <1>4, <2>5, MoreClosed
    <3>2. Elems(objs) \ {Enc(w), ObjStm(w)} \subseteq C /\ n \in C /\ Elems(tail) \subseteq C
      BY <1>2, <3>1 DEF Good, Justified
    <3>3. Elems(doc.kids[n]) \subseteq C
      BY <1>4, <2>5, <2>8, <3>2 DEF ClosedIn
    <3> QED
      BY <3>2, <3>3
  <2> QED
    BY <2>6, <2>7, <2>9, <2>10 DEF Good
<1> QED
  BY <1>5, <1>6

\* The catalog leads to what the client sets; Write has the rest visited.
LEMMA CatalogGood ==
  ASSUME TypeOK, TypeOK', FileInv, NEW w \in Writers, Good(w), doc' = doc, raw' = raw,
         wr'[w].objects = wr[w].objects, wr'[w].pages = wr[w].pages, wr'[w].seen = wr[w].seen,
         wr[w].todo = << >>, wr'[w].todo \in Seq(DocNodes), wr'[w].optional \in Seq(DocNodes),
         wr'[w].phase \in {"open", "writing", "done"} => wr'[w].todo = << >>,
         Elems(wr[w].optional) \subseteq Elems(wr'[w].optional),
         Elems(wr[w].extra) \subseteq Elems(wr'[w].extra),
         Elems(wr'[w].optional) \subseteq Elems(wr[w].optional) \cup Elems(wr'[w].todo),
         Collecting(w)' => Elems(wr'[w].extra) \subseteq Elems(wr'[w].todo),
         Elems(wr'[w].todo) \subseteq Elems(wr'[w].optional) \cup Elems(wr'[w].extra)
  PROVE  Good(w)'
<1>1. Tree(w) \notin DocNodes /\ Root(w) \notin DocNodes /\ Root(w) # Tree(w)
  BY OwnFacts
<1>2. /\ \A n : n # Root(w) => Leads(w, n)' = Leads(w, n)
      /\ Leads(w, Root(w))  = {Tree(w)} \cup Elems(wr[w].optional) \cup Elems(wr[w].extra)
      /\ Leads(w, Root(w))' = {Tree(w)} \cup Elems(wr'[w].optional) \cup Elems(wr'[w].extra)
  BY <1>1 DEF Leads
<1>3. Plain(w)'
  BY DEF Plain
<1>4. Resolved(w)'
  BY FrameResolved DEF Good
<1>5. Elems(wr[w].todo) = {}
  BY DEF Elems
<1>6. Gathered(w)'
  <2> SUFFICES ASSUME NEW n \in Elems(wr[w].objects)
               PROVE  Followed(w, n)' \subseteq Elems(wr[w].objects) \cup Elems(wr'[w].todo)
    BY DEF Gathered
  <2>1. Followed(w, n) \subseteq Elems(wr[w].objects)
    BY <1>5 DEF Good, Gathered
  <2>2. CASE n # Root(w)
    <3>1. Followed(w, n)' = Followed(w, n)
      BY <1>2, <2>2 DEF Followed
    <3> QED
      BY <2>1, <3>1
  <2>3. CASE n = Root(w)
    <3>1. {Tree(w)} \cup Elems(wr[w].optional) \subseteq Followed(w, n)
      BY <1>2, <2>3 DEF Followed
    <3>2. CASE Collecting(w)'
      <4>1. Followed(w, n)' = {Tree(w)} \cup Elems(wr'[w].optional) \cup Elems(wr'[w].extra)
        BY <1>2, <2>3, <3>2 DEF Followed
      <4> QED
        BY <2>1, <3>1, <3>2, <4>1
    <3>3. CASE ~Collecting(w)'
      <4>1. Followed(w, n)' = {Tree(w)} \cup Elems(wr'[w].optional)
        BY <2>3, <3>3 DEF Followed
      <4> QED
        BY <2>1, <3>1, <4>1
    <3> QED
      BY <3>2, <3>3
  <2> QED
    BY <2>2, <2>3
<1>7. Justified(w)'
  <2> SUFFICES ASSUME NEW C \in SUBSET Nodes, ClosedIn(w, C)'
               PROVE  /\ Elems(wr[w].objects) \ {Enc(w), ObjStm(w)} \subseteq C
                      /\ Elems(wr'[w].todo) \subseteq C
    BY DEF Justified
  <2>1. \A n : Leads(w, n) \subseteq Leads(w, n)'
    BY <1>2
  <2>2. ClosedIn(w, C)
    BY <2>1, MoreClosed
  <2>3. Elems(wr[w].objects) \ {Enc(w), ObjStm(w)} \subseteq C
    BY <2>2 DEF Good, Justified
  <2>4. Root(w) \in C
    BY DEF ClosedIn
  <2>5. Root(w) \in Elems(wr[w].objects)
    BY DEF FileInv, ObjectsInv
  <2>6. Leads(w, Root(w))' \subseteq C
    BY <2>4, <2>5 DEF ClosedIn
  <2> QED
    BY <1>2, <2>3, <2>6
<1> QED
  BY <1>3, <1>4, <1>6, <1>7 DEF Good

\* An object that leads nowhere is added: for the encryption, or the streams.
LEMMA LeafGood ==
  ASSUME TypeOK, TypeOK', NEW w \in Writers, Good(w), doc' = doc, raw' = raw,
         NEW n \in {Enc(w), ObjStm(w)},
         Elems(wr'[w].objects) \in {Elems(wr[w].objects), Elems(wr[w].objects) \cup {n}},
         wr'[w].pages = wr[w].pages, wr'[w].optional = wr[w].optional,
         wr'[w].extra = wr[w].extra, wr'[w].seen = wr[w].seen, wr'[w].todo = wr[w].todo,
         Collecting(w)' <=> Collecting(w),
         wr'[w].phase \in {"open", "writing", "done"} => wr[w].todo = << >>
  PROVE  Good(w)'
<1>1. \A m : Leads(w, m)' = Leads(w, m) /\ Followed(w, m)' = Followed(w, m)
  BY LeadsSame DEF Followed
<1>2. n \notin DocNodes /\ n # Root(w) /\ n # Tree(w)
  BY OwnFacts
<1>3. Leads(w, n) = {} /\ Followed(w, n) = {}
  BY <1>2 DEF Leads, Followed
<1>4. Plain(w)'
  BY DEF Good, Plain
<1>5. Resolved(w)'
  <2>1. \A q \in raw : q # n
    BY <1>2, Assumptions DEF TypeOK
  <2> QED
    BY <2>1 DEF Good, Resolved, Has
<1>6. Gathered(w)'
  BY <1>1, <1>3 DEF Good, Gathered
<1>7. Justified(w)'
  <2> SUFFICES ASSUME NEW C \in SUBSET Nodes, ClosedIn(w, C)'
               PROVE  /\ Elems(wr[w].objects) \ {Enc(w), ObjStm(w)} \subseteq C
                      /\ Elems(wr[w].todo) \subseteq C
    BY DEF Justified
  <2>1. ClosedIn(w, C)
    BY <1>1, MoreClosed
  <2> QED
    BY <2>1 DEF Good, Justified
<1> QED
  BY <1>4, <1>5, <1>6, <1>7 DEF Good

LEMMA CollectInit == Init => CollectInv
<1> SUFFICES ASSUME Init PROVE CollectInv
  OBVIOUS
<1>1. doc \in Docs /\ doc \in Doc /\ raw = doc.lazy
  BY Assumptions DEF Init
<1>2. ASSUME NEW w \in Writers
      PROVE  Good(w)
  <2> DEFINE o == <<Info(w), Root(w), Tree(w)>>
  <2>1. /\ wr[w].objects = o /\ wr[w].pages = << >> /\ wr[w].optional = << >>
        /\ wr[w].extra = << >> /\ wr[w].seen = {Info(w), Root(w), Tree(w)}
        /\ wr[w].todo = << >> /\ wr[w].phase = "open"
    BY DEF Init, NewWriter
  <2>2. /\ Tree(w) \notin DocNodes /\ Root(w) \notin DocNodes /\ Info(w) \notin DocNodes
        /\ Root(w) # Tree(w) /\ Info(w) # Tree(w) /\ Info(w) # Root(w)
    BY OwnFacts
  <2>3. Elems(o) = {Info(w), Root(w), Tree(w)}
    <3>1. DOMAIN o = {1, 2, 3}
      OBVIOUS
    <3>2. o[1] = Info(w) /\ o[2] = Root(w) /\ o[3] = Tree(w)
      OBVIOUS
    <3> HIDE DEF o
    <3> QED
      BY <3>1, <3>2 DEF Elems
  <2> HIDE DEF o
  <2>4. Elems(<< >>) = {}
    BY DEF Elems
  <2>5. \A n \in Elems(o) : Leads(w, n) = IF n = Root(w) THEN {Tree(w)} ELSE {}
    BY <2>1, <2>2, <2>3, <2>4 DEF Leads
  <2>6. Plain(w)
    BY <2>1 DEF Plain
  <2>7. Resolved(w)
    <3>1. \A p \in raw : p \notin {Info(w), Root(w), Tree(w)}
      BY <1>1, <2>2, Assumptions DEF Doc
    <3> QED
      BY <2>1, <2>3, <3>1 DEF Resolved, Has
  <2>8. Gathered(w)
    BY <2>1, <2>3, <2>4, <2>5 DEF Gathered, Followed
  <2>9. Justified(w)
    BY <2>1, <2>3, <2>4, <2>5 DEF Justified, ClosedIn
  <2> QED
    BY <2>6, <2>7, <2>8, <2>9 DEF Good
<1> QED
  BY <1>1, <1>2 DEF CollectInv

LEMMA CollectStep ==
  ASSUME TypeOK, TypeOK', FileInv, CollectInv, Alone \/ Eager, OCsResolved, [Next]_vars
  PROVE  CollectInv'
<1>1. doc' = doc /\ doc \in Docs
  BY DocKept DEF CollectInv
<1>2. doc'.lazy = {} => raw' = {}
  <2> SUFFICES ASSUME doc.lazy = {}
               PROVE  raw' = {}
    BY <1>1
  <2>1. raw = {}
    BY DEF CollectInv
  <2>2. ASSUME NEW w \in Writers, Visit(w)
        PROVE  raw' = {}
    BY <2>1, <2>2, VisitFields
  <2> QED
    BY <2>1, <2>2 DEF Next, vars, Work, Client, AddPage, Attach, SetOCProperties, Configure, Write,
       Refresh, VisitRef, AddDone, Number, WriteObject, WriteXref
\* Whoever has a step of another writer's read all of the document.
<1>3. ASSUME NEW v \in Writers, Good(v), wr'[v] = wr[v],
             raw' = raw \/ doc.lazy = {}
      PROVE  Good(v)'
  <2>1. raw' = raw
    BY <1>1, <1>2, <1>3 DEF CollectInv
  <2>2. Resolved(v)'
    BY <1>1, <1>3, <2>1, FrameResolved DEF Good
  <2>3. Collecting(v)' <=> Collecting(v)
    BY <1>3 DEF Collecting
  <2> QED
    BY <1>1, <1>3, <2>2, <2>3, FrameGood DEF Good, Plain
<1>4. ASSUME NEW v \in Writers, NEW w \in Writers, v # w
      PROVE  doc.lazy = {}
  BY <1>1, <1>4 DEF Alone, Eager
<1> SUFFICES ASSUME NEW v \in Writers, Good(v)
             PROVE  Doomed(v)' \/ Good(v)'
  BY <1>1, <1>2, DoomedStep DEF CollectInv
<1> DEFINE Goal == Doomed(v)' \/ Good(v)'
<1>5. ASSUME NEW w \in Writers, NEW p \in Pages, AddPage(w, p)
      PROVE  Goal
  <2>1. v # w => wr'[v] = wr[v]
    BY <1>5, AddPageEffect
  <2> QED
    BY <1>3, <1>4, <1>5, <2>1, AddPageGood
<1>6. ASSUME NEW w \in Writers, NEW n \in Attachable, Attach(w, n)
      PROVE  Goal
  <2>1. (v # w => wr'[v] = wr[v]) /\ raw' = raw
    BY <1>6, AttachEffect DEF Attach
  <2>2. CASE v = w
    <3>1. n \in DocNodes /\ wr[w].extra \in Seq(DocNodes) /\ wr[w].phase = "open" /\ wr[w].todo = << >>
      BY <1>6, <2>2, WriterFields, Assumptions DEF Attach, Ready, Good, Plain
    <3>2. Elems(wr[w].extra) \subseteq Elems(wr'[w].extra)
      <4> DEFINE e == wr[w].extra
      <4>1. e \in Seq(DocNodes)
        BY <3>1
      <4>2. wr'[w].extra = Append(e, n)
        BY <1>6, AttachFields
      <4> HIDE DEF e
      <4>3. Elems(Append(e, n)) = Elems(e) \cup {n}
        BY <3>1, <4>1, AppendFacts
      <4>4. Elems(e) \subseteq Elems(wr'[w].extra)
        BY <4>2, <4>3
      <4> QED
        BY <4>4 DEF e
    <3>3. ~Collecting(w)'
      BY <1>6, <3>1, AttachFields DEF Collecting
    <3>4. Elems(wr'[w].todo) = {}
      BY <1>6, <3>1, AttachFields DEF Elems
    <3> QED
      BY <1>1, <1>6, <2>1, <2>2, <3>1, <3>2, <3>3, <3>4, AttachFields, CatalogGood DEF Good, Plain
  <2> QED
    BY <1>3, <2>1, <2>2
<1>7. ASSUME NEW w \in Writers, NEW oc \in OCs, SetOCProperties(w, oc)
      PROVE  Goal
  <2>1. (v # w => wr'[v] = wr[v]) /\ raw' = raw
    BY <1>7, SetOCPropertiesEffect DEF SetOCProperties
  <2>2. CASE v = w
    <3>1. /\ oc \in Seq(DocNodes) /\ wr[w].phase = "open" /\ wr[w].todo = << >>
          /\ wr[w].optional = << >>
      BY <1>7, <2>2 DEF SetOCProperties, Ready, Good, Plain, OCsResolved
    <3>2. Elems(wr[w].optional) = {}
      BY <3>1 DEF Elems
    <3>3. ~Collecting(w)'
      BY <1>7, SetOCPropertiesFields DEF Collecting
    <3> QED
      BY <1>1, <1>7, <2>1, <2>2, <3>1, <3>2, <3>3, SetOCPropertiesFields, CatalogGood
  <2> QED
    BY <1>3, <2>1, <2>2
<1>8. ASSUME NEW w \in Writers, NEW o \in Options, Configure(w, o)
      PROVE  Goal
  <2>1. (v # w => wr'[v] = wr[v]) /\ raw' = raw
    BY <1>8, ConfigureEffect DEF Configure
  <2>2. CASE v = w
    <3>1. /\ wr[w].objects \in Seq(Nodes) /\ Enc(w) \in Nodes
          /\ wr[w].phase \in {"open", "writing", "done"} => wr[w].todo = << >>
      BY <2>2, WriterFields, OwnFacts DEF Good, Plain
    <3>2. Elems(wr'[w].objects) \in {Elems(wr[w].objects), Elems(wr[w].objects) \cup {Enc(w)}}
      <4> DEFINE objs == wr[w].objects
      <4>1. objs \in Seq(Nodes)
        BY <3>1
      <4>2. wr'[w].objects = objs \/ wr'[w].objects = AddObject(objs, Enc(w))
        BY <1>8, ConfigureFields
      <4> HIDE DEF objs
      <4>3. Elems(AddObject(objs, Enc(w))) = Elems(objs) \cup {Enc(w)}
        BY <3>1, <4>1, AddObjectFacts
      <4>4. Elems(wr'[w].objects) = Elems(objs) \/ Elems(wr'[w].objects) = Elems(objs) \cup {Enc(w)}
        BY <4>2, <4>3
      <4> QED
        BY <4>4 DEF objs
    <3>3. Collecting(w)' <=> Collecting(w)
      BY <1>8, ConfigureFields DEF Collecting
    <3> QED
      BY <1>1, <1>8, <2>1, <2>2, <3>1, <3>2, <3>3, ConfigureFields, LeafGood
  <2> QED
    BY <1>3, <2>1, <2>2
<1>9. ASSUME NEW w \in Writers, Write(w)
      PROVE  Goal
  <2>1. (v # w => wr'[v] = wr[v]) /\ raw' = raw
    BY <1>9, WriteEffect DEF Write
  <2>2. CASE v = w
    <3>1. /\ wr[w].extra \in Seq(DocNodes) /\ wr[w].phase = "open" /\ wr[w].todo = << >>
          /\ wr[w].optional \in Seq(DocNodes)
      BY <1>9, <2>2, WriterFields DEF Write, Ready, Good, Plain
    <3> QED
      BY <1>1, <1>9, <2>1, <2>2, <3>1, WriteFields, CatalogGood
  <2> QED
    BY <1>3, <2>1, <2>2
<1>10. ASSUME NEW w \in Writers, Visit(w)
       PROVE  Goal
  <2>1. v # w => wr'[v] = wr[v]
    BY <1>10, VisitEffect
  <2> QED
    BY <1>3, <1>4, <1>10, <2>1, VisitGood
<1>11. ASSUME NEW w \in Writers, VisitRef(w)
       PROVE  Goal
  <2>1. (v # w => wr'[v] = wr[v]) /\ raw' = raw
    BY <1>11, VisitRefEffect DEF VisitRef
  <2>2. v # w
    <3> SUFFICES ASSUME v = w PROVE FALSE
      OBVIOUS
    <3>1. Head(wr[w].todo) \in DocNodes
      BY <1>11, TailType DEF VisitRef, Good, Plain
    <3> QED
      BY <1>11, <3>1, Assumptions DEF VisitRef, Nodes
  <2> QED
    BY <1>3, <2>1, <2>2
<1>12. ASSUME NEW w \in Writers, AddDone(w)
       PROVE  Goal
  <2>1. (v # w => wr'[v] = wr[v]) /\ raw' = raw
    BY <1>12, AddDoneEffect DEF AddDone
  <2>2. CASE v = w
    <3>1. Collecting(w)' <=> Collecting(w)
      BY <1>12, AddDoneFields DEF Collecting, AddDone
    <3>2. Resolved(w)'
      BY <1>1, <1>12, <2>1, <2>2, AddDoneFields, FrameResolved DEF Good
    <3> QED
      BY <1>1, <1>12, <2>1, <2>2, <3>1, <3>2, AddDoneFields, FrameGood DEF AddDone
  <2> QED
    BY <1>3, <2>1, <2>2
<1>13. ASSUME NEW w \in Writers, Number(w)
       PROVE  Goal
  <2>1. (v # w => wr'[v] = wr[v]) /\ raw' = raw
    BY <1>13, NumberEffect DEF Number
  <2>2. CASE v = w
    <3>1. wr[w].objects \in Seq(Nodes)
      BY WriterFields
    <3>2. Elems(wr'[w].objects) \in {Elems(wr[w].objects), Elems(wr[w].objects) \cup {ObjStm(w)}}
      <4> DEFINE objs == wr[w].objects
      <4>1. objs \in Seq(Nodes)
        BY <3>1
      <4>2. wr'[w].objects = Grouped(w, objs)
        BY <1>13, NumberFields
      <4> HIDE DEF objs
      <4>3. Elems(Grouped(w, objs)) \in {Elems(objs), Elems(objs) \cup {ObjStm(w)}}
        BY <4>1, GroupedFacts
      <4> QED
        BY <4>2, <4>3 DEF objs
    <3>3. Collecting(w)' <=> Collecting(w)
      BY <1>13, NumberFields DEF Collecting, Number
    <3> QED
      BY <1>1, <1>13, <2>1, <2>2, <3>2, <3>3, NumberFields, LeafGood DEF Number
  <2> QED
    BY <1>3, <2>1, <2>2
<1>14. ASSUME NEW w \in Writers, WriteObject(w)
       PROVE  Goal
  <2>1. (v # w => wr'[v] = wr[v]) /\ raw' = raw
    BY <1>14, WriteObjectEffect DEF WriteObject
  <2>2. CASE v = w
    <3>1. Collecting(w)' <=> Collecting(w)
      BY <1>14, WriteObjectSame DEF Collecting
    <3>2. Resolved(w)'
      BY <1>1, <1>14, <2>1, <2>2, WriteObjectSame, FrameResolved DEF Good
    <3> QED
      BY <1>1, <1>14, <2>1, <2>2, <3>1, <3>2, WriteObjectSame, FrameGood DEF Good, Plain
  <2> QED
    BY <1>3, <2>1, <2>2
<1>15. ASSUME NEW w \in Writers, WriteXref(w)
       PROVE  Goal
  <2>1. (v # w => wr'[v] = wr[v]) /\ raw' = raw
    BY <1>15, WriteXrefEffect DEF WriteXref
  <2>2. CASE v = w
    <3>1. Collecting(w)' <=> Collecting(w)
      BY <1>15, WriteXrefFields DEF Collecting, WriteXref
    <3>2. Resolved(w)'
      BY <1>1, <1>15, <2>1, <2>2, WriteXrefFields, FrameResolved DEF Good
    <3> QED
      BY <1>1, <1>15, <2>1, <2>2, <3>1, <3>2, WriteXrefFields, FrameGood DEF Good, Plain, WriteXref
  <2> QED
    BY <1>3, <2>1, <2>2
<1>16. ASSUME NEW p \in Refreshed, Refresh(p)
       PROVE  Goal
  <2>1. wr'[v] = wr[v] /\ doc.lazy = {}
    BY <1>1, <1>16 DEF Refresh, Alone, Eager
  <2> QED
    BY <1>3, <2>1
<1>17. CASE UNCHANGED vars
  BY <1>3, <1>17 DEF vars
<1> QED
  BY <1>5, <1>6, <1>7, <1>8, <1>9, <1>10, <1>11, <1>12, <1>13, <1>14, <1>15, <1>16, <1>17
  DEF Next, Work, Client

\* As many elements as places.
LEMMA DistinctCard ==
  ASSUME NEW D, NEW s \in Seq(D), Distinct(s)
  PROVE  Cardinality(Elems(s)) = Len(s)
<1> DEFINE l == Len(s)
           f == [i \in 1 .. l |-> s[i]]
<1>1. l \in Nat /\ DOMAIN s = 1 .. l
  OBVIOUS
<1> HIDE DEF l
<1>2. f \in [1 .. l -> Elems(s)]
  BY <1>1 DEF Elems
<1>3. \A i, j \in 1 .. l : f[i] = f[j] => i = j
  BY <1>1 DEF Distinct
<1>4. \A x \in Elems(s) : \E i \in 1 .. l : f[i] = x
  BY <1>1 DEF Elems
<1> HIDE DEF f
<1>5. ExistsBijection(1 .. l, Elems(s))
  <2>1. f \in Injection(1 .. l, Elems(s))
    BY <1>2, <1>3 DEF Injection, IsInjective
  <2>2. f \in Surjection(1 .. l, Elems(s))
    BY <1>2, <1>4 DEF Surjection
  <2> QED
    BY <2>1, <2>2 DEF ExistsBijection, Bijection
<1>6. Cardinality(Elems(s)) = l
  BY <1>1, <1>5, FS_CountingElements
<1> QED
  BY <1>6 DEF l

\* The references of the objects of a good writer are resolved.
LEMMA KidsLead ==
  ASSUME TypeOK, FileInv, NEW w \in Writers, Good(w), NEW n \in Elems(wr[w].objects)
  PROVE  Elems(Kids(n)) = Leads(w, n) /\ Leads(w, n) \subseteq Nodes
<1>1. /\ Tree(w) \notin DocNodes /\ Root(w) \notin DocNodes /\ Info(w) \notin DocNodes
      /\ Enc(w) \notin DocNodes /\ ObjStm(w) \notin DocNodes
      /\ Tree(w) \in Nodes
      /\ Info(w)[1] = "info" /\ Root(w)[1] = "root" /\ Tree(w)[1] = "pages"
      /\ Enc(w)[1] = "encrypt" /\ ObjStm(w)[1] = "objstm"
      /\ Tree(w)[2] = w /\ Root(w)[2] = w
  BY OwnFacts
<1>2. n \in DocNodes \cup {Info(w), Root(w), Tree(w), Enc(w), ObjStm(w)}
  BY DEF FileInv, ObjectsInv
<1>3. CASE n \in DocNodes
  <2>1. n \notin raw \/ doc.kids[n] = << >>
    BY DEF Good, Resolved, Has
  <2>2. Kids(n) = doc.kids[n] /\ doc.kids[n] \in Seq(DocNodes)
    BY <1>3, <2>1, DocKidsValue DEF Kids
  <2> QED
    BY <1>3, <2>2, ElemsType DEF Leads, Nodes
<1>4. CASE n = Tree(w)
  <2>1. Kids(n) = wr[w].pages
    BY <1>1, <1>4 DEF Kids
  <2>2. Elems(wr[w].pages) \subseteq Nodes
    BY WriterFields, ElemsType, Assumptions DEF Nodes
  <2> QED
    BY <1>1, <1>4, <2>1, <2>2 DEF Leads
<1>5. CASE n = Root(w)
  <2> DEFINE a == <<Tree(w)>>
             b == wr[w].optional
             c == wr[w].extra
             ab == a \o b
  <2>1. Kids(n) = ab \o c
    BY <1>1, <1>5 DEF Kids
  <2>2. a \in Seq(Nodes) /\ Elems(a) = {Tree(w)}
    BY <1>1, OneFacts
  <2>3. b \in Seq(Nodes) /\ c \in Seq(Nodes)
    BY WriterFields, SeqWider DEF Nodes, Good, Plain
  <2>4. Leads(w, n) = Elems(a) \cup Elems(b) \cup Elems(c)
    BY <1>1, <1>5, <2>2 DEF Leads
  <2> HIDE DEF a, b, c
  <2>5. ab \in Seq(Nodes) /\ Elems(ab) = Elems(a) \cup Elems(b)
    BY <2>2, <2>3, ConcatFacts
  <2> HIDE DEF ab
  <2>6. ab \o c \in Seq(Nodes) /\ Elems(ab \o c) = Elems(ab) \cup Elems(c)
    BY <2>3, <2>5, ConcatFacts
  <2>7. Elems(a) \subseteq Nodes /\ Elems(b) \subseteq Nodes /\ Elems(c) \subseteq Nodes
    BY <2>2, <2>3, ElemsType
  <2> QED
    BY <2>1, <2>4, <2>5, <2>6, <2>7
<1>6. CASE n \in {Info(w), Enc(w), ObjStm(w)}
  <2>1. Kids(n) = << >>
    BY <1>1, <1>6 DEF Kids
  <2>2. n # Tree(w) /\ n # Root(w)
    BY <1>1, <1>6
  <2> QED
    BY <1>1, <1>6, <2>1, <2>2 DEF Leads, Elems
<1> QED
  BY <1>2, <1>3, <1>4, <1>5, <1>6

\* ... and what they lead to is there when all is collected.
LEMMA KidsThere ==
  ASSUME TypeOK, FileInv, NEW w \in Writers, Good(w), Late(w), NEW n \in Elems(wr[w].objects)
  PROVE  Elems(Kids(n)) \subseteq Elems(wr[w].objects)
<1>1. wr[w].todo = << >> /\ Collecting(w)
  BY DEF Good, Plain, Late, Collecting
<1>2. Elems(wr[w].todo) = {}
  BY <1>1 DEF Elems
<1>3. Followed(w, n) = Leads(w, n)
  BY <1>1 DEF Followed
<1> QED
  BY <1>2, <1>3, KidsLead DEF Good, Gathered

LEMMA CollectsFacts ==
  ASSUME TypeOK, FileInv, CollectInv
  PROVE  CollectsReachable
<1> SUFFICES ASSUME NEW w \in Writers, Finished(w)
             PROVE  /\ Elems(wr[w].objects) \ {Enc(w), ObjStm(w)} = Reach({Info(w), Root(w)})
                    /\ Cardinality(Elems(wr[w].objects)) = Len(wr[w].objects)
  BY DEF CollectsReachable
<1> DEFINE objs == Elems(wr[w].objects)
           R == Reach({Info(w), Root(w)})
           C == objs \ {Enc(w), ObjStm(w)}
<1>1. Good(w) /\ Late(w)
  BY DEF CollectInv, Doomed, Finished, Late
<1>2. {Info(w), Root(w)} \in SUBSET Nodes /\ {Info(w), Root(w)} \cap {Enc(w), ObjStm(w)} = {}
  <2>1. /\ Info(w)[1] = "info" /\ Root(w)[1] = "root" /\ Enc(w)[1] = "encrypt"
        /\ ObjStm(w)[1] = "objstm" /\ Info(w) \in Nodes /\ Root(w) \in Nodes
    BY OwnFacts
  <2> QED
    BY <2>1
<1>3. objs \subseteq Nodes /\ {Info(w), Root(w)} \subseteq objs
  BY WriterFields, ElemsType DEF FileInv, ObjectsInv
<1>4. R \subseteq C
  <2>1. \A m \in C : Elems(Kids(m)) \cap Nodes \subseteq C
    BY <1>1, <1>3, KidsThere, NoKid
  <2>2. C \in SUBSET Nodes /\ {Info(w), Root(w)} \subseteq C
    BY <1>2, <1>3
  <2> HIDE DEF C
  <2> QED
    BY <1>2, <2>1, <2>2, ReachFacts
<1>5. C \subseteq R
  <2>1. /\ R \in SUBSET Nodes /\ {Info(w), Root(w)} \subseteq R
        /\ \A m \in R : Elems(Kids(m)) \cap Nodes \subseteq R
    BY <1>2, ReachFacts
  <2> HIDE DEF R
  <2>2. \A n \in R \cap objs : Leads(w, n) \subseteq R
    BY <1>1, <2>1, KidsLead
  <2>3. ClosedIn(w, R)
    BY <2>1, <2>2 DEF ClosedIn
  <2> QED
    BY <1>1, <2>1, <2>3 DEF Good, Justified
<1>6. Cardinality(objs) = Len(wr[w].objects)
  BY WriterFields, DistinctCard DEF FileInv, ObjectsInv
<1> QED
  BY <1>4, <1>5, <1>6

(* What a finished file has is what can be reached from its catalog and its *)
(* Info, however the objects refer to one another: addObjects leaves out    *)
(* nothing and adds nothing, and nothing twice.                             *)
THEOREM CollectsReachableHolds ==
  ASSUME Alone \/ Eager, OCsResolved
  PROVE  Spec => []CollectsReachable
<1>1. Init => TypeOK /\ FileInv /\ CollectInv
  BY TypeInit, FileInit, CollectInit
<1>2. (TypeOK /\ FileInv /\ CollectInv) /\ [Next]_vars => (TypeOK /\ FileInv /\ CollectInv)'
  BY TypeStep, FileStep, CollectStep
<1>3. TypeOK /\ FileInv /\ CollectInv => CollectsReachable
  BY CollectsFacts
<1> QED
  BY <1>1, <1>2, <1>3, PTL DEF Spec

-----------------------------------------------------------------------------
(* Parents.  While a writer collects, a Parent that it does not have is     *)
(* noted; Number replaces it.                                               *)
LEMMA EarlyParents ==
  ASSUME NEW w \in Writers, ParentsInv(w), ~Late(w), ~Late(w)', up' = up,
         wr'[w].out = << >>, wr'[w].pages = wr[w].pages,
         Elems(wr[w].objects) \subseteq Elems(wr'[w].objects),
         wr[w].pending \subseteq wr'[w].pending,
         \A n \in (Elems(wr'[w].objects) \ Elems(wr[w].objects)) \cap DocNodes :
           up[n] # None /\ ~Has(w, up[n]) => <<up[n], n>> \in wr'[w].pending
  PROVE  ParentsInv(w)'
<1>1. ASSUME NEW n \in Elems(wr'[w].objects) \cap DocNodes, up'[n] # None,
             up'[n] \notin Elems(wr'[w].objects)
      PROVE  <<up'[n], n>> \in wr'[w].pending
  <2>1. up'[n] = up[n] /\ ~Has(w, up[n])
    BY <1>1 DEF Has
  <2> QED
    BY <1>1, <2>1 DEF ParentsInv
<1>3. \A p \in Elems(wr'[w].pages) : up'[p] = Tree(w)
  BY DEF ParentsInv
<1>4. DOMAIN wr'[w].out = {}
  OBVIOUS
<1> QED
  BY <1>1, <1>3, <1>4 DEF ParentsInv, Has

LEMMA NumberParents ==
  ASSUME TypeOK, TypeOK', FileInv, NEW w \in Writers, Number(w), ParentsInv(w)
  PROVE  ParentsInv(w)'
<1> DEFINE objs == wr[w].objects
<1>1. /\ wr'[w].objects = Grouped(w, objs) /\ wr'[w].pages = wr[w].pages
      /\ wr'[w].out = wr[w].out /\ up' = Nulled(w) /\ ~Late(w) /\ objs \in Seq(Nodes)
  BY NumberFields, WriterFields DEF Number, Late
<1>2. Elems(wr'[w].objects) \subseteq Elems(objs) \cup {ObjStm(w)} /\ Elems(objs) \subseteq Elems(wr'[w].objects)
  <2> HIDE DEF objs
  <2>1. Elems(Grouped(w, objs)) =
           Elems(objs) \cup (IF "objstm" \in wr[w].opts THEN {ObjStm(w)} ELSE {})
    BY <1>1, GroupedFacts
  <2> QED
    BY <1>1, <2>1
<1>3. ObjStm(w) \notin DocNodes
  BY OwnFacts
<1>4. \A n \in DocNodes : up'[n] = IF <<up[n], n>> \in wr[w].pending /\ ~Has(w, up[n])
                                   THEN None ELSE up[n]
  BY <1>1 DEF Nulled
<1>5. ASSUME NEW n \in Elems(wr'[w].objects) \cap DocNodes, up'[n] # None
      PROVE  up'[n] \in Elems(wr'[w].objects)
  <2>1. n \in Elems(objs) \cap DocNodes
    BY <1>2, <1>3
  <2>2. up'[n] = up[n] /\ ~(<<up[n], n>> \in wr[w].pending /\ ~Has(w, up[n]))
    BY <1>4, <1>5
  <2>3. Has(w, up[n])
    BY <1>5, <2>1, <2>2 DEF ParentsInv
  <2> QED
    BY <1>2, <2>2, <2>3 DEF Has
<1>6. ASSUME NEW p \in Elems(wr'[w].pages)
      PROVE  up'[p] = Tree(w)
  <2>1. p \in DocNodes
    BY <1>1, <1>6, WriterFields, ElemsType, Assumptions
  <2>2. up[p] = Tree(w) /\ Has(w, Tree(w))
    BY <1>1, <1>6 DEF ParentsInv, Has, FileInv, ObjectsInv
  <2> QED
    BY <1>4, <2>1, <2>2
<1>7. DOMAIN wr'[w].out = {}
  BY <1>1, EarlyFacts
<1> QED
  BY <1>5, <1>6, <1>7 DEF ParentsInv, Has

LEMMA AddPageParents ==
  ASSUME TypeOK, TypeOK', FileInv, FileInv', NEW w \in Writers, NEW p \in Pages, AddPage(w, p),
         ParentsInv(w)
  PROVE  ParentsInv(w)'
<1> DEFINE objs == wr[w].objects
           pages == wr[w].pages
<1>1. /\ wr'[w].objects = AddObject(objs, p) /\ wr'[w].pages = Append(pages, p)
      /\ wr'[w].pending = wr[w].pending /\ wr'[w].phase = "adding"
      /\ objs \in Seq(Nodes) /\ pages \in Seq(Pages) /\ p \in DocNodes /\ p \in Nodes
  BY AddPageFields, WriterFields, Assumptions, ZenonT(60) DEF Nodes
<1>2. up' = [up EXCEPT ![p] = Tree(w)] /\ up \in [DocNodes -> Nodes \cup {None}]
  BY DEF AddPage, ParentOf, TypeOK
<1>3. ~Late(w) /\ ~Late(w)'
  BY <1>1 DEF AddPage, Ready, Late
<1> HIDE DEF objs, pages
<1>4. Elems(AddObject(objs, p)) = Elems(objs) \cup {p} /\ Elems(Append(pages, p)) = Elems(pages) \cup {p}
  BY <1>1, AddObjectFacts, AppendFacts
<1>5. Tree(w) \in Elems(objs)
  BY DEF FileInv, ObjectsInv, objs
<1>6. \A n \in DocNodes : up'[n] = IF n = p THEN Tree(w) ELSE up[n]
  BY <1>2
<1>7. \A n : n \in Elems(objs) => Has(w, n)'
  BY <1>1, <1>4 DEF Has
<1>8. ASSUME NEW n \in Elems(wr'[w].objects) \cap DocNodes, up'[n] # None,
             up'[n] \notin Elems(wr'[w].objects)
      PROVE  <<up'[n], n>> \in wr'[w].pending
  <2>1. n # p
    BY <1>1, <1>4, <1>5, <1>6, <1>8
  <2>2. n \in Elems(objs) /\ up'[n] = up[n] /\ up[n] \notin Elems(objs)
    BY <1>1, <1>4, <1>6, <1>8, <2>1
  <2> QED
    BY <1>1, <1>8, <2>2 DEF ParentsInv, Has, objs
<1>9. \A q \in Elems(wr'[w].pages) : up'[q] = Tree(w)
  <2> SUFFICES ASSUME NEW q \in Elems(wr'[w].pages)
               PROVE  up'[q] = Tree(w)
    OBVIOUS
  <2>1. q \in DocNodes /\ q \in Elems(pages) \cup {p}
    BY <1>1, <1>4, ElemsType, Assumptions
  <2> QED
    BY <1>6, <2>1 DEF ParentsInv, pages
<1>10. DOMAIN wr'[w].out = {}
  BY <1>3 DEF FileInv, OutInv
<1> QED
  BY <1>3, <1>8, <1>9, <1>10 DEF ParentsInv, Has

LEMMA VisitParents ==
  ASSUME TypeOK, TypeOK', FileInv, FileInv', NEW w \in Writers, Visit(w), ParentsInv(w)
  PROVE  ParentsInv(w)'
<1> DEFINE objs == wr[w].objects
           n == Head(wr[w].todo)
<1>1. /\ wr'[w].pages = wr[w].pages /\ wr'[w].phase = wr[w].phase /\ up' = up
      /\ objs \in Seq(Nodes) /\ n \in DocNodes /\ n \in Nodes
  BY VisitFields, WriterFields DEF Visit, Nodes
<1>2. ~Late(w) /\ ~Late(w)'
  BY <1>1 DEF Visit, Working, Late
<1>3. wr'[w].out = << >>
  BY <1>2 DEF FileInv, OutInv
<1>4. CASE Has(w, n)
  <2>1. wr'[w].objects = objs /\ wr'[w].pending = wr[w].pending
    BY <1>4, VisitFields
  <2> QED
    BY <1>1, <1>2, <1>3, <2>1, EarlyParents
<1>5. CASE ~Has(w, n)
  <2>1. /\ wr'[w].objects = Append(objs, n)
        /\ wr'[w].pending = IF up[n] = None \/ Has(w, up[n]) THEN wr[w].pending
                            ELSE wr[w].pending \cup {<<up[n], n>>}
    BY <1>5, VisitFields
  <2>2. Elems(Append(objs, n)) = Elems(objs) \cup {n}
    <3> HIDE DEF objs, n
    <3> QED
      BY <1>1, AppendFacts
  <2>3. \A m \in (Elems(wr'[w].objects) \ Elems(objs)) \cap DocNodes : m = n
    BY <2>1, <2>2
  <2> HIDE DEF n
  <2>4. wr[w].pending \subseteq wr'[w].pending
    BY <2>1
  <2> QED
    BY <1>1, <1>2, <1>3, <2>1, <2>2, <2>3, <2>4, EarlyParents
<1> QED
  BY <1>4, <1>5

LEMMA KidsSame ==
  ASSUME FileInv, NEW w \in Writers, doc' = doc, raw' = raw, wr'[w].pages = wr[w].pages,
         wr'[w].optional = wr[w].optional, wr'[w].extra = wr[w].extra,
         NEW n \in Elems(wr[w].objects)
  PROVE  Kids(n)' = Kids(n)
<1>1. n \in DocNodes \cup {Info(w), Root(w), Tree(w), Enc(w), ObjStm(w)}
  BY DEF FileInv, ObjectsInv
<1>2. n \notin DocNodes => n[2] = w
  BY <1>1, OwnFacts
<1>3. CASE n \in DocNodes
  BY <1>3 DEF Kids, DocKids
<1>4. CASE n \notin DocNodes
  BY <1>2, <1>4 DEF Kids
<1> QED
  BY <1>3, <1>4

\* While a writer writes, Parents and references stay as they are.
LEMMA LateParents ==
  ASSUME FileInv, NEW w \in Writers, ParentsInv(w), Late(w), Late(w)',
         doc' = doc, raw' = raw, up' = up, wr'[w].objects = wr[w].objects,
         wr'[w].pages = wr[w].pages, wr'[w].optional = wr[w].optional,
         wr'[w].extra = wr[w].extra, wr'[w].pending = wr[w].pending,
         \A i \in DOMAIN wr'[w].out, n \in Elems(wr[w].objects) : wr'[w].out[i].node = n =>
           /\ wr'[w].out[i].refs = Elems(Kids(n))
           /\ wr'[w].out[i].parent = IF n \in DocNodes THEN up[n] ELSE None
  PROVE  ParentsInv(w)'
<1>1. \A n \in Elems(wr[w].objects) : Kids(n)' = Kids(n)
  BY KidsSame
<1>2. \A i \in DOMAIN wr'[w].out, n \in Elems(wr'[w].objects) : wr'[w].out[i].node = n =>
        /\ wr'[w].out[i].refs = Elems(Kids(n)')
        /\ wr'[w].out[i].parent = IF n \in DocNodes THEN up'[n] ELSE None
  BY <1>1
<1>3. \A n \in Elems(wr'[w].objects) \cap DocNodes :
        up'[n] # None => up'[n] \in Elems(wr'[w].objects)
  BY DEF ParentsInv, Has
<1>4. \A p \in Elems(wr'[w].pages) : up'[p] = Tree(w)
  BY DEF ParentsInv
<1> QED
  BY <1>2, <1>3, <1>4 DEF ParentsInv, Has

LEMMA WriteObjectParents ==
  ASSUME TypeOK, TypeOK', FileInv, FileInv', NEW w \in Writers, WriteObject(w), ParentsInv(w)
  PROVE  ParentsInv(w)'
<1> DEFINE n == wr[w].objects[wr[w].at]
<1>1. doc' = doc /\ raw' = raw /\ up' = up
  BY DEF WriteObject
<1> DEFINE Kept(e) == /\ e.refs = Elems(Kids(e.node))
                      /\ e.parent = IF e.node \in DocNodes THEN up[e.node] ELSE None
<1>3. \A i \in DOMAIN wr[w].out : Kept(wr[w].out[i])
  BY DEF ParentsInv, FileInv, OutInv
<1>4. ASSUME NEW i \in DOMAIN wr'[w].out
      PROVE  Kept(wr'[w].out[i])
  <2>1. CASE Skipped(w, n)
    <3>1. wr'[w] = [wr[w] EXCEPT !.at = @ + 1]
      BY <2>1, WriteObjectEffect
    <3>2. wr'[w].out = wr[w].out
      BY <3>1, WriterFields DEF WriterState
    <3> QED
      BY <1>3, <1>4, <3>2
  <2>2. CASE ~Skipped(w, n)
    <3>1. \/ i \in DOMAIN wr[w].out /\ wr'[w].out[i] = wr[w].out[i]
          \/ wr'[w].out[i] = AnObject(w, text')
          \/ \E k \in DOMAIN Members(w) : wr'[w].out[i] = AMember(w, k, text')
      BY <1>4, <2>2, OutStep
    <3>2. Kept(AnObject(w, text'))
      BY WrittenFields DEF AnObject
    <3>3. \A k : Kept(AMember(w, k, text'))
      BY WrittenFields DEF AMember
    <3> HIDE DEF Kept
    <3> QED
      BY <1>3, <3>1, <3>2, <3>3
  <2> QED
    BY <2>1, <2>2
<1> QED
  BY <1>1, <1>4, WriteObjectSame, LateParents

ParentsAll == \A w \in Writers : ParentsInv(w)

LEMMA ParentsInit == Init => ParentsAll
<1> SUFFICES ASSUME Init, NEW w \in Writers PROVE ParentsInv(w)
  BY DEF ParentsAll
<1> DEFINE o == <<Info(w), Root(w), Tree(w)>>
<1>1. wr[w].objects = o /\ wr[w].pages = << >> /\ wr[w].out = << >>
  BY DEF Init, NewWriter
<1>2. \A n \in Elems(o) : n \notin DocNodes
  <2>1. DOMAIN o = {1, 2, 3} /\ o[1] = Info(w) /\ o[2] = Root(w) /\ o[3] = Tree(w)
    OBVIOUS
  <2> HIDE DEF o
  <2> QED
    BY <2>1, OwnFacts DEF Elems
<1> HIDE DEF o
<1>3. Elems(<< >>) = {}
  BY DEF Elems
<1>4. DOMAIN wr[w].out = {}
  BY <1>1
<1> QED
  BY <1>1, <1>2, <1>3, <1>4 DEF ParentsInv

\* A second writer that is given the same pages would change their Parent.
LEMMA ParentsStep ==
  ASSUME TypeOK, TypeOK', FileInv, FileInv', ParentsAll, Alone, [Next]_vars
  PROVE  ParentsAll'
<1> SUFFICES ASSUME NEW w \in Writers
             PROVE  ParentsInv(w)'
  BY DEF ParentsAll
<1>1. ParentsInv(w) /\ \A v \in Writers : v = w
  BY DEF ParentsAll, Alone
<1>2. ~Late(w)' => wr'[w].out = << >>
  BY DEF FileInv, OutInv
<1> DEFINE Goal == ParentsInv(w)'
<1>3. ASSUME NEW p \in Pages, AddPage(w, p)
      PROVE  Goal
  BY <1>1, <1>3, AddPageParents
<1>4. ASSUME NEW n \in Attachable, Attach(w, n)
      PROVE  Goal
  <2>1. up' = up /\ ~Late(w) /\ ~Late(w)'
    BY <1>4, AttachFields DEF Attach, Ready, Late
  <2> QED
    BY <1>1, <1>2, <1>4, <2>1, AttachFields, EarlyParents
<1>5. ASSUME NEW oc \in OCs, SetOCProperties(w, oc)
      PROVE  Goal
  <2>1. up' = up /\ ~Late(w) /\ ~Late(w)'
    BY <1>5, SetOCPropertiesFields DEF SetOCProperties, Ready, Late
  <2> QED
    BY <1>1, <1>2, <1>5, <2>1, SetOCPropertiesFields, EarlyParents
<1>6. ASSUME NEW o \in Options, Configure(w, o)
      PROVE  Goal
  <2> DEFINE objs == wr[w].objects
  <2>1. up' = up /\ ~Late(w) /\ ~Late(w)'
    BY <1>6, ConfigureFields DEF Configure, Ready, Late
  <2>2. objs \in Seq(Nodes) /\ Enc(w) \in Nodes \ DocNodes
    BY WriterFields, OwnFacts
  <2>3. wr'[w].objects = objs \/ wr'[w].objects = AddObject(objs, Enc(w))
    BY <1>6, ConfigureFields
  <2> HIDE DEF objs
  <2>4. Elems(AddObject(objs, Enc(w))) = Elems(objs) \cup {Enc(w)}
    BY <2>2, AddObjectFacts
  <2>5. /\ Elems(objs) \subseteq Elems(wr'[w].objects)
        /\ (Elems(wr'[w].objects) \ Elems(objs)) \cap DocNodes = {}
    BY <2>2, <2>3, <2>4
  <2> QED
    BY <1>1, <1>2, <1>6, <2>1, <2>5, ConfigureFields, EarlyParents DEF objs
<1>7. CASE Write(w)
  <2>1. up' = up /\ ~Late(w) /\ ~Late(w)'
    BY <1>7, WriteFields DEF Write, Ready, Late
  <2> QED
    BY <1>1, <1>2, <1>7, <2>1, WriteFields, EarlyParents
<1>8. CASE Visit(w)
  BY <1>1, <1>8, VisitParents
<1>9. CASE VisitRef(w)
  <2>1. up' = up /\ ~Late(w) /\ ~Late(w)'
    BY <1>9, VisitRefFields DEF VisitRef, Working, Late
  <2> QED
    BY <1>1, <1>2, <1>9, <2>1, VisitRefFields, EarlyParents
<1>10. CASE AddDone(w)
  <2>1. up' = up /\ ~Late(w) /\ ~Late(w)'
    BY <1>10, AddDoneFields DEF AddDone, Late
  <2> QED
    BY <1>1, <1>2, <1>10, <2>1, AddDoneFields, EarlyParents
<1>11. CASE Number(w)
  BY <1>1, <1>11, NumberParents
<1>12. CASE WriteObject(w)
  BY <1>1, <1>12, WriteObjectParents
<1>13. CASE WriteXref(w)
  <2>1. doc' = doc /\ raw' = raw /\ up' = up /\ Late(w) /\ Late(w)'
    BY <1>13, WriteXrefFields DEF WriteXref, Late
  <2>2. /\ wr'[w].objects = wr[w].objects /\ wr'[w].pages = wr[w].pages
        /\ wr'[w].optional = wr[w].optional /\ wr'[w].extra = wr[w].extra
        /\ wr'[w].pending = wr[w].pending /\ wr'[w].out = wr[w].out
    BY <1>13, WriteXrefFields
  <2>3. \A i \in DOMAIN wr'[w].out, n \in Elems(wr[w].objects) : wr'[w].out[i].node = n =>
          /\ wr'[w].out[i].refs = Elems(Kids(n))
          /\ wr'[w].out[i].parent = IF n \in DocNodes THEN up[n] ELSE None
    BY <1>1, <2>2 DEF ParentsInv
  <2> QED
    BY <1>1, <2>1, <2>2, <2>3, LateParents
<1>14. CASE UNCHANGED vars
  BY <1>1, <1>14 DEF vars, ParentsInv, Has, Late, Kids, DocKids
<1> QED
  BY <1>1, <1>3, <1>4, <1>5, <1>6, <1>7, <1>8, <1>9, <1>10, <1>11, <1>12, <1>13, <1>14
  DEF Next, Work, Client, Alone

LEMMA WholeFacts ==
  ASSUME TypeOK, FileInv, CollectInv, OnceAll, ParentsAll
  PROVE  FileWhole
<1>1. NoDangling
  <2> SUFFICES ASSUME NEW w \in Writers, Finished(w), NEW i \in DOMAIN wr[w].out,
                      NEW m \in wr[w].out[i].refs \cup ({wr[w].out[i].parent} \ {None})
               PROVE  /\ Has(w, m)
                      /\ NumOf(w, m) \in Numbers(w)
                      /\ Entry(w, NumOf(w, m)).node = m
    BY DEF NoDangling
  <2> DEFINE n == wr[w].out[i].node
  <2>1. Good(w) /\ Late(w) /\ wr[w].phase = "done"
    BY DEF CollectInv, Doomed, Finished, Late
  <2>2. n \in Elems(wr[w].objects)
    BY DEF FileInv, OutInv
  <2>3. /\ wr[w].out[i].refs = Elems(Kids(n))
        /\ wr[w].out[i].parent = IF n \in DocNodes THEN up[n] ELSE None
    BY <2>2 DEF ParentsAll, ParentsInv
  <2> HIDE DEF n
  <2>4. Elems(Kids(n)) \subseteq Elems(wr[w].objects)
    BY <2>1, <2>2, KidsThere
  <2>5. n \in DocNodes /\ up[n] # None => Has(w, up[n])
    BY <2>1, <2>2 DEF ParentsAll, ParentsInv
  <2>6. Has(w, m)
    BY <2>3, <2>4, <2>5 DEF Has
  <2> QED
    BY <2>1, <2>6, EntryFacts DEF Has
<1>2. PagesInTree
  <2> SUFFICES ASSUME NEW w \in Writers, Finished(w), NEW i \in DOMAIN wr[w].out,
                      wr[w].out[i].node \in Elems(wr[w].pages)
               PROVE  wr[w].out[i].parent = Tree(w)
    BY DEF PagesInTree
  <2> DEFINE n == wr[w].out[i].node
  <2>1. n \in Elems(wr[w].objects)
    BY DEF FileInv, OutInv
  <2>2. n \in DocNodes
    BY WriterFields, ElemsType, Assumptions
  <2> QED
    BY <2>1, <2>2 DEF ParentsAll, ParentsInv
<1>3. WrittenOnce
  BY DEF OnceAll, OnceInv, WrittenOnce
<1> QED
  BY <1>1, <1>2, <1>3, CollectsFacts DEF FileWhole

(* A finished file is whole: it has what can be reached from its catalog,   *)
(* each object once and under the number that references to it have, its    *)
(* references and Parents lead to objects that are there, and its pages     *)
(* hang in its page tree.                                                   *)
THEOREM FileWholeHolds ==
  ASSUME Alone, OCsResolved, StreamsOld
  PROVE  Spec => []FileWhole
<1> DEFINE Inv == TypeOK /\ FileInv /\ CollectInv /\ OnceAll /\ ParentsAll
<1>1. Init => Inv
  BY TypeInit, FileInit, CollectInit, OnceInit, ParentsInit
<1>2. Inv /\ [Next]_vars => Inv'
  BY TypeStep, FileStep, CollectStep, OnceAllStep, ParentsStep
<1>3. Inv => FileWhole
  BY WholeFacts
<1> QED
  BY <1>1, <1>2, <1>3, PTL DEF Spec

(***************************************************************************)
(* Dictionaries.  Whatever the entries of one are, and however often it is *)
(* read, changed and written: what is not named as lost is kept, changes   *)
(* are written, and a second round changes nothing.                        *)
(*                                                                         *)
(* The table of keys is gone through once, type by type (TableOK); all     *)
(* else is about any table with its few laws.                              *)
(***************************************************************************)
-----------------------------------------------------------------------------
(* What holds of each row of the table.                                     *)
\* A type whose dictionary is made anew takes and sets all it does not lose,
\* and every type sets all that a client can change and takes what it has
\* defaults for.
RowOK(t) ==
  /\ Rows[t].home # "kept" => Known(t) \ Spoilt(t) \subseteq Rows[t].reads \cap Rows[t].writes
  /\ Fields(t) \ Unwritten(t) \subseteq Rows[t].writes
  /\ Defaults(t) \subseteq Rows[t].reads

LEMMA TableOK == \A t \in Types : RowOK(t)
<1>1. RowOK("Text")
  <2>1. Rows["Text"] = MarkupAnnotation(TextRead, TextWrite)
    BY DEF Rows
  <2> QED
    BY <2>1 DEF RowOK, Known, Spoilt, Unwritten, Fields, Defaults, Meshes, Fonts, MarkupAnnotation,
      Annotation, Row, MarkupRead, MarkupWrite, BaseRead, BaseWrite, TextRead, TextWrite
<1>2. RowOK("Link")
  <2>1. Rows["Link"] = Annotation(LinkRead, LinkWrite)
    BY DEF Rows
  <2> QED
    BY <2>1 DEF RowOK, Known, Spoilt, Unwritten, Fields, Defaults, Meshes, Fonts, Annotation, Row, BaseRead,
      BaseWrite, LinkRead, LinkWrite
<1>3. RowOK("FreeText")
  <2>1. Rows["FreeText"] = MarkupAnnotation(FreeTextRead, FreeTextWrite)
    BY DEF Rows
  <2> QED
    BY <2>1 DEF RowOK, Known, Spoilt, Unwritten, Fields, Defaults, Meshes, Fonts, MarkupAnnotation,
      Annotation, Row, MarkupRead, MarkupWrite, BaseRead, BaseWrite, FreeTextRead, FreeTextWrite
<1>4. RowOK("Line")
  <2>1. Rows["Line"] = MarkupAnnotation(LineRead, LineWrite)
    BY DEF Rows
  <2> QED
    BY <2>1 DEF RowOK, Known, Spoilt, Unwritten, Fields, Defaults, Meshes, Fonts, MarkupAnnotation,
      Annotation, Row, MarkupRead, MarkupWrite, BaseRead, BaseWrite, LineRead, LineWrite
<1>5. RowOK("Square")
  <2>1. Rows["Square"] = MarkupAnnotation(SquareRead, SquareWrite)
    BY DEF Rows
  <2> QED
    BY <2>1 DEF RowOK, Known, Spoilt, Unwritten, Fields, Defaults, Meshes, Fonts, MarkupAnnotation,
      Annotation, Row, MarkupRead, MarkupWrite, BaseRead, BaseWrite, SquareRead, SquareWrite
<1>6. RowOK("Circle")
  <2>1. Rows["Circle"] = MarkupAnnotation(CircleRead, CircleWrite)
    BY DEF Rows
  <2> QED
    BY <2>1 DEF RowOK, Known, Spoilt, Unwritten, Fields, Defaults, Meshes, Fonts, MarkupAnnotation,
      Annotation, Row, MarkupRead, MarkupWrite, BaseRead, BaseWrite, CircleRead, CircleWrite
<1>7. RowOK("Polygon")
  <2>1. Rows["Polygon"] = MarkupAnnotation(PolygonRead, PolygonWrite)
    BY DEF Rows
  <2> QED
    BY <2>1 DEF RowOK, Known, Spoilt, Unwritten, Fields, Defaults, Meshes, Fonts, MarkupAnnotation,
      Annotation, Row, MarkupRead, MarkupWrite, BaseRead, BaseWrite, PolygonRead, PolygonWrite
<1>8. RowOK("PolyLine")
  <2>1. Rows["PolyLine"] = MarkupAnnotation(PolyLineRead, PolyLineWrite)
    BY DEF Rows
  <2> QED
    BY <2>1 DEF RowOK, Known, Spoilt, Unwritten, Fields, Defaults, Meshes, Fonts, MarkupAnnotation,
      Annotation, Row, MarkupRead, MarkupWrite, BaseRead, BaseWrite, PolyLineRead, PolyLineWrite
<1>9. RowOK("Highlight")
  <2>1. Rows["Highlight"] = MarkupAnnotation(HighlightRead, HighlightWrite)
    BY DEF Rows
  <2> QED
    BY <2>1 DEF RowOK, Known, Spoilt, Unwritten, Fields, Defaults, Meshes, Fonts, MarkupAnnotation,
      Annotation, Row, MarkupRead, MarkupWrite, BaseRead, BaseWrite, HighlightRead, HighlightWrite
<1>10. RowOK("Underline")
  <2>1. Rows["Underline"] = MarkupAnnotation(UnderlineRead, UnderlineWrite)
    BY DEF Rows
  <2> QED
    BY <2>1 DEF RowOK, Known, Spoilt, Unwritten, Fields, Defaults, Meshes, Fonts, MarkupAnnotation,
      Annotation, Row, MarkupRead, MarkupWrite, BaseRead, BaseWrite, UnderlineRead, UnderlineWrite
<1>11. RowOK("Squiggly")
  <2>1. Rows["Squiggly"] = MarkupAnnotation(SquigglyRead, SquigglyWrite)
    BY DEF Rows
  <2> QED
    BY <2>1 DEF RowOK, Known, Spoilt, Unwritten, Fields, Defaults, Meshes, Fonts, MarkupAnnotation,
      Annotation, Row, MarkupRead, MarkupWrite, BaseRead, BaseWrite, SquigglyRead, SquigglyWrite
<1>12. RowOK("StrikeOut")
  <2>1. Rows["StrikeOut"] = MarkupAnnotation(StrikeOutRead, StrikeOutWrite)
    BY DEF Rows
  <2> QED
    BY <2>1 DEF RowOK, Known, Spoilt, Unwritten, Fields, Defaults, Meshes, Fonts, MarkupAnnotation,
      Annotation, Row, MarkupRead, MarkupWrite, BaseRead, BaseWrite, StrikeOutRead, StrikeOutWrite
<1>13. RowOK("Caret")
  <2>1. Rows["Caret"] = MarkupAnnotation(CaretRead, CaretWrite)
    BY DEF Rows
  <2> QED
    BY <2>1 DEF RowOK, Known, Spoilt, Unwritten, Fields, Defaults, Meshes, Fonts, MarkupAnnotation,
      Annotation, Row, MarkupRead, MarkupWrite, BaseRead, BaseWrite, CaretRead, CaretWrite
<1>14. RowOK("Stamp")
  <2>1. Rows["Stamp"] = MarkupAnnotation(StampRead, StampWrite)
    BY DEF Rows
  <2> QED
    BY <2>1 DEF RowOK, Known, Spoilt, Unwritten, Fields, Defaults, Meshes, Fonts, MarkupAnnotation,
      Annotation, Row, MarkupRead, MarkupWrite, BaseRead, BaseWrite, StampRead, StampWrite
<1>15. RowOK("Ink")
  <2>1. Rows["Ink"] = MarkupAnnotation(InkRead, InkWrite)
    BY DEF Rows
  <2> QED
    BY <2>1 DEF RowOK, Known, Spoilt, Unwritten, Fields, Defaults, Meshes, Fonts, MarkupAnnotation,
      Annotation, Row, MarkupRead, MarkupWrite, BaseRead, BaseWrite, InkRead, InkWrite
<1>16. RowOK("Popup")
  <2>1. Rows["Popup"] = Annotation(PopupRead, PopupWrite)
    BY DEF Rows
  <2> QED
    BY <2>1 DEF RowOK, Known, Spoilt, Unwritten, Fields, Defaults, Meshes, Fonts, Annotation, Row, BaseRead,
      BaseWrite, PopupRead, PopupWrite
<1>17. RowOK("FileAttachment")
  <2>1. Rows["FileAttachment"] = MarkupAnnotation(FileAttachmentRead, FileAttachmentWrite)
    BY DEF Rows
  <2> QED
    BY <2>1 DEF RowOK, Known, Spoilt, Unwritten, Fields, Defaults, Meshes, Fonts, MarkupAnnotation,
      Annotation, Row, MarkupRead, MarkupWrite, BaseRead, BaseWrite, FileAttachmentRead, FileAttachmentWrite
<1>18. RowOK("Sound")
  <2>1. Rows["Sound"] = MarkupAnnotation(SoundRead, SoundWrite)
    BY DEF Rows
  <2> QED
    BY <2>1 DEF RowOK, Known, Spoilt, Unwritten, Fields, Defaults, Meshes, Fonts, MarkupAnnotation,
      Annotation, Row, MarkupRead, MarkupWrite, BaseRead, BaseWrite, SoundRead, SoundWrite
<1>19. RowOK("RichMedia")
  <2>1. Rows["RichMedia"] = Annotation(RichMediaRead, RichMediaWrite)
    BY DEF Rows
  <2> QED
    BY <2>1 DEF RowOK, Known, Spoilt, Unwritten, Fields, Defaults, Meshes, Fonts, Annotation, Row, BaseRead,
      BaseWrite, RichMediaRead, RichMediaWrite
<1>20. RowOK("Movie")
  <2>1. Rows["Movie"] = Annotation(MovieRead, MovieWrite)
    BY DEF Rows
  <2> QED
    BY <2>1 DEF RowOK, Known, Spoilt, Unwritten, Fields, Defaults, Meshes, Fonts, Annotation, Row, BaseRead,
      BaseWrite, MovieRead, MovieWrite
<1>21. RowOK("Screen")
  <2>1. Rows["Screen"] = Annotation(ScreenRead, ScreenWrite)
    BY DEF Rows
  <2> QED
    BY <2>1 DEF RowOK, Known, Spoilt, Unwritten, Fields, Defaults, Meshes, Fonts, Annotation, Row, BaseRead,
      BaseWrite, ScreenRead, ScreenWrite
<1>22. RowOK("Widget")
  <2>1. Rows["Widget"] = Annotation(WidgetRead, WidgetWrite)
    BY DEF Rows
  <2> QED
    BY <2>1 DEF RowOK, Known, Spoilt, Unwritten, Fields, Defaults, Meshes, Fonts, Annotation, Row, BaseRead,
      BaseWrite, WidgetRead, WidgetWrite
<1>23. RowOK("PrinterMark")
  <2>1. Rows["PrinterMark"] = Annotation(PrinterMarkRead, PrinterMarkWrite)
    BY DEF Rows
  <2> QED
    BY <2>1 DEF RowOK, Known, Spoilt, Unwritten, Fields, Defaults, Meshes, Fonts, Annotation, Row, BaseRead,
      BaseWrite, PrinterMarkRead, PrinterMarkWrite
<1>24. RowOK("TrapNet")
  <2>1. Rows["TrapNet"] = Annotation(TrapNetRead, TrapNetWrite)
    BY DEF Rows
  <2> QED
    BY <2>1 DEF RowOK, Known, Spoilt, Unwritten, Fields, Defaults, Meshes, Fonts, Annotation, Row, BaseRead,
      BaseWrite, TrapNetRead, TrapNetWrite
<1>25. RowOK("Watermark")
  <2>1. Rows["Watermark"] = Annotation(WatermarkRead, WatermarkWrite)
    BY DEF Rows
  <2> QED
    BY <2>1 DEF RowOK, Known, Spoilt, Unwritten, Fields, Defaults, Meshes, Fonts, Annotation, Row, BaseRead,
      BaseWrite, WatermarkRead, WatermarkWrite
<1>26. RowOK("ThreeD")
  <2>1. Rows["ThreeD"] = Annotation(ThreeDRead, ThreeDWrite)
    BY DEF Rows
  <2> QED
    BY <2>1 DEF RowOK, Known, Spoilt, Unwritten, Fields, Defaults, Meshes, Fonts, Annotation, Row, BaseRead,
      BaseWrite, ThreeDRead, ThreeDWrite
<1>27. RowOK("Projection")
  <2>1. Rows["Projection"] = MarkupAnnotation(ProjectionRead, ProjectionWrite)
    BY DEF Rows
  <2> QED
    BY <2>1 DEF RowOK, Known, Spoilt, Unwritten, Fields, Defaults, Meshes, Fonts, MarkupAnnotation,
      Annotation, Row, MarkupRead, MarkupWrite, BaseRead, BaseWrite, ProjectionRead, ProjectionWrite
<1>28. RowOK("Redact")
  <2>1. Rows["Redact"] = MarkupAnnotation(RedactRead, RedactWrite)
    BY DEF Rows
  <2> QED
    BY <2>1 DEF RowOK, Known, Spoilt, Unwritten, Fields, Defaults, Meshes, Fonts, MarkupAnnotation,
      Annotation, Row, MarkupRead, MarkupWrite, BaseRead, BaseWrite, RedactRead, RedactWrite
<1>29. RowOK("FieldButton")
  <2>1. Rows["FieldButton"] = Field(FieldButtonRead, FieldButtonWrite)
    BY DEF Rows
  <2> QED
    BY <2>1 DEF RowOK, Known, Spoilt, Unwritten, Fields, Defaults, Meshes, Fonts, Field, Row, FieldRead,
      FieldWrite, FieldButtonRead, FieldButtonWrite
<1>30. RowOK("FieldText")
  <2>1. Rows["FieldText"] = Field(FieldTextRead, FieldTextWrite)
    BY DEF Rows
  <2> QED
    BY <2>1 DEF RowOK, Known, Spoilt, Unwritten, Fields, Defaults, Meshes, Fonts, Field, Row, FieldRead,
      FieldWrite, FieldTextRead, FieldTextWrite
<1>31. RowOK("FieldChoice")
  <2>1. Rows["FieldChoice"] = Field(FieldChoiceRead, FieldChoiceWrite)
    BY DEF Rows
  <2> QED
    BY <2>1 DEF RowOK, Known, Spoilt, Unwritten, Fields, Defaults, Meshes, Fonts, Field, Row, FieldRead,
      FieldWrite, FieldChoiceRead, FieldChoiceWrite
<1>32. RowOK("FieldSignature")
  <2>1. Rows["FieldSignature"] = Field(FieldSignatureRead, FieldSignatureWrite)
    BY DEF Rows
  <2> QED
    BY <2>1 DEF RowOK, Known, Spoilt, Unwritten, Fields, Defaults, Meshes, Fonts, Field, Row, FieldRead,
      FieldWrite, FieldSignatureRead, FieldSignatureWrite
<1>33. RowOK("AcroForm")
  <2>1. Rows["AcroForm"] = Row({}, AcroFormRead, AcroFormWrite, "own")
    BY DEF Rows
  <2> QED
    BY <2>1 DEF RowOK, Known, Spoilt, Unwritten, Fields, Defaults, Meshes, Fonts, Row, AcroFormRead,
      AcroFormWrite
<1>34. RowOK("Outline")
  <2>1. Rows["Outline"] = Row({}, OutlineRead, OutlineWrite, "kept")
    BY DEF Rows
  <2> QED
    BY <2>1 DEF RowOK, Known, Spoilt, Unwritten, Fields, Defaults, Meshes, Fonts, Row, OutlineRead,
      OutlineWrite
<1>35. RowOK("OutlineItem")
  <2>1. Rows["OutlineItem"] = Row({"Title"}, OutlineItemRead, OutlineItemWrite, "kept")
    BY DEF Rows
  <2> QED
    BY <2>1 DEF RowOK, Known, Spoilt, Unwritten, Fields, Defaults, Meshes, Fonts, Row, OutlineItemRead,
      OutlineItemWrite
<1>36. RowOK("XForm")
  <2>1. Rows["XForm"] = Row({}, XFormRead, XFormWrite, "emptied")
    BY DEF Rows
  <2> QED
    BY <2>1 DEF RowOK, Known, Spoilt, Unwritten, Fields, Defaults, Meshes, Fonts, Row, XFormRead, XFormWrite
<1>37. RowOK("XImage")
  <2>1. Rows["XImage"] = Row({"Width", "Height"}, XImageRead, XImageWrite, "emptied")
    BY DEF Rows
  <2> QED
    BY <2>1 DEF RowOK, Known, Spoilt, Unwritten, Fields, Defaults, Meshes, Fonts, Row, XImageRead, XImageWrite
<1>38. RowOK("Shading1")
  <2>1. Rows["Shading1"] = Shade({"Function"}, Shading1Read, Shading1Write)
    BY DEF Rows
  <2> QED
    BY <2>1 DEF RowOK, Known, Spoilt, Unwritten, Fields, Defaults, Meshes, Fonts, Shade, Row, ShadingRead,
      ShadingWrite, Shading1Read, Shading1Write
<1>39. RowOK("Shading2")
  <2>1. Rows["Shading2"] = Shade({"Coords", "Function"}, Shading2Read, Shading2Write)
    BY DEF Rows
  <2> QED
    BY <2>1 DEF RowOK, Known, Spoilt, Unwritten, Fields, Defaults, Meshes, Fonts, Shade, Row, ShadingRead,
      ShadingWrite, Shading2Read, Shading2Write
<1>40. RowOK("Shading3")
  <2>1. Rows["Shading3"] = Shade({"Coords", "Function"}, Shading3Read, Shading3Write)
    BY DEF Rows
  <2> QED
    BY <2>1 DEF RowOK, Known, Spoilt, Unwritten, Fields, Defaults, Meshes, Fonts, Shade, Row, ShadingRead,
      ShadingWrite, Shading3Read, Shading3Write
<1>41. RowOK("Shading4")
  <2>1. Rows["Shading4"] = Shade(MeshNeeds \cup {"Function"}, Shading4Read, Shading4Write)
    BY DEF Rows
  <2> QED
    BY <2>1 DEF RowOK, Known, Spoilt, Unwritten, Fields, Defaults, Meshes, Fonts, Shade, Row, ShadingRead,
      ShadingWrite, MeshNeeds, Shading4Read, Shading4Write
<1>42. RowOK("Shading5")
  <2>1. Rows["Shading5"] = Shade((MeshNeeds \ {"BitsPerFlag"}) \cup {"VerticesPerRow"}, Shading5Read, Shading5Write)
    BY DEF Rows
  <2> QED
    BY <2>1 DEF RowOK, Known, Spoilt, Unwritten, Fields, Defaults, Meshes, Fonts, Shade, Row, ShadingRead,
      ShadingWrite, MeshNeeds, Shading5Read, Shading5Write
<1>43. RowOK("Shading6")
  <2>1. Rows["Shading6"] = Shade(MeshNeeds, Shading6Read, Shading6Write)
    BY DEF Rows
  <2> QED
    BY <2>1 DEF RowOK, Known, Spoilt, Unwritten, Fields, Defaults, Meshes, Fonts, Shade, Row, ShadingRead,
      ShadingWrite, MeshNeeds, Shading6Read, Shading6Write
<1>44. RowOK("Shading7")
  <2>1. Rows["Shading7"] = Shade(MeshNeeds, Shading7Read, Shading7Write)
    BY DEF Rows
  <2> QED
    BY <2>1 DEF RowOK, Known, Spoilt, Unwritten, Fields, Defaults, Meshes, Fonts, Shade, Row, ShadingRead,
      ShadingWrite, MeshNeeds, Shading7Read, Shading7Write
<1>45. RowOK("Tiling")
  <2>1. Rows["Tiling"] = Fill(TilingRead \ {"Matrix"}, TilingRead, TilingWrite)
    BY DEF Rows
  <2> QED
    BY <2>1 DEF RowOK, Known, Spoilt, Unwritten, Fields, Defaults, Meshes, Fonts, Fill, Row, PatternRead,
      PatternWrite, TilingRead, TilingWrite
<1>46. RowOK("ShadingPattern")
  <2>1. Rows["ShadingPattern"] = Fill({"Shading"}, ShadingPatternRead, ShadingPatternWrite)
    BY DEF Rows
  <2> QED
    BY <2>1 DEF RowOK, Known, Spoilt, Unwritten, Fields, Defaults, Meshes, Fonts, Fill, Row, PatternRead,
      PatternWrite, ShadingPatternRead, ShadingPatternWrite
<1>47. RowOK("Function0")
  <2>1. Rows["Function0"] = Row({"Domain", "Range", "Size", "BitsPerSample"}, Function0Read, Function0Write, "emptied")
    BY DEF Rows
  <2> QED
    BY <2>1 DEF RowOK, Known, Spoilt, Unwritten, Fields, Defaults, Meshes, Fonts, Row, Function0Read,
      Function0Write
<1>48. RowOK("Function2")
  <2>1. Rows["Function2"] = Row({"Domain", "N"}, Function2Read, Function2Write, "emptied")
    BY DEF Rows
  <2> QED
    BY <2>1 DEF RowOK, Known, Spoilt, Unwritten, Fields, Defaults, Meshes, Fonts, Row, Function2Read,
      Function2Write
<1>49. RowOK("Function3")
  <2>1. Rows["Function3"] = Row(Function3Read \ {"Range"}, Function3Read, Function3Write, "emptied")
    BY DEF Rows
  <2> QED
    BY <2>1 DEF RowOK, Known, Spoilt, Unwritten, Fields, Defaults, Meshes, Fonts, Row, Function3Read,
      Function3Write
<1>50. RowOK("Function4")
  <2>1. Rows["Function4"] = Row({"Domain"}, Function4Read, Function4Write, "emptied")
    BY DEF Rows
  <2> QED
    BY <2>1 DEF RowOK, Known, Spoilt, Unwritten, Fields, Defaults, Meshes, Fonts, Row, Function4Read,
      Function4Write
<1>51. RowOK("CalGray")
  <2>1. Rows["CalGray"] = Row({"WhitePoint"}, CalGrayRead, CalGrayWrite, "emptied")
    BY DEF Rows
  <2> QED
    BY <2>1 DEF RowOK, Known, Spoilt, Unwritten, Fields, Defaults, Meshes, Fonts, Row, CalGrayRead,
      CalGrayWrite
<1>52. RowOK("CalRGB")
  <2>1. Rows["CalRGB"] = Row({"WhitePoint"}, CalRGBRead, CalRGBWrite, "emptied")
    BY DEF Rows
  <2> QED
    BY <2>1 DEF RowOK, Known, Spoilt, Unwritten, Fields, Defaults, Meshes, Fonts, Row, CalRGBRead, CalRGBWrite
<1>53. RowOK("Lab")
  <2>1. Rows["Lab"] = Row({"WhitePoint"}, LabRead, LabWrite, "emptied")
    BY DEF Rows
  <2> QED
    BY <2>1 DEF RowOK, Known, Spoilt, Unwritten, Fields, Defaults, Meshes, Fonts, Row, LabRead, LabWrite
<1>54. RowOK("ICCBased")
  <2>1. Rows["ICCBased"] = Row({"N"}, ICCBasedRead, ICCBasedWrite, "emptied")
    BY DEF Rows
  <2> QED
    BY <2>1 DEF RowOK, Known, Spoilt, Unwritten, Fields, Defaults, Meshes, Fonts, Row, ICCBasedRead,
      ICCBasedWrite
<1>55. RowOK("DeviceNAttributes")
  <2>1. Rows["DeviceNAttributes"] = Row({}, DeviceNAttributesRead, DeviceNAttributesWrite, "emptied")
    BY DEF Rows
  <2> QED
    BY <2>1 DEF RowOK, Known, Spoilt, Unwritten, Fields, Defaults, Meshes, Fonts, Row, DeviceNAttributesRead,
      DeviceNAttributesWrite
<1>56. RowOK("Page")
  <2>1. Rows["Page"] = Row({"Parent"}, PageRead, PageWrite, "emptied")
    BY DEF Rows
  <2> QED
    BY <2>1 DEF RowOK, Known, Spoilt, Unwritten, Fields, Defaults, Meshes, Fonts, Row, PageRead, PageWrite
<1>57. RowOK("Resources")
  <2>1. Rows["Resources"] = Row({}, ResourcesRead, ResourcesWrite, "own")
    BY DEF Rows
  <2> QED
    BY <2>1 DEF RowOK, Known, Spoilt, Unwritten, Fields, Defaults, Meshes, Fonts, Row, ResourcesRead,
      ResourcesWrite
<1>58. RowOK("Signature")
  <2>1. Rows["Signature"] = Row({"Filter", "Contents"}, SignatureRead, SignatureWrite, "kept")
    BY DEF Rows
  <2> QED
    BY <2>1 DEF RowOK, Known, Spoilt, Unwritten, Fields, Defaults, Meshes, Fonts, Row, SignatureRead,
      SignatureWrite
<1>59. RowOK("Descriptor")
  <2>1. Rows["Descriptor"] = Row({}, DescriptorRead, DescriptorWrite, "emptied")
    BY DEF Rows
  <2> QED
    BY <2>1 DEF RowOK, Known, Spoilt, Unwritten, Fields, Defaults, Meshes, Fonts, Row, DescriptorRead,
      DescriptorWrite
<1>60. RowOK("SimpleFont")
  <2>1. Rows["SimpleFont"] = Typeface({}, SimpleFontRead, SimpleFontWrite)
    BY DEF Rows
  <2> QED
    BY <2>1 DEF RowOK, Known, Spoilt, Unwritten, Fields, Defaults, Meshes, Fonts, Typeface, Row, FontBaseRead,
      FontBaseWrite, SimpleFontRead, SimpleFontWrite
<1>61. RowOK("Type0Font")
  <2>1. Rows["Type0Font"] = Typeface({"DescendantFonts"}, Type0FontRead, Type0FontWrite)
    BY DEF Rows
  <2> QED
    BY <2>1 DEF RowOK, Known, Spoilt, Unwritten, Fields, Defaults, Meshes, Fonts, Typeface, Row, FontBaseRead,
      FontBaseWrite, Type0FontRead, Type0FontWrite
<1>62. RowOK("Type0Cmap")
  <2>1. Rows["Type0Cmap"] = Typeface({"DescendantFonts"}, Type0FontRead \ {"Encoding"}, Type0FontWrite)
    BY DEF Rows
  <2>2. Spoilt("Type0Cmap") = {"Name", "Encoding"}
    BY DEF Spoilt, Meshes, Fonts
  <2>3. Fields("Type0Cmap") = {} /\ Defaults("Type0Cmap") = {}
    BY DEF Fields, Fonts, Defaults
  <2> QED
    BY <2>1, <2>2, <2>3 DEF RowOK, Known, Typeface, Row, FontBaseRead, FontBaseWrite, Type0FontRead,
      Type0FontWrite
<1>63. RowOK("CIDFont0")
  <2>1. Rows["CIDFont0"] = Typeface({"CIDSystemInfo"}, CIDFont0Read, CIDFont0Write)
    BY DEF Rows
  <2>2. Spoilt("CIDFont0") = Known("CIDFont0")
    BY DEF Spoilt, Meshes, Fonts
  <2>3. Fields("CIDFont0") = {} /\ Defaults("CIDFont0") = {}
    BY DEF Fields, Fonts, Defaults
  <2> QED
    BY <2>1, <2>2, <2>3 DEF RowOK, Known, Typeface, Row, FontBaseRead, FontBaseWrite, CIDFont0Read,
      CIDFont0Write
<1>64. RowOK("CIDFont2")
  <2>1. Rows["CIDFont2"] = Typeface({"CIDSystemInfo"}, CIDFont2Read, CIDFont2Write)
    BY DEF Rows
  <2> QED
    BY <2>1 DEF RowOK, Known, Spoilt, Unwritten, Fields, Defaults, Meshes, Fonts, Typeface, Row, FontBaseRead,
      FontBaseWrite, CIDFont2Read, CIDFont2Write
<1> QED
  BY <1>1, <1>2, <1>3, <1>4, <1>5, <1>6, <1>7, <1>8, <1>9, <1>10, <1>11, <1>12, <1>13, <1>14, <1>15, <1>16,
     <1>17, <1>18, <1>19, <1>20, <1>21, <1>22, <1>23, <1>24, <1>25, <1>26, <1>27, <1>28, <1>29, <1>30, <1>31,
     <1>32, <1>33, <1>34, <1>35, <1>36, <1>37, <1>38, <1>39, <1>40, <1>41, <1>42, <1>43, <1>44, <1>45, <1>46,
     <1>47, <1>48, <1>49, <1>50, <1>51, <1>52, <1>53, <1>54, <1>55, <1>56, <1>57, <1>58, <1>59, <1>60, <1>61,
     <1>62, <1>63, <1>64 DEF Types, Rows

LEMMA NoneIsNoType == "none" \notin Types
BY DEF Types, Rows

\* A mesh has the bits of its flags and of its components, and is kept.
LEMMA MeshRows ==
  ASSUME NEW t \in Meshes
  PROVE  /\ Rows[t].home = "kept" /\ "BitsPerFlag" \in Rows[t].needs /\ "BitsPerComponent" \in Rows[t].needs
         /\ "BitsPerComponent" \in Rows[t].reads /\ Defaults(t) = {} /\ Spoilt(t) = {"BitsPerComponent"}
         /\ t \in Types /\ t \notin {"CIDFont0", "Descriptor", "OutlineItem"}
<1>1. Rows["Shading4"] = Shade(MeshNeeds \cup {"Function"}, Shading4Read, Shading4Write)
  BY DEF Rows
<1>2. Rows["Shading6"] = Shade(MeshNeeds, Shading6Read, Shading6Write)
  BY DEF Rows
<1>3. Rows["Shading7"] = Shade(MeshNeeds, Shading7Read, Shading7Write)
  BY DEF Rows
<1>4. t \in {"Shading4", "Shading6", "Shading7"}
  BY DEF Meshes
<1>5. t \in Types /\ t \notin {"CIDFont0", "Descriptor", "OutlineItem"}
  BY <1>4 DEF Types, Rows
<1>6. Spoilt(t) = {"BitsPerComponent"} /\ Defaults(t) = {}
  BY <1>4 DEF Spoilt, Meshes, Fonts, Defaults
<1>7. Rows[t].home = "kept" /\ MeshNeeds \subseteq Rows[t].needs
  BY <1>1, <1>2, <1>3, <1>4 DEF Shade, Row
<1>8. "BitsPerComponent" \in Rows[t].reads
  BY <1>1, <1>2, <1>3, <1>4 DEF Shade, Row, Shading4Read, Shading6Read, Shading7Read
<1> QED
  BY <1>5, <1>6, <1>7, <1>8 DEF MeshNeeds

LEMMA OtherRows ==
  /\ Rows["OutlineItem"].home = "kept" /\ Spoilt("OutlineItem") = {"SE"} /\ "SE" \notin Fields("OutlineItem")
  /\ Rows["Descriptor"].home = "emptied" /\ "Style" \notin Rows["Descriptor"].writes
  /\ Spoilt("CIDFont0") = Known("CIDFont0") /\ Fields("CIDFont0") = {}
<1>1. Rows["OutlineItem"] = Row({"Title"}, OutlineItemRead, OutlineItemWrite, "kept")
  BY DEF Rows
<1>2. Rows["Descriptor"] = Row({}, DescriptorRead, DescriptorWrite, "emptied")
  BY DEF Rows
<1>3. Rows["OutlineItem"].home = "kept" /\ Rows["Descriptor"].home = "emptied"
  BY <1>1, <1>2 DEF Row
<1>4. "Style" \notin Rows["Descriptor"].writes
  BY <1>2 DEF Row, DescriptorWrite
<1>5. Spoilt("OutlineItem") = {"SE"}
  BY DEF Spoilt, Meshes, Fonts
<1>6. "SE" \notin Fields("OutlineItem")
  BY DEF Fields, Fonts
<1>7. Spoilt("CIDFont0") = Known("CIDFont0")
  BY DEF Spoilt, Meshes, Fonts
<1>8. Fields("CIDFont0") = {}
  BY DEF Fields, Fonts
<1> QED
  BY <1>3, <1>4, <1>5, <1>6, <1>7, <1>8

\* A key with two fields is read and written, and is no entry that gets lost.
LEMMA TwiceRows ==
  ASSUME NEW t \in Types
  PROVE  /\ Twice(t) \subseteq Rows[t].reads
         /\ t \in Meshes \cup {"OutlineItem", "Descriptor", "CIDFont0"} => Twice(t) = {}
<1>1. CASE t = "FreeText"
  BY <1>1 DEF Twice, Rows, MarkupAnnotation, Annotation, Row, FreeTextRead, Meshes
<1>2. CASE t = "Line"
  BY <1>2 DEF Twice, Rows, MarkupAnnotation, Annotation, Row, LineRead, Meshes
<1>3. CASE t = "Polygon"
  BY <1>3 DEF Twice, Rows, MarkupAnnotation, Annotation, Row, PolygonRead, Meshes
<1>4. CASE t = "PolyLine"
  BY <1>4 DEF Twice, Rows, MarkupAnnotation, Annotation, Row, PolyLineRead, Meshes
<1>5. CASE t = "FieldSignature"
  BY <1>5 DEF Twice, Rows, Field, Row, FieldSignatureRead, Meshes
<1>6. CASE t \notin {"FreeText", "Line", "Polygon", "PolyLine", "FieldSignature"}
  BY <1>6 DEF Twice
<1> QED
  BY <1>1, <1>2, <1>3, <1>4, <1>5, <1>6

-----------------------------------------------------------------------------
(* What is taken from a dictionary, and what is put into one.               *)
Lost(t) == IF t = "OutlineItem" THEN {"SE"} ELSE {}
Dropped(t) == IF t \in Meshes THEN {"BitsPerFlag"} ELSE {}
Got(t, d) == ((Rows[t].reads \cap DOMAIN d) \ Lost(t)) \ Dropped(t)

\* m is what is taken from d.
IsTaken(m, t, d) ==
  /\ DOMAIN m = Got(t, d) \cup Defaults(t)
  /\ \A k \in Got(t, d) : m[k] = IF t \in Meshes /\ k = "BitsPerComponent" THEN d["BitsPerFlag"] ELSE d[k]

LEMMA TakeIs ==
  ASSUME NEW t, NEW d
  PROVE  IsTaken(Take(t, d), t, d)
<1> DEFINE got == (Rows[t].reads \cap DOMAIN d) \ Lost(t)
           dflt == [k \in Defaults(t) |-> "default"]
<1>1. CASE t \in Meshes
  <2>1. Take(t, d) = Over(TakeMesh(got, d), dflt)
    BY <1>1 DEF Take, Lost
  <2> QED
    BY <1>1, <2>1 DEF IsTaken, Over, TakeMesh, Got, Dropped
<1>2. CASE t \notin Meshes
  <2>1. Take(t, d) = Over([k \in got |-> d[k]], dflt)
    BY <1>2 DEF Take, Lost
  <2> QED
    BY <1>2, <2>1 DEF IsTaken, Over, Got, Dropped
<1> QED
  BY <1>1, <1>2

\* What was just read is written of the fields of the type.
LEMMA HeldTaken ==
  ASSUME NEW t \in Types, NEW d
  PROVE  Over(Take(t, d), TakeBase(t, d)) = Take(t, d)
<1> DEFINE m == Take(t, d)
<1>1. m = [k \in DOMAIN m |-> m[k]]
  BY DEF Take, Over
<1>2. DOMAIN m = Got(t, d) \cup Defaults(t)
  BY TakeIs DEF IsTaken
<1> HIDE DEF m
<1>3. Twice(t) \cap DOMAIN d \subseteq DOMAIN m
  BY <1>2, TwiceRows DEF Got, Lost, Dropped
<1>4. Over(m, TakeBase(t, d)) = [k \in DOMAIN m |-> m[k]]
  BY <1>3 DEF Over, TakeBase
<1> QED
  BY <1>1, <1>4 DEF m

\* What of the dictionary that was read stays in it.
Stays(t, d) ==
  IF t \in {"CIDFont0", "Descriptor"} THEN {}
  ELSE IF t = "OutlineItem" THEN DOMAIN d \ {"SE"}
  ELSE IF Rows[t].home = "kept" THEN DOMAIN d ELSE {}
Sets(t, m) == IF t = "CIDFont0" THEN {} ELSE Rows[t].writes \cap DOMAIN m
Nils(t, m) == IF t = "Descriptor" /\ "Style" \in DOMAIN m THEN {"FontName"} ELSE {}

\* p is d with m put into it.
IsPut(p, t, m, d) ==
  /\ DOMAIN p = (Sets(t, m) \cup Stays(t, d)) \cup Nils(t, m)
  /\ \A k \in Sets(t, m) : p[k] = m[k]
  /\ \A k \in Stays(t, d) \ Sets(t, m) : p[k] = d[k]
  /\ \A k \in Nils(t, m) \ Sets(t, m) : p[k] = Nil

LEMMA PutIs ==
  ASSUME NEW t, NEW m, NEW d
  PROVE  IsPut(Put(t, m, d), t, m, d)
<1> DEFINE put == [k \in Rows[t].writes \cap DOMAIN m |-> m[k]]
<1>1. CASE t = "CIDFont0"
  <2>1. Put(t, m, d) = << >>
    BY <1>1 DEF Put
  <2> QED
    BY <1>1, <2>1 DEF IsPut, Sets, Stays, Nils
<1>2. CASE t = "Descriptor"
  <2>1. Put(t, m, d) = IF "Style" \in DOMAIN m THEN Over(put, Only("FontName", Nil)) ELSE put
    BY <1>2 DEF Put
  <2> QED
    BY <1>2, <2>1 DEF IsPut, Sets, Stays, Nils, Over, Only
<1>3. CASE t = "OutlineItem"
  <2>1. Put(t, m, d) = Over(put, [k \in DOMAIN d \ {"SE"} |-> d[k]])
    BY <1>3 DEF Put
  <2> QED
    BY <1>3, <2>1 DEF IsPut, Sets, Stays, Nils, Over
<1>4. CASE t \notin {"CIDFont0", "Descriptor", "OutlineItem"}
  <2>1. Put(t, m, d) = IF Rows[t].home = "kept" THEN Over(put, d) ELSE put
    BY <1>4 DEF Put
  <2> QED
    BY <1>4, <2>1 DEF IsPut, Sets, Stays, Nils, Over
<1> QED
  BY <1>1, <1>2, <1>3, <1>4

\* Nothing changes when the same model is written once more.
LEMMA PutTwice ==
  ASSUME NEW t, NEW m, NEW d
  PROVE  LET p == Put(t, m, d)
             q == Put(t, m, p)
         IN  DOMAIN q = DOMAIN p /\ \A k \in DOMAIN p : q[k] = p[k]
<1> DEFINE p == Put(t, m, d)
           q == Put(t, m, p)
<1>1. IsPut(p, t, m, d) /\ IsPut(q, t, m, p)
  BY PutIs
<1> HIDE DEF p, q
<1>2. Stays(t, p) \subseteq DOMAIN p
  BY DEF Stays
<1>3. Stays(t, d) \subseteq DOMAIN p
  BY <1>1 DEF IsPut
<1>4. Stays(t, d) \subseteq Stays(t, p)
  BY <1>3 DEF Stays
<1>5. DOMAIN q = DOMAIN p
  BY <1>1, <1>2, <1>4 DEF IsPut
<1>6. \A k \in DOMAIN p : q[k] = p[k]
  BY <1>1, <1>2, <1>4 DEF IsPut
<1> QED
  BY <1>5, <1>6 DEF p, q

-----------------------------------------------------------------------------
(* What is written is read as it was.                                       *)
Printable(d) == \A k \in DOMAIN d : d[k] # Nil

\* To write m into d changes nothing.
Settled(t, m, d, e) ==
  \A k \in DOMAIN d \cup DOMAIN Put(t, m, d) :
    \/ k \in DOMAIN d /\ k \in DOMAIN Put(t, m, d) /\ Put(t, m, d)[k] = d[k]
    \/ e # << >> /\ k \in Defaults(t) \cup Spoilt(t)

\* A model that was read from d, or from what it was written to, and has been
\* changed if there are edits.
ModelOK(t, m, d, e) ==
  /\ DOMAIN m \subseteq Rows[t].reads \ Lost(t)
  /\ e = << >> => Defaults(t) \subseteq DOMAIN m
  /\ t \in Meshes =>
       /\ "BitsPerFlag" \in DOMAIN d
       /\ e = << >> => /\ "BitsPerFlag" \notin DOMAIN m /\ "BitsPerComponent" \in DOMAIN m
                       /\ m["BitsPerComponent"] = d["BitsPerFlag"]

LEMMA NoDefaults == Defaults("OutlineItem") = {} /\ Defaults("Descriptor") = {} /\ Defaults("CIDFont0") = {}
BY DEF Defaults

LEMMA WrittenIsSettled ==
  ASSUME NEW t \in Types, NEW m, NEW d, NEW e, ModelOK(t, m, d, e), NEW f, IsPut(f, t, m, d), Printable(f)
  PROVE  Settled(t, Take(t, f), f, e)
<1> DEFINE n == Take(t, f)
           p == Put(t, n, f)
<1>1. IsTaken(n, t, f) /\ IsPut(p, t, n, f)
  BY TakeIs, PutIs
<1>2. RowOK(t)
  BY TableOK
<1> HIDE DEF n, p
<1>3. DOMAIN f = Sets(t, m) \cup Stays(t, d)
  BY DEF IsPut, Printable
<1>4. Nils(t, n) = {}
  <2> SUFFICES ASSUME t = "Descriptor", "Style" \in DOMAIN n PROVE FALSE
    BY DEF Nils
  <2>1. DOMAIN f \subseteq Rows[t].writes
    BY <1>3 DEF Stays, Sets
  <2>2. "Style" \notin DOMAIN f
    BY <2>1, OtherRows
  <2> QED
    BY <1>1, <2>2, NoDefaults DEF IsTaken, Got
<1>5. \/ Stays(t, f) = DOMAIN f
      \/ Stays(t, f) = {} /\ Stays(t, d) = {} /\ t \notin Meshes
  <2>1. CASE t \in {"CIDFont0", "Descriptor"}
    BY <2>1, MeshRows DEF Stays
  <2>2. CASE t = "OutlineItem"
    <3>1. "SE" \notin DOMAIN m
      BY <2>2 DEF ModelOK, Lost
    <3>2. "SE" \notin DOMAIN f
      BY <1>3, <2>2, <3>1 DEF Stays, Sets
    <3> QED
      BY <2>2, <3>2 DEF Stays
  <2>3. CASE t \notin {"CIDFont0", "Descriptor", "OutlineItem"}
    BY <2>3, MeshRows DEF Stays
  <2> QED
    BY <2>1, <2>2, <2>3
<1>6. ASSUME NEW k \in DOMAIN f
      PROVE  \/ k \in DOMAIN p /\ p[k] = f[k]
             \/ e # << >> /\ k \in Spoilt(t)
  <2>1. CASE k \in Sets(t, n) /\ k \in Got(t, f)
    <3>1. k \in DOMAIN p /\ p[k] = n[k]
      BY <1>1, <2>1 DEF IsPut
    <3>2. CASE t \in Meshes /\ k = "BitsPerComponent"
      <4>1. CASE e # << >>
        BY <3>2, <4>1, MeshRows
      <4>2. CASE e = << >>
        <5>1. n[k] = f["BitsPerFlag"]
          BY <1>1, <2>1, <3>2 DEF IsTaken
        <5>2. k \in Sets(t, m) /\ m[k] = d["BitsPerFlag"]
          BY <2>1, <3>2, <4>2 DEF Sets, ModelOK
        <5>3. "BitsPerFlag" \in Stays(t, d) \ Sets(t, m)
          BY <3>2, <4>2, MeshRows DEF Stays, Sets, ModelOK
        <5> QED
          BY <3>1, <5>1, <5>2, <5>3 DEF IsPut
      <4> QED
        BY <4>1, <4>2
    <3>3. CASE ~(t \in Meshes /\ k = "BitsPerComponent")
      BY <1>1, <2>1, <3>1, <3>3 DEF IsTaken
    <3> QED
      BY <3>2, <3>3
  <2>2. CASE k \in Sets(t, n) /\ k \notin Got(t, f)
    <3>1. k \in Defaults(t)
      BY <1>1, <2>2 DEF Sets, IsTaken
    <3>2. k \in Rows[t].reads
      BY <1>2, <3>1 DEF RowOK
    <3> QED
      BY <2>2, <3>1, <3>2, NoDefaults, MeshRows DEF Got, Lost, Dropped
  <2>3. CASE k \notin Sets(t, n)
    <3>1. CASE Stays(t, f) = DOMAIN f
      BY <1>1, <2>3, <3>1 DEF IsPut
    <3>2. CASE Stays(t, d) = {} /\ t \notin Meshes
      <4>1. k \in Sets(t, m)
        BY <1>3, <3>2
      <4>2. k \in Got(t, f)
        BY <3>2, <4>1 DEF Sets, Got, ModelOK, Dropped
      <4> QED
        BY <1>1, <2>3, <4>1, <4>2 DEF IsTaken, Sets
    <3> QED
      BY <1>5, <3>1, <3>2
  <2> QED
    BY <2>1, <2>2, <2>3
<1>7. ASSUME NEW k \in DOMAIN p \ DOMAIN f
      PROVE  e # << >> /\ k \in Defaults(t)
  <2>1. k \in Sets(t, n)
    BY <1>1, <1>4, <1>5, <1>7 DEF IsPut
  <2>2. k \in Defaults(t) /\ k \in Rows[t].writes /\ t # "CIDFont0"
    BY <1>1, <2>1 DEF Sets, IsTaken, Got
  <2>3. k \notin DOMAIN m
    BY <1>3, <2>2 DEF Sets
  <2> QED
    BY <2>2, <2>3 DEF ModelOK
<1> QED
  BY <1>6, <1>7 DEF n, p, Settled

\* What is taken is a model of what it was taken from.
LEMMA TakenIsModel ==
  ASSUME NEW t \in Types, NEW d, NEW e, Rows[t].needs \subseteq DOMAIN d
  PROVE  ModelOK(t, Take(t, d), d, e)
<1> DEFINE m == Take(t, d)
<1>1. IsTaken(m, t, d)
  BY TakeIs
<1>2. RowOK(t)
  BY TableOK
<1> HIDE DEF m
<1>3. DOMAIN m \subseteq Rows[t].reads \ Lost(t)
  BY <1>1, <1>2, NoDefaults DEF IsTaken, RowOK, Got, Lost
<1>4. Defaults(t) \subseteq DOMAIN m
  BY <1>1 DEF IsTaken
<1>5. ASSUME t \in Meshes
      PROVE  /\ "BitsPerFlag" \in DOMAIN d /\ "BitsPerFlag" \notin DOMAIN m
             /\ "BitsPerComponent" \in DOMAIN m /\ m["BitsPerComponent"] = d["BitsPerFlag"]
  <2>1. "BitsPerFlag" \in DOMAIN d /\ "BitsPerComponent" \in Got(t, d)
    BY <1>5, MeshRows DEF Got, Lost, Dropped
  <2>2. "BitsPerFlag" \notin DOMAIN m
    BY <1>1, <1>5, MeshRows DEF IsTaken, Got, Dropped
  <2> QED
    BY <1>1, <1>5, <2>1, <2>2 DEF IsTaken
<1> QED
  BY <1>3, <1>4, <1>5 DEF ModelOK, m

\* A model stays one of the dictionary it is written to.
LEMMA WrittenIsModel ==
  ASSUME NEW t, NEW m, NEW d, NEW e, ModelOK(t, m, d, e), NEW f, IsPut(f, t, m, d)
  PROVE  ModelOK(t, m, f, e)
<1> SUFFICES ASSUME t \in Meshes
             PROVE  /\ "BitsPerFlag" \in DOMAIN f
                    /\ "BitsPerFlag" \notin DOMAIN m => f["BitsPerFlag"] = d["BitsPerFlag"]
  BY DEF ModelOK
<1>1. "BitsPerFlag" \in Stays(t, d)
  BY MeshRows DEF Stays, ModelOK
<1> QED
  BY <1>1 DEF IsPut, Sets

\* f is g with k made v.
IsOver(f, k, v, g) ==
  /\ DOMAIN f = {k} \cup DOMAIN g /\ f[k] = v /\ f # << >>
  /\ \A j \in DOMAIN g \ {k} : f[j] = g[j]

LEMMA OverIs ==
  ASSUME NEW k, NEW v, NEW g
  PROVE  IsOver(Over(Only(k, v), g), k, v, g)
<1>1. DOMAIN Over(Only(k, v), g) = {k} \cup DOMAIN g
  BY DEF Over, Only
<1>2. DOMAIN << >> = {}
  OBVIOUS
<1>3. Over(Only(k, v), g) # << >>
  BY <1>1, <1>2
<1> QED
  BY <1>1, <1>3 DEF IsOver, Over, Only

-----------------------------------------------------------------------------
(* The invariant.                                                           *)
Started ==
  /\ kind \in Types \cup {"none"} /\ writes \in Nat
  /\ loaded \in BOOLEAN /\ shown \in BOOLEAN /\ seen \in BOOLEAN
  /\ loaded => kind \in Types
  /\ kind = "none" => ~loaded /\ ~shown /\ ~seen /\ writes = 0 /\ edits = << >>

\* A dictionary that was written and can be read is one that a second round
\* leaves alone; so is one that its model was read from after a first.
LoadInv ==
  /\ loaded => ModelOK(kind, FieldsHeld, file, edits)
  /\ ~loaded => /\ ~seen
                /\ \/ writes = 0 /\ ~shown /\ edits = << >>
                   \/ shown /\ Printable(file)
  /\ shown /\ Printable(file) => Settled(kind, Take(kind, file), file, edits)
  /\ seen => Settled(kind, FieldsHeld, file, edits)

\* Before anything is changed, entries are as they were in the file, and those
\* of a dictionary that will be made anew are all in the model.
ToKeep == (origin \cap Known(kind)) \ Spoilt(kind)
KeepInv ==
  kind \in Types /\ edits = << >> =>
    /\ \A k \in ToKeep : k \in DOMAIN file /\ file[k] = k
    /\ loaded => \A k \in ToKeep : /\ k \in DOMAIN FieldsHeld => FieldsHeld[k] = k
                                   /\ Rows[kind].home # "kept" => k \in DOMAIN FieldsHeld

\* What the client did is in the model or, of the flags of a mesh, which are
\* not taken from it, in the dictionary.
NewIn(k, m, d) ==
  \/ k \in DOMAIN m /\ m[k] = "new"
  \/ kind \in Meshes /\ k = "BitsPerFlag" /\ k \notin DOMAIN m /\ k \in DOMAIN d /\ d[k] = "new"
EditOf(how, k, m, b, d) ==
  /\ how = "new" => NewIn(k, m, d)
  /\ how = "gone" => Rows[kind].home = "kept" \/ k \in Defaults(kind) \/ k \in b \/ k \notin DOMAIN m
EditOK(e, m, b, d) ==
  \A k \in DOMAIN e \ Unwritten(kind) : EditOf(e[k], k, m, b, d)
EditInv ==
  /\ DOMAIN edits \subseteq Fields(kind)
  /\ loaded => DOMAIN base \subseteq Twice(kind) /\ EditOK(edits, FieldsHeld, DOMAIN base, file)
  /\ EditsShown

DictInv == Started /\ LoadInv /\ KeepInv /\ EditInv

LEMMA FieldsTaken ==
  ASSUME NEW t
  PROVE  Fields(t) \subseteq Rows[t].reads \ Lost(t)
BY DEF Fields, Lost, Fonts

LEMMA InitOK ==
  ASSUME DictInit
  PROVE  DictInv
<1>1. DOMAIN edits = {}
  BY DEF DictInit
<1>2. Started /\ EditInv
  BY <1>1 DEF DictInit, Started, EditInv, EditsShown
<1>3. LoadInv
  BY DEF DictInit, LoadInv
<1>4. KeepInv
  BY NoneIsNoType DEF DictInit, KeepInv
<1> QED
  BY <1>2, <1>3, <1>4 DEF DictInv

LEMMA OpenFileOK ==
  ASSUME DictInv, NEW t \in Types, OpenFile(t)
  PROVE  DictInv'
<1>1. /\ kind = "none" /\ kind' = t /\ file' = [k \in origin' |-> k] /\ loaded' = loaded /\ model' = model
      /\ edits' = edits /\ writes' = writes /\ shown' = shown /\ seen' = seen
  BY DEF OpenFile, DictIdle
<1>2. ~loaded /\ ~shown /\ ~seen /\ writes = 0 /\ edits = << >> /\ DOMAIN edits = {}
  BY <1>1 DEF DictInv, Started
<1>3. Started'
  BY <1>1, <1>2, NoneIsNoType DEF DictInv, Started
<1>4. LoadInv'
  BY <1>1, <1>2 DEF LoadInv
<1>5. KeepInv'
  BY <1>1, <1>2 DEF KeepInv, ToKeep
<1>6. EditInv'
  BY <1>1, <1>2 DEF EditInv, EditsShown
<1> QED
  BY <1>3, <1>4, <1>5, <1>6 DEF DictInv

LEMMA LoadModelOK ==
  ASSUME DictInv, LoadModel
  PROVE  DictInv'
<1>1. /\ ~loaded /\ kind \in Types /\ Rows[kind].needs \subseteq DOMAIN file /\ loaded' /\ loaded' = TRUE
      /\ seen' = (writes > 0) /\ kind' = kind /\ origin' = origin
      /\ file' = file /\ edits' = edits /\ writes' = writes /\ shown' = shown
      /\ DOMAIN base' = Twice(kind) \cap DOMAIN file /\ FieldsHeld' = Take(kind, file)
  BY HeldTaken DEF LoadModel, TakeBase, FieldsHeld
<1>2. IsTaken(FieldsHeld', kind, file)
  BY <1>1, TakeIs
<1>3. RowOK(kind)
  BY <1>1, TableOK
<1>4. Started'
  BY <1>1, NoneIsNoType DEF DictInv, Started
<1>5. LoadInv'
  <2>1. ModelOK(kind, FieldsHeld', file, edits)
    BY <1>1, TakenIsModel
  <2>2. ASSUME writes > 0
        PROVE  Settled(kind, FieldsHeld', file, edits)
    BY <1>1, <2>2 DEF DictInv, LoadInv
  <2> QED
    BY <1>1, <2>1, <2>2 DEF DictInv, LoadInv
<1>6. KeepInv'
  <2> SUFFICES ASSUME edits = << >>, NEW k \in ToKeep
               PROVE  /\ k \in DOMAIN FieldsHeld' => FieldsHeld'[k] = k
                      /\ Rows[kind].home # "kept" => k \in DOMAIN FieldsHeld'
    BY <1>1 DEF DictInv, KeepInv, ToKeep
  <2>1. k \in DOMAIN file /\ file[k] = k
    BY <1>1 DEF DictInv, KeepInv
  <2>2. ~(kind \in Meshes /\ k = "BitsPerComponent")
    BY MeshRows DEF ToKeep
  <2>3. k \in Got(kind, file) => FieldsHeld'[k] = k
    BY <1>2, <2>1, <2>2 DEF IsTaken
  <2>4. k \in DOMAIN FieldsHeld' => k \in Got(kind, file)
    <3> SUFFICES ASSUME k \in Defaults(kind)
                 PROVE  k \in Got(kind, file)
      BY <1>2 DEF IsTaken
    <3> QED
      BY <1>3, <2>1, NoDefaults, MeshRows DEF RowOK, Got, Lost, Dropped
  <2>5. Rows[kind].home # "kept" => k \in Got(kind, file)
    <3> SUFFICES ASSUME Rows[kind].home # "kept"
                 PROVE  k \in Got(kind, file)
      OBVIOUS
    <3>1. k \in Rows[kind].reads
      BY <1>3 DEF RowOK, ToKeep
    <3> QED
      BY <2>1, <3>1, MeshRows, OtherRows DEF Got, Lost, Dropped
  <2> QED
    BY <1>2, <2>3, <2>4, <2>5 DEF IsTaken
<1>7. EditInv'
  <2> SUFFICES ASSUME NEW k \in DOMAIN edits \ Unwritten(kind)
               PROVE  EditOf(edits[k], k, FieldsHeld', DOMAIN base', file)
    <3>1. EditOK(edits, FieldsHeld', DOMAIN base', file)
      BY DEF EditOK
    <3>2. EditOK(edits, FieldsHeld, DOMAIN base, file)'
      BY <1>1, <3>1 DEF EditOK, EditOf, NewIn
    <3>3. EditsShown'
      BY <1>1 DEF DictInv, EditInv, EditsShown, SecondField
    <3> QED
      BY <1>1, <3>2, <3>3 DEF DictInv, EditInv
  <2>1. shown /\ Printable(file)
    <3>1. edits # << >>
      BY SMT
    <3> QED
      BY <1>1, <3>1 DEF DictInv, LoadInv
  <2>2. k \in Rows[kind].reads \ Lost(kind)
    BY FieldsTaken DEF DictInv, EditInv
  <2>3. CASE edits[k] = "new"
    <3>1. k \in DOMAIN file /\ file[k] = "new"
      BY <2>1, <2>3 DEF DictInv, EditInv, EditsShown
    <3>2. ~(kind \in Meshes /\ k = "BitsPerComponent")
      BY MeshRows DEF Unwritten
    <3>3. CASE k \in Dropped(kind)
      <4>1. kind \in Meshes /\ k = "BitsPerFlag"
        BY <3>3 DEF Dropped
      <4>2. k \notin DOMAIN FieldsHeld'
        BY <1>2, <4>1, MeshRows DEF IsTaken, Got, Dropped
      <4> QED
        BY <2>3, <3>1, <4>1, <4>2 DEF EditOf, NewIn
    <3>4. CASE k \notin Dropped(kind)
      <4>1. k \in Got(kind, file)
        BY <2>2, <3>1, <3>4 DEF Got
      <4> QED
        BY <1>2, <2>3, <3>1, <3>2, <4>1 DEF IsTaken, EditOf, NewIn
    <3> QED
      BY <3>3, <3>4
  <2>4. CASE edits[k] = "gone"
    <3>1. \/ Rows[kind].home = "kept" \/ k \notin DOMAIN file \/ k \in Defaults(kind)
          \/ k \in Twice(kind)
      BY <2>1, <2>4 DEF DictInv, EditInv, EditsShown, Printable, SecondField
    <3> QED
      BY <1>1, <1>2, <2>4, <3>1 DEF IsTaken, Got, EditOf
  <2> QED
    BY <2>3, <2>4 DEF EditOf
<1> QED
  BY <1>4, <1>5, <1>6, <1>7 DEF DictInv

\* A change of one field; what is written of the other keys stays.
EditStep(k) ==
  /\ loaded /\ k \in Fields(kind)
  /\ DOMAIN FieldsHeld' \subseteq DOMAIN FieldsHeld \cup {k} /\ edits' # << >> /\ DOMAIN edits' = {k} \cup DOMAIN edits
  /\ \A j \in DOMAIN edits \ {k} : /\ edits'[j] = edits[j]
                                   /\ j \in DOMAIN FieldsHeld' <=> j \in DOMAIN FieldsHeld
                                   /\ j \in DOMAIN FieldsHeld' => FieldsHeld'[j] = FieldsHeld[j]
                                   /\ j \in DOMAIN base => j \in DOMAIN base'
  /\ DOMAIN base' \subseteq Twice(kind)
  /\ edits'[k] = "new" => k \in DOMAIN FieldsHeld' /\ FieldsHeld'[k] = "new"
  /\ edits'[k] = "gone" => k \notin DOMAIN FieldsHeld' \/ k \in DOMAIN base'
  /\ seen' = FALSE /\ shown' = FALSE
  /\ kind' = kind /\ origin' = origin /\ file' = file /\ loaded' = loaded /\ writes' = writes

LEMMA EditIsOK ==
  ASSUME DictInv, NEW k, EditStep(k)
  PROVE  DictInv'
<1> USE DEF EditStep
<1>1. Started'
  BY NoneIsNoType DEF DictInv, Started
<1>2. k \in Rows[kind].reads \ Lost(kind)
  BY FieldsTaken
<1>3. LoadInv'
  <2>1. ModelOK(kind, FieldsHeld', file, edits')
    BY <1>2 DEF DictInv, LoadInv, ModelOK
  <2> QED
    BY <2>1 DEF LoadInv
<1>4. KeepInv'
  BY DEF KeepInv
<1>5. EditOK(edits', FieldsHeld', DOMAIN base', file)
  <2> SUFFICES ASSUME NEW j \in DOMAIN edits' \ Unwritten(kind)
               PROVE  EditOf(edits'[j], j, FieldsHeld', DOMAIN base', file)
    BY DEF EditOK
  <2>1. CASE j = k
    BY <2>1 DEF EditOf, NewIn
  <2>2. CASE j # k
    <3>1. j \in DOMAIN edits \ Unwritten(kind)
      BY <2>2
    <3>2. EditOf(edits[j], j, FieldsHeld, DOMAIN base, file)
      BY <3>1 DEF DictInv, EditInv, EditOK
    <3> QED
      BY <2>2, <3>1, <3>2 DEF EditOf, NewIn
  <2> QED
    BY <2>1, <2>2
<1>6. EditInv'
  <2>1. DOMAIN edits' \subseteq Fields(kind)
    BY DEF DictInv, EditInv
  <2>2. EditOK(edits, FieldsHeld, DOMAIN base, file)'
    BY <1>5 DEF EditOK, EditOf, NewIn
  <2> QED
    BY <2>1, <2>2 DEF EditInv, EditsShown
<1> QED
  BY <1>1, <1>3, <1>4, <1>6 DEF DictInv

LEMMA SetFieldOK ==
  ASSUME DictInv, NEW k, SetField(k)
  PROVE  DictInv'
<1> DEFINE m == Over(Only(k, "new"), model)
           e == Over(Only(k, "new"), edits)
<1>1. /\ loaded /\ k \in Fields(kind) /\ model' = m /\ edits' = e /\ seen' = FALSE /\ shown' = FALSE
      /\ kind' = kind /\ origin' = origin /\ file' = file /\ loaded' = loaded /\ base' = base /\ writes' = writes
  BY DEF SetField, CanEdit
<1>2. IsOver(m, k, "new", model) /\ IsOver(e, k, "new", edits)
  BY OverIs
<1> HIDE DEF m, e
<1>3. FieldsHeld' = Over(m, base)
  BY <1>1 DEF FieldsHeld
<1>4. DOMAIN FieldsHeld' = DOMAIN FieldsHeld \cup {k} /\ FieldsHeld'[k] = "new" /\ \A j \in DOMAIN FieldsHeld \ {k} : FieldsHeld'[j] = FieldsHeld[j]
  BY <1>2, <1>3 DEF IsOver, FieldsHeld, Over
<1>5. e # << >> /\ DOMAIN e = {k} \cup DOMAIN edits /\ e[k] = "new" /\ \A j \in DOMAIN edits \ {k} : e[j] = edits[j]
  BY <1>2 DEF IsOver
<1>6. EditStep(k)
  BY <1>1, <1>4, <1>5 DEF EditStep, DictInv, EditInv
<1> QED
  BY <1>6, EditIsOK

LEMMA ClearFieldOK ==
  ASSUME DictInv, NEW k, ClearField(k)
  PROVE  DictInv'
<1> DEFINE m == [j \in DOMAIN model \ {k} |-> model[j]]
           e == Over(Only(k, "gone"), edits)
<1>1. /\ loaded /\ k \in Fields(kind) /\ model' = m /\ edits' = e /\ seen' = FALSE /\ shown' = FALSE
      /\ kind' = kind /\ origin' = origin /\ file' = file /\ loaded' = loaded /\ base' = base /\ writes' = writes
  BY DEF ClearField, CanEdit
<1>2. /\ DOMAIN m = DOMAIN model \ {k}
      /\ \A j \in DOMAIN model \ {k} : m[j] = model[j]
  OBVIOUS
<1>3. IsOver(e, k, "gone", edits)
  BY OverIs
<1> HIDE DEF m, e
<1>4. FieldsHeld' = Over(m, base)
  BY <1>1 DEF FieldsHeld
<1>5. /\ DOMAIN FieldsHeld' \subseteq DOMAIN FieldsHeld /\ DOMAIN FieldsHeld \ {k} \subseteq DOMAIN FieldsHeld'
      /\ k \in DOMAIN FieldsHeld' => k \in DOMAIN base
      /\ \A j \in DOMAIN FieldsHeld \ {k} : FieldsHeld'[j] = FieldsHeld[j]
  BY <1>2, <1>4 DEF FieldsHeld, Over
<1>6. e # << >> /\ DOMAIN e = {k} \cup DOMAIN edits /\ e[k] = "gone" /\ \A j \in DOMAIN edits \ {k} : e[j] = edits[j]
  BY <1>3 DEF IsOver
<1>7. EditStep(k)
  BY <1>1, <1>5, <1>6 DEF EditStep, DictInv, EditInv
<1> QED
  BY <1>7, EditIsOK

LEMMA SetBaseOK ==
  ASSUME DictInv, NEW k, SetBase(k)
  PROVE  DictInv'
<1> DEFINE b == Over(Only(k, "new"), base)
           e == Over(Only(k, "base"), edits)
<1>1. /\ loaded /\ k \in Fields(kind) /\ k \in Twice(kind) /\ base' = b /\ edits' = e /\ seen' = FALSE
      /\ shown' = FALSE /\ kind' = kind /\ origin' = origin /\ file' = file /\ loaded' = loaded
      /\ model' = model /\ writes' = writes
  BY DEF SetBase, CanEdit
<1>2. IsOver(b, k, "new", base) /\ IsOver(e, k, "base", edits)
  BY OverIs
<1> HIDE DEF b, e
<1>3. FieldsHeld' = Over(model, b)
  BY <1>1 DEF FieldsHeld
<1>4. DOMAIN FieldsHeld' = DOMAIN FieldsHeld \cup {k} /\ \A j \in DOMAIN FieldsHeld \ {k} : FieldsHeld'[j] = FieldsHeld[j]
  BY <1>2, <1>3 DEF IsOver, FieldsHeld, Over
<1>5. e # << >> /\ DOMAIN e = {k} \cup DOMAIN edits /\ e[k] = "base" /\ \A j \in DOMAIN edits \ {k} : e[j] = edits[j]
  BY <1>2 DEF IsOver
<1>6. DOMAIN base' = DOMAIN base \cup {k}
  BY <1>1, <1>2 DEF IsOver
<1>7. EditStep(k)
  BY <1>1, <1>4, <1>5, <1>6 DEF EditStep, DictInv, EditInv
<1> QED
  BY <1>7, EditIsOK

LEMMA ClearBaseOK ==
  ASSUME DictInv, NEW k, ClearBase(k)
  PROVE  DictInv'
<1> DEFINE b == [j \in DOMAIN base \ {k} |-> base[j]]
           e == Over(Only(k, "base"), edits)
<1>1. /\ loaded /\ k \in Fields(kind) /\ base' = b /\ edits' = e /\ seen' = FALSE
      /\ shown' = FALSE /\ kind' = kind /\ origin' = origin /\ file' = file /\ loaded' = loaded
      /\ model' = model /\ writes' = writes
  BY DEF ClearBase, CanEdit
<1>2. DOMAIN b = DOMAIN base \ {k} /\ \A j \in DOMAIN base \ {k} : b[j] = base[j]
  OBVIOUS
<1>3. IsOver(e, k, "base", edits)
  BY OverIs
<1> HIDE DEF b, e
<1>4. FieldsHeld' = Over(model, b)
  BY <1>1 DEF FieldsHeld
<1>5. /\ DOMAIN FieldsHeld' \subseteq DOMAIN FieldsHeld /\ DOMAIN FieldsHeld \ {k} \subseteq DOMAIN FieldsHeld'
      /\ \A j \in DOMAIN FieldsHeld \ {k} : FieldsHeld'[j] = FieldsHeld[j]
  BY <1>2, <1>4 DEF FieldsHeld, Over
<1>6. e # << >> /\ DOMAIN e = {k} \cup DOMAIN edits /\ e[k] = "base" /\ \A j \in DOMAIN edits \ {k} : e[j] = edits[j]
  BY <1>3 DEF IsOver
<1>7. DOMAIN base' = DOMAIN base \ {k}
  BY <1>1, <1>2
<1>8. EditStep(k)
  BY <1>1, <1>5, <1>6, <1>7 DEF EditStep, DictInv, EditInv
<1> QED
  BY <1>8, EditIsOK

LEMMA WriteModelOK ==
  ASSUME DictInv, WriteModel
  PROVE  DictInv'
<1>1. /\ loaded /\ kind \in Types /\ file' = Put(kind, FieldsHeld, file) /\ writes' = writes + 1 /\ shown' = TRUE
      /\ UNCHANGED <<kind, origin, loaded, model, base, edits, seen>>
      /\ FieldsHeld' = FieldsHeld
  BY DEF WriteModel, DictInv, Started, FieldsHeld
<1>2. IsPut(file', kind, FieldsHeld, file)
  BY <1>1, PutIs
<1>3. ModelOK(kind, FieldsHeld, file, edits)
  BY <1>1 DEF DictInv, LoadInv
<1>4. RowOK(kind)
  BY <1>1, TableOK
<1>5. Started'
  BY <1>1, NoneIsNoType DEF DictInv, Started
<1>6. LoadInv'
  <2>1. ModelOK(kind, FieldsHeld, file', edits)
    BY <1>2, <1>3, WrittenIsModel
  <2>2. ASSUME Printable(file')
        PROVE  Settled(kind, Take(kind, file'), file', edits)
    BY <1>1, <1>2, <1>3, <2>2, WrittenIsSettled
  <2>3. Settled(kind, FieldsHeld, file', edits)
    BY <1>1, PutTwice DEF Settled
  <2> QED
    BY <1>1, <2>1, <2>2, <2>3 DEF LoadInv, Printable
<1>7. KeepInv'
  <2> SUFFICES ASSUME edits = << >>, NEW k \in ToKeep
               PROVE  k \in DOMAIN file' /\ file'[k] = k
    BY <1>1 DEF DictInv, KeepInv, ToKeep
  <2>1. /\ k \in DOMAIN file /\ file[k] = k
        /\ k \in DOMAIN FieldsHeld => FieldsHeld[k] = k
        /\ Rows[kind].home # "kept" => k \in DOMAIN FieldsHeld
    BY <1>1 DEF DictInv, KeepInv
  <2>2. kind # "CIDFont0"
    BY OtherRows DEF ToKeep
  <2>3. k \in Sets(kind, FieldsHeld) \/ k \in Stays(kind, file)
    <3>1. CASE Rows[kind].home # "kept"
      BY <1>4, <2>1, <2>2, <3>1 DEF RowOK, ToKeep, Sets
    <3>2. CASE Rows[kind].home = "kept"
      <4>1. kind # "Descriptor" /\ (kind = "OutlineItem" => k # "SE")
        BY <3>2, OtherRows DEF ToKeep
      <4> QED
        BY <2>1, <2>2, <3>2, <4>1 DEF Stays
    <3> QED
      BY <3>1, <3>2
  <2>4. k \in Sets(kind, FieldsHeld) => file'[k] = k
    BY <1>2, <2>1 DEF IsPut, Sets
  <2> QED
    BY <1>2, <2>1, <2>3, <2>4 DEF IsPut
<1>8. ASSUME NEW k \in DOMAIN edits \ Unwritten(kind)
      PROVE  /\ edits[k] = "new" => k \in DOMAIN file' /\ file'[k] = "new" /\ NewIn(k, FieldsHeld, file')
             /\ edits[k] = "gone" =>
                  \/ Rows[kind].home = "kept" \/ k \in Defaults(kind) \/ k \in DOMAIN base
                  \/ k \notin DOMAIN FieldsHeld /\ (k \notin DOMAIN file' \/ file'[k] = Nil)
  <2>1. k \in Rows[kind].writes /\ kind # "CIDFont0"
    BY <1>4, OtherRows DEF DictInv, EditInv, RowOK
  <2>2. EditOf(edits[k], k, FieldsHeld, DOMAIN base, file)
    BY <1>1 DEF DictInv, EditInv, EditOK
  <2>3. CASE edits[k] = "new" /\ k \in DOMAIN FieldsHeld
    <3>1. FieldsHeld[k] = "new" /\ k \in Sets(kind, FieldsHeld)
      BY <2>1, <2>2, <2>3 DEF EditOf, NewIn, Sets
    <3> QED
      BY <1>2, <2>3, <3>1 DEF IsPut, NewIn
  <2>4. CASE edits[k] = "new" /\ k \notin DOMAIN FieldsHeld
    <3>1. kind \in Meshes /\ k = "BitsPerFlag" /\ k \in DOMAIN file /\ file[k] = "new"
      BY <2>2, <2>4 DEF EditOf, NewIn
    <3>2. k \in Stays(kind, file) \ Sets(kind, FieldsHeld)
      BY <2>4, <3>1, MeshRows DEF Stays, Sets
    <3> QED
      BY <1>2, <2>4, <3>1, <3>2 DEF IsPut, NewIn
  <2>5. CASE edits[k] = "gone" /\ Rows[kind].home # "kept" /\ k \notin DOMAIN FieldsHeld
    <3>1. k \notin Sets(kind, FieldsHeld) /\ Stays(kind, file) = {}
      BY <2>5, OtherRows DEF Sets, Stays
    <3> QED
      BY <1>2, <2>5, <3>1 DEF IsPut
  <2> QED
    BY <2>2, <2>3, <2>4, <2>5 DEF EditOf
<1>9. EditInv'
  <2>1. EditOK(edits, FieldsHeld, DOMAIN base, file')
    BY <1>8 DEF EditOK, EditOf
  <2>2. EditOK(edits, FieldsHeld, DOMAIN base, file)'
    BY <1>1, <2>1 DEF EditOK, EditOf, NewIn
  <2>3. DOMAIN base \subseteq Twice(kind)
    BY <1>1 DEF DictInv, EditInv
  <2>4. EditsShown'
    BY <1>1, <1>8, <2>3 DEF EditsShown, SecondField
  <2> QED
    BY <1>1, <2>2, <2>3, <2>4 DEF DictInv, EditInv
<1> QED
  BY <1>5, <1>6, <1>7, <1>9 DEF DictInv

LEMMA ReopenOK ==
  ASSUME DictInv, Reopen
  PROVE  DictInv'
<1>1. /\ loaded /\ shown /\ Printable(file) /\ loaded' = FALSE /\ seen' = FALSE
      /\ UNCHANGED <<kind, origin, file, edits, writes, shown>>
  BY DEF Reopen, Printable
<1>2. Started'
  BY <1>1 DEF DictInv, Started
<1>3. LoadInv'
  BY <1>1 DEF DictInv, LoadInv
<1>4. KeepInv'
  BY <1>1 DEF DictInv, KeepInv, ToKeep
<1>5. EditInv'
  BY <1>1 DEF DictInv, EditInv, EditsShown, SecondField
<1> QED
  BY <1>2, <1>3, <1>4, <1>5 DEF DictInv

LEMMA StepOK ==
  ASSUME DictInv, [DictNext]_dictVars
  PROVE  DictInv'
<1>1. ASSUME NEW t \in Types, OpenFile(t) PROVE DictInv'
  BY <1>1, OpenFileOK
<1>2. CASE LoadModel
  BY <1>2, LoadModelOK
<1>3. CASE WriteModel
  BY <1>3, WriteModelOK
<1>4. CASE Reopen
  BY <1>4, ReopenOK
<1>5. ASSUME NEW k, SetField(k) PROVE DictInv'
  BY <1>5, SetFieldOK
<1>6. ASSUME NEW k, ClearField(k) PROVE DictInv'
  BY <1>6, ClearFieldOK
<1>7. ASSUME NEW k, SetBase(k) PROVE DictInv'
  BY <1>7, SetBaseOK
<1>8. ASSUME NEW k, ClearBase(k) PROVE DictInv'
  BY <1>8, ClearBaseOK
<1>9. CASE UNCHANGED dictVars
  BY <1>9 DEF dictVars, DictInv, Started, LoadInv, KeepInv, ToKeep, EditInv, EditOK, EditOf, NewIn, EditsShown,
    SecondField, FieldsHeld
<1> QED
  BY <1>1, <1>2, <1>3, <1>4, <1>5, <1>6, <1>7, <1>8, <1>9 DEF DictNext

-----------------------------------------------------------------------------
THEOREM DictInvHolds == DictSpec => []DictInv
<1>1. DictInit => DictInv
  BY InitOK
<1>2. DictInv /\ [DictNext]_dictVars => DictInv'
  BY StepOK
<1> QED
  BY <1>1, <1>2, PTL DEF DictSpec

\* Whatever a dictionary has: what is read and written is kept but for what
\* Spoilt names, and what a client changed is written but for what Unwritten
\* names (ToPdfObject and newPdf...FromDict of all types).
THEOREM DictsSoundHolds == DictSpec => []DictsSound
<1>1. DictInv => DictsSound
  <2> SUFFICES ASSUME DictInv PROVE DictsSound
    OBVIOUS
  <2>1. KeysKept
    BY DEF DictInv, KeepInv, KeysKept, ToKeep
  <2> QED
    BY <2>1 DEF DictInv, EditInv, DictsSound
<1> QED
  BY <1>1, DictInvHolds, PTL

\* A second round of reading and writing changes nothing (ToPdfObject).
THEOREM WriteStableHolds == DictSpec => WriteStable
<1> DEFINE Stable == seen /\ writes' > writes =>
             \A k \in DOMAIN file \cup DOMAIN file' :
               \/ k \in DOMAIN file /\ k \in DOMAIN file' /\ file'[k] = file[k]
               \/ edits # << >> /\ k \in Defaults(kind) \cup Spoilt(kind)
<1>1. DictInv /\ [DictNext]_dictVars => [Stable]_dictVars
  <2> SUFFICES ASSUME DictInv, DictNext, seen, writes' > writes
               PROVE  Stable
    BY DEF dictVars
  <2>1. writes \in Nat /\ Settled(kind, FieldsHeld, file, edits)
    BY DEF DictInv, Started, LoadInv
  <2>2. writes' # writes
    BY <2>1
  <2>3. WriteModel
    BY <2>2 DEF DictNext, OpenFile, LoadModel, Reopen, SetField, ClearField, SetBase, ClearBase
  <2>4. file' = Put(kind, FieldsHeld, file)
    BY <2>3 DEF WriteModel
  <2> QED
    BY <2>1, <2>4 DEF Settled
<1> QED
  BY <1>1, DictInvHolds, PTL DEF DictSpec, WriteStable
=============================================================================

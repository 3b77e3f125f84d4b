--------------------------- MODULE RevisionProofs ---------------------------
(***************************************************************************)
(* Proofs about revisions: which objects one is made of (Appender) and     *)
(* which bytes its signatures cover (Signatures).                          *)
(*                                                                         *)
(* Appender: whatever the calls, for every file and every document that    *)
(* pages are taken from, a revision that is written shows the pages asked  *)
(* for and is closed; and the names in it mean the same after any number   *)
(* of pages were merged, but for those that replacing text loses.          *)
(*                                                                         *)
(* Signatures: in every file, after any number of revisions with any       *)
(* number of signatures, what is digested is what is covered.  Lengths are *)
(* all that is needed of what is written: the dictionaries of a revision   *)
(* lie apart, and in each of them Contents and ByteRange do.               *)
(***************************************************************************)
EXTENDS Signatures, Appender, CommonLemmas

-----------------------------------------------------------------------------
(* Sequences.                                                               *)
IsSeq(s) == Len(s) \in Nat /\ DOMAIN s = 1 .. Len(s) /\ s = [i \in 1 .. Len(s) |-> s[i]]

LEMMA SeqIs ==
  ASSUME NEW S, NEW s \in Seq(S)
  PROVE  IsSeq(s) /\ \A i \in 1 .. Len(s) : s[i] \in S
BY DEF IsSeq

LEMMA IsSeqOf ==
  ASSUME NEW S, NEW s, IsSeq(s), \A i \in 1 .. Len(s) : s[i] \in S
  PROVE  s \in Seq(S)
<1>1. s \in [1 .. Len(s) -> S] /\ Len(s) \in Nat
  BY DEF IsSeq
<1> QED
  BY <1>1

(* The one function that is Unstamped of every beginning of an array.       *)
KeptIn(f, s, m) ==
  [i \in 0 .. m |-> IF i = 0 THEN << >>
                    ELSE IF s[i] = Stamp THEN f[i - 1] ELSE Append(f[i - 1], s[i])]

LEMMA StamplessExists ==
  ASSUME NEW s, NEW n \in Nat
  PROVE  \E f : f = KeptIn(f, s, n)
<1> DEFINE Exists(m) == \E f : f = KeptIn(f, s, m)
           Bad == {m \in 0 .. n : ~Exists(m)}
<1> SUFFICES ASSUME Bad # {} PROVE FALSE
  OBVIOUS
<1>1. PICK m \in Bad : \A k \in Bad : m <= k
  <2> HIDE DEF Exists
  <2>1. Bad \in SUBSET Nat
    OBVIOUS
  <2> QED
    BY <2>1, LeastOf
<1>2. m # 0
  <2> DEFINE f == [i \in 0 .. 0 |-> << >>]
  <2>1. f = KeptIn(f, s, 0)
    BY DEF KeptIn
  <2> QED
    BY <2>1
<1>3. m \in 1 .. n /\ m - 1 \in 0 .. n /\ m - 1 \notin Bad
  <2> HIDE DEF Exists
  <2> QED
    BY <1>1, <1>2
<1>4. PICK f : f = KeptIn(f, s, m - 1)
  BY <1>3
<1> DEFINE next == IF s[m] = Stamp THEN f[m - 1] ELSE Append(f[m - 1], s[m])
           h == [i \in 0 .. m |-> IF i = m THEN next ELSE f[i]]
<1>5. \A i \in 0 .. m - 1 : h[i] = f[i]
  BY <1>3
<1>6. \A i \in 0 .. m : h[i] = KeptIn(h, s, m)[i]
  <2> TAKE i \in 0 .. m
  <2>1. CASE i = m
    BY <1>3, <1>5, <2>1 DEF KeptIn
  <2>2. CASE i # m
    <3>1. i \in 0 .. m - 1 /\ (i # 0 => i - 1 \in 0 .. m - 1)
      BY <1>3, <2>2
    <3>2. f[i] = IF i = 0 THEN << >>
                 ELSE IF s[i] = Stamp THEN f[i - 1] ELSE Append(f[i - 1], s[i])
      BY <1>4, <3>1 DEF KeptIn
    <3> HIDE DEF h
    <3>3. h[i] = f[i] /\ (i # 0 => h[i - 1] = f[i - 1])
      BY <1>5, <3>1
    <3> QED
      BY <3>2, <3>3 DEF KeptIn
  <2> QED
    BY <2>1, <2>2
<1>7. h = KeptIn(h, s, m)
  <2>1. DOMAIN h = 0 .. m /\ DOMAIN KeptIn(h, s, m) = 0 .. m
    BY DEF KeptIn
  <2>2. h = [i \in 0 .. m |-> h[i]] /\ KeptIn(h, s, m) = [i \in 0 .. m |-> KeptIn(h, s, m)[i]]
    BY DEF KeptIn
  <2> HIDE DEF h
  <2> QED
    BY <1>6, <2>2
<1> QED
  BY <1>1, <1>7

LEMMA StamplessIs ==
  ASSUME NEW s, Len(s) \in Nat
  PROVE  \A i \in 0 .. Len(s) :
           Stampless(s)[i] = IF i = 0 THEN << >>
                             ELSE IF s[i] = Stamp THEN Stampless(s)[i - 1]
                                  ELSE Append(Stampless(s)[i - 1], s[i])
<1> DEFINE f == CHOOSE f : f = KeptIn(f, s, Len(s))
<1>1. Stampless(s) = f
  BY DEF Stampless, KeptIn
<1>2. f = KeptIn(f, s, Len(s))
  BY StamplessExists
<1> HIDE DEF f
<1> QED
  BY <1>1, <1>2 DEF KeptIn

(* Two arrays that begin alike.                                             *)
LEMMA StamplessSame ==
  ASSUME NEW s, NEW t, Len(s) \in Nat, Len(t) \in Nat, Len(s) <= Len(t),
         \A i \in 1 .. Len(s) : s[i] = t[i]
  PROVE  \A i \in 0 .. Len(s) : Stampless(s)[i] = Stampless(t)[i]
<1> DEFINE Bad == {i \in 0 .. Len(s) : Stampless(s)[i] # Stampless(t)[i]}
<1> SUFFICES ASSUME Bad # {} PROVE FALSE
  OBVIOUS
<1>1. PICK m \in Bad : \A k \in Bad : m <= k
  <2>1. Bad \in SUBSET Nat
    OBVIOUS
  <2> QED
    BY <2>1, LeastOf
<1>2. m \in 0 .. Len(s) /\ m \in 0 .. Len(t) /\ Stampless(s)[m] # Stampless(t)[m]
  OBVIOUS
<1>3. m # 0 => m - 1 \in 0 .. Len(s) /\ m - 1 \notin Bad /\ m \in 1 .. Len(s)
  BY <1>1
<1>4. m # 0 => Stampless(s)[m - 1] = Stampless(t)[m - 1]
  BY <1>3
<1> HIDE DEF Bad
<1> QED
  BY <1>2, <1>3, <1>4, StamplessIs

LEMMA UnstampedEmpty == Unstamped(<< >>) = << >>
<1>1. Len(<< >>) = 0
  OBVIOUS
<1> QED
  BY <1>1, StamplessIs DEF Unstamped

LEMMA UnstampedAppend ==
  ASSUME NEW S, NEW s \in Seq(S), NEW x
  PROVE  Unstamped(Append(s, x)) = IF x = Stamp THEN Unstamped(s) ELSE Append(Unstamped(s), x)
<1> DEFINE t == Append(s, x)
           n == Len(s)
<1>1. n \in Nat /\ Len(t) = n + 1 /\ t[n + 1] = x /\ \A i \in 1 .. n : s[i] = t[i]
  OBVIOUS
<1> HIDE DEF t
<1>2. Stampless(s)[n] = Stampless(t)[n]
  BY <1>1, StamplessSame
<1>3. Stampless(t)[n + 1] = IF t[n + 1] = Stamp THEN Stampless(t)[n] ELSE Append(Stampless(t)[n], t[n + 1])
  <2>1. n + 1 \in 0 .. Len(t) /\ n + 1 # 0 /\ (n + 1) - 1 = n /\ Len(t) \in Nat
    BY <1>1
  <2> QED
    BY <2>1, StamplessIs
<1> QED
  BY <1>1, <1>2, <1>3 DEF Unstamped, t

LEMMA StamplessType ==
  ASSUME NEW S, NEW s \in Seq(S)
  PROVE  \A i \in 0 .. Len(s) : Stampless(s)[i] \in Seq(S)
<1> DEFINE G == {i \in 0 .. Len(s) : Stampless(s)[i] \in Seq(S)}
           n == Len(s)
<1>1. n \in Nat /\ \A i \in 1 .. n : s[i] \in S
  OBVIOUS
<1>2. 0 \in G
  <2>1. Stampless(s)[0] = << >> /\ 0 \in 0 .. n
    BY <1>1, StamplessIs
  <2>2. << >> \in Seq(S)
    OBVIOUS
  <2> HIDE DEF n
  <2> QED
    BY <2>1, <2>2 DEF n
<1>3. ASSUME NEW m \in 1 .. n, m - 1 \in G PROVE m \in G
  <2> DEFINE a == Stampless(s)[m - 1]
  <2>1. a \in Seq(S) /\ s[m] \in S /\ m \in 0 .. n /\ m # 0
    BY <1>1, <1>3
  <2>2. Stampless(s)[m] = IF s[m] = Stamp THEN a ELSE Append(a, s[m])
    BY <1>1, <2>1, StamplessIs
  <2> HIDE DEF a
  <2>3. Stampless(s)[m] \in Seq(S)
    BY <2>1, <2>2
  <2> QED
    BY <2>1, <2>3
<1> HIDE DEF G
<1>4. \A m \in 0 .. n : m \in G
  BY <1>1, <1>2, <1>3, UpTo
<1> QED
  BY <1>4 DEF G

LEMMA UnstampedType ==
  ASSUME NEW S, NEW s \in Seq(S)
  PROVE  Unstamped(s) \in Seq(S)
<1>1. Len(s) \in 0 .. Len(s)
  OBVIOUS
<1> QED
  BY <1>1, StamplessType DEF Unstamped

Appended(a, b, x) == Append(a \o b, x) = a \o Append(b, x)

LEMMA AppendConcat ==
  ASSUME NEW S, NEW a \in Seq(S), NEW b \in Seq(S), NEW x \in S
  PROVE  Appended(a, b, x)
<1> DEFINE l == Append(a \o b, x)
           r == a \o Append(b, x)
<1>1. l \in Seq(S) /\ r \in Seq(S) /\ Len(l) = Len(r)
  OBVIOUS
<1>2. \A i \in 1 .. Len(l) : l[i] = r[i]
  OBVIOUS
<1> HIDE DEF l, r
<1>3. l = r
  BY <1>1, <1>2
<1> QED
  BY <1>3 DEF l, r, Appended

LEMMA UnstampedConcat ==
  ASSUME NEW S, NEW s \in Seq(S), NEW t \in Seq(S)
  PROVE  Unstamped(s \o t) = Unstamped(s) \o Unstamped(t)
<1> DEFINE u == s \o t
           n == Len(s)
           o == Len(t)
           Right(i) == Stampless(u)[n + i] = Unstamped(s) \o Stampless(t)[i]
           G == {i \in 0 .. o : Right(i)}
<1>1. /\ n \in Nat /\ o \in Nat /\ Len(u) = n + o
      /\ \A i \in 1 .. n : s[i] = u[i]
      /\ \A i \in 1 .. o : u[n + i] = t[i] /\ t[i] \in S
  OBVIOUS
<1>2. Unstamped(s) \in Seq(S) /\ \A i \in 0 .. o : Stampless(t)[i] \in Seq(S)
  BY UnstampedType, StamplessType
<1> HIDE DEF u
<1>3. Right(0)
  <2>1. Stampless(s)[n] = Stampless(u)[n]
    <3>1. /\ Len(s) \in Nat /\ Len(u) \in Nat /\ Len(s) <= Len(u) /\ Len(s) \in 0 .. Len(s)
          /\ \A i \in 1 .. Len(s) : s[i] = u[i]
      BY <1>1
    <3> QED
      BY <3>1, StamplessSame
  <2>2. Stampless(t)[0] = << >> /\ n + 0 = n
    BY <1>1, StamplessIs
  <2>3. Unstamped(s) \o << >> = Unstamped(s)
    BY <1>2
  <2> QED
    BY <2>1, <2>2, <2>3 DEF Unstamped
<1>4. ASSUME NEW m \in 1 .. o, Right(m - 1) PROVE Right(m)
  <2> DEFINE a == Stampless(u)[n + (m - 1)]
             b == Stampless(t)[m - 1]
             v == Unstamped(s)
  <2>1. a = v \o b
    BY <1>4
  <2>2. m - 1 \in 0 .. o /\ m \in 0 .. o /\ m # 0
    BY <1>1
  <2>3. b \in Seq(S) /\ v \in Seq(S) /\ t[m] \in S
    BY <1>1, <1>2, <2>2
  <2>4. Stampless(t)[m] = IF t[m] = Stamp THEN b ELSE Append(b, t[m])
    BY <1>1, <2>2, StamplessIs
  <2>5. Stampless(u)[n + m] = IF t[m] = Stamp THEN a ELSE Append(a, t[m])
    <3>1. n + m \in 0 .. Len(u) /\ n + m # 0 /\ (n + m) - 1 = n + (m - 1) /\ Len(u) \in Nat
      <4> HIDE DEF n, o
      <4> QED
        BY <1>1
    <3>2. u[n + m] = t[m]
      BY <1>1
    <3> HIDE DEF n, o
    <3> QED
      BY <3>1, <3>2, StamplessIs
  <2> HIDE DEF a, b, v
  <2>6. Append(v \o b, t[m]) = v \o Append(b, t[m])
    <3> DEFINE x == t[m]
    <3>1. x \in S
      BY <2>3
    <3> HIDE DEF x
    <3>2. Appended(v, b, x)
      BY <2>3, <3>1, AppendConcat
    <3> QED
      BY <3>2 DEF x, Appended
  <2>7. Stampless(u)[n + m] = v \o Stampless(t)[m]
    BY <2>1, <2>4, <2>5, <2>6
  <2> QED
    BY <2>7 DEF v
<1> HIDE DEF Right
<1>5. 0 \in G /\ \A m \in 1 .. o : m - 1 \in G => m \in G
  <2>1. \A m \in 1 .. o : m \in 0 .. o
    BY <1>1
  <2> QED
    BY <1>1, <1>3, <1>4, <2>1
<1> HIDE DEF G
<1>6. \A m \in 0 .. o : m \in G
  <2> HIDE DEF o
  <2> QED
    BY <1>1, <1>5, UpTo
<1>7. Right(o)
  <2>1. o \in 0 .. o
    BY <1>1
  <2> QED
    BY <1>6, <2>1 DEF G
<1>8. Stampless(u)[n + o] = Unstamped(s) \o Stampless(t)[o]
  BY <1>7 DEF Right
<1> QED
  BY <1>1, <1>8 DEF Unstamped, u

Concats(s, t) == Unstamped(s \o t) = Unstamped(s) \o Unstamped(t)

LEMMA UnstampedConcats ==
  ASSUME NEW S, NEW s \in Seq(S), NEW t \in Seq(S)
  PROVE  Concats(s, t)
BY UnstampedConcat DEF Concats

LEMMA UnstampedOne ==
  ASSUME NEW x, x # Stamp
  PROVE  Unstamped(<<x>>) = <<x>>
<1>1. << >> \in Seq({x}) /\ Append(<< >>, x) = <<x>>
  OBVIOUS
<1>2. Unstamped(Append(<< >>, x)) = Append(Unstamped(<< >>), x)
  BY <1>1, UnstampedAppend
<1> QED
  BY <1>1, <1>2, UnstampedEmpty

(* What BoxAbove computes.                                                  *)
LEMMA BoxAboveIs ==
  \A n \in Nodes \cup {Nil} : BoxAbove[n] <=> n # Nil /\ (n \in Own \/ BoxAbove[Up[n]])
<1> DEFINE D == Nodes \cup {Nil}
           Closed(C) == \A n \in Nodes : n \in Own \/ Up[n] \in C => n \in C
           Boxed == {n \in Nodes : \A C \in SUBSET Nodes : Closed(C) => n \in C}
           Above(f) == [n \in D |-> n # Nil /\ (n \in Own \/ f[Up[n]])]
           F == [n \in D |-> n \in Boxed]
           some == CHOOSE f : f = Above(f)
<1>1. Nil \notin Nodes /\ \A n \in Nodes : Up[n] \in D
  BY AppenderAssumptions, LinksAssumptions DEF Nodes
<1>2. Closed(Boxed)
  OBVIOUS
<1>3. \A n \in Nodes : n \in Boxed => n \in Own \/ Up[n] \in Boxed
  <2> SUFFICES ASSUME NEW n \in Nodes, n \in Boxed, n \notin Own, Up[n] \notin Boxed
               PROVE  FALSE
    OBVIOUS
  <2> DEFINE C == Boxed \ {n}
  <2>1. C \in SUBSET Nodes /\ n \notin C
    OBVIOUS
  <2>2. Closed(C)
    <3> HIDE DEF Boxed
    <3> QED
      BY <1>2
  <2> QED
    BY <2>1, <2>2
<1> HIDE DEF Boxed
<1>4. \A n \in D : F[n] <=> n # Nil /\ (n \in Own \/ F[Up[n]])
  <2> TAKE n \in D
  <2>1. CASE n = Nil
    <3>1. Nil \notin Boxed
      BY <1>1 DEF Boxed
    <3> QED
      BY <2>1, <3>1
  <2>2. CASE n # Nil
    <3>1. n \in Nodes /\ Up[n] \in D /\ F[Up[n]] = (Up[n] \in Boxed) /\ F[n] = (n \in Boxed)
      BY <1>1, <2>2
    <3> HIDE DEF F
    <3> QED
      BY <1>2, <1>3, <2>2, <3>1
  <2> QED
    BY <2>1, <2>2
<1>5. F = Above(F)
  <2>1. \A n \in D : F[n] = (n # Nil /\ (n \in Own \/ F[Up[n]]))
    <3>1. \A n \in D : F[n] \in BOOLEAN
      OBVIOUS
    <3> HIDE DEF F
    <3> QED
      BY <1>4, <3>1
  <2>2. F = [n \in D |-> F[n]]
    OBVIOUS
  <2> HIDE DEF F, D
  <2> QED
    BY <2>1, <2>2
<1>6. some = Above(some)
  <2> HIDE DEF Above, F
  <2> QED
    BY <1>5
<1>7. BoxAbove = some
  BY DEF BoxAbove
<1> HIDE DEF some
<1> QED
  BY <1>6, <1>7

-----------------------------------------------------------------------------
(* The objects of the files.                                                *)
Docs == {FileNodes, ExtNodes}
OrigConts == UNION {{<<ow, p>> : ow \in Homes(p)} : p \in Pages}

LEMMA HeapIs ==
  ASSUME NEW f, NEW n
  PROVE  /\ n \in FileNodes => <<"ro", n>> \in HeapOf(f) /\ <<"rd", n>> \in HeapOf(f)
         /\ n \in ExtNodes => <<"ext", n>> \in HeapOf(f)
         /\ n \in 0 .. f - 1 => <<"dup", n>> \in HeapOf(f) /\ <<"new", n>> \in HeapOf(f)
BY DEF HeapOf

LEMMA HeapGrows ==
  ASSUME NEW f \in Nat, NEW g \in Nat, f <= g
  PROVE  HeapOf(f) \subseteq HeapOf(g)
<1>1. 0 .. f - 1 \subseteq 0 .. g - 1
  OBVIOUS
<1> QED
  BY <1>1 DEF HeapOf

LEMMA HeapFinite ==
  ASSUME NEW f \in Nat
  PROVE  IsFiniteSet(HeapOf(f))
<1>1. IsFiniteSet(Nodes) /\ FileNodes \in SUBSET Nodes /\ ExtNodes \in SUBSET Nodes
  BY AppenderAssumptions DEF Nodes
<1>2. IsFiniteSet(FileNodes) /\ IsFiniteSet(ExtNodes)
  BY <1>1, FS_Subset
<1>3. IsFiniteSet(0 .. f - 1)
  BY FS_Interval
<1>4. \A x : IsFiniteSet({x})
  BY FS_Singleton
<1>5. \A x, y : IsFiniteSet({x, y})
  <2> TAKE x, y
  <2>1. IsFiniteSet({x} \cup {y})
    BY <1>4, FS_Union
  <2>2. {x, y} = {x} \cup {y}
    OBVIOUS
  <2> QED
    BY <2>1, <2>2
<1>6. IsFiniteSet({"ro", "rd"} \X FileNodes)
  BY <1>2, <1>5, FS_Product
<1>7. IsFiniteSet({"ext"} \X ExtNodes) /\ IsFiniteSet({"dup", "new"} \X (0 .. f - 1))
  BY <1>2, <1>3, <1>4, <1>5, FS_Product
<1>8. IsFiniteSet(({"ro", "rd"} \X FileNodes) \cup ({"ext"} \X ExtNodes))
  BY <1>6, <1>7, FS_Union
<1> QED
  BY <1>7, <1>8, FS_Union DEF HeapOf

LEMMA PagesAre ==
  /\ IsSeq(FilePages) /\ \A i \in 1 .. Len(FilePages) : FilePages[i] \in FileNodes /\ FilePages[i] \in Pages
  /\ ExtPage \in ExtNodes /\ ExtPage \in Pages
  /\ \A p \in Pages : p \in FileNodes \/ p = ExtPage
  /\ Range(FilePages) = {FilePages[i] : i \in 1 .. Len(FilePages)}
  /\ FileNodes \cap ExtNodes = {}
<1>1. IsSeq(FilePages) /\ \A i \in 1 .. Len(FilePages) : FilePages[i] \in FileNodes
  BY PagesAssumptions, SeqIs
<1>2. Range(FilePages) = {FilePages[i] : i \in 1 .. Len(FilePages)}
  BY <1>1 DEF Range, IsSeq
<1> QED
  BY <1>1, <1>2, PagesAssumptions, AppenderAssumptions DEF Pages

LEMMA HomesAre ==
  ASSUME NEW p \in Pages
  PROVE  /\ p \in FileNodes => Homes(p) = {"ro", "rd"} /\ HomeOf(p) = "rd" /\ p # ExtPage
         /\ p \notin FileNodes => Homes(p) = {"ext"} /\ HomeOf(p) = "ext" /\ p = ExtPage
         /\ HomeOf(p) \in Homes(p) /\ HomeOf(p) # "ro"
BY PagesAre DEF Homes, HomeOf

(* What a reader knows of a page.                                           *)
LEMMA PageFacts ==
  ASSUME NEW p \in Pages, NEW ow \in Homes(p), NEW f
  PROVE  /\ p \in Nodes /\ <<ow, p>> \in HeapOf(f) /\ Up[p] \in Nodes \cup {Nil}
         /\ In(ow, Links[p]) \subseteq HeapOf(f) /\ In(ow, Annots[p]) \subseteq HeapOf(f)
         /\ In(ow, PageText[p]) \subseteq HeapOf(f)
         /\ <<ow, p>> \in OrigConts
         /\ \A k \in Kinds : PageRes[p][k] # Nil =>
              /\ <<ow, p, k>> \in AllDicts /\ IsFiniteSet(DOMAIN PageRes[p][k])
              /\ \A n \in DOMAIN PageRes[p][k] : <<ow, PageRes[p][k][n]>> \in HeapOf(f)
<1>1. PICK doc \in Docs : p \in doc /\ \A n \in doc : <<ow, n>> \in HeapOf(f)
  <2>1. CASE p \in FileNodes
    BY <2>1, HomesAre, HeapIs DEF Docs
  <2>2. CASE p \notin FileNodes
    BY <2>2, HomesAre, HeapIs, PagesAre DEF Docs
  <2> QED
    BY <2>1, <2>2
<1>2. /\ Links[p] \subseteq doc /\ Up[p] \in doc \cup {Nil}
      /\ Annots[p] \subseteq doc /\ PageText[p] \subseteq doc
      /\ \A k \in Kinds : PageRes[p][k] # Nil =>
           /\ IsFiniteSet(DOMAIN PageRes[p][k])
           /\ \A n \in DOMAIN PageRes[p][k] : PageRes[p][k][n] \in doc
  BY <1>1, LinksAssumptions DEF Docs
<1>3. doc \subseteq Nodes
  BY DEF Docs, Nodes
<1>4. \A set : set \subseteq doc => In(ow, set) \subseteq HeapOf(f)
  BY <1>1 DEF In
<1>5. <<ow, p>> \in OrigConts
  BY DEF OrigConts
<1>6. \A k \in Kinds : PageRes[p][k] # Nil => <<ow, p, k>> \in AllDicts
  BY DEF AllDicts
<1> QED
  BY <1>1, <1>2, <1>3, <1>4, <1>5, <1>6

LEMMA NodeFacts ==
  ASSUME NEW f, NEW o \in HeapOf(f)
  PROVE  /\ IsFile(o) => /\ o[2] \in Nodes /\ In(o[1], Links[o[2]]) \subseteq HeapOf(f)
                         /\ Up[o[2]] # Nil => <<o[1], Up[o[2]]>> \in HeapOf(f)
                         /\ o[2] \in Pages => o[1] \in Homes(o[2])
         /\ ~IsFile(o) => o[1] \in {"dup", "new"} /\ o[2] \in 0 .. f - 1
         /\ o = <<o[1], o[2]>>
<1>1. /\ o = <<o[1], o[2]>>
      /\ \/ o[1] \in {"ro", "rd"} /\ o[2] \in FileNodes
         \/ o[1] = "ext" /\ o[2] \in ExtNodes
         \/ o[1] \in {"dup", "new"} /\ o[2] \in 0 .. f - 1
  BY DEF HeapOf
<1>2. IsFile(o) <=> o[1] \in {"ro", "rd", "ext"}
  BY DEF IsFile
<1>3. ASSUME IsFile(o)
      PROVE  \E doc \in Docs : o[2] \in doc /\ \A n \in doc : <<o[1], n>> \in HeapOf(f)
  BY <1>1, <1>2, <1>3, HeapIs DEF Docs
<1>4. ASSUME IsFile(o)
      PROVE  /\ o[2] \in Nodes /\ In(o[1], Links[o[2]]) \subseteq HeapOf(f)
             /\ Up[o[2]] # Nil => <<o[1], Up[o[2]]>> \in HeapOf(f)
  <2>1. PICK doc \in Docs : o[2] \in doc /\ \A n \in doc : <<o[1], n>> \in HeapOf(f)
    BY <1>3, <1>4
  <2>2. Links[o[2]] \subseteq doc /\ Up[o[2]] \in doc \cup {Nil}
    BY <2>1, LinksAssumptions DEF Docs
  <2> QED
    BY <2>1, <2>2 DEF In, Docs, Nodes
<1>5. ASSUME IsFile(o), o[2] \in Pages PROVE o[1] \in Homes(o[2])
  <2>1. CASE o[2] \in FileNodes
    BY <1>1, <1>2, <1>5, <2>1, HomesAre, PagesAre
  <2>2. CASE o[2] \notin FileNodes
    BY <1>1, <1>2, <1>5, <2>2, HomesAre, PagesAre
  <2> QED
    BY <2>1, <2>2
<1> QED
  BY <1>1, <1>2, <1>4, <1>5

-----------------------------------------------------------------------------
(* Arrays of content streams.                                               *)
ContsOK(c, f) ==
  /\ OrigConts \subseteq DOMAIN c
  /\ \A a \in DOMAIN c : /\ c[a] \in Seq(Nodes \cup {Stamp})
                         /\ a \in OrigConts \/ \E k \in 0 .. f - 1 : a = <<"new", k>>
  /\ \A a \in OrigConts : Unstamped(c[a]) = <<a[2]>>

Grown(c, g) == \A a \in DOMAIN c : a \in DOMAIN g /\ Unstamped(g[a]) = Unstamped(c[a])

LEMMA StampedOK ==
  ASSUME NEW c, NEW f, ContsOK(c, f), NEW g, DOMAIN g = DOMAIN c,
         \A a \in DOMAIN c : g[a] = c[a] \/ g[a] = Append(c[a], Stamp)
  PROVE  ContsOK(g, f) /\ Grown(c, g)
<1>1. \A a \in DOMAIN c : c[a] \in Seq(Nodes \cup {Stamp})
  BY DEF ContsOK
<1>2. ASSUME NEW a \in DOMAIN c
      PROVE  g[a] \in Seq(Nodes \cup {Stamp}) /\ Unstamped(g[a]) = Unstamped(c[a])
  <2>1. c[a] \in Seq(Nodes \cup {Stamp})
    BY <1>1
  <2>2. Append(c[a], Stamp) \in Seq(Nodes \cup {Stamp})
    BY <2>1
  <2>3. Unstamped(Append(c[a], Stamp)) = Unstamped(c[a])
    BY <2>1, UnstampedAppend
  <2> QED
    BY <2>1, <2>2, <2>3
<1>3. Grown(c, g)
  BY <1>2 DEF Grown
<1>4. \A a \in OrigConts : a \in DOMAIN c
  BY DEF ContsOK
<1> QED
  BY <1>2, <1>3, <1>4 DEF ContsOK

LEMMA ProcPageOK ==
  ASSUME NEW c, NEW f, ContsOK(c, f), NEW p, p.cont \in DOMAIN c
  PROVE  /\ ContsOK(ProcPage(c, p), f) /\ Grown(c, ProcPage(c, p))
         /\ DOMAIN ProcPage(c, p) = DOMAIN c
<1> DEFINE g == ProcPage(c, p)
<1>1. DOMAIN g = DOMAIN c
  BY DEF ProcPage
<1>2. \A a \in DOMAIN c : g[a] = c[a] \/ g[a] = Append(c[a], Stamp)
  BY DEF ProcPage
<1> HIDE DEF g
<1>3. ContsOK(g, f) /\ Grown(c, g)
  BY <1>1, <1>2, StampedOK
<1> QED
  BY <1>1, <1>3 DEF g

LEMMA ProcPagesOK ==
  ASSUME NEW c, NEW f, ContsOK(c, f), NEW ps
  PROVE  ContsOK(ProcPages(c, ps), f) /\ Grown(c, ProcPages(c, ps))
<1> DEFINE g == ProcPages(c, ps)
<1>1. DOMAIN g = DOMAIN c
  BY DEF ProcPages
<1>2. \A a \in DOMAIN c : g[a] = c[a] \/ g[a] = Append(c[a], Stamp)
  BY DEF ProcPages
<1> HIDE DEF g
<1>3. ContsOK(g, f) /\ Grown(c, g)
  BY <1>1, <1>2, StampedOK
<1> QED
  BY <1>3 DEF g

(* More of them, when more was made.                                        *)
LEMMA ContsLater ==
  ASSUME NEW c, NEW f \in Nat, NEW g \in Nat, f <= g, ContsOK(c, f)
  PROVE  ContsOK(c, g)
<1>1. 0 .. f - 1 \subseteq 0 .. g - 1
  OBVIOUS
<1> QED
  BY <1>1 DEF ContsOK

WithCont(c, f, s) == [a \in DOMAIN c \cup {<<"new", f>>} |-> IF a = <<"new", f>> THEN s ELSE c[a]]

LEMMA NewCont ==
  ASSUME NEW c, NEW f \in Nat, ContsOK(c, f), NEW g \in Nat, f < g, NEW s \in Seq(Nodes \cup {Stamp}),
         NEW c2, c2 = WithCont(c, f, s)
  PROVE  ContsOK(c2, g) /\ Grown(c, c2) /\ c2[<<"new", f>>] = s
<1>1. <<"new", f>> \notin DOMAIN c
  <2>1. <<"new", f>> \notin OrigConts
    <3>1. \A p \in Pages : \A ow \in Homes(p) : ow # "new"
      BY HomesAre
    <3> QED
      BY <3>1 DEF OrigConts
  <2>2. \A k \in 0 .. f - 1 : k # f
    OBVIOUS
  <2> QED
    BY <2>1, <2>2 DEF ContsOK
<1>2. DOMAIN c2 = DOMAIN c \cup {<<"new", f>>} /\ c2[<<"new", f>>] = s
  BY DEF WithCont
<1>3. \A a \in DOMAIN c : c2[a] = c[a]
  BY <1>1 DEF WithCont
<1>4. f \in 0 .. g - 1 /\ 0 .. f - 1 \subseteq 0 .. g - 1
  OBVIOUS
<1>5. Grown(c, c2)
  BY <1>2, <1>3 DEF Grown
<1>6. ContsOK(c2, g)
  <2>1. \A a \in OrigConts : a \in DOMAIN c
    BY DEF ContsOK
  <2>2. ASSUME NEW a \in DOMAIN c2
        PROVE  /\ c2[a] \in Seq(Nodes \cup {Stamp})
               /\ a \in OrigConts \/ \E k \in 0 .. g - 1 : a = <<"new", k>>
    <3>1. CASE a \in DOMAIN c
      BY <1>3, <1>4, <3>1 DEF ContsOK
    <3>2. CASE a = <<"new", f>>
      BY <1>2, <1>4, <3>2
    <3> QED
      BY <1>2, <3>1, <3>2
  <2>3. \A a \in OrigConts : Unstamped(c2[a]) = <<a[2]>>
    BY <1>3, <2>1 DEF ContsOK
  <2>4. OrigConts \subseteq DOMAIN c2
    BY <1>2, <2>1
  <2> QED
    BY <2>2, <2>3, <2>4 DEF ContsOK
<1> QED
  BY <1>2, <1>5, <1>6

-----------------------------------------------------------------------------
(* Pages.                                                                   *)
PageKeys == {"obj", "up", "box", "home", "res", "cont", "uses", "notes"}

\* What any page has, and what a page of the document has.
PartsOK(p, c, f) ==
  /\ DOMAIN p = PageKeys
  /\ p.up \in Nodes \cup {Nil}
  /\ \A k \in Kinds : p.res[k] # Nil => p.res[k] \in AllDicts
  /\ p.cont \in DOMAIN c /\ p.notes \subseteq HeapOf(f)
PageOK(p, c, f) ==
  /\ PartsOK(p, c, f) /\ p.obj \in HeapOf(f)
  /\ \/ p.obj[1] = "dup"
     \/ p.obj[1] = "ro" /\ p.obj[2] \in Range(FilePages) /\ p = ModelOf("ro", p.obj[2])

\* The page is made of the pages w.
Shows(p, w, c) ==
  /\ w \in Seq(Pages) /\ w # << >>
  /\ Unstamped(c[p.cont]) = w
  /\ HasBox(p) <=> BoxAbove[w[1]]

LEMMA PartsLater ==
  ASSUME NEW p, NEW c, NEW f \in Nat, NEW c2, NEW g \in Nat, f <= g, Grown(c, c2), PartsOK(p, c, f)
  PROVE  PartsOK(p, c2, g)
BY HeapGrows DEF PartsOK, Grown

LEMMA PageLater ==
  ASSUME NEW p, NEW c, NEW f \in Nat, NEW c2, NEW g \in Nat, f <= g, Grown(c, c2), PageOK(p, c, f)
  PROVE  PageOK(p, c2, g)
BY HeapGrows, PartsLater DEF PageOK

LEMMA ShowsLater ==
  ASSUME NEW p, NEW c, NEW c2, NEW w, Grown(c, c2), p.cont \in DOMAIN c, Shows(p, w, c)
  PROVE  Shows(p, w, c2)
BY DEF Shows, Grown

LEMMA ModelIs ==
  ASSUME NEW ow, NEW p
  PROVE  LET m == ModelOf(ow, p)
         IN  /\ DOMAIN m = PageKeys /\ m.obj = <<ow, p>> /\ m.up = Up[p] /\ m.box = (p \in Own)
             /\ m.home = ow /\ m.cont = <<ow, p>> /\ m.notes = In(ow, Annots[p])
             /\ \A k \in Kinds : m.res[k] = IF PageRes[p][k] = Nil THEN Nil ELSE <<ow, p, k>>
BY DEF ModelOf, PageKeys

LEMMA ModelOK ==
  ASSUME NEW p \in Pages, NEW ow \in Homes(p), NEW c, NEW f, ContsOK(c, f)
  PROVE  PartsOK(ModelOf(ow, p), c, f) /\ Shows(ModelOf(ow, p), <<p>>, c)
<1> DEFINE m == ModelOf(ow, p)
<1>1. /\ DOMAIN m = PageKeys /\ m.up = Up[p] /\ m.box = (p \in Own)
      /\ m.cont = <<ow, p>> /\ m.notes = In(ow, Annots[p])
      /\ \A k \in Kinds : m.res[k] = IF PageRes[p][k] = Nil THEN Nil ELSE <<ow, p, k>>
  BY ModelIs
<1> HIDE DEF m
<1>2. /\ p \in Nodes /\ Up[p] \in Nodes \cup {Nil}
      /\ In(ow, Annots[p]) \subseteq HeapOf(f) /\ <<ow, p>> \in OrigConts
      /\ \A k \in Kinds : PageRes[p][k] # Nil => <<ow, p, k>> \in AllDicts
  BY PageFacts
<1>3. <<ow, p>> \in DOMAIN c /\ Unstamped(c[<<ow, p>>]) = <<p>>
  BY <1>2 DEF ContsOK
<1>4. PartsOK(m, c, f)
  <2>1. DOMAIN m = PageKeys
    BY <1>1
  <2>2. \A k \in Kinds : m.res[k] # Nil => m.res[k] \in AllDicts
    BY <1>1, <1>2
  <2>3. m.up \in Nodes \cup {Nil} /\ m.cont \in DOMAIN c /\ m.notes \subseteq HeapOf(f)
    BY <1>1, <1>2, <1>3
  <2> QED
    BY <2>1, <2>2, <2>3 DEF PartsOK
<1>5. BoxAbove[p] <=> p \in Own \/ BoxAbove[Up[p]]
  BY <1>2, BoxAboveIs, AppenderAssumptions
<1>6. HasBox(m) <=> BoxAbove[p]
  BY <1>1, <1>5 DEF HasBox
<1>7. <<p>> \in Seq(Pages) /\ <<p>> # << >> /\ <<p>>[1] = p
  OBVIOUS
<1> QED
  BY <1>1, <1>3, <1>4, <1>6, <1>7 DEF Shows, m

LEMMA DuplicateIs ==
  ASSUME NEW p, DOMAIN p = PageKeys, NEW k
  PROVE  LET d == Duplicate(p, k)
         IN  /\ DOMAIN d = PageKeys /\ d.obj = <<"dup", k>> /\ d.up = p.up /\ d.box = p.box
             /\ d.home = p.home /\ d.res = p.res /\ d.cont = p.cont /\ d.uses = p.uses
             /\ d.notes = p.notes
BY DEF Duplicate, PageKeys

LEMMA DuplicateOK ==
  ASSUME NEW p, NEW c, NEW f \in Nat, NEW g \in Nat, f <= g, PartsOK(p, c, f), NEW k \in 0 .. g - 1
  PROVE  /\ PageOK(Duplicate(p, k), c, g) /\ ~IsKept(Duplicate(p, k))
         /\ \A w : Shows(p, w, c) => Shows(Duplicate(p, k), w, c)
<1> DEFINE d == Duplicate(p, k)
<1>1. /\ DOMAIN d = PageKeys /\ d.obj = <<"dup", k>> /\ d.up = p.up /\ d.box = p.box
      /\ d.res = p.res /\ d.cont = p.cont /\ d.notes = p.notes
  BY DuplicateIs DEF PartsOK
<1> HIDE DEF d
<1>2. PartsOK(d, c, g)
  BY <1>1, HeapGrows DEF PartsOK
<1>3. <<"dup", k>> \in HeapOf(g)
  BY HeapIs
<1>4. PageOK(d, c, g) /\ ~IsKept(d)
  BY <1>1, <1>2, <1>3 DEF PageOK, IsKept
<1>5. \A w : Shows(p, w, c) => Shows(d, w, c)
  BY <1>1 DEF Shows, HasBox
<1> QED
  BY <1>4, <1>5 DEF d

-----------------------------------------------------------------------------
(* The list of pages, and the pages that each is made of.                   *)
PagesOK(ps, ws, c, f) ==
  /\ IsSeq(ps) /\ IsSeq(ws) /\ Len(ws) = Len(ps)
  /\ \A i \in 1 .. Len(ps) : PageOK(ps[i], c, f) /\ Shows(ps[i], ws[i], c)

LEMMA ListIs ==
  ASSUME NEW n \in Nat, NEW s, s = [i \in 1 .. n |-> s[i]]
  PROVE  IsSeq(s) /\ Len(s) = n
<1> DEFINE S == {s[i] : i \in 1 .. n}
<1>1. s \in [1 .. n -> S]
  OBVIOUS
<1>2. s \in Seq(S)
  <2> HIDE DEF S
  <2> QED
    BY <1>1
<1>3. Len(s) \in Nat /\ 1 .. Len(s) = 1 .. n
  <2> HIDE DEF S
  <2> QED
    BY <1>1, <1>2
<1>4. Len(s) = n
  BY <1>3
<1> QED
  BY <1>3, <1>4 DEF IsSeq

LEMMA PagesLater ==
  ASSUME NEW ps, NEW ws, NEW c, NEW f \in Nat, NEW c2, NEW g \in Nat, f <= g, Grown(c, c2),
         PagesOK(ps, ws, c, f)
  PROVE  PagesOK(ps, ws, c2, g)
<1>1. ASSUME NEW i \in 1 .. Len(ps)
      PROVE  PageOK(ps[i], c2, g) /\ Shows(ps[i], ws[i], c2)
  <2> DEFINE p == ps[i]
             w == ws[i]
  <2>1. PageOK(p, c, f) /\ Shows(p, w, c)
    BY DEF PagesOK
  <2> HIDE DEF p, w
  <2>2. p.cont \in DOMAIN c
    BY <2>1 DEF PageOK, PartsOK
  <2>3. PageOK(p, c2, g) /\ Shows(p, w, c2)
    BY <2>1, <2>2, PageLater, ShowsLater
  <2> QED
    BY <2>3 DEF p, w
<1> QED
  BY <1>1 DEF PagesOK

IsPut(t, s, i, x) ==
  /\ IsSeq(t) /\ Len(t) = Len(s) /\ t[i] = x
  /\ \A j \in 1 .. Len(s) : j # i => t[j] = s[j]

LEMMA PutIs ==
  ASSUME NEW s, IsSeq(s), NEW i \in 1 .. Len(s), NEW x
  PROVE  IsPut([s EXCEPT ![i] = x], s, i, x)
<1> DEFINE t == [s EXCEPT ![i] = x]
           n == Len(s)
<1>1. n \in Nat /\ DOMAIN s = 1 .. n /\ i \in 1 .. n
  BY DEF IsSeq
<1>2. t = [j \in 1 .. n |-> t[j]] /\ t[i] = x /\ \A j \in 1 .. n : j # i => t[j] = s[j]
  BY <1>1
<1> HIDE DEF t
<1>3. IsSeq(t) /\ Len(t) = n
  BY <1>1, <1>2, ListIs
<1>4. IsPut(t, s, i, x)
  BY <1>2, <1>3 DEF IsPut
<1> QED
  BY <1>4 DEF t

LEMMA AppendedIs ==
  ASSUME NEW s, IsSeq(s), NEW x
  PROVE  LET t == Append(s, x)
         IN  /\ IsSeq(t) /\ Len(t) = Len(s) + 1 /\ t[Len(s) + 1] = x
             /\ \A j \in 1 .. Len(s) : t[j] = s[j]
<1> DEFINE S == {s[i] : i \in 1 .. Len(s)} \cup {x}
<1>1. \A i \in 1 .. Len(s) : s[i] \in S
  OBVIOUS
<1>2. x \in S
  OBVIOUS
<1> HIDE DEF S
<1>3. s \in Seq(S)
  BY <1>1, IsSeqOf
<1> DEFINE t == Append(s, x)
<1>4. t \in Seq(S) /\ Len(t) = Len(s) + 1 /\ t[Len(s) + 1] = x
      /\ \A j \in 1 .. Len(s) : t[j] = s[j]
  BY <1>2, <1>3
<1> HIDE DEF t
<1>5. IsSeq(t)
  BY <1>4, SeqIs
<1> QED
  BY <1>4, <1>5 DEF t

LEMMA PagesPut ==
  ASSUME NEW ps, NEW ws, NEW c, NEW f, PagesOK(ps, ws, c, f), NEW i \in 1 .. Len(ps),
         NEW q, NEW w, PageOK(q, c, f), Shows(q, w, c)
  PROVE  PagesOK([ps EXCEPT ![i] = q], [ws EXCEPT ![i] = w], c, f)
<1> DEFINE pt == [ps EXCEPT ![i] = q]
           wt == [ws EXCEPT ![i] = w]
<1>1. IsSeq(ps) /\ IsSeq(ws) /\ i \in 1 .. Len(ws) /\ Len(ws) = Len(ps)
  BY DEF PagesOK
<1>2. IsPut(pt, ps, i, q)
  BY <1>1, PutIs
<1>3. IsPut(wt, ws, i, w)
  BY <1>1, PutIs
<1> HIDE DEF pt, wt
<1>4. PagesOK(pt, wt, c, f)
  BY <1>1, <1>2, <1>3 DEF PagesOK, IsPut
<1> QED
  BY <1>4 DEF pt, wt

LEMMA PagesAdded ==
  ASSUME NEW ps, NEW ws, NEW c, NEW f, PagesOK(ps, ws, c, f),
         NEW q, NEW w, PageOK(q, c, f), Shows(q, w, c)
  PROVE  PagesOK(Append(ps, q), Append(ws, w), c, f)
<1> DEFINE pt == Append(ps, q)
           wt == Append(ws, w)
           n == Len(ps)
<1>1. /\ IsSeq(pt) /\ Len(pt) = n + 1 /\ pt[n + 1] = q
      /\ \A j \in 1 .. n : pt[j] = ps[j]
  BY AppendedIs DEF PagesOK
<1>2. /\ IsSeq(wt) /\ Len(wt) = n + 1 /\ wt[n + 1] = w
      /\ \A j \in 1 .. n : wt[j] = ws[j]
  BY AppendedIs DEF PagesOK
<1>3. n \in Nat /\ \A j \in 1 .. n : PageOK(ps[j], c, f) /\ Shows(ps[j], ws[j], c)
  BY DEF PagesOK, IsSeq
<1> HIDE DEF pt, wt, n
<1>4. \A j \in 1 .. n + 1 : PageOK(pt[j], c, f) /\ Shows(pt[j], wt[j], c)
  <2>1. \A j \in 1 .. n + 1 : j \in 1 .. n \/ j = n + 1
    BY <1>3
  <2> QED
    BY <1>1, <1>2, <1>3, <2>1
<1>5. PagesOK(pt, wt, c, f)
  BY <1>1, <1>2, <1>4 DEF PagesOK
<1> QED
  BY <1>5 DEF pt, wt

(* What the page that another is merged into becomes.                       *)
LEMMA MergedIs ==
  ASSUME NEW src, DOMAIN src = PageKeys, NEW add, NEW ren, NEW order, NEW k
  PROVE  LET m == MergedPage(src, add, ren, order, k)
         IN  /\ DOMAIN m = PageKeys /\ m.obj = src.obj /\ m.up = src.up /\ m.box = src.box
             /\ m.cont = <<"new", k>> /\ m.notes = src.notes \cup add.notes
             /\ \A q \in Kinds : m.res[q] = IF src.res[q] = Nil /\ q \in Merged
                                            THEN add.res[q] ELSE src.res[q]
             /\ m.uses = src.uses \cup UsesMerged(src, add, ren, order)
BY DEF MergedPage, PageKeys

Boxed(m) == [m EXCEPT !.box = TRUE]

LEMMA BoxedIs ==
  ASSUME NEW m, DOMAIN m = PageKeys
  PROVE  LET b == Boxed(m)
         IN  /\ DOMAIN b = PageKeys /\ b.obj = m.obj /\ b.up = m.up /\ b.box = TRUE
             /\ b.cont = m.cont /\ b.notes = m.notes /\ b.res = m.res /\ b.uses = m.uses
BY DEF PageKeys, Boxed

LEMMA NotedIs ==
  ASSUME NEW m, DOMAIN m = PageKeys, NEW x
  PROVE  LET b == [m EXCEPT !.notes = @ \cup {x}]
         IN  /\ DOMAIN b = PageKeys /\ b.obj = m.obj /\ b.up = m.up /\ b.box = m.box
             /\ b.cont = m.cont /\ b.notes = m.notes \cup {x} /\ b.res = m.res /\ b.uses = m.uses
BY DEF PageKeys

-----------------------------------------------------------------------------
(* Resource dictionaries.                                                   *)
DictsOK(d, f) ==
  /\ DOMAIN d = AllDicts
  /\ \A x \in AllDicts : \A n \in DOMAIN d[x] : d[x][n] \in HeapOf(f)

\* The name that n has after a merge.
To(ren, n) == IF n \in DOMAIN ren THEN ren[n] ELSE n

\* r is dest with what is in src.
IsMerged(r, dest, src, ren) ==
  /\ DOMAIN r = DOMAIN dest \cup {To(ren, n) : n \in DOMAIN src}
  /\ \A y \in DOMAIN r :
       \/ y \in DOMAIN dest /\ r[y] = dest[y] /\ \A n \in DOMAIN src : To(ren, n) # y
       \/ \E n \in DOMAIN src : To(ren, n) = y /\ r[y] = src[n]

LEMMA MergeResourcesIs ==
  ASSUME NEW dest, NEW src, NEW ren
  PROVE  IsMerged(MergeResources(dest, src, ren), dest, src, ren)
<1> DEFINE added == {To(ren, n) : n \in DOMAIN src}
           r == [x \in DOMAIN dest \cup added |->
                   IF x \in added THEN src[CHOOSE n \in DOMAIN src : To(ren, n) = x] ELSE dest[x]]
<1>1. MergeResources(dest, src, ren) = r
  BY DEF MergeResources, To
<1>2. ASSUME NEW y \in added
      PROVE  \E n \in DOMAIN src : To(ren, n) = y /\ r[y] = src[n]
  <2> DEFINE m == CHOOSE n \in DOMAIN src : To(ren, n) = y
  <2>1. m \in DOMAIN src /\ To(ren, m) = y
    BY <1>2
  <2>2. r[y] = src[m]
    OBVIOUS
  <2> HIDE DEF m
  <2> QED
    BY <2>1, <2>2
<1>3. \A y \in DOMAIN dest \ added : r[y] = dest[y] /\ \A n \in DOMAIN src : To(ren, n) # y
  OBVIOUS
<1>4. DOMAIN r = DOMAIN dest \cup added
  OBVIOUS
<1> HIDE DEF r
<1>5. IsMerged(r, dest, src, ren)
  BY <1>2, <1>3, <1>4 DEF IsMerged
<1> QED
  BY <1>1, <1>5

\* What the dictionaries become.
IsMergedAll(d2, d, src, add, ren) ==
  /\ DOMAIN d2 = DOMAIN d
  /\ \A x \in DOMAIN d :
       \/ d2[x] = d[x] /\ ~ \E k \in Merged : src.res[k] = x /\ add.res[k] # Nil
       \/ \E k \in Merged : /\ src.res[k] = x /\ add.res[k] # Nil
                            /\ IsMerged(d2[x], d[x], d[add.res[k]], ren)

LEMMA MergeAllResourcesIs ==
  ASSUME NEW d, NEW src, NEW add, NEW ren
  PROVE  IsMergedAll(MergeAllResources(d, src, add, ren), d, src, add, ren)
<1> DEFINE merged(x) == {k \in Merged : src.res[k] = x /\ add.res[k] # Nil}
           d2 == [x \in DOMAIN d |->
                    IF merged(x) = {} THEN d[x]
                    ELSE MergeResources(d[x], d[add.res[CHOOSE k \in merged(x) : TRUE]], ren)]
<1>1. MergeAllResources(d, src, add, ren) = d2
  BY DEF MergeAllResources
<1>2. ASSUME NEW x \in DOMAIN d, merged(x) # {}
      PROVE  \E k \in Merged : /\ src.res[k] = x /\ add.res[k] # Nil
                               /\ IsMerged(d2[x], d[x], d[add.res[k]], ren)
  <2> DEFINE m == CHOOSE k \in merged(x) : TRUE
  <2>1. m \in merged(x)
    BY <1>2
  <2>2. d2[x] = MergeResources(d[x], d[add.res[m]], ren)
    BY <1>2
  <2>3. m \in Merged /\ src.res[m] = x /\ add.res[m] # Nil
    BY <2>1
  <2> HIDE DEF m, d2, merged
  <2>4. IsMerged(d2[x], d[x], d[add.res[m]], ren)
    BY <2>2, MergeResourcesIs
  <2> QED
    BY <2>3, <2>4
<1>3. \A x \in DOMAIN d : merged(x) = {} =>
        d2[x] = d[x] /\ ~ \E k \in Merged : src.res[k] = x /\ add.res[k] # Nil
  OBVIOUS
<1>4. DOMAIN d2 = DOMAIN d
  OBVIOUS
<1> HIDE DEF d2, merged
<1>5. IsMergedAll(d2, d, src, add, ren)
  BY <1>2, <1>3, <1>4 DEF IsMergedAll
<1> QED
  BY <1>1, <1>5

LEMMA KindsAre == Merged \subseteq Kinds /\ IsFiniteSet(Kinds)
BY AppenderAssumptions

LEMMA MergedDictsOK ==
  ASSUME NEW d, NEW f, DictsOK(d, f), NEW src, NEW add, NEW ren, NEW d2, IsMergedAll(d2, d, src, add, ren),
         \A k \in Kinds : add.res[k] # Nil => add.res[k] \in AllDicts
  PROVE  DictsOK(d2, f)
<1>1. ASSUME NEW x \in AllDicts, NEW n \in DOMAIN d2[x]
      PROVE  d2[x][n] \in HeapOf(f)
  <2>1. CASE d2[x] = d[x]
    BY <2>1 DEF DictsOK
  <2>2. ASSUME NEW k \in Merged, src.res[k] = x, add.res[k] # Nil,
               IsMerged(d2[x], d[x], d[add.res[k]], ren)
        PROVE  d2[x][n] \in HeapOf(f)
    <3> DEFINE a == d[add.res[k]]
               b == d[x]
               r == d2[x]
    <3>1. add.res[k] \in AllDicts
      BY <2>2, KindsAre
    <3>2. (\A y \in DOMAIN a : a[y] \in HeapOf(f)) /\ \A y \in DOMAIN b : b[y] \in HeapOf(f)
      BY <3>1 DEF DictsOK
    <3>3. IsMerged(r, b, a, ren) /\ n \in DOMAIN r
      BY <2>2
    <3> HIDE DEF a, b, r
    <3>4. r[n] \in HeapOf(f)
      BY <3>2, <3>3 DEF IsMerged
    <3> QED
      BY <3>4 DEF r
  <2> QED
    BY <2>1, <2>2 DEF IsMergedAll, DictsOK
<1> QED
  BY <1>1 DEF DictsOK, IsMergedAll

LEMMA DictsLater ==
  ASSUME NEW d, NEW f \in Nat, NEW g \in Nat, f <= g, DictsOK(d, f)
  PROVE  DictsOK(d, g)
BY HeapGrows DEF DictsOK

(* Pages of the file: no other page has their dictionaries, and those hold  *)
(* objects of the file only.                                                *)
Apart(ps, d, i, x) ==
  /\ \A n \in DOMAIN d[x] : d[x][n][1] = "ro"
  /\ \A j \in 1 .. Len(ps) : j # i => \A q \in Kinds : ps[j].res[q] # x
KeptOK(ps, d) ==
  \A i \in 1 .. Len(ps) : IsKept(ps[i]) =>
    \A k \in Kinds : ps[i].res[k] # Nil => Apart(ps, d, i, ps[i].res[k])

LEMMA KeptRes ==
  ASSUME NEW p, NEW c, NEW f, PageOK(p, c, f), IsKept(p), NEW k \in Kinds, p.res[k] # Nil
  PROVE  p.res[k] = <<"ro", p.obj[2], k>> /\ p.res[k][1] = "ro"
<1>1. p = ModelOf("ro", p.obj[2])
  BY DEF PageOK, IsKept
<1>2. \A q \in Kinds : ModelOf("ro", p.obj[2]).res[q] =
                         IF PageRes[p.obj[2]][q] = Nil THEN Nil ELSE <<"ro", p.obj[2], q>>
  BY ModelIs
<1>3. p.res[k] = <<"ro", p.obj[2], k>>
  BY <1>1, <1>2
<1> QED
  BY <1>3

ResFrom(q, p) == \A k \in Kinds : q.res[k] = Nil \/ q.res[k] = p.res[k] \/ q.res[k][1] # "ro"
OnlyIn(d2, d, p) == \A x \in AllDicts : d2[x] = d[x] \/ \E k \in Kinds : x = p.res[k]

\* A page that is put in the place of another, with its dictionaries or some
\* of the client.
LEMMA KeptPut ==
  ASSUME NEW ps, NEW ws, NEW c, NEW f, PagesOK(ps, ws, c, f), NEW d, KeptOK(ps, d), NEW i \in 1 .. Len(ps),
         NEW q, ~IsKept(q), ResFrom(q, ps[i]), NEW d2, OnlyIn(d2, d, ps[i])
  PROVE  KeptOK([ps EXCEPT ![i] = q], d2)
<1> DEFINE pt == [ps EXCEPT ![i] = q]
<1>1. IsPut(pt, ps, i, q)
  BY PutIs DEF PagesOK
<1> HIDE DEF pt
<1>2. Len(pt) = Len(ps)
  BY <1>1 DEF IsPut
<1>3. ASSUME NEW j \in 1 .. Len(ps), IsKept(pt[j]), NEW k \in Kinds, pt[j].res[k] # Nil
      PROVE  Apart(pt, d2, j, pt[j].res[k])
  <2> DEFINE x == pt[j].res[k]
  <2>1. j # i /\ pt[j] = ps[j]
    BY <1>1, <1>3 DEF IsPut
  <2>2. PageOK(ps[j], c, f)
    BY DEF PagesOK
  <2>3. x[1] = "ro"
    BY <1>3, <2>1, <2>2, KeptRes
  <2>4. Apart(ps, d, j, x)
    BY <1>3, <2>1 DEF KeptOK
  <2>5. x # Nil /\ x \in AllDicts
    BY <1>3, <2>1, <2>2 DEF PageOK, PartsOK
  <2> HIDE DEF x
  <2>6. /\ \A n \in DOMAIN d[x] : d[x][n][1] = "ro"
        /\ \A m \in 1 .. Len(ps) : m # j => \A v \in Kinds : ps[m].res[v] # x
    BY <2>4 DEF Apart
  <2>7. d2[x] = d[x]
    BY <2>1, <2>6, <2>5 DEF OnlyIn
  <2>8. \A v \in Kinds : q.res[v] # x
    BY <2>1, <2>3, <2>6, <2>5 DEF ResFrom
  <2>9. \A m \in 1 .. Len(ps) : m # j => \A v \in Kinds : pt[m].res[v] # x
    BY <1>1, <2>6, <2>8 DEF IsPut
  <2>10. \A n \in DOMAIN d2[x] : d2[x][n][1] = "ro"
    BY <2>6, <2>7
  <2>11. Apart(pt, d2, j, x)
    BY <1>2, <2>9, <2>10 DEF Apart
  <2> QED
    BY <2>11 DEF x
<1>4. KeptOK(pt, d2)
  BY <1>3, <1>2 DEF KeptOK
<1> QED
  BY <1>4 DEF pt

LEMMA KeptAdded ==
  ASSUME NEW ps, NEW ws, NEW c, NEW f, PagesOK(ps, ws, c, f), NEW d, KeptOK(ps, d),
         NEW q, ~IsKept(q), \A k \in Kinds : q.res[k] = Nil \/ q.res[k][1] # "ro"
  PROVE  KeptOK(Append(ps, q), d)
<1> DEFINE pt == Append(ps, q)
           n == Len(ps)
<1>1. n \in Nat /\ Len(pt) = n + 1 /\ pt[n + 1] = q /\ \A j \in 1 .. n : pt[j] = ps[j]
  BY AppendedIs DEF PagesOK, IsSeq
<1> HIDE DEF pt
<1>2. \A j \in 1 .. n + 1 : j \in 1 .. n \/ j = n + 1
  BY <1>1
<1>3. ASSUME NEW j \in 1 .. n, IsKept(ps[j]), NEW k \in Kinds, ps[j].res[k] # Nil
      PROVE  Apart(pt, d, j, ps[j].res[k])
  <2> DEFINE x == ps[j].res[k]
  <2>1. PageOK(ps[j], c, f)
    BY DEF PagesOK
  <2>2. x[1] = "ro" /\ x # Nil
    BY <1>3, <2>1, KeptRes
  <2>3. Apart(ps, d, j, x)
    BY <1>3 DEF KeptOK
  <2> HIDE DEF x
  <2>4. /\ \A m \in DOMAIN d[x] : d[x][m][1] = "ro"
        /\ \A m \in 1 .. n : m # j => \A v \in Kinds : ps[m].res[v] # x
    BY <2>3 DEF Apart
  <2>5. \A v \in Kinds : q.res[v] # x
    BY <2>2
  <2>6. \A m \in 1 .. n + 1 : m # j => \A v \in Kinds : pt[m].res[v] # x
    BY <1>1, <1>2, <2>4, <2>5
  <2>7. Apart(pt, d, j, x)
    BY <1>1, <2>4, <2>6 DEF Apart
  <2> QED
    BY <2>7 DEF x
<1>4. \A j \in 1 .. n + 1 : IsKept(pt[j]) => j \in 1 .. n /\ pt[j] = ps[j]
  BY <1>1, <1>2
<1>5. KeptOK(pt, d)
  <2> HIDE DEF n
  <2> QED
    BY <1>1, <1>3, <1>4 DEF KeptOK
<1> QED
  BY <1>5 DEF pt

(* What is new.                                                             *)
NewOK(ps, ws) ==
  \/ \E i \in 1 .. Len(ps) : ~IsKept(ps[i])
  \/ Len(ps) = 0
  \/ /\ Len(ps) = Len(FilePages) /\ ws = [i \in DOMAIN FilePages |-> <<FilePages[i]>>]
     /\ ps = [i \in DOMAIN FilePages |-> ModelOf("ro", FilePages[i])]

-----------------------------------------------------------------------------
(* The form.                                                                *)
FormNodes(f) == ({"ro"} \X FileNodes) \cup ({"dup"} \X (0 .. f - 1))
FormOK(fo, f) == fo = Nil \/ fo \in Seq(FormNodes(f))

LEMMA FormNodesGrow ==
  ASSUME NEW f \in Nat, NEW g \in Nat, f <= g
  PROVE  FormNodes(f) \subseteq FormNodes(g) /\ FormNodes(g) \subseteq HeapOf(g)
<1>1. 0 .. f - 1 \subseteq 0 .. g - 1
  OBVIOUS
<1> QED
  BY <1>1 DEF FormNodes, HeapOf

LEMMA FormLater ==
  ASSUME NEW fo, NEW f \in Nat, NEW g \in Nat, f <= g, FormOK(fo, f)
  PROVE  FormOK(fo, g)
<1>1. CASE fo = Nil
  BY <1>1 DEF FormOK
<1>2. CASE fo \in Seq(FormNodes(f))
  <2> DEFINE A == FormNodes(f)
             B == FormNodes(g)
  <2>1. A \subseteq B
    BY FormNodesGrow
  <2>2. fo \in Seq(A)
    BY <1>2
  <2> HIDE DEF A, B
  <2>3. fo \in Seq(B)
    BY <2>1, <2>2
  <2> QED
    BY <2>3 DEF FormOK, B
<1> QED
  BY <1>1, <1>2 DEF FormOK

LEMMA FieldsBelowAre ==
  ASSUME NEW f, NEW o \in FormNodes(f)
  PROVE  FieldsBelow(o) \in Seq(FormNodes(f))
<1>1. CASE o[1] = "dup"
  BY <1>1 DEF FieldsBelow
<1>2. CASE o[1] # "dup"
  <2> DEFINE s == FieldKids[o[2]]
             t == [j \in DOMAIN s |-> <<o[1], s[j]>>]
  <2>1. o[1] = "ro" /\ o[2] \in FileNodes
    BY <1>2 DEF FormNodes
  <2>2. s \in Seq(FileNodes)
    BY <2>1, PagesAssumptions
  <2>3. FieldsBelow(o) = t
    BY <1>2 DEF FieldsBelow
  <2> HIDE DEF s
  <2>4. IsSeq(s) /\ \A j \in 1 .. Len(s) : s[j] \in FileNodes
    BY <2>2, SeqIs
  <2>5. \A j \in 1 .. Len(s) : t[j] \in FormNodes(f)
    BY <2>1, <2>4 DEF FormNodes, IsSeq
  <2>6. t = [j \in 1 .. Len(s) |-> t[j]] /\ Len(s) \in Nat
    BY <2>4 DEF IsSeq
  <2> HIDE DEF t
  <2>7. IsSeq(t) /\ Len(t) = Len(s)
    BY <2>6, ListIs
  <2>8. t \in Seq(FormNodes(f))
    <3> DEFINE S == FormNodes(f)
    <3>1. \A j \in 1 .. Len(t) : t[j] \in S
      BY <2>5, <2>7
    <3> HIDE DEF S
    <3>2. t \in Seq(S)
      BY <2>7, <3>1, IsSeqOf
    <3> QED
      BY <3>2 DEF S
  <2> QED
    BY <2>3, <2>8
<1> QED
  BY <1>1, <1>2

LEMMA AllFieldsOK ==
  ASSUME NEW f, NEW fo, FormOK(fo, f)
  PROVE  AllFields(fo) \in Seq(FormNodes(f))
<1> DEFINE S == FormNodes(f)
           V == Seq(S)
           n == Len(fo)
           step == [x \in (1 .. n) \X V |-> x[2] \o <<fo[x[1]]>> \o FieldsBelow(fo[x[1]])]
           All(h) == [i \in 0 .. n |-> IF i = 0 THEN << >>
                                       ELSE h[i - 1] \o <<fo[i]>> \o FieldsBelow(fo[i])]
           some == CHOOSE h : h = All(h)
<1>1. << >> \in V
  OBVIOUS
<1>2. CASE fo = Nil
  BY <1>1, <1>2 DEF AllFields
<1>3. CASE fo # Nil
  <2>1. AllFields(fo) = some[n]
    BY <1>3 DEF AllFields
  <2>2. fo \in Seq(S)
    BY <1>3 DEF FormOK
  <2>3. n \in Nat /\ \A i \in 1 .. n : fo[i] \in S
    <3> HIDE DEF S
    <3> QED
      BY <2>2
  <2>4. \A i \in 1 .. n : FieldsBelow(fo[i]) \in V
    BY <2>3, FieldsBelowAre
  <2>5. ASSUME NEW i \in 1 .. n, NEW v \in V
        PROVE  v \o <<fo[i]>> \o FieldsBelow(fo[i]) \in V
    <3> DEFINE b == FieldsBelow(fo[i])
               x == fo[i]
    <3>1. b \in Seq(S) /\ x \in S /\ v \in Seq(S)
      BY <2>3, <2>4
    <3> HIDE DEF S, b, x
    <3>2. v \o <<x>> \o b \in Seq(S)
      BY <3>1
    <3> QED
      BY <3>2 DEF b, x
  <2> HIDE DEF V, S
  <2>6. step \in [(1 .. n) \X V -> V]
    BY <2>5
  <2>7. \A i \in 1 .. n, v \in V : step[<<i, v>>] = v \o <<fo[i]>> \o FieldsBelow(fo[i])
    OBVIOUS
  <2> HIDE DEF step, n
  <2> HIDE DEF All
  <2>8. PICK h \in [0 .. n -> V] : h[0] = << >> /\ \A i \in 1 .. n : h[i] = step[<<i, h[i - 1]>>]
    <3>1. \E h \in [0 .. n -> V] : Iterated(h, n, << >>, step)
      BY <1>1, <2>3, <2>6, Iterates
    <3> QED
      BY <3>1 DEF Iterated
  <2> USE DEF All
  <2>9. h = All(h)
    <3>1. ASSUME NEW i \in 0 .. n
          PROVE  h[i] = All(h)[i]
      <4>1. CASE i = 0
        BY <2>8, <4>1
      <4>2. CASE i # 0
        <5>1. i \in 1 .. n /\ i - 1 \in 0 .. n /\ h[i - 1] \in V
          BY <2>3, <4>2
        <5>2. h[i] = step[<<i, h[i - 1]>>]
            BY <2>8, <5>1
        <5>3. h[i] = h[i - 1] \o <<fo[i]>> \o FieldsBelow(fo[i])
          BY <2>7, <5>1, <5>2
        <5> QED
          BY <4>2, <5>3
      <4> QED
        BY <4>1, <4>2
    <3>2. h = [i \in 0 .. n |-> h[i]]
      OBVIOUS
    <3> HIDE DEF All
    <3>3. All(h) = [i \in 0 .. n |-> All(h)[i]]
      BY DEF All
    <3> QED
      BY <3>1, <3>2, <3>3
  <2>10. some = All(some)
    <3> HIDE DEF All
    <3> QED
      BY <2>9
  <2> HIDE DEF some
  <2> DEFINE G == {i \in 0 .. n : some[i] \in V}
  <2>11. 0 \in G
    BY <1>1, <2>3, <2>10
  <2>12. ASSUME NEW m \in 1 .. n, m - 1 \in G
         PROVE  m \in G
    <3>1. some[m] = some[m - 1] \o <<fo[m]>> \o FieldsBelow(fo[m])
      <4>1. m \in 0 .. n /\ m # 0
        BY <2>3
      <4>2. some[m] = All(some)[m]
        BY <2>10
      <4> HIDE DEF some
      <4>3. All(some)[m] = some[m - 1] \o <<fo[m]>> \o FieldsBelow(fo[m])
        BY <4>1
      <4> QED
        BY <4>2, <4>3
    <3>2. some[m - 1] \in V
      BY <2>12
    <3>3. some[m] \in V
      BY <2>5, <3>1, <3>2
    <3> QED
      BY <3>3
  <2> HIDE DEF G
  <2>13. \A m \in 0 .. n : m \in G
    BY <2>3, <2>11, <2>12, UpTo
  <2>14. some[n] \in V
    BY <2>3, <2>13 DEF G
  <2> QED
    BY <2>1, <2>14 DEF V, S
<1> QED
  BY <1>2, <1>3

-----------------------------------------------------------------------------
(* What holds of the document while it is changed.                          *)
SignedOK(si, f) ==
  IsSeq(si) /\ \A i \in 1 .. Len(si) : si[i].dict \in HeapOf(f) /\ si[i].page \in HeapOf(f)
NewObjsOK(new, f) == \A o \in new : o \in HeapOf(f) /\ o[1] # "ro"

\* Every page of the document is made of the pages asked for and of parts that
\* are there; a page of the file shares its dictionaries with no other; the list
\* has a page that is not the file's, or is the file's own, or is empty; what is
\* noted as new is there and not the read-only reader's.
StateOK ==
  /\ fresh \in Nat
  /\ ContsOK(conts, fresh)
  /\ PagesOK(pages, want, conts, fresh)
  /\ DictsOK(dicts, fresh)
  /\ KeptOK(pages, dicts)
  /\ NewOK(pages, want)
  /\ FormOK(form, fresh)
  /\ SignedOK(signed, fresh)
  /\ NewObjsOK(newObjs, fresh)

LEMMA SignedLater ==
  ASSUME NEW si, NEW f \in Nat, NEW g \in Nat, f <= g, SignedOK(si, f)
  PROVE  SignedOK(si, g)
BY HeapGrows DEF SignedOK

LEMMA NewObjsLater ==
  ASSUME NEW new, NEW f \in Nat, NEW g \in Nat, f <= g, NewObjsOK(new, f)
  PROVE  NewObjsOK(new, g)
BY HeapGrows DEF NewObjsOK

LEMMA StateInit == AppInit => StateOK
<1> SUFFICES ASSUME AppInit PROVE StateOK
  OBVIOUS
<1> DEFINE n == Len(FilePages)
<1>1. /\ IsSeq(FilePages) /\ n \in Nat /\ DOMAIN FilePages = 1 .. n
      /\ \A i \in 1 .. n : FilePages[i] \in FileNodes /\ FilePages[i] \in Pages
      /\ \A i \in 1 .. n : FilePages[i] \in Range(FilePages)
      /\ \A i, j \in 1 .. n : FilePages[i] = FilePages[j] => i = j
  BY PagesAre, PagesAssumptions DEF IsSeq
<1> HIDE DEF n
<1>2. /\ fresh = 0 /\ signed = << >> /\ newObjs = {}
      /\ pages = [i \in 1 .. n |-> ModelOf("ro", FilePages[i])]
      /\ want = [i \in 1 .. n |-> <<FilePages[i]>>]
      /\ conts = [a \in OrigConts |-> <<a[2]>>]
      /\ dicts = [d \in AllDicts |-> [m \in DOMAIN PageRes[d[2]][d[3]] |-> <<d[1], PageRes[d[2]][d[3]][m]>>]]
      /\ form = IF Fields = Nil THEN Nil ELSE [i \in DOMAIN Fields |-> <<"ro", Fields[i]>>]
  BY <1>1 DEF AppInit, OrigConts
<1>3. ContsOK(conts, 0)
  <2>1. \A a \in OrigConts : a[2] \in Pages /\ a[2] \in Nodes /\ a[2] # Stamp
    <3>1. \A p \in Pages : p \in Nodes /\ p # Stamp
      BY PagesAre, AppenderAssumptions DEF Nodes
    <3> QED
      BY <3>1 DEF OrigConts
  <2>2. ASSUME NEW a \in OrigConts
        PROVE  conts[a] \in Seq(Nodes \cup {Stamp}) /\ Unstamped(conts[a]) = <<a[2]>>
    <3>1. conts[a] = <<a[2]>>
      BY <1>2
    <3> QED
      BY <2>1, <3>1, UnstampedOne
  <2>3. DOMAIN conts = OrigConts
    BY <1>2
  <2> QED
    BY <2>2, <2>3 DEF ContsOK
<1>4. PagesOK(pages, want, conts, 0)
  <2>1. IsSeq(pages) /\ Len(pages) = n
    BY <1>1, <1>2, ListIs
  <2>2. IsSeq(want) /\ Len(want) = n
    BY <1>1, <1>2, ListIs
  <2>3. ASSUME NEW i \in 1 .. n
        PROVE  PageOK(pages[i], conts, 0) /\ Shows(pages[i], want[i], conts)
    <3> DEFINE p == FilePages[i]
    <3>1. pages[i] = ModelOf("ro", p) /\ want[i] = <<p>>
      BY <1>2
    <3>2. p \in Pages /\ p \in FileNodes /\ p \in Range(FilePages) /\ "ro" \in Homes(p)
      BY <1>1, HomesAre
    <3> HIDE DEF p
    <3>3. PartsOK(ModelOf("ro", p), conts, 0) /\ Shows(ModelOf("ro", p), <<p>>, conts)
      BY <1>3, <3>2, ModelOK
    <3>4. ModelOf("ro", p).obj = <<"ro", p>>
      BY ModelIs
    <3>5. <<"ro", p>> \in HeapOf(0)
      BY <3>2, HeapIs
    <3>6. PageOK(ModelOf("ro", p), conts, 0)
      BY <3>2, <3>3, <3>4, <3>5 DEF PageOK
    <3> QED
      BY <3>1, <3>3, <3>6
  <2> QED
    BY <2>1, <2>2, <2>3 DEF PagesOK
<1>5. DictsOK(dicts, 0)
  <2>1. ASSUME NEW x \in AllDicts, NEW m \in DOMAIN dicts[x]
        PROVE  dicts[x][m] \in HeapOf(0)
    <3>1. PICK p \in Pages : \E ow \in Homes(p), k \in Kinds : PageRes[p][k] # Nil /\ x = <<ow, p, k>>
      BY DEF AllDicts
    <3>2. PICK ow \in Homes(p), k \in Kinds : PageRes[p][k] # Nil /\ x = <<ow, p, k>>
      BY <3>1
    <3>3. dicts[x] = [l \in DOMAIN PageRes[p][k] |-> <<ow, PageRes[p][k][l]>>]
      BY <1>2, <3>2
    <3>4. \A l \in DOMAIN PageRes[p][k] : <<ow, PageRes[p][k][l]>> \in HeapOf(0)
      BY <3>2, PageFacts
    <3> QED
      BY <3>3, <3>4
  <2>2. DOMAIN dicts = AllDicts
    BY <1>2
  <2> QED
    BY <2>1, <2>2 DEF DictsOK
<1>6. KeptOK(pages, dicts)
  <2>1. ASSUME NEW i \in 1 .. n, NEW k \in Kinds, pages[i].res[k] # Nil
        PROVE  Apart(pages, dicts, i, pages[i].res[k])
    <3> DEFINE x == pages[i].res[k]
    <3>1. \A j \in 1 .. n : \A q \in Kinds :
            pages[j].res[q] = IF PageRes[FilePages[j]][q] = Nil THEN Nil ELSE <<"ro", FilePages[j], q>>
      BY <1>2, ModelIs
    <3>2. x = <<"ro", FilePages[i], k>> /\ x # Nil
      BY <2>1, <3>1
    <3>3. Len(pages) = n
      BY <1>1, <1>2, ListIs
    <3>4. x \in AllDicts
      <4>1. PartsOK(pages[i], conts, 0)
        BY <1>4, <3>3 DEF PagesOK, PageOK
      <4> QED
        BY <2>1, <4>1 DEF PartsOK
    <3>5. x[1] = "ro" /\ x[2] = FilePages[i]
      BY <3>2
    <3> HIDE DEF x
    <3>6. ASSUME NEW j \in 1 .. n, j # i, NEW q \in Kinds
          PROVE  pages[j].res[q] # x
      <4>1. FilePages[j] # FilePages[i]
        BY <1>1, <3>6
      <4>2. pages[j].res[q] = Nil \/ pages[j].res[q][2] = FilePages[j]
        <5> DEFINE y == pages[j].res[q]
                   p == FilePages[j]
        <5>1. y = IF PageRes[p][q] = Nil THEN Nil ELSE <<"ro", p, q>>
          BY <3>1
        <5> HIDE DEF y, p
        <5>2. y = Nil \/ y[2] = p
          BY <5>1
        <5> QED
          BY <5>2 DEF y, p
      <4> QED
        BY <3>2, <3>5, <4>1, <4>2
    <3>7. \A m \in DOMAIN dicts[x] : dicts[x][m][1] = "ro"
      <4>1. dicts[x] = [m \in DOMAIN PageRes[x[2]][x[3]] |-> <<x[1], PageRes[x[2]][x[3]][m]>>]
        BY <1>2, <3>4
      <4> QED
        BY <3>5, <4>1
    <3>8. Apart(pages, dicts, i, x)
      BY <3>6, <3>7, <3>3 DEF Apart
    <3> QED
      BY <3>8 DEF x
  <2>2. Len(pages) = n
    BY <1>1, <1>2, ListIs
  <2> QED
    BY <2>1, <2>2 DEF KeptOK
<1>7. NewOK(pages, want)
  <2>1. Len(pages) = n
    BY <1>1, <1>2, ListIs
  <2> QED
    BY <1>1, <1>2, <2>1 DEF NewOK, n
<1>8. FormOK(form, 0)
  <2>1. CASE Fields = Nil
    BY <1>2, <2>1 DEF FormOK
  <2>2. CASE Fields # Nil
    <3>1. IsSeq(Fields) /\ \A i \in 1 .. Len(Fields) : Fields[i] \in FileNodes
      BY <2>2, PagesAssumptions, SeqIs
    <3>2. form = [i \in 1 .. Len(Fields) |-> <<"ro", Fields[i]>>] /\ Len(Fields) \in Nat
      BY <1>2, <2>2, <3>1 DEF IsSeq
    <3>3. IsSeq(form) /\ Len(form) = Len(Fields)
      BY <3>2, ListIs
    <3>4. \A i \in 1 .. Len(form) : form[i] \in FormNodes(0)
      BY <3>1, <3>2, <3>3 DEF FormNodes
    <3> DEFINE S == FormNodes(0)
    <3> HIDE DEF S
    <3>5. form \in Seq(S)
      BY <3>3, <3>4, IsSeqOf DEF S
    <3> QED
      BY <3>5 DEF FormOK, S
  <2> QED
    BY <2>1, <2>2
<1>9. SignedOK(signed, 0) /\ NewObjsOK(newObjs, 0)
  BY <1>2 DEF SignedOK, NewObjsOK, IsSeq
<1> QED
  BY <1>2, <1>3, <1>4, <1>5, <1>6, <1>7, <1>8, <1>9 DEF StateOK

(* A page of the client's reader or of another document, and what AddPages  *)
(* makes of it.                                                             *)
IsNewPage(d, p, c1, g) ==
  /\ PageOK(d, c1, g) /\ Shows(d, <<p>>, c1) /\ ~IsKept(d)
  /\ d.cont \in DOMAIN c1
  /\ \A k \in Kinds : d.res[k] = Nil \/ d.res[k][1] # "ro"

LEMMA NewPageOK ==
  ASSUME NEW p \in Pages, NEW c, NEW f \in Nat, NEW g \in Nat, f <= g, ContsOK(c, f), NEW k \in 0 .. g - 1
  PROVE  LET d  == Duplicate(ModelOf(HomeOf(p), p), k)
             c1 == ProcPage(c, d)
         IN  IsNewPage(d, p, c1, g) /\ ContsOK(c1, g) /\ Grown(c, c1)
<1> DEFINE m  == ModelOf(HomeOf(p), p)
           d  == Duplicate(m, k)
           c1 == ProcPage(c, d)
<1>1. HomeOf(p) \in Homes(p) /\ HomeOf(p) # "ro"
  BY HomesAre
<1>2. PartsOK(m, c, f) /\ Shows(m, <<p>>, c)
  BY <1>1, ModelOK
<1>3. \A q \in Kinds : m.res[q] = Nil \/ m.res[q][1] # "ro"
  <2>1. \A q \in Kinds : m.res[q] = IF PageRes[p][q] = Nil THEN Nil ELSE <<HomeOf(p), p, q>>
    BY ModelIs
  <2> TAKE q \in Kinds
  <2> DEFINE x == m.res[q]
  <2>2. x = IF PageRes[p][q] = Nil THEN Nil ELSE <<HomeOf(p), p, q>>
    BY <2>1
  <2> HIDE DEF x
  <2>3. x = Nil \/ x[1] # "ro"
    BY <1>1, <2>2
  <2> QED
    BY <2>3 DEF x
<1> HIDE DEF m
<1>4. PageOK(d, c, g) /\ ~IsKept(d) /\ Shows(d, <<p>>, c)
  BY <1>2, DuplicateOK
<1>5. d.res = m.res
  BY <1>2, DuplicateIs DEF PartsOK
<1> HIDE DEF d
<1>6. d.cont \in DOMAIN c
  BY <1>4 DEF PageOK, PartsOK
<1>7. ContsOK(c, g)
  BY ContsLater
<1>8. ContsOK(c1, g) /\ Grown(c, c1)
  BY <1>6, <1>7, ProcPageOK
<1> HIDE DEF c1
<1>9. PageOK(d, c1, g) /\ Shows(d, <<p>>, c1)
  BY <1>4, <1>6, <1>8, PageLater, ShowsLater
<1>10. d.cont \in DOMAIN c1
  BY <1>9 DEF PageOK, PartsOK
<1>11. IsNewPage(d, p, c1, g)
  BY <1>3, <1>4, <1>5, <1>9, <1>10 DEF IsNewPage
<1> QED
  BY <1>8, <1>11 DEF d, c1, m

LEMMA AddPagesOK ==
  ASSUME StateOK, NEW p \in Pages, AddPages(p)
  PROVE  StateOK'
<1> DEFINE g  == fresh + 1
           d  == Duplicate(ModelOf(HomeOf(p), p), fresh)
           c1 == ProcPage(conts, d)
<1>1. /\ pages' = Append(pages, d) /\ conts' = c1 /\ fresh' = g /\ want' = Append(want, <<p>>)
      /\ dicts' = dicts /\ form' = form /\ signed' = signed /\ newObjs' = newObjs
  BY DEF AddPages
<1>2. fresh \in Nat /\ g \in Nat /\ fresh <= g /\ fresh \in 0 .. g - 1
  BY DEF StateOK
<1>3. ContsOK(conts, fresh) /\ PagesOK(pages, want, conts, fresh) /\ DictsOK(dicts, fresh)
      /\ KeptOK(pages, dicts) /\ FormOK(form, fresh) /\ SignedOK(signed, fresh) /\ NewObjsOK(newObjs, fresh)
  BY DEF StateOK
<1>4. IsNewPage(d, p, c1, g) /\ ContsOK(c1, g) /\ Grown(conts, c1)
  BY <1>2, <1>3, NewPageOK
<1> HIDE DEF d, c1, g
<1>5. PagesOK(pages, want, c1, g)
  BY <1>2, <1>3, <1>4, PagesLater
<1>6. PagesOK(Append(pages, d), Append(want, <<p>>), c1, g)
  BY <1>4, <1>5, PagesAdded DEF IsNewPage
<1>7. KeptOK(Append(pages, d), dicts)
  BY <1>3, <1>4, KeptAdded DEF IsNewPage
<1>8. NewOK(Append(pages, d), Append(want, <<p>>))
  <2> DEFINE n == Len(pages)
             pt == Append(pages, d)
  <2>1. n \in Nat /\ Len(pt) = n + 1 /\ pt[n + 1] = d
    BY <1>3, AppendedIs DEF PagesOK, IsSeq
  <2>2. ~IsKept(d)
    BY <1>4 DEF IsNewPage
  <2> HIDE DEF n, pt
  <2>3. NewOK(pt, Append(want, <<p>>))
    BY <2>1, <2>2 DEF NewOK
  <2> QED
    BY <2>3 DEF pt
<1>9. DictsOK(dicts, g) /\ FormOK(form, g) /\ SignedOK(signed, g) /\ NewObjsOK(newObjs, g)
  BY <1>2, <1>3, DictsLater, FormLater, SignedLater, NewObjsLater
<1> QED
  BY <1>1, <1>2, <1>4, <1>6, <1>7, <1>8, <1>9 DEF StateOK

(* A page in the place of another.                                          *)
LEMMA PutOK ==
  ASSUME StateOK, NEW i \in 1 .. Len(pages), NEW g \in Nat, fresh <= g,
         NEW q, NEW w, ~IsKept(q), PageOK(q, conts', g), Shows(q, w, conts'),
         ResFrom(q, pages[i]),
         ContsOK(conts', g), Grown(conts, conts'),
         pages' = [pages EXCEPT ![i] = q], want' = [want EXCEPT ![i] = w], fresh' = g,
         DictsOK(dicts', g),
         OnlyIn(dicts', dicts, pages[i]),
         FormOK(form', g), SignedOK(signed', g), NewObjsOK(newObjs', g)
  PROVE  StateOK'
<1>1. fresh \in Nat /\ PagesOK(pages, want, conts, fresh) /\ KeptOK(pages, dicts)
  BY DEF StateOK
<1>2. PagesOK(pages, want, conts', g)
  BY <1>1, PagesLater
<1>3. PagesOK([pages EXCEPT ![i] = q], [want EXCEPT ![i] = w], conts', g)
  BY <1>2, PagesPut
<1>4. KeptOK([pages EXCEPT ![i] = q], dicts')
  BY <1>1, KeptPut
<1>5. IsPut([pages EXCEPT ![i] = q], pages, i, q)
  BY <1>1, PutIs DEF PagesOK
<1>6. NewOK(pages', want')
  BY <1>5 DEF NewOK, IsPut
<1> QED
  BY <1>3, <1>4, <1>6 DEF StateOK

LEMMA ReplacePageOK ==
  ASSUME StateOK, NEW i, NEW p \in Pages, ReplacePage(i, p)
  PROVE  StateOK'
<1> DEFINE g  == fresh + 1
           d  == Duplicate(ModelOf(HomeOf(p), p), fresh)
           c1 == ProcPage(conts, d)
<1>1. /\ pages' = [pages EXCEPT ![i] = d] /\ conts' = c1 /\ fresh' = g
      /\ want' = [want EXCEPT ![i] = <<p>>] /\ i \in DOMAIN pages
      /\ dicts' = dicts /\ form' = form /\ signed' = signed /\ newObjs' = newObjs
  BY DEF ReplacePage
<1>2. fresh \in Nat /\ g \in Nat /\ fresh <= g /\ fresh \in 0 .. g - 1
  BY DEF StateOK
<1>3. ContsOK(conts, fresh) /\ PagesOK(pages, want, conts, fresh) /\ DictsOK(dicts, fresh)
      /\ FormOK(form, fresh) /\ SignedOK(signed, fresh) /\ NewObjsOK(newObjs, fresh)
  BY DEF StateOK
<1>4. IsNewPage(d, p, c1, g) /\ ContsOK(c1, g) /\ Grown(conts, c1)
  BY <1>2, <1>3, NewPageOK
<1>5. i \in 1 .. Len(pages)
  BY <1>1, <1>3 DEF PagesOK, IsSeq
<1> HIDE DEF d, c1, g
<1>6. DictsOK(dicts, g) /\ FormOK(form, g) /\ SignedOK(signed, g) /\ NewObjsOK(newObjs, g)
  BY <1>2, <1>3, DictsLater, FormLater, SignedLater, NewObjsLater
<1>7. /\ ~IsKept(d) /\ PageOK(d, conts', g) /\ Shows(d, <<p>>, conts')
       /\ ResFrom(d, pages[i]) /\ ContsOK(conts', g) /\ Grown(conts, conts')
  BY <1>1, <1>4 DEF IsNewPage, ResFrom
<1>8. DictsOK(dicts', g) /\ FormOK(form', g) /\ SignedOK(signed', g) /\ NewObjsOK(newObjs', g)
       /\ OnlyIn(dicts', dicts, pages[i])
  BY <1>1, <1>6 DEF OnlyIn
<1> QED
  BY <1>1, <1>2, <1>5, <1>7, <1>8, PutOK

LEMMA RemovePageOK ==
  ASSUME StateOK, NEW i, RemovePage(i)
  PROVE  StateOK'
<1> DEFINE n == Len(pages)
           g == fresh + n + 1
           dup(j) == IF IsKept(pages[j]) THEN Duplicate(pages[j], fresh + j) ELSE pages[j]
           kept == {j \in DOMAIN pages \ {i} : IsKept(pages[j])}
           place(j) == IF j < i THEN j ELSE j + 1
           c1 == ProcPages(conts, {pages[j] : j \in kept})
           pt == [j \in 1 .. n - 1 |-> dup(place(j))]
           wt == [j \in 1 .. n - 1 |-> want[place(j)]]
<1>1. /\ pages' = pt /\ conts' = c1 /\ fresh' = g /\ want' = wt /\ i \in DOMAIN pages
      /\ dicts' = dicts /\ form' = form /\ signed' = signed /\ newObjs' = newObjs
  BY DEF RemovePage
<1>2. /\ fresh \in Nat /\ ContsOK(conts, fresh) /\ PagesOK(pages, want, conts, fresh) /\ DictsOK(dicts, fresh)
      /\ FormOK(form, fresh) /\ SignedOK(signed, fresh) /\ NewObjsOK(newObjs, fresh)
  BY DEF StateOK
<1>3. n \in Nat /\ i \in 1 .. n
  BY <1>1, <1>2 DEF PagesOK, IsSeq
<1>4. g \in Nat /\ fresh <= g /\ \A j \in 1 .. n : fresh + j \in 0 .. g - 1
  BY <1>2, <1>3
<1>5. ContsOK(c1, g) /\ Grown(conts, c1)
  BY <1>2, <1>4, ProcPagesOK, ContsLater
<1> HIDE DEF g, c1, n
<1>6. ASSUME NEW j \in 1 .. n
      PROVE  PageOK(dup(j), c1, g) /\ Shows(dup(j), want[j], c1) /\ ~IsKept(dup(j))
  <2>1. PageOK(pages[j], conts, fresh) /\ Shows(pages[j], want[j], conts)
    BY <1>2 DEF PagesOK, n
  <2> DEFINE p == pages[j]
             w == want[j]
             k == fresh + j
             d == Duplicate(p, k)
  <2>2. PartsOK(p, conts, fresh) /\ Shows(p, w, conts) /\ PageOK(p, conts, fresh) /\ k \in 0 .. g - 1
    BY <1>4, <2>1 DEF PageOK
  <2>3. CASE IsKept(p)
    <3>1. dup(j) = d
      BY <2>3
    <3> HIDE DEF dup, p, w, k
    <3>2. PageOK(d, conts, g) /\ ~IsKept(d) /\ Shows(d, w, conts)
      BY <1>2, <1>4, <2>2, DuplicateOK
    <3> HIDE DEF d
    <3>3. d.cont \in DOMAIN conts
      BY <3>2 DEF PageOK, PartsOK
    <3>4. PageOK(d, c1, g) /\ Shows(d, w, c1)
      BY <1>4, <1>5, <3>2, <3>3, PageLater, ShowsLater
    <3> QED
      BY <3>1, <3>2, <3>4 DEF w
  <2>4. CASE ~IsKept(p)
    <3>1. dup(j) = p
      BY <2>4
    <3> HIDE DEF dup, p, w, k
    <3>2. p.cont \in DOMAIN conts
      BY <2>2 DEF PartsOK
    <3>3. PageOK(p, c1, g) /\ Shows(p, w, c1)
      BY <1>2, <1>4, <1>5, <2>2, <3>2, PageLater, ShowsLater
    <3> QED
      BY <2>4, <3>1, <3>3 DEF w
  <2> QED
    BY <2>3, <2>4
<1> HIDE DEF dup
<1>7. n - 1 \in Nat /\ \A j \in 1 .. n - 1 : place(j) \in 1 .. n
  BY <1>3
<1> HIDE DEF place
<1>8. /\ IsSeq(pt) /\ Len(pt) = n - 1 /\ IsSeq(wt) /\ Len(wt) = n - 1
  <2>1. pt = [j \in 1 .. n - 1 |-> pt[j]] /\ wt = [j \in 1 .. n - 1 |-> wt[j]]
    OBVIOUS
  <2> HIDE DEF pt, wt
  <2> QED
    BY <1>7, <2>1, ListIs
<1>9. \A j \in 1 .. n - 1 : PageOK(pt[j], c1, g) /\ Shows(pt[j], wt[j], c1) /\ ~IsKept(pt[j])
  <2>1. \A j \in 1 .. n - 1 : pt[j] = dup(place(j)) /\ wt[j] = want[place(j)]
    OBVIOUS
  <2> HIDE DEF pt, wt
  <2> QED
    BY <1>6, <1>7, <2>1
<1> HIDE DEF pt, wt
<1>10. PagesOK(pt, wt, c1, g)
  BY <1>8, <1>9 DEF PagesOK
<1>11. KeptOK(pt, dicts)
  BY <1>8, <1>9 DEF KeptOK
<1>12. NewOK(pt, wt)
  <2>1. CASE n - 1 = 0
    BY <1>8, <2>1 DEF NewOK
  <2>2. CASE n - 1 # 0
    <3>1. 1 \in 1 .. n - 1
      BY <1>3, <1>7, <2>2
    <3> QED
      BY <1>8, <1>9, <3>1 DEF NewOK
  <2> QED
    BY <2>1, <2>2
<1>13. DictsOK(dicts, g) /\ FormOK(form, g) /\ SignedOK(signed, g) /\ NewObjsOK(newObjs, g)
  BY <1>2, <1>4, DictsLater, FormLater, SignedLater, NewObjsLater
<1> QED
  BY <1>1, <1>4, <1>5, <1>10, <1>11, <1>12, <1>13 DEF StateOK

LEMMA ReplaceAcroFormOK ==
  ASSUME StateOK, ReplaceAcroForm(<< >>)
  PROVE  StateOK'
<1>1. FormOK(<< >>, fresh)
  BY DEF FormOK
<1> QED
  BY <1>1 DEF StateOK, ReplaceAcroForm

LEMMA SignOK ==
  ASSUME StateOK, NEW i, Sign(i)
  PROVE  StateOK'
<1> DEFINE g == fresh + 3
           dict == <<"dup", fresh>>
           widget == <<"dup", fresh + 1>>
           d == Duplicate(pages[i], fresh + 2)
           page == [d EXCEPT !.notes = @ \cup {widget}]
           c1 == ProcPage(conts, page)
           f1 == Append(AllFields(form), widget)
           s1 == Append(signed, [dict |-> dict, widget |-> widget, page |-> page.obj])
           new1 == newObjs \cup {dict}
<1>1. /\ newObjs' = new1 /\ fresh' = g /\ dicts' = dicts /\ want' = want
      /\ IF i \in DOMAIN pages
         THEN pages' = [pages EXCEPT ![i] = page] /\ conts' = c1 /\ form' = f1 /\ signed' = s1
         ELSE pages' = pages /\ conts' = conts /\ form' = form /\ signed' = signed
  BY DEF Sign
<1>2. /\ fresh \in Nat /\ ContsOK(conts, fresh) /\ PagesOK(pages, want, conts, fresh) /\ DictsOK(dicts, fresh)
      /\ FormOK(form, fresh) /\ SignedOK(signed, fresh) /\ NewObjsOK(newObjs, fresh) /\ KeptOK(pages, dicts)
      /\ NewOK(pages, want)
  BY DEF StateOK
<1>3. g \in Nat /\ fresh <= g /\ fresh \in 0 .. g - 1 /\ fresh + 1 \in 0 .. g - 1 /\ fresh + 2 \in 0 .. g - 1
  BY <1>2
<1>4. dict \in HeapOf(g) /\ widget \in HeapOf(g) /\ widget \in FormNodes(g) /\ dict[1] # "ro"
  BY <1>3, HeapIs DEF FormNodes
<1>5. DictsOK(dicts, g) /\ FormOK(form, g) /\ SignedOK(signed, g) /\ ContsOK(conts, g)
  BY <1>2, <1>3, DictsLater, FormLater, SignedLater, ContsLater
<1>6. NewObjsOK(new1, g)
  <2>1. NewObjsOK(newObjs, g)
    BY <1>2, <1>3, NewObjsLater
  <2> HIDE DEF dict
  <2> QED
    BY <1>4, <2>1 DEF NewObjsOK
<1> HIDE DEF new1
<1>7. CASE i \notin DOMAIN pages
  <2> HIDE DEF g, c1, f1, s1, page
  <2>1. pages' = pages /\ conts' = conts /\ form' = form /\ signed' = signed
    BY <1>1, <1>7
  <2>2. PagesOK(pages, want, conts, g)
    <3>1. Grown(conts, conts)
      BY DEF Grown
    <3> QED
      BY <1>2, <1>3, <3>1, PagesLater
  <2> QED
    BY <1>1, <1>2, <1>3, <1>5, <1>6, <2>1, <2>2 DEF StateOK
<1>8. CASE i \in DOMAIN pages
  <2>1. pages' = [pages EXCEPT ![i] = page] /\ conts' = c1 /\ form' = f1 /\ signed' = s1
    BY <1>1, <1>8
  <2>2. i \in 1 .. Len(pages)
    BY <1>2, <1>8 DEF PagesOK, IsSeq
  <2> DEFINE p == pages[i]
             w == want[i]
  <2>3. PageOK(p, conts, fresh) /\ Shows(p, w, conts) /\ PartsOK(p, conts, fresh)
    BY <1>2, <2>2 DEF PagesOK, PageOK
  <2>4. PageOK(d, conts, g) /\ ~IsKept(d) /\ Shows(d, w, conts) /\ d.res = p.res /\ DOMAIN d = PageKeys
    <3> HIDE DEF p, w, g
    <3>1. /\ PageOK(Duplicate(p, fresh + 2), conts, g) /\ ~IsKept(Duplicate(p, fresh + 2))
          /\ Shows(Duplicate(p, fresh + 2), w, conts) /\ Duplicate(p, fresh + 2).res = p.res
      BY <1>2, <1>3, <2>3, DuplicateOK, DuplicateIs DEF PartsOK
    <3>2. d = Duplicate(p, fresh + 2)
      BY DEF p
    <3> HIDE DEF d
    <3> QED
      BY <3>1, <3>2 DEF PageOK, PartsOK
  <2> HIDE DEF p, w, g, d, widget
  <2>5. /\ DOMAIN page = PageKeys /\ page.obj = d.obj /\ page.up = d.up /\ page.box = d.box
        /\ page.cont = d.cont /\ page.notes = d.notes \cup {widget} /\ page.res = d.res
    BY <2>4, NotedIs
  <2> HIDE DEF page
  <2>6. PageOK(page, conts, g) /\ Shows(page, w, conts) /\ ~IsKept(page) /\ page.obj \in HeapOf(g)
    <3>1. PartsOK(page, conts, g)
      BY <1>4, <2>4, <2>5 DEF PageOK, PartsOK
    <3>2. page.obj[1] = "dup" /\ page.obj \in HeapOf(g)
      BY <2>4, <2>5 DEF PageOK, IsKept
    <3> QED
      BY <2>4, <2>5, <3>1, <3>2 DEF PageOK, Shows, HasBox, IsKept
  <2>7. page.cont \in DOMAIN conts
    BY <2>6 DEF PageOK, PartsOK
  <2>8. ContsOK(c1, g) /\ Grown(conts, c1)
    BY <1>5, <2>7, ProcPageOK
  <2> HIDE DEF c1
  <2>9. PageOK(page, c1, g) /\ Shows(page, w, c1)
    BY <1>3, <2>6, <2>7, <2>8, PageLater, ShowsLater
  <2>10. ResFrom(page, pages[i]) /\ OnlyIn(dicts, dicts, pages[i])
    BY <2>4, <2>5 DEF ResFrom, OnlyIn, p
  <2>11. want = [want EXCEPT ![i] = w]
    BY <1>2, <2>2 DEF w, PagesOK, IsSeq
  <2>12. FormOK(f1, g)
    <3> DEFINE S == FormNodes(g)
               a == AllFields(form)
    <3>1. a \in Seq(S) /\ widget \in S
      BY <1>4, <1>5, AllFieldsOK
    <3> HIDE DEF S, a
    <3>2. Append(a, widget) \in Seq(S)
      BY <3>1
    <3> QED
      BY <3>2 DEF FormOK, S, a
  <2>13. SignedOK(s1, g)
    <3> DEFINE x == [dict |-> dict, widget |-> widget, page |-> page.obj]
               n == Len(signed)
    <3>1. x.dict \in HeapOf(g) /\ x.page \in HeapOf(g)
      BY <1>4, <2>6
    <3> HIDE DEF x
    <3>2. IsSeq(s1) /\ Len(s1) = n + 1 /\ s1[n + 1] = x /\ \A j \in 1 .. n : s1[j] = signed[j]
      BY <1>5, AppendedIs DEF SignedOK, x
    <3>3. n \in Nat /\ \A j \in 1 .. n : signed[j].dict \in HeapOf(g) /\ signed[j].page \in HeapOf(g)
      BY <1>5 DEF SignedOK, IsSeq
    <3> HIDE DEF s1, n
    <3>4. \A j \in 1 .. n + 1 : j \in 1 .. n \/ j = n + 1
      BY <3>3
    <3> QED
      BY <3>1, <3>2, <3>3, <3>4 DEF SignedOK
  <2> HIDE DEF f1, s1
  <2> QED
    BY <1>1, <1>3, <1>5, <1>6, <2>1, <2>2, <2>6, <2>8, <2>9, <2>10, <2>11, <2>12, <2>13, PutOK
<1> QED
  BY <1>7, <1>8

(* The content of a page that another was merged into.                      *)
HasContent(c2, c, f, g, w, v) ==
  /\ ContsOK(c2, g) /\ Grown(c, c2) /\ <<"new", f>> \in DOMAIN c2
  /\ Unstamped(c2[<<"new", f>>]) = v /\ v \in Seq(Pages) /\ v # << >> /\ v[1] = w[1]

LEMMA MergedContent ==
  ASSUME NEW c, NEW f \in Nat, ContsOK(c, f), NEW g \in Nat, f < g, NEW a \in DOMAIN c, NEW b \in DOMAIN c,
         NEW w \in Seq(Pages), w # << >>, NEW p \in Pages, Unstamped(c[a]) = w, Unstamped(c[b]) = <<p>>,
         NEW c2, c2 = WithCont(c, f, c[a] \o c[b])
  PROVE  HasContent(c2, c, f, g, w, Append(w, p))
<1> DEFINE S == Nodes \cup {Stamp}
           s == c[a]
           t == c[b]
<1>1. s \in Seq(S) /\ t \in Seq(S) /\ Unstamped(s) = w /\ Unstamped(t) = <<p>>
  BY DEF ContsOK
<1> HIDE DEF S, s, t
<1>2. Unstamped(s \o t) = w \o <<p>>
  <2>1. Concats(s, t)
    BY <1>1, UnstampedConcats
  <2> QED
    BY <1>1, <2>1 DEF Concats
<1>3. w \o <<p>> = Append(w, p) /\ Append(w, p) \in Seq(Pages) /\ Append(w, p) # << >>
  OBVIOUS
<1>4. Append(w, p)[1] = w[1]
  <2>1. Len(w) \in Nat /\ 1 \in 1 .. Len(w)
    OBVIOUS
  <2> QED
    BY <2>1
<1>5. s \o t \in Seq(S)
  BY <1>1
<1>6. ContsOK(c2, g) /\ Grown(c, c2) /\ c2[<<"new", f>>] = s \o t
  <2> DEFINE st == s \o t
  <2>1. c2 = WithCont(c, f, st)
    BY DEF s, t
  <2>2. st \in Seq(Nodes \cup {Stamp})
    BY <1>5 DEF S
  <2> HIDE DEF st
  <2>3. ContsOK(c2, g) /\ Grown(c, c2) /\ c2[<<"new", f>>] = st
    BY <2>1, <2>2, NewCont
  <2> QED
    BY <2>3 DEF st
<1>7. <<"new", f>> \in DOMAIN c2
  BY DEF WithCont
<1>8. Unstamped(c2[<<"new", f>>]) = Append(w, p)
  BY <1>2, <1>3, <1>6
<1> DEFINE v == Append(w, p)
<1>9. v \in Seq(Pages) /\ v # << >> /\ v[1] = w[1] /\ Unstamped(c2[<<"new", f>>]) = v
  BY <1>3, <1>4, <1>8
<1> HIDE DEF v
<1>10. HasContent(c2, c, f, g, w, v)
  BY <1>6, <1>7, <1>9 DEF HasContent
<1> QED
  BY <1>10 DEF v

(* The page itself.                                                         *)
IsMergedPage(q, page, src, add, bigger) ==
  q = IF bigger /\ HasBox(src) /\ HasBox(add) THEN Boxed(page) ELSE page

LEMMA MergedPageOK ==
  ASSUME NEW src, NEW add, NEW c, NEW g, PageOK(src, c, g), ~IsKept(src), PageOK(add, c, g),
         NEW w, NEW v, Shows(src, w, c), v \in Seq(Pages), v # << >>, v[1] = w[1],
         NEW k, <<"new", k>> \in DOMAIN c, Unstamped(c[<<"new", k>>]) = v,
         NEW ren, NEW order, NEW bigger, NEW q,
         IsMergedPage(q, MergedPage(src, add, ren, order, k), src, add, bigger)
  PROVE  PageOK(q, c, g) /\ ~IsKept(q) /\ Shows(q, v, c)
<1> DEFINE page == MergedPage(src, add, ren, order, k)
<1>1. DOMAIN src = PageKeys
  BY DEF PageOK, PartsOK
<1>2. /\ DOMAIN page = PageKeys /\ page.obj = src.obj /\ page.up = src.up /\ page.box = src.box
      /\ page.cont = <<"new", k>> /\ page.notes = src.notes \cup add.notes
      /\ \A z \in Kinds : page.res[z] = IF src.res[z] = Nil /\ z \in Merged THEN add.res[z] ELSE src.res[z]
  BY <1>1, MergedIs
<1>3. q = IF bigger /\ HasBox(src) /\ HasBox(add) THEN Boxed(page) ELSE page
  BY DEF IsMergedPage
<1> HIDE DEF page
<1>4. /\ DOMAIN q = PageKeys /\ q.obj = src.obj /\ q.up = src.up /\ q.cont = <<"new", k>>
      /\ q.notes = src.notes \cup add.notes /\ q.res = page.res
      /\ HasBox(q) <=> HasBox(src)
  <2>1. CASE q = page
    BY <1>2, <2>1 DEF HasBox
  <2>2. CASE q = Boxed(page) /\ HasBox(src)
    <3>1. /\ DOMAIN q = PageKeys /\ q.obj = page.obj /\ q.up = page.up /\ q.box = TRUE
          /\ q.cont = page.cont /\ q.notes = page.notes /\ q.res = page.res
      BY <1>2, <2>2, BoxedIs
    <3>2. HasBox(q)
      BY <3>1 DEF HasBox
    <3> QED
      BY <1>2, <2>2, <3>1, <3>2
  <2> QED
    BY <1>3, <2>1, <2>2
<1>5. PartsOK(src, c, g) /\ PartsOK(add, c, g) /\ src.obj \in HeapOf(g) /\ src.obj[1] = "dup"
  BY DEF PageOK, IsKept
<1>6. \A z \in Kinds : q.res[z] # Nil => q.res[z] \in AllDicts
  BY <1>2, <1>4, <1>5 DEF PartsOK
<1>7. PartsOK(q, c, g)
  BY <1>4, <1>5, <1>6 DEF PartsOK
<1>8. PageOK(q, c, g) /\ ~IsKept(q)
  BY <1>4, <1>5, <1>7 DEF PageOK, IsKept
<1>9. HasBox(q) <=> BoxAbove[v[1]]
  BY <1>4 DEF Shows
<1> QED
  BY <1>4, <1>8, <1>9 DEF Shows

LEMMA MergePageWithOK ==
  ASSUME StateOK, NEW i, NEW p \in Pages, NEW bigger, MergePageWith(i, p, bigger)
  PROVE  StateOK'
<1> DEFINE g == fresh + 2
           old == pages[i]
           w == want[i]
           src == IF IsKept(pages[i]) THEN Duplicate(pages[i], fresh) ELSE pages[i]
           add == Duplicate(ModelOf(HomeOf(p), p), fresh + 1)
           ren == Renames(Names(dicts, src), Names(dicts, add))
           c1  == ProcPage(conts, add)
           new == <<"new", fresh>>
           Page(order) == MergedPage(src, add, ren, order, fresh)
           Q(order) == IF bigger /\ HasBox(src) /\ HasBox(add) THEN [Page(order) EXCEPT !.box = TRUE]
                       ELSE Page(order)
           c2 == [a \in DOMAIN c1 \cup {new} |-> IF a = new THEN c1[src.cont] \o c1[add.cont] ELSE c1[a]]
           d2 == MergeAllResources(dicts, src, add, ren)
<1>1. PICK order \in Orders(DOMAIN ren) :
        /\ dicts' = d2 /\ conts' = c2 /\ pages' = [pages EXCEPT ![i] = Q(order)]
        /\ fresh' = g /\ want' = [want EXCEPT ![i] = Append(@, p)] /\ i \in DOMAIN pages
        /\ form' = form /\ signed' = signed /\ newObjs' = newObjs
  BY DEF MergePageWith
<1> DEFINE q == Q(order)
           v == Append(w, p)
<1>2. /\ fresh \in Nat /\ ContsOK(conts, fresh) /\ PagesOK(pages, want, conts, fresh) /\ DictsOK(dicts, fresh)
      /\ FormOK(form, fresh) /\ SignedOK(signed, fresh) /\ NewObjsOK(newObjs, fresh)
  BY DEF StateOK
<1>3. g \in Nat /\ fresh <= g /\ fresh < g /\ fresh \in 0 .. g - 1 /\ fresh + 1 \in 0 .. g - 1
  BY <1>2
<1>4. i \in 1 .. Len(pages) /\ PageOK(old, conts, fresh) /\ Shows(old, w, conts)
  BY <1>1, <1>2 DEF PagesOK, IsSeq
<1>5. IsNewPage(add, p, c1, g) /\ ContsOK(c1, g) /\ Grown(conts, c1)
  BY <1>2, <1>3, NewPageOK
<1>6. src = IF IsKept(old) THEN Duplicate(old, fresh) ELSE old
  OBVIOUS
<1>7. want' = [want EXCEPT ![i] = v]
  BY <1>1
<1>8. IsMergedPage(q, MergedPage(src, add, ren, order, fresh), src, add, bigger)
  BY DEF IsMergedPage, Boxed
<1>9. IsMergedAll(d2, dicts, src, add, ren)
  BY MergeAllResourcesIs
<1>10. ContsOK(c1, fresh) /\ DOMAIN c1 = DOMAIN conts
  <2>1. add.cont \in DOMAIN conts
    <3>1. IsNewPage(add, p, ProcPage(conts, add), g)
      BY <1>5
    <3>2. DOMAIN ProcPage(conts, add) = DOMAIN conts
      BY DEF ProcPage
    <3> HIDE DEF add
    <3> QED
      BY <3>1, <3>2 DEF IsNewPage
  <2> HIDE DEF add
  <2> QED
    BY <1>2, <2>1, ProcPageOK
<1>11. c2 = WithCont(c1, fresh, c1[src.cont] \o c1[add.cont])
  BY DEF WithCont
<1> HIDE DEF g, old, w, src, add, c1, q, c2, d2, ren
<1>12. PageOK(src, conts, g) /\ ~IsKept(src) /\ Shows(src, w, conts) /\ src.res = old.res
  <2>1. PartsOK(old, conts, fresh) /\ Grown(conts, conts)
    BY <1>4 DEF PageOK, Grown
  <2>2. CASE IsKept(old)
    BY <1>2, <1>3, <1>4, <1>6, <2>1, <2>2, DuplicateOK, DuplicateIs DEF PartsOK
  <2>3. CASE ~IsKept(old)
    BY <1>2, <1>3, <1>4, <1>6, <2>1, <2>3, PageLater
  <2> QED
    BY <2>2, <2>3
<1>13. src.cont \in DOMAIN conts /\ add.cont \in DOMAIN c1 /\ src.cont \in DOMAIN c1
  BY <1>5, <1>10, <1>12 DEF PageOK, PartsOK, IsNewPage
<1>14. Shows(src, w, c1) /\ Shows(add, <<p>>, c1) /\ PageOK(src, c1, g) /\ PageOK(add, c1, g)
  BY <1>3, <1>5, <1>12, <1>13, PageLater, ShowsLater DEF IsNewPage
<1>15. /\ ContsOK(c2, g) /\ Grown(c1, c2) /\ <<"new", fresh>> \in DOMAIN c2
       /\ Unstamped(c2[<<"new", fresh>>]) = v /\ v \in Seq(Pages) /\ v # << >> /\ v[1] = w[1]
  <2>1. w \in Seq(Pages) /\ w # << >> /\ Unstamped(c1[src.cont]) = w /\ Unstamped(c1[add.cont]) = <<p>>
    BY <1>14 DEF Shows
  <2>2. HasContent(c2, c1, fresh, g, w, v)
    BY <1>2, <1>3, <1>10, <1>11, <1>13, <2>1, MergedContent
  <2> HIDE DEF v
  <2> QED
    BY <2>2 DEF HasContent
<1> HIDE DEF v
<1>16. Grown(conts, c2)
  BY <1>5, <1>15 DEF Grown
<1>17. PageOK(q, c2, g) /\ ~IsKept(q) /\ Shows(q, v, c2)
  <2>1. PageOK(src, c2, g) /\ PageOK(add, c2, g) /\ Shows(src, w, c2)
    BY <1>3, <1>13, <1>14, <1>15, PageLater, ShowsLater
  <2> QED
    BY <1>8, <1>12, <1>15, <2>1, MergedPageOK
<1>18. ResFrom(q, pages[i])
  <2>1. DOMAIN src = PageKeys
    BY <1>12 DEF PageOK, PartsOK
  <2>2. /\ DOMAIN Page(order) = PageKeys
        /\ \A z \in Kinds : Page(order).res[z] = IF src.res[z] = Nil /\ z \in Merged THEN add.res[z] ELSE src.res[z]
    BY <2>1, MergedIs
  <2>3. q.res = Page(order).res
    <3> DEFINE m == Page(order)
    <3> HIDE DEF m
    <3>1. Boxed(m).res = m.res
      BY <2>2, BoxedIs DEF m
    <3>2. IsMergedPage(q, m, src, add, bigger)
      BY <1>8 DEF m
    <3>3. q.res = m.res
      BY <3>1, <3>2 DEF IsMergedPage
    <3> QED
      BY <3>3 DEF m
  <2>4. \A z \in Kinds : add.res[z] = Nil \/ add.res[z][1] # "ro"
    BY <1>5 DEF IsNewPage
  <2> HIDE DEF Page
  <2> QED
    BY <1>12, <2>2, <2>3, <2>4 DEF ResFrom, old
<1>19. OnlyIn(d2, dicts, pages[i])
  <2>1. \A x \in DOMAIN dicts : d2[x] = dicts[x] \/ \E z \in Merged : src.res[z] = x
    BY <1>9 DEF IsMergedAll
  <2>2. DOMAIN dicts = AllDicts
    BY <1>2 DEF DictsOK
  <2> QED
    BY <1>12, <2>1, <2>2, KindsAre DEF OnlyIn, old
<1>20. DictsOK(d2, g)
  <2>1. DictsOK(dicts, g)
    BY <1>2, <1>3, DictsLater
  <2>2. \A z \in Kinds : add.res[z] # Nil => add.res[z] \in AllDicts
    BY <1>14 DEF PageOK, PartsOK
  <2> QED
    BY <1>9, <2>1, <2>2, MergedDictsOK
<1>21. FormOK(form, g) /\ SignedOK(signed, g) /\ NewObjsOK(newObjs, g)
  BY <1>2, <1>3, FormLater, SignedLater, NewObjsLater
<1> HIDE DEF Q, Page
<1>22. pages' = [pages EXCEPT ![i] = q]
  BY <1>1 DEF q
<1> QED
  BY <1>1, <1>2, <1>3, <1>4, <1>7, <1>15, <1>16, <1>17, <1>18, <1>19, <1>20, <1>21, <1>22, PutOK

-----------------------------------------------------------------------------
(* Write.                                                                   *)
LEMMA PageRefsAre ==
  ASSUME StateOK, NEW p, PartsOK(p, conts, fresh)
  PROVE  PageRefs(p) \subseteq Heap
<1>1. ContsOK(conts, fresh) /\ DictsOK(dicts, fresh) /\ Heap = HeapOf(fresh)
  BY DEF StateOK, Heap
<1>2. p.notes \subseteq Heap
  BY <1>1 DEF PartsOK
<1>3. ASSUME NEW k \in Kinds, p.res[k] # Nil
      PROVE  Range(dicts[p.res[k]]) \subseteq Heap
  <2> DEFINE x == p.res[k]
  <2>1. x \in AllDicts
    BY <1>3 DEF PartsOK
  <2> HIDE DEF x
  <2>2. \A n \in DOMAIN dicts[x] : dicts[x][n] \in Heap
    BY <1>1, <2>1 DEF DictsOK
  <2>3. Range(dicts[x]) \subseteq Heap
    BY <2>2 DEF Range
  <2> QED
    BY <2>3 DEF x
<1>4. ASSUME p.cont[1] # "new"
      PROVE  In(p.cont[1], PageText[p.cont[2]]) \subseteq Heap
  <2>1. p.cont \in OrigConts
    BY <1>1, <1>4 DEF PartsOK, ContsOK
  <2>2. PICK q \in Pages : \E ow \in Homes(q) : p.cont = <<ow, q>>
    BY <2>1 DEF OrigConts
  <2>3. PICK ow \in Homes(q) : p.cont = <<ow, q>>
    BY <2>2
  <2>4. In(ow, PageText[q]) \subseteq HeapOf(fresh)
    BY PageFacts
  <2> QED
    BY <1>1, <2>3, <2>4
<1>5. p.cont[1] = "new" => p.cont \in Heap
  <2>1. ASSUME NEW k \in 0 .. fresh - 1, p.cont = <<"new", k>>
        PROVE  p.cont \in Heap
    BY <1>1, <2>1, HeapIs
  <2>2. p.cont[1] = "new" => p.cont \notin OrigConts
    <3>1. \A q \in Pages : \A ow \in Homes(q) : ow # "new"
      BY HomesAre
    <3> QED
      BY <3>1 DEF OrigConts
  <2> QED
    BY <1>1, <2>1, <2>2 DEF PartsOK, ContsOK
<1> QED
  BY <1>2, <1>3, <1>4, <1>5 DEF PageRefs

LEMMA RefsAre ==
  ASSUME StateOK, NEW o \in Heap
  PROVE  Refs(o) \subseteq Heap /\ ParentOf(o) \subseteq Heap
<1>1. /\ Heap = HeapOf(fresh) /\ ContsOK(conts, fresh) /\ PagesOK(pages, want, conts, fresh)
      /\ SignedOK(signed, fresh) /\ o \in HeapOf(fresh)
  BY DEF StateOK, Heap
<1>2. CASE IsFile(o)
  <2>1. /\ o[2] \in Nodes /\ In(o[1], Links[o[2]]) \subseteq HeapOf(fresh)
        /\ Up[o[2]] # Nil => <<o[1], Up[o[2]]>> \in HeapOf(fresh)
        /\ o[2] \in Pages => o[1] \in Homes(o[2])
    BY <1>1, <1>2, NodeFacts
  <2>2. ASSUME o[2] \in Pages
        PROVE  PageRefs(ModelOf(o[1], o[2])) \subseteq Heap
    <3>1. PartsOK(ModelOf(o[1], o[2]), conts, fresh)
      BY <1>1, <2>1, <2>2, ModelOK
    <3> QED
      BY <3>1, PageRefsAre
  <2>3. Refs(o) \subseteq Heap
    BY <1>1, <1>2, <2>1, <2>2 DEF Refs
  <2>4. ParentOf(o) \subseteq Heap
    BY <1>1, <2>1 DEF ParentOf
  <2> QED
    BY <2>3, <2>4
<1>3. CASE ~IsFile(o)
  <2>1. \A i \in DOMAIN pages : PageRefs(pages[i]) \subseteq Heap
    <3>1. ASSUME NEW i \in DOMAIN pages PROVE PartsOK(pages[i], conts, fresh)
      BY <1>1 DEF PagesOK, IsSeq, PageOK
    <3> QED
      BY <3>1, PageRefsAre
  <2>2. \A i \in DOMAIN signed : {signed[i].dict, signed[i].page} \subseteq Heap
    BY <1>1 DEF SignedOK, IsSeq
  <2>3. Refs(o) \subseteq Heap
    BY <1>3, <2>1, <2>2 DEF Refs
  <2> QED
    BY <1>3, <2>3 DEF ParentOf
<1> QED
  BY <1>2, <1>3

(* The two closures that Write makes.                                       *)
NewFrom(set) == {o \in set : IsNew(o)}

LEMMA AddNewObjectsAre ==
  ASSUME StateOK, NEW S, NewObjsOK(S, fresh)
  PROVE  /\ S \cup newObjs \subseteq AddNewObjects(S) /\ NewObjsOK(AddNewObjects(S), fresh)
         /\ \A o \in AddNewObjects(S) \ newObjs : NewFrom(Refs(o)) \subseteq AddNewObjects(S)
<1> DEFINE N == Heap
           next == [o \in N |-> {r \in (Refs(o) \cup ParentOf(o)) \ newObjs : IsNew(r)}]
           T == S \ newObjs
<1>1. fresh \in Nat /\ N = HeapOf(fresh) /\ NewObjsOK(newObjs, fresh)
  BY DEF StateOK, Heap
<1>2. IsFiniteSet(N)
  BY <1>1, HeapFinite
<1>3. next \in [N -> SUBSET N]
  BY RefsAre
<1>4. AddNewObjects(S) = newObjs \cup Closure(T, next)
  BY DEF AddNewObjects
<1>5. T \in SUBSET N
  BY <1>1 DEF NewObjsOK
<1>6. \A o \in N : next[o] = {r \in (Refs(o) \cup ParentOf(o)) \ newObjs : IsNew(r)}
  OBVIOUS
<1> DEFINE C == {o \in N : o[1] # "ro"}
<1>7. C \in SUBSET N /\ T \subseteq C
  BY <1>1, <1>5 DEF NewObjsOK
<1>8. \A o \in C : next[o] \subseteq C
  <2> SUFFICES ASSUME NEW o \in C, NEW r \in next[o] PROVE r \in C
    OBVIOUS
  <2>1. r \in N /\ IsNew(r)
    BY <1>3
  <2> QED
    BY <2>1 DEF IsNew
<1>9. S \subseteq newObjs \cup T
  OBVIOUS
<1> HIDE DEF next, N, T
<1> DEFINE K == Closure(T, next)
<1>10. K \in SUBSET N /\ T \subseteq K /\ (\A m \in K : next[m] \subseteq K)
  BY <1>2, <1>3, <1>5, ClosureLeast
<1>11. K \subseteq C
  <2> HIDE DEF C
  <2> QED
    BY <1>2, <1>3, <1>5, <1>7, <1>8, ClosureLeast
<1> HIDE DEF K
<1>12. NewObjsOK(newObjs \cup K, fresh)
  BY <1>1, <1>11 DEF NewObjsOK
<1>13. \A o \in K : NewFrom(Refs(o)) \subseteq newObjs \cup K
  BY <1>6, <1>10 DEF NewFrom
<1> QED
  BY <1>4, <1>9, <1>10, <1>12, <1>13 DEF K

LEMMA FormObjectsAre ==
  ASSUME StateOK, NEW have
  PROVE  /\ FormObjects(have) \subseteq Heap
         /\ \A o \in FormObjects(have) \ have : Refs(o) \subseteq FormObjects(have)
<1> DEFINE N == Heap
           next == [o \in N |-> IF o \in have THEN {} ELSE Refs(o)]
           S == Range(form)
<1>1. fresh \in Nat /\ N = HeapOf(fresh) /\ FormOK(form, fresh)
  BY DEF StateOK, Heap
<1>2. CASE form = Nil
  BY <1>2 DEF FormObjects
<1>3. CASE form # Nil
  <2>1. IsFiniteSet(N)
    BY <1>1, HeapFinite
  <2>2. next \in [N -> SUBSET N]
    BY RefsAre
  <2>3. FormObjects(have) = Closure(S, next)
    BY <1>3 DEF FormObjects
  <2>4. S \in SUBSET N
    <3>1. IsSeq(form) /\ \A i \in 1 .. Len(form) : form[i] \in FormNodes(fresh)
      BY <1>1, <1>3, SeqIs DEF FormOK
    <3>2. FormNodes(fresh) \subseteq HeapOf(fresh)
      BY <1>1, FormNodesGrow
    <3> QED
      BY <1>1, <3>1, <3>2 DEF Range, IsSeq
  <2>5. \A o \in N : o \notin have => next[o] = Refs(o)
    OBVIOUS
  <2> HIDE DEF next, N, S
  <2> DEFINE K == Closure(S, next)
  <2>6. K \in SUBSET N /\ (\A m \in K : next[m] \subseteq K)
    BY <2>1, <2>2, <2>4, ClosureLeast
  <2> HIDE DEF K
  <2>7. \A o \in K \ have : Refs(o) \subseteq K
    BY <2>5, <2>6
  <2> QED
    BY <2>3, <2>6, <2>7 DEF K, N
<1> QED
  BY <1>2, <1>3

\* What is known of a revision that is written.
OutOK == PagesShown /\ RevisionClosed /\ ChangesWritten /\ BoxesKept

\* What a new object referred to when it was noted is new too, or need not be.
SeenOK == \A o, r : <<o, r>> \in seen => o \in newObjs /\ (r \in newObjs \/ ~IsNew(r))

LEMMA ShownIs ==
  ASSUME StateOK
  PROVE  \A i \in 1 .. Len(pages) :
           /\ Unstamped(conts[pages[i].cont]) = want[i]
           /\ HasBox(pages[i]) <=> \E j \in 1 .. Len(want[i]) : j = 1 /\ BoxAbove[want[i][j]]
<1> TAKE i \in 1 .. Len(pages)
<1> DEFINE w == want[i]
           p == pages[i]
<1>1. Shows(p, w, conts)
  BY DEF StateOK, PagesOK
<1> HIDE DEF w, p
<1>2. w \in Seq(Pages) /\ w # << >>
  BY <1>1 DEF Shows
<1>3. 1 \in 1 .. Len(w)
  BY <1>2
<1>4. Unstamped(conts[p.cont]) = w /\ (HasBox(p) <=> \E j \in 1 .. Len(w) : j = 1 /\ BoxAbove[w[j]])
  BY <1>1, <1>3 DEF Shows
<1> QED
  BY <1>4 DEF w, p

\* The pages of the file, where nothing is new.
LEMMA AllKept ==
  ASSUME StateOK, \A i \in 1 .. Len(pages) : IsKept(pages[i]), want # << >>
  PROVE  /\ Len(pages) = Len(FilePages) /\ want = [i \in DOMAIN FilePages |-> <<FilePages[i]>>]
<1>1. PagesOK(pages, want, conts, fresh) /\ NewOK(pages, want)
  BY DEF StateOK
<1>2. Len(pages) # 0
  <2>1. Len(want) = Len(pages) /\ IsSeq(want)
    BY <1>1 DEF PagesOK
  <2>2. ASSUME Len(want) = 0 PROVE FALSE
    <3>1. want \in Seq({})
      BY <2>1, <2>2, IsSeqOf
    <3> QED
      BY <2>2, <3>1
  <2> QED
    BY <2>1, <2>2
<1> QED
  BY <1>1, <1>2 DEF NewOK

\* References of what is kept lead to objects of the file.
LEMMA KeptRefs ==
  ASSUME StateOK, NEW i \in 1 .. Len(pages), IsKept(pages[i])
  PROVE  \A r \in Refs(pages[i].obj) : r[1] = "ro"
<1>1. /\ PageOK(pages[i], conts, fresh) /\ KeptOK(pages, dicts)
  BY DEF StateOK, PagesOK
<1> DEFINE p == pages[i].obj[2]
           m == ModelOf("ro", p)
           o == pages[i].obj
<1>2. p \in Range(FilePages) /\ pages[i] = m /\ o \in HeapOf(fresh) /\ o[1] = "ro"
  BY <1>1 DEF PageOK, IsKept
<1>3. p \in Pages /\ IsFile(o) /\ o[2] = p
  BY <1>2, PagesAre DEF Pages, IsFile
<1>4. m.cont = <<"ro", p>> /\ m.notes = In("ro", Annots[p])
  BY ModelIs
<1>5. ASSUME NEW k \in Kinds, m.res[k] # Nil
      PROVE  \A r \in Range(dicts[m.res[k]]) : r[1] = "ro"
  <2> DEFINE x == m.res[k]
  <2>1. Apart(pages, dicts, i, x)
    BY <1>1, <1>2, <1>5 DEF KeptOK
  <2> HIDE DEF x
  <2>2. \A r \in Range(dicts[x]) : r[1] = "ro"
    BY <2>1 DEF Apart, Range
  <2> QED
    BY <2>2 DEF x
<1>6. Refs(o) = In("ro", Links[p]) \cup PageRefs(m)
  BY <1>2, <1>3 DEF Refs
<1>7. \A set : \A r \in In("ro", set) : r[1] = "ro"
  BY DEF In
<1> HIDE DEF m, p, o
<1>8. \A r \in PageRefs(m) : r[1] = "ro"
  BY <1>4, <1>5, <1>7 DEF PageRefs
<1> QED
  BY <1>6, <1>7, <1>8 DEF o

LEMMA WriteOK ==
  ASSUME StateOK, SeenOK, changed \subseteq Changes, NEW fails, Write(fails)
  PROVE  StateOK' /\ SeenOK' /\ OutOK'
<1> DEFINE S == {pages[i].obj : i \in {i \in DOMAIN pages : ~IsKept(pages[i])}}
           N == AddNewObjects(S)
           F == FormObjects(N)
           n == Len(pages)
           Found(set) == UNION {{o} \X Refs(o) : o \in set}
<1>1. /\ newObjs' = N
      /\ UNCHANGED <<pages, dicts, conts, changed, form, signed, fresh, calls, want>>
      /\ seen' = seen \cup Found(N \ newObjs)
      /\ out' = IF fails THEN Nil
                ELSE IF N = {} THEN [pages |-> OldPages, objs |-> {}, fields |-> Nil]
                ELSE [pages |-> WrittenPages(N \cup F), objs |-> N \cup F, fields |-> form]
  BY DEF Write
<1>2. fresh \in Nat /\ PagesOK(pages, want, conts, fresh)
  BY DEF StateOK
<1>3. DOMAIN pages = 1 .. n /\ n \in Nat /\ IsSeq(want) /\ Len(want) = n /\ DOMAIN want = 1 .. n
  BY <1>2 DEF PagesOK, IsSeq
<1>4. NewObjsOK(S, fresh)
  <2>1. \A i \in 1 .. n : ~IsKept(pages[i]) => pages[i].obj \in HeapOf(fresh) /\ pages[i].obj[1] # "ro"
    BY <1>2 DEF PagesOK, PageOK, IsKept
  <2> QED
    BY <1>2, <1>3, <2>1 DEF NewObjsOK
<1>5. /\ S \cup newObjs \subseteq N /\ NewObjsOK(N, fresh)
      /\ \A o \in N \ newObjs : NewFrom(Refs(o)) \subseteq N
  BY <1>4, AddNewObjectsAre
<1>6. F \subseteq Heap /\ \A o \in F \ N : Refs(o) \subseteq F
  BY FormObjectsAre
<1>7. \A i \in 1 .. n : ~IsKept(pages[i]) => pages[i].obj \in N
  BY <1>3, <1>5
<1> HIDE DEF S, N, F, n
<1>8. \A o, r : <<o, r>> \in Found(N \ newObjs) <=> o \in N \ newObjs /\ r \in Refs(o)
  OBVIOUS
<1> HIDE DEF Found
<1>9. \A o : IsNew(o)' = IsNew(o)
  BY <1>1 DEF IsNew, IsNotChanged, IsStream
<1>10. SeenOK'
  <2> SUFFICES ASSUME NEW o, NEW r, <<o, r>> \in seen'
               PROVE  o \in N /\ (r \in N \/ ~IsNew(r))
    BY <1>1, <1>9 DEF SeenOK
  <2>1. CASE <<o, r>> \in seen
    BY <1>5, <2>1 DEF SeenOK
  <2>2. CASE <<o, r>> \in Found(N \ newObjs)
    BY <1>5, <1>8, <2>2 DEF NewFrom
  <2> QED
    BY <1>1, <2>1, <2>2
\* What is new leads to what is new, unless it is late.
<1>11. \A o \in N : \A r \in Refs(o) : IsLate(o, r)' \/ r \in N \/ ~IsNew(r)
  <2> SUFFICES ASSUME NEW o \in N, NEW r \in Refs(o), ~IsLate(o, r)'
               PROVE  r \in N \/ ~IsNew(r)
    OBVIOUS
  <2>1. Refs(o)' = Refs(o)
    BY <1>1 DEF Refs, PageRefs
  <2>2. <<o, r>> \in seen'
    BY <1>1, <2>1 DEF IsLate
  <2> QED
    BY <1>1, <1>9, <1>10, <2>2 DEF SeenOK
<1>12. StateOK'
  BY <1>1, <1>5 DEF StateOK
<1>13. \A o : Refs(o)' = Refs(o)
  BY <1>1 DEF Refs, PageRefs
<1>14. \A i \in 1 .. n : IsKept(pages[i]) \/ N # {}
  BY <1>7
<1>15. CASE fails
  BY <1>1, <1>12, <1>10, <1>15 DEF OutOK, PagesShown, RevisionClosed, ChangesWritten, BoxesKept
<1>16. CASE ~fails /\ N = {}
  <2>1. out'.pages = OldPages /\ out'.objs = {}
    BY <1>1, <1>16
  <2>2. \A i \in 1 .. n : IsKept(pages[i])
    BY <1>14, <1>16
  <2>3. PagesShown'
    <3> SUFFICES ASSUME want # << >>
                 PROVE  /\ DOMAIN OldPages = DOMAIN want
                        /\ \A i \in DOMAIN want : Unstamped(OldPages[i].shows) = want[i]
      BY <1>1, <2>1 DEF PagesShown
    <3>1. want = [i \in DOMAIN FilePages |-> <<FilePages[i]>>]
      BY <2>2, AllKept DEF n
    <3>2. DOMAIN OldPages = DOMAIN FilePages /\ \A i \in DOMAIN FilePages : OldPages[i].shows = <<FilePages[i]>>
      BY DEF OldPages
    <3>3. \A i \in DOMAIN FilePages : FilePages[i] # Stamp
      BY PagesAre, AppenderAssumptions DEF IsSeq, Nodes
    <3>4. \A i \in DOMAIN FilePages : Unstamped(<<FilePages[i]>>) = <<FilePages[i]>>
      BY <3>3, UnstampedOne
    <3>5. \A i \in DOMAIN FilePages : Unstamped(OldPages[i].shows) = <<FilePages[i]>>
      BY <3>2, <3>4
    <3> QED
      BY <3>1, <3>2, <3>5
  <2>4. RevisionClosed'
    BY <2>1 DEF RevisionClosed
  <2>5. ChangesWritten'
    <3>1. \A i \in 1 .. n : \A r \in Refs(pages[i].obj) : r[1] = "ro"
      BY <2>2, KeptRefs DEF n
    <3> QED
      BY <1>1, <1>3, <1>13, <3>1 DEF ChangesWritten
  <2>6. BoxesKept'
    <3>1. \A i \in DOMAIN OldPages : IsKept(OldPages[i])
      BY DEF OldPages, IsKept
    <3> QED
      BY <2>1, <3>1 DEF BoxesKept
  <2> QED
    BY <1>12, <1>10, <2>3, <2>4, <2>5, <2>6 DEF OutOK
<1>17. CASE ~fails /\ N # {}
  <2> DEFINE W == WrittenPages(N \cup F)
  <2>1. out'.pages = W /\ out'.objs = N \cup F
    BY <1>1, <1>17
  <2>2. /\ DOMAIN W = 1 .. n
        /\ \A i \in 1 .. n : /\ W[i].obj = pages[i].obj
                             /\ \/ W[i].shows = conts[pages[i].cont]
                                \/ pages[i].cont[1] = "new" /\ pages[i].cont \notin N
                             /\ ~IsKept(pages[i]) => W[i].box = HasBox(pages[i])
    BY <1>3 DEF WrittenPages
  <2> HIDE DEF W
  <2>3. PagesShown'
    <3> SUFFICES ASSUME NEW i \in 1 .. n,
                        ~(pages[i].cont[1] = "new" /\ IsLate(pages[i].obj, pages[i].cont)')
                 PROVE  Unstamped(W[i].shows) = want[i]
      <4>1. DOMAIN W = DOMAIN want
        BY <1>3, <2>2
      <4>2. pages' = pages /\ want' = want
        BY <1>1
      <4> QED
        BY <1>3, <2>1, <4>1, <4>2 DEF PagesShown, IsLate
    <3>1. \A o, r : o = pages[i].obj /\ r = pages[i].cont =>
                     (IsLate(o, r)' <=> IsLate(pages[i].obj, pages[i].cont)')
      BY <1>1 DEF IsLate
    <3>2. pages[i].cont[1] = "new" => pages[i].cont \in N
      <4> SUFFICES ASSUME pages[i].cont[1] = "new" PROVE pages[i].cont \in N
        OBVIOUS
      <4> DEFINE p == pages[i]
      <4>1. PageOK(p, conts, fresh)
        BY <1>2 DEF PagesOK, n
      <4>2. p.cont[1] = "new"
        OBVIOUS
      <4>3. ~IsKept(p)
        <5>1. ASSUME IsKept(p) PROVE p.cont = <<"ro", p.obj[2]>>
          BY <4>1, <5>1, ModelIs DEF PageOK, IsKept
        <5> QED
          BY <4>2, <5>1
      <4>4. p.obj \in N
        BY <1>7, <4>3
      <4>5. p.cont \in Refs(p.obj)
        <5>1. p.obj[1] = "dup"
          BY <4>1, <4>3 DEF PageOK, IsKept
        <5>2. p.cont \in PageRefs(pages[i])
          BY <4>2 DEF PageRefs
        <5>3. ~IsFile(p.obj)
          BY <5>1 DEF IsFile
        <5>4. i \in DOMAIN pages
          BY <1>3
        <5> QED
          BY <5>2, <5>3, <5>4 DEF Refs
      <4>6. IsNew(p.cont)
        BY <4>2 DEF IsNew, IsNotChanged
      <4>7. ~IsLate(p.obj, p.cont)' /\ \A o, r : o = p.obj /\ r = p.cont => ~IsLate(o, r)'
        BY <1>1, <3>1, <4>2
      <4> QED
        BY <1>11, <4>4, <4>5, <4>6, <4>7
    <3>3. Unstamped(conts[pages[i].cont]) = want[i]
      BY ShownIs DEF n
    <3> QED
      BY <2>2, <3>2, <3>3
  <2>4. RevisionClosed'
    <3> SUFFICES ASSUME NEW o \in N \cup F, NEW r \in Refs(o), r \notin N \cup F, ~IsLate(o, r)'
                 PROVE  r[1] \in {"ro", "rd"}
      BY <1>13, <2>1 DEF RevisionClosed, IsLate
    <3>1. o \in N /\ ~IsNew(r)
      BY <1>6, <1>11
    <3> QED
      BY <3>1 DEF IsNew, IsNotChanged
  <2>5. ChangesWritten'
    <3> SUFFICES ASSUME NEW c \in changed, c[2] = "dict" => c[1] \notin Streams, NEW i \in 1 .. n,
                        <<"rd", c[1]>> \in Refs(pages[i].obj),
                        ~IsLate(pages[i].obj, <<"rd", c[1]>>)'
                 PROVE  <<"rd", c[1]>> \in N
      BY <1>1, <1>3, <1>13, <2>1 DEF ChangesWritten, IsLate
    <3>1. ~IsKept(pages[i])
      <4>1. <<"rd", c[1]>>[1] # "ro"
        OBVIOUS
      <4> QED
        BY <4>1, KeptRefs DEF n
    <3>2. pages[i].obj \in N
      BY <1>7, <3>1
    <3>3. IsNew(<<"rd", c[1]>>)
      <4>1. c = <<c[1], c[2]>> /\ c[2] \in {"data", "dict"}
        BY AppenderAssumptions
      <4>2. <<c[1], "data">> \in changed \/ c[1] \notin Streams
        BY <4>1
      <4> QED
        BY <4>2 DEF IsNew, IsNotChanged, IsStream
    <3>4. \A o, r : o = pages[i].obj /\ r = <<"rd", c[1]>> => ~IsLate(o, r)'
      BY <1>1 DEF IsLate
    <3> QED
      BY <1>11, <3>2, <3>3, <3>4
  <2>6. BoxesKept'
    <3> SUFFICES ASSUME NEW i \in 1 .. n, ~IsKept(W[i])
                 PROVE  W[i].box <=> \E j \in 1 .. Len(want[i]) : j = 1 /\ BoxAbove[want[i][j]]
      BY <1>1, <2>1, <2>2 DEF BoxesKept
    <3>1. ~IsKept(pages[i])
      BY <2>2 DEF IsKept
    <3>2. W[i].box = HasBox(pages[i])
      BY <2>2, <3>1
    <3> QED
      BY <3>2, ShownIs DEF n
  <2> QED
    BY <1>12, <1>10, <2>3, <2>4, <2>5, <2>6 DEF OutOK
<1> QED
  BY <1>15, <1>16, <1>17

-----------------------------------------------------------------------------
(* The invariant.                                                           *)
CallsOK ==
  /\ changed \subseteq Changes
  /\ calls \in Nat /\ calls <= MaxCalls /\ writes \in Nat /\ writes <= MaxWrites
  /\ written \in BOOLEAN

AppIInv == StateOK /\ CallsOK /\ SeenOK /\ OutOK

LEMMA EditOK ==
  ASSUME StateOK, Edit
  PROVE  StateOK'
<1>1. ASSUME NEW p \in Pages, AddPages(p) PROVE StateOK'
  BY <1>1, AddPagesOK
<1>2. ASSUME NEW i \in Places, NEW p \in Pages, ReplacePage(i, p) PROVE StateOK'
  BY <1>2, ReplacePageOK
<1>3. ASSUME NEW i \in DOMAIN pages, RemovePage(i) PROVE StateOK'
  BY <1>3, RemovePageOK
<1>4. ASSUME NEW i \in Places, NEW p \in Pages, NEW bigger \in BOOLEAN, MergePageWith(i, p, bigger)
      PROVE  StateOK'
  BY <1>4, MergePageWithOK
<1>5. ASSUME NEW i \in SignPlaces, Sign(i) PROVE StateOK'
  BY <1>5, SignOK
<1>6. ASSUME ReplaceAcroForm(<< >>) PROVE StateOK'
  BY <1>6, ReplaceAcroFormOK
<1> QED
  BY <1>1, <1>2, <1>3, <1>4, <1>5, <1>6 DEF Edit

\* What every call but Write does.
LEMMA EditCalls ==
  ASSUME Edit
  PROVE  Called /\ Unwritten
BY DEF Edit, AddPages, ReplacePage, RemovePage, MergePageWith, Sign, ReplaceAcroForm

LEMMA CallsStep ==
  ASSUME CallsOK, AppNext
  PROVE  CallsOK'
<1>1. MaxCalls \in Nat /\ MaxWrites \in Nat
  BY AppenderAssumptions
<1>2. CASE Edit
  BY <1>1, <1>2, EditCalls DEF CallsOK, Called, Unwritten
<1>3. ASSUME NEW fails \in BOOLEAN, Write(fails) PROVE CallsOK'
  <2>1. /\ writes < MaxWrites /\ writes' = writes + 1 /\ written' \in BOOLEAN
        /\ changed' = changed /\ calls' = calls
    BY <1>3 DEF Write
  <2>2. writes' \in Nat /\ writes' <= MaxWrites
    BY <1>1, <2>1 DEF CallsOK
  <2> QED
    BY <2>1, <2>2 DEF CallsOK
<1> QED
  BY <1>2, <1>3 DEF AppNext

\* After any calls the pages, the dictionaries and arrays they share, the form
\* and what was signed fit each other (StateOK), what is noted as new leads to
\* what is new (SeenOK), and a file that was written is what it should be
\* (OutOK): what every call of PdfAppender leaves to the next one, a Write that
\* failed included.
THEOREM AppIInvHolds == AppSpec => []AppIInv
<1>1. AppInit => AppIInv
  <2> SUFFICES ASSUME AppInit PROVE AppIInv
    OBVIOUS
  <2>1. out = Nil /\ calls = 0 /\ writes = 0 /\ written = FALSE /\ changed \in SUBSET Changes /\ seen = {}
    BY DEF AppInit
  <2>2. CallsOK
    <3>1. changed \subseteq Changes
      BY <2>1
    <3>2. 0 <= MaxCalls /\ 0 <= MaxWrites
      BY AppenderAssumptions
    <3> QED
      BY <2>1, <3>1, <3>2 DEF CallsOK
  <2>3. OutOK
    BY <2>1 DEF OutOK, PagesShown, RevisionClosed, ChangesWritten, BoxesKept
  <2> QED
    BY <2>1, <2>2, <2>3, StateInit DEF AppIInv, SeenOK
<1>2. AppIInv /\ [AppNext]_appVars => AppIInv'
  <2> SUFFICES ASSUME AppIInv, [AppNext]_appVars PROVE AppIInv'
    OBVIOUS
  <2>1. CASE UNCHANGED appVars
    <3>1. StateOK'
      BY <2>1 DEF AppIInv, StateOK, appVars
    <3>2. CallsOK'
      BY <2>1 DEF AppIInv, CallsOK, appVars
    <3>3. \A o : Refs(o)' = Refs(o)
      BY <2>1 DEF Refs, PageRefs, appVars
    <3>4. \A o, r : IsLate(o, r)' = IsLate(o, r)
      BY <2>1, <3>3 DEF IsLate, appVars
    <3>5. OutOK'
      <4>1. PagesShown' /\ BoxesKept'
        BY <2>1, <3>4 DEF AppIInv, OutOK, PagesShown, BoxesKept, appVars
      <4>2. RevisionClosed' /\ ChangesWritten'
        BY <2>1, <3>3, <3>4 DEF AppIInv, OutOK, RevisionClosed, ChangesWritten, appVars
      <4> QED
        BY <4>1, <4>2 DEF OutOK
    <3>6. SeenOK'
      BY <2>1 DEF AppIInv, SeenOK, IsNew, IsNotChanged, IsStream, appVars
    <3> QED
      BY <3>1, <3>2, <3>5, <3>6 DEF AppIInv
  <2>2. CASE Edit
    <3>1. StateOK'
      BY <2>2, EditOK DEF AppIInv
    <3>2. CallsOK'
      BY <2>2, CallsStep DEF AppIInv, AppNext
    <3>3. out' = Nil
      BY <2>2, EditCalls DEF Unwritten
    <3>4. OutOK'
      BY <3>3 DEF OutOK, PagesShown, RevisionClosed, ChangesWritten, BoxesKept
    <3>5. SeenOK'
      <4>1. newObjs \subseteq newObjs'
        BY <2>2 DEF Edit, AddPages, ReplacePage, RemovePage, MergePageWith, Sign, ReplaceAcroForm
      <4>2. seen' = seen /\ changed' = changed
        BY <2>2, EditCalls DEF Unwritten
      <4> QED
        BY <4>1, <4>2 DEF AppIInv, SeenOK, IsNew, IsNotChanged, IsStream
    <3> QED
      BY <3>1, <3>2, <3>4, <3>5 DEF AppIInv
  <2>3. ASSUME NEW fails \in BOOLEAN, Write(fails)
        PROVE  AppIInv'
    <3>1. StateOK' /\ SeenOK' /\ OutOK'
      BY <2>3, WriteOK DEF AppIInv, CallsOK
    <3>2. CallsOK'
      BY <2>3, CallsStep DEF AppIInv, AppNext
    <3> QED
      BY <3>1, <3>2 DEF AppIInv
  <2> QED
    BY <2>1, <2>2, <2>3 DEF AppNext
<1> QED
  BY <1>1, <1>2, PTL DEF AppSpec

LEMMA TypesFollow == AppIInv => AppTypeOK
<1> SUFFICES ASSUME AppIInv PROVE AppTypeOK
  OBVIOUS
<1>1. /\ PagesOK(pages, want, conts, fresh) /\ DictsOK(dicts, fresh) /\ NewObjsOK(newObjs, fresh)
      /\ CallsOK
  BY DEF AppIInv, StateOK
<1>2. ASSUME NEW i \in DOMAIN pages
      PROVE  /\ pages[i].cont \in DOMAIN conts
             /\ \A k \in Kinds : pages[i].res[k] \in DOMAIN dicts \cup {Nil}
  <2>1. PartsOK(pages[i], conts, fresh)
    BY <1>1 DEF PagesOK, IsSeq, PageOK
  <2> QED
    BY <1>1, <2>1 DEF PartsOK, DictsOK
<1> QED
  BY <1>1, <1>2 DEF AppTypeOK, CallsOK, NewObjsOK, PagesOK

\* What is written shows the pages asked for with their boxes, is closed and
\* has what the client changed: whatever was added, replaced, removed, merged
\* and signed before, and whether or not a Write failed (PdfAppender.Write,
\* addNewObjects).  RevisionSound says so too, and of the names what follows.
THEOREM RevisionHolds ==
  AppSpec => [](AppTypeOK /\ PagesShown /\ RevisionClosed /\ ChangesWritten /\ BoxesKept)
<1>1. AppIInv => AppTypeOK /\ PagesShown /\ RevisionClosed /\ ChangesWritten /\ BoxesKept
  BY TypesFollow DEF AppIInv, OutOK
<1> QED
  BY <1>1, AppIInvHolds, PTL

-----------------------------------------------------------------------------
(* Names.                                                                   *)
LEMMA BeginsIs ==
  ASSUME NEW S, NEW o \in Seq(S), NEW m \in Seq(S)
  PROVE  Begins(o, m) <=> Len(o) <= Len(m) /\ \A j \in 1 .. Len(o) : m[j] = o[j]
<1> DEFINE l == Len(o)
           t == SubSeq(m, 1, l)
<1>1. l \in Nat /\ Len(m) \in Nat /\ o = [j \in 1 .. l |-> o[j]]
  OBVIOUS
<1>2. CASE l <= Len(m)
  <2>1. t = [j \in 1 .. l |-> m[j]]
    BY <1>1, <1>2
  <2>2. t = o <=> \A j \in 1 .. l : m[j] = o[j]
    <3> HIDE DEF t, l
    <3>1. ASSUME t = o PROVE \A j \in 1 .. l : m[j] = o[j]
      BY <2>1, <3>1
    <3>2. ASSUME \A j \in 1 .. l : m[j] = o[j] PROVE t = o
      BY <1>1, <2>1, <3>2
    <3> QED
      BY <3>1, <3>2
  <2> QED
    BY <1>2, <2>2 DEF Begins
<1>3. CASE ~(l <= Len(m))
  BY <1>3 DEF Begins
<1> QED
  BY <1>2, <1>3

LEMMA AppendBegins ==
  ASSUME NEW n, IsSeq(n), NEW i
  PROVE  Begins(n, Append(n, i)) /\ Begins(n, n) /\ Append(n, i) # n
<1> DEFINE S == {n[j] : j \in 1 .. Len(n)} \cup {i}
<1>1. (\A j \in 1 .. Len(n) : n[j] \in S) /\ i \in S
  OBVIOUS
<1> HIDE DEF S
<1>2. n \in Seq(S) /\ i \in S
  BY <1>1, IsSeqOf
<1> DEFINE m == Append(n, i)
           k == Len(n)
<1>3. m \in Seq(S) /\ k \in Nat /\ Len(m) = k + 1 /\ \A j \in 1 .. k : m[j] = n[j]
  BY <1>2
<1> HIDE DEF m
<1>4. Begins(n, m) /\ Begins(n, n)
  BY <1>2, <1>3, BeginsIs
<1>5. m # n
  BY <1>3
<1> QED
  BY <1>4, <1>5 DEF m

LEMMA BeginsAppend ==
  ASSUME NEW o, IsSeq(o), NEW n, IsSeq(n), NEW i, Begins(o, Append(n, i))
  PROVE  Begins(o, n) \/ o = Append(n, i)
<1> DEFINE S == {n[j] : j \in 1 .. Len(n)} \cup {o[j] : j \in 1 .. Len(o)} \cup {i}
<1>1. (\A j \in 1 .. Len(n) : n[j] \in S) /\ (\A j \in 1 .. Len(o) : o[j] \in S) /\ i \in S
  OBVIOUS
<1> HIDE DEF S
<1>2. n \in Seq(S) /\ o \in Seq(S) /\ i \in S
  BY <1>1, IsSeqOf
<1> DEFINE m == Append(n, i)
           k == Len(n)
           l == Len(o)
<1>3. m \in Seq(S) /\ Len(m) = k + 1 /\ \A j \in 1 .. k : m[j] = n[j]
  BY <1>2
<1>4. Begins(o, m)
  OBVIOUS
<1> HIDE DEF m
<1>5. /\ k \in Nat /\ l \in Nat /\ o = [j \in 1 .. l |-> o[j]]
      /\ m = [j \in 1 .. k + 1 |-> m[j]]
  BY <1>2, <1>3, SeqIs DEF IsSeq
<1>6. l <= k + 1 /\ \A j \in 1 .. l : m[j] = o[j]
  <2>1. Len(o) <= Len(m) /\ \A j \in 1 .. Len(o) : m[j] = o[j]
    BY <1>2, <1>3, <1>4, BeginsIs
  <2> QED
    BY <1>3, <2>1
<1>7. CASE l = k + 1
  <2> HIDE DEF k, l
  <2>1. o = m
    BY <1>5, <1>7, <1>6
  <2> QED
    BY <2>1 DEF m
<1>8. CASE l <= k
  <2>1. \A j \in 1 .. l : n[j] = o[j]
    <3>1. k \in Nat /\ l \in Nat
      BY <1>5
    <3> HIDE DEF k, l
    <3> TAKE j \in 1 .. l
    <3>2. j \in 1 .. k
      BY <1>8, <3>1
    <3>3. m[j] = n[j] /\ m[j] = o[j]
      BY <1>3, <1>6, <3>2
    <3> QED
      BY <3>3
  <2> QED
    BY <1>2, <1>8, <2>1, BeginsIs
<1>9. l = k + 1 \/ l <= k
  <2> HIDE DEF k, l
  <2> QED
    BY <1>5, <1>6
<1> QED
  BY <1>7, <1>8, <1>9

LEMMA ReplaceSelf ==
  ASSUME NEW n, IsSeq(n), NEW new, IsSeq(new)
  PROVE  Replace(n, n, new) = new
<1> DEFINE S == {n[j] : j \in 1 .. Len(n)} \cup {new[j] : j \in 1 .. Len(new)}
<1>1. (\A j \in 1 .. Len(n) : n[j] \in S) /\ \A j \in 1 .. Len(new) : new[j] \in S
  OBVIOUS
<1> HIDE DEF S
<1>2. n \in Seq(S) /\ new \in Seq(S)
  BY <1>1, IsSeqOf
<1>3. SubSeq(n, Len(n) + 1, Len(n)) = << >>
  BY <1>2
<1>4. new \o << >> = new
  BY <1>2
<1>5. Begins(n, n)
  BY AppendBegins
<1> QED
  BY <1>3, <1>4, <1>5 DEF Replace

(* RenameOf finds a name.                                                   *)
LEMMA RenameIs ==
  ASSUME NEW n, IsSeq(n), NEW taken, IsFiniteSet(taken)
  PROVE  \E i \in Nat : RenameOf(n, taken) = Append(n, i) /\ Append(n, i) \notin taken
<1> DEFINE c == Cardinality(taken) + 1
           at(i) == Append(n, i)
           Free == {i \in 1 .. c : at(i) \notin taken}
           First(i) == at(i) \notin taken /\ \A j \in 1 .. i - 1 : at(j) \in taken
           found == CHOOSE i \in 1 .. c : First(i)
<1>1. Cardinality(taken) \in Nat /\ c \in Nat
  BY FS_CardinalityType
<1>2. \A i, j : at(i) = at(j) => i = j
  <2> TAKE i, j
  <2> DEFINE S == {n[l] : l \in 1 .. Len(n)} \cup {i, j}
  <2>1. (\A l \in 1 .. Len(n) : n[l] \in S) /\ i \in S /\ j \in S
    OBVIOUS
  <2> HIDE DEF S
  <2>2. n \in Seq(S) /\ i \in S /\ j \in S
    BY <2>1, IsSeqOf
  <2>3. at(i)[Len(n) + 1] = i /\ at(j)[Len(n) + 1] = j
    BY <2>2
  <2> HIDE DEF at
  <2> QED
    BY <2>3
<1> HIDE DEF at
<1>3. Free # {}
  <2> SUFFICES ASSUME Free = {} PROVE FALSE
    OBVIOUS
  <2> DEFINE f == [i \in 1 .. c |-> at(i)]
  <2>1. f \in [1 .. c -> taken]
    OBVIOUS
  <2> DEFINE D == 1 .. c
  <2>2. IsFiniteSet(D) /\ Cardinality(D) = c
    BY <1>1, FS_Interval
  <2>3. \A i, j \in D : f[i] = f[j] => i = j
    BY <1>2
  <2>4. Cardinality(taken) < Cardinality(D)
    BY <1>1, <2>2
  <2>5. f \in [D -> taken]
    BY <2>1
  <2> HIDE DEF f, c, D
  <2>6. \E x, y \in D : x # y /\ f[x] = f[y]
    BY <2>2, <2>4, <2>5, FS_PigeonHole
  <2> QED
    BY <2>3, <2>6
<1>4. PICK t \in Free : \A u \in Free : t <= u
  <2>1. Free \in SUBSET Nat
    BY <1>1
  <2> HIDE DEF Free
  <2> QED
    BY <1>3, <2>1, LeastOf
<1>5. t \in 1 .. c /\ First(t)
  <2>1. t \in 1 .. c /\ at(t) \notin taken
    BY <1>4
  <2>2. ASSUME NEW j \in 1 .. t - 1, at(j) \notin taken PROVE FALSE
    <3>1. j \in Free /\ ~(t <= j)
      BY <1>1, <2>1, <2>2
    <3> QED
      BY <1>4, <3>1
  <2> QED
    BY <2>1, <2>2
<1> HIDE DEF First
<1>6. found \in 1 .. c /\ First(found)
  BY <1>5
<1>7. RenameOf(n, taken) = at(found)
  BY DEF RenameOf, at, First
<1> HIDE DEF found
<1>8. found \in Nat /\ at(found) \notin taken
  BY <1>1, <1>6 DEF First
<1> QED
  BY <1>7, <1>8 DEF at

(* The text of a page after all names were replaced in it, one after the    *)
(* other: a name is replaced once, whatever the order.                      *)
LEMMA OrdersAre ==
  ASSUME NEW R, IsFiniteSet(R), NEW order \in Orders(R)
  PROVE  LET c == Cardinality(R)
         IN  /\ c \in Nat /\ Len(order) = c /\ order \in [1 .. c -> R]
             /\ \A o \in R : \E i \in 1 .. c : order[i] = o
             /\ \A i, j \in 1 .. c : order[i] = order[j] => i = j
<1> DEFINE c == Cardinality(R)
<1>1. c \in Nat
  BY FS_CardinalityType
<1>2. order \in [1 .. c -> R] /\ Range(order) = R
  BY DEF Orders
<1> DEFINE D == 1 .. c
<1>3. IsFiniteSet(D) /\ Cardinality(D) = c
  BY <1>1, FS_Interval
<1>4. \A o \in R : \E i \in D : order[i] = o
  BY <1>2 DEF Range
<1>5. order \in [D -> R]
  BY <1>2
<1>6. order = [i \in 1 .. c |-> order[i]]
  BY <1>2
<1>7. Len(order) = c
  <2> HIDE DEF c
  <2> QED
    BY <1>1, <1>6, ListIs
<1>8. Cardinality(D) = Cardinality(R)
  BY <1>3
<1> HIDE DEF c, D
<1>11. \A i, j \in D : order[i] = order[j] => i = j
  BY <1>3, <1>4, <1>5, <1>8, OntoOneToOne
<1> QED
  BY <1>1, <1>2, <1>4, <1>7, <1>11 DEF c, D

\* No other name of R begins name.
Unbegun(R, name) == \A o \in R : IsSeq(o) /\ (Begins(o, name) => o = name)

LEMMA RenamedIs ==
  ASSUME NEW ren, IsFiniteSet(DOMAIN ren), NEW order \in Orders(DOMAIN ren),
         NEW name, IsSeq(name), Unbegun(DOMAIN ren, name),
         name \in DOMAIN ren => \E t : ren[name] = Append(name, t) /\ ren[name] \notin DOMAIN ren
  PROVE  Renamed(name, ren, order) = To(ren, name)
<1> DEFINE R == DOMAIN ren
           c == Cardinality(R)
           Done(i) == \E j \in 1 .. i : order[j] = name
           is(i) == IF Done(i) THEN ren[name] ELSE name
           After(h) == [i \in 0 .. c |-> IF i = 0 THEN name ELSE Replace(h[i - 1], order[i], ren[order[i]])]
           some == CHOOSE h : h = After(h)
           all == [i \in 0 .. c |-> is(i)]
<1>1. /\ c \in Nat /\ Len(order) = c /\ order \in [1 .. c -> R]
      /\ \A o \in R : \E i \in 1 .. c : order[i] = o
      /\ \A i, j \in 1 .. c : order[i] = order[j] => i = j
  BY OrdersAre
<1>2. Renamed(name, ren, order) = some[c]
  BY <1>1 DEF Renamed
<1>3. is(c) = To(ren, name)
  BY <1>1 DEF To
<1> HIDE DEF c, R
<1>4. is(0) = name
  OBVIOUS
<1>5. ASSUME NEW i \in 1 .. c
      PROVE  is(i) = Replace(is(i - 1), order[i], ren[order[i]])
  <2> DEFINE o == order[i]
  <2>1. o \in R /\ IsSeq(o) /\ (Begins(o, name) => o = name)
    BY <1>1 DEF Unbegun, R
  <2>2. 1 .. i = 1 .. (i - 1) \cup {i} /\ 1 .. i - 1 \subseteq 1 .. c /\ i \notin 1 .. i - 1
    BY <1>1
  <2>3. CASE o = name
    <3>1. PICK t : ren[name] = Append(name, t)
      BY <2>1, <2>3 DEF R
    <3>2. IsSeq(ren[name])
      BY <3>1, AppendedIs
    <3>3. ~Done(i - 1)
      BY <1>1, <2>2, <2>3
    <3>4. Done(i)
      BY <2>2, <2>3
    <3>5. Replace(name, name, ren[name]) = ren[name]
      BY <3>2, ReplaceSelf
    <3> HIDE DEF Done
    <3> QED
      BY <2>3, <3>3, <3>4, <3>5
  <2>4. CASE o # name
    <3>1. Done(i) <=> Done(i - 1)
      BY <2>2, <2>4
    <3>2. is(i) = is(i - 1)
      <4> HIDE DEF Done
      <4> QED
        BY <3>1
    <3>3. ~Begins(o, name)
      BY <2>1, <2>4
    <3>4. ASSUME Done(i - 1) PROVE ~Begins(o, ren[name])
      <4>1. name \in R
        BY <1>1, <2>2, <3>4
      <4>2. PICK t : ren[name] = Append(name, t) /\ ren[name] \notin R
        BY <4>1 DEF R
      <4>3. o # Append(name, t)
        BY <2>1, <4>2
      <4> QED
        BY <2>1, <3>3, <4>2, <4>3, BeginsAppend
    <3>5. ~Begins(o, is(i - 1))
      <4> HIDE DEF Done
      <4> QED
        BY <3>3, <3>4
    <3> HIDE DEF is
    <3> QED
      BY <3>2, <3>5 DEF Replace
  <2> QED
    BY <2>3, <2>4
<1> HIDE DEF is
<1>6. all = After(all)
  <2>1. ASSUME NEW i \in 0 .. c
        PROVE  all[i] = IF i = 0 THEN name ELSE Replace(all[i - 1], order[i], ren[order[i]])
    <3>1. CASE i = 0
      BY <1>4, <3>1
    <3>2. CASE i # 0
      <4>1. i \in 1 .. c /\ i - 1 \in 0 .. c
        BY <1>1, <3>2
      <4>2. all[i] = is(i) /\ all[i - 1] = is(i - 1)
        BY <4>1
      <4> HIDE DEF all
      <4> QED
        BY <1>5, <3>2, <4>1, <4>2
    <3> QED
      BY <3>1, <3>2
  <2>2. all = [i \in 0 .. c |-> all[i]]
    OBVIOUS
  <2> HIDE DEF all
  <2> QED
    BY <2>1, <2>2
<1>7. some = After(some)
  <2> HIDE DEF After, all
  <2> QED
    BY <1>6
<1> HIDE DEF some
<1> DEFINE G == {i \in 0 .. c : some[i] = is(i)}
<1>8. 0 \in G
  BY <1>1, <1>4, <1>7
<1>9. ASSUME NEW m \in 1 .. c, m - 1 \in G
      PROVE  m \in G
  <2>1. m \in 0 .. c /\ m # 0
    BY <1>1
  <2>2. some[m] = After(some)[m]
    BY <1>7
  <2>3. After(some)[m] = Replace(some[m - 1], order[m], ren[order[m]])
    BY <2>1
  <2>4. some[m - 1] = is(m - 1)
    BY <1>9
  <2> HIDE DEF After
  <2>5. some[m] = is(m)
    BY <1>5, <2>2, <2>3, <2>4
  <2> QED
    BY <2>1, <2>5
<1> HIDE DEF G
<1>10. \A m \in 0 .. c : m \in G
  BY <1>1, <1>8, <1>9, UpTo
<1>11. some[c] = is(c)
  BY <1>1, <1>10 DEF G
<1> QED
  BY <1>2, <1>3, <1>11

(* Resource dictionaries, and what is in them.                              *)
LEMMA FiniteTo ==
  ASSUME NEW S, IsFiniteSet(S), NEW ren
  PROVE  IsFiniteSet({To(ren, n) : n \in S})
<1> DEFINE f == [n \in S |-> To(ren, n)]
<1>1. DOMAIN f = S /\ f = [x \in S |-> f[x]] /\ {f[x] : x \in S} = {To(ren, n) : n \in S}
  OBVIOUS
<1> HIDE DEF f
<1> QED
  BY <1>1, FiniteImage

\* The names of x in the file, and the objects they have.
Orig(x) == PageRes[x[2]][x[3]]

LEMMA DictFacts ==
  ASSUME NEW x \in AllDicts
  PROVE  /\ x[2] \in Pages /\ x[1] \in Homes(x[2]) /\ x[3] \in Kinds /\ Orig(x) # Nil
         /\ IsFiniteSet(DOMAIN Orig(x)) /\ \A n \in DOMAIN Orig(x) : IsSeq(n)
<1>1. PICK p \in Pages : x \in {<<ow, p, k>> : ow \in Homes(p), k \in {k \in Kinds : PageRes[p][k] # Nil}}
  BY DEF AllDicts
<1>2. PICK ow \in Homes(p) : \E k \in {k \in Kinds : PageRes[p][k] # Nil} : x = <<ow, p, k>>
  BY <1>1
<1>3. PICK k \in {k \in Kinds : PageRes[p][k] # Nil} : x = <<ow, p, k>>
  BY <1>2
<1>4. x[1] = ow /\ x[2] = p /\ x[3] = k
  BY <1>3
<1>5. IsFiniteSet(DOMAIN PageRes[p][k])
  BY <1>3, PageFacts
<1>6. \A n \in DOMAIN PageRes[p][k] : Len(n) \in Nat /\ n = [i \in 1 .. Len(n) |-> n[i]]
  BY <1>3, NamesAssumption
<1>7. \A n \in DOMAIN PageRes[p][k] : IsSeq(n)
  <2> TAKE n \in DOMAIN PageRes[p][k]
  <2> DEFINE l == Len(n)
  <2>1. l \in Nat /\ n = [i \in 1 .. l |-> n[i]]
    BY <1>6
  <2>2. DOMAIN n = 1 .. l
    <3> HIDE DEF l
    <3> QED
      BY <2>1
  <2> QED
    BY <2>1, <2>2 DEF IsSeq
<1> QED
  BY <1>2, <1>3, <1>4, <1>5, <1>7 DEF Orig

\* A dictionary keeps what it had in its file.
DictOK(x, dx) ==
  /\ IsFiniteSet(DOMAIN dx) /\ \A n \in DOMAIN dx : IsSeq(n)
  /\ \A n \in DOMAIN Orig(x) : n \in DOMAIN dx /\ dx[n] = <<x[1], Orig(x)[n]>>
DictNamesOK(d) == \A x \in AllDicts : DictOK(x, d[x])

UseOf(k, n, o, s) == [kind |-> k, name |-> n, obj |-> o, sure |-> s]
IsUse(u) == u = UseOf(u.kind, u.name, u.obj, u.sure) /\ u.kind \in Kinds
Means(u, p, d) ==
  /\ p.res[u.kind] # Nil
  /\ u.name \in DOMAIN d[p.res[u.kind]] /\ d[p.res[u.kind]][u.name] = u.obj
ResKinds(p) == \A k \in Kinds : p.res[k] # Nil => p.res[k] \in AllDicts /\ p.res[k][3] = k
UsesOK(p, d) == ResKinds(p) /\ \A u \in p.uses : IsUse(u) /\ (u.sure => Means(u, p, d))
AllSure(p) == \A u \in p.uses : u.sure

Extends(d2, d) ==
  \A x \in AllDicts : \A n \in DOMAIN d[x] : n \in DOMAIN d2[x] /\ d2[x][n] = d[x][n]

LEMMA UsesLater ==
  ASSUME NEW p, NEW d, UsesOK(p, d), NEW d2, Extends(d2, d)
  PROVE  UsesOK(p, d2)
<1>1. ASSUME NEW u \in p.uses, u.sure
      PROVE  Means(u, p, d2)
  <2>1. IsUse(u) /\ Means(u, p, d)
    BY <1>1 DEF UsesOK
  <2>2. p.res[u.kind] \in AllDicts
    BY <2>1 DEF UsesOK, ResKinds, IsUse, Means
  <2> QED
    BY <2>1, <2>2 DEF Means, Extends
<1> QED
  BY <1>1 DEF UsesOK

LEMMA SameUses ==
  ASSUME NEW p, NEW q, p.res = q.res, p.uses = q.uses, NEW d, UsesOK(q, d)
  PROVE  UsesOK(p, d)
BY DEF UsesOK, ResKinds, Means

\* A page as it is in a file.
LEMMA ModelUses ==
  ASSUME NEW p \in Pages, NEW ow \in Homes(p), NEW d, DictNamesOK(d)
  PROVE  UsesOK(ModelOf(ow, p), d) /\ AllSure(ModelOf(ow, p))
<1> DEFINE m == ModelOf(ow, p)
           Has == {k \in Kinds : PageRes[p][k] # Nil}
<1>1. \A k \in Kinds : m.res[k] = IF PageRes[p][k] = Nil THEN Nil ELSE <<ow, p, k>>
  BY ModelIs
<1>2. m.uses = {[kind |-> u[1], name |-> u[2], obj |-> <<ow, PageRes[p][u[1]][u[2]]>>, sure |-> TRUE] :
                  u \in UNION {{k} \X DOMAIN PageRes[p][k] : k \in Has}}
  BY DEF ModelOf
<1> HIDE DEF m
<1>3. \A k \in Has : <<ow, p, k>> \in AllDicts
  BY PageFacts
<1>4. ResKinds(m)
  <2>1. ASSUME NEW k \in Kinds, m.res[k] # Nil
        PROVE  m.res[k] \in AllDicts /\ m.res[k][3] = k
    <3>1. k \in Has /\ m.res[k] = <<ow, p, k>>
      BY <1>1, <2>1
    <3> DEFINE x == m.res[k]
    <3> HIDE DEF x, Has
    <3>2. x = <<ow, p, k>>
      BY <3>1 DEF x
    <3>3. x[3] = k
      BY <3>2
    <3> QED
      BY <1>3, <3>1, <3>3 DEF x
  <2> QED
    BY <2>1 DEF ResKinds
<1>5. ASSUME NEW u \in m.uses
      PROVE  IsUse(u) /\ u.sure /\ Means(u, m, d)
  <2>1. PICK v \in UNION {{k} \X DOMAIN PageRes[p][k] : k \in Has} :
               u = [kind |-> v[1], name |-> v[2], obj |-> <<ow, PageRes[p][v[1]][v[2]]>>, sure |-> TRUE]
    BY <1>2
  <2>2. PICK k \in Has : v \in {k} \X DOMAIN PageRes[p][k]
    BY <2>1
  <2>3. v[1] = k /\ v[2] \in DOMAIN PageRes[p][k]
    BY <2>2
  <2> DEFINE n == v[2]
             o == <<ow, PageRes[p][k][n]>>
             x == <<ow, p, k>>
  <2>4. u = UseOf(k, n, o, TRUE)
    BY <2>1, <2>3 DEF UseOf
  <2>5. u.kind = k /\ u.name = n /\ u.obj = o /\ u.sure = TRUE
    BY <2>4 DEF UseOf
  <2>6. m.res[k] = x /\ x \in AllDicts /\ x # Nil /\ Orig(x) = PageRes[p][k] /\ x[1] = ow
    BY <1>1, <1>3, <2>2, NilAssumption DEF Orig
  <2>7. n \in DOMAIN d[x] /\ d[x][n] = o
    BY <2>3, <2>6 DEF DictNamesOK, DictOK
  <2> HIDE DEF n, o, x
  <2> QED
    BY <2>2, <2>4, <2>5, <2>6, <2>7 DEF IsUse, Means
<1> QED
  BY <1>4, <1>5 DEF UsesOK, AllSure, m

-----------------------------------------------------------------------------
(* Names after a merge.                                                     *)
IsRenaming(ren, taken, have) ==
  /\ DOMAIN ren = taken \cap have
  /\ \A n \in DOMAIN ren : IsSeq(n) /\ \E i \in Nat : ren[n] = Append(n, i) /\ ren[n] \notin taken

LEMMA NamesAre ==
  ASSUME NEW d, NEW p, NEW k \in Kinds, p.res[k] # Nil
  PROVE  DOMAIN d[p.res[k]] \subseteq Names(d, p)
BY DEF Names

LEMMA NamesFrom ==
  ASSUME NEW d, NEW p, NEW n \in Names(d, p)
  PROVE  \E k \in Kinds : p.res[k] # Nil /\ n \in DOMAIN d[p.res[k]]
BY DEF Names

LEMMA NamesFinite ==
  ASSUME NEW d, DictNamesOK(d), NEW p, ResKinds(p)
  PROVE  IsFiniteSet(Names(d, p)) /\ \A n \in Names(d, p) : IsSeq(n)
<1> DEFINE Has == {k \in Kinds : p.res[k] # Nil}
           f == [k \in Has |-> DOMAIN d[p.res[k]]]
<1>1. IsFiniteSet(Has)
  BY KindsAre, FS_Subset
<1>2. DOMAIN f = Has /\ f = [k \in Has |-> f[k]] /\ Names(d, p) = UNION {f[k] : k \in Has}
  BY DEF Names
<1>3. \A k \in Has : IsFiniteSet(f[k])
  BY DEF ResKinds, DictNamesOK, DictOK
<1> HIDE DEF f, Has
<1>4. IsFiniteSet({f[k] : k \in Has})
  BY <1>1, <1>2, FiniteImage
<1>5. \A T \in {f[k] : k \in Has} : IsFiniteSet(T)
  BY <1>3
<1>6. \A n \in Names(d, p) : IsSeq(n)
  BY NamesFrom DEF ResKinds, DictNamesOK, DictOK
<1> QED
  BY <1>2, <1>4, <1>5, <1>6, FS_UNION

LEMMA RenamesAre ==
  ASSUME NEW taken, IsFiniteSet(taken), NEW have, \A n \in have : IsSeq(n)
  PROVE  IsRenaming(Renames(taken, have), taken, have)
<1> DEFINE ren == Renames(taken, have)
<1>1. ren = [n \in taken \cap have |-> RenameOf(n, taken)]
  BY DEF Renames
<1>2. DOMAIN ren = taken \cap have /\ \A n \in taken \cap have : ren[n] = RenameOf(n, taken)
  BY <1>1
<1> HIDE DEF ren
<1>3. ASSUME NEW n \in DOMAIN ren
      PROVE  IsSeq(n) /\ \E i \in Nat : ren[n] = Append(n, i) /\ ren[n] \notin taken
  <2>1. IsSeq(n) /\ ren[n] = RenameOf(n, taken)
    BY <1>2
  <2>2. \E i \in Nat : RenameOf(n, taken) = Append(n, i) /\ Append(n, i) \notin taken
    BY <2>1, RenameIs
  <2>3. PICK i \in Nat : RenameOf(n, taken) = Append(n, i) /\ Append(n, i) \notin taken
    BY <2>2
  <2>4. ren[n] = Append(n, i) /\ ren[n] \notin taken
    BY <2>1, <2>3
  <2> QED
    BY <2>1, <2>4
<1>4. IsRenaming(ren, taken, have)
  BY <1>2, <1>3 DEF IsRenaming
<1> QED
  BY <1>4 DEF ren

LEMMA ToIs ==
  ASSUME NEW ren, NEW taken, NEW have, IsRenaming(ren, taken, have), NEW n \in have, IsSeq(n)
  PROVE  To(ren, n) \notin taken /\ IsSeq(To(ren, n))
<1>1. CASE n \in DOMAIN ren
  <2>1. PICK i \in Nat : ren[n] = Append(n, i) /\ ren[n] \notin taken
    BY <1>1 DEF IsRenaming
  <2>2. IsSeq(Append(n, i))
    BY AppendedIs
  <2> QED
    BY <1>1, <2>1, <2>2 DEF To
<1>2. CASE n \notin DOMAIN ren
  BY <1>2 DEF To, IsRenaming
<1> QED
  BY <1>1, <1>2

LEMMA AppendSame ==
  ASSUME NEW n, IsSeq(n), NEW m, IsSeq(m), NEW i, NEW j, Append(n, i) = Append(m, j)
  PROVE  n = m
<1> DEFINE a == Append(n, i)
           b == Append(m, j)
<1>1. Len(n) \in Nat /\ Len(m) \in Nat
  BY DEF IsSeq
<1>2. Len(a) = Len(n) + 1 /\ \A l \in 1 .. Len(n) : a[l] = n[l]
  BY AppendedIs
<1>3. Len(b) = Len(m) + 1 /\ \A l \in 1 .. Len(m) : b[l] = m[l]
  BY AppendedIs
<1>4. a = b
  OBVIOUS
<1> HIDE DEF a, b
<1>5. Len(n) = Len(m)
  BY <1>1, <1>2, <1>3, <1>4
<1>6. \A l \in 1 .. Len(n) : n[l] = m[l]
  BY <1>2, <1>3, <1>4, <1>5
<1> QED
  BY <1>5, <1>6 DEF IsSeq

\* A name that keeps its meaning where b is merged or becomes the page's own.
Sure(n, b, ren) ==
  /\ \A o \in DOMAIN ren : Begins(o, n) => o = n
  /\ n \in DOMAIN ren => ren[n] \notin DOMAIN b

\* No other name of b becomes the same.
LEMMA SureApart ==
  ASSUME NEW ren, NEW taken, NEW have, IsRenaming(ren, taken, have), NEW b,
         NEW n \in DOMAIN b, IsSeq(n), Sure(n, b, ren), NEW m \in DOMAIN b, IsSeq(m), To(ren, m) = To(ren, n)
  PROVE  m = n
<1>1. CASE n \in DOMAIN ren /\ m \in DOMAIN ren
  <2>1. PICK i \in Nat : ren[n] = Append(n, i)
    BY <1>1 DEF IsRenaming
  <2>2. PICK j \in Nat : ren[m] = Append(m, j)
    BY <1>1 DEF IsRenaming
  <2> QED
    BY <1>1, <2>1, <2>2, AppendSame DEF To
<1>2. CASE n \in DOMAIN ren /\ m \notin DOMAIN ren
  BY <1>2 DEF To, Sure
<1>3. CASE n \notin DOMAIN ren /\ m \in DOMAIN ren
  <2>1. PICK j \in Nat : ren[m] = Append(m, j)
    BY <1>3 DEF IsRenaming
  <2>2. n = Append(m, j)
    BY <1>3, <2>1 DEF To
  <2>3. Begins(m, n)
    BY <2>2, AppendBegins
  <2> QED
    BY <1>3, <2>3 DEF Sure
<1>4. CASE n \notin DOMAIN ren /\ m \notin DOMAIN ren
  BY <1>4 DEF To
<1> QED
  BY <1>1, <1>2, <1>3, <1>4

(* Of one dictionary that another was merged into.                          *)
LEMMA MergedDict ==
  ASSUME NEW ren, NEW taken, NEW have, IsRenaming(ren, taken, have),
         NEW x \in AllDicts, NEW y \in AllDicts, NEW a, NEW b, NEW r, IsMerged(r, a, b, ren),
         DictOK(x, a), DictOK(y, b), DOMAIN a \subseteq taken, DOMAIN b \subseteq have
  PROVE  /\ DictOK(x, r)
         /\ \A n \in DOMAIN a : n \in DOMAIN r /\ r[n] = a[n]
         /\ \A n \in DOMAIN b : Sure(n, b, ren) => To(ren, n) \in DOMAIN r /\ r[To(ren, n)] = b[n]
<1>1. \A n \in DOMAIN b : IsSeq(n)
  BY DEF DictOK
<1>2. \A n \in DOMAIN b : To(ren, n) \notin taken /\ IsSeq(To(ren, n))
  BY <1>1, ToIs
<1>3. \A n \in DOMAIN a : n \in DOMAIN r /\ r[n] = a[n]
  BY <1>2 DEF IsMerged
<1>4. ASSUME NEW n \in DOMAIN b, Sure(n, b, ren)
      PROVE  To(ren, n) \in DOMAIN r /\ r[To(ren, n)] = b[n]
  <2> DEFINE z == To(ren, n)
  <2>1. z \in DOMAIN r
    BY DEF IsMerged
  <2>2. PICK m \in DOMAIN b : To(ren, m) = z /\ r[z] = b[m]
    BY <2>1 DEF IsMerged
  <2>3. m = n
    BY <1>1, <1>4, <2>2, SureApart
  <2> QED
    BY <2>1, <2>2, <2>3
<1>5. IsFiniteSet(DOMAIN r)
  <2> DEFINE T == {To(ren, n) : n \in DOMAIN b}
  <2>1. IsFiniteSet(T) /\ DOMAIN r = DOMAIN a \cup T
    BY FiniteTo DEF IsMerged, DictOK
  <2> HIDE DEF T
  <2> QED
    BY <2>1, FS_Union DEF DictOK
<1>6. \A n \in DOMAIN r : IsSeq(n)
  BY <1>2 DEF IsMerged, DictOK
<1>7. DictOK(x, r)
  BY <1>3, <1>5, <1>6 DEF DictOK
<1> QED
  BY <1>3, <1>4, <1>7

(* Of all dictionaries.                                                     *)
HasAdded(d2, d, ren, src, add) ==
  \A k \in Merged : src.res[k] # Nil /\ add.res[k] # Nil =>
    \A n \in DOMAIN d[add.res[k]] : Sure(n, d[add.res[k]], ren) =>
      /\ To(ren, n) \in DOMAIN d2[src.res[k]]
      /\ d2[src.res[k]][To(ren, n)] = d[add.res[k]][n]

LEMMA MergedDicts ==
  ASSUME NEW d, DOMAIN d = AllDicts, DictNamesOK(d),
         NEW src, ResKinds(src), NEW add, ResKinds(add),
         NEW ren, IsRenaming(ren, Names(d, src), Names(d, add)),
         NEW d2, IsMergedAll(d2, d, src, add, ren)
  PROVE  DictNamesOK(d2) /\ Extends(d2, d) /\ HasAdded(d2, d, ren, src, add)
<1> DEFINE taken == Names(d, src)
           have == Names(d, add)
<1>1. IsRenaming(ren, taken, have)
  OBVIOUS
<1> HIDE DEF taken, have
<1>2. ASSUME NEW k \in Merged, src.res[k] # Nil, add.res[k] # Nil,
             IsMerged(d2[src.res[k]], d[src.res[k]], d[add.res[k]], ren)
      PROVE  /\ DictOK(src.res[k], d2[src.res[k]])
             /\ \A n \in DOMAIN d[src.res[k]] : n \in DOMAIN d2[src.res[k]] /\ d2[src.res[k]][n] = d[src.res[k]][n]
             /\ \A n \in DOMAIN d[add.res[k]] : Sure(n, d[add.res[k]], ren) =>
                  /\ To(ren, n) \in DOMAIN d2[src.res[k]]
                  /\ d2[src.res[k]][To(ren, n)] = d[add.res[k]][n]
  <2> DEFINE x == src.res[k]
             y == add.res[k]
             a == d[x]
             b == d[y]
             r == d2[x]
  <2>1. k \in Kinds
    BY KindsAre
  <2>2. x \in AllDicts /\ y \in AllDicts
    BY <1>2, <2>1 DEF ResKinds
  <2>3. DictOK(x, a) /\ DictOK(y, b)
    BY <2>2 DEF DictNamesOK
  <2>4. DOMAIN a \subseteq taken /\ DOMAIN b \subseteq have
    BY <1>2, <2>1, NamesAre DEF taken, have
  <2>5. IsMerged(r, a, b, ren)
    BY <1>2
  <2> HIDE DEF x, y, a, b, r
  <2>6. /\ DictOK(x, r)
        /\ \A n \in DOMAIN a : n \in DOMAIN r /\ r[n] = a[n]
        /\ \A n \in DOMAIN b : Sure(n, b, ren) => To(ren, n) \in DOMAIN r /\ r[To(ren, n)] = b[n]
    BY <1>1, <2>2, <2>3, <2>4, <2>5, MergedDict
  <2> QED
    BY <2>6 DEF x, y, a, b, r
<1>3. ASSUME NEW x \in AllDicts
      PROVE  DictOK(x, d2[x]) /\ \A n \in DOMAIN d[x] : n \in DOMAIN d2[x] /\ d2[x][n] = d[x][n]
  <2>1. CASE d2[x] = d[x]
    BY <2>1 DEF DictNamesOK
  <2>2. ASSUME NEW k \in Merged, src.res[k] = x, add.res[k] # Nil, IsMerged(d2[x], d[x], d[add.res[k]], ren)
        PROVE  DictOK(x, d2[x]) /\ \A n \in DOMAIN d[x] : n \in DOMAIN d2[x] /\ d2[x][n] = d[x][n]
    <3>1. src.res[k] # Nil
      BY <2>2, NilAssumption
    <3>2. IsMerged(d2[src.res[k]], d[src.res[k]], d[add.res[k]], ren)
      BY <2>2
    <3>3. /\ DictOK(src.res[k], d2[src.res[k]])
          /\ \A n \in DOMAIN d[src.res[k]] : n \in DOMAIN d2[src.res[k]] /\ d2[src.res[k]][n] = d[src.res[k]][n]
      BY <1>2, <2>2, <3>1, <3>2
    <3> QED
      BY <2>2, <3>3
  <2> QED
    BY <2>1, <2>2 DEF IsMergedAll
<1>4. ASSUME NEW k \in Merged, src.res[k] # Nil, add.res[k] # Nil
      PROVE  IsMerged(d2[src.res[k]], d[src.res[k]], d[add.res[k]], ren)
  <2> DEFINE x == src.res[k]
  <2>1. x \in AllDicts /\ x[3] = k
    BY <1>4, KindsAre DEF ResKinds
  <2>2. PICK q \in Merged : src.res[q] = x /\ IsMerged(d2[x], d[x], d[add.res[q]], ren)
    BY <1>4, <2>1 DEF IsMergedAll
  <2>3. src.res[q] # Nil /\ q \in Kinds
    BY <1>4, <2>2, KindsAre
  <2>4. x[3] = q
    BY <2>2, <2>3 DEF ResKinds
  <2> QED
    BY <2>1, <2>2, <2>4
<1>5. DictNamesOK(d2) /\ Extends(d2, d)
  BY <1>3 DEF DictNamesOK, Extends
<1>6. HasAdded(d2, d, ren, src, add)
  BY <1>2, <1>4 DEF HasAdded
<1> QED
  BY <1>5, <1>6

(* A use of the page that was merged in.                                    *)
NewUse(u, name, sure) == [u EXCEPT !.name = name, !.sure = sure]

LEMMA RenamedUse ==
  ASSUME NEW k, NEW n, NEW o, NEW s, NEW name, NEW sure, NEW u, u = UseOf(k, n, o, s)
  PROVE  NewUse(u, name, sure) = UseOf(k, name, o, sure)
<1>1. u = [kind |-> k, name |-> n, obj |-> o, sure |-> s]
  BY DEF UseOf
<1> DEFINE v == [u EXCEPT !.name = name]
<1>2. v = [kind |-> k, name |-> name, obj |-> o, sure |-> s]
  BY <1>1
<1> HIDE DEF v
<1>3. [v EXCEPT !.sure = sure] = [kind |-> k, name |-> name, obj |-> o, sure |-> sure]
  BY <1>2
<1> QED
  BY <1>3 DEF v, UseOf, NewUse

LEMMA AddedUse ==
  ASSUME DictNamesOK(dicts),
         NEW src, ResKinds(src), NEW add, ResKinds(add),
         NEW ren, IsRenaming(ren, Names(dicts, src), Names(dicts, add)), IsFiniteSet(Names(dicts, src)),
         NEW order \in Orders(DOMAIN ren),
         NEW d2, Extends(d2, dicts), HasAdded(d2, dicts, ren, src, add),
         NEW q, \A k \in Kinds : q.res[k] = IF src.res[k] = Nil /\ k \in Merged THEN add.res[k] ELSE src.res[k],
         NEW u, IsUse(u), Means(u, add, dicts)
  PROVE  LET new == NewUse(u, Renamed(u.name, ren, order), IsSure(u, src, add, ren))
         IN  IsUse(new) /\ (new.sure => Means(new, q, d2))
<1> DEFINE k == u.kind
           n == u.name
           o == u.obj
           taken == Names(dicts, src)
           have == Names(dicts, add)
           y == add.res[k]
           name == Renamed(n, ren, order)
           sure == IsSure(u, src, add, ren)
           new == NewUse(u, name, sure)
           to == To(ren, n)
<1>1. u = UseOf(k, n, o, u.sure) /\ k \in Kinds /\ y # Nil /\ n \in DOMAIN dicts[y] /\ dicts[y][n] = o
  BY DEF IsUse, Means
<1>2. new = UseOf(k, name, o, sure)
  <2> DEFINE s == u.sure
  <2>1. u = UseOf(k, n, o, s)
    BY <1>1
  <2> HIDE DEF name, sure, k, n, o, s
  <2> QED
    BY <2>1, RenamedUse
<1>3. y \in AllDicts /\ n \in have
  BY <1>1, NamesAre DEF ResKinds
<1>4. IsSeq(n)
  BY <1>1, <1>3 DEF DictNamesOK, DictOK
<1> HIDE DEF new
<1>5. new.kind = k /\ new.name = name /\ new.obj = o /\ new.sure = sure
  <2> HIDE DEF k, name, o, sure
  <2> QED
    BY <1>2 DEF UseOf
<1>6. IsUse(new)
  <2> HIDE DEF k, name, o, sure
  <2> QED
    BY <1>1, <1>2, <1>5 DEF IsUse
<1>7. ASSUME sure
      PROVE  Means(new, q, d2)
  <2>1. /\ k \in Merged
        /\ \A m \in DOMAIN ren : Begins(m, n) => m = n
        /\ n \in DOMAIN ren => src.res[k] # Nil /\ ren[n] \notin DOMAIN dicts[y]
    BY <1>7 DEF IsSure
  <2>2. Sure(n, dicts[y], ren)
    BY <2>1 DEF Sure
  <2>3. name = to
    <3> DEFINE R == DOMAIN ren
    <3>1. R \subseteq taken /\ \A m \in R : IsSeq(m)
      BY DEF IsRenaming
    <3>2. IsFiniteSet(R)
      BY <3>1, FS_Subset
    <3>3. Unbegun(R, n)
      BY <2>1, <3>1 DEF Unbegun
    <3>4. n \in R => \E t : ren[n] = Append(n, t) /\ ren[n] \notin R
      BY <3>1 DEF IsRenaming
    <3> HIDE DEF k, n, o, taken, have, y, new
    <3> QED
      BY <1>4, <3>2, <3>3, <3>4, RenamedIs DEF name, to
  <2> HIDE DEF k, n, o, taken, have, y, name, sure
  <2>4. q.res[k] # Nil /\ to \in DOMAIN d2[q.res[k]] /\ d2[q.res[k]][to] = o
    <3>1. CASE src.res[k] = Nil
      <4>1. q.res[k] = y
        BY <1>1, <2>1, <3>1 DEF y
      <4>2. to = n
        BY <2>1, <3>1 DEF To
      <4> HIDE DEF to
      <4> QED
        BY <1>1, <1>3, <4>1, <4>2 DEF Extends
    <3>2. CASE src.res[k] # Nil
      <4>1. q.res[k] = src.res[k]
        BY <1>1, <3>2
      <4>2. \A m \in DOMAIN dicts[y] : Sure(m, dicts[y], ren) =>
              To(ren, m) \in DOMAIN d2[src.res[k]] /\ d2[src.res[k]][To(ren, m)] = dicts[y][m]
        BY <1>1, <2>1, <3>2 DEF HasAdded, y
      <4> QED
        BY <1>1, <2>2, <3>2, <4>1, <4>2
    <3> QED
      BY <3>1, <3>2
  <2> HIDE DEF to
  <2> QED
    BY <1>5, <2>3, <2>4 DEF Means
<1> QED
  BY <1>5, <1>6, <1>7 DEF new

LEMMA MergedUses ==
  ASSUME DOMAIN dicts = AllDicts, DictNamesOK(dicts),
         NEW src, DOMAIN src = PageKeys, UsesOK(src, dicts),
         NEW add, UsesOK(add, dicts), AllSure(add),
         NEW ren, ren = Renames(Names(dicts, src), Names(dicts, add)),
         NEW order \in Orders(DOMAIN ren), NEW k, NEW bigger,
         NEW q, IsMergedPage(q, MergedPage(src, add, ren, order, k), src, add, bigger),
         NEW d2, IsMergedAll(d2, dicts, src, add, ren)
  PROVE  DictNamesOK(d2) /\ Extends(d2, dicts) /\ UsesOK(q, d2)
<1> DEFINE page == MergedPage(src, add, ren, order, k)
           New(u) == NewUse(u, Renamed(u.name, ren, order), IsSure(u, src, add, ren))
<1>1. ResKinds(src) /\ ResKinds(add)
  BY DEF UsesOK
<1>2. IsFiniteSet(Names(dicts, src)) /\ \A n \in Names(dicts, add) : IsSeq(n)
  BY <1>1, NamesFinite
<1>3. IsRenaming(ren, Names(dicts, src), Names(dicts, add))
  BY <1>2, RenamesAre
<1>4. DictNamesOK(d2) /\ Extends(d2, dicts) /\ HasAdded(d2, dicts, ren, src, add)
  BY <1>1, <1>3, MergedDicts
<1>5. /\ DOMAIN page = PageKeys
      /\ \A z \in Kinds : page.res[z] = IF src.res[z] = Nil /\ z \in Merged THEN add.res[z] ELSE src.res[z]
      /\ page.uses = src.uses \cup UsesMerged(src, add, ren, order)
  BY MergedIs
<1> HIDE DEF page
<1>6. q.res = page.res /\ q.uses = page.uses
  <2>1. IsMergedPage(q, page, src, add, bigger)
    BY DEF page
  <2> QED
    BY <1>5, <2>1, BoxedIs DEF IsMergedPage
<1>7. \A z \in Kinds : q.res[z] = IF src.res[z] = Nil /\ z \in Merged THEN add.res[z] ELSE src.res[z]
  BY <1>5, <1>6
<1>8. ASSUME NEW u \in src.uses
      PROVE  IsUse(u) /\ (u.sure => Means(u, q, d2))
  <2>1. IsUse(u) /\ (u.sure => Means(u, src, d2))
    BY <1>4, UsesLater DEF UsesOK
  <2>2. src.res[u.kind] # Nil => q.res[u.kind] = src.res[u.kind]
    BY <1>7, <2>1 DEF IsUse
  <2> QED
    BY <2>1, <2>2 DEF Means
<1>9. ASSUME NEW u \in add.uses
      PROVE  IsUse(New(u)) /\ (New(u).sure => Means(New(u), q, d2))
  <2>1. IsUse(u) /\ Means(u, add, dicts)
    BY DEF UsesOK, AllSure
  <2> QED
    BY <1>1, <1>2, <1>3, <1>4, <1>7, <2>1, AddedUse
<1>10. ResKinds(q)
  BY <1>1, <1>7 DEF ResKinds
<1>11. \A u \in UsesMerged(src, add, ren, order) : \E v \in add.uses : u = New(v)
  BY DEF UsesMerged, NewUse
<1>12. \A u \in q.uses : IsUse(u) /\ (u.sure => Means(u, q, d2))
  <2> HIDE DEF New
  <2> QED
    BY <1>5, <1>6, <1>8, <1>9, <1>11
<1> QED
  BY <1>4, <1>10, <1>12 DEF UsesOK

-----------------------------------------------------------------------------
(* Names after any call.                                                    *)
PagesUses(ps, d) == \A i \in 1 .. Len(ps) : UsesOK(ps[i], d)
NamesInv == DictNamesOK(dicts) /\ PagesUses(pages, dicts)

LEMMA UsesPut ==
  ASSUME NEW ps, IsSeq(ps), NEW d, PagesUses(ps, d), NEW i \in 1 .. Len(ps), NEW q, UsesOK(q, d)
  PROVE  PagesUses([ps EXCEPT ![i] = q], d)
<1>1. IsPut([ps EXCEPT ![i] = q], ps, i, q)
  BY PutIs
<1> QED
  BY <1>1 DEF PagesUses, IsPut

LEMMA UsesAdded ==
  ASSUME NEW ps, IsSeq(ps), NEW d, PagesUses(ps, d), NEW q, UsesOK(q, d)
  PROVE  PagesUses(Append(ps, q), d)
<1> DEFINE pt == Append(ps, q)
           n == Len(ps)
<1>1. n \in Nat /\ Len(pt) = n + 1 /\ pt[n + 1] = q /\ \A j \in 1 .. n : pt[j] = ps[j]
  BY AppendedIs DEF IsSeq
<1>2. \A j \in 1 .. n : UsesOK(ps[j], d)
  BY DEF PagesUses
<1> HIDE DEF pt, n
<1>3. \A j \in 1 .. n + 1 : j \in 1 .. n \/ j = n + 1
  BY <1>1
<1>4. PagesUses(pt, d)
  BY <1>1, <1>2, <1>3 DEF PagesUses
<1> QED
  BY <1>4 DEF pt

LEMMA NewPageUses ==
  ASSUME NEW p \in Pages, NEW d, DictNamesOK(d), NEW k
  PROVE  LET new == Duplicate(ModelOf(HomeOf(p), p), k)
         IN  UsesOK(new, d) /\ AllSure(new)
<1> DEFINE m == ModelOf(HomeOf(p), p)
           new == Duplicate(m, k)
<1>1. UsesOK(m, d) /\ AllSure(m) /\ DOMAIN m = PageKeys
  BY HomesAre, ModelUses, ModelIs
<1> HIDE DEF m
<1>2. new.res = m.res /\ new.uses = m.uses
  BY <1>1, DuplicateIs
<1> HIDE DEF new
<1>3. UsesOK(new, d) /\ AllSure(new)
  BY <1>1, <1>2, SameUses DEF AllSure
<1> QED
  BY <1>3 DEF m, new

\* Whatever leaves the dictionaries as they are.
LEMMA NamesSame ==
  ASSUME NamesInv, dicts' = dicts, PagesUses(pages, dicts) => PagesUses(pages', dicts)
  PROVE  NamesInv'
BY DEF NamesInv

LEMMA NamesInit ==
  ASSUME AppInit, StateOK
  PROVE  NamesInv
<1>1. dicts = [x \in AllDicts |-> [n \in DOMAIN Orig(x) |-> <<x[1], Orig(x)[n]>>]]
  BY DEF AppInit, Orig
<1>2. \A x \in AllDicts : DOMAIN dicts[x] = DOMAIN Orig(x) /\ \A n \in DOMAIN Orig(x) : dicts[x][n] = <<x[1], Orig(x)[n]>>
  BY <1>1
<1>3. DictNamesOK(dicts)
  <2>1. ASSUME NEW x \in AllDicts PROVE DictOK(x, dicts[x])
    BY <1>2, DictFacts DEF DictOK
  <2> QED
    BY <2>1 DEF DictNamesOK
<1>4. ASSUME NEW i \in 1 .. Len(pages)
      PROVE  UsesOK(pages[i], dicts)
  <2>1. pages = [j \in DOMAIN FilePages |-> ModelOf("ro", FilePages[j])] /\ IsSeq(pages)
    BY DEF AppInit, StateOK, PagesOK
  <2>2. i \in DOMAIN FilePages /\ pages[i] = ModelOf("ro", FilePages[i])
    BY <2>1 DEF IsSeq
  <2>3. FilePages[i] \in Pages /\ FilePages[i] \in FileNodes
    BY <2>2, PagesAre DEF IsSeq
  <2>4. "ro" \in Homes(FilePages[i])
    BY <2>3, HomesAre
  <2> QED
    BY <1>3, <2>2, <2>3, <2>4, ModelUses
<1> QED
  BY <1>3, <1>4 DEF NamesInv, PagesUses

LEMMA AddPagesNames ==
  ASSUME StateOK, NamesInv, NEW p \in Pages, AddPages(p)
  PROVE  NamesInv'
<1> DEFINE d == Duplicate(ModelOf(HomeOf(p), p), fresh)
<1>1. pages' = Append(pages, d) /\ dicts' = dicts
  BY DEF AddPages
<1>2. UsesOK(d, dicts)
  BY NewPageUses DEF NamesInv
<1> HIDE DEF d
<1>3. IsSeq(pages)
  BY DEF StateOK, PagesOK
<1>4. PagesUses(pages, dicts) => PagesUses(pages', dicts)
  BY <1>1, <1>2, <1>3, UsesAdded
<1> QED
  BY <1>1, <1>4, NamesSame

LEMMA ReplacePageNames ==
  ASSUME StateOK, NamesInv, NEW i, NEW p \in Pages, ReplacePage(i, p)
  PROVE  NamesInv'
<1> DEFINE d == Duplicate(ModelOf(HomeOf(p), p), fresh)
<1>1. pages' = [pages EXCEPT ![i] = d] /\ dicts' = dicts /\ i \in DOMAIN pages
  BY DEF ReplacePage
<1>2. UsesOK(d, dicts)
  BY NewPageUses DEF NamesInv
<1> HIDE DEF d
<1>3. IsSeq(pages) /\ i \in 1 .. Len(pages)
  BY <1>1 DEF StateOK, PagesOK, IsSeq
<1>4. PagesUses(pages, dicts) => PagesUses(pages', dicts)
  BY <1>1, <1>2, <1>3, UsesPut
<1> QED
  BY <1>1, <1>4, NamesSame

LEMMA DuplicateUses ==
  ASSUME NEW p, DOMAIN p = PageKeys, NEW d, UsesOK(p, d), NEW k
  PROVE  UsesOK(Duplicate(p, k), d)
<1>1. Duplicate(p, k).res = p.res /\ Duplicate(p, k).uses = p.uses
  BY DuplicateIs
<1> QED
  BY <1>1, SameUses

LEMMA KeysOf ==
  ASSUME StateOK
  PROVE  IsSeq(pages) /\ \A i \in 1 .. Len(pages) : DOMAIN pages[i] = PageKeys
BY DEF StateOK, PagesOK, PageOK, PartsOK

LEMMA RemovePageNames ==
  ASSUME StateOK, NamesInv, NEW i, RemovePage(i)
  PROVE  NamesInv'
<1> DEFINE n == Len(pages)
           dup(j) == IF IsKept(pages[j]) THEN Duplicate(pages[j], fresh + j) ELSE pages[j]
           place(j) == IF j < i THEN j ELSE j + 1
           pt == [j \in 1 .. n - 1 |-> dup(place(j))]
<1>1. pages' = pt /\ dicts' = dicts /\ i \in DOMAIN pages
  BY DEF RemovePage
<1>2. n \in Nat /\ i \in 1 .. n /\ \A j \in 1 .. n : DOMAIN pages[j] = PageKeys
  BY <1>1, KeysOf DEF IsSeq
<1>3. n - 1 \in Nat /\ \A j \in 1 .. n - 1 : place(j) \in 1 .. n
  BY <1>2
<1>4. \A j \in 1 .. n - 1 : pt[j] = dup(place(j))
  OBVIOUS
<1>5. Len(pt) = n - 1
  <2>1. pt = [j \in 1 .. n - 1 |-> pt[j]]
    OBVIOUS
  <2> HIDE DEF pt, n
  <2> QED
    BY <1>3, <2>1, ListIs
<1>6. ASSUME PagesUses(pages, dicts), NEW j \in 1 .. n
      PROVE  UsesOK(dup(j), dicts)
  <2>1. UsesOK(pages[j], dicts)
    BY <1>6 DEF PagesUses
  <2> QED
    BY <1>2, <2>1, DuplicateUses
<1> HIDE DEF pt, dup, place, n
<1>7. PagesUses(pages, dicts) => PagesUses(pt, dicts)
  BY <1>3, <1>4, <1>5, <1>6 DEF PagesUses
<1> QED
  BY <1>1, <1>7, NamesSame

LEMMA SignNames ==
  ASSUME StateOK, NamesInv, NEW i, Sign(i)
  PROVE  NamesInv'
<1> DEFINE widget == <<"dup", fresh + 1>>
           d == Duplicate(pages[i], fresh + 2)
           page == [d EXCEPT !.notes = @ \cup {widget}]
<1>1. /\ dicts' = dicts
      /\ IF i \in DOMAIN pages THEN pages' = [pages EXCEPT ![i] = page] ELSE pages' = pages
  BY DEF Sign
<1>2. IsSeq(pages) /\ \A j \in 1 .. Len(pages) : DOMAIN pages[j] = PageKeys
  BY KeysOf
<1>3. CASE i \in DOMAIN pages
  <2>1. i \in 1 .. Len(pages)
    BY <1>2, <1>3 DEF IsSeq
  <2>2. DOMAIN d = PageKeys
    BY <1>2, <2>1, DuplicateIs
  <2>3. PagesUses(pages, dicts) => UsesOK(d, dicts)
    BY <1>2, <2>1, DuplicateUses DEF PagesUses
  <2> HIDE DEF d
  <2>4. page.res = d.res /\ page.uses = d.uses
    BY <2>2, NotedIs
  <2> HIDE DEF page
  <2>5. PagesUses(pages, dicts) => UsesOK(page, dicts)
    BY <2>3, <2>4, SameUses
  <2>6. PagesUses(pages, dicts) => PagesUses(pages', dicts)
    BY <1>1, <1>2, <1>3, <2>1, <2>5, UsesPut
  <2> QED
    BY <1>1, <2>6, NamesSame
<1>4. CASE i \notin DOMAIN pages
  BY <1>1, <1>4, NamesSame
<1> QED
  BY <1>3, <1>4

LEMMA MergePageWithNames ==
  ASSUME StateOK, NamesInv, NEW i, NEW p \in Pages, NEW bigger, MergePageWith(i, p, bigger)
  PROVE  NamesInv'
<1> DEFINE old == pages[i]
           src == IF IsKept(pages[i]) THEN Duplicate(pages[i], fresh) ELSE pages[i]
           add == Duplicate(ModelOf(HomeOf(p), p), fresh + 1)
           ren == Renames(Names(dicts, src), Names(dicts, add))
           Page(order) == MergedPage(src, add, ren, order, fresh)
           Q(order) == IF bigger /\ HasBox(src) /\ HasBox(add) THEN [Page(order) EXCEPT !.box = TRUE]
                       ELSE Page(order)
           d2 == MergeAllResources(dicts, src, add, ren)
<1>1. PICK order \in Orders(DOMAIN ren) :
        dicts' = d2 /\ pages' = [pages EXCEPT ![i] = Q(order)] /\ i \in DOMAIN pages
  BY DEF MergePageWith
<1> DEFINE q == Q(order)
<1>2. IsSeq(pages) /\ i \in 1 .. Len(pages) /\ DOMAIN old = PageKeys
  BY <1>1, KeysOf DEF IsSeq
<1>3. IsMergedPage(q, MergedPage(src, add, ren, order, fresh), src, add, bigger)
  BY DEF IsMergedPage, Boxed
<1>4. IsMergedAll(d2, dicts, src, add, ren)
  BY MergeAllResourcesIs
<1>5. src = IF IsKept(old) THEN Duplicate(old, fresh) ELSE old
  OBVIOUS
<1>6. DOMAIN dicts = AllDicts
  BY DEF StateOK, DictsOK
<1>7. UsesOK(add, dicts) /\ AllSure(add)
  BY NewPageUses DEF NamesInv
<1>8. UsesOK(old, dicts)
  BY <1>2 DEF NamesInv, PagesUses
<1>9. DOMAIN src = PageKeys /\ UsesOK(src, dicts)
  BY <1>2, <1>5, <1>8, DuplicateIs, DuplicateUses
<1> HIDE DEF q, d2, Q, Page
<1>10. dicts' = d2 /\ pages' = [pages EXCEPT ![i] = q]
  BY <1>1 DEF q
<1>11. ren = Renames(Names(dicts, src), Names(dicts, add))
  OBVIOUS
<1> HIDE DEF src, add, ren
<1>12. DictNamesOK(dicts) /\ PagesUses(pages, dicts)
  BY DEF NamesInv
<1>13. DictNamesOK(d2) /\ Extends(d2, dicts) /\ UsesOK(q, d2)
  BY <1>1, <1>3, <1>4, <1>6, <1>7, <1>9, <1>11, <1>12, MergedUses
<1>14. PagesUses(pages, d2)
  BY <1>12, <1>13, UsesLater DEF PagesUses
<1>15. PagesUses([pages EXCEPT ![i] = q], d2)
  BY <1>2, <1>13, <1>14, UsesPut
<1> QED
  BY <1>10, <1>13, <1>15 DEF NamesInv

LEMMA NamesStep ==
  ASSUME StateOK, NamesInv, [AppNext]_appVars
  PROVE  NamesInv'
<1>1. CASE UNCHANGED <<pages, dicts>>
  BY <1>1 DEF NamesInv
<1>2. ASSUME NEW fails \in BOOLEAN, Write(fails) PROVE NamesInv'
  BY <1>1, <1>2 DEF Write
<1>3. CASE ReplaceAcroForm(<< >>)
  BY <1>1, <1>3 DEF ReplaceAcroForm
<1>4. CASE UNCHANGED appVars
  BY <1>1, <1>4 DEF appVars
<1> QED
  BY <1>2, <1>3, <1>4, AddPagesNames, ReplacePageNames, RemovePageNames, MergePageWithNames, SignNames
     DEF AppNext, Edit

LEMMA NamesFollow ==
  ASSUME StateOK, NamesInv
  PROVE  NamesResolve
<1> SUFFICES ASSUME NEW i \in DOMAIN pages, NEW u \in {u \in pages[i].uses : u.sure}
             PROVE  LET d == pages[i].res[u.kind]
                    IN  d # Nil /\ u.name \in DOMAIN dicts[d] /\ dicts[d][u.name] = u.obj
  BY DEF NamesResolve
<1>1. i \in 1 .. Len(pages)
  BY KeysOf DEF IsSeq
<1>2. Means(u, pages[i], dicts)
  BY <1>1 DEF NamesInv, PagesUses, UsesOK
<1> QED
  BY <1>2 DEF Means

\* A name in the content of a page means what it meant in the page it comes
\* from, after any number of pages were merged, whatever the names: also
\* where names begin other names, and where dictionaries are shared and were
\* merged into before.  What the replacement of text in MergePageWith loses
\* is what IsSure says and no more (mergeResources, RenameOf, Renamed).
THEOREM NamesResolveHolds == AppSpec => []NamesResolve
<1>1. AppInit => StateOK /\ NamesInv
  BY StateInit, NamesInit
<1>2. AppIInv /\ NamesInv /\ [AppNext]_appVars => NamesInv'
  BY NamesStep DEF AppIInv
<1>3. AppIInv /\ NamesInv => NamesResolve
  BY NamesFollow DEF AppIInv
<1>4. AppSpec => []AppIInv
  BY AppIInvHolds
<1> QED
  BY <1>1, <1>2, <1>3, <1>4, PTL DEF AppSpec

\* All that is said of a revision: the pages it shows, with their boxes, that
\* it is closed, has what was changed and means the same by its names, after
\* any calls and any Writes that failed.
THEOREM RevisionSoundHolds == AppSpec => []RevisionSound
<1>1. AppSpec => []NamesResolve
  BY NamesResolveHolds
<1>2. AppTypeOK /\ PagesShown /\ RevisionClosed /\ ChangesWritten /\ BoxesKept /\ NamesResolve
        => RevisionSound
  BY DEF RevisionSound
<1> QED
  BY <1>1, <1>2, RevisionHolds, PTL

-----------------------------------------------------------------------------
(* Signatures: sequences.                                                   *)
LOCAL INSTANCE SequencesExt

\* What occurs in a sequence.
Cells(f) == {f[q] : q \in DOMAIN f}

LEMMA FunctionIsSeq ==
  ASSUME NEW n \in Nat, NEW f, f = [q \in 1 .. n |-> f[q]]
  PROVE  f \in Seq(Cells(f)) /\ Len(f) = n /\ DOMAIN f = 1 .. n
<1>1. DOMAIN f = 1 .. n
  OBVIOUS
<1>2. f \in [1 .. n -> Cells(f)]
  BY <1>1 DEF Cells
<1> HIDE DEF Cells
<1> QED
  BY <1>1, <1>2

LEMMA SeqInCells ==
  ASSUME NEW S, NEW f \in Seq(S)
  PROVE  f \in Seq(Cells(f)) /\ Len(f) \in Nat /\ DOMAIN f = 1 .. Len(f)
<1>1. f = [q \in 1 .. Len(f) |-> f[q]] /\ Len(f) \in Nat
  OBVIOUS
<1> QED
  BY <1>1, FunctionIsSeq

LEMMA Joined ==
  ASSUME NEW S, NEW f \in Seq(S), NEW T, NEW g \in Seq(T)
  PROVE  /\ f \o g \in Seq(S \cup T)
         /\ Len(f \o g) = Len(f) + Len(g)
         /\ \A q \in 1 .. Len(f) : (f \o g)[q] = f[q]
         /\ \A q \in 1 .. Len(g) : (f \o g)[Len(f) + q] = g[q]
<1>1. f \in Seq(S \cup T) /\ g \in Seq(S \cup T)
  OBVIOUS
<1> QED
  BY <1>1

LEMMA JoinedIn ==
  ASSUME NEW S, NEW f \in Seq(S), NEW g \in Seq(S)
  PROVE  /\ f \o g \in Seq(S)
         /\ Len(f \o g) = Len(f) + Len(g)
         /\ \A q \in 1 .. Len(f) : (f \o g)[q] = f[q]
         /\ \A q \in 1 .. Len(g) : (f \o g)[Len(f) + q] = g[q]
OBVIOUS

LEMMA PartOf ==
  ASSUME NEW S, NEW f \in Seq(S), NEW a \in Nat, NEW b \in Nat, a <= b, b <= Len(f)
  PROVE  /\ SubSeq(f, a + 1, b) \in Seq(S)
         /\ Len(SubSeq(f, a + 1, b)) = b - a
         /\ \A q \in 1 .. b - a : SubSeq(f, a + 1, b)[q] = f[a + q]
OBVIOUS

\* The same, for names that stand for the sequences.
IsJoined(S, w, f, g) ==
  /\ w \in Seq(S) /\ Len(w) = Len(f) + Len(g)
  /\ \A q \in 1 .. Len(f) : w[q] = f[q]
  /\ \A q \in 1 .. Len(g) : w[Len(f) + q] = g[q]
IsPart(S, u, f, a, b) ==
  /\ u \in Seq(S) /\ Len(u) = b - a
  /\ \A q \in 1 .. b - a : u[q] = f[a + q]

LEMMA JoinedIs ==
  ASSUME NEW S, NEW f \in Seq(S), NEW T, NEW g \in Seq(T)
  PROVE  IsJoined(S \cup T, f \o g, f, g)
BY Joined DEF IsJoined

LEMMA PartIs ==
  ASSUME NEW S, NEW f \in Seq(S), NEW a \in Nat, NEW b \in Nat, a <= b, b <= Len(f)
  PROVE  IsPart(S, SubSeq(f, a + 1, b), f, a, b)
BY PartOf DEF IsPart

LEMMA SameSeq ==
  ASSUME NEW S, NEW f \in Seq(S), NEW T, NEW g \in Seq(T), Len(f) = Len(g),
         \A q \in 1 .. Len(f) : f[q] = g[q]
  PROVE  f = g
OBVIOUS

LEMMA PartKept ==
  ASSUME NEW S, NEW f \in Seq(S), NEW T, NEW g \in Seq(T),
         NEW a \in Nat, NEW b \in Nat, a <= b, b <= Len(f)
  PROVE  SubSeq(f \o g, a + 1, b) = SubSeq(f, a + 1, b)
<1>1. f \o g \in Seq(S \cup T) /\ b <= Len(f \o g)
  BY Joined
<1>2. \A q \in 1 .. b - a : (f \o g)[a + q] = f[a + q]
  BY Joined
<1>3. /\ SubSeq(f \o g, a + 1, b) \in Seq(S \cup T) /\ Len(SubSeq(f \o g, a + 1, b)) = b - a
      /\ \A q \in 1 .. b - a : SubSeq(f \o g, a + 1, b)[q] = (f \o g)[a + q]
  BY <1>1, PartOf
<1>4. /\ SubSeq(f, a + 1, b) \in Seq(S) /\ Len(SubSeq(f, a + 1, b)) = b - a
      /\ \A q \in 1 .. b - a : SubSeq(f, a + 1, b)[q] = f[a + q]
  BY PartOf
<1> QED
  BY <1>2, <1>3, <1>4, SameSeq

(* FlattenSeq of one sequence, and of two.                                  *)
LEMMA FlattenOne ==
  ASSUME NEW a
  PROVE  FlattenSeq(<<a>>) = a
<1> DEFINE D(f) == f = [i \in 1 .. 1 |-> IF i = 1 THEN <<a>>[i] ELSE f[i - 1] \o <<a>>[i]]
           h == [i \in 1 .. 1 |-> a]
<1>1. FlattenSeq(<<a>>) = (CHOOSE f : D(f))[1]
  BY DEF FlattenSeq
<1>2. D(h)
  OBVIOUS
<1>3. D(CHOOSE f : D(f))
  <2> HIDE DEF D, h
  <2> QED
    BY <1>2
<1>4. ASSUME NEW f, D(f) PROVE f[1] = a
  BY <1>4
<1> HIDE DEF D
<1> QED
  BY <1>1, <1>3, <1>4

LEMMA FlattenTwo ==
  ASSUME NEW a, NEW b
  PROVE  FlattenSeq(<<a, b>>) = a \o b
<1> DEFINE D(f) == f = [i \in 1 .. 2 |-> IF i = 1 THEN <<a, b>>[i] ELSE f[i - 1] \o <<a, b>>[i]]
           h == [i \in 1 .. 2 |-> IF i = 1 THEN a ELSE a \o b]
<1>1. FlattenSeq(<<a, b>>) = (CHOOSE f : D(f))[2]
  BY DEF FlattenSeq
<1>2. D(h)
  <2>1. \A i \in 1 .. 2 : h[i] = IF i = 1 THEN <<a, b>>[i] ELSE h[i - 1] \o <<a, b>>[i]
    OBVIOUS
  <2> QED
    BY <2>1
<1>3. D(CHOOSE f : D(f))
  <2> HIDE DEF D, h
  <2> QED
    BY <1>2
<1>4. ASSUME NEW f, D(f) PROVE f[2] = a \o b
  <2>1. \A i \in 1 .. 2 : f[i] = IF i = 1 THEN <<a, b>>[i] ELSE f[i - 1] \o <<a, b>>[i]
    <3> DEFINE e(i) == IF i = 1 THEN <<a, b>>[i] ELSE f[i - 1] \o <<a, b>>[i]
    <3>1. f = [i \in 1 .. 2 |-> e(i)]
      BY <1>4
    <3> HIDE DEF e
    <3>2. \A i \in 1 .. 2 : f[i] = e(i)
      BY <3>1
    <3> QED
      BY <3>2 DEF e
  <2>2. <<a, b>>[1] = a /\ <<a, b>>[2] = b /\ 2 - 1 = 1 /\ 1 \in 1 .. 2 /\ 2 \in 1 .. 2
    OBVIOUS
  <2>3. f[1] = a
    BY <2>1, <2>2
  <2>4. f[2] = f[2 - 1] \o <<a, b>>[2]
    <3> DEFINE s == <<a, b>>
    <3>1. \A i \in 1 .. 2 : f[i] = IF i = 1 THEN s[i] ELSE f[i - 1] \o s[i]
      BY <2>1
    <3> HIDE DEF s
    <3>2. f[2] = IF 2 = 1 THEN s[2] ELSE f[2 - 1] \o s[2]
      BY <2>2, <3>1
    <3> QED
      BY <3>2 DEF s
  <2>5. f[2] = f[1] \o b
    BY <2>2, <2>4
  <2> QED
    BY <2>3, <2>5
<1> HIDE DEF D
<1> QED
  BY <1>1, <1>3, <1>4

-----------------------------------------------------------------------------
(* What is written.  The buffer after each object, as Mocks has it.         *)
Blanks == {<<"text">>, <<"blank">>}
BodyLen(k) == 3 + RangeWidth * (k + 1) + HoleWidth
Next1(list, f, i) == f[i - 1] \o Text(2) \o Body(list[i], Len(list)) \o Text(1)

LEMMA MocksUnfold ==
  ASSUME NEW list, Len(list) \in Nat
  PROVE  /\ Mocks(list)[0] = Text(1)
         /\ \A i \in 1 .. Len(list) : Mocks(list)[i] = Next1(list, Mocks(list), i)
<1> DEFINE N == Len(list)
           Rule(f, m) == [i \in 0 .. m |-> IF i = 0 THEN Text(1) ELSE Next1(list, f, i)]
           Exists(m) == \E f : f = Rule(f, m)
<1>1. Mocks(list) = CHOOSE f : f = Rule(f, N)
  BY DEF Mocks, Next1
<1>2. \A m \in 0 .. N : Exists(m)
  <2> DEFINE Bad == {m \in 0 .. N : ~Exists(m)}
  <2> SUFFICES ASSUME Bad # {} PROVE FALSE
    OBVIOUS
  <2>1. PICK m \in Bad : \A k \in Bad : m <= k
    <3> HIDE DEF Exists
    <3>1. Bad \in SUBSET Nat
      OBVIOUS
    <3> QED
      BY <3>1, LeastOf
  <2>2. m # 0
    <3> DEFINE f == [i \in 0 .. 0 |-> Text(1)]
    <3>1. f = Rule(f, 0)
      OBVIOUS
    <3> QED
      BY <3>1
  <2>3. m \in 1 .. N /\ m - 1 \in 0 .. N /\ m - 1 \notin Bad
    <3> HIDE DEF Exists
    <3> QED
      BY <2>1, <2>2
  <2>4. PICK f : f = Rule(f, m - 1)
    BY <2>3
  <2> DEFINE h == [i \in 0 .. m |-> IF i = m THEN Next1(list, f, m) ELSE f[i]]
  <2>5. \A i \in 0 .. m - 1 : h[i] = f[i]
    BY <2>3
  <2>6. \A i \in 0 .. m : h[i] = IF i = 0 THEN Text(1) ELSE Next1(list, h, i)
    <3> TAKE i \in 0 .. m
    <3>1. CASE i = m
      <4>1. h[i] = Next1(list, f, m) /\ h[m - 1] = f[m - 1]
        BY <2>3, <2>5, <3>1
      <4>2. Next1(list, f, m) = Next1(list, h, m)
        <5> HIDE DEF h
        <5> QED
          BY <4>1 DEF Next1
      <4> HIDE DEF h
      <4> QED
        BY <2>3, <3>1, <4>1, <4>2
    <3>2. CASE i # m
      <4>1. i \in 0 .. m - 1 /\ (i # 0 => i - 1 \in 0 .. m - 1)
        BY <2>3, <3>2
      <4>2. f[i] = IF i = 0 THEN Text(1) ELSE Next1(list, f, i)
        BY <2>4, <4>1
      <4>3. i # 0 => Next1(list, f, i) = Next1(list, h, i)
        BY <2>5, <4>1 DEF Next1
      <4> QED
        BY <2>5, <4>1, <4>2, <4>3
    <3> QED
      BY <3>1, <3>2
  <2>7. h = Rule(h, m)
    <3> HIDE DEF Exists
    <3> QED
      BY <2>6
  <2> QED
    BY <2>1, <2>7
<1>3. Mocks(list) = Rule(Mocks(list), N)
  <2> HIDE DEF Rule
  <2> QED
    BY <1>1, <1>2
<1> QED
  BY <1>3

(* Nothing but text and blanks, and as much of it as there must be.         *)
LEMMA TextIsSeq ==
  ASSUME NEW n \in Nat
  PROVE  /\ Text(n) \in Seq(Blanks) /\ Len(Text(n)) = n
         /\ Blank(n) \in Seq(Blanks) /\ Len(Blank(n)) = n
BY DEF Text, Blank, Blanks

LEMMA WidthPositive ==
  ASSUME NEW k \in Nat
  PROVE  RangeWidth * (k + 1) \in Nat /\ RangeWidth * (k + 1) > 0 /\ BodyLen(k) \in Nat
<1>1. RangeWidth \in Nat /\ RangeWidth > 0 /\ HoleWidth \in Nat
  BY SignaturesAssumptions
<1>2. RangeWidth * (k + 1) \in Nat /\ RangeWidth * (k + 1) > 0
  BY <1>1
<1> QED
  BY <1>1, <1>2 DEF BodyLen

LEMMA JoinedBlanks ==
  ASSUME NEW f \in Seq(Blanks), NEW g \in Seq(Blanks)
  PROVE  f \o g \in Seq(Blanks) /\ Len(f \o g) = Len(f) + Len(g)
OBVIOUS

LEMMA FiveJoined ==
  ASSUME NEW t \in Seq(Blanks), NEW a \in Seq(Blanks), NEW b \in Seq(Blanks)
  PROVE  /\ t \o a \o t \o b \o t \in Seq(Blanks)
         /\ Len(t \o a \o t \o b \o t) = Len(t) + Len(a) + Len(t) + Len(b) + Len(t)
<1>1. t \o a \in Seq(Blanks) /\ Len(t \o a) = Len(t) + Len(a)
  BY JoinedBlanks
<1>2. t \o a \o t \in Seq(Blanks) /\ Len(t \o a \o t) = Len(t) + Len(a) + Len(t)
  BY <1>1, JoinedBlanks
<1>3. /\ t \o a \o t \o b \in Seq(Blanks)
      /\ Len(t \o a \o t \o b) = Len(t) + Len(a) + Len(t) + Len(b)
  BY <1>2, JoinedBlanks
<1> QED
  BY <1>3, JoinedBlanks

LEMMA BodyIsSeq ==
  ASSUME NEW sig, NEW k \in Nat
  PROVE  Body(sig, k) \in Seq(Blanks) /\ Len(Body(sig, k)) = BodyLen(k)
<1> DEFINE w == RangeWidth * (k + 1)
           t == Text(1)
           range == Blank(w)
           hole == Blank(HoleWidth)
<1>1. w \in Nat /\ HoleWidth \in Nat
  BY WidthPositive, SignaturesAssumptions
<1> HIDE DEF w
<1>2. /\ t \in Seq(Blanks) /\ Len(t) = 1
      /\ range \in Seq(Blanks) /\ Len(range) = w
      /\ hole \in Seq(Blanks) /\ Len(hole) = HoleWidth
  BY <1>1, TextIsSeq
<1> HIDE DEF t, range, hole
<1>3. ASSUME NEW a \in Seq(Blanks), NEW b \in Seq(Blanks)
      PROVE  /\ t \o a \o t \o b \o t \in Seq(Blanks)
             /\ Len(t \o a \o t \o b \o t) = 3 + Len(a) + Len(b)
  <2>1. /\ t \o a \o t \o b \o t \in Seq(Blanks)
        /\ Len(t \o a \o t \o b \o t) = Len(t) + Len(a) + Len(t) + Len(b) + Len(t)
    BY <1>2, FiveJoined
  <2>2. Len(a) \in Nat /\ Len(b) \in Nat
    OBVIOUS
  <2> DEFINE n == Len(t \o a \o t \o b \o t)
             la == Len(a)
             lb == Len(b)
  <2>3. n = 1 + la + 1 + lb + 1 /\ la \in Nat /\ lb \in Nat
    BY <1>2, <2>1, <2>2
  <2> HIDE DEF n, la, lb
  <2>4. n = 3 + la + lb
    BY <2>3
  <2> QED
    BY <2>1, <2>4 DEF n, la, lb
<1>4. Body(sig, k) = t \o hole \o t \o range \o t \/ Body(sig, k) = t \o range \o t \o hole \o t
  BY DEF Body, t, range, hole, w
<1>5. BodyLen(k) = 3 + w + HoleWidth
  BY DEF BodyLen, w
<1>6. /\ t \o hole \o t \o range \o t \in Seq(Blanks)
      /\ Len(t \o hole \o t \o range \o t) = 3 + HoleWidth + w
  BY <1>2, <1>3
<1>7. /\ t \o range \o t \o hole \o t \in Seq(Blanks)
      /\ Len(t \o range \o t \o hole \o t) = 3 + w + HoleWidth
  BY <1>2, <1>3
<1>8. 3 + HoleWidth + w = 3 + w + HoleWidth
  BY <1>1
<1> QED
  BY <1>4, <1>5, <1>6, <1>7, <1>8

LEMMA MocksGrow ==
  ASSUME NEW list, Len(list) \in Nat
  PROVE  /\ \A i \in 0 .. Len(list) : Mocks(list)[i] \in Seq(Blanks)
         /\ Len(Mocks(list)[0]) = 1
         /\ \A i \in 1 .. Len(list) :
              Len(Mocks(list)[i]) = Len(Mocks(list)[i - 1]) + BodyLen(Len(list)) + 3
<1> DEFINE k == Len(list)
           M == Mocks(list)
<1>1. M[0] \in Seq(Blanks) /\ Len(M[0]) = 1
  BY MocksUnfold, TextIsSeq
<1>2. ASSUME NEW i \in 1 .. k, M[i - 1] \in Seq(Blanks)
      PROVE  M[i] \in Seq(Blanks) /\ Len(M[i]) = Len(M[i - 1]) + BodyLen(k) + 3
  <2> DEFINE t2 == Text(2)
             t1 == Text(1)
             b == Body(list[i], k)
             a == M[i - 1]
  <2>1. M[i] = a \o t2 \o b \o t1
    BY MocksUnfold DEF Next1
  <2>2. /\ t2 \in Seq(Blanks) /\ Len(t2) = 2 /\ t1 \in Seq(Blanks) /\ Len(t1) = 1
        /\ b \in Seq(Blanks) /\ Len(b) = BodyLen(k) /\ BodyLen(k) \in Nat
        /\ a \in Seq(Blanks)
    BY <1>2, TextIsSeq, BodyIsSeq, WidthPositive
  <2> HIDE DEF t2, t1, b, a, M
  <2>3. a \o t2 \o b \o t1 \in Seq(Blanks) /\ Len(a \o t2 \o b \o t1) = Len(a) + 2 + BodyLen(k) + 1
    <3>1. a \o t2 \in Seq(Blanks) /\ Len(a \o t2) = Len(a) + 2
      BY <2>2, JoinedBlanks
    <3>2. a \o t2 \o b \in Seq(Blanks) /\ Len(a \o t2 \o b) = Len(a) + 2 + BodyLen(k)
      BY <2>2, <3>1, JoinedBlanks
    <3> QED
      BY <2>2, <3>2, JoinedBlanks
  <2>4. Len(a) \in Nat /\ Len(a) = Len(M[i - 1])
    BY <2>2 DEF a
  <2>5. M[i] \in Seq(Blanks) /\ Len(M[i]) = Len(M[i - 1]) + 2 + BodyLen(k) + 1
    BY <2>1, <2>3, <2>4
  <2> DEFINE m == Len(M[i])
             l == Len(M[i - 1])
  <2>6. m = l + 2 + BodyLen(k) + 1 /\ l \in Nat
    BY <2>4, <2>5
  <2> HIDE DEF m, l
  <2>7. m = l + BodyLen(k) + 3
    BY <2>2, <2>6
  <2> QED
    BY <2>5, <2>7 DEF m, l
<1>3. \A i \in 0 .. k : M[i] \in Seq(Blanks)
  <2> DEFINE Bad == {i \in 0 .. k : M[i] \notin Seq(Blanks)}
  <2> SUFFICES ASSUME Bad # {} PROVE FALSE
    OBVIOUS
  <2> HIDE DEF M
  <2>1. PICK m \in Bad : \A j \in Bad : m <= j
    <3>1. Bad \in SUBSET Nat
      OBVIOUS
    <3> QED
      BY <3>1, LeastOf
  <2>2. m \in 1 .. k /\ M[m - 1] \in Seq(Blanks)
    <3>1. m # 0
      BY <1>1, <2>1
    <3>2. m - 1 \in 0 .. k /\ m - 1 \notin Bad
      BY <2>1, <3>1
    <3> QED
      BY <2>1, <3>1, <3>2
  <2> QED
    BY <1>2, <2>1, <2>2
<1>4. \A i \in 1 .. k : i - 1 \in 0 .. k
  OBVIOUS
<1> QED
  BY <1>1, <1>2, <1>3, <1>4

(* Dictionaries lie apart.                                                  *)
LEMMA MocksApart ==
  ASSUME NEW list, Len(list) \in Nat
  PROVE  /\ \A i \in 0 .. Len(list) : Len(Mocks(list)[i]) \in Nat \ {0}
         /\ \A i \in 1 .. Len(list), j \in 0 .. Len(list) :
              i <= j => Len(Mocks(list)[i - 1]) + BodyLen(Len(list)) + 3 <= Len(Mocks(list)[j])
<1> DEFINE k == Len(list)
           L(i) == Len(Mocks(list)[i])
           b == BodyLen(k)
<1>1. b \in Nat /\ L(0) = 1 /\ \A i \in 0 .. k : L(i) \in Nat
  <2>1. \A i \in 0 .. k : Mocks(list)[i] \in Seq(Blanks)
    BY MocksGrow
  <2>2. \A i \in 0 .. k : L(i) \in Nat
    BY <2>1
  <2> QED
    BY <2>2, MocksGrow, WidthPositive
<1>2. \A i \in 1 .. k : L(i) = L(i - 1) + b + 3
  BY MocksGrow
<1> HIDE DEF L, b
<1>3. ASSUME NEW i \in 0 .. k, NEW j \in i .. k
      PROVE  L(i) <= L(j)
  <2> DEFINE Bad == {m \in i .. k : L(i) > L(m)}
  <2> SUFFICES ASSUME Bad # {} PROVE FALSE
    BY <1>1
  <2>1. PICK m \in Bad : \A n \in Bad : m <= n
    <3>1. Bad \in SUBSET Nat
      OBVIOUS
    <3> QED
      BY <3>1, LeastOf
  <2>2. m # i
    BY <1>1, <2>1
  <2>3. m - 1 \in i .. k /\ m - 1 \notin Bad /\ m \in 1 .. k /\ m - 1 \in 0 .. k
    BY <2>1, <2>2
  <2>4. L(i) <= L(m - 1) /\ L(m) = L(m - 1) + b + 3 /\ L(i) > L(m)
    <3>1. ~(L(i) > L(m - 1))
      BY <2>3
    <3>2. L(i) \in Nat /\ L(m - 1) \in Nat
      BY <1>1, <2>3
    <3>3. L(m) = L(m - 1) + b + 3
      BY <1>2, <2>3
    <3>4. L(i) > L(m)
      BY <2>1
    <3> QED
      BY <3>1, <3>2, <3>3, <3>4
  <2>5. L(i) \in Nat /\ L(m - 1) \in Nat /\ b \in Nat
    BY <1>1, <2>3
  <2> QED
    BY <2>4, <2>5
<1>4. \A i \in 0 .. k : L(i) \in Nat \ {0}
  <2> TAKE i \in 0 .. k
  <2>1. L(0) <= L(i)
    BY <1>3
  <2> QED
    BY <1>1, <2>1
<1>5. ASSUME NEW i \in 1 .. k, NEW j \in 0 .. k, i <= j
      PROVE  L(i - 1) + b + 3 <= L(j)
  <2>1. L(i) <= L(j)
    BY <1>3, <1>5
  <2> QED
    BY <1>2, <2>1
<1> QED
  BY <1>4, <1>5 DEF L, b

-----------------------------------------------------------------------------
(* Where Contents and ByteRange are in the buffer.                          *)
Width(list) == RangeWidth * (Len(list) + 1)
Hole(list, i) == Len(Mocks(list)[i - 1]) + 2 + ContentsStart(list[i], Len(list))
RangeAt(list, i) == Len(Mocks(list)[i - 1]) + 2 + RangeStart(list[i], Len(list))
Size(list) == Len(Mock(list))

LEMMA InBody ==
  ASSUME NEW sig, NEW k \in Nat
  PROVE  LET w == RangeWidth * (k + 1)
         IN  /\ w \in Nat \ {0} /\ HoleWidth \in Nat \ {0} /\ BodyLen(k) \in Nat
             /\ ContentsStart(sig, k) \in Nat \ {0} /\ RangeStart(sig, k) \in Nat \ {0}
             /\ ContentsEnd(sig, k) = ContentsStart(sig, k) + HoleWidth
             /\ RangeEnd(sig, k) = RangeStart(sig, k) + w
             /\ ContentsStart(sig, k) + HoleWidth < BodyLen(k)
             /\ RangeStart(sig, k) + w < BodyLen(k)
             /\ \/ ContentsStart(sig, k) + HoleWidth <= RangeStart(sig, k)
                \/ RangeStart(sig, k) + w <= ContentsStart(sig, k)
<1> DEFINE w == RangeWidth * (k + 1)
<1>1. w \in Nat \ {0} /\ HoleWidth \in Nat \ {0} /\ BodyLen(k) = 3 + w + HoleWidth
  BY WidthPositive, SignaturesAssumptions DEF BodyLen
<1>2. /\ ContentsStart(sig, k) = IF sig.first = "Contents" THEN 1 ELSE 2 + w
      /\ RangeStart(sig, k) = IF sig.first = "Contents" THEN 2 + HoleWidth ELSE 1
      /\ ContentsEnd(sig, k) = ContentsStart(sig, k) + HoleWidth
      /\ RangeEnd(sig, k) = RangeStart(sig, k) + w
  BY DEF ContentsStart, RangeStart, ContentsEnd, RangeEnd
<1> HIDE DEF w
<1>3. /\ ContentsStart(sig, k) \in Nat \ {0} /\ RangeStart(sig, k) \in Nat \ {0}
      /\ ContentsStart(sig, k) + HoleWidth < BodyLen(k)
      /\ RangeStart(sig, k) + w < BodyLen(k)
      /\ \/ ContentsStart(sig, k) + HoleWidth <= RangeStart(sig, k)
         \/ RangeStart(sig, k) + w <= ContentsStart(sig, k)
  <2>1. CASE sig.first = "Contents"
    BY <1>1, <1>2, <2>1
  <2>2. CASE sig.first # "Contents"
    BY <1>1, <1>2, <2>2
  <2> QED
    BY <2>1, <2>2
<1> QED
  BY <1>1, <1>2, <1>3 DEF w

\* The arithmetic of Layout: places c in a dictionary at l and d in one at m.
LEMMA PlaceBounds ==
  ASSUME NEW l \in Nat, NEW m \in Nat, NEW b \in Nat, l + b + 3 <= m,
         NEW c \in Nat \ {0}, NEW v \in Nat, c + v < b, NEW d \in Nat
  PROVE  /\ l + 2 + c \in Nat \ {0} /\ l + 2 + c + v < m
         /\ l + 2 + c + v < m + 2 + d
OBVIOUS

LEMMA PlaceOrder ==
  ASSUME NEW l \in Nat, NEW c \in Nat, NEW v \in Nat, NEW d \in Nat, c + v <= d
  PROVE  l + 2 + c + v <= l + 2 + d
OBVIOUS

LEMMA Layout ==
  ASSUME NEW list, Len(list) \in Nat
  PROVE  /\ Mock(list) \in Seq(Blanks) /\ Size(list) \in Nat
         /\ Width(list) \in Nat \ {0} /\ HoleWidth \in Nat \ {0}
         /\ \A i \in 1 .. Len(list) :
              /\ Hole(list, i) \in Nat \ {0} /\ Hole(list, i) + HoleWidth < Size(list)
              /\ RangeAt(list, i) \in Nat \ {0} /\ RangeAt(list, i) + Width(list) < Size(list)
              /\ \/ Hole(list, i) + HoleWidth <= RangeAt(list, i)
                 \/ RangeAt(list, i) + Width(list) <= Hole(list, i)
         /\ \A i, j \in 1 .. Len(list) : i < j =>
              /\ Hole(list, i) + HoleWidth < Hole(list, j)
              /\ Hole(list, i) + HoleWidth < RangeAt(list, j)
              /\ RangeAt(list, i) + Width(list) < Hole(list, j)
              /\ RangeAt(list, i) + Width(list) < RangeAt(list, j)
<1> DEFINE k == Len(list)
           L(i) == Len(Mocks(list)[i])
           b == BodyLen(k)
           w == Width(list)
           cs(i) == ContentsStart(list[i], k)
           rs(i) == RangeStart(list[i], k)
<1>1. Mock(list) \in Seq(Blanks) /\ Size(list) = L(k) /\ k \in 0 .. k
  BY MocksGrow DEF Mock, Size
<1>2. \A i \in 0 .. k : L(i) \in Nat \ {0}
  BY MocksApart
<1>3. \A i \in 1 .. k, j \in 0 .. k : i <= j => L(i - 1) + b + 3 <= L(j)
  BY MocksApart
<1>4. w \in Nat \ {0} /\ HoleWidth \in Nat \ {0} /\ b \in Nat
  BY InBody DEF Width
<1>5. \A i \in 1 .. k :
        /\ cs(i) \in Nat \ {0} /\ rs(i) \in Nat \ {0}
        /\ cs(i) + HoleWidth < b /\ rs(i) + w < b
        /\ cs(i) + HoleWidth <= rs(i) \/ rs(i) + w <= cs(i)
  BY InBody DEF Width
<1>6. \A i \in 1 .. k : Hole(list, i) = L(i - 1) + 2 + cs(i) /\ RangeAt(list, i) = L(i - 1) + 2 + rs(i)
  BY DEF Hole, RangeAt
<1> HIDE DEF L, b, w, cs, rs, k
<1>7. ASSUME NEW i \in 1 .. k
      PROVE  /\ Hole(list, i) \in Nat \ {0} /\ Hole(list, i) + HoleWidth < Size(list)
             /\ RangeAt(list, i) \in Nat \ {0} /\ RangeAt(list, i) + w < Size(list)
             /\ \/ Hole(list, i) + HoleWidth <= RangeAt(list, i)
                \/ RangeAt(list, i) + w <= Hole(list, i)
  <2>1. k \in Nat
    BY DEF k
  <2>2. L(i - 1) + b + 3 <= L(k) /\ L(i - 1) \in Nat /\ L(k) \in Nat
    BY <1>2, <1>3, <2>1
  <2>3. Hole(list, i) = L(i - 1) + 2 + cs(i) /\ RangeAt(list, i) = L(i - 1) + 2 + rs(i)
    BY <1>6
  <2>4. /\ cs(i) \in Nat \ {0} /\ rs(i) \in Nat \ {0}
        /\ cs(i) + HoleWidth < b /\ rs(i) + w < b
        /\ cs(i) + HoleWidth <= rs(i) \/ rs(i) + w <= cs(i)
    BY <1>5
  <2>5. /\ L(i - 1) + 2 + cs(i) \in Nat \ {0} /\ L(i - 1) + 2 + cs(i) + HoleWidth < L(k)
        /\ L(i - 1) + 2 + rs(i) \in Nat \ {0} /\ L(i - 1) + 2 + rs(i) + w < L(k)
    BY <1>4, <2>2, <2>4, PlaceBounds
  <2>6. \/ L(i - 1) + 2 + cs(i) + HoleWidth <= L(i - 1) + 2 + rs(i)
        \/ L(i - 1) + 2 + rs(i) + w <= L(i - 1) + 2 + cs(i)
    BY <1>4, <2>2, <2>4, PlaceOrder
  <2> QED
    BY <1>1, <2>3, <2>5, <2>6
<1>8. ASSUME NEW i \in 1 .. k, NEW j \in 1 .. k, i < j
      PROVE  /\ Hole(list, i) + HoleWidth < Hole(list, j)
             /\ Hole(list, i) + HoleWidth < RangeAt(list, j)
             /\ RangeAt(list, i) + w < Hole(list, j)
             /\ RangeAt(list, i) + w < RangeAt(list, j)
  <2>1. j - 1 \in 0 .. k /\ i - 1 \in 0 .. k /\ i <= j - 1
    BY <1>8 DEF k
  <2>2. L(i - 1) + b + 3 <= L(j - 1) /\ L(i - 1) \in Nat /\ L(j - 1) \in Nat
    BY <1>2, <1>3, <2>1
  <2>3. /\ Hole(list, i) = L(i - 1) + 2 + cs(i) /\ RangeAt(list, i) = L(i - 1) + 2 + rs(i)
        /\ Hole(list, j) = L(j - 1) + 2 + cs(j) /\ RangeAt(list, j) = L(j - 1) + 2 + rs(j)
    BY <1>6
  <2>4. /\ cs(i) \in Nat \ {0} /\ rs(i) \in Nat \ {0} /\ cs(i) + HoleWidth < b /\ rs(i) + w < b
        /\ cs(j) \in Nat /\ rs(j) \in Nat
    BY <1>5
  <2>5. /\ L(i - 1) + 2 + cs(i) + HoleWidth < L(j - 1) + 2 + cs(j)
        /\ L(i - 1) + 2 + cs(i) + HoleWidth < L(j - 1) + 2 + rs(j)
        /\ L(i - 1) + 2 + rs(i) + w < L(j - 1) + 2 + cs(j)
        /\ L(i - 1) + 2 + rs(i) + w < L(j - 1) + 2 + rs(j)
    BY <1>4, <2>2, <2>4, PlaceBounds
  <2> QED
    BY <2>3, <2>5
<1>9. Size(list) \in Nat
  BY <1>1, <1>2 DEF k
<1> QED
  BY <1>1, <1>4, <1>7, <1>8, <1>9 DEF k, w

LEMMA OffsetsAre ==
  ASSUME NEW list, Len(list) \in Nat, NEW o \in Nat, NEW i \in 1 .. Len(list)
  PROVE  /\ FileOffset(o, list, i) + ContentsStart(list[i], Len(list)) = o + Hole(list, i)
         /\ FileOffset(o, list, i) + ContentsEnd(list[i], Len(list)) = o + Hole(list, i) + HoleWidth
         /\ FileOffset(o, list, i) - o + ContentsStart(list[i], Len(list)) = Hole(list, i)
         /\ FileOffset(o, list, i) - o + ContentsEnd(list[i], Len(list)) = Hole(list, i) + HoleWidth
         /\ FileOffset(o, list, i) - o + RangeStart(list[i], Len(list)) = RangeAt(list, i)
         /\ FileOffset(o, list, i) - o + RangeEnd(list[i], Len(list)) = RangeAt(list, i) + Width(list)
<1> DEFINE k == Len(list)
           l == Len(Mocks(list)[i - 1])
           cs == ContentsStart(list[i], k)
           rs == RangeStart(list[i], k)
           w == Width(list)
<1>1. l \in Nat
  BY MocksApart
<1>2. /\ w \in Nat /\ HoleWidth \in Nat /\ cs \in Nat /\ rs \in Nat
      /\ ContentsEnd(list[i], k) = cs + HoleWidth /\ RangeEnd(list[i], k) = rs + w
  BY InBody DEF Width
<1>3. /\ FileOffset(o, list, i) = o + l + 2
      /\ Hole(list, i) = l + 2 + cs /\ RangeAt(list, i) = l + 2 + rs
  BY DEF FileOffset, Hole, RangeAt
<1> HIDE DEF l, cs, rs, w, k
<1>4. /\ FileOffset(o, list, i) + cs = o + Hole(list, i)
      /\ FileOffset(o, list, i) + (cs + HoleWidth) = o + Hole(list, i) + HoleWidth
      /\ FileOffset(o, list, i) - o + cs = Hole(list, i)
      /\ FileOffset(o, list, i) - o + (cs + HoleWidth) = Hole(list, i) + HoleWidth
      /\ FileOffset(o, list, i) - o + rs = RangeAt(list, i)
      /\ FileOffset(o, list, i) - o + (rs + w) = RangeAt(list, i) + w
  BY <1>1, <1>2, <1>3
<1> QED
  BY <1>2, <1>4 DEF cs, rs, w, k

-----------------------------------------------------------------------------
(* What is patched.                                                         *)
\* Parts of a buffer, one behind the other.
Parts(parts, n) ==
  /\ DOMAIN parts = 1 .. n
  /\ \A i \in 1 .. n : parts[i].from \in Nat /\ parts[i].to \in Nat /\ parts[i].from < parts[i].to
  /\ \A i, j \in 1 .. n : i < j => parts[i].to <= parts[j].from

\* p is what is patched: as the buffer was but in the parts, with a cell in each.
IsPatched(p, buffer, parts, n) ==
  /\ p \in Seq(Cells(p)) /\ Len(p) = Len(buffer) /\ Len(buffer) \in Nat
  /\ \A q \in 1 .. Len(buffer) :
       (\A i \in 1 .. n : ~(parts[i].from < q /\ q <= parts[i].to)) => p[q] = buffer[q]
  /\ \A i \in 1 .. n : parts[i].from + 1 <= Len(buffer) => p[parts[i].from + 1] = parts[i].cell

LEMMA Patched ==
  ASSUME NEW S, NEW buffer \in Seq(S), NEW n \in Nat, NEW parts, Parts(parts, n)
  PROVE  IsPatched(Patch(buffer, parts), buffer, parts, n)
<1> USE DEF Parts
<1> DEFINE at(q) == {i \in DOMAIN parts : parts[i].from < q /\ q <= parts[i].to}
           cell(q) == IF at(q) = {} THEN buffer[q]
                      ELSE LET part == parts[CHOOSE i \in at(q) : TRUE]
                           IN  IF q = part.from + 1 THEN part.cell ELSE <<"blank">>
           p == Patch(buffer, parts)
           size == Len(buffer)
<1>1. DOMAIN buffer = 1 .. size /\ size \in Nat
  OBVIOUS
<1>2. p = [q \in 1 .. size |-> cell(q)]
  BY <1>1 DEF Patch
<1> HIDE DEF cell, p, size
<1>3. p \in Seq(Cells(p)) /\ Len(p) = size
  <2>1. p = [q \in 1 .. size |-> p[q]]
    BY <1>2
  <2> QED
    BY <1>1, <2>1, FunctionIsSeq
<1>4. ASSUME NEW q \in 1 .. size, \A i \in 1 .. n : ~(parts[i].from < q /\ q <= parts[i].to)
      PROVE  p[q] = buffer[q]
  <2>1. at(q) = {}
    BY <1>4
  <2> QED
    BY <1>2, <2>1 DEF cell
<1>5. ASSUME NEW i \in 1 .. n, parts[i].from + 1 <= size
      PROVE  p[parts[i].from + 1] = parts[i].cell
  <2> DEFINE q == parts[i].from + 1
  <2>1. q \in 1 .. size /\ q \in Nat
    BY <1>1, <1>5
  <2>2. i \in at(q)
    BY <2>1
  <2>3. ASSUME NEW j \in at(q) PROVE j = i
    <3>1. /\ j \in 1 .. n /\ parts[j].from \in Nat /\ parts[j].to \in Nat
          /\ parts[j].from < q /\ q <= parts[j].to
      BY <2>3
    <3>2. /\ parts[i].from \in Nat /\ parts[i].to \in Nat /\ q <= parts[i].to
          /\ parts[i].from < q
      BY <2>2
    <3>3. ~(i < j)
      <4>1. ~(parts[i].to <= parts[j].from)
        BY <2>1, <3>1, <3>2
      <4> QED
        BY <3>1, <4>1
    <3>4. ~(j < i)
      <4>1. ~(parts[j].to <= parts[i].from)
        BY <2>1, <3>1, <3>2
      <4> QED
        BY <3>1, <4>1
    <3> QED
      BY <3>1, <3>3, <3>4
  <2>4. (CHOOSE j \in at(q) : TRUE) = i /\ at(q) # {}
    <3> HIDE DEF at
    <3> QED
      BY <2>2, <2>3
  <2>5. cell(q) = parts[i].cell
    BY <2>4 DEF cell
  <2> HIDE DEF q
  <2>6. p[q] = parts[i].cell
    BY <1>2, <2>1, <2>5
  <2> QED
    BY <2>6 DEF q
<1> QED
  BY <1>1, <1>3, <1>4, <1>5 DEF p, size, IsPatched

(* After the ranges were patched in.                                        *)
LEMMA RangesIn ==
  ASSUME NEW list, Len(list) \in Nat \ {0}, DOMAIN list = 1 .. Len(list), NEW o \in Nat, NEW ranges
  PROVE  LET r == RangesPatched(Mock(list), o, list, ranges)
         IN  /\ r \in Seq(Cells(r)) /\ Len(r) = Size(list)
             /\ r[RangeAt(list, 1) + 1] = <<"range", ranges>>
<1> DEFINE k == Len(list)
           w == Width(list)
           parts == [i \in 1 .. k |-> [from |-> RangeAt(list, i), to |-> RangeAt(list, i) + w,
                                       cell |-> <<"range", ranges>>]]
           parts0 == [i \in DOMAIN list |->
             [from |-> FileOffset(o, list, i) - o + RangeStart(list[i], Len(list)),
              to |-> FileOffset(o, list, i) - o + RangeEnd(list[i], Len(list)),
              cell |-> <<"range", ranges>>]]
<1>1. parts0 = parts
  BY OffsetsAre
<1>2. RangesPatched(Mock(list), o, list, ranges) = Patch(Mock(list), parts)
  BY <1>1 DEF RangesPatched
<1>3. /\ DOMAIN parts = 1 .. k
      /\ \A i \in 1 .. k : /\ parts[i].from = RangeAt(list, i)
                           /\ parts[i].to = RangeAt(list, i) + w
                           /\ parts[i].cell = <<"range", ranges>>
  OBVIOUS
<1> HIDE DEF parts, parts0, w
<1>4. \A i \in 1 .. k : RangeAt(list, i) \in Nat /\ RangeAt(list, i) + w < Size(list)
  BY Layout DEF w
<1>5. w \in Nat \ {0} /\ Size(list) \in Nat /\ Mock(list) \in Seq(Blanks)
  BY Layout DEF w
<1>6. \A i, j \in 1 .. k : i < j => RangeAt(list, i) + w < RangeAt(list, j)
  BY Layout DEF w
<1>7. \A i \in 1 .. k : parts[i].from \in Nat /\ parts[i].to \in Nat /\ parts[i].from < parts[i].to
  BY <1>3, <1>4, <1>5
<1>8. \A i, j \in 1 .. k : i < j => parts[i].to <= parts[j].from
  <2> TAKE i \in 1 .. k, j \in 1 .. k
  <2> HAVE i < j
  <2>1. RangeAt(list, i) + w < RangeAt(list, j) /\ RangeAt(list, j) \in Nat /\ RangeAt(list, i) \in Nat
    BY <1>4, <1>6
  <2> QED
    BY <1>3, <1>5, <2>1
<1>9. 1 \in 1 .. k /\ k \in Nat
  OBVIOUS
<1>9a. Parts(parts, k)
  BY <1>3, <1>7, <1>8 DEF Parts
<1> HIDE DEF k
<1> DEFINE p == Patch(Mock(list), parts)
<1>10. /\ p \in Seq(Cells(p)) /\ Len(p) = Len(Mock(list))
       /\ \A i \in 1 .. k :
            parts[i].from + 1 <= Len(Mock(list)) => p[parts[i].from + 1] = parts[i].cell
  <2>1. IsPatched(p, Mock(list), parts, k)
    BY <1>5, <1>9, <1>9a, Patched
  <2> QED
    BY <2>1 DEF IsPatched
<1> HIDE DEF p
<1>11. parts[1].from + 1 <= Len(Mock(list))
  <2>1. RangeAt(list, 1) \in Nat /\ RangeAt(list, 1) + w < Size(list)
    BY <1>4, <1>9
  <2>2. RangeAt(list, 1) + 1 <= Size(list)
    BY <1>5, <2>1
  <2> QED
    BY <1>3, <1>9, <2>2 DEF Size
<1>12. p[RangeAt(list, 1) + 1] = <<"range", ranges>>
  BY <1>3, <1>9, <1>10, <1>11
<1> QED
  BY <1>2, <1>10, <1>12 DEF p, Size

(* After Contents were, for any ranges.                                     *)
HasContents(b, r, list) ==
  /\ b \in Seq(Cells(b)) /\ Len(b) = Size(list)
  /\ \A q \in 1 .. Size(list) :
       (\A i \in 1 .. Len(list) : ~(Hole(list, i) < q /\ q <= Hole(list, i) + HoleWidth))
         => b[q] = r[q]
  /\ \A i \in 1 .. Len(list) :
       b[Hole(list, i) + 1] = <<"digest", Digest(r, list, list[i].handler)>>

LEMMA ContentsIn ==
  ASSUME NEW list, Len(list) \in Nat \ {0}, DOMAIN list = 1 .. Len(list), NEW o \in Nat,
         NEW S, NEW r \in Seq(S), Len(r) = Size(list)
  PROVE  HasContents(ContentsPatched(r, o, list), r, list)
<1> DEFINE k == Len(list)
           h == HoleWidth
           cell(i) == <<"digest", Digest(r, list, list[i].handler)>>
           parts == [i \in 1 .. k |-> [from |-> Hole(list, i), to |-> Hole(list, i) + h, cell |-> cell(i)]]
           parts0 == [i \in DOMAIN list |->
             [from |-> FileOffset(o, list, i) - o + ContentsStart(list[i], Len(list)),
              to |-> FileOffset(o, list, i) - o + ContentsEnd(list[i], Len(list)),
              cell |-> cell(i)]]
<1>0. ContentsPatched(r, o, list) = Patch(r, parts0)
  BY DEF ContentsPatched
<1> HIDE DEF cell
<1>1. parts0 = parts
  BY OffsetsAre
<1>2. ContentsPatched(r, o, list) = Patch(r, parts)
  BY <1>0, <1>1
<1>3. /\ DOMAIN parts = 1 .. k
      /\ \A i \in 1 .. k : /\ parts[i].from = Hole(list, i) /\ parts[i].to = Hole(list, i) + h
                           /\ parts[i].cell = cell(i)
  OBVIOUS
<1> HIDE DEF parts, parts0, h
<1>4. \A i \in 1 .. k : Hole(list, i) \in Nat /\ Hole(list, i) + h < Size(list)
  BY Layout DEF h
<1>5. h \in Nat \ {0} /\ Size(list) \in Nat
  BY Layout DEF h
<1>6. \A i, j \in 1 .. k : i < j => Hole(list, i) + h < Hole(list, j)
  BY Layout DEF h
<1>7. \A i \in 1 .. k : parts[i].from \in Nat /\ parts[i].to \in Nat /\ parts[i].from < parts[i].to
  BY <1>3, <1>4, <1>5
<1>8. \A i, j \in 1 .. k : i < j => parts[i].to <= parts[j].from
  <2> TAKE i \in 1 .. k, j \in 1 .. k
  <2> HAVE i < j
  <2>1. Hole(list, i) + h < Hole(list, j) /\ Hole(list, j) \in Nat /\ Hole(list, i) \in Nat
    BY <1>4, <1>6
  <2> QED
    BY <1>3, <1>5, <2>1
<1>9. k \in Nat /\ Parts(parts, k)
  BY <1>3, <1>7, <1>8 DEF Parts
<1> HIDE DEF k
<1> DEFINE b == Patch(r, parts)
<1>10. /\ b \in Seq(Cells(b)) /\ Len(b) = Len(r)
       /\ \A q \in 1 .. Len(r) :
            (\A i \in 1 .. k : ~(parts[i].from < q /\ q <= parts[i].to)) => b[q] = r[q]
       /\ \A i \in 1 .. k : parts[i].from + 1 <= Len(r) => b[parts[i].from + 1] = parts[i].cell
  <2>1. IsPatched(b, r, parts, k)
    BY <1>9, Patched
  <2> QED
    BY <2>1 DEF IsPatched
<1> HIDE DEF b
<1>11. ASSUME NEW q \in 1 .. Size(list),
              \A i \in 1 .. k : ~(Hole(list, i) < q /\ q <= Hole(list, i) + h)
       PROVE  b[q] = r[q]
  <2>1. \A i \in 1 .. k : ~(parts[i].from < q /\ q <= parts[i].to)
    BY <1>3, <1>11
  <2> QED
    BY <1>10, <2>1
<1>12. ASSUME NEW i \in 1 .. k PROVE b[Hole(list, i) + 1] = cell(i)
  <2>1. Hole(list, i) \in Nat /\ Hole(list, i) + h < Size(list)
    BY <1>4
  <2>2. parts[i].from + 1 <= Len(r)
    BY <1>3, <1>5, <2>1
  <2> QED
    BY <1>3, <1>10, <2>2
<1> QED
  BY <1>2, <1>10, <1>11, <1>12 DEF b, k, h, cell, HasContents

-----------------------------------------------------------------------------
(* The ranges of a revision of a file of o cells: range j goes from the     *)
(* hole before it to the hole behind it.                                    *)
From(o, list, j) == IF j = 1 THEN 0 ELSE o + Hole(list, j - 1) + HoleWidth
Upto(o, list, j) == IF j = Len(list) + 1 THEN o + Size(list) ELSE o + Hole(list, j)

LEMMA FromTo ==
  ASSUME NEW list, Len(list) \in Nat \ {0}, NEW o \in Nat, NEW j \in 1 .. Len(list) + 1
  PROVE  /\ From(o, list, j) \in Nat /\ Upto(o, list, j) \in Nat
         /\ From(o, list, j) <= Upto(o, list, j) /\ Upto(o, list, j) <= o + Size(list)
<1> DEFINE k == Len(list)
<1>1. /\ HoleWidth \in Nat /\ Size(list) \in Nat
      /\ \A i \in 1 .. k : Hole(list, i) \in Nat /\ Hole(list, i) + HoleWidth < Size(list)
      /\ \A i, n \in 1 .. k : i < n => Hole(list, i) + HoleWidth < Hole(list, n)
  BY Layout
<1>2. j # 1 => j - 1 \in 1 .. k
  OBVIOUS
<1>3. j # k + 1 => j \in 1 .. k
  OBVIOUS
<1>4. k \in Nat /\ j \in Nat
  OBVIOUS
<1> HIDE DEF k
<1>5. From(o, list, j) \in Nat
  BY <1>1, <1>2 DEF From
<1>6. Upto(o, list, j) \in Nat /\ Upto(o, list, j) <= o + Size(list)
  <2>1. CASE j = k + 1
    BY <1>1, <2>1 DEF Upto, k
  <2>2. CASE j # k + 1
    <3>1. Hole(list, j) \in Nat /\ Hole(list, j) + HoleWidth < Size(list)
      BY <1>1, <1>3, <2>2
    <3>2. Upto(o, list, j) = o + Hole(list, j)
      BY <2>2 DEF Upto, k
    <3> QED
      BY <1>1, <3>1, <3>2
  <2> QED
    BY <2>1, <2>2
<1>7. From(o, list, j) <= Upto(o, list, j)
  <2>1. CASE j = 1
    BY <1>6, <2>1 DEF From
  <2>2. CASE j # 1
    <3> DEFINE h == Hole(list, j - 1)
    <3>1. From(o, list, j) = o + h + HoleWidth /\ h \in Nat /\ h + HoleWidth < Size(list)
      BY <1>1, <1>2, <2>2 DEF From
    <3>2. CASE j = k + 1
      <4>1. Upto(o, list, j) = o + Size(list)
        BY <3>2 DEF Upto, k
      <4> HIDE DEF h
      <4> QED
        BY <1>1, <3>1, <4>1
    <3>3. CASE j # k + 1
      <4>1. Upto(o, list, j) = o + Hole(list, j) /\ h + HoleWidth < Hole(list, j) /\ Hole(list, j) \in Nat
        BY <1>1, <1>2, <1>3, <1>4, <2>2, <3>3 DEF Upto, k
      <4> HIDE DEF h
      <4> QED
        BY <1>1, <3>1, <4>1
    <3> QED
      BY <3>2, <3>3
  <2> QED
    BY <2>1, <2>2
<1> QED
  BY <1>5, <1>6, <1>7

LEMMA Extended ==
  ASSUME NEW n \in Nat, NEW P, NEW g \in [1 .. n + 1 -> P], NEW a \in [1 .. n -> P],
         \A i \in 1 .. n : a[i] = g[i]
  PROVE  a \o <<g[n + 1]>> = g
<1> DEFINE b == <<g[n + 1]>>
<1>1. n + 1 \in 1 .. n + 1 /\ g[n + 1] \in P
  OBVIOUS
<1>2. a \in Seq(P) /\ Len(a) = n /\ g \in Seq(P) /\ Len(g) = n + 1
  OBVIOUS
<1>3. b \in Seq(P) /\ Len(b) = 1 /\ b[1] = g[n + 1]
  BY <1>1
<1> HIDE DEF b
<1>4. /\ a \o b \in Seq(P) /\ Len(a \o b) = n + 1
      /\ \A q \in 1 .. n : (a \o b)[q] = a[q]
      /\ \A q \in 1 .. 1 : (a \o b)[n + q] = b[q]
  <2>1. /\ a \o b \in Seq(P) /\ Len(a \o b) = Len(a) + Len(b)
        /\ \A q \in 1 .. Len(a) : (a \o b)[q] = a[q]
        /\ \A q \in 1 .. Len(b) : (a \o b)[Len(a) + q] = b[q]
    <3>1. a \in Seq(P) /\ b \in Seq(P)
      BY <1>2, <1>3
    <3> QED
      BY <3>1, JoinedIn
  <2> DEFINE ab == a \o b
  <2> HIDE DEF ab
  <2>2. /\ ab \in Seq(P) /\ Len(ab) = Len(a) + Len(b)
        /\ \A q \in 1 .. Len(a) : ab[q] = a[q]
        /\ \A q \in 1 .. Len(b) : ab[Len(a) + q] = b[q]
    BY <2>1 DEF ab
  <2>3. /\ ab \in Seq(P) /\ Len(ab) = n + 1
        /\ \A q \in 1 .. n : ab[q] = a[q]
        /\ \A q \in 1 .. 1 : ab[n + q] = b[q]
    BY <1>2, <1>3, <2>2
  <2> QED
    BY <2>3 DEF ab
<1>5. \A q \in 1 .. n + 1 : (a \o b)[q] = g[q]
  <2> TAKE q \in 1 .. n + 1
  <2>1. CASE q \in 1 .. n
    BY <1>4, <2>1
  <2>2. CASE q \notin 1 .. n
    <3>1. q = n + 1 /\ 1 \in 1 .. 1
      BY <2>2
    <3> QED
      BY <1>3, <1>4, <3>1
  <2> QED
    BY <2>1, <2>2
<1>6. a \o b = g
  BY <1>2, <1>4, <1>5, SameSeq
<1> QED
  BY <1>6 DEF b

LEMMA RangesAre ==
  ASSUME NEW list, Len(list) \in Nat \ {0}, NEW o \in Nat
  PROVE  /\ DOMAIN ByteRange(o, list) = 1 .. Len(list) + 1
         /\ ByteRange(o, list) =
              [j \in 1 .. Len(list) + 1 |->
                 <<From(o, list, j), Upto(o, list, j) - From(o, list, j)>>]
<1> DEFINE k == Len(list)
           start(i) == FileOffset(o, list, i) + ContentsStart(list[i], k)
           end(i) == FileOffset(o, list, i) + ContentsEnd(list[i], k)
           last(i) == IF i = 1 THEN 0 ELSE end(i - 1)
           a == [i \in 1 .. k |-> <<last(i), start(i) - last(i)>>]
           c == <<last(k + 1), o + Len(Mock(list)) - last(k + 1)>>
           pair(j) == <<From(o, list, j), Upto(o, list, j) - From(o, list, j)>>
<1>1. ByteRange(o, list) = a \o <<c>>
  BY DEF ByteRange
<1>2. \A i \in 1 .. k + 1 : last(i) = From(o, list, i)
  <2> TAKE i \in 1 .. k + 1
  <2>1. i # 1 => i - 1 \in 1 .. k
    OBVIOUS
  <2>2. i # 1 => end(i - 1) = o + Hole(list, i - 1) + HoleWidth
    <3> HIDE DEF k
    <3> QED
      BY <2>1, OffsetsAre DEF k
  <2> HIDE DEF end
  <2> QED
    BY <2>2 DEF From
<1>3. \A i \in 1 .. k : start(i) = Upto(o, list, i)
  <2> TAKE i \in 1 .. k
  <2>1. start(i) = o + Hole(list, i)
    BY OffsetsAre
  <2>2. i # k + 1
    OBVIOUS
  <2> HIDE DEF start
  <2> QED
    BY <2>1, <2>2 DEF Upto
<1> HIDE DEF start, last
<1>4. a = [i \in 1 .. k |-> pair(i)]
  <2>1. \A i \in 1 .. k : i \in 1 .. k + 1
    OBVIOUS
  <2> QED
    BY <1>2, <1>3, <2>1
<1>5. c = pair(k + 1)
  <2>1. k + 1 \in 1 .. k + 1 /\ k + 1 = Len(list) + 1
    OBVIOUS
  <2>2. last(k + 1) = From(o, list, k + 1)
    BY <1>2, <2>1
  <2>3. Upto(o, list, k + 1) = o + Len(Mock(list))
    BY <2>1 DEF Upto, Size
  <2>4. /\ From(o, list, k + 1) \in Nat /\ Len(Mock(list)) \in Nat
        /\ o + Len(Mock(list)) - last(k + 1) = Upto(o, list, k + 1) - From(o, list, k + 1)
    <3>1. From(o, list, k + 1) \in Nat
      BY <2>1, FromTo
    <3>2. Len(Mock(list)) \in Nat
      BY Layout DEF Size
    <3> DEFINE l == last(k + 1)
               f == From(o, list, k + 1)
               t == Upto(o, list, k + 1)
               m == Len(Mock(list))
    <3>3. l = f /\ f \in Nat /\ m \in Nat /\ t = o + m
      BY <2>2, <2>3, <3>1, <3>2
    <3> HIDE DEF l, f, t, m
    <3>4. o + m - l = t - f
      BY <3>3
    <3> QED
      BY <3>1, <3>2, <3>4 DEF l, f, t, m
  <2> QED
    BY <2>2, <2>4
<1> HIDE DEF a, c, pair
<1>6. k \in Nat
  OBVIOUS
<1> HIDE DEF k
<1>7. a \o <<c>> = [j \in 1 .. k + 1 |-> pair(j)]
  <2> DEFINE P == {pair(j) : j \in 1 .. k + 1}
  <2>1. a \in [1 .. k -> P] /\ c \in P
    <3>1. \A i \in 1 .. k : i \in 1 .. k + 1
      BY <1>6
    <3>2. k + 1 \in 1 .. k + 1
      BY <1>6
    <3> QED
      BY <1>4, <1>5, <3>1, <3>2
  <2> DEFINE g == [j \in 1 .. k + 1 |-> pair(j)]
  <2>2. g \in [1 .. k + 1 -> P] /\ g[k + 1] = c /\ \A i \in 1 .. k : a[i] = g[i]
    <3>1. \A i \in 1 .. k : i \in 1 .. k + 1
      BY <1>6
    <3>2. k + 1 \in 1 .. k + 1
      BY <1>6
    <3> QED
      BY <1>4, <1>5, <3>1, <3>2
  <2> HIDE DEF P, g
  <2>3. a \o <<g[k + 1]>> = g
    BY <1>6, <2>1, <2>2, Extended
  <2> QED
    BY <2>2, <2>3 DEF g
<1> QED
  BY <1>1, <1>7 DEF k, pair

(* ByteRange leaves out the holes and nothing else.                         *)
LEMMA RangesLeaveHoles ==
  ASSUME NEW list, Len(list) \in Nat \ {0}, NEW o \in Nat, NEW p \in 0 .. o + Size(list) - 1
  PROVE  (\E j \in 1 .. Len(list) + 1 : From(o, list, j) <= p /\ p < Upto(o, list, j))
           <=> \A i \in 1 .. Len(list) : p \notin o + Hole(list, i) .. o + Hole(list, i) + HoleWidth - 1
<1> DEFINE k == Len(list)
           h(i) == o + Hole(list, i)
           w == HoleWidth
<1>1. /\ w \in Nat \ {0} /\ Size(list) \in Nat /\ p \in Nat /\ p < o + Size(list)
      /\ k \in Nat \ {0}
  BY Layout
<1>2. \A i \in 1 .. k : h(i) \in Nat
  BY Layout
<1>3. \A i, n \in 1 .. k : i < n => h(i) + w < h(n)
  <2> TAKE i \in 1 .. k, n \in 1 .. k
  <2> HAVE i < n
  <2>1. Hole(list, i) + w < Hole(list, n) /\ Hole(list, i) \in Nat /\ Hole(list, n) \in Nat
    BY Layout
  <2> QED
    BY <1>1, <2>1
<1>4. \A j \in 1 .. k + 1 : /\ From(o, list, j) = IF j = 1 THEN 0 ELSE h(j - 1) + w
                            /\ Upto(o, list, j) = IF j = k + 1 THEN o + Size(list) ELSE h(j)
  BY DEF From, Upto
<1> HIDE DEF h, w, k
<1>5. ASSUME NEW j \in 1 .. k + 1, From(o, list, j) <= p, p < Upto(o, list, j),
             NEW i \in 1 .. k, p \in h(i) .. h(i) + w - 1
      PROVE  FALSE
  <2>1. h(i) \in Nat /\ h(i) <= p /\ p < h(i) + w
    BY <1>1, <1>2, <1>5
  <2>2. CASE i < j
    <3>1. j # 1 /\ j - 1 \in 1 .. k /\ (i < j - 1 \/ i = j - 1)
      BY <1>1, <2>2
    <3>2. h(j - 1) \in Nat /\ h(j - 1) + w <= p
      BY <1>2, <1>4, <1>5, <3>1
    <3>3. i < j - 1 => h(i) + w < h(j - 1)
      BY <1>3, <3>1
    <3> QED
      BY <1>1, <2>1, <3>1, <3>2, <3>3
  <2>3. CASE ~(i < j)
    <3>1. j # k + 1 /\ j \in 1 .. k /\ (j < i \/ i = j)
      BY <1>1, <2>3
    <3>2. h(j) \in Nat /\ p < h(j)
      BY <1>2, <1>4, <1>5, <3>1
    <3>3. j < i => h(j) + w < h(i)
      BY <1>3, <3>1
    <3> QED
      BY <1>1, <2>1, <3>1, <3>2, <3>3
  <2> QED
    BY <2>2, <2>3
<1>6. ASSUME \A i \in 1 .. k : p \notin h(i) .. h(i) + w - 1
      PROVE  \E j \in 1 .. k + 1 : From(o, list, j) <= p /\ p < Upto(o, list, j)
  <2> DEFINE Behind == {i \in 1 .. k + 1 : i = k + 1 \/ p < h(i)}
  <2>1. Behind \in SUBSET Nat /\ Behind # {}
    <3>1. k + 1 \in Behind
      BY <1>1
    <3> QED
      BY <3>1
  <2>2. PICK j \in Behind : \A n \in Behind : j <= n
    BY <2>1, LeastOf
  <2>3. j \in 1 .. k + 1
    BY <2>2
  <2>4. p < Upto(o, list, j)
    BY <1>1, <1>4, <2>2
  <2>5. From(o, list, j) <= p
    <3>1. CASE j = 1
      BY <1>1, <1>4, <2>3, <3>1
    <3>2. CASE j # 1
      <4>1. j - 1 \in 1 .. k /\ j - 1 \in 1 .. k + 1 /\ j - 1 < j
        BY <1>1, <2>3, <3>2
      <4>2. j - 1 \notin Behind
        BY <2>2, <2>3, <4>1
      <4>3. ~(p < h(j - 1)) /\ h(j - 1) \in Nat
        BY <1>2, <4>1, <4>2
      <4>4. p \notin h(j - 1) .. h(j - 1) + w - 1
        BY <1>6, <4>1
      <4>5. h(j - 1) + w <= p
        BY <1>1, <4>3, <4>4
      <4> QED
        BY <1>4, <2>3, <3>2, <4>5
    <3> QED
      BY <3>1, <3>2
  <2> QED
    BY <2>3, <2>4, <2>5
<1>7. (\E j \in 1 .. k + 1 : From(o, list, j) <= p /\ p < Upto(o, list, j))
        <=> \A i \in 1 .. k : p \notin h(i) .. h(i) + w - 1
  BY <1>5, <1>6
<1> QED
  BY <1>7 DEF h, w, k

-----------------------------------------------------------------------------
(* The properties of one signature, in a file f and among signatures ss.    *)
CoveredBy(f, s) == FlattenSeq([j \in DOMAIN s.ranges |->
                     SubSeq(f, s.ranges[j][1] + 1, s.ranges[j][1] + s.ranges[j][2])])
VerifiesIn(f, s) == f[s.hole + 1] = <<"digest", CoveredBy(f, s)>>
WrittenIn(f, s) == \E p \in DOMAIN f : p > s.revision /\ p <= s.end /\ f[p] = <<"range", s.ranges>>
With(ss, s) == {ss[j] : j \in {j \in DOMAIN ss : ss[j].end = s.end}}
ExactFor(holders, s) ==
  \A p \in 0 .. s.end - 1 :
    (\E j \in DOMAIN s.ranges : s.ranges[j][1] <= p /\ p < s.ranges[j][1] + s.ranges[j][2])
      <=> p \notin UNION {t.hole .. t.hole + HoleWidth - 1 : t \in holders}

\* All that is known of a signature lies in the file.
Placed(s, f) ==
  /\ s.revision \in Nat /\ s.end \in Nat /\ s.end <= Len(f)
  /\ s.hole \in Nat /\ s.hole < s.end
  /\ \A j \in DOMAIN s.ranges :
       /\ s.ranges[j][1] \in Nat /\ s.ranges[j][2] \in Nat
       /\ s.ranges[j][1] + s.ranges[j][2] <= s.end

Holds(s, f, holders) ==
  /\ Placed(s, f) /\ WrittenIn(f, s) /\ ExactFor(holders, s)
  /\ s.alone => VerifiesIn(f, s)

IInv ==
  /\ file \in Seq(Cells(file)) /\ sigs \in Seq(Cells(sigs))
  /\ \A i \in 1 .. Len(sigs) : Holds(sigs[i], file, With(sigs, sigs[i]))

LEMMA Implies ==
  ASSUME IInv
  PROVE  SignaturesSound
<1>1. DOMAIN sigs = 1 .. Len(sigs)
  BY DEF IInv
<1>2. SignaturesVerify
  BY <1>1 DEF IInv, Holds, SignaturesVerify, Verifies, VerifiesIn, Covered, CoveredBy
<1>3. RangesWritten
  BY <1>1 DEF IInv, Holds, RangesWritten, WrittenIn
<1>4. RangesExact
  BY <1>1 DEF IInv, Holds, RangesExact, ExactFor, With
<1> QED
  BY <1>2, <1>3, <1>4 DEF SignaturesSound

(* What is written behind a revision changes nothing for it.                *)
LEMMA HoldsLater ==
  ASSUME NEW S, NEW f \in Seq(S), NEW T, NEW t \in Seq(T), NEW s, NEW holders,
         Holds(s, f, holders)
  PROVE  Holds(s, f \o t, holders)
<1> DEFINE g == f \o t
<1>1. /\ g \in Seq(S \cup T) /\ Len(g) = Len(f) + Len(t) /\ Len(f) \in Nat /\ Len(t) \in Nat
      /\ DOMAIN f = 1 .. Len(f) /\ DOMAIN g = 1 .. Len(g)
      /\ \A q \in 1 .. Len(f) : g[q] = f[q]
  <2>1. g \in Seq(S \cup T) /\ Len(g) = Len(f) + Len(t) /\ \A q \in 1 .. Len(f) : g[q] = f[q]
    BY Joined
  <2> HIDE DEF g
  <2> QED
    BY <2>1
<1>2. ASSUME NEW a \in Nat, NEW b \in Nat, a <= b, b <= Len(f)
      PROVE  SubSeq(g, a + 1, b) = SubSeq(f, a + 1, b)
  BY <1>2, PartKept
<1> HIDE DEF g
<1>3. Placed(s, f) /\ WrittenIn(f, s) /\ ExactFor(holders, s) /\ (s.alone => VerifiesIn(f, s))
  BY DEF Holds
<1>4. Placed(s, g)
  <2>1. s.end \in Nat /\ s.end <= Len(f)
    BY <1>3 DEF Placed
  <2>2. s.end <= Len(g)
    BY <1>1, <2>1
  <2> QED
    BY <1>3, <2>2 DEF Placed
<1>5. WrittenIn(g, s)
  <2>1. PICK p \in 1 .. Len(f) : p > s.revision /\ p <= s.end /\ f[p] = <<"range", s.ranges>>
    BY <1>1, <1>3 DEF WrittenIn
  <2>2. p \in DOMAIN g /\ g[p] = f[p]
    BY <1>1, <2>1
  <2> QED
    BY <2>1, <2>2 DEF WrittenIn
<1>6. ASSUME s.alone PROVE VerifiesIn(g, s)
  <2>1. VerifiesIn(f, s)
    BY <1>3, <1>6
  <2>2. s.hole + 1 \in 1 .. Len(f)
    BY <1>1, <1>3 DEF Placed
  <2>3. ASSUME NEW j \in DOMAIN s.ranges
        PROVE  SubSeq(g, s.ranges[j][1] + 1, s.ranges[j][1] + s.ranges[j][2])
                 = SubSeq(f, s.ranges[j][1] + 1, s.ranges[j][1] + s.ranges[j][2])
    <3> DEFINE a == s.ranges[j][1]
               c == s.ranges[j][2]
    <3>1. a \in Nat /\ c \in Nat /\ a + c <= s.end /\ s.end \in Nat /\ s.end <= Len(f)
      BY <1>3 DEF Placed
    <3> HIDE DEF a, c
    <3>2. a + c \in Nat /\ a <= a + c /\ a + c <= Len(f)
      BY <1>1, <3>1
    <3>3. SubSeq(g, a + 1, a + c) = SubSeq(f, a + 1, a + c)
      BY <1>2, <3>1, <3>2
    <3> QED
      BY <3>3 DEF a, c
  <2>4. CoveredBy(g, s) = CoveredBy(f, s)
    <3> DEFINE part(h, j) == SubSeq(h, s.ranges[j][1] + 1, s.ranges[j][1] + s.ranges[j][2])
    <3>1. \A j \in DOMAIN s.ranges : part(g, j) = part(f, j)
      BY <2>3
    <3> HIDE DEF part
    <3>2. [j \in DOMAIN s.ranges |-> part(g, j)] = [j \in DOMAIN s.ranges |-> part(f, j)]
      BY <3>1
    <3> QED
      BY <3>2 DEF CoveredBy, part
  <2> QED
    BY <1>1, <2>1, <2>2, <2>4 DEF VerifiesIn
<1> QED
  BY <1>3, <1>4, <1>5, <1>6 DEF Holds, g

-----------------------------------------------------------------------------
(* A signed revision.                                                       *)
NewSig(o, list, i) ==
  [ranges |-> ByteRange(o, list), revision |-> o, end |-> o + Size(list),
   alone |-> Len(list) = 1, hole |-> o + Hole(list, i)]

LEMMA NewSigIs ==
  ASSUME NEW list, NEW o, NEW i
  PROVE  LET s == NewSig(o, list, i)
         IN  /\ s.ranges = ByteRange(o, list) /\ s.revision = o /\ s.end = o + Size(list)
             /\ s.alone = (Len(list) = 1) /\ s.hole = o + Hole(list, i)
BY DEF NewSig

LEMMA SignedIs ==
  ASSUME NEW list, Len(list) \in Nat \ {0}, DOMAIN list = 1 .. Len(list), NEW o \in Nat
  PROVE  LET b == Signed(o, list)
             r == RangesPatched(Mock(list), o, list, ByteRange(o, list))
         IN  /\ b \in Seq(Cells(b)) /\ Len(b) = Size(list)
             /\ r \in Seq(Cells(r)) /\ Len(r) = Size(list)
             /\ b[RangeAt(list, 1) + 1] = <<"range", ByteRange(o, list)>>
             /\ \A q \in 1 .. Size(list) :
                  (\A i \in 1 .. Len(list) : ~(Hole(list, i) < q /\ q <= Hole(list, i) + HoleWidth))
                    => b[q] = r[q]
             /\ \A i \in 1 .. Len(list) :
                  b[Hole(list, i) + 1] = <<"digest", Digest(r, list, list[i].handler)>>
<1> DEFINE b == Signed(o, list)
           r == RangesPatched(Mock(list), o, list, ByteRange(o, list))
           k == Len(list)
           h == HoleWidth
           at == RangeAt(list, 1)
<1>1. /\ r \in Seq(Cells(r)) /\ Len(r) = Size(list)
      /\ r[at + 1] = <<"range", ByteRange(o, list)>>
  BY RangesIn
<1>2. b = ContentsPatched(r, o, list)
  BY DEF Signed
<1> HIDE DEF b, r
<1>3. /\ b \in Seq(Cells(b)) /\ Len(b) = Size(list)
      /\ \A q \in 1 .. Size(list) :
           (\A i \in 1 .. k : ~(Hole(list, i) < q /\ q <= Hole(list, i) + h)) => b[q] = r[q]
      /\ \A i \in 1 .. k : b[Hole(list, i) + 1] = <<"digest", Digest(r, list, list[i].handler)>>
  <2>1. HasContents(b, r, list)
    BY <1>1, <1>2, ContentsIn
  <2> QED
    BY <2>1 DEF HasContents
<1>4. at + 1 \in 1 .. Size(list) /\ \A i \in 1 .. k : ~(Hole(list, i) < at + 1 /\ at + 1 <= Hole(list, i) + h)
  <2>1. /\ at \in Nat /\ at + Width(list) < Size(list) /\ Width(list) \in Nat \ {0}
        /\ Size(list) \in Nat /\ h \in Nat \ {0} /\ 1 \in 1 .. k
    BY Layout
  <2>2. ASSUME NEW i \in 1 .. k
        PROVE  ~(Hole(list, i) < at + 1 /\ at + 1 <= Hole(list, i) + h)
    <3>1. /\ Hole(list, i) \in Nat
          /\ i = 1 => Hole(list, i) + h <= at \/ at + Width(list) <= Hole(list, i)
          /\ 1 < i => at + Width(list) < Hole(list, i)
      BY <2>1, Layout
    <3>2. 1 = i \/ 1 < i
      OBVIOUS
    <3> HIDE DEF at, h
    <3> QED
      BY <2>1, <3>1, <3>2
  <2> HIDE DEF at, h
  <2>3. at + 1 \in 1 .. Size(list)
    BY <2>1
  <2> QED
    BY <2>2, <2>3
<1>5. b[at + 1] = <<"range", ByteRange(o, list)>>
  BY <1>1, <1>3, <1>4
<1> QED
  BY <1>1, <1>3, <1>5 DEF b, r, h, k

LEMMA NewPlaced ==
  ASSUME NEW list, Len(list) \in Nat \ {0}, NEW o \in Nat, NEW i \in 1 .. Len(list),
         NEW f, Len(f) = o + Size(list)
  PROVE  Placed(NewSig(o, list, i), f)
<1> DEFINE s == NewSig(o, list, i)
           k == Len(list)
<1>1. s.ranges = ByteRange(o, list) /\ s.revision = o /\ s.end = o + Size(list) /\ s.hole = o + Hole(list, i)
  BY NewSigIs
<1>2. /\ Size(list) \in Nat /\ Hole(list, i) \in Nat /\ Hole(list, i) + HoleWidth < Size(list)
      /\ HoleWidth \in Nat
  BY Layout
<1> HIDE DEF s
<1>3. s.revision \in Nat /\ s.end \in Nat /\ s.end <= Len(f) /\ s.hole \in Nat /\ s.hole < s.end
  BY <1>1, <1>2
<1>4. ASSUME NEW j \in DOMAIN s.ranges
      PROVE  /\ s.ranges[j][1] \in Nat /\ s.ranges[j][2] \in Nat
             /\ s.ranges[j][1] + s.ranges[j][2] <= s.end
  <2>1. j \in 1 .. k + 1
    BY <1>1, RangesAre
  <2> DEFINE a == From(o, list, j)
             b == Upto(o, list, j)
  <2>2. s.ranges[j] = <<a, b - a>>
    BY <1>1, <2>1, RangesAre
  <2>3. a \in Nat /\ b \in Nat /\ a <= b /\ b <= o + Size(list)
    BY <2>1, FromTo
  <2> HIDE DEF a, b
  <2>4. s.ranges[j][1] = a /\ s.ranges[j][2] = b - a
    BY <2>2
  <2>5. b - a \in Nat /\ a + (b - a) = b
    BY <2>3
  <2> QED
    BY <1>1, <2>3, <2>4, <2>5
<1> QED
  BY <1>3, <1>4 DEF Placed, s

LEMMA NewExact ==
  ASSUME NEW list, Len(list) \in Nat \ {0}, NEW o \in Nat, NEW i \in 1 .. Len(list)
  PROVE  ExactFor({NewSig(o, list, n) : n \in 1 .. Len(list)}, NewSig(o, list, i))
<1> DEFINE s == NewSig(o, list, i)
           k == Len(list)
           all == {NewSig(o, list, n) : n \in 1 .. k}
           hole(n) == o + Hole(list, n) .. o + Hole(list, n) + HoleWidth - 1
<1>1. s.ranges = ByteRange(o, list) /\ s.end = o + Size(list)
  BY NewSigIs
<1>2. UNION {t.hole .. t.hole + HoleWidth - 1 : t \in all} = UNION {hole(n) : n \in 1 .. k}
  <2>1. \A n \in 1 .. k : NewSig(o, list, n).hole = o + Hole(list, n)
    BY NewSigIs
  <2> QED
    BY <2>1
<1> HIDE DEF s, all
<1>3. ASSUME NEW p \in 0 .. s.end - 1
      PROVE  (\E j \in DOMAIN s.ranges : s.ranges[j][1] <= p /\ p < s.ranges[j][1] + s.ranges[j][2])
               <=> p \notin UNION {hole(n) : n \in 1 .. k}
  <2>1. p \in 0 .. o + Size(list) - 1
    <3>1. p \in 0 .. s.end - 1
      OBVIOUS
    <3>2. s.end = o + Size(list) /\ Size(list) \in Nat
      BY <1>1, Layout
    <3>3. s.end - 1 = o + Size(list) - 1
      BY <3>2
    <3> QED
      BY <3>1, <3>3
  <2>2. (\E j \in 1 .. k + 1 : From(o, list, j) <= p /\ p < Upto(o, list, j))
           <=> \A n \in 1 .. k : p \notin hole(n)
    BY <2>1, RangesLeaveHoles
  <2> HIDE DEF hole
  <2>3. p \notin UNION {hole(n) : n \in 1 .. k} <=> \A n \in 1 .. k : p \notin hole(n)
    OBVIOUS
  <2>4. DOMAIN s.ranges = 1 .. k + 1
    BY <1>1, RangesAre
  <2>5. ASSUME NEW j \in 1 .. k + 1
        PROVE  (s.ranges[j][1] <= p /\ p < s.ranges[j][1] + s.ranges[j][2])
                 <=> (From(o, list, j) <= p /\ p < Upto(o, list, j))
    <3> DEFINE a == From(o, list, j)
               b == Upto(o, list, j)
    <3>1. s.ranges[j] = <<a, b - a>>
      <4>1. ByteRange(o, list)[j] = <<a, b - a>>
        BY RangesAre
      <4> QED
        BY <1>1, <4>1
    <3>2. a \in Nat /\ b \in Nat
      BY FromTo
    <3> HIDE DEF a, b
    <3>3. s.ranges[j][1] = a /\ s.ranges[j][2] = b - a /\ a + (b - a) = b
      BY <3>1, <3>2
    <3>4. s.ranges[j][1] + s.ranges[j][2] = b
      BY <3>3
    <3> QED
      BY <3>3, <3>4 DEF a, b
  <2> QED
    BY <2>2, <2>3, <2>4, <2>5
<1> HIDE DEF hole
<1> QED
  BY <1>2, <1>3 DEF ExactFor, s, all, hole

LEMMA NewWritten ==
  ASSUME NEW list, Len(list) \in Nat \ {0}, DOMAIN list = 1 .. Len(list),
         NEW S, NEW f \in Seq(S), NEW i \in 1 .. Len(list)
  PROVE  WrittenIn(f \o Signed(Len(f), list), NewSig(Len(f), list, i))
<1> DEFINE o == Len(f)
           b == Signed(o, list)
           g == f \o b
           at == RangeAt(list, 1)
           s == NewSig(o, list, i)
<1>1. s.ranges = ByteRange(o, list) /\ s.revision = o /\ s.end = o + Size(list)
  BY NewSigIs
<1>2. o \in Nat
  OBVIOUS
<1>3. b \in Seq(Cells(b)) /\ Len(b) = Size(list) /\ b[at + 1] = <<"range", ByteRange(o, list)>>
  BY <1>2, SignedIs
<1>4. at \in Nat /\ Size(list) \in Nat /\ at + 1 <= Size(list)
  <2>1. /\ at \in Nat /\ at + Width(list) < Size(list) /\ Width(list) \in Nat /\ Size(list) \in Nat
    BY Layout
  <2> HIDE DEF at
  <2> QED
    BY <2>1
<1> HIDE DEF b
<1>5. /\ g \in Seq(S \cup Cells(b)) /\ Len(g) = Len(f) + Len(b)
      /\ \A q \in 1 .. Len(b) : g[Len(f) + q] = b[q]
  <2>1. b \in Seq(Cells(b))
    BY <1>3
  <2>2. IsJoined(S \cup Cells(b), g, f, b)
    BY <2>1, JoinedIs
  <2> QED
    BY <2>2 DEF IsJoined
<1> HIDE DEF g, s, at
<1>6. at + 1 \in 1 .. Len(b) /\ o + (at + 1) \in DOMAIN g
  BY <1>2, <1>3, <1>4, <1>5
<1>7. g[o + (at + 1)] = <<"range", s.ranges>>
  BY <1>1, <1>3, <1>5, <1>6
<1>8. o + (at + 1) > s.revision /\ o + (at + 1) <= s.end
  BY <1>1, <1>2, <1>4
<1>9. WrittenIn(g, s)
  BY <1>6, <1>7, <1>8 DEF WrittenIn
<1> QED
  BY <1>9 DEF g, s, b

(* The only signature of a revision: its digest is of what it covers.       *)
LEMMA Associated ==
  ASSUME NEW S, NEW f \in Seq(S), NEW g \in Seq(S), NEW h \in Seq(S)
  PROVE  (f \o g) \o h = f \o (g \o h)
OBVIOUS

JoinsStart(g, f, r, m) == SubSeq(g, 1, Len(f) + m) = f \o SubSeq(r, 1, m)

LEMMA JoinedWith ==
  ASSUME NEW S, NEW f \in Seq(S), NEW T, NEW b \in Seq(T), NEW r \in Seq(T),
         Len(r) = Len(b), NEW m \in 0 .. Len(b), \A q \in 1 .. m : b[q] = r[q]
  PROVE  JoinsStart(f \o b, f, r, m)
<1> DEFINE g == f \o b
           u == SubSeq(r, 0 + 1, m)
           v == SubSeq(g, 0 + 1, Len(f) + m)
<1>1. Len(f) \in Nat /\ Len(b) \in Nat /\ m \in Nat /\ m <= Len(b)
  OBVIOUS
<1>2. /\ g \in Seq(S \cup T) /\ Len(g) = Len(f) + Len(b)
      /\ \A q \in 1 .. Len(f) : g[q] = f[q]
      /\ \A q \in 1 .. Len(b) : g[Len(f) + q] = b[q]
  BY Joined
<1>3. u \in Seq(T) /\ Len(u) = m - 0 /\ \A q \in 1 .. m - 0 : u[q] = r[0 + q]
  BY <1>1, PartOf
<1>4. u \in Seq(T) /\ Len(u) = m /\ \A q \in 1 .. m : u[q] = r[q]
  <2>1. m - 0 = m /\ \A q \in 1 .. m : 0 + q = q
    BY <1>1
  <2> HIDE DEF u
  <2> QED
    BY <1>3, <2>1
<1> HIDE DEF g
<1>5. /\ v \in Seq(S \cup T) /\ Len(v) = Len(f) + m
      /\ \A q \in 1 .. Len(f) + m : v[q] = g[q]
  <2>1. Len(f) + m \in Nat /\ Len(f) + m <= Len(g) /\ 0 <= Len(f) + m
    BY <1>1, <1>2
  <2>2. /\ v \in Seq(S \cup T) /\ Len(v) = (Len(f) + m) - 0
        /\ \A q \in 1 .. (Len(f) + m) - 0 : v[q] = g[0 + q]
    <3>1. IsPart(S \cup T, v, g, 0, Len(f) + m)
      BY <1>2, <2>1, PartIs
    <3> QED
      BY <3>1 DEF IsPart
  <2>3. (Len(f) + m) - 0 = Len(f) + m /\ \A q \in 1 .. Len(f) + m : 0 + q = q
    BY <1>1
  <2> HIDE DEF v
  <2> QED
    BY <2>2, <2>3
<1> HIDE DEF u, v
<1> DEFINE w == f \o u
<1>6. /\ w \in Seq(S \cup T) /\ Len(w) = Len(f) + Len(u)
      /\ \A q \in 1 .. Len(f) : w[q] = f[q]
      /\ \A q \in 1 .. Len(u) : w[Len(f) + q] = u[q]
  <2>1. u \in Seq(T)
    BY <1>4
  <2>2. IsJoined(S \cup T, w, f, u)
    BY <2>1, JoinedIs
  <2> QED
    BY <2>2 DEF IsJoined
<1> HIDE DEF w
<1>7. ASSUME NEW q \in 1 .. Len(f) + m PROVE v[q] = w[q]
  <2>1. CASE q \in 1 .. Len(f)
    BY <1>2, <1>5, <1>6, <2>1
  <2>2. CASE q \notin 1 .. Len(f)
    <3> DEFINE n == q - Len(f)
    <3>1. n \in 1 .. m /\ Len(f) + n = q /\ n \in 1 .. Len(b)
      <4> DEFINE lf == Len(f)
                 lb == Len(b)
      <4>1. lf \in Nat /\ lb \in Nat /\ m \in Nat /\ m <= lb /\ q \in 1 .. lf + m /\ q \notin 1 .. lf
        BY <1>1, <2>2
      <4> HIDE DEF lf, lb
      <4>2. q - lf \in 1 .. m /\ lf + (q - lf) = q /\ q - lf \in 1 .. lb
        BY <4>1
      <4> QED
        BY <4>2 DEF lf, lb
    <3> HIDE DEF n
    <3>2. g[Len(f) + n] = b[n] /\ w[Len(f) + n] = u[n]
      BY <1>2, <1>4, <1>6, <3>1
    <3> QED
      BY <1>4, <1>5, <3>1, <3>2
  <2> QED
    BY <2>1, <2>2
<1>8. v = w
  BY <1>4, <1>5, <1>6, <1>7, SameSeq
<1>9. 0 + 1 = 1
  OBVIOUS
<1> QED
  BY <1>8, <1>9 DEF v, w, u, g, JoinsStart

LEMMA JoinedEnd ==
  ASSUME NEW S, NEW f \in Seq(S), NEW T, NEW b \in Seq(T), NEW r \in Seq(T),
         Len(r) = Len(b), NEW m \in 0 .. Len(b), \A q \in m + 1 .. Len(b) : b[q] = r[q]
  PROVE  SubSeq(f \o b, Len(f) + m + 1, Len(f) + Len(b)) = SubSeq(r, m + 1, Len(b))
<1> DEFINE g == f \o b
           u == SubSeq(r, m + 1, Len(b))
           v == SubSeq(g, (Len(f) + m) + 1, Len(f) + Len(b))
<1>1. Len(f) \in Nat /\ Len(b) \in Nat /\ m \in Nat /\ m <= Len(b)
  OBVIOUS
<1>2. /\ g \in Seq(S \cup T) /\ Len(g) = Len(f) + Len(b)
      /\ \A q \in 1 .. Len(b) : g[Len(f) + q] = b[q]
  BY Joined
<1>3. u \in Seq(T) /\ Len(u) = Len(b) - m /\ \A q \in 1 .. Len(b) - m : u[q] = r[m + q]
  BY <1>1, PartOf
<1> HIDE DEF g
<1>4. /\ v \in Seq(S \cup T) /\ Len(v) = Len(b) - m
      /\ \A q \in 1 .. Len(b) - m : v[q] = g[(Len(f) + m) + q]
  <2>1. /\ Len(f) + m \in Nat /\ Len(f) + Len(b) \in Nat
        /\ Len(f) + m <= Len(f) + Len(b) /\ Len(f) + Len(b) <= Len(g)
    BY <1>1, <1>2
  <2>2. /\ v \in Seq(S \cup T) /\ Len(v) = (Len(f) + Len(b)) - (Len(f) + m)
        /\ \A q \in 1 .. (Len(f) + Len(b)) - (Len(f) + m) : v[q] = g[(Len(f) + m) + q]
    <3>1. IsPart(S \cup T, v, g, Len(f) + m, Len(f) + Len(b))
      BY <1>2, <2>1, PartIs
    <3> QED
      BY <3>1 DEF IsPart
  <2>3. (Len(f) + Len(b)) - (Len(f) + m) = Len(b) - m
    BY <1>1
  <2> HIDE DEF v
  <2> QED
    BY <2>2, <2>3
<1> HIDE DEF u, v
<1>5. ASSUME NEW q \in 1 .. Len(b) - m PROVE v[q] = u[q]
  <2>1. m + q \in m + 1 .. Len(b) /\ m + q \in 1 .. Len(b) /\ (Len(f) + m) + q = Len(f) + (m + q)
    BY <1>1
  <2>2. g[Len(f) + (m + q)] = b[m + q] /\ b[m + q] = r[m + q]
    BY <1>2, <2>1
  <2> QED
    BY <1>3, <1>4, <2>1, <2>2
<1>6. v = u
  BY <1>3, <1>4, <1>5, SameSeq
<1> QED
  BY <1>6 DEF v, u, g

(* The two ranges of a signature that is alone.                             *)
Pairs(o, list, n) == [j \in 1 .. n |-> <<From(o, list, j), Upto(o, list, j) - From(o, list, j)>>]

LEMMA PairsAre ==
  ASSUME NEW list, NEW n \in Nat, n = Len(list), n # 0, NEW o \in Nat
  PROVE  ByteRange(o, list) = Pairs(o, list, n + 1)
BY RangesAre DEF Pairs

LEMMA OneRange ==
  ASSUME NEW list, Len(list) = 1, NEW o \in Nat
  PROVE  ByteRange(o, list) = Pairs(o, list, 2)
<1> DEFINE n == Len(list)
<1>1. n \in Nat /\ n = Len(list) /\ n # 0 /\ n + 1 = 2
  OBVIOUS
<1> HIDE DEF n
<1>2. ByteRange(o, list) = Pairs(o, list, n + 1)
  BY <1>1, PairsAre
<1> QED
  BY <1>1, <1>2

LEMMA NewVerifies ==
  ASSUME NEW list, Len(list) = 1, DOMAIN list = 1 .. Len(list), file \in Seq(Cells(file))
  PROVE  VerifiesIn(file \o Signed(Len(file), list), NewSig(Len(file), list, 1))
<1> DEFINE o == Len(file)
           b == Signed(o, list)
           r == RangesPatched(Mock(list), o, list, ByteRange(o, list))
           g == file \o b
           s == NewSig(o, list, 1)
           h == Hole(list, 1)
           e == h + HoleWidth
           x == SubSeq(r, 1, h)
           y == SubSeq(r, e + 1, Len(r))
           T == Cells(b) \cup Cells(r)
           ranges == ByteRange(o, list)
<1>1. o \in Nat /\ Len(list) \in Nat \ {0} /\ 1 \in 1 .. Len(list) /\ DOMAIN list = 1 .. 1
  OBVIOUS
<1>2. s.ranges = ranges /\ s.hole = o + h
  BY NewSigIs
<1>3. /\ b \in Seq(Cells(b)) /\ Len(b) = Size(list) /\ r \in Seq(Cells(r)) /\ Len(r) = Size(list)
      /\ \A q \in 1 .. Size(list) :
           (\A i \in 1 .. Len(list) : ~(Hole(list, i) < q /\ q <= Hole(list, i) + HoleWidth)) => b[q] = r[q]
      /\ b[h + 1] = <<"digest", Digest(r, list, list[1].handler)>>
  BY <1>1, SignedIs
<1>4. /\ h \in Nat \ {0} /\ e \in Nat /\ h <= e /\ h + 1 <= e /\ e < Size(list) /\ Size(list) \in Nat
  <2>1. h \in Nat \ {0} /\ h + HoleWidth < Size(list) /\ HoleWidth \in Nat \ {0} /\ Size(list) \in Nat
    BY <1>1, Layout
  <2> HIDE DEF h
  <2> QED
    BY <2>1
<1> HIDE DEF o
<1>5. Digest(r, list, list[1].handler) = file \o (x \o y)
  <2> DEFINE k == Len(list)
             from(i) == IF i = 1 THEN 0 ELSE FileOffset(0, list, i - 1) + ContentsEnd(list[i - 1], k)
             to(i) == FileOffset(0, list, i) + ContentsStart(list[i], k)
             ofH(i, part) == IF list[i].handler = list[1].handler THEN part ELSE << >>
             us == [i \in 1 .. k |-> ofH(i, SubSeq(r, from(i) + 1, to(i)))]
             vs == [i \in 1 .. k |-> ofH(i, SubSeq(r, from(k + 1) + 1, Len(r)))]
  <2>1. Digest(r, list, list[1].handler) = file \o (FlattenSeq(us) \o FlattenSeq(vs))
    BY DEF Digest, DigestParts
  <2>2. to(1) = 0 + h /\ FileOffset(0, list, 1) + ContentsEnd(list[1], k) = 0 + h + HoleWidth
    BY <1>1, OffsetsAre
  <2>3. from(1) + 1 = 1 /\ from(k + 1) = FileOffset(0, list, 1) + ContentsEnd(list[1], k)
    OBVIOUS
  <2> HIDE DEF from, to
  <2>4. to(1) = h /\ from(k + 1) = e
    <3> HIDE DEF h
    <3>1. 0 + h = h
      BY <1>4
    <3> QED
      BY <2>2, <2>3, <3>1
  <2>5. us = <<x>>
    <3>1. us = [i \in 1 .. 1 |-> ofH(i, SubSeq(r, from(i) + 1, to(i)))]
      OBVIOUS
    <3>2. ofH(1, SubSeq(r, from(1) + 1, to(1))) = x
      BY <2>3, <2>4
    <3> HIDE DEF ofH, us, x
    <3> QED
      BY <3>1, <3>2
  <2>6. vs = <<y>>
    <3>1. vs = [i \in 1 .. 1 |-> ofH(i, SubSeq(r, from(k + 1) + 1, Len(r)))]
      OBVIOUS
    <3>2. ofH(1, SubSeq(r, from(k + 1) + 1, Len(r))) = y
      BY <2>4
    <3> HIDE DEF ofH, vs, y, k
    <3> QED
      BY <3>1, <3>2
  <2> HIDE DEF us, vs, x, y
  <2>7. FlattenSeq(<<x>>) = x /\ FlattenSeq(<<y>>) = y
    BY FlattenOne
  <2>8. FlattenSeq(us) = x /\ FlattenSeq(vs) = y
    BY <2>5, <2>6, <2>7
  <2> QED
    BY <2>1, <2>8
<1>6. ranges = <<<<0, o + h>>, <<o + h + HoleWidth, (o + Size(list)) - (o + h + HoleWidth)>>>>
  <2>1. ranges = [j \in 1 .. 2 |-> <<From(o, list, j), Upto(o, list, j) - From(o, list, j)>>]
    <3> HIDE DEF s, h, x, y, T, e, r, b, g
    <3> QED
      BY <1>1, OneRange DEF Pairs
  <2>2. /\ From(o, list, 1) = 0 /\ Upto(o, list, 1) = o + h
        /\ From(o, list, 2) = o + h + HoleWidth /\ Upto(o, list, 2) = o + Size(list)
    BY DEF From, Upto
  <2>3. (o + h) - 0 = o + h
    BY <1>1, <1>4
  <2> HIDE DEF ranges, h
  <2>4. /\ ranges = <<ranges[1], ranges[2]>>
        /\ ranges[1] = <<From(o, list, 1), Upto(o, list, 1) - From(o, list, 1)>>
        /\ ranges[2] = <<From(o, list, 2), Upto(o, list, 2) - From(o, list, 2)>>
    BY <2>1
  <2> QED
    BY <2>2, <2>3, <2>4
<1>7. CoveredBy(g, s) = SubSeq(g, 1, o + h) \o SubSeq(g, o + e + 1, o + Size(list))
  <2> DEFINE p1 == <<0, o + h>>
             p2 == <<o + h + HoleWidth, (o + Size(list)) - (o + h + HoleWidth)>>
             part(j) == SubSeq(g, ranges[j][1] + 1, ranges[j][1] + ranges[j][2])
  <2> HIDE DEF h, e, g, ranges
  <2>1. DOMAIN ranges = 1 .. 2 /\ ranges[1] = p1 /\ ranges[2] = p2
    BY <1>6
  <2>2. part(1) = SubSeq(g, 1, o + h)
    <3>1. ranges[1][1] + 1 = 1 /\ ranges[1][1] + ranges[1][2] = o + h
      BY <1>1, <1>4, <2>1
    <3> QED
      BY <3>1
  <2>3. part(2) = SubSeq(g, o + e + 1, o + Size(list))
    <3>1. HoleWidth \in Nat /\ e = h + HoleWidth
      BY SignaturesAssumptions DEF e
    <3>2. ranges[2][1] + 1 = o + e + 1
      BY <1>1, <1>4, <2>1, <3>1
    <3>3. ranges[2][1] + ranges[2][2] = o + Size(list)
      BY <1>1, <1>4, <2>1, <3>1
    <3> QED
      BY <3>2, <3>3
  <2>4. CoveredBy(g, s) = FlattenSeq([j \in DOMAIN ranges |-> part(j)])
    BY <1>2 DEF CoveredBy
  <2> HIDE DEF part
  <2>5. [j \in DOMAIN ranges |-> part(j)] = <<part(1), part(2)>>
    BY <2>1
  <2> QED
    BY <2>2, <2>3, <2>4, <2>5, FlattenTwo
<1> HIDE DEF ranges, s
<1>8. b \in Seq(T) /\ r \in Seq(T) /\ Len(r) = Len(b)
  BY <1>3
<1>9. /\ \A q \in 1 .. h : b[q] = r[q]
      /\ \A q \in e + 1 .. Len(b) : b[q] = r[q]
  <2> HIDE DEF b, r
  <2>1. ASSUME NEW q \in 1 .. Size(list), q <= h \/ e < q
        PROVE  b[q] = r[q]
    <3>1. \A i \in 1 .. Len(list) : Hole(list, i) = h /\ Hole(list, i) + HoleWidth = e
      BY <1>1
    <3> HIDE DEF h, e
    <3>2. \A i \in 1 .. Len(list) : ~(Hole(list, i) < q /\ q <= Hole(list, i) + HoleWidth)
      BY <1>4, <2>1, <3>1
    <3> QED
      BY <1>3, <3>2
  <2> HIDE DEF h, e
  <2>2. \A q \in 1 .. h : q \in 1 .. Size(list) /\ q <= h
    BY <1>4
  <2>3. \A q \in e + 1 .. Len(b) : q \in 1 .. Size(list) /\ e < q
    BY <1>3, <1>4
  <2> QED
    BY <2>1, <2>2, <2>3
<1> HIDE DEF T, b, r, h, e
<1>10. h \in 0 .. Len(b) /\ e \in 0 .. Len(b)
  BY <1>3, <1>4
<1>11. SubSeq(g, 1, o + h) = file \o x
  <2>1. JoinsStart(file \o b, file, r, h)
    <3> HIDE DEF x, y, g
    <3>1. file \in Seq(Cells(file))
      OBVIOUS
    <3> QED
      BY <1>8, <1>9, <1>10, <3>1, JoinedWith
  <2> QED
    BY <2>1 DEF o, JoinsStart
<1>12. SubSeq(g, o + e + 1, o + Size(list)) = y
  <2>1. SubSeq(file \o b, Len(file) + e + 1, Len(file) + Len(b)) = SubSeq(r, e + 1, Len(b))
    BY <1>8, <1>9, <1>10, JoinedEnd
  <2> QED
    BY <1>3, <2>1 DEF o
<1>13. x \in Seq(T) /\ y \in Seq(T)
  <2>1. SubSeq(r, 0 + 1, h) \in Seq(T)
    <3>1. h \in Nat /\ 0 <= h /\ h <= Len(r)
      BY <1>3, <1>4
    <3> QED
      BY <1>8, <3>1, PartOf
  <2>2. SubSeq(r, e + 1, Len(r)) \in Seq(T)
    <3>1. e \in Nat /\ Len(r) \in Nat /\ e <= Len(r)
      BY <1>3, <1>4
    <3> QED
      BY <1>8, <3>1, PartOf
  <2>3. 0 + 1 = 1
    OBVIOUS
  <2> QED
    BY <2>1, <2>2, <2>3
<1> HIDE DEF x, y
<1>14. (file \o x) \o y = file \o (x \o y)
  <2> DEFINE U == Cells(file) \cup T
  <2>1. file \in Seq(U) /\ x \in Seq(U) /\ y \in Seq(U)
    BY <1>13
  <2> QED
    BY <2>1, Associated
<1>15. CoveredBy(g, s) = Digest(r, list, list[1].handler)
  BY <1>5, <1>7, <1>11, <1>12, <1>14
<1>16. g[s.hole + 1] = b[h + 1]
  <2>1. IsJoined(Cells(file) \cup T, g, file, b)
    BY <1>8, JoinedIs
  <2>2. h + 1 \in 1 .. Len(b) /\ o + h + 1 = o + (h + 1)
    BY <1>1, <1>3, <1>4
  <2>3. g[o + (h + 1)] = b[h + 1]
    BY <2>1, <2>2 DEF IsJoined, o
  <2> QED
    BY <1>2, <2>2, <2>3
<1>17. VerifiesIn(g, s)
  BY <1>3, <1>15, <1>16 DEF VerifiesIn
<1> QED
  BY <1>17 DEF g, s, b, o

(* The signatures that end with one: those of its revision.                 *)
LEMMA WithOld ==
  ASSUME NEW S, NEW ss \in Seq(S), NEW T, NEW news \in Seq(T), NEW s,
         \A j \in 1 .. Len(news) : news[j].end # s.end
  PROVE  With(ss \o news, s) = With(ss, s)
<1> DEFINE t == ss \o news
<1>1. IsJoined(S \cup T, t, ss, news)
  BY JoinedIs
<1> HIDE DEF t
<1>2. /\ DOMAIN t = 1 .. Len(ss) + Len(news) /\ DOMAIN ss = 1 .. Len(ss)
      /\ Len(ss) \in Nat /\ Len(news) \in Nat
      /\ \A i \in 1 .. Len(ss) : t[i] = ss[i]
      /\ \A j \in 1 .. Len(news) : t[Len(ss) + j] = news[j]
  BY <1>1 DEF IsJoined
<1>3. \A i \in DOMAIN t : i \in DOMAIN ss \/ \E j \in 1 .. Len(news) : i = Len(ss) + j
  <2> TAKE i \in DOMAIN t
  <2>1. i \notin 1 .. Len(ss) => i - Len(ss) \in 1 .. Len(news) /\ i = Len(ss) + (i - Len(ss))
    BY <1>2
  <2> QED
    BY <1>2, <2>1
<1>4. DOMAIN ss \subseteq DOMAIN t
  BY <1>2
<1>5. {i \in DOMAIN t : t[i].end = s.end} = {i \in DOMAIN ss : ss[i].end = s.end}
  BY <1>2, <1>3, <1>4
<1>6. \A i \in DOMAIN ss : t[i] = ss[i]
  BY <1>2
<1>7. With(t, s) = With(ss, s)
  BY <1>5, <1>6 DEF With
<1> QED
  BY <1>7 DEF t

LEMMA WithNew ==
  ASSUME NEW S, NEW ss \in Seq(S), NEW T, NEW news \in Seq(T), NEW s,
         \A i \in 1 .. Len(ss) : ss[i].end # s.end,
         \A j \in 1 .. Len(news) : news[j].end = s.end
  PROVE  With(ss \o news, s) = Cells(news)
<1> DEFINE t == ss \o news
<1>1. IsJoined(S \cup T, t, ss, news)
  BY JoinedIs
<1> HIDE DEF t
<1>2. /\ DOMAIN t = 1 .. Len(ss) + Len(news)
      /\ Len(ss) \in Nat /\ Len(news) \in Nat
      /\ \A i \in 1 .. Len(ss) : t[i] = ss[i]
      /\ \A j \in 1 .. Len(news) : t[Len(ss) + j] = news[j]
  BY <1>1 DEF IsJoined
<1>3. \A i \in DOMAIN t : i \in 1 .. Len(ss) \/ \E j \in 1 .. Len(news) : i = Len(ss) + j
  <2> TAKE i \in DOMAIN t
  <2>1. i \notin 1 .. Len(ss) => i - Len(ss) \in 1 .. Len(news) /\ i = Len(ss) + (i - Len(ss))
    BY <1>2
  <2> QED
    BY <1>2, <2>1
<1>4. \A j \in 1 .. Len(news) : Len(ss) + j \in DOMAIN t
  BY <1>2
<1>5. {i \in DOMAIN t : t[i].end = s.end} = {Len(ss) + j : j \in 1 .. Len(news)}
  <2>1. ASSUME NEW i \in DOMAIN t, t[i].end = s.end
        PROVE  \E j \in 1 .. Len(news) : i = Len(ss) + j
    <3>1. i \notin 1 .. Len(ss)
      BY <1>2, <2>1
    <3> QED
      BY <1>3, <3>1
  <2>2. ASSUME NEW j \in 1 .. Len(news)
        PROVE  Len(ss) + j \in DOMAIN t /\ t[Len(ss) + j].end = s.end
    BY <1>2, <1>4
  <2> QED
    BY <2>1, <2>2
<1>6. With(t, s) = {t[Len(ss) + j] : j \in 1 .. Len(news)}
  BY <1>5 DEF With
<1>7. With(t, s) = Cells(news)
  <2>1. DOMAIN news = 1 .. Len(news)
    OBVIOUS
  <2>2. {t[Len(ss) + j] : j \in 1 .. Len(news)} = {news[j] : j \in 1 .. Len(news)}
    <3>1. \A j \in 1 .. Len(news) : t[Len(ss) + j] = news[j]
      BY <1>2
    <3> QED
      BY <3>1
  <2>3. Cells(news) = {news[j] : j \in 1 .. Len(news)}
    BY <2>1 DEF Cells
  <2> DEFINE A == With(t, s)
             B == {t[Len(ss) + j] : j \in 1 .. Len(news)}
             C == {news[j] : j \in 1 .. Len(news)}
             D == Cells(news)
  <2>4. A = B /\ B = C /\ D = C
    BY <1>6, <2>2, <2>3
  <2> HIDE DEF A, B, C, D
  <2>5. A = D
    BY <2>4
  <2> QED
    BY <2>5 DEF A, D
<1> QED
  BY <1>7 DEF t

-----------------------------------------------------------------------------
News(o, list) == [i \in 1 .. Len(list) |-> NewSig(o, list, i)]

(* SignRevision, as far as the file and the signatures go.                  *)
LEMMA SignStep ==
  ASSUME NEW list \in Lists, SignRevision(list), file \in Seq(Cells(file))
  PROVE  /\ Len(list) \in Nat \ {0} /\ DOMAIN list = 1 .. Len(list) /\ Len(file) \in Nat
         /\ file' = file \o Signed(Len(file), list)
         /\ Len(file') = Len(file) + Size(list)
         /\ sigs' = sigs \o News(Len(file), list)
<1> DEFINE o == Len(file)
           b == Signed(o, list)
           k == Len(list)
<1>1. PICK n \in 1 .. MaxSigs : list \in [1 .. n -> [handler : Handlers, first : {"Contents", "ByteRange"}]]
  BY DEF Lists
<1>2. n \in Nat \ {0}
  BY SignaturesAssumptions
<1>3. k = n /\ DOMAIN list = 1 .. n
  BY <1>1, <1>2, FunctionIsSeq
<1>4. k \in Nat \ {0} /\ DOMAIN list = 1 .. k /\ o \in Nat
  BY <1>2, <1>3
<1>5. b \in Seq(Cells(b)) /\ Len(b) = Size(list)
  BY <1>4, SignedIs
<1>6. file' = file \o b
  BY DEF SignRevision
<1> DEFINE new(i) == [ranges |-> ByteRange(o, list), revision |-> o, end |-> Len(file'),
                      alone |-> k = 1, hole |-> FileOffset(o, list, i) + ContentsStart(list[i], k)]
<1>7. sigs' = sigs \o [i \in 1 .. k |-> new(i)]
  BY DEF SignRevision
<1>8. Len(file') = o + Size(list)
  <2> HIDE DEF b
  <2>1. Len(file \o b) = Len(file) + Len(b)
    BY <1>5
  <2> QED
    BY <1>5, <1>6, <2>1
<1>9. \A i \in 1 .. k : new(i) = NewSig(o, list, i)
  <2> TAKE i \in 1 .. k
  <2>1. FileOffset(o, list, i) + ContentsStart(list[i], k) = o + Hole(list, i)
    BY <1>4, OffsetsAre
  <2> QED
    BY <1>8, <2>1 DEF NewSig
<1> HIDE DEF new, o, b, k
<1>10. [i \in 1 .. k |-> new(i)] = [i \in 1 .. k |-> NewSig(o, list, i)]
  BY <1>9
<1>11. sigs' = sigs \o [i \in 1 .. k |-> NewSig(o, list, i)]
  BY <1>7, <1>10
<1> QED
  BY <1>4, <1>6, <1>8, <1>11 DEF o, b, k, News

LEMMA NewHolds ==
  ASSUME NEW list, Len(list) \in Nat \ {0}, DOMAIN list = 1 .. Len(list), file \in Seq(Cells(file)),
         NEW i \in 1 .. Len(list)
  PROVE  Holds(NewSig(Len(file), list, i), file \o Signed(Len(file), list),
               {NewSig(Len(file), list, n) : n \in 1 .. Len(list)})
<1> DEFINE o == Len(file)
           b == Signed(o, list)
           g == file \o b
           s == NewSig(o, list, i)
           all == {NewSig(o, list, n) : n \in 1 .. Len(list)}
<1>1. o \in Nat
  OBVIOUS
<1>2. Len(g) = o + Size(list)
  <2>1. b \in Seq(Cells(b)) /\ Len(b) = Size(list)
    BY <1>1, SignedIs
  <2> HIDE DEF b
  <2>2. Len(file \o b) = Len(file) + Len(b)
    BY <2>1
  <2> QED
    BY <2>1, <2>2
<1>3. Placed(s, g)
  <2> HIDE DEF g, o
  <2> QED
    BY <1>1, <1>2, NewPlaced
<1>4. WrittenIn(g, s)
  BY NewWritten
<1>5. ExactFor(all, s)
  BY <1>1, NewExact
<1>6. ASSUME s.alone PROVE VerifiesIn(g, s)
  <2>1. Len(list) = 1
    BY <1>6, NewSigIs
  <2>2. i = 1
    BY <2>1
  <2>3. VerifiesIn(file \o Signed(Len(file), list), NewSig(Len(file), list, 1))
    <3> HIDE DEF g, s, b, o
    <3> QED
      BY <2>1, NewVerifies
  <2> QED
    BY <2>2, <2>3
<1> QED
  BY <1>3, <1>4, <1>5, <1>6 DEF Holds

LEMMA SignKeeps ==
  ASSUME IInv, NEW list \in Lists, SignRevision(list)
  PROVE  IInv'
<1> DEFINE o == Len(file)
           b == Signed(o, list)
           news == News(o, list)
           k == Len(list)
           N == {NewSig(o, list, n) : n \in 1 .. k}
<1>1. /\ k \in Nat \ {0} /\ DOMAIN list = 1 .. k /\ o \in Nat
      /\ file' = file \o b /\ Len(file') = o + Size(list) /\ sigs' = sigs \o news
  BY SignStep DEF IInv
<1>2. b \in Seq(Cells(b)) /\ Len(b) = Size(list)
  BY <1>1, SignedIs
<1>3. news \in Seq(N) /\ Len(news) = k /\ \A n \in 1 .. k : news[n] = NewSig(o, list, n)
  <2>1. news \in [1 .. k -> N] /\ \A n \in 1 .. k : news[n] = NewSig(o, list, n)
    BY DEF News
  <2>2. k \in Nat
    BY <1>1
  <2> HIDE DEF news, N, k
  <2> QED
    BY <2>1, <2>2
<1>4. \A n \in 1 .. k : news[n].end = o + Size(list)
  BY <1>3, NewSigIs
<1>5. /\ file \in Seq(Cells(file)) /\ sigs \in Seq(Cells(sigs))
      /\ \A i \in 1 .. Len(sigs) : Holds(sigs[i], file, With(sigs, sigs[i]))
  BY DEF IInv
<1>6. Size(list) \in Nat \ {0}
  <2>1. 1 \in 1 .. Len(list) /\ Len(list) \in Nat
    BY <1>1
  <2>2. Hole(list, 1) \in Nat /\ HoleWidth \in Nat /\ Hole(list, 1) + HoleWidth < Size(list) /\ Size(list) \in Nat
    BY <2>1, Layout
  <2> QED
    BY <2>2
<1>7. \A i \in 1 .. Len(sigs) : sigs[i].end # o + Size(list)
  <2> TAKE i \in 1 .. Len(sigs)
  <2>1. Placed(sigs[i], file)
    BY <1>5 DEF Holds
  <2>2. sigs[i].end \in Nat /\ sigs[i].end <= o
    BY <2>1 DEF Placed
  <2> HIDE DEF o
  <2> QED
    BY <1>1, <1>6, <2>2
<1> DEFINE ss == sigs \o news
           g == file \o b
<1> HIDE DEF news, N, b, o, k
<1>8. /\ g \in Seq(Cells(g)) /\ ss \in Seq(Cells(ss))
      /\ Len(ss) = Len(sigs) + Len(news)
      /\ \A i \in 1 .. Len(sigs) : ss[i] = sigs[i]
      /\ \A n \in 1 .. Len(news) : ss[Len(sigs) + n] = news[n]
  <2>1. IsJoined(Cells(file) \cup Cells(b), g, file, b)
    BY <1>2, <1>5, JoinedIs
  <2>2. IsJoined(Cells(sigs) \cup N, ss, sigs, news)
    BY <1>3, <1>5, JoinedIs
  <2> HIDE DEF g, ss
  <2>3. g \in Seq(Cells(g)) /\ ss \in Seq(Cells(ss))
    BY <2>1, <2>2, SeqInCells DEF IsJoined
  <2> QED
    BY <2>2, <2>3 DEF IsJoined
<1>9. ASSUME NEW i \in 1 .. Len(ss) PROVE Holds(ss[i], g, With(ss, ss[i]))
  <2>1. CASE i \in 1 .. Len(sigs)
    <3> DEFINE s == sigs[i]
    <3>1. Holds(s, file, With(sigs, s))
      BY <1>5, <2>1
    <3>2. ss[i] = s
      BY <1>8, <2>1
    <3>3. s.end # o + Size(list)
      BY <1>7, <2>1
    <3> HIDE DEF s
    <3>4. With(sigs \o news, s) = With(sigs, s)
      <4>1. \A n \in 1 .. Len(news) : news[n].end # s.end
        BY <1>3, <1>4, <3>3
      <4> HIDE DEF ss
      <4> QED
        BY <1>3, <1>5, <4>1, WithOld
    <3>5. Holds(s, file \o b, With(sigs, s))
      BY <1>2, <1>5, <3>1, HoldsLater
    <3> QED
      BY <3>2, <3>4, <3>5
  <2>2. CASE i \notin 1 .. Len(sigs)
    <3> DEFINE n == i - Len(sigs)
    <3>1. n \in 1 .. k /\ i = Len(sigs) + n /\ n \in 1 .. Len(news)
      <4>1. Len(sigs) \in Nat /\ Len(news) = k /\ k \in Nat /\ i \in 1 .. Len(sigs) + k
        BY <1>1, <1>3, <1>5, <1>8
      <4> QED
        BY <2>2, <4>1
    <3> HIDE DEF n
    <3> DEFINE s == NewSig(o, list, n)
    <3>2. ss[i] = s
      BY <1>3, <1>8, <3>1
    <3>3. s.end = o + Size(list)
      BY NewSigIs
    <3>4. Holds(s, g, {NewSig(o, list, m) : m \in 1 .. k})
      BY <1>1, <1>5, <3>1, NewHolds DEF o, b, k
    <3> HIDE DEF s
    <3>5. With(sigs \o news, s) = Cells(news)
      <4>1. /\ \A m \in 1 .. Len(news) : news[m].end = s.end
            /\ \A m \in 1 .. Len(sigs) : sigs[m].end # s.end
        BY <1>3, <1>4, <1>7, <3>3
      <4> HIDE DEF ss
      <4> QED
        BY <1>3, <1>5, <4>1, WithNew
    <3>6. Cells(news) = {NewSig(o, list, m) : m \in 1 .. k}
      <4>1. DOMAIN news = 1 .. k
        BY <1>3
      <4> QED
        BY <1>3, <4>1 DEF Cells
    <3> QED
      BY <3>2, <3>4, <3>5, <3>6
  <2> QED
    BY <2>1, <2>2
<1>10. file' = g /\ sigs' = ss
  BY <1>1
<1> HIDE DEF g, ss
<1> QED
  BY <1>8, <1>9, <1>10 DEF IInv, Cells

LEMMA PlainKeeps ==
  ASSUME IInv, NEW n \in 1 .. 2, AppendPlain(n)
  PROVE  IInv'
<1> DEFINE t == Text(n)
           g == file \o t
<1>1. file' = g /\ sigs' = sigs
  BY DEF AppendPlain
<1>2. t \in Seq(Cells(t))
  <2>1. n \in Nat
    OBVIOUS
  <2> QED
    BY <2>1, TextIsSeq, SeqInCells
<1>3. /\ file \in Seq(Cells(file)) /\ sigs \in Seq(Cells(sigs))
      /\ \A i \in 1 .. Len(sigs) : Holds(sigs[i], file, With(sigs, sigs[i]))
  BY DEF IInv
<1> HIDE DEF t
<1>4. g \in Seq(Cells(g))
  <2>1. IsJoined(Cells(file) \cup Cells(t), g, file, t)
    BY <1>2, <1>3, JoinedIs
  <2> HIDE DEF g
  <2> QED
    BY <2>1, SeqInCells DEF IsJoined
<1>5. \A i \in 1 .. Len(sigs) : Holds(sigs[i], g, With(sigs, sigs[i]))
  BY <1>2, <1>3, HoldsLater
<1> HIDE DEF g
<1> QED
  BY <1>1, <1>3, <1>4, <1>5 DEF IInv, Cells

LEMMA Stuttering ==
  ASSUME IInv, UNCHANGED <<file, sigs>>
  PROVE  IInv'
<1>1. file' = file /\ sigs' = sigs
  OBVIOUS
<1> QED
  BY <1>1 DEF IInv, Cells

LEMMA SigInitHolds ==
  ASSUME SigInit
  PROVE  IInv
<1>1. file \in Seq(Cells(file))
  BY TextIsSeq, SeqInCells DEF SigInit
<1>2. sigs \in Seq(Cells(sigs)) /\ Len(sigs) = 0
  BY DEF SigInit
<1> QED
  BY <1>1, <1>2 DEF IInv

(* Of every signature the ranges in the file are those that were digested,  *)
(* and they leave out the Contents of the revision's signatures only.  A    *)
(* signature that is the only one of its revision verifies, in that         *)
(* revision and in all later ones (Write with signatures,                   *)
(* ValidateSignatures); of several in one revision nothing is said of that, *)
(* and it is not so.  Whatever the handlers, widths and revisions.          *)
THEOREM SignaturesSoundHolds == SigSpec => []SignaturesSound
<1>1. SigInit => IInv
  BY SigInitHolds
<1>2. IInv /\ [SigNext]_sigVars => IInv'
  <2> SUFFICES ASSUME IInv, [SigNext]_sigVars
               PROVE  IInv'
    OBVIOUS
  <2>1. CASE \E n \in 1 .. 2 : AppendPlain(n)
    BY <2>1, PlainKeeps
  <2>2. CASE \E list \in Lists : SignRevision(list)
    BY <2>2, SignKeeps
  <2>3. CASE SignFails
    BY <2>3, Stuttering DEF SignFails
  <2>4. CASE UNCHANGED sigVars
    BY <2>4, Stuttering DEF sigVars
  <2> QED
    BY <2>1, <2>2, <2>3, <2>4 DEF SigNext
<1>3. IInv => SignaturesSound
  BY Implies
<1> QED
  BY <1>1, <1>2, <1>3, PTL DEF SigSpec
=============================================================================

--------------------------- MODULE PageTreeProofs ---------------------------
(***************************************************************************)
(* Proofs about PageTree, for every file and any number of nodes, loads    *)
(* and pages.                                                              *)
(***************************************************************************)
EXTENDS PageTree, CommonLemmas

-----------------------------------------------------------------------------
LEMMA NodesFacts ==
  /\ IsFiniteSet(Nodes) /\ Cardinality(Nodes) \in Nat
  /\ Nil \notin Nodes /\ Fresh \notin Nodes /\ Tree \notin Nodes
  /\ Nil # Fresh /\ Nil # Tree /\ Fresh # Tree
<1>1. IsFiniteSet(Nodes) /\ Cardinality(Nodes) \in Nat
  BY Assumptions, FS_CardinalityType
<1>2. Nil \notin Nodes /\ Fresh \notin Nodes /\ Tree \notin Nodes
  BY Assumptions
<1>3. \A a, b : Cardinality({a, b}) <= 2
  <2> TAKE a, b
  <2>1. IsFiniteSet({a}) /\ Cardinality({a}) = 1
    BY FS_Singleton
  <2>2. Cardinality({a} \cup {b}) = IF b \in {a} THEN 1 ELSE 2
    BY <2>1, FS_AddElement
  <2>3. {a, b} = {a} \cup {b}
    OBVIOUS
  <2> QED
    BY <2>2, <2>3
<1>4. ASSUME Nil = Fresh \/ Nil = Tree \/ Fresh = Tree
      PROVE  FALSE
  <2>1. \E a, b : {Nil, Fresh, Tree} = {a, b}
    BY <1>4
  <2>2. Cardinality({Nil, Fresh, Tree}) <= 2
    BY <1>3, <2>1
  <2>3. Cardinality({Nil, Fresh, Tree}) = 3
    BY Assumptions
  <2> QED
    BY <2>2, <2>3
<1> QED
  BY <1>1, <1>2, <1>4

(* What is at the end of a sequence, and what follows its head.             *)
LEMMA AppendFacts ==
  ASSUME NEW D, NEW s \in Seq(D), NEW x \in D
  PROVE  /\ Append(s, x) \in Seq(D) /\ Len(Append(s, x)) = Len(s) + 1
         /\ DOMAIN Append(s, x) = 1 .. Len(s) + 1
         /\ \A i \in 1 .. Len(s) : Append(s, x)[i] = s[i]
         /\ Append(s, x)[Len(s) + 1] = x
OBVIOUS

LEMMA TailFacts ==
  ASSUME NEW D, NEW s \in Seq(D), s # << >>
  PROVE  /\ Tail(s) \in Seq(D) /\ Len(Tail(s)) = Len(s) - 1
         /\ Len(s) \in Nat \ {0} /\ DOMAIN Tail(s) = 1 .. Len(s) - 1
         /\ \A i \in 1 .. Len(s) - 1 : Tail(s)[i] = s[i + 1]
OBVIOUS

-----------------------------------------------------------------------------
(* The chain of Parents that Ancestors follows.                             *)
Chain(par, refs, n, s) ==
  /\ s \in Seq(Nodes \cup {Tree}) /\ s # << >> /\ s[1] = n
  /\ \A i \in 1 .. Len(s) - 1 :
       s[i] \in Nodes /\ s[i] \notin refs /\ par[s[i]] # Nil /\ s[i + 1] = par[s[i]]
  /\ Len(s) <= Cardinality(Nodes) + 2

\* One step up, as Ancestors takes it.
Grow(par, refs, s, i) ==
  LET last == s[Len(s)]
  IN  IF Len(s) < i \/ last = Tree \/ last \in refs \/ par[last] = Nil
      THEN s ELSE Append(s, par[last])

\* up is the ways up after each step, the last of which Ancestors yields.
Most == Cardinality(Nodes) + 1
Unfolded(par, refs, n, up) ==
  /\ \A i \in 0 .. Most : up[i] = IF i = 0 THEN <<n>> ELSE Grow(par, refs, up[i - 1], i)
  /\ Ancestors(par, refs, n) = Tail(up[Most])

LEMMA AncestorsUnfold ==
  ASSUME NEW par, NEW refs, NEW n
  PROVE  \E up : Unfolded(par, refs, n, up)
<1> DEFINE N == Cardinality(Nodes) + 1
           Body(f, m) == [i \in 0 .. m |-> IF i = 0 THEN <<n>> ELSE Grow(par, refs, f[i - 1], i)]
           Exists(m) == \E f : f = Body(f, m)
           up == CHOOSE f : f = Body(f, N)
<1>1. N \in Nat
  BY NodesFacts
<1> HIDE DEF N
<1>2. \A m \in 0 .. N : Exists(m)
  <2> DEFINE Bad == {m \in 0 .. N : ~Exists(m)}
  <2> SUFFICES ASSUME Bad # {} PROVE FALSE
    OBVIOUS
  <2>1. PICK m \in Bad : \A k \in Bad : m <= k
    <3> HIDE DEF Exists
    <3>1. Bad \in SUBSET Nat
      BY <1>1
    <3> QED
      BY <3>1, LeastOf
  <2>2. m # 0
    <3> DEFINE f == [i \in 0 .. 0 |-> <<n>>]
    <3>1. f = Body(f, 0)
      OBVIOUS
    <3> QED
      BY <3>1
  <2>3. m \in 1 .. N /\ m - 1 \in 0 .. N /\ m - 1 \notin Bad
    <3> HIDE DEF Exists
    <3> QED
      BY <1>1, <2>1, <2>2
  <2>4. PICK f : f = Body(f, m - 1)
    BY <2>3
  <2> DEFINE h == [i \in 0 .. m |-> IF i = m THEN Grow(par, refs, f[m - 1], m) ELSE f[i]]
  <2>5. \A i \in 0 .. m - 1 : h[i] = f[i]
    BY <2>3
  <2>6. \A i \in 0 .. m : h[i] = Body(h, m)[i]
    <3> TAKE i \in 0 .. m
    <3>1. CASE i = m
      BY <2>3, <2>5, <3>1
    <3>2. CASE i # m
      <4>1. i \in 0 .. m - 1 /\ (i # 0 => i - 1 \in 0 .. m - 1)
        BY <2>3, <3>2
      <4>2. f[i] = IF i = 0 THEN <<n>> ELSE Grow(par, refs, f[i - 1], i)
        BY <2>4, <4>1
      <4> QED
        BY <2>5, <4>1, <4>2
    <3> QED
      BY <3>1, <3>2
  <2>7. h = Body(h, m)
    <3> HIDE DEF Exists
    <3>1. DOMAIN h = 0 .. m /\ DOMAIN Body(h, m) = 0 .. m
      OBVIOUS
    <3> QED
      BY <2>6, <3>1
  <2>8. Exists(m)
    BY <2>7
  <2> QED
    BY <2>1, <2>8
<1>3. up = Body(up, N)
  <2>1. Exists(N)
    <3>1. N \in 0 .. N
      BY <1>1
    <3> HIDE DEF Exists
    <3> QED
      BY <1>2, <3>1
  <2> HIDE DEF Body
  <2> QED
    BY <2>1
<1> HIDE DEF up, Exists
<1>4. \A i \in 0 .. N : up[i] = IF i = 0 THEN <<n>> ELSE Grow(par, refs, up[i - 1], i)
  BY <1>3
<1>5. Ancestors(par, refs, n) = Tail(up[N])
  BY DEF Ancestors, up, Body, Grow, N
<1> HIDE DEF N
<1> QED
  BY <1>4, <1>5 DEF N, Most, Unfolded

LEMMA AncestorsFacts ==
  ASSUME NEW par \in [Nodes -> Parents], NEW refs, NEW n \in Nodes
  PROVE  \E s : Chain(par, refs, n, s) /\ Ancestors(par, refs, n) = Tail(s)
<1> DEFINE N == Cardinality(Nodes) + 1
<1>1. N \in Nat
  BY NodesFacts
<1>2. PICK up : Unfolded(par, refs, n, up)
  BY AncestorsUnfold
<1> HIDE DEF N
<1>3. Ancestors(par, refs, n) = Tail(up[N])
  BY <1>2 DEF Unfolded, Most, N
<1>4. \A i \in 0 .. N : up[i] = IF i = 0 THEN <<n>> ELSE Grow(par, refs, up[i - 1], i)
  BY <1>2 DEF Unfolded, Most, N
<1> DEFINE D == Nodes \cup {Tree}
           Right(s, i) ==
             /\ s \in Seq(D) /\ s # << >> /\ s[1] = n /\ Len(s) <= i + 1
             /\ \A k \in 1 .. Len(s) - 1 :
                  s[k] \in Nodes /\ s[k] \notin refs /\ par[s[k]] # Nil /\ s[k + 1] = par[s[k]]
<1>5. \A i \in 0 .. N : Right(up[i], i)
  <2> DEFINE Bad == {m \in 0 .. N : ~Right(up[m], m)}
  <2> SUFFICES ASSUME Bad # {} PROVE FALSE
    OBVIOUS
  <2>1. PICK m \in Bad : \A k \in Bad : m <= k
    <3> HIDE DEF Right
    <3>1. Bad \in SUBSET Nat
      BY <1>1
    <3> QED
      BY <3>1, LeastOf
  <2>2. m # 0
    <3>1. up[0] = <<n>>
      BY <1>1, <1>4
    <3>2. <<n>> \in Seq(D) /\ <<n>> # << >> /\ Len(<<n>>) = 1 /\ <<n>>[1] = n
      OBVIOUS
    <3>3. Right(<<n>>, 0)
      BY <3>2
    <3> QED
      BY <3>1, <3>3
  <2>3. m \in 1 .. N /\ m - 1 \in 0 .. N /\ m - 1 \notin Bad
    <3> HIDE DEF Right
    <3> QED
      BY <1>1, <2>1, <2>2
  <2> DEFINE s == up[m - 1]
             last == s[Len(s)]
             x == par[last]
  <2>4. Right(s, m - 1)
    BY <2>3
  <2>5. up[m] = Grow(par, refs, s, m)
    BY <1>4, <2>3
  <2> HIDE DEF s
  <2>6. Len(s) \in Nat \ {0} /\ DOMAIN s = 1 .. Len(s) /\ last \in D /\ Len(s) <= m
    BY <2>3, <2>4
  <2>7. CASE Len(s) < m \/ last = Tree \/ last \in refs \/ par[last] = Nil
    <3>1. up[m] = s
      BY <2>5, <2>7 DEF Grow
    <3> QED
      BY <2>3, <2>4, <2>6, <3>1
  <2>8. CASE ~(Len(s) < m \/ last = Tree \/ last \in refs \/ par[last] = Nil)
    <3> DEFINE t == Append(s, x)
    <3>1. up[m] = t
      BY <2>5, <2>8 DEF Grow
    <3>2. last \in Nodes /\ x \in D
      BY <2>6, <2>8 DEF Parents
    <3>3. /\ t \in Seq(D) /\ Len(t) = Len(s) + 1 /\ t[Len(s) + 1] = x
          /\ \A k \in 1 .. Len(s) : t[k] = s[k]
      <4> HIDE DEF D, x
      <4> QED
        BY <2>4, <3>2, AppendFacts
    <3> HIDE DEF t, D
    <3>4. \A k \in 1 .. Len(t) - 1 :
            t[k] \in Nodes /\ t[k] \notin refs /\ par[t[k]] # Nil /\ t[k + 1] = par[t[k]]
      <4> TAKE k \in 1 .. Len(t) - 1
      <4>1. CASE k = Len(s)
        BY <2>6, <2>8, <3>2, <3>3, <4>1
      <4>2. CASE k # Len(s)
        <5>1. k \in 1 .. Len(s) - 1 /\ k \in 1 .. Len(s) /\ k + 1 \in 1 .. Len(s)
          <6>1. \A l, j \in Nat : j \in 1 .. (l + 1) - 1 /\ j # l => j \in 1 .. l - 1 /\ j \in 1 .. l /\ j + 1 \in 1 .. l
            OBVIOUS
          <6>2. k \in Nat /\ Len(s) \in Nat /\ k \in 1 .. (Len(s) + 1) - 1
            BY <2>6, <3>3
          <6> QED
            BY <4>2, <6>1, <6>2
        <5> QED
          BY <2>4, <3>3, <5>1
      <4> QED
        BY <4>1, <4>2
    <3>5. t # << >> /\ t[1] = n /\ Len(t) <= m + 1
      BY <2>3, <2>4, <2>6, <3>3
    <3> QED
      BY <3>1, <3>3, <3>4, <3>5
  <2> QED
    BY <2>1, <2>7, <2>8
<1>6. Right(up[N], N)
  <2>1. N \in 0 .. N
    BY <1>1
  <2> HIDE DEF Right
  <2> QED
    BY <1>5, <2>1
<1>7. Ancestors(par, refs, n) = Tail(up[N])
  BY <1>3
<1>8. Chain(par, refs, n, up[N])
  BY <1>6, NodesFacts DEF Chain, N
<1> QED
  BY <1>7, <1>8

LEMMA AncestorsType ==
  ASSUME NEW par \in [Nodes -> Parents], NEW refs, NEW n \in Nodes
  PROVE  Ancestors(par, refs, n) \in Seq(Nodes \cup {Tree})
<1> DEFINE D == Nodes \cup {Tree}
<1>1. PICK s : Chain(par, refs, n, s) /\ Ancestors(par, refs, n) = Tail(s)
  BY AncestorsFacts
<1>2. s \in Seq(D) /\ s # << >>
  BY <1>1 DEF Chain
<1> HIDE DEF D
<1>3. Tail(s) \in Seq(D)
  BY <1>2, TailFacts
<1> QED
  BY <1>1, <1>3 DEF D

(* A way up that is longer than there are nodes comes back to a node: there *)
(* are nodes whose Parents are among them.                                  *)
LEMMA CircularClosed ==
  ASSUME NEW par \in [Nodes -> Parents], NEW refs, NEW n \in Nodes,
         Circular(Ancestors(par, refs, n))
  PROVE  \E S \in (SUBSET Nodes) \ {{}} : \A m \in S : par[m] \in S
<1> DEFINE N == Cardinality(Nodes)
           I == 1 .. N + 1
<1>1. PICK s : Chain(par, refs, n, s) /\ Ancestors(par, refs, n) = Tail(s)
  BY AncestorsFacts
<1>2. N \in Nat /\ IsFiniteSet(Nodes)
  BY NodesFacts
<1>3. Len(s) = N + 2
  <2>1. s \in Seq(Nodes \cup {Tree}) /\ s # << >> /\ Len(s) <= N + 2
    BY <1>1 DEF Chain
  <2>2. Len(Tail(s)) > N
    BY <1>1 DEF Circular
  <2> DEFINE D == Nodes \cup {Tree}
  <2> HIDE DEF N, D
  <2>3. Len(Tail(s)) = Len(s) - 1 /\ Len(s) \in Nat
    <3>1. s \in Seq(D)
      BY <2>1 DEF D
    <3> QED
      BY <2>1, <3>1, TailFacts
  <2>4. N \in Nat /\ Len(s) <= N + 2 /\ Len(s) - 1 > N
    BY <1>2, <2>1, <2>2, <2>3 DEF N
  <2> QED
    BY <2>3, <2>4
<1> HIDE DEF N
<1>4. \A i \in I : s[i] \in Nodes /\ s[i + 1] = par[s[i]]
  <2>1. I = 1 .. Len(s) - 1
    BY <1>2, <1>3
  <2> QED
    BY <1>1, <2>1 DEF Chain
<1> DEFINE f == [i \in I |-> s[i]]
<1>5. \E i, j \in I : i # j /\ f[i] = f[j]
  <2>1. f \in [I -> Nodes]
    BY <1>4
  <2>2. IsFiniteSet(I) /\ Cardinality(I) = N + 1
    <3>1. 1 \in Int /\ N + 1 \in Int
      BY <1>2
    <3>2. Cardinality(1 .. N + 1) = IF 1 > N + 1 THEN 0 ELSE (N + 1) - 1 + 1
      BY <3>1, FS_Interval
    <3> QED
      BY <1>2, <3>1, <3>2, FS_Interval
  <2>3. Cardinality(Nodes) < Cardinality(I)
    BY <1>2, <2>2 DEF N
  <2> HIDE DEF f, I
  <2> QED
    BY <1>2, <2>1, <2>2, <2>3, FS_PigeonHole
<1>6. PICK i \in I, j \in I : i < j /\ s[i] = s[j]
  <2>1. PICK i \in I, j \in I : i # j /\ s[i] = s[j]
    BY <1>5
  <2>2. i < j \/ j < i
    BY <1>2, <2>1
  <2> QED
    BY <2>1, <2>2
<1> DEFINE S == {s[k] : k \in i .. j - 1}
<1>7. i .. j - 1 \subseteq I /\ i \in i .. j - 1
  BY <1>2, <1>6
<1>8. S \in SUBSET Nodes /\ S # {}
  BY <1>4, <1>7
<1>9. \A m \in S : par[m] \in S
  <2> SUFFICES ASSUME NEW k \in i .. j - 1
               PROVE  par[s[k]] \in S
    OBVIOUS
  <2>1. k \in I /\ par[s[k]] = s[k + 1]
    BY <1>4, <1>7
  <2>2. CASE k = j - 1
    <3>1. k + 1 = j
      BY <1>2, <1>6, <2>2
    <3> QED
      BY <1>6, <1>7, <2>1, <3>1
  <2>3. CASE k # j - 1
    <3>1. k + 1 \in i .. j - 1
      BY <1>2, <1>6, <2>3
    <3> QED
      BY <2>1, <3>1
  <2> QED
    BY <2>2, <2>3
<1> QED
  BY <1>8, <1>9

LEMMA FirstOfType ==
  ASSUME NEW val \in [Nodes -> Values], NEW s \in Seq(Nodes \cup {Tree}), NEW a \in Attrs
  PROVE  FirstOf(val, s, a) \in Nodes \cup {Nil, Fresh}
<1> DEFINE has == {i \in DOMAIN s : s[i] # Tree /\ val[s[i]][a] # Nil}
           i0 == CHOOSE i \in has : \A j \in has : i <= j
<1>1. CASE has = {}
  BY <1>1 DEF FirstOf
<1>2. CASE has # {}
  <2>1. has \in SUBSET Nat
    OBVIOUS
  <2>2. \E i \in has : \A j \in has : i <= j
    <3> HIDE DEF has
    <3> QED
      BY <1>2, <2>1, LeastOf
  <2>3. i0 \in has
    <3> HIDE DEF has
    <3> QED
      BY <2>2
  <2> HIDE DEF i0
  <2>4. s[i0] \in Nodes
    BY <2>3
  <2>5. val[s[i0]][a] \in Nodes \cup {Nil, Fresh}
    BY <2>4 DEF Values
  <2>6. FirstOf(val, s, a) = val[s[i0]][a]
    BY <1>2 DEF FirstOf, i0
  <2> QED
    BY <2>5, <2>6
<1> QED
  BY <1>1, <1>2

-----------------------------------------------------------------------------
(* Types.  A page is added only when it was loaded, so that there is a      *)
(* model for it, and no load follows.                                       *)
TypeInv ==
  /\ TypeOK
  /\ phase \in {"closed", "loading"} => out = << >>
  /\ Len(pageList) <= Len(models)

LEMMA TypeInit == Init => TypeInv
<1> SUFFICES ASSUME Init PROVE TypeInv
  OBVIOUS
<1> USE DEF Init
<1>1. doc \in Doc
  BY Assumptions
<1>2. parent \in [Nodes -> Parents]
  BY <1>1 DEF Doc, Parents
<1>3. value \in [Nodes -> Values]
  BY DEF Values
<1>4. loads \in 0 .. MaxLoads
  BY Assumptions
<1> QED
  BY <1>1, <1>2, <1>3, <1>4 DEF TypeInv, TypeOK

Frames == [node : Nodes, par : Nodes \cup {Nil}, at : Nat]

LEMMA TopType ==
  ASSUME stack \in Seq(Frames), stack # << >>
  PROVE  /\ Top \in Frames /\ Top.node \in Nodes /\ Top.par \in Nodes \cup {Nil} /\ Top.at \in Nat
         /\ Len(stack) \in Nat \ {0} /\ DOMAIN stack = 1 .. Len(stack)
<1>1. Top \in Frames
  BY DEF Top
<1> QED
  BY <1>1 DEF Frames

(* The kid of the innermost activation is another.                          *)
LEMMA SetAt ==
  ASSUME stack \in Seq(Frames), stack # << >>, NEW k \in Nat
  PROVE  LET t == [stack EXCEPT ![1].at = k]
         IN  /\ t \in Seq(Frames) /\ Len(t) = Len(stack) /\ t # << >>
             /\ t[1].node = Top.node /\ t[1].par = Top.par /\ t[1].at = k
             /\ \A i \in 2 .. Len(stack) : t[i] = stack[i]
<1> DEFINE f == [Top EXCEPT !.at = k]
           t == [stack EXCEPT ![1] = f]
<1>1. f \in Frames /\ f.node = Top.node /\ f.par = Top.par /\ f.at = k
  BY TopType DEF Frames
<1>2. [stack EXCEPT ![1].at = k] = t
  BY DEF Top
<1> HIDE DEF f
<1>3. Len(stack) \in Nat \ {0} /\ DOMAIN stack = 1 .. Len(stack)
  BY TopType
<1>4. t \in Seq(Frames) /\ Len(t) = Len(stack) /\ t[1] = f /\ \A i \in 2 .. Len(stack) : t[i] = stack[i]
  BY <1>1, <1>3
<1>5. t # << >>
  BY <1>3, <1>4
<1> HIDE DEF t
<1> QED
  BY <1>1, <1>2, <1>4, <1>5

(* An activation of buildPageList for a kid.                                *)
LEMMA PushKid ==
  ASSUME stack \in Seq(Frames), NEW s \in Seq(Frames), NEW c \in Nodes, NEW n \in Nodes \cup {Nil}
  PROVE  LET t == <<Frame(c, n)>> \o s
         IN  /\ t \in Seq(Frames) /\ Len(t) = Len(s) + 1 /\ t # << >>
             /\ t[1] = Frame(c, n) /\ t[1].node = c /\ t[1].par = n /\ t[1].at = 0
             /\ \A i \in 1 .. Len(s) : t[i + 1] = s[i]
<1> DEFINE f == Frame(c, n)
           t == <<f>> \o s
<1>1. f \in Frames /\ f.node = c /\ f.par = n /\ f.at = 0
  BY DEF Frame, Frames
<1> HIDE DEF f
<1>2. t \in Seq(Frames) /\ Len(t) = Len(s) + 1 /\ t[1] = f /\ \A i \in 1 .. Len(s) : t[i + 1] = s[i]
  BY <1>1
<1>3. t # << >>
  BY <1>2
<1> HIDE DEF t
<1> QED
  BY <1>1, <1>2, <1>3 DEF f, t

LEMMA KidsType ==
  ASSUME doc \in Doc, NEW n \in Nodes
  PROVE  /\ doc.kids[n] \in Seq(Nodes) /\ Len(doc.kids[n]) \in Nat
         /\ DOMAIN doc.kids[n] = 1 .. Len(doc.kids[n])
         /\ \A k \in DOMAIN doc.kids[n] : doc.kids[n][k] \in Nodes
         /\ Elems(doc.kids[n]) \subseteq Nodes
         /\ doc.type[n] \in {"Pages", "Page", "Other"}
         /\ doc.parent[n] \in Nodes \cup {Nil}
<1>1. doc.kids[n] \in Seq(Nodes)
  BY DEF Doc
<1>2. doc.type[n] \in {"Pages", "Page", "Other"} /\ doc.parent[n] \in Nodes \cup {Nil}
  BY DEF Doc
<1> QED
  BY <1>1, <1>2 DEF Elems

LEMMA CorrectedType ==
  ASSUME parent \in [Nodes -> Parents], isRef \in SUBSET Nodes, stack \in Seq(Frames), stack # << >>
  PROVE  Corrected(parent) \in [Nodes -> Parents] /\ Linked(isRef) \in SUBSET Nodes
BY TopType DEF Corrected, Linked, Parents

LEMMA ModelOfType ==
  ASSUME TypeOK, NEW n \in Nodes
  PROVE  /\ ModelOf(n) \in Model /\ ModelOf(n).value[Resources] # Nil
         /\ ModelOf(n).node = n /\ ModelOf(n).parent = parent[n]
<1> DEFINE v == [value[n] EXCEPT ![Resources] = IF @ = Nil THEN Fresh ELSE @]
           r == IF value[n][Resources] = Nil THEN Fresh ELSE value[n][Resources]
<1>1. value[n] \in Values /\ parent[n] \in Parents
  BY DEF TypeOK
<1>2. v = [value[n] EXCEPT ![Resources] = r]
  OBVIOUS
<1>3. Resources \in Attrs /\ r \in Nodes \cup {Nil, Fresh} /\ r # Nil
  BY <1>1, NodesFacts, Assumptions DEF Values
<1> HIDE DEF r
<1>4. v \in Values /\ v[Resources] # Nil
  BY <1>1, <1>2, <1>3 DEF Values
<1> HIDE DEF v
<1>5. ModelOf(n) = [node |-> n, parent |-> parent[n], ref |-> n \in isRef, value |-> v]
  BY DEF ModelOf, v
<1>6. (n \in isRef) \in BOOLEAN
  OBVIOUS
<1> QED
  BY <1>1, <1>4, <1>5, <1>6 DEF Model

LEMMA AddPageTypes ==
  ASSUME TypeInv, NEW i \in DOMAIN pageList
  PROVE  /\ i \in DOMAIN models /\ GetPage(i) \in Model
         /\ GetPage(i).node \in Nodes /\ GetPage(i).parent \in Parents
         /\ [parent EXCEPT ![GetPage(i).node] = GetPage(i).parent] \in [Nodes -> Parents]
         /\ FilledRefs(GetPage(i)) \in SUBSET Nodes
         /\ Upwards(GetPage(i)) \in Seq(Nodes \cup {Tree})
<1> DEFINE m == GetPage(i)
           par == [parent EXCEPT ![m.node] = m.parent]
<1>1. i \in DOMAIN models
  <2>1. Len(pageList) \in Nat /\ Len(models) \in Nat /\ DOMAIN pageList = 1 .. Len(pageList)
        /\ DOMAIN models = 1 .. Len(models) /\ Len(pageList) <= Len(models)
    BY DEF TypeInv, TypeOK
  <2> QED
    BY <2>1
<1>2. m \in Model
  <2>1. models \in Seq(Model)
    BY DEF TypeInv, TypeOK
  <2> QED
    BY <1>1, <2>1 DEF GetPage
<1> HIDE DEF m
<1>3. m.node \in Nodes /\ m.parent \in Parents
  BY <1>2 DEF Model
<1>4. par \in [Nodes -> Parents]
  BY <1>3 DEF TypeInv, TypeOK
<1>5. FilledRefs(m) \in SUBSET Nodes
  BY <1>3 DEF FilledRefs, TypeInv, TypeOK
<1> HIDE DEF par
<1>6. Ancestors(par, FilledRefs(m), m.node) \in Seq(Nodes \cup {Tree})
  BY <1>3, <1>4, AncestorsType
<1>7. Upwards(m) = Ancestors(par, FilledRefs(m), m.node)
  BY DEF Upwards, par
<1> QED
  BY <1>1, <1>2, <1>3, <1>4, <1>5, <1>6, <1>7 DEF m, par

(* What becomes of a page: it has a value where its model has one, and else *)
(* the value it inherits.                                                   *)
LEMMA MovedType ==
  ASSUME TypeInv, NEW i \in DOMAIN pageList
  PROVE  LET page == GetPage(i)
         IN  [a \in Attrs |-> IF page.value[a] # Nil THEN page.value[a]
                              ELSE Inherited(value, Upwards(page), a)] \in Values
<1> DEFINE m == GetPage(i)
           up == Upwards(m)
<1>1. m \in Model /\ up \in Seq(Nodes \cup {Tree}) /\ value \in [Nodes -> Values]
  BY AddPageTypes DEF TypeInv, TypeOK
<1>2. \A a \in Attrs : m.value[a] \in Nodes \cup {Nil, Fresh}
  <2> HIDE DEF m, up
  <2>1. m.value \in Values
    BY <1>1 DEF Model
  <2> QED
    BY <2>1 DEF Values
<1>3. \A a \in Attrs : Inherited(value, up, a) \in Nodes \cup {Nil, Fresh}
  <2> HIDE DEF m, up
  <2> QED
    BY <1>1, FirstOfType DEF Inherited
<1> QED
  BY <1>2, <1>3 DEF Values

LEMMA TypeStep == TypeInv /\ [Next]_vars => TypeInv'
<1> SUFFICES ASSUME TypeInv, [Next]_vars
             PROVE  TypeInv'
  OBVIOUS
<1>t. /\ doc \in Doc /\ doc.root \in Nodes
      /\ known \in SUBSET Nodes /\ traversed \in SUBSET Nodes
      /\ parent \in [Nodes -> Parents] /\ isRef \in SUBSET Nodes
      /\ value \in [Nodes -> Values]
      /\ pageList \in Seq(Nodes) /\ models \in Seq(Model)
      /\ \A i \in DOMAIN models : models[i].value[Resources] # Nil
      /\ stack \in Seq(Frames) /\ seen \in SUBSET Nodes
      /\ phase \in {"closed", "loading", "ready", "failed", "stuck"}
      /\ loads \in 0 .. MaxLoads
      /\ out \in Seq([node : Nodes, value : Values])
      /\ phase \in {"closed", "loading"} => out = << >>
      /\ Len(pageList) <= Len(models)
  BY DEF TypeInv, TypeOK, Frames, Doc
<1> DEFINE Rest == UNCHANGED <<doc, value, models, pageList, out, loads>>
<1>w. ASSUME Rest, known' \in SUBSET Nodes, traversed' \in SUBSET Nodes,
             parent' \in [Nodes -> Parents], isRef' \in SUBSET Nodes,
             stack' \in Seq(Frames), seen' \in SUBSET Nodes,
             phase' \in {"loading", "ready", "failed"}, out = << >>
      PROVE  TypeInv'
  BY <1>t, <1>w DEF TypeInv, TypeOK, Frames
<1>1. CASE Load
  <2>1. doc' = doc /\ UNCHANGED <<traversed, dicts, models, out>> /\ out = << >>
        /\ known' = known \cup {doc.root} /\ loads' = loads + 1 /\ loads < MaxLoads
    BY <1>1 DEF Load
  <2>2. known' \in SUBSET Nodes /\ loads' \in 0 .. MaxLoads
    BY <1>t, <2>1, Assumptions
  <2>3. CASE doc.root \in Lost
    <3>1. phase' = "failed" /\ UNCHANGED <<pageList, walk>>
      BY <1>1, <2>3 DEF Load
    <3> QED
      BY <1>t, <2>1, <2>2, <3>1 DEF TypeInv, TypeOK, Frames, dicts, walk
  <2>4. CASE doc.root \notin Lost
    <3>1. phase' = "loading" /\ pageList' = << >> /\ stack' = <<Frame(doc.root, Nil)>> /\ seen' = {}
      BY <1>1, <2>4 DEF Load, StartList
    <3>2. Frame(doc.root, Nil) \in Frames
      BY <1>t DEF Frame, Frames
    <3>3. stack' \in Seq(Frames)
      BY <3>1, <3>2
    <3>4. pageList' \in Seq(Nodes) /\ Len(pageList') = 0 /\ Len(models) >= 0
      BY <1>t, <3>1
    <3> QED
      BY <1>t, <2>1, <2>2, <3>1, <3>3, <3>4 DEF TypeInv, TypeOK, Frames, dicts
  <2> QED
    BY <2>3, <2>4
<1>2. CASE Skip
  <2>1. Rest /\ UNCHANGED <<known, traversed, parent, isRef, seen, phase>>
        /\ phase = "loading" /\ stack # << >> /\ stack' = Tail(stack)
    BY <1>2 DEF Skip, Entering, Pop, dicts, lists
  <2>2. stack' \in Seq(Frames)
    BY <1>t, <2>1, TailFacts
  <2> QED
    BY <1>t, <1>w, <2>1, <2>2
<1>3. CASE PageNode
  <2> DEFINE n == Top.node
             m == ModelOf(n)
  <2>1. /\ UNCHANGED <<doc, known, traversed, value, phase, loads, out>>
        /\ phase = "loading" /\ stack # << >> /\ stack' = Tail(stack)
        /\ seen' = seen \cup {n} /\ models' = Append(models, m)
        /\ pageList' = Append(pageList, n)
        /\ parent' = Corrected(parent) /\ isRef' = Linked(isRef)
    BY <1>3 DEF PageNode, Entering, Pop, AddModel
  <2>2. n \in Nodes /\ stack' \in Seq(Frames)
        /\ parent' \in [Nodes -> Parents] /\ isRef' \in SUBSET Nodes
    BY <1>t, <2>1, TailFacts, TopType, CorrectedType
  <2>3. m \in Model /\ m.value[Resources] # Nil
    BY <2>2, ModelOfType DEF TypeInv
  <2> HIDE DEF n, m
  <2>4. models' \in Seq(Model) /\ Len(models') = Len(models) + 1
        /\ \A i \in DOMAIN models' : (i \in DOMAIN models /\ models'[i] = models[i]) \/ models'[i] = m
    <3>1. \A i \in 1 .. Len(models) + 1 : i \in 1 .. Len(models) \/ i = Len(models) + 1
      BY <1>t
    <3> QED
      BY <1>t, <2>1, <2>3, <3>1, AppendFacts
  <2>5. pageList' \in Seq(Nodes) /\ Len(pageList') = Len(pageList) + 1
    BY <1>t, <2>1, <2>2, AppendFacts
  <2>6. \A i \in DOMAIN models' : models'[i].value[Resources] # Nil
    BY <1>t, <2>3, <2>4
  <2>7. Len(pageList') <= Len(models')
    BY <1>t, <2>4, <2>5
  <2> QED
    BY <1>t, <2>1, <2>2, <2>4, <2>5, <2>6, <2>7 DEF TypeInv, TypeOK, Frames
<1>4. CASE OtherNode
  <2>1. Rest /\ UNCHANGED <<known, traversed, parent, isRef>>
        /\ phase = "loading" /\ stack # << >> /\ stack' = << >>
        /\ seen' = seen \cup {Top.node} /\ phase' = "failed"
    BY <1>4 DEF OtherNode, Entering, Error, dicts, lists
  <2>2. seen' \in SUBSET Nodes /\ stack' \in Seq(Frames)
    BY <1>t, <2>1, TopType
  <2> QED
    BY <1>t, <1>w, <2>1, <2>2
<1>5. CASE PagesNode
  <2> DEFINE n == Top.node
             reach == Untraversed(n, Corrected(parent))
  <2>1. Rest /\ phase = "loading" /\ stack # << >>
        /\ seen' = seen \cup {n} /\ parent' = Corrected(parent)
    BY <1>5 DEF PagesNode, Entering, lists
  <2>2. n \in Nodes /\ seen' \in SUBSET Nodes /\ reach \in SUBSET Nodes
        /\ parent' \in [Nodes -> Parents] /\ Linked(isRef) \in SUBSET Nodes
    BY <1>t, <2>1, TopType, CorrectedType DEF Untraversed
  <2>3. \/ /\ stack' = [stack EXCEPT ![1].at = 1] /\ UNCHANGED phase
           /\ isRef' \subseteq Linked(isRef)
           /\ known' \subseteq known \cup reach /\ traversed' \subseteq traversed \cup reach
        \/ /\ stack' = << >> /\ phase' = "failed"
           /\ isRef' \subseteq Linked(isRef)
           /\ known' \subseteq known \cup reach /\ traversed' \subseteq traversed \cup reach
    <3> HIDE DEF n
    <3>1. \/ stack' = [stack EXCEPT ![1].at = 1] /\ isRef' = Linked(isRef)
             /\ UNCHANGED <<known, traversed, phase>>
          \/ /\ stack' = [stack EXCEPT ![1].at = 1]
             /\ isRef' = Linked(isRef) \ reach
             /\ known' = known \cup reach
             /\ traversed' = traversed \cup reach
             /\ UNCHANGED phase
          \/ /\ \E f \in reach \cap Lost, part \in SUBSET (reach \ Lost) :
                  /\ \E done \in SUBSET part : isRef' = Linked(isRef) \ done
                  /\ known' = known \cup part \cup {f}
                  /\ traversed' = traversed \cup part
             /\ stack' = << >> /\ phase' = "failed"
      BY <1>5 DEF PagesNode, Error, n
    <3> HIDE DEF reach
    <3> QED
      BY <3>1
  <2>4. stack' \in Seq(Frames)
    <3> DEFINE t == [stack EXCEPT ![1].at = 1]
    <3>1. t \in Seq(Frames)
      BY <1>t, <2>1, SetAt
    <3>2. << >> \in Seq(Frames)
      OBVIOUS
    <3> HIDE DEF t
    <3> QED
      BY <2>3, <3>1, <3>2 DEF t
  <2> HIDE DEF reach, n
  <2>5. known' \in SUBSET Nodes /\ traversed' \in SUBSET Nodes /\ isRef' \in SUBSET Nodes
        /\ phase' \in {"loading", "ready", "failed"}
    BY <1>t, <2>1, <2>2, <2>3
  <2> QED
    BY <1>t, <1>w, <2>1, <2>2, <2>4, <2>5
<1>6. CASE Kid
  <2> DEFINE c == doc.kids[Top.node][Top.at]
  <2>1. /\ Rest /\ UNCHANGED <<traversed, parent, isRef, seen>>
        /\ phase = "loading" /\ stack # << >> /\ Top.at \in DOMAIN doc.kids[Top.node]
        /\ known' = known \cup {c}
        /\ \/ stack' = << >> /\ phase' = "failed"
           \/ stack' = <<Frame(c, Top.node)>> \o [stack EXCEPT ![1].at = Top.at + 1] /\ UNCHANGED phase
    <3>1. [stack EXCEPT ![1].at = NextKid(@)] = [stack EXCEPT ![1].at = Top.at + 1]
      BY DEF NextKid, Top
    <3> QED
      BY <1>6, <3>1 DEF Kid, Error, dicts, lists
  <2>2. Top.node \in Nodes /\ Top.at \in Nat
    BY <1>t, <2>1, TopType
  <2>3. c \in Nodes
    BY <1>t, <2>1, <2>2, KidsType
  <2> DEFINE t == [stack EXCEPT ![1].at = Top.at + 1]
             u == <<Frame(c, Top.node)>> \o t
  <2>4. t \in Seq(Frames)
    <3> DEFINE k == Top.at + 1
    <3>1. k \in Nat
      BY <2>2
    <3> HIDE DEF k
    <3>2. [stack EXCEPT ![1].at = k] \in Seq(Frames)
      BY <1>t, <2>1, <3>1, SetAt
    <3> QED
      BY <3>2 DEF k
  <2> HIDE DEF t
  <2>5. u \in Seq(Frames)
    BY <1>t, <2>2, <2>3, <2>4, PushKid, ZenonT(60)
  <2>6. << >> \in Seq(Frames)
    OBVIOUS
  <2> HIDE DEF u
  <2>7. stack' \in Seq(Frames)
    BY <2>1, <2>5, <2>6 DEF u, t
  <2> HIDE DEF c
  <2> QED
    BY <1>t, <1>w, <2>1, <2>3, <2>7
<1>7. CASE KidsDone
  <2>1. Rest /\ UNCHANGED <<known, traversed, parent, isRef, seen, phase>>
        /\ phase = "loading" /\ stack # << >> /\ stack' = Tail(stack)
    BY <1>7 DEF KidsDone, Pop, dicts, lists
  <2>2. stack' \in Seq(Frames)
    BY <1>t, <2>1, TailFacts
  <2> QED
    BY <1>t, <1>w, <2>1, <2>2
<1>8. CASE Loaded
  <2>1. Rest /\ UNCHANGED <<known, traversed, parent, isRef, seen, stack>>
        /\ phase = "loading" /\ phase' = "ready"
    BY <1>8 DEF Loaded, dicts, lists, walk
  <2> QED
    BY <1>t, <1>w, <2>1
<1>9. ASSUME NEW i \in DOMAIN pageList, AddPage(i)
      PROVE  TypeInv'
  <2> DEFINE page == GetPage(i)
             n == page.node
             val == [a \in Attrs |-> IF page.value[a] # Nil THEN page.value[a]
                                     ELSE Inherited(value, Upwards(page), a)]
  <2>1. /\ n \in Nodes /\ page.parent \in Parents
        /\ [parent EXCEPT ![n] = page.parent] \in [Nodes -> Parents]
        /\ FilledRefs(page) \in SUBSET Nodes /\ val \in Values
    BY AddPageTypes, MovedType
  <2>2. /\ phase \in {"ready", "failed"}
        /\ UNCHANGED <<doc, known, traversed, lists, walk, loads>>
        /\ \/ phase' = "stuck" /\ parent' = [parent EXCEPT ![n] = page.parent]
              /\ isRef' = FilledRefs(page) /\ UNCHANGED <<value, out>>
           \/ /\ parent' = [parent EXCEPT ![n] = Tree] /\ isRef' = isRef \ {n}
              /\ value' = [value EXCEPT ![n] = val]
              /\ out' = Append(out, [node |-> n, value |-> val]) /\ UNCHANGED phase
    BY <1>9 DEF AddPage
  <2> HIDE DEF val, page, n
  <2>3. /\ parent' \in [Nodes -> Parents] /\ isRef' \in SUBSET Nodes
        /\ value' \in [Nodes -> Values] /\ phase' \in {"ready", "failed", "stuck"}
    <3>1. Tree \in Parents
      BY DEF Parents
    <3>2. [parent EXCEPT ![n] = Tree] \in [Nodes -> Parents] /\ isRef \ {n} \in SUBSET Nodes
          /\ [value EXCEPT ![n] = val] \in [Nodes -> Values]
      BY <1>t, <2>1, <3>1
    <3> QED
      BY <1>t, <2>1, <2>2, <3>2
  <2>4. out' \in Seq([node : Nodes, value : Values])
    <3> DEFINE R == [node : Nodes, value : Values]
               x == [node |-> n, value |-> val]
    <3>1. x \in R /\ out \in Seq(R)
      BY <1>t, <2>1
    <3> HIDE DEF R, x
    <3>2. Append(out, x) \in Seq(R)
      BY <3>1, AppendFacts
    <3> QED
      BY <2>2, <3>1, <3>2 DEF R, x
  <2> QED
    BY <1>t, <2>2, <2>3, <2>4 DEF TypeInv, TypeOK, Frames, lists, walk
<1>10. CASE UNCHANGED vars
  BY <1>t, <1>10 DEF TypeInv, TypeOK, Frames, vars, dicts, lists, walk
<1> QED
  BY <1>1, <1>2, <1>3, <1>4, <1>5, <1>6, <1>7, <1>8, <1>9, <1>10 DEF Next, Walk

(* Whatever the trees are and whatever is loaded, looked up and added, the  *)
(* variables have their types, and every model its resources.               *)
THEOREM TypeCorrect == Spec => []TypeOK
<1>1. Spec => []TypeInv
  BY TypeInit, TypeStep, PTL DEF Spec
<1>2. TypeInv => TypeOK
  BY DEF TypeInv
<1> QED
  BY <1>1, <1>2, PTL

-----------------------------------------------------------------------------
(* The walk.  What can be reached from the root; the activations s, when    *)
(* the nodes v were seen: each but the outermost is for a kid of the next,  *)
(* which is on no other way up.                                             *)
Pages == {n \in Nodes : doc.type[n] = "Pages"}
KidsIn(C) == \A k \in C \cap Pages : Elems(doc.kids[k]) \subseteq C
Reach == {n \in Nodes : \A C \in SUBSET Nodes : doc.root \in C /\ KidsIn(C) => n \in C}

Walked(s, v) ==
  /\ \A i \in DOMAIN s :
       /\ s[i].node \in Reach
       /\ s[i].at > 0 => s[i].node \in v \cap Pages
       /\ i > 1 => s[i].at > 0
       /\ i < Len(s) => /\ s[i].par = s[i + 1].node
                        /\ s[i + 1].at - 1 \in DOMAIN doc.kids[s[i + 1].node]
                        /\ doc.kids[s[i + 1].node][s[i + 1].at - 1] = s[i].node
       /\ i = Len(s) => s[i].par = Nil /\ s[i].node = doc.root
  /\ \A i, j \in DOMAIN s : s[i].at > 0 /\ s[j].at > 0 /\ s[i].node = s[j].node => i = j
  /\ doc.root \in v \/ s = <<Frame(doc.root, Nil)>>

(* A kid of a node that was seen was seen, or is still to come.             *)
Explored(s, v) ==
  \A k \in v \cap Pages : \A l \in DOMAIN doc.kids[k] :
    \/ doc.kids[k][l] \in v
    \/ \E i \in DOMAIN s : s[i].node = k /\ s[i].at > 0 /\ l >= s[i].at
    \/ s # << >> /\ s[1].at = 0 /\ s[1].node = doc.kids[k][l]

LEMMA ReachFacts ==
  ASSUME doc \in Doc
  PROVE  /\ Reach \in SUBSET Nodes /\ doc.root \in Reach /\ KidsIn(Reach)
         /\ \A C \in SUBSET Nodes : doc.root \in C /\ KidsIn(C) => Reach \subseteq C
<1>1. doc.root \in Nodes
  BY DEF Doc
<1>2. doc.root \in Reach
  BY <1>1 DEF Reach
<1>3. KidsIn(Reach)
  <2> SUFFICES ASSUME NEW k \in Reach \cap Pages, NEW n \in Elems(doc.kids[k]),
                      NEW C \in SUBSET Nodes, doc.root \in C, KidsIn(C)
               PROVE  n \in C
    BY KidsType DEF KidsIn, Reach
  <2>1. k \in C
    BY DEF Reach
  <2> QED
    BY <2>1 DEF KidsIn
<1> QED
  BY <1>2, <1>3 DEF Reach

LEMMA WalkedPop ==
  ASSUME doc \in Doc, NEW s \in Seq(Frames), s # << >>, NEW v \in SUBSET Nodes, NEW w \in SUBSET Nodes,
         Walked(s, v), v \subseteq w, doc.root \in w
  PROVE  Walked(Tail(s), w)
<1> DEFINE t == Tail(s)
<1>1. /\ t \in Seq(Frames) /\ Len(s) \in Nat \ {0} /\ Len(t) = Len(s) - 1
      /\ DOMAIN s = 1 .. Len(s) /\ DOMAIN t = 1 .. Len(s) - 1
      /\ \A i \in 1 .. Len(s) - 1 : t[i] = s[i + 1]
  BY TailFacts
<1> HIDE DEF t
<1>2. \A i \in DOMAIN t : i + 1 \in DOMAIN s /\ t[i] = s[i + 1] /\ i + 1 > 1
  BY <1>1
<1>3. \A i \in DOMAIN t : i < Len(t) => i + 1 < Len(s) /\ i + 1 \in DOMAIN t /\ t[i + 1] = s[(i + 1) + 1]
  BY <1>1
<1>4. \A i \in DOMAIN t : i = Len(t) => i + 1 = Len(s)
  BY <1>1
<1>5. ASSUME NEW i \in DOMAIN t
      PROVE  /\ t[i].node \in Reach
             /\ t[i].at > 0 => t[i].node \in w \cap Pages
             /\ i > 1 => t[i].at > 0
             /\ i < Len(t) => /\ t[i].par = t[i + 1].node
                              /\ t[i + 1].at - 1 \in DOMAIN doc.kids[t[i + 1].node]
                              /\ doc.kids[t[i + 1].node][t[i + 1].at - 1] = t[i].node
             /\ i = Len(t) => t[i].par = Nil /\ t[i].node = doc.root
  <2> DEFINE j == i + 1
  <2>1. j \in DOMAIN s /\ t[i] = s[j] /\ j > 1
    BY <1>2
  <2>2. i < Len(t) => j < Len(s) /\ t[i + 1] = s[j + 1]
    BY <1>3
  <2>3. i = Len(t) => j = Len(s)
    BY <1>4
  <2> HIDE DEF j
  <2>4. /\ s[j].node \in Reach
        /\ s[j].at > 0 => s[j].node \in v \cap Pages
        /\ j > 1 => s[j].at > 0
        /\ j < Len(s) => /\ s[j].par = s[j + 1].node
                         /\ s[j + 1].at - 1 \in DOMAIN doc.kids[s[j + 1].node]
                         /\ doc.kids[s[j + 1].node][s[j + 1].at - 1] = s[j].node
        /\ j = Len(s) => s[j].par = Nil /\ s[j].node = doc.root
    BY <2>1 DEF Walked
  <2> QED
    BY <2>1, <2>2, <2>3, <2>4
<1>6. \A i, j \in DOMAIN t : t[i].at > 0 /\ t[j].at > 0 /\ t[i].node = t[j].node => i = j
  <2> TAKE i, j \in DOMAIN t
  <2>1. i + 1 \in DOMAIN s /\ j + 1 \in DOMAIN s /\ t[i] = s[i + 1] /\ t[j] = s[j + 1] /\ i \in Nat /\ j \in Nat
    BY <1>1, <1>2
  <2>2. s[i + 1].at > 0 /\ s[j + 1].at > 0 /\ s[i + 1].node = s[j + 1].node => i + 1 = j + 1
    BY <2>1 DEF Walked
  <2> QED
    BY <2>1, <2>2
<1> QED
  BY <1>5, <1>6 DEF Walked, t

(* The innermost activation, for a Pages node that was not seen, begins.    *)
LEMMA WalkedEnter ==
  ASSUME doc \in Doc, stack \in Seq(Frames), stack # << >>, NEW v \in SUBSET Nodes,
         Walked(stack, v), Top.at = 0, Top.node \in Pages, Top.node \notin v
  PROVE  Walked([stack EXCEPT ![1].at = 1], v \cup {Top.node})
<1> DEFINE s == stack
           n == Top.node
           w == v \cup {n}
           t == [stack EXCEPT ![1].at = 1]
           L == Len(stack)
<1>1. /\ t \in Seq(Frames) /\ Len(t) = L /\ L \in Nat \ {0}
      /\ t[1].node = n /\ t[1].par = Top.par /\ t[1].at = 1
      /\ \A i \in 2 .. L : t[i] = s[i]
      /\ n \in Nodes
  BY SetAt, TopType
<1>2. DOMAIN s = 1 .. L /\ DOMAIN t = 1 .. L /\ s[1].node = n /\ s[1].par = Top.par
  BY <1>1 DEF Top
<1> HIDE DEF t, L, n
<1>3. \A i \in 1 .. L : t[i].node = s[i].node /\ t[i].par = s[i].par /\ (i # 1 => t[i] = s[i])
  <2> TAKE i \in 1 .. L
  <2>1. i = 1 \/ i \in 2 .. L
    BY <1>1
  <2> QED
    BY <1>1, <1>2, <2>1
<1>4. ASSUME NEW i \in 1 .. L
      PROVE  /\ t[i].node \in Reach
             /\ t[i].at > 0 => t[i].node \in w \cap Pages
             /\ i > 1 => t[i].at > 0
             /\ i < L => /\ t[i].par = t[i + 1].node
                         /\ t[i + 1].at - 1 \in DOMAIN doc.kids[t[i + 1].node]
                         /\ doc.kids[t[i + 1].node][t[i + 1].at - 1] = t[i].node
             /\ i = L => t[i].par = Nil /\ t[i].node = doc.root
  <2>1. /\ s[i].node \in Reach
        /\ s[i].at > 0 => s[i].node \in v \cap Pages
        /\ i > 1 => s[i].at > 0
        /\ i < L => /\ s[i].par = s[i + 1].node
                    /\ s[i + 1].at - 1 \in DOMAIN doc.kids[s[i + 1].node]
                    /\ doc.kids[s[i + 1].node][s[i + 1].at - 1] = s[i].node
        /\ i = L => s[i].par = Nil /\ s[i].node = doc.root
    BY <1>2 DEF Walked, L
  <2>2. i < L => t[i + 1] = s[i + 1]
    <3>1. i < L => i + 1 \in 2 .. L
      BY <1>1
    <3> QED
      BY <1>1, <3>1
  <2>3. i = 1 \/ (i > 1 /\ i # 1)
    OBVIOUS
  <2>4. t[1].node \in w \cap Pages
    BY <1>1 DEF Pages, n
  <2> QED
    BY <1>1, <1>3, <2>1, <2>2, <2>3, <2>4
<1>5. \A i, j \in 1 .. L : t[i].at > 0 /\ t[j].at > 0 /\ t[i].node = t[j].node => i = j
  <2> TAKE i, j \in 1 .. L
  <2>1. \A k \in 1 .. L : k # 1 /\ t[k].at > 0 => t[k].node # n
    BY <1>2, <1>3 DEF Walked, n
  <2>2. CASE i # 1 /\ j # 1
    BY <1>2, <1>3, <2>2 DEF Walked
  <2> QED
    BY <1>1, <2>1, <2>2
<1>6. doc.root \in w
  <2>1. s = <<Frame(doc.root, Nil)>> => n = doc.root
    BY <1>2 DEF Frame
  <2> QED
    BY <2>1 DEF Walked
<1>7. Walked(t, w)
  BY <1>1, <1>2, <1>4, <1>5, <1>6 DEF Walked
<1> QED
  BY <1>7 DEF t, n

LEMMA WalkedKid ==
  ASSUME doc \in Doc, stack \in Seq(Frames), stack # << >>, NEW v \in SUBSET Nodes,
         Walked(stack, v), Top.at \in DOMAIN doc.kids[Top.node]
  PROVE  LET c == doc.kids[Top.node][Top.at]
         IN  Walked(<<Frame(c, Top.node)>> \o [stack EXCEPT ![1].at = Top.at + 1], v)
<1> DEFINE s == stack
           n == Top.node
           k == Top.at
           k1 == k + 1
           c == doc.kids[n][k]
           t == [stack EXCEPT ![1].at = k1]
           u == <<Frame(c, n)>> \o t
           L == Len(stack)
<1>1. n \in Nodes /\ k \in Nat /\ k1 \in Nat /\ c \in Nodes /\ k > 0 /\ L \in Nat \ {0} /\ DOMAIN s = 1 .. L
  BY TopType, KidsType
<1>2. s[1].node = n /\ s[1].par = Top.par /\ s[1].at = k
  BY DEF Top
<1>a. k1 - 1 = k /\ k1 > 0
  BY <1>1
<1> HIDE DEF k1, k, n, c, L
<1>3. /\ t \in Seq(Frames) /\ Len(t) = L
      /\ t[1].node = n /\ t[1].par = s[1].par /\ t[1].at = k1
      /\ \A i \in 2 .. L : t[i] = s[i]
  BY <1>1, <1>2, SetAt DEF n, L
<1> HIDE DEF t
<1>4. /\ u \in Seq(Frames) /\ Len(u) = L + 1
      /\ u[1].node = c /\ u[1].par = n /\ u[1].at = 0
      /\ \A i \in 1 .. L : u[i + 1] = t[i]
  BY <1>1, <1>3, PushKid
<1> HIDE DEF u
<1>5. DOMAIN u = 1 .. L + 1
  BY <1>1, <1>4
<1>6. n \in v \cap Pages /\ n \in Reach
  BY <1>1, <1>2 DEF Walked
<1>7. c \in Reach /\ k \in DOMAIN doc.kids[n]
  <2>1. c \in Elems(doc.kids[n]) /\ k \in DOMAIN doc.kids[n]
    BY DEF Elems, c, k, n
  <2>2. KidsIn(Reach)
    BY ReachFacts
  <2> QED
    BY <1>6, <2>1, <2>2 DEF KidsIn
<1>8. \A i \in 1 .. L : /\ t[i].node = s[i].node /\ t[i].par = s[i].par
                        /\ (i # 1 => t[i] = s[i]) /\ (i = 1 => t[i].at = k1 /\ t[i].node = n)
  <2> TAKE i \in 1 .. L
  <2>1. i = 1 \/ i \in 2 .. L
    BY <1>1
  <2> QED
    BY <1>2, <1>3, <2>1
<1>9. ASSUME NEW i \in 1 .. L + 1
      PROVE  /\ u[i].node \in Reach
             /\ u[i].at > 0 => u[i].node \in v \cap Pages
             /\ i > 1 => u[i].at > 0
             /\ i < L + 1 => /\ u[i].par = u[i + 1].node
                             /\ u[i + 1].at - 1 \in DOMAIN doc.kids[u[i + 1].node]
                             /\ doc.kids[u[i + 1].node][u[i + 1].at - 1] = u[i].node
             /\ i = L + 1 => u[i].par = Nil /\ u[i].node = doc.root
  <2>1. CASE i = 1
    <3>1. u[i + 1] = t[1] /\ i < L + 1
      BY <1>1, <1>4, <2>1
    <3>2. u[i + 1].node = n /\ u[i + 1].at - 1 = k
      BY <1>3, <1>a, <3>1
    <3> QED
      BY <1>1, <1>4, <1>7, <2>1, <3>1, <3>2 DEF c
  <2>2. CASE i # 1
    <3> DEFINE j == i - 1
    <3>1. j \in 1 .. L /\ i = j + 1 /\ i > 1 /\ (i < L + 1 => j < L /\ j + 1 \in 1 .. L) /\ (i = L + 1 => j = L)
      BY <1>1, <2>2
    <3> HIDE DEF j
    <3>2. u[i] = t[j] /\ (i < L + 1 => u[i + 1] = t[j + 1])
      BY <1>4, <3>1
    <3>3. /\ s[j].node \in Reach
          /\ s[j].at > 0 => s[j].node \in v \cap Pages
          /\ j > 1 => s[j].at > 0
          /\ j < L => /\ s[j].par = s[j + 1].node
                      /\ s[j + 1].at - 1 \in DOMAIN doc.kids[s[j + 1].node]
                      /\ doc.kids[s[j + 1].node][s[j + 1].at - 1] = s[j].node
          /\ j = L => s[j].par = Nil /\ s[j].node = doc.root
      BY <1>1, <3>1 DEF Walked, L
    <3>4. j + 1 # 1 /\ (j # 1 => j > 1)
      BY <1>1, <3>1
    <3>5. j + 1 \in 1 .. L => t[j + 1] = s[j + 1]
      BY <1>8, <3>4
    <3>6. t[j].node = s[j].node /\ t[j].par = s[j].par /\ (j # 1 => t[j] = s[j]) /\ (j = 1 => t[j].at = k1 /\ t[j].node = n)
      BY <1>8, <3>1
    <3>7. t[j].at > 0 /\ t[j].node \in v \cap Pages
      BY <1>6, <1>a, <3>3, <3>4, <3>6
    <3> QED
      BY <3>1, <3>2, <3>3, <3>5, <3>6, <3>7
  <2> QED
    BY <2>1, <2>2
<1>10. \A i, j \in 1 .. L + 1 : u[i].at > 0 /\ u[j].at > 0 /\ u[i].node = u[j].node => i = j
  <2> TAKE i, j \in 1 .. L + 1
  <2>1. CASE i = 1 \/ j = 1
    BY <1>4, <2>1
  <2>2. CASE i # 1 /\ j # 1
    <3> DEFINE a == i - 1
               b == j - 1
    <3>1. a \in 1 .. L /\ b \in 1 .. L /\ i = a + 1 /\ j = b + 1
      BY <1>1, <2>2
    <3> HIDE DEF a, b
    <3>2. s[a].node = u[i].node /\ s[b].node = u[j].node
      BY <1>4, <1>8, <3>1
    <3>3. s[a].at > 0 /\ s[b].at > 0
      <4>1. \A l \in 1 .. L : s[l].at > 0
        <5> TAKE l \in 1 .. L
        <5>1. l = 1 \/ l > 1
          BY <1>1
        <5> QED
          BY <1>1, <1>2, <5>1 DEF Walked
      <4> QED
        BY <3>1, <4>1
    <3>4. s[a].node = s[b].node => a = b
      BY <1>1, <3>1, <3>3 DEF Walked
    <3> QED
      BY <3>1, <3>2, <3>4
  <2> QED
    BY <2>1, <2>2
<1>11. doc.root \in v
  <2>1. s = <<Frame(doc.root, Nil)>> => s[1].at = 0
    BY DEF Frame
  <2> QED
    BY <1>1, <1>2, <2>1 DEF Walked
<1>12. Walked(u, v)
  BY <1>4, <1>5, <1>9, <1>10, <1>11 DEF Walked
<1> QED
  BY <1>12 DEF u, t, c, n, k, k1

LEMMA ExploredPop ==
  ASSUME doc \in Doc, NEW s \in Seq(Frames), s # << >>, NEW v \in SUBSET Nodes, NEW w \in SUBSET Nodes,
         Explored(s, v), v \subseteq w, w \cap Pages \subseteq v,
         \/ s[1].at = 0 /\ s[1].node \in w
         \/ s[1].at = Len(doc.kids[s[1].node]) + 1 /\ s[1].node \in Nodes
  PROVE  Explored(Tail(s), w)
<1> DEFINE t == Tail(s)
<1>1. /\ t \in Seq(Frames) /\ Len(s) \in Nat \ {0} /\ Len(t) = Len(s) - 1
      /\ DOMAIN s = 1 .. Len(s) /\ DOMAIN t = 1 .. Len(s) - 1
      /\ \A i \in 1 .. Len(s) - 1 : t[i] = s[i + 1]
  BY TailFacts
<1> HIDE DEF t
<1>2. SUFFICES ASSUME NEW k \in w \cap Pages, NEW l \in DOMAIN doc.kids[k], doc.kids[k][l] \notin w
      PROVE  \E i \in DOMAIN t : t[i].node = k /\ t[i].at > 0 /\ l >= t[i].at
  BY DEF Explored, t
<1>3. k \in v \cap Pages /\ doc.kids[k][l] \notin v
  BY <1>2
<1>4. ~(s[1].at = 0 /\ s[1].node = doc.kids[k][l])
  <2> DEFINE n == s[1].node
  <2>1. s[1].at = 0 => n \in w \/ (Len(doc.kids[n]) + 1 = 0 /\ n \in Nodes)
    OBVIOUS
  <2> HIDE DEF n
  <2>2. n \in Nodes => Len(doc.kids[n]) \in Nat
    BY KidsType
  <2> QED
    BY <1>2, <2>1, <2>2 DEF n
<1>5. PICK i \in DOMAIN s : s[i].node = k /\ s[i].at > 0 /\ l >= s[i].at
  BY <1>3, <1>4 DEF Explored
<1>6. i # 1
  <2> SUFFICES ASSUME i = 1
               PROVE  FALSE
    OBVIOUS
  <2>1. l >= Len(doc.kids[k]) + 1 /\ k \in Nodes
    BY <1>5
  <2>2. l \in 1 .. Len(doc.kids[k]) /\ Len(doc.kids[k]) \in Nat
    BY <2>1, KidsType
  <2> QED
    BY <2>1, <2>2
<1>7. i - 1 \in DOMAIN t /\ t[i - 1] = s[i]
  <2>1. i - 1 \in 1 .. Len(s) - 1 /\ (i - 1) + 1 = i
    BY <1>1, <1>6
  <2> QED
    BY <1>1, <2>1
<1> QED
  BY <1>5, <1>7

LEMMA ExploredEnter ==
  ASSUME doc \in Doc, stack \in Seq(Frames), stack # << >>, NEW v \in SUBSET Nodes,
         Explored(stack, v), Top.at = 0
  PROVE  Explored([stack EXCEPT ![1].at = 1], v \cup {Top.node})
<1> DEFINE s == stack
           n == Top.node
           w == v \cup {n}
           t == [stack EXCEPT ![1].at = 1]
           L == Len(stack)
<1>1. /\ t \in Seq(Frames) /\ Len(t) = L /\ L \in Nat \ {0}
      /\ t[1].node = n /\ t[1].at = 1
      /\ \A i \in 2 .. L : t[i] = s[i]
      /\ n \in Nodes
  BY SetAt, TopType
<1>2. DOMAIN s = 1 .. L /\ DOMAIN t = 1 .. L /\ s[1].node = n /\ s[1].at = 0
  BY <1>1 DEF Top
<1> HIDE DEF t, L, n
<1>3. SUFFICES ASSUME NEW k \in w \cap Pages, NEW l \in DOMAIN doc.kids[k], doc.kids[k][l] \notin w
      PROVE  \E i \in DOMAIN t : t[i].node = k /\ t[i].at > 0 /\ l >= t[i].at
  BY DEF Explored, t, n
<1>4. CASE k = n
  <2>1. l >= 1
    <3>1. l \in 1 .. Len(doc.kids[k]) /\ Len(doc.kids[k]) \in Nat
      BY KidsType DEF Pages
    <3> QED
      BY <3>1
  <2>2. 1 \in DOMAIN t
    BY <1>1, <1>2
  <2> QED
    BY <1>1, <1>4, <2>1, <2>2
<1>5. CASE k # n
  <2>1. k \in v \cap Pages /\ doc.kids[k][l] \notin v /\ doc.kids[k][l] # n
    BY <1>3, <1>5
  <2>2. PICK i \in DOMAIN s : s[i].node = k /\ s[i].at > 0 /\ l >= s[i].at
    BY <1>2, <2>1 DEF Explored
  <2>3. i \in 2 .. L
    BY <1>1, <1>2, <2>2
  <2> QED
    BY <1>1, <1>2, <2>2, <2>3
<1> QED
  BY <1>4, <1>5

LEMMA ExploredKid ==
  ASSUME doc \in Doc, stack \in Seq(Frames), stack # << >>, NEW v \in SUBSET Nodes,
         Explored(stack, v), Walked(stack, v), Top.at \in DOMAIN doc.kids[Top.node]
  PROVE  LET c == doc.kids[Top.node][Top.at]
         IN  Explored(<<Frame(c, Top.node)>> \o [stack EXCEPT ![1].at = Top.at + 1], v)
<1> DEFINE s == stack
           n == Top.node
           a == Top.at
           a1 == a + 1
           c == doc.kids[n][a]
           t == [stack EXCEPT ![1].at = a1]
           u == <<Frame(c, n)>> \o t
           L == Len(stack)
<1>1. n \in Nodes /\ a \in Nat /\ a1 \in Nat /\ c \in Nodes /\ a > 0 /\ L \in Nat \ {0} /\ DOMAIN s = 1 .. L
  BY TopType, KidsType
<1>2. s[1].node = n /\ s[1].at = a
  BY DEF Top
<1>a. a1 > 0 /\ a1 = a + 1
  BY <1>1
<1> HIDE DEF a1, a, n, c, L
<1>3. /\ t \in Seq(Frames) /\ Len(t) = L
      /\ t[1].node = n /\ t[1].at = a1
      /\ \A i \in 2 .. L : t[i] = s[i]
  BY <1>1, SetAt DEF n, L
<1> HIDE DEF t
<1>4. /\ u \in Seq(Frames) /\ Len(u) = L + 1 /\ u # << >>
      /\ u[1].node = c /\ u[1].at = 0
      /\ \A i \in 1 .. L : u[i + 1] = t[i]
  BY <1>1, <1>3, PushKid
<1> HIDE DEF u
<1>5. DOMAIN u = 1 .. L + 1
  BY <1>1, <1>4
<1>6. SUFFICES ASSUME NEW k \in v \cap Pages, NEW l \in DOMAIN doc.kids[k],
                      doc.kids[k][l] \notin v, doc.kids[k][l] # c
      PROVE  \E i \in DOMAIN u : u[i].node = k /\ u[i].at > 0 /\ l >= u[i].at
  BY <1>4 DEF Explored, u, t, c, n, a, a1
<1>7. PICK i \in DOMAIN s : s[i].node = k /\ s[i].at > 0 /\ l >= s[i].at
  BY <1>1, <1>2, <1>6 DEF Explored
<1>8. i + 1 \in DOMAIN u /\ u[i + 1] = t[i] /\ i \in 1 .. L
  BY <1>1, <1>4, <1>5
<1>9. CASE i = 1
  <2>1. k = n /\ l >= a /\ l # a /\ l \in Nat
    <3>1. k = n /\ l >= a
      BY <1>2, <1>7, <1>9
    <3>2. l # a
      BY <1>6, <3>1 DEF c
    <3>3. l \in 1 .. Len(doc.kids[k])
      BY KidsType DEF Pages
    <3> QED
      BY <3>1, <3>2, <3>3
  <2>2. l >= a1
    BY <1>1, <1>a, <2>1
  <2> QED
    BY <1>3, <1>8, <1>9, <1>a, <2>1, <2>2
<1>10. CASE i # 1
  <2>1. i \in 2 .. L
    BY <1>1, <1>8, <1>10
  <2> QED
    BY <1>3, <1>7, <1>8, <2>1
<1> QED
  BY <1>9, <1>10

(* A load that goes on or succeeded.                                        *)
PagesIn(s) == {n \in s : doc.type[n] = "Page"}
WalkInv ==
  phase \in {"loading", "ready"} =>
    /\ seen \subseteq Reach /\ (phase = "ready" => stack = << >>)
    /\ Walked(stack, seen) /\ Explored(stack, seen)
    /\ \A i, j \in DOMAIN pageList : pageList[i] = pageList[j] => i = j
    /\ Elems(pageList) = PagesIn(seen)
    /\ \A n \in seen : doc.type[n] # "Other"

LEMMA ReachCarried == doc' = doc => Reach' = Reach
BY DEF Reach, KidsIn, Pages

LEMMA Carried ==
  ASSUME doc' = doc, NEW s, stack' = s, NEW v, seen' = v
  PROVE  /\ Walked(stack, seen)' <=> Walked(s, v)
         /\ Explored(stack, seen)' <=> Explored(s, v)
         /\ PagesIn(seen)' = PagesIn(v)
<1>1. Reach' = Reach /\ Pages' = Pages
  BY ReachCarried DEF Pages
<1>2. Walked(stack, seen)' <=> Walked(s, v)
  BY <1>1 DEF Walked
<1>3. Explored(stack, seen)' <=> Explored(s, v)
  BY <1>1 DEF Explored
<1> QED
  BY <1>2, <1>3 DEF PagesIn

LEMMA WalkedFacts ==
  ASSUME doc \in Doc, NEW s \in Seq(Frames), s # << >>, NEW v \in SUBSET Nodes, Walked(s, v)
  PROVE  /\ s[1].node \in Reach
         /\ doc.root \notin v => s[1].node = doc.root /\ s[1].par = Nil
         /\ \/ s[1].par = Nil /\ s[1].node = doc.root
            \/ s[1].par \in v \cap Pages
<1>1. 1 \in DOMAIN s /\ Len(s) \in Nat \ {0} /\ DOMAIN s = 1 .. Len(s)
  BY TailFacts
<1>2. s[1].node \in Reach
  BY <1>1 DEF Walked
<1>3. doc.root \notin v => s[1].node = doc.root /\ s[1].par = Nil
  BY DEF Walked, Frame
<1>4. CASE Len(s) = 1
  BY <1>1, <1>2, <1>3, <1>4 DEF Walked
<1>5. CASE Len(s) # 1
  <2>1. 2 \in DOMAIN s /\ 1 < Len(s) /\ 2 > 1
    BY <1>1, <1>5
  <2>2. s[1].par = s[1 + 1].node
    BY <1>1, <2>1 DEF Walked
  <2>3. s[2].at > 0 /\ (s[2].at > 0 => s[2].node \in v \cap Pages)
    BY <2>1 DEF Walked
  <2> QED
    BY <1>2, <1>3, <2>2, <2>3
<1> QED
  BY <1>4, <1>5

LEMMA WalkStep == TypeInv /\ WalkInv /\ [Next]_vars => WalkInv'
<1> SUFFICES ASSUME TypeInv, WalkInv, [Next]_vars, phase' \in {"loading", "ready"}
             PROVE  WalkInv'
  BY DEF WalkInv
<1>t. /\ doc \in Doc /\ doc.root \in Nodes
      /\ pageList \in Seq(Nodes) /\ stack \in Seq(Frames) /\ seen \in SUBSET Nodes
  BY DEF TypeInv, TypeOK, Frames, Doc
<1>w. phase \in {"loading", "ready"} =>
        /\ seen \subseteq Reach /\ (phase = "ready" => stack = << >>)
        /\ Walked(stack, seen) /\ Explored(stack, seen)
        /\ \A i, j \in DOMAIN pageList : pageList[i] = pageList[j] => i = j
        /\ Elems(pageList) = PagesIn(seen)
        /\ \A n \in seen : doc.type[n] # "Other"
  BY DEF WalkInv
<1>i. ASSUME NEW s, NEW v, NEW p, stack' = s, seen' = v, pageList' = p, doc' = doc,
             v \subseteq Reach, phase' = "ready" => s = << >>,
             Walked(s, v), Explored(s, v),
             \A i, j \in DOMAIN p : p[i] = p[j] => i = j,
             Elems(p) = PagesIn(v),
             \A n \in v : doc.type[n] # "Other"
      PROVE  WalkInv'
  <2>1. /\ Walked(stack, seen)' /\ Explored(stack, seen)'
        /\ PagesIn(seen)' = PagesIn(v) /\ Reach' = Reach
    BY <1>i, Carried, ReachCarried
  <2>2. Elems(pageList)' = Elems(p)
    BY <1>i DEF Elems
  <2> QED
    BY <1>i, <2>1, <2>2 DEF WalkInv
<1>1. CASE Load
  <2>1. doc' = doc /\ pageList' = << >> /\ stack' = <<Frame(doc.root, Nil)>> /\ seen' = {} /\ phase' = "loading"
    <3>1. doc.root \notin Lost
      BY <1>1 DEF Load
    <3> QED
      BY <1>1, <3>1 DEF Load, StartList
  <2> DEFINE s == <<Frame(doc.root, Nil)>>
  <2>2. Walked(s, {})
    <3>1. doc.root \in Reach
      BY <1>t, ReachFacts
    <3>2. DOMAIN s = {1} /\ Len(s) = 1 /\ s[1].node = doc.root /\ s[1].at = 0 /\ s[1].par = Nil
      BY DEF Frame
    <3>3. s = <<Frame(doc.root, Nil)>>
      OBVIOUS
    <3> HIDE DEF s
    <3>4. \A i \in DOMAIN s : /\ s[i].node \in Reach /\ ~(s[i].at > 0) /\ ~(i > 1) /\ ~(i < Len(s))
                              /\ s[i].par = Nil /\ s[i].node = doc.root
      BY <3>1, <3>2
    <3>5. \A i, j \in DOMAIN s : i = j
      BY <3>2
    <3> QED
      BY <3>3, <3>4, <3>5 DEF Walked
  <2>3. Explored(s, {}) /\ Elems(<< >>) = PagesIn({})
    BY DEF Explored, Elems, PagesIn
  <2> HIDE DEF s
  <2> QED
    BY <1>i, <2>1, <2>2, <2>3 DEF s
<1>2. CASE Skip
  <2>1. UNCHANGED <<doc, seen, phase, pageList>> /\ phase = "loading" /\ stack # << >> /\ stack' = Tail(stack)
        /\ Top.at = 0 /\ Top.node \in seen
    BY <1>2 DEF Skip, Entering, Pop, lists, AlreadyTraversed
  <2>2. doc.root \in seen
    BY <1>t, <1>w, <2>1, WalkedFacts DEF Top
  <2>3. Walked(Tail(stack), seen) /\ Explored(Tail(stack), seen)
    BY <1>t, <1>w, <2>1, <2>2, WalkedPop, ExploredPop DEF Top
  <2> QED
    BY <1>i, <1>w, <2>1, <2>3
<1>3. CASE PageNode
  <2> DEFINE n == Top.node
             v == seen \cup {n}
             p == Append(pageList, n)
  <2>1. /\ UNCHANGED <<doc, phase>>
        /\ phase = "loading" /\ stack # << >> /\ stack' = Tail(stack)
        /\ seen' = v /\ pageList' = p
        /\ doc.type[n] = "Page" /\ n \notin seen /\ Top.at = 0
    BY <1>3 DEF PageNode, Entering, Pop, AlreadyTraversed
  <2>2. n \in Nodes /\ v \in SUBSET Nodes /\ v \cap Pages \subseteq seen
    BY <1>t, <2>1, TopType DEF Pages
  <2>3. n \in Reach /\ doc.root \in v
    BY <1>t, <1>w, <2>1, WalkedFacts DEF Top
  <2>4. Walked(Tail(stack), v)
    BY <1>t, <1>w, <2>1, <2>2, <2>3, WalkedPop
  <2>5. Explored(Tail(stack), v)
    <3>1. stack[1].at = 0 /\ stack[1].node \in v /\ seen \subseteq v
      BY <2>1 DEF Top
    <3>2. /\ doc \in Doc /\ stack \in Seq(Frames) /\ stack # << >> /\ seen \in SUBSET Nodes
          /\ Explored(stack, seen) /\ v \in SUBSET Nodes /\ v \cap Pages \subseteq seen
      BY <1>t, <1>w, <2>1, <2>2
    <3> HIDE DEF v, n, p
    <3> QED
      BY <3>1, <3>2, ExploredPop
  <2> HIDE DEF n
  <2>6. (\A i, j \in DOMAIN p : p[i] = p[j] => i = j) /\ Elems(p) = Elems(pageList) \cup {n}
    <3> HIDE DEF p
    <3>1. /\ Len(pageList) \in Nat /\ DOMAIN pageList = 1 .. Len(pageList)
          /\ DOMAIN p = 1 .. Len(pageList) + 1
          /\ \A i \in 1 .. Len(pageList) : p[i] = pageList[i]
          /\ p[Len(pageList) + 1] = n
      BY <1>t, <2>2, AppendFacts DEF p
    <3>2. \A i \in DOMAIN p : (i \in DOMAIN pageList /\ p[i] = pageList[i]) \/ i = Len(pageList) + 1
      BY <3>1
    <3>3. Elems(p) = Elems(pageList) \cup {n}
      <4>1. \A i \in DOMAIN pageList : i \in DOMAIN p /\ p[i] = pageList[i]
        BY <3>1
      <4>2. Len(pageList) + 1 \in DOMAIN p
        BY <3>1
      <4> QED
        BY <3>1, <3>2, <4>1, <4>2 DEF Elems
    <3>4. n \notin Elems(pageList)
      BY <1>w, <2>1 DEF PagesIn
    <3>5. \A i \in DOMAIN pageList : pageList[i] # n
      BY <3>4 DEF Elems
    <3> QED
      BY <1>w, <2>1, <3>1, <3>2, <3>3, <3>5
  <2>7. Elems(p) = PagesIn(v)
    BY <1>w, <2>1, <2>6 DEF PagesIn
  <2>8. v \subseteq Reach /\ \A m \in v : doc.type[m] # "Other"
    BY <1>w, <2>1, <2>3
  <2> HIDE DEF v, p
  <2> QED
    BY <1>i, <1>w, <2>1, <2>4, <2>5, <2>6, <2>7, <2>8
<1>4. CASE OtherNode
  BY <1>4 DEF OtherNode, Error
<1>5. CASE PagesNode
  <2> DEFINE n == Top.node
             v == seen \cup {n}
             s == [stack EXCEPT ![1].at = 1]
  <2>1. /\ UNCHANGED <<doc, pageList>> /\ phase = "loading" /\ stack # << >> /\ seen' = v
        /\ n \notin seen /\ doc.type[n] = "Pages" /\ Top.at = 0
    BY <1>5 DEF PagesNode, Entering, lists, AlreadyTraversed
  <2>2. stack' = s /\ phase' = phase
    BY <1>5 DEF PagesNode, Error
  <2>3. n \in Nodes /\ v \in SUBSET Nodes /\ n \in Pages
    BY <1>t, <2>1, TopType DEF Pages
  <2>4. n \in Reach
    BY <1>t, <1>w, <2>1, WalkedFacts DEF Top
  <2>5. Walked(s, v) /\ Explored(s, v)
    BY <1>t, <1>w, <2>1, <2>3, WalkedEnter, ExploredEnter
  <2>6. PagesIn(v) = PagesIn(seen)
    BY <2>1 DEF PagesIn
  <2>7. v \subseteq Reach /\ \A m \in v : doc.type[m] # "Other"
    BY <1>w, <2>1, <2>4
  <2> HIDE DEF v, s, n
  <2> QED
    BY <1>i, <1>w, <2>1, <2>2, <2>5, <2>6, <2>7
<1>6. CASE Kid
  <2> DEFINE c == doc.kids[Top.node][Top.at]
             s == <<Frame(c, Top.node)>> \o [stack EXCEPT ![1].at = Top.at + 1]
  <2>1. /\ UNCHANGED <<doc, seen, pageList>>
        /\ phase = "loading" /\ stack # << >> /\ Top.at \in DOMAIN doc.kids[Top.node]
        /\ stack' = s /\ phase' = phase
    <3>1. [stack EXCEPT ![1].at = NextKid(@)] = [stack EXCEPT ![1].at = Top.at + 1]
      BY DEF NextKid, Top
    <3> QED
      BY <1>6, <3>1 DEF Kid, Error, lists
  <2>2. Walked(s, seen) /\ Explored(s, seen)
    BY <1>t, <1>w, <2>1, WalkedKid, ExploredKid
  <2> HIDE DEF s
  <2> QED
    BY <1>i, <1>w, <2>1, <2>2
<1>7. CASE KidsDone
  <2>1. UNCHANGED <<doc, seen, phase, pageList>> /\ phase = "loading" /\ stack # << >> /\ stack' = Tail(stack)
        /\ Top.at = Len(doc.kids[Top.node]) + 1
    BY <1>7 DEF KidsDone, Pop, lists
  <2>2. doc.root \in seen
    <3>1. Len(doc.kids[Top.node]) \in Nat
      BY <1>t, <2>1, TopType, KidsType
    <3>2. Top.at # 0
      BY <2>1, <3>1
    <3> QED
      BY <1>w, <2>1, <3>2 DEF Walked, Frame, Top
  <2>3. Walked(Tail(stack), seen)
    BY <1>t, <1>w, <2>1, <2>2, WalkedPop
  <2>4. Explored(Tail(stack), seen)
    BY <1>t, <1>w, <2>1, TopType, ExploredPop DEF Top
  <2> QED
    BY <1>i, <1>w, <2>1, <2>3, <2>4
<1>8. CASE Loaded
  <2>1. UNCHANGED <<doc, seen, pageList, stack>> /\ phase = "loading" /\ stack = << >>
    BY <1>8 DEF Loaded, lists, walk
  <2> QED
    BY <1>i, <1>w, <2>1
<1>9. ASSUME NEW i \in DOMAIN pageList, AddPage(i)
      PROVE  WalkInv'
  <2>1. UNCHANGED <<doc, pageList, seen, stack>> /\ phase' = phase
    BY <1>9 DEF AddPage, lists, walk
  <2> QED
    BY <1>i, <1>w, <2>1
<1>10. CASE UNCHANGED vars
  <2>1. UNCHANGED <<doc, pageList, seen, stack>> /\ phase' = phase
    BY <1>10 DEF vars, lists, walk
  <2> QED
    BY <1>i, <1>w, <2>1
<1> QED
  BY <1>1, <1>2, <1>3, <1>4, <1>5, <1>6, <1>7, <1>8, <1>9, <1>10 DEF Next, Walk

(* After a load that succeeded, all that can be reached was seen.           *)
LEMMA ReadySeen == TypeInv /\ WalkInv /\ phase = "ready" => seen = Reach
<1> SUFFICES ASSUME TypeInv, WalkInv, phase = "ready"
             PROVE  seen = Reach
  OBVIOUS
<1>1. /\ doc \in Doc /\ seen \in SUBSET Nodes /\ seen \subseteq Reach /\ stack = << >>
      /\ Walked(stack, seen) /\ Explored(stack, seen)
  BY DEF TypeInv, TypeOK, WalkInv
<1>2. doc.root \in seen
  <2>1. << >> # <<Frame(doc.root, Nil)>>
    OBVIOUS
  <2> QED
    BY <1>1, <2>1 DEF Walked
<1>3. KidsIn(seen)
  <2>1. DOMAIN stack = {}
    BY <1>1
  <2> QED
    BY <1>1, <2>1 DEF Explored, KidsIn, Elems
<1> QED
  BY <1>1, <1>2, <1>3, ReachFacts

-----------------------------------------------------------------------------
(* Parents.  They are those of the file, or set: by AddPage, or by the walk *)
(* in all that it has seen, where they lead up to nodes seen before.  The   *)
(* models have them as they were when the page was read.                    *)
Of(n, x) == x \in {doc.parent[n], Tree} \/ (n \in Reach \ {doc.root} /\ x \in Reach \cap Pages)

Upward(par, v) ==
  /\ \A n \in v \ {doc.root} : par[n] \in (v \cap Pages) \cup {Tree}
  /\ \A S \in (SUBSET (v \ {doc.root})) \ {{}} : \E n \in S : par[n] \notin S

ModelsOf(s) ==
  \A i \in DOMAIN s : s[i].node \in PagesIn(Nodes) \cap Reach /\ Of(s[i].node, s[i].parent)

UpInv ==
  phase # "stuck" =>
    /\ \A n \in Nodes : Of(n, parent[n])
    /\ ModelsOf(models)
    /\ phase \in {"loading", "ready"} => Upward(parent, seen)

LEMMA UpCarried ==
  ASSUME doc' = doc, NEW par, parent' = par, NEW v, seen' = v, NEW s, models' = s
  PROVE  /\ (\A n \in Nodes : Of(n, parent[n]))' <=> \A n \in Nodes : Of(n, par[n])
         /\ Upward(parent, seen)' <=> Upward(par, v)
         /\ ModelsOf(models)' <=> ModelsOf(s)
<1>1. Reach' = Reach /\ Pages' = Pages
  BY ReachCarried DEF Pages
<1>2. (\A n \in Nodes : Of(n, parent[n]))' <=> \A n \in Nodes : Of(n, par[n])
  BY <1>1 DEF Of
<1>3. Upward(parent, seen)' <=> Upward(par, v)
  BY <1>1 DEF Upward
<1>4. ModelsOf(models)' <=> ModelsOf(s)
  BY <1>1 DEF ModelsOf, Of, PagesIn
<1> QED
  BY <1>2, <1>3, <1>4

(* A node that was not seen is entered: its Parent becomes the node through *)
(* which it was found.                                                      *)
LEMMA UpEnter ==
  ASSUME TypeInv, WalkInv, UpInv, phase = "loading", stack # << >>, Top.node \notin seen
  PROVE  /\ \A n \in Nodes : Of(n, Corrected(parent)[n])
         /\ Upward(Corrected(parent), seen \cup {Top.node})
<1> DEFINE n == Top.node
           x == Top.par
           v == seen \cup {n}
           par == Corrected(parent)
<1>1. /\ doc \in Doc /\ parent \in [Nodes -> Parents] /\ stack \in Seq(Frames) /\ seen \in SUBSET Nodes
      /\ seen \subseteq Reach /\ Walked(stack, seen)
      /\ \A m \in Nodes : Of(m, parent[m])
      /\ Upward(parent, seen)
  BY DEF TypeInv, TypeOK, Frames, WalkInv, UpInv
<1>2. /\ n \in Nodes /\ n \in Reach
      /\ doc.root \notin seen => n = doc.root /\ x = Nil
      /\ \/ x = Nil /\ n = doc.root
         \/ x \in seen \cap Pages
  BY <1>1, WalkedFacts, TopType DEF Top
<1>3. par = IF x = Nil THEN parent ELSE [parent EXCEPT ![n] = x]
  BY DEF Corrected
<1>4. Nil \notin Nodes /\ Tree \notin Nodes
  BY NodesFacts
<1> HIDE DEF n, x, par
<1>5. CASE x = Nil
  <2>1. n = doc.root /\ par = parent
    BY <1>1, <1>2, <1>3, <1>4, <1>5
  <2>2. v \ {doc.root} = seen \ {doc.root}
    BY <2>1
  <2>3. Upward(parent, v)
    BY <1>1, <2>2 DEF Upward
  <2> QED
    BY <1>1, <2>1, <2>3 DEF n, par
<1>6. CASE x # Nil
  <2>1. /\ x \in seen \cap Pages /\ n # doc.root /\ x # n /\ x \in Nodes
        /\ par[n] = x /\ \A m \in Nodes \ {n} : par[m] = parent[m]
    BY <1>1, <1>2, <1>3, <1>6 DEF n
  <2>2. \A m \in Nodes : Of(m, par[m])
    BY <1>1, <1>2, <2>1 DEF Of
  <2>3. \A m \in v \ {doc.root} : par[m] \in (v \cap Pages) \cup {Tree}
    BY <1>1, <2>1 DEF Upward
  <2>4. ASSUME NEW S \in (SUBSET (v \ {doc.root})) \ {{}}
        PROVE  \E m \in S : par[m] \notin S
    <3>1. CASE n \notin S
      <4>1. S \in (SUBSET (seen \ {doc.root})) \ {{}}
        BY <3>1
      <4>2. PICK m \in S : parent[m] \notin S
        BY <1>1, <4>1 DEF Upward
      <4>3. m \in Nodes \ {n}
        BY <1>1, <3>1, <4>1
      <4> QED
        BY <2>1, <4>2, <4>3
    <3>2. CASE S = {n}
      BY <2>1, <3>2
    <3>3. CASE n \in S /\ S # {n}
      <4>1. S \ {n} \in (SUBSET (seen \ {doc.root})) \ {{}}
        BY <3>3
      <4>2. PICK m \in S \ {n} : parent[m] \notin S \ {n}
        BY <1>1, <4>1 DEF Upward
      <4>3. m \in seen \ {doc.root} /\ m \in Nodes \ {n}
        BY <1>1, <4>1
      <4>4. parent[m] # n
        <5>1. parent[m] \in (seen \cap Pages) \cup {Tree}
          BY <1>1, <4>3 DEF Upward
        <5> QED
          BY <1>2, <1>4, <5>1 DEF n
      <4> QED
        BY <2>1, <4>2, <4>3, <4>4
    <3> QED
      BY <3>1, <3>2, <3>3
  <2> QED
    BY <2>2, <2>3, <2>4 DEF Upward, n, par
<1> QED
  BY <1>5, <1>6

LEMMA UpStep == TypeInv /\ WalkInv /\ UpInv /\ [Next]_vars => UpInv'
<1> SUFFICES ASSUME TypeInv, WalkInv, UpInv, [Next]_vars, phase' # "stuck"
             PROVE  UpInv'
  BY DEF UpInv
<1>t. /\ doc \in Doc /\ doc.root \in Nodes
      /\ parent \in [Nodes -> Parents] /\ models \in Seq(Model)
      /\ stack \in Seq(Frames) /\ seen \in SUBSET Nodes
  BY DEF TypeInv, TypeOK, Frames, Doc
<1>i. ASSUME NEW par, NEW v, NEW s, parent' = par, seen' = v, models' = s, doc' = doc,
             \A n \in Nodes : Of(n, par[n]), ModelsOf(s),
             phase' \in {"loading", "ready"} => Upward(par, v)
      PROVE  UpInv'
  <2>1. /\ (\A n \in Nodes : Of(n, parent[n]))' <=> \A n \in Nodes : Of(n, par[n])
        /\ Upward(parent, seen)' <=> Upward(par, v)
        /\ ModelsOf(models)' <=> ModelsOf(s)
    BY <1>i, UpCarried
  <2> QED
    BY <1>i, <2>1 DEF UpInv
<1>u. phase # "stuck" =>
        /\ \A n \in Nodes : Of(n, parent[n])
        /\ ModelsOf(models)
        /\ phase \in {"loading", "ready"} => Upward(parent, seen)
  BY DEF UpInv
<1>s. ASSUME UNCHANGED <<doc, parent, seen, models>>, phase # "stuck",
             phase' \in {"loading", "ready"} => phase \in {"loading", "ready"}
      PROVE  UpInv'
  BY <1>i, <1>s, <1>u
<1>1. CASE Load
  <2>1. UNCHANGED <<doc, parent, models>> /\ phase # "stuck"
        /\ (phase' \in {"loading", "ready"} => seen' = {})
    BY <1>1 DEF Load, dicts
  <2>2. Upward(parent, {})
    BY DEF Upward
  <2> DEFINE v == seen'
  <2>3. phase' \in {"loading", "ready"} => Upward(parent, v)
    BY <2>1, <2>2
  <2> HIDE DEF v
  <2>4. seen' = v
    BY DEF v
  <2> QED
    BY <1>i, <1>u, <2>1, <2>3, <2>4
<1>2. CASE Skip \/ OtherNode \/ Kid \/ KidsDone \/ Loaded
  <2>1. UNCHANGED <<doc, parent, models>> /\ phase = "loading"
        /\ (phase' \in {"loading", "ready"} => seen' = seen)
    BY <1>2 DEF Skip, OtherNode, Kid, KidsDone, Loaded, Entering, Error, dicts, lists, walk
  <2> DEFINE v == seen'
  <2>2. phase' \in {"loading", "ready"} => Upward(parent, v)
    BY <1>u, <2>1
  <2> HIDE DEF v
  <2>3. seen' = v
    BY DEF v
  <2> QED
    BY <1>i, <1>u, <2>1, <2>2, <2>3
<1>3. CASE PageNode
  <2> DEFINE n == Top.node
             m == ModelOf(n)
             s == Append(models, m)
             par == Corrected(parent)
             v == seen \cup {n}
  <2>1. /\ doc' = doc /\ parent' = par /\ seen' = v /\ models' = s
        /\ phase = "loading" /\ stack # << >> /\ n \notin seen /\ doc.type[n] = "Page"
    BY <1>3 DEF PageNode, Entering, AddModel, AlreadyTraversed
  <2>2. (\A k \in Nodes : Of(k, par[k])) /\ Upward(par, v)
    BY <2>1, UpEnter
  <2>3. n \in Nodes /\ n \in Reach
    BY <1>t, <2>1, WalkedFacts, TopType DEF Top, WalkInv
  <2>4. m \in Model /\ m.node = n /\ m.parent = parent[n]
    BY <2>3, ModelOfType DEF TypeInv
  <2>5. m.node \in PagesIn(Nodes) \cap Reach /\ Of(m.node, m.parent)
    <3>1. Of(n, parent[n])
      BY <1>u, <2>1, <2>3
    <3> HIDE DEF m, n
    <3> QED
      BY <2>1, <2>3, <2>4, <3>1 DEF PagesIn
  <2>6. ModelsOf(s)
    <3> HIDE DEF m
    <3>1. \A i \in DOMAIN s : (i \in DOMAIN models /\ s[i] = models[i]) \/ s[i] = m
      <4>1. \A i \in 1 .. Len(models) + 1 : i \in 1 .. Len(models) \/ i = Len(models) + 1
        BY <1>t
      <4> QED
        BY <1>t, <2>4, <4>1, AppendFacts
    <3> HIDE DEF s
    <3> QED
      BY <1>u, <2>1, <2>5, <3>1 DEF ModelsOf
  <2> HIDE DEF par, v, s
  <2> QED
    BY <1>i, <2>1, <2>2, <2>6
<1>4. CASE PagesNode
  <2> DEFINE par == Corrected(parent)
             v == seen \cup {Top.node}
  <2>1. /\ UNCHANGED <<doc, models>> /\ parent' = par /\ seen' = v
        /\ phase = "loading" /\ stack # << >> /\ Top.node \notin seen
    BY <1>4 DEF PagesNode, Entering, AlreadyTraversed, lists
  <2>2. (\A k \in Nodes : Of(k, par[k])) /\ Upward(par, v)
    BY <2>1, UpEnter
  <2> HIDE DEF par, v
  <2> QED
    BY <1>i, <1>u, <2>1, <2>2
<1>5. ASSUME NEW i \in DOMAIN pageList, AddPage(i)
      PROVE  UpInv'
  <2> DEFINE n == GetPage(i).node
             par == [parent EXCEPT ![n] = Tree]
  <2>1. UNCHANGED <<doc, models, seen>> /\ phase' = phase /\ parent' = par
    BY <1>5 DEF AddPage, lists, walk
  <2>2. n \in Nodes
    BY AddPageTypes
  <2> HIDE DEF n
  <2>3. \A m \in Nodes : par[m] = parent[m] \/ par[m] = Tree
    BY <1>t, <2>2
  <2>4. Tree \notin Nodes
    BY NodesFacts
  <2> HIDE DEF par
  <2>5. \A m \in Nodes : Of(m, par[m])
    BY <1>u, <2>1, <2>3 DEF Of
  <2>6. Upward(parent, seen) => Upward(par, seen)
    <3> SUFFICES ASSUME Upward(parent, seen)
                 PROVE  Upward(par, seen)
      OBVIOUS
    <3>1. \A m \in seen \ {doc.root} : par[m] \in (seen \cap Pages) \cup {Tree}
      BY <1>t, <2>3 DEF Upward
    <3>2. ASSUME NEW S \in (SUBSET (seen \ {doc.root})) \ {{}}
          PROVE  \E m \in S : par[m] \notin S
      <4>1. PICK m \in S : parent[m] \notin S
        BY DEF Upward
      <4>2. m \in Nodes /\ Tree \notin S
        BY <1>t, <2>4
      <4> QED
        BY <2>3, <4>1, <4>2
    <3> QED
      BY <3>1, <3>2 DEF Upward
  <2> QED
    BY <1>i, <1>u, <2>1, <2>5, <2>6
<1>6. CASE UNCHANGED vars
  <2>1. UNCHANGED <<doc, parent, seen, models, phase>>
    BY <1>6 DEF vars, dicts, lists, walk
  <2> QED
    BY <1>s, <2>1
<1> QED
  BY <1>1, <1>2, <1>3, <1>4, <1>5, <1>6 DEF Next, Walk

LEMMA InvInit == Init => WalkInv /\ UpInv
<1> SUFFICES ASSUME Init PROVE WalkInv /\ UpInv
  OBVIOUS
<1>1. phase = "closed" /\ parent = doc.parent /\ models = << >>
  BY DEF Init
<1>2. ModelsOf(models)
  BY <1>1 DEF ModelsOf
<1> QED
  BY <1>1, <1>2 DEF WalkInv, UpInv, Of

(* A circle of the Parents above a page that was read is one that the load  *)
(* has not set.                                                             *)
LEMMA NotCircular == TypeInv /\ WalkInv /\ UpInv => NeverStuck
<1> SUFFICES ASSUME TypeInv, WalkInv, UpInv, phase = "ready", doc.parent[doc.root] = Nil,
                    \A S \in (SUBSET Loose) \ {{}} : \E n \in S : doc.parent[n] \notin S,
                    NEW i \in DOMAIN pageList, Circular(Upwards(GetPage(i)))
             PROVE  FALSE
  BY DEF NeverStuck
<1> DEFINE page == GetPage(i)
           p == page.node
           par == [parent EXCEPT ![p] = page.parent]
<1>1. /\ doc \in Doc /\ parent \in [Nodes -> Parents] /\ seen \in SUBSET Nodes
      /\ \A n \in Nodes : Of(n, parent[n])
      /\ ModelsOf(models) /\ Upward(parent, seen)
  BY DEF TypeInv, TypeOK, UpInv
<1>2. /\ p \in Nodes /\ par \in [Nodes -> Parents]
      /\ doc.type[p] = "Page" /\ Of(p, page.parent)
      /\ par[p] = page.parent /\ \A n \in Nodes \ {p} : par[n] = parent[n]
  <2>1. i \in DOMAIN models /\ p \in Nodes /\ par \in [Nodes -> Parents]
    BY AddPageTypes
  <2>2. doc.type[p] = "Page" /\ Of(p, page.parent)
    BY <1>1, <2>1 DEF ModelsOf, PagesIn, GetPage
  <2> HIDE DEF page, p
  <2> QED
    BY <1>1, <2>1, <2>2
<1>3. seen = Reach
  BY ReadySeen
<1>4. Nil \notin Nodes /\ Tree \notin Nodes
  BY NodesFacts
<1> HIDE DEF par
<1>5. PICK S \in (SUBSET Nodes) \ {{}} : \A m \in S : par[m] \in S
  <2>1. Circular(Ancestors(par, FilledRefs(page), p))
    BY DEF Upwards, par
  <2> QED
    BY <1>2, <2>1, CircularClosed
<1> HIDE DEF page, p
<1>6. \A m \in S : Of(m, par[m])
  BY <1>1, <1>2
<1>7. doc.root \notin S
  BY <1>4, <1>5, <1>6 DEF Of
<1> DEFINE T == S \cap seen \cap Pages
<1>8. T = {}
  <2> SUFFICES ASSUME T # {}
               PROVE  FALSE
    OBVIOUS
  <2>1. p \notin T
    BY <1>2 DEF Pages
  <2>2. T \in (SUBSET (seen \ {doc.root})) \ {{}}
    BY <1>7
  <2>3. PICK n \in T : parent[n] \notin T
    BY <1>1, <2>2 DEF Upward
  <2>4. par[n] = parent[n] /\ n \in S
    BY <1>2, <2>1, <2>3
  <2>5. parent[n] \in (seen \cap Pages) \cup {Tree}
    BY <1>1, <2>2 DEF Upward
  <2> QED
    BY <1>4, <1>5, <2>3, <2>4, <2>5
<1>9. \A n \in S : par[n] = doc.parent[n]
  BY <1>3, <1>4, <1>5, <1>6, <1>8 DEF Of
<1>10. S \subseteq Loose
  <2> SUFFICES ASSUME NEW n \in S, n \in seen, n # p
               PROVE  FALSE
    BY <1>2, <1>5 DEF Loose
  <2>1. par[n] = parent[n] /\ n \in seen \ {doc.root}
    BY <1>2, <1>5, <1>7
  <2>2. parent[n] \in (seen \cap Pages) \cup {Tree}
    BY <1>1, <2>1 DEF Upward
  <2> QED
    BY <1>4, <1>5, <1>8, <2>1, <2>2
<1> QED
  BY <1>5, <1>9, <1>10

-----------------------------------------------------------------------------
(* The ways down, told without counting them: Ways has them all.            *)
Steps == [kid : Nat, node : Nodes]

IsWay(s) ==
  /\ s \in Seq(Steps) /\ s # << >> /\ s[1] = Step(1, doc.root)
  /\ \A i \in 1 .. Len(s) - 1 :
       /\ s[i].node \in Pages /\ s[i + 1].kid \in DOMAIN doc.kids[s[i].node]
       /\ s[i + 1].node = doc.kids[s[i].node][s[i + 1].kid]
  /\ \A i, j \in DOMAIN s : s[i].node = s[j].node => i = j

Upto(s, m) == [i \in 1 .. m |-> s[i]]

LEMMA WayBasics ==
  ASSUME doc \in Doc, NEW s, IsWay(s)
  PROVE  /\ Len(s) \in Nat \ {0} /\ DOMAIN s = 1 .. Len(s) /\ s \in Seq(Steps)
         /\ \A i \in DOMAIN s : s[i] \in Steps /\ s[i].node \in Nodes /\ s[i].kid \in Nat /\ s[i].kid > 0
         /\ Last(s) = s[Len(s)].node /\ Last(s) \in Nodes
<1>1. Len(s) \in Nat \ {0} /\ DOMAIN s = 1 .. Len(s) /\ s \in Seq(Steps)
  BY DEF IsWay
<1>2. \A i \in DOMAIN s : s[i] \in Steps /\ s[i].node \in Nodes /\ s[i].kid \in Nat
  <2>1. \A i \in DOMAIN s : s[i] \in Steps
    BY <1>1
  <2> QED
    BY <2>1 DEF Steps
<1>3. ASSUME NEW i \in DOMAIN s
      PROVE  s[i].kid > 0
  <2>1. CASE i = 1
    BY <2>1 DEF IsWay, Step
  <2>2. CASE i # 1
    <3> DEFINE j == i - 1
    <3>1. j \in 1 .. Len(s) - 1 /\ j + 1 = i /\ j \in DOMAIN s
      BY <1>1, <2>2
    <3> HIDE DEF j
    <3>2. s[i].kid \in DOMAIN doc.kids[s[j].node] /\ s[j].node \in Nodes
      BY <1>2, <3>1 DEF IsWay
    <3>3. s[i].kid \in 1 .. Len(doc.kids[s[j].node])
      BY <3>2, KidsType
    <3> QED
      BY <1>2, <3>3
  <2> QED
    BY <2>1, <2>2
<1>4. Last(s) = s[Len(s)].node /\ Last(s) \in Nodes
  BY <1>1, <1>2 DEF Last
<1> QED
  BY <1>1, <1>2, <1>3, <1>4

LEMMA WayRoot ==
  ASSUME doc \in Doc
  PROVE  /\ IsWay(<<Step(1, doc.root)>>)
         /\ \A s : IsWay(s) /\ Len(s) = 1 => s = <<Step(1, doc.root)>>
<1>1. Step(1, doc.root) \in Steps
  BY DEF Step, Steps, Doc
<1>2. IsWay(<<Step(1, doc.root)>>)
  BY <1>1 DEF IsWay
<1>3. \A s : IsWay(s) /\ Len(s) = 1 => s = <<Step(1, doc.root)>>
  <2> DEFINE x == Step(1, doc.root)
  <2> HIDE DEF x
  <2>1. \A s \in Seq(Steps) : Len(s) = 1 /\ s[1] = x => s = <<x>>
    OBVIOUS
  <2> QED
    BY <2>1 DEF IsWay, x
<1> QED
  BY <1>2, <1>3

LEMMA WayUpto ==
  ASSUME doc \in Doc, NEW s, IsWay(s), NEW m \in 1 .. Len(s)
  PROVE  /\ IsWay(Upto(s, m)) /\ Len(Upto(s, m)) = m /\ Last(Upto(s, m)) = s[m].node
         /\ \A i \in 1 .. m : Upto(s, m)[i] = s[i]
<1> DEFINE t == Upto(s, m)
<1>1. Len(s) \in Nat \ {0} /\ DOMAIN s = 1 .. Len(s) /\ s \in Seq(Steps)
  BY WayBasics
<1>2. t \in Seq(Steps) /\ Len(t) = m /\ DOMAIN t = 1 .. m /\ (\A i \in 1 .. m : t[i] = s[i]) /\ m \in Nat \ {0}
  BY <1>1 DEF Upto
<1> HIDE DEF t
<1>3. \A i \in 1 .. m : i \in DOMAIN s
  BY <1>1
<1>4. \A i \in 1 .. Len(t) - 1 : i \in 1 .. Len(s) - 1 /\ i \in 1 .. m /\ i + 1 \in 1 .. m
  BY <1>1, <1>2
<1>5. t # << >> /\ t[1] = Step(1, doc.root) /\ Last(t) = s[m].node
  BY <1>2 DEF IsWay, Last
<1>6. \A i \in 1 .. Len(t) - 1 :
       /\ t[i].node \in Pages /\ t[i + 1].kid \in DOMAIN doc.kids[t[i].node]
       /\ t[i + 1].node = doc.kids[t[i].node][t[i + 1].kid]
  BY <1>2, <1>4 DEF IsWay
<1>7. \A i, j \in DOMAIN t : t[i].node = t[j].node => i = j
  BY <1>2, <1>3 DEF IsWay
<1>8. IsWay(t)
  BY <1>2, <1>5, <1>6, <1>7 DEF IsWay
<1> QED
  BY <1>2, <1>5, <1>8 DEF t

LEMMA WayFurther ==
  ASSUME doc \in Doc, NEW s, IsWay(s), Last(s) \in Pages,
         NEW k \in DOMAIN doc.kids[Last(s)],
         \A i \in DOMAIN s : s[i].node # doc.kids[Last(s)][k]
  PROVE  LET t == Append(s, Step(k, doc.kids[Last(s)][k]))
         IN  IsWay(t) /\ Len(t) = Len(s) + 1 /\ Last(t) = doc.kids[Last(s)][k]
<1> DEFINE c == doc.kids[Last(s)][k]
           x == Step(k, c)
           t == Append(s, x)
           L == Len(s)
<1>1. L \in Nat \ {0} /\ DOMAIN s = 1 .. L /\ s \in Seq(Steps) /\ Last(s) = s[L].node /\ Last(s) \in Nodes
  BY WayBasics
<1>2. c \in Nodes /\ k \in Nat
  BY <1>1, KidsType
<1>a. c = doc.kids[Last(s)][k]
  OBVIOUS
<1> HIDE DEF c, L
<1>3. x \in Steps /\ x.kid = k /\ x.node = c
  BY <1>2 DEF Step, Steps
<1> HIDE DEF x
<1>4. /\ t \in Seq(Steps) /\ Len(t) = L + 1 /\ DOMAIN t = 1 .. L + 1
      /\ \A i \in 1 .. L : t[i] = s[i]
      /\ t[L + 1] = x
  BY <1>1, <1>3, AppendFacts DEF L
<1> HIDE DEF t
<1>5. t # << >> /\ t[1] = Step(1, doc.root) /\ Last(t) = c
  BY <1>1, <1>3, <1>4 DEF IsWay, Last
<1>6. ASSUME NEW i \in 1 .. L
      PROVE  /\ t[i].node \in Pages /\ t[i + 1].kid \in DOMAIN doc.kids[t[i].node]
             /\ t[i + 1].node = doc.kids[t[i].node][t[i + 1].kid]
  <2>1. CASE i = L
    BY <1>1, <1>3, <1>4, <1>a, <2>1
  <2>2. CASE i # L
    <3>1. i \in 1 .. L - 1 /\ i + 1 \in 1 .. L
      BY <1>1, <2>2
    <3>2. i \in 1 .. Len(s) - 1
      BY <3>1 DEF L
    <3> QED
      BY <1>4, <3>1, <3>2 DEF IsWay
  <2> QED
    BY <2>1, <2>2
<1>7. \A i, j \in 1 .. L + 1 : t[i].node = t[j].node => i = j
  <2> TAKE i, j \in 1 .. L + 1
  <2>1. (i \in 1 .. L \/ i = L + 1) /\ (j \in 1 .. L \/ j = L + 1)
    BY <1>1
  <2>2. \A l \in 1 .. L : t[l].node # c
    BY <1>1, <1>4 DEF c
  <2>3. CASE i \in 1 .. L /\ j \in 1 .. L
    BY <1>1, <1>4, <2>3 DEF IsWay
  <2> QED
    BY <1>3, <1>4, <2>1, <2>2, <2>3
<1>8. IsWay(t)
  <2>1. 1 .. Len(t) - 1 = 1 .. L
    BY <1>1, <1>4
  <2> QED
    BY <1>4, <1>5, <1>6, <1>7, <2>1 DEF IsWay
<1> QED
  BY <1>4, <1>5, <1>8 DEF t, x, c, L

(* A way has no more steps than there are nodes.                            *)
LEMMA WayShort ==
  ASSUME doc \in Doc, NEW s, IsWay(s)
  PROVE  Len(s) <= Cardinality(Nodes)
<1> DEFINE I == 1 .. Len(s)
           f == [i \in I |-> s[i].node]
<1>1. Len(s) \in Nat \ {0} /\ DOMAIN s = I /\ \A i \in I : s[i].node \in Nodes
  BY WayBasics
<1>2. IsFiniteSet(Nodes) /\ Cardinality(Nodes) \in Nat
  BY NodesFacts
<1>3. IsFiniteSet(I) /\ Cardinality(I) = Len(s)
  <2> DEFINE L == Len(s)
  <2>1. L \in Nat /\ 1 \in Int /\ L \in Int /\ L > 0
    BY <1>1
  <2> HIDE DEF L
  <2>2. IsFiniteSet(1 .. L) /\ Cardinality(1 .. L) = IF 1 > L THEN 0 ELSE L - 1 + 1
    BY <2>1, FS_Interval
  <2>3. Cardinality(1 .. L) = L
    BY <2>1, <2>2
  <2> QED
    BY <2>2, <2>3 DEF L
<1>4. f \in [I -> Nodes] /\ \A i, j \in I : f[i] = f[j] => i = j
  BY <1>1 DEF IsWay
<1> HIDE DEF f, I
<1>5. ~(Cardinality(Nodes) < Cardinality(I))
  BY <1>2, <1>3, <1>4, FS_PigeonHole
<1> QED
  BY <1>1, <1>2, <1>3, <1>5

LEMMA WaysFacts ==
  ASSUME doc \in Doc
  PROVE  \A s : s \in Ways <=> IsWay(s)
<1> DEFINE N == Cardinality(Nodes)
           Body(f, m) == [l \in 1 .. m |-> IF l = 1 THEN {<<Step(1, doc.root)>>}
                                           ELSE UNION {Further(s) : s \in f[l - 1]}]
           Exists(m) == \E f : f = Body(f, m)
           long == CHOOSE f : f = Body(f, N)
<1>1. N \in Nat
  BY NodesFacts
<1> HIDE DEF N
<1>2. \A m \in 0 .. N : Exists(m)
  <2> DEFINE Bad == {m \in 0 .. N : ~Exists(m)}
  <2> SUFFICES ASSUME Bad # {} PROVE FALSE
    OBVIOUS
  <2>1. PICK m \in Bad : \A k \in Bad : m <= k
    <3> HIDE DEF Exists
    <3>1. Bad \in SUBSET Nat
      BY <1>1
    <3> QED
      BY <3>1, LeastOf
  <2>2. m # 0
    <3> DEFINE f == [i \in 1 .. 0 |-> {}]
    <3>1. 1 .. 0 = {}
      OBVIOUS
    <3>2. f = Body(f, 0)
      BY <3>1
    <3> QED
      BY <3>2
  <2>3. m \in 1 .. N /\ m - 1 \in 0 .. N /\ m - 1 \notin Bad
    <3> HIDE DEF Exists
    <3> QED
      BY <1>1, <2>1, <2>2
  <2>4. PICK f : f = Body(f, m - 1)
    BY <2>3
  <2> DEFINE top == IF m = 1 THEN {<<Step(1, doc.root)>>} ELSE UNION {Further(s) : s \in f[m - 1]}
             h == [i \in 1 .. m |-> IF i = m THEN top ELSE f[i]]
  <2>5. \A i \in 1 .. m - 1 : h[i] = f[i]
    BY <2>3
  <2>6. h[m] = top
    BY <2>3
  <2> HIDE DEF h
  <2>7. \A i \in 1 .. m : h[i] = Body(h, m)[i]
    <3> TAKE i \in 1 .. m
    <3>1. Body(h, m)[i] = IF i = 1 THEN {<<Step(1, doc.root)>>} ELSE UNION {Further(s) : s \in h[i - 1]}
      OBVIOUS
    <3> HIDE DEF Body, Exists
    <3>2. CASE i = m
      <4>1. i # 1 => h[i - 1] = f[m - 1]
        BY <2>3, <2>5, <3>2
      <4> QED
        BY <2>6, <3>1, <3>2, <4>1
    <3>3. CASE i # m
      <4>1. i \in 1 .. m - 1 /\ (i # 1 => i - 1 \in 1 .. m - 1)
        BY <2>3, <3>3
      <4>2. f[i] = IF i = 1 THEN {<<Step(1, doc.root)>>} ELSE UNION {Further(s) : s \in f[i - 1]}
        BY <2>4, <4>1 DEF Body
      <4>3. i # 1 => h[i - 1] = f[i - 1]
        BY <2>5, <4>1
      <4> QED
        BY <2>5, <3>1, <4>1, <4>2, <4>3
    <3> QED
      BY <3>2, <3>3
  <2>8. h = Body(h, m)
    <3> HIDE DEF Exists
    <3>1. DOMAIN h = 1 .. m /\ DOMAIN Body(h, m) = 1 .. m /\ h = [i \in 1 .. m |-> h[i]]
      BY DEF h
    <3>2. Body(h, m) = [i \in 1 .. m |-> Body(h, m)[i]]
      OBVIOUS
    <3> HIDE DEF Body
    <3> QED
      BY <2>7, <3>1, <3>2
  <2>9. Exists(m)
    BY <2>8
  <2> QED
    BY <2>1, <2>9
<1>3. long = Body(long, N)
  <2>1. Exists(N)
    <3>1. N \in 0 .. N
      BY <1>1
    <3> HIDE DEF Exists
    <3> QED
      BY <1>2, <3>1
  <2> HIDE DEF Body
  <2> QED
    BY <2>1
<1> HIDE DEF long, Exists
<1>4. \A l \in 1 .. N : long[l] = IF l = 1 THEN {<<Step(1, doc.root)>>}
                                  ELSE UNION {Further(s) : s \in long[l - 1]}
  BY <1>3
<1>5. Ways = UNION {long[l] : l \in 1 .. N}
  BY DEF Ways, long, Body, N
<1> HIDE DEF Body
<1> DEFINE Right(l) == \A s : s \in long[l] <=> IsWay(s) /\ Len(s) = l
<1>6. \A l \in 1 .. N : Right(l)
  <2> DEFINE Bad == {l \in 1 .. N : ~Right(l)}
  <2> SUFFICES ASSUME Bad # {} PROVE FALSE
    OBVIOUS
  <2>1. PICK l \in Bad : \A k \in Bad : l <= k
    <3> HIDE DEF Right
    <3>1. Bad \in SUBSET Nat
      BY <1>1
    <3> QED
      BY <3>1, LeastOf
  <2>2. CASE l = 1
    <3>1. long[1] = {<<Step(1, doc.root)>>}
      BY <1>4, <2>1, <2>2
    <3>2. Len(<<Step(1, doc.root)>>) = 1
      OBVIOUS
    <3>3. Right(1)
      BY <3>1, <3>2, WayRoot
    <3> QED
      BY <2>1, <2>2, <3>3
  <2>3. CASE l # 1
    <3> DEFINE m == l - 1
    <3>1. m \in 1 .. N /\ m \notin Bad /\ l = m + 1
      <4> HIDE DEF Right
      <4> QED
        BY <1>1, <2>1, <2>3
    <3>2. Right(m)
      BY <3>1
    <3>3. long[l] = UNION {Further(s) : s \in long[m]}
      BY <1>4, <2>1, <2>3
    <3> HIDE DEF m
    <3>4. ASSUME NEW t \in long[l]
          PROVE  IsWay(t) /\ Len(t) = l
      <4>1. PICK s \in long[m] : t \in Further(s)
        BY <3>3
      <4>2. IsWay(s) /\ Len(s) = m
        BY <3>2
      <4>3. doc.type[Last(s)] = "Pages"
        BY <4>1 DEF Further
      <4>4. PICK k \in DOMAIN doc.kids[Last(s)] :
              /\ \A i \in DOMAIN s : s[i].node # doc.kids[Last(s)][k]
              /\ t = Append(s, Step(k, doc.kids[Last(s)][k]))
        BY <4>1, <4>3 DEF Further
      <4>5. Last(s) \in Pages
        BY <4>2, <4>3, WayBasics DEF Pages
      <4> QED
        BY <3>1, <4>2, <4>4, <4>5, WayFurther
    <3>5. ASSUME NEW t, IsWay(t), Len(t) = l
          PROVE  t \in long[l]
      <4> DEFINE s == Upto(t, m)
                 x == t[l]
                 k == t[l].kid
      <4>1. /\ t \in Seq(Steps) /\ DOMAIN t = 1 .. l /\ m \in 1 .. Len(t) /\ m \in Nat \ {0}
            /\ x \in Steps /\ m \in 1 .. Len(t) - 1
        <5>1. Len(t) \in Nat \ {0} /\ DOMAIN t = 1 .. Len(t) /\ t \in Seq(Steps)
              /\ \A i \in DOMAIN t : t[i] \in Steps
          BY <3>5, WayBasics
        <5> QED
          BY <3>1, <3>5, <5>1
      <4>2. IsWay(s) /\ Len(s) = m /\ Last(s) = t[m].node /\ \A i \in 1 .. m : s[i] = t[i]
        BY <3>5, <4>1, WayUpto
      <4>3. s \in Seq(Steps) /\ DOMAIN s = 1 .. m
        BY <4>2, WayBasics
      <4>4. /\ t[m].node \in Pages /\ k \in DOMAIN doc.kids[t[m].node]
            /\ x.node = doc.kids[t[m].node][k]
        <5>1. \A i \in 1 .. Len(t) - 1 : /\ t[i].node \in Pages
                                        /\ t[i + 1].kid \in DOMAIN doc.kids[t[i].node]
                                        /\ t[i + 1].node = doc.kids[t[i].node][t[i + 1].kid]
          BY <3>5 DEF IsWay
        <5>2. m + 1 = l
          BY <3>1
        <5> QED
          BY <4>1, <5>1, <5>2
      <4> HIDE DEF s
      <4>5. \A i \in DOMAIN s : s[i].node # x.node
        <5> TAKE i \in DOMAIN s
        <5>1. i \in DOMAIN t /\ l \in DOMAIN t /\ i # l /\ s[i] = t[i]
          BY <3>1, <4>1, <4>2, <4>3
        <5> QED
          BY <3>5, <5>1 DEF IsWay
      <4>6. x = Step(k, x.node)
        BY <4>1 DEF Step, Steps
      <4> HIDE DEF x
      <4>7. t = Append(s, x)
        <5>1. /\ Append(s, x) \in Seq(Steps) /\ Len(Append(s, x)) = m + 1
              /\ \A i \in 1 .. m : Append(s, x)[i] = s[i]
              /\ Append(s, x)[m + 1] = x
          BY <4>1, <4>2, <4>3, AppendFacts
        <5> DEFINE u == Append(s, x)
        <5> HIDE DEF u
        <5>2. u \in Seq(Steps) /\ Len(u) = Len(t) /\ t \in Seq(Steps)
          BY <3>1, <3>5, <4>1, <5>1 DEF u
        <5>3. \A i \in 1 .. Len(t) : u[i] = t[i]
          <6> TAKE i \in 1 .. Len(t)
          <6>1. i \in 1 .. m \/ i = m + 1
            BY <3>1, <3>5, <4>1
          <6> QED
            BY <3>1, <4>2, <5>1, <6>1 DEF u, x
        <5>4. u = t
          BY <5>2, <5>3
        <5> QED
          BY <5>4 DEF u
      <4>8. t \in Further(s)
        <5>1. doc.type[Last(s)] = "Pages"
          BY <4>2, <4>4 DEF Pages
        <5>2. k \in DOMAIN doc.kids[Last(s)] /\ x.node = doc.kids[Last(s)][k]
          BY <4>2, <4>4
        <5> HIDE DEF k
        <5>3. t = Append(s, Step(k, doc.kids[Last(s)][k]))
          BY <4>6, <4>7, <5>2 DEF k
        <5> QED
          BY <4>5, <5>1, <5>2, <5>3 DEF Further
      <4>9. s \in long[m]
        BY <3>2, <4>2
      <4> QED
        BY <3>3, <4>8, <4>9
    <3>6. Right(l)
      BY <3>4, <3>5
    <3> QED
      BY <2>1, <3>6
  <2> QED
    BY <2>2, <2>3
<1> SUFFICES ASSUME NEW s
             PROVE  s \in Ways <=> IsWay(s)
  OBVIOUS
<1>7. IsWay(s) => Len(s) \in 1 .. N
  <2> SUFFICES ASSUME IsWay(s)
               PROVE  Len(s) \in 1 .. N
    OBVIOUS
  <2>1. Len(s) \in Nat \ {0} /\ Len(s) <= N
    BY WayBasics, WayShort DEF N
  <2> QED
    BY <1>1, <2>1
<1> QED
  BY <1>5, <1>6, <1>7

(* Some step on from one that leads to F, all lead to F.                    *)
LEMMA Onward ==
  ASSUME NEW F, NEW s, Len(s) \in Nat, NEW j \in 1 .. Len(s), s[j].node \in F,
         \A i \in j .. Len(s) - 1 : s[i].node \in F => s[i + 1].node \in F
  PROVE  \A i \in j .. Len(s) : s[i].node \in F
<1> DEFINE Bad == {i \in j .. Len(s) : s[i].node \notin F}
<1> SUFFICES ASSUME Bad # {} PROVE FALSE
  OBVIOUS
<1>1. Bad \in SUBSET Nat
  OBVIOUS
<1>2. PICK i \in Bad : \A k \in Bad : i <= k
  <2> HIDE DEF Bad
  <2> QED
    BY <1>1, LeastOf
<1>3. i # j
  OBVIOUS
<1>4. i - 1 \in j .. Len(s) - 1 /\ i - 1 \in j .. Len(s) /\ (i - 1) + 1 = i /\ ~(i <= i - 1)
  BY <1>3
<1>5. i - 1 \notin Bad
  BY <1>2, <1>4
<1> QED
  BY <1>4, <1>5

LEMMA WaysReach ==
  ASSUME doc \in Doc
  PROVE  {Last(s) : s \in Ways} = Reach
<1> DEFINE C == {Last(s) : s \in Ways}
<1>1. \A s : s \in Ways <=> IsWay(s)
  BY WaysFacts
<1>2. C \subseteq Reach
  <2> SUFFICES ASSUME NEW s, IsWay(s)
               PROVE  Last(s) \in Reach
    BY <1>1
  <2>1. Len(s) \in Nat \ {0} /\ Last(s) = s[Len(s)].node /\ 1 \in 1 .. Len(s) /\ Len(s) \in 1 .. Len(s)
    BY WayBasics
  <2>2. s[1].node \in Reach
    BY ReachFacts DEF IsWay, Step
  <2>3. \A i \in 1 .. Len(s) - 1 : s[i].node \in Reach => s[i + 1].node \in Reach
    <3> TAKE i \in 1 .. Len(s) - 1
    <3>1. s[i].node \in Pages /\ s[i + 1].node \in Elems(doc.kids[s[i].node])
      BY DEF IsWay, Elems
    <3>2. KidsIn(Reach)
      BY ReachFacts
    <3> QED
      BY <3>1, <3>2 DEF KidsIn
  <2>4. \A i \in 1 .. Len(s) : s[i].node \in Reach
    BY <2>1, <2>2, <2>3, Onward
  <2> QED
    BY <2>1, <2>4
<1>3. C \in SUBSET Nodes
  BY <1>1, WayBasics
<1>4. doc.root \in C
  <2>1. IsWay(<<Step(1, doc.root)>>)
    BY WayRoot
  <2>2. Last(<<Step(1, doc.root)>>) = doc.root
    BY DEF Last, Step
  <2> QED
    BY <1>1, <2>1, <2>2
<1>5. KidsIn(C)
  <2> SUFFICES ASSUME NEW s, IsWay(s), Last(s) \in Pages, NEW k \in DOMAIN doc.kids[Last(s)]
               PROVE  doc.kids[Last(s)][k] \in C
    BY <1>1 DEF KidsIn, Elems
  <2> DEFINE c == doc.kids[Last(s)][k]
  <2>1. CASE \A i \in DOMAIN s : s[i].node # c
    <3> DEFINE t == Append(s, Step(k, c))
    <3>1. IsWay(t) /\ Last(t) = c
      BY <2>1, WayFurther
    <3> HIDE DEF t
    <3> QED
      BY <1>1, <3>1
  <2>2. CASE \E i \in DOMAIN s : s[i].node = c
    <3>1. PICK i \in DOMAIN s : s[i].node = c
      BY <2>2
    <3>2. i \in 1 .. Len(s)
      BY WayBasics
    <3>3. IsWay(Upto(s, i)) /\ Last(Upto(s, i)) = c
      BY <3>1, <3>2, WayUpto
    <3> QED
      BY <1>1, <3>3
  <2> QED
    BY <2>1, <2>2
<1> HIDE DEF C
<1>6. Reach \subseteq C
  BY <1>3, <1>4, <1>5, ReachFacts
<1> QED
  BY <1>2, <1>6 DEF C

(* The activations from the outermost; the way that they are on; and how    *)
(* far a way is the same.                                                   *)
At(s, d) == s[Len(s) + 1 - d]

Along(s, w, d) ==
  \A i \in 1 .. d : w[i].node = At(s, i).node /\ (i > 1 => w[i].kid = At(s, i - 1).at - 1)

(* Where a way takes a kid before the one that an activation is at, it was  *)
(* followed.                                                                *)
Passed(s, d) == IF d < Len(s) THEN At(s, d).at - 1 ELSE At(s, d).at
Followed(s, v) ==
  \A w : IsWay(w) =>
    \A d \in 1 .. Len(s) :
      d < Len(w) /\ Along(s, w, d) /\ w[d + 1].kid < Passed(s, d) => Last(w) \in v

LEMMA AtFacts ==
  ASSUME doc \in Doc, NEW s \in Seq(Frames), s # << >>, NEW v \in SUBSET Nodes, Walked(s, v)
  PROVE  /\ Len(s) \in Nat \ {0} /\ At(s, Len(s)) = s[1] /\ At(s, 1).node = doc.root
         /\ \A d \in 1 .. Len(s) :
              /\ At(s, d) \in Frames /\ At(s, d).at \in Nat /\ At(s, d).node \in Nodes
              /\ At(s, d).at > 0 => At(s, d).node \in v \cap Pages
              /\ d < Len(s) =>
                   /\ At(s, d).at > 0 /\ At(s, d).at - 1 \in DOMAIN doc.kids[At(s, d).node]
                   /\ doc.kids[At(s, d).node][At(s, d).at - 1] = At(s, d + 1).node
         /\ \A d, e \in 1 .. Len(s) :
              At(s, d).at > 0 /\ At(s, e).at > 0 /\ At(s, d).node = At(s, e).node => d = e
         /\ \A i \in DOMAIN s : Len(s) + 1 - i \in 1 .. Len(s) /\ s[i] = At(s, Len(s) + 1 - i)
<1> DEFINE L == Len(s)
<1>1. L \in Nat \ {0} /\ DOMAIN s = 1 .. L
  BY TailFacts
<1>2. \A d \in 1 .. L : /\ L + 1 - d \in 1 .. L /\ L + 1 - (L + 1 - d) = d
                        /\ (d < L => L + 1 - d > 1 /\ L + 1 - (d + 1) \in 1 .. L /\ L + 1 - (d + 1) < L
                                     /\ (L + 1 - (d + 1)) + 1 = L + 1 - d)
  BY <1>1
<1>3. \A i \in 1 .. L : s[i] \in Frames
  BY <1>1
<1>4. At(s, L) = s[1] /\ At(s, 1).node = doc.root
  <2>1. L + 1 - L = 1 /\ L + 1 - 1 = L /\ L \in DOMAIN s
    BY <1>1
  <2> QED
    BY <2>1 DEF At, Walked
<1>5. ASSUME NEW d \in 1 .. L
      PROVE  /\ At(s, d) \in Frames
             /\ At(s, d).at > 0 => At(s, d).node \in v \cap Pages
             /\ d < L =>
                  /\ At(s, d).at > 0 /\ At(s, d).at - 1 \in DOMAIN doc.kids[At(s, d).node]
                  /\ doc.kids[At(s, d).node][At(s, d).at - 1] = At(s, d + 1).node
  <2> DEFINE i == L + 1 - d
             j == L + 1 - (d + 1)
  <2>1. i \in 1 .. L /\ (d < L => i > 1 /\ j \in 1 .. L /\ j < L /\ j + 1 = i)
    BY <1>2
  <2>2. At(s, d) = s[i] /\ At(s, d + 1) = s[j]
    BY DEF At
  <2> HIDE DEF i, j
  <2>3. s[i] \in Frames /\ (s[i].at > 0 => s[i].node \in v \cap Pages) /\ (i > 1 => s[i].at > 0)
    BY <1>1, <1>3, <2>1 DEF Walked
  <2>4. d < L => /\ s[j + 1].at - 1 \in DOMAIN doc.kids[s[j + 1].node]
                 /\ doc.kids[s[j + 1].node][s[j + 1].at - 1] = s[j].node
    BY <1>1, <2>1 DEF Walked
  <2> QED
    BY <2>1, <2>2, <2>3, <2>4
<1>6. \A d \in 1 .. L : At(s, d).at \in Nat /\ At(s, d).node \in Nodes
  BY <1>5 DEF Frames
<1>7. ASSUME NEW d \in 1 .. L, NEW e \in 1 .. L, At(s, d).at > 0, At(s, e).at > 0, At(s, d).node = At(s, e).node
      PROVE  d = e
  <2> DEFINE i == L + 1 - d
             j == L + 1 - e
  <2>1. i \in DOMAIN s /\ j \in DOMAIN s /\ (i = j => d = e)
    BY <1>1
  <2>2. At(s, d) = s[i] /\ At(s, e) = s[j]
    BY DEF At
  <2> HIDE DEF i, j
  <2> QED
    BY <1>7, <2>1, <2>2 DEF Walked
<1>8. \A i \in DOMAIN s : L + 1 - i \in 1 .. L /\ s[i] = At(s, L + 1 - i)
  <2> TAKE i \in DOMAIN s
  <2>1. L + 1 - i \in 1 .. L /\ L + 1 - (L + 1 - i) = i
    BY <1>1
  <2> QED
    BY <2>1 DEF At
<1> QED
  BY <1>1, <1>4, <1>5, <1>6, <1>7, <1>8

LEMMA FollowedPop ==
  ASSUME doc \in Doc, NEW s \in Seq(Frames), s # << >>, NEW v \in SUBSET Nodes, NEW v1 \in SUBSET Nodes,
         Walked(s, v), Explored(s, v), Followed(s, v), v \subseteq v1, s[1].node \in v1,
         \/ s[1].at = 0 /\ s[1].node \in v
         \/ s[1].at = 0 /\ s[1].node \notin Pages
         \/ s[1].at = Len(doc.kids[s[1].node]) + 1
  PROVE  Followed(Tail(s), v1)
<1> DEFINE t == Tail(s)
           L == Len(s)
           n == s[1].node
<1>1. /\ t \in Seq(Frames) /\ L \in Nat \ {0} /\ Len(t) = L - 1
      /\ \A i \in 1 .. L - 1 : t[i] = s[i + 1]
  BY TailFacts
<1>2. /\ At(s, L) = s[1]
      /\ \A d \in 1 .. L :
           /\ At(s, d).at \in Nat /\ At(s, d).node \in Nodes
           /\ At(s, d).at > 0 => At(s, d).node \in v \cap Pages
           /\ d < L =>
                /\ At(s, d).at > 0 /\ At(s, d).at - 1 \in DOMAIN doc.kids[At(s, d).node]
                /\ doc.kids[At(s, d).node][At(s, d).at - 1] = At(s, d + 1).node
      /\ \A i \in DOMAIN s : L + 1 - i \in 1 .. L /\ s[i] = At(s, L + 1 - i)
  BY AtFacts
<1> HIDE DEF t, L, n
<1>3. \A d \in 1 .. L - 1 : At(t, d) = At(s, d)
  <2> TAKE d \in 1 .. L - 1
  <2>1. (L - 1) + 1 - d \in 1 .. L - 1 /\ ((L - 1) + 1 - d) + 1 = L + 1 - d
    BY <1>1
  <2> QED
    BY <1>1, <2>1 DEF At, L
<1> SUFFICES ASSUME NEW w, IsWay(w), NEW d \in 1 .. L - 1,
                    d < Len(w), Along(t, w, d), w[d + 1].kid < Passed(t, d)
             PROVE  Last(w) \in v1
  BY <1>1 DEF Followed, t
<1>4. /\ Len(w) \in Nat \ {0} /\ DOMAIN w = 1 .. Len(w) /\ Last(w) = w[Len(w)].node
      /\ \A i \in DOMAIN w : w[i].kid \in Nat /\ w[i].kid > 0
  BY WayBasics
<1>5. Along(s, w, d)
  <2> SUFFICES ASSUME NEW i \in 1 .. d
               PROVE  w[i].node = At(s, i).node /\ (i > 1 => w[i].kid = At(s, i - 1).at - 1)
    BY DEF Along
  <2>1. w[i].node = At(t, i).node /\ (i > 1 => w[i].kid = At(t, i - 1).at - 1)
    BY DEF Along
  <2>2. i \in 1 .. L - 1 /\ (i > 1 => i - 1 \in 1 .. L - 1)
    BY <1>1
  <2> QED
    BY <1>3, <2>1, <2>2
<1>6. d \in 1 .. L /\ d < L /\ d + 1 \in DOMAIN w /\ d + 1 \in 1 .. L /\ d + 1 \in 1 .. Len(w)
  BY <1>1, <1>4
<1>7. Passed(s, d) = At(s, d).at - 1
  BY <1>6 DEF Passed, L
<1>8. CASE w[d + 1].kid < At(s, d).at - 1
  <2>1. Last(w) \in v
    BY <1>5, <1>6, <1>7, <1>8 DEF Followed, L
  <2> QED
    BY <2>1
<1>9. CASE ~(w[d + 1].kid < At(s, d).at - 1)
  <2>1. d = L - 1
    <3> SUFFICES ASSUME d # L - 1
                 PROVE  FALSE
      OBVIOUS
    <3>1. d < Len(t)
      BY <1>1
    <3>2. Passed(t, d) = At(s, d).at - 1
      BY <1>3, <3>1 DEF Passed
    <3> QED
      BY <1>9, <3>2
  <2>2. d + 1 = L
    BY <1>1, <2>1
  <2>3. Passed(t, d) = At(s, d).at
    <3>1. ~(d < Len(t))
      BY <1>1, <2>1
    <3> QED
      BY <1>3, <3>1 DEF Passed
  <2>4. w[L].kid = At(s, d).at - 1
    <3>1. w[L].kid \in Nat /\ At(s, d).at \in Nat
      BY <1>2, <1>4, <1>6, <2>2
    <3> QED
      BY <1>9, <2>2, <2>3, <3>1
  <2>5. w[L].node = n
    <3>1. w[d].node = At(s, d).node
      BY <1>5 DEF Along
    <3>2. w[d + 1].node = doc.kids[w[d].node][w[d + 1].kid]
      <4>1. d \in 1 .. Len(w) - 1
        BY <1>4, <1>6
      <4> QED
        BY <4>1 DEF IsWay
    <3>3. doc.kids[At(s, d).node][At(s, d).at - 1] = At(s, d + 1).node
      BY <1>2, <1>6
    <3> QED
      BY <1>2, <2>2, <2>4, <3>1, <3>2, <3>3 DEF n
  <2>6. Along(s, w, L)
    <3> SUFFICES ASSUME NEW i \in 1 .. L
                 PROVE  w[i].node = At(s, i).node /\ (i > 1 => w[i].kid = At(s, i - 1).at - 1)
      BY DEF Along
    <3>1. CASE i = L
      <4>1. L - 1 = d
        BY <2>1
      <4> QED
        BY <1>2, <2>4, <2>5, <3>1, <4>1 DEF n
    <3>2. CASE i # L
      <4>1. i \in 1 .. d
        BY <1>1, <2>1, <3>2
      <4> QED
        BY <1>5, <4>1 DEF Along
    <3> QED
      BY <3>1, <3>2
  <2>7. L \in 1 .. Len(w) /\ L \in DOMAIN w
    BY <1>6, <2>2
  <2>8. CASE Len(w) = L
    BY <1>4, <2>5, <2>8 DEF n
  <2>9. CASE Len(w) # L
    <3>1. L < Len(w) /\ L \in 1 .. Len(w) - 1 /\ L \in 1 .. L /\ L + 1 \in DOMAIN w
      <4>1. \A l, m \in Nat \ {0} : l \in 1 .. m /\ m # l =>
              l < m /\ l \in 1 .. m - 1 /\ l \in 1 .. l /\ l + 1 \in 1 .. m
        OBVIOUS
      <4>2. L \in Nat \ {0} /\ Len(w) \in Nat \ {0} /\ DOMAIN w = 1 .. Len(w)
        BY <1>1, <1>4
      <4> QED
        BY <2>7, <2>9, <4>1, <4>2
    <3>2. n \in Pages /\ w[L + 1].kid \in DOMAIN doc.kids[n] /\ n \in Nodes
      BY <2>5, <3>1 DEF IsWay, Pages
    <3>3. CASE s[1].at = Len(doc.kids[n]) + 1
      <4>1. w[L + 1].kid < At(s, L).at
        <5>1. w[L + 1].kid \in 1 .. Len(doc.kids[n]) /\ Len(doc.kids[n]) \in Nat
          BY <3>2, KidsType
        <5> QED
          BY <1>2, <3>3, <5>1
      <4>2. Passed(s, L) = At(s, L).at
        BY <1>1 DEF Passed, L
      <4>3. Last(w) \in v
        BY <2>6, <3>1, <4>1, <4>2 DEF Followed, L
      <4> QED
        BY <4>3
    <3>4. CASE s[1].at = 0 /\ n \in v
      <4>1. ASSUME NEW i \in L .. Len(w) - 1, w[i].node \in v
            PROVE  w[i + 1].node \in v
        <5>1. i \in 1 .. Len(w) - 1 /\ i \in DOMAIN w /\ i >= L
          BY <1>1, <1>4
        <5>2. w[i].node \in v \cap Pages /\ w[i + 1].kid \in DOMAIN doc.kids[w[i].node]
              /\ w[i + 1].node = doc.kids[w[i].node][w[i + 1].kid]
          BY <4>1, <5>1 DEF IsWay
        <5>3. ASSUME NEW j \in DOMAIN s, s[j].node = w[i].node, s[j].at > 0
              PROVE  FALSE
          <6> DEFINE e == L + 1 - j
          <6>1. e \in 1 .. L /\ s[j] = At(s, e)
            BY <1>2
          <6> HIDE DEF e
          <6>2. e # L
            BY <1>2, <3>4, <5>3, <6>1
          <6>3. w[e].node = At(s, e).node
            BY <2>6, <6>1 DEF Along
          <6>4. e \in DOMAIN w /\ e # i
            BY <1>1, <1>4, <2>7, <5>1, <6>1, <6>2
          <6> QED
            BY <5>1, <5>3, <6>1, <6>3, <6>4 DEF IsWay
        <5> QED
          BY <3>4, <5>2, <5>3 DEF Explored, n
      <4>2. w[L].node \in v
        BY <2>5, <3>4
      <4>3. \A i \in L .. Len(w) : w[i].node \in v
        BY <1>4, <2>7, <4>1, <4>2, Onward
      <4>4. Len(w) \in L .. Len(w)
        BY <1>4, <2>7
      <4> QED
        BY <1>4, <4>3, <4>4
    <3> QED
      BY <3>2, <3>3, <3>4 DEF n
  <2> QED
    BY <2>8, <2>9
<1> QED
  BY <1>8, <1>9

LEMMA FollowedEnter ==
  ASSUME doc \in Doc, stack \in Seq(Frames), stack # << >>, NEW v \in SUBSET Nodes, NEW v1 \in SUBSET Nodes,
         Followed(stack, v), v \subseteq v1
  PROVE  Followed([stack EXCEPT ![1].at = 1], v1)
<1> DEFINE s == stack
           t == [stack EXCEPT ![1].at = 1]
           L == Len(stack)
<1>1. /\ t \in Seq(Frames) /\ Len(t) = L /\ L \in Nat \ {0}
      /\ t[1].node = s[1].node /\ t[1].at = 1
      /\ \A i \in 2 .. L : t[i] = s[i]
  BY SetAt, TopType DEF Top
<1> HIDE DEF t, L
<1>2. \A d \in 1 .. L : At(t, d).node = At(s, d).node /\ (d < L => At(t, d) = At(s, d)) /\ (d = L => At(t, d).at = 1)
  <2> TAKE d \in 1 .. L
  <2>1. L + 1 - d \in 1 .. L /\ (d < L => L + 1 - d \in 2 .. L) /\ (d = L => L + 1 - d = 1)
        /\ (L + 1 - d \in 2 .. L \/ L + 1 - d = 1)
    BY <1>1
  <2> QED
    BY <1>1, <2>1 DEF At, L
<1> SUFFICES ASSUME NEW w, IsWay(w), NEW d \in 1 .. L,
                    d < Len(w), Along(t, w, d), w[d + 1].kid < Passed(t, d)
             PROVE  Last(w) \in v1
  BY <1>1 DEF Followed, t
<1>3. d + 1 \in DOMAIN w /\ w[d + 1].kid \in Nat /\ w[d + 1].kid > 0
  <2>1. d + 1 \in DOMAIN w
    BY <1>1, WayBasics
  <2> QED
    BY <2>1, WayBasics
<1>4. d < L
  <2> SUFFICES ASSUME ~(d < L)
               PROVE  FALSE
    OBVIOUS
  <2>1. d = L
    BY <1>1
  <2>2. Passed(t, d) = 1
    BY <1>1, <1>2, <2>1 DEF Passed
  <2> QED
    BY <1>3, <2>2
<1>5. Passed(t, d) = Passed(s, d)
  BY <1>1, <1>2, <1>4 DEF Passed, L
<1>6. Along(s, w, d)
  <2> SUFFICES ASSUME NEW i \in 1 .. d
               PROVE  w[i].node = At(s, i).node /\ (i > 1 => w[i].kid = At(s, i - 1).at - 1)
    BY DEF Along
  <2>1. w[i].node = At(t, i).node /\ (i > 1 => w[i].kid = At(t, i - 1).at - 1)
    BY DEF Along
  <2>2. i \in 1 .. L /\ (i > 1 => i - 1 \in 1 .. L /\ i - 1 < L)
    BY <1>1, <1>4
  <2> QED
    BY <1>2, <2>1, <2>2
<1>7. Last(w) \in v
  BY <1>5, <1>6 DEF Followed, L
<1> QED
  BY <1>7

LEMMA FollowedKid ==
  ASSUME doc \in Doc, stack \in Seq(Frames), stack # << >>, NEW v \in SUBSET Nodes,
         Followed(stack, v), Top.at \in DOMAIN doc.kids[Top.node]
  PROVE  LET c == doc.kids[Top.node][Top.at]
         IN  Followed(<<Frame(c, Top.node)>> \o [stack EXCEPT ![1].at = Top.at + 1], v)
<1> DEFINE s == stack
           n == Top.node
           k == Top.at
           k1 == k + 1
           c == doc.kids[n][k]
           t == [stack EXCEPT ![1].at = k1]
           u == <<Frame(c, n)>> \o t
           L == Len(stack)
<1>1. n \in Nodes /\ k \in Nat /\ k1 \in Nat /\ c \in Nodes /\ L \in Nat \ {0} /\ k1 - 1 = k
  BY TopType, KidsType
<1>2. s[1].node = n /\ s[1].at = k
  BY DEF Top
<1> HIDE DEF k1, k, n, c, L
<1>3. /\ t \in Seq(Frames) /\ Len(t) = L
      /\ t[1].node = n /\ t[1].at = k1
      /\ \A i \in 2 .. L : t[i] = s[i]
  BY <1>1, SetAt DEF n, L
<1> HIDE DEF t
<1>4. /\ u \in Seq(Frames) /\ Len(u) = L + 1
      /\ u[1].node = c /\ u[1].at = 0
      /\ \A i \in 1 .. L : u[i + 1] = t[i]
  BY <1>1, <1>3, PushKid
<1> HIDE DEF u
<1>5. /\ \A d \in 1 .. L : At(u, d).node = At(s, d).node /\ (d < L => At(u, d) = At(s, d))
                           /\ (d = L => At(u, d).at - 1 = At(s, d).at)
      /\ At(u, L + 1).at = 0
  <2>1. ASSUME NEW d \in 1 .. L
        PROVE  At(u, d).node = At(s, d).node /\ (d < L => At(u, d) = At(s, d))
               /\ (d = L => At(u, d).at - 1 = At(s, d).at)
    <3> DEFINE i == L + 1 - d
    <3>1. i \in 1 .. L /\ (L + 1) + 1 - d = i + 1 /\ (d < L => i \in 2 .. L) /\ (d = L => i = 1)
          /\ (i \in 2 .. L \/ i = 1)
      BY <1>1
    <3>2. At(u, d) = t[i] /\ At(s, d) = s[i]
      <4>1. At(s, d) = s[i]
        BY DEF At, L
      <4>2. At(u, d) = u[(L + 1) + 1 - d]
        BY <1>4 DEF At
      <4> HIDE DEF i
      <4> QED
        BY <1>4, <3>1, <4>1, <4>2
    <3> HIDE DEF i
    <3> QED
      BY <1>1, <1>2, <1>3, <3>1, <3>2
  <2>2. At(u, L + 1).at = 0
    <3>1. (L + 1) + 1 - (L + 1) = 1
      BY <1>1
    <3>2. At(u, L + 1) = u[(L + 1) + 1 - (L + 1)]
      BY <1>4 DEF At
    <3> QED
      BY <1>4, <3>1, <3>2
  <2> QED
    BY <2>1, <2>2
<1> SUFFICES ASSUME NEW w, IsWay(w), NEW d \in 1 .. L + 1,
                    d < Len(w), Along(u, w, d), w[d + 1].kid < Passed(u, d)
             PROVE  Last(w) \in v
  BY <1>4 DEF Followed, u, t, c, n, k, k1
<1>6. d + 1 \in DOMAIN w /\ w[d + 1].kid \in Nat
  <2>1. d + 1 \in DOMAIN w
    BY <1>1, WayBasics
  <2> QED
    BY <2>1, WayBasics
<1>7. d \in 1 .. L
  <2> SUFFICES ASSUME d \notin 1 .. L
               PROVE  FALSE
    OBVIOUS
  <2>1. d = L + 1
    BY <1>1
  <2>2. Passed(u, d) = 0
    BY <1>1, <1>4, <1>5, <2>1 DEF Passed
  <2> QED
    BY <1>6, <2>2
<1>8. Passed(u, d) = Passed(s, d)
  <2>1. Passed(u, d) = At(u, d).at - 1
    BY <1>1, <1>4, <1>7 DEF Passed
  <2>2. CASE d < L
    <3>1. Passed(s, d) = At(s, d).at - 1
      BY <2>2 DEF Passed, L
    <3> QED
      BY <1>5, <1>7, <2>1, <2>2, <3>1
  <2>3. CASE ~(d < L)
    <3>1. Passed(s, d) = At(s, d).at /\ d = L
      BY <1>1, <1>7, <2>3 DEF Passed, L
    <3> QED
      BY <1>5, <1>7, <2>1, <3>1
  <2> QED
    BY <2>2, <2>3
<1>9. Along(s, w, d)
  <2> SUFFICES ASSUME NEW i \in 1 .. d
               PROVE  w[i].node = At(s, i).node /\ (i > 1 => w[i].kid = At(s, i - 1).at - 1)
    BY DEF Along
  <2>1. w[i].node = At(u, i).node /\ (i > 1 => w[i].kid = At(u, i - 1).at - 1)
    BY DEF Along
  <2>2. i \in 1 .. L /\ (i > 1 => i - 1 \in 1 .. L /\ i - 1 < L)
    BY <1>1, <1>7
  <2> QED
    BY <1>5, <2>1, <2>2
<1> QED
  BY <1>7, <1>8, <1>9 DEF Followed, L

(* A list in the order of the tree, as far as it goes.                      *)
Once(p) == \A i, j \in DOMAIN p : p[i] = p[j] => i = j
Listed(p) ==
  \A i \in DOMAIN p :
    \E t : /\ IsWay(t) /\ Last(t) = p[i]
           /\ \A s : IsWay(s) /\ doc.type[Last(s)] = "Page" /\ (\A j \in 1 .. i : Last(s) # p[j])
                       => Before(t, s)

OrderInv == phase \in {"loading", "ready"} => Followed(stack, seen) /\ Listed(pageList)

LEMMA OrderCarried ==
  ASSUME doc' = doc, NEW s, stack' = s, NEW v, seen' = v, NEW p, pageList' = p
  PROVE  /\ Followed(stack, seen)' <=> Followed(s, v)
         /\ Listed(pageList)' <=> Listed(p)
<1>1. Pages' = Pages
  BY DEF Pages
<1>2. Followed(stack, seen)' <=> Followed(s, v)
  BY <1>1 DEF Followed, Along, At, Passed, IsWay, Last, Step
<1>3. Listed(pageList)' <=> Listed(p)
  BY <1>1 DEF Listed, IsWay, Last, Step, Before
<1> QED
  BY <1>2, <1>3

(* The way that a page is found on is before all the ways to pages that     *)
(* were not found.                                                          *)
LEMMA FirstWay ==
  ASSUME doc \in Doc, stack \in Seq(Frames), stack # << >>, seen \in SUBSET Nodes,
         Walked(stack, seen), Followed(stack, seen), Top.at = 0, Top.node \notin seen,
         doc.type[Top.node] = "Page"
  PROVE  \E t : /\ IsWay(t) /\ Last(t) = Top.node
                /\ \A s : IsWay(s) /\ doc.type[Last(s)] = "Page" /\ Last(s) \notin seen \cup {Top.node}
                            => Before(t, s)
<1> DEFINE L == Len(stack)
           n == Top.node
           K(d) == IF d = 1 THEN 1 ELSE At(stack, d - 1).at - 1
           N(d) == At(stack, d).node
           t == [d \in 1 .. L |-> Step(K(d), N(d))]
<1>1. /\ L \in Nat \ {0} /\ At(stack, L) = stack[1] /\ N(1) = doc.root
      /\ \A d \in 1 .. L :
           /\ At(stack, d).at \in Nat /\ N(d) \in Nodes
           /\ At(stack, d).at > 0 => N(d) \in seen \cap Pages
           /\ d < L =>
                /\ At(stack, d).at > 0 /\ At(stack, d).at - 1 \in DOMAIN doc.kids[N(d)]
                /\ doc.kids[N(d)][At(stack, d).at - 1] = N(d + 1)
      /\ \A d, e \in 1 .. L :
           At(stack, d).at > 0 /\ At(stack, e).at > 0 /\ N(d) = N(e) => d = e
  BY AtFacts
<1>2. N(L) = n /\ n \notin Pages
  BY <1>1 DEF Top, Pages
<1>3. \A d \in 1 .. L : t[d].kid = K(d) /\ t[d].node = N(d)
  BY DEF Step
<1>4. \A d \in 1 .. L - 1 : /\ d \in 1 .. L /\ d + 1 \in 1 .. L /\ d < L /\ d + 1 # 1 /\ (d + 1) - 1 = d
  BY <1>1
<1>5. \A d \in 1 .. L - 1 : K(d + 1) = At(stack, d).at - 1 /\ N(d) \in seen \cap Pages
  BY <1>1, <1>4
<1>6. t \in Seq(Steps) /\ Len(t) = L
  <2>1. \A d \in 1 .. L : K(d) \in Nat
    <3> TAKE d \in 1 .. L
    <3>1. CASE d = 1
      BY <3>1
    <3>2. CASE d # 1
      <4>1. d - 1 \in 1 .. L - 1 /\ (d - 1) + 1 = d
        BY <1>1, <3>2
      <4>2. K(d) = At(stack, d - 1).at - 1 /\ At(stack, d - 1).at > 0 /\ At(stack, d - 1).at \in Nat
        BY <1>1, <1>4, <3>2, <4>1
      <4> HIDE DEF K
      <4> QED
        BY <4>2
    <3> QED
      BY <3>1, <3>2
  <2>2. \A d \in 1 .. L : t[d] \in Steps
    <3> HIDE DEF K, N, L
    <3> QED
      BY <1>1, <2>1 DEF Step, Steps
  <2> HIDE DEF K, N, L
  <2> QED
    BY <1>1, <2>2
<1> HIDE DEF K, N, t, L, n
<1>7. IsWay(t)
  <2>1. DOMAIN t = 1 .. L /\ t # << >> /\ 1 \in 1 .. L
    BY <1>1, <1>6
  <2>2. t[1] = Step(1, doc.root)
    BY <1>1, <2>1 DEF t, K
  <2>3. ASSUME NEW d \in 1 .. L - 1
        PROVE  /\ t[d].node \in Pages /\ t[d + 1].kid \in DOMAIN doc.kids[t[d].node]
               /\ t[d + 1].node = doc.kids[t[d].node][t[d + 1].kid]
    <3>1. t[d].node = N(d) /\ t[d + 1].node = N(d + 1) /\ t[d + 1].kid = At(stack, d).at - 1
      BY <1>3, <1>4, <1>5
    <3> QED
      BY <1>1, <1>4, <1>5, <3>1
  <2>4. ASSUME NEW d \in 1 .. L, NEW e \in 1 .. L, t[d].node = t[e].node
        PROVE  d = e
    <3>1. N(d) = N(e)
      BY <1>3, <2>4
    <3>2. (d \in 1 .. L - 1 \/ d = L) /\ (e \in 1 .. L - 1 \/ e = L)
      BY <1>1
    <3>3. \A f \in 1 .. L - 1 : N(f) # n
      BY <1>2, <1>5
    <3>4. CASE d \in 1 .. L - 1 /\ e \in 1 .. L - 1
      BY <1>1, <1>4, <3>1, <3>4
    <3> QED
      BY <1>2, <3>1, <3>2, <3>3, <3>4
  <2> QED
    BY <1>6, <2>1, <2>2, <2>3, <2>4 DEF IsWay
<1>8. Last(t) = n
  <2>1. L \in 1 .. L
    BY <1>1
  <2> QED
    BY <1>2, <1>3, <1>6, <2>1 DEF Last
<1>9. ASSUME NEW s, IsWay(s), doc.type[Last(s)] = "Page", Last(s) \notin seen \cup {n}
      PROVE  Before(t, s)
  <2> DEFINE Differ == {i \in 1 .. L : i \in DOMAIN s /\ s[i] # t[i]}
  <2>1. /\ Len(s) \in Nat \ {0} /\ DOMAIN s = 1 .. Len(s) /\ Last(s) = s[Len(s)].node
        /\ \A i \in DOMAIN s : s[i] \in Steps /\ s[i].kid \in Nat
    BY <1>9, WayBasics
  <2>2. Last(s) \notin Pages
    BY <1>9 DEF Pages
  <2>3. Differ # {}
    <3> SUFFICES ASSUME \A i \in 1 .. L : i \in DOMAIN s => s[i] = t[i]
                 PROVE  FALSE
      OBVIOUS
    <3>1. CASE Len(s) < L
      <4>1. Len(s) \in 1 .. L - 1 /\ Len(s) \in 1 .. L /\ Len(s) \in DOMAIN s
        BY <1>1, <2>1, <3>1
      <4>2. s[Len(s)].node \in Pages
        BY <1>3, <1>5, <4>1
      <4> QED
        BY <2>1, <2>2, <4>2
    <3>2. CASE Len(s) = L
      <4>1. L \in 1 .. L /\ L \in DOMAIN s
        BY <1>1, <2>1, <3>2
      <4>2. s[L].node = n
        BY <1>2, <1>3, <4>1
      <4> QED
        BY <1>9, <2>1, <3>2, <4>2
    <3>3. CASE Len(s) > L
      <4>1. L \in 1 .. Len(s) - 1 /\ L \in 1 .. L /\ L \in DOMAIN s
        BY <1>1, <2>1, <3>3
      <4>2. s[L].node = n /\ s[L].node \in Pages
        BY <1>2, <1>3, <1>9, <4>1 DEF IsWay
      <4> QED
        BY <1>2, <4>2
    <3> QED
      BY <1>1, <2>1, <3>1, <3>2, <3>3
  <2>4. PICK e \in Differ : \A i \in Differ : e <= i
    <3>1. Differ \in SUBSET Nat
      OBVIOUS
    <3> HIDE DEF Differ
    <3> QED
      BY <2>3, <3>1, LeastOf
  <2>5. \A i \in 1 .. e - 1 : i \in 1 .. L /\ i \in DOMAIN s /\ s[i] = t[i]
    <3> TAKE i \in 1 .. e - 1
    <3>1. i \in 1 .. L /\ i \in DOMAIN s /\ ~(e <= i)
      BY <1>1, <2>1, <2>4
    <3>2. i \notin Differ
      BY <2>4, <3>1
    <3> QED
      BY <3>1, <3>2
  <2>6. e # 1
    <3>1. s[1] = t[1]
      BY <1>7, <1>9 DEF IsWay
    <3> QED
      BY <3>1
  <2> DEFINE d == e - 1
  <2>7. /\ e \in 1 .. L /\ e \in DOMAIN s /\ s[e] # t[e] /\ d + 1 = e
        /\ d \in 1 .. L - 1 /\ d \in 1 .. L /\ d < L /\ d \in 1 .. Len(s) - 1 /\ d < Len(s) /\ d \in 1 .. e - 1
    BY <1>1, <2>1, <2>4, <2>6
  <2> HIDE DEF d, Differ
  <2>8. t[e].kid = At(stack, d).at - 1 /\ t[e].kid \in Nat
    BY <1>1, <1>3, <1>4, <1>5, <2>7
  <2>9. s[e].kid # t[e].kid
    <3> SUFFICES ASSUME s[e].kid = t[e].kid
                 PROVE  FALSE
      OBVIOUS
    <3>1. s[d] = t[d]
      BY <2>5, <2>7
    <3>2. s[e].node = doc.kids[s[d].node][s[e].kid]
      BY <1>9, <2>7 DEF IsWay
    <3>3. t[e].node = doc.kids[t[d].node][t[e].kid]
      BY <1>6, <1>7, <2>7 DEF IsWay
    <3>4. s[e] \in Steps /\ t[e] \in Steps
      BY <1>6, <2>1, <2>7
    <3>5. s[e].node = t[e].node
      BY <3>1, <3>2, <3>3
    <3> QED
      BY <2>7, <3>4, <3>5 DEF Steps
  <2>10. ~(s[e].kid < t[e].kid)
    <3> SUFFICES ASSUME s[e].kid < t[e].kid
                 PROVE  FALSE
      OBVIOUS
    <3>1. Along(stack, s, d)
      <4> SUFFICES ASSUME NEW i \in 1 .. d
                   PROVE  s[i].node = At(stack, i).node /\ (i > 1 => s[i].kid = At(stack, i - 1).at - 1)
        BY DEF Along
      <4>1. i \in 1 .. e - 1 /\ i \in 1 .. L
        <5>1. L \in Nat /\ e \in 1 .. L /\ d + 1 = e /\ d \in 1 .. L
          BY <1>1, <2>7
        <5> QED
          BY <5>1
      <4>2. s[i] = t[i] /\ t[i].node = N(i) /\ t[i].kid = K(i)
        BY <1>3, <2>5, <4>1
      <4> QED
        BY <4>2 DEF N, K
    <3>2. Passed(stack, d) = At(stack, d).at - 1
      BY <2>7 DEF Passed, L
    <3>3. Last(s) \in seen
      BY <1>9, <2>7, <2>8, <3>1, <3>2 DEF Followed, L
    <3> QED
      BY <1>9, <3>3
  <2>11. t[e].kid < s[e].kid
    BY <2>1, <2>7, <2>8, <2>9, <2>10
  <2>12. \A j \in 1 .. e - 1 : t[j] = s[j]
    BY <2>5
  <2>13. e \in DOMAIN t \cap DOMAIN s
    BY <1>1, <1>6, <2>7
  <2> QED
    BY <2>11, <2>12, <2>13 DEF Before
<1> QED
  BY <1>7, <1>8, <1>9 DEF n

LEMMA ListedAppend ==
  ASSUME NEW p \in Seq(Nodes), NEW n \in Nodes, Listed(p),
         \E t : /\ IsWay(t) /\ Last(t) = n
                /\ \A s : IsWay(s) /\ doc.type[Last(s)] = "Page" /\ Last(s) \notin Elems(p) \cup {n}
                            => Before(t, s)
  PROVE  Listed(Append(p, n))
<1> DEFINE q == Append(p, n)
           L == Len(p)
<1>1. /\ L \in Nat /\ DOMAIN p = 1 .. L /\ DOMAIN q = 1 .. L + 1
      /\ \A i \in 1 .. L : q[i] = p[i]
      /\ q[L + 1] = n
  BY AppendFacts
<1> HIDE DEF q, L
<1>2. ASSUME NEW i \in 1 .. L + 1
      PROVE  \E t : /\ IsWay(t) /\ Last(t) = q[i]
                    /\ \A s : IsWay(s) /\ doc.type[Last(s)] = "Page" /\ (\A j \in 1 .. i : Last(s) # q[j])
                                => Before(t, s)
  <2>1. CASE i = L + 1
    <3>1. PICK t : /\ IsWay(t) /\ Last(t) = n
                   /\ \A s : IsWay(s) /\ doc.type[Last(s)] = "Page" /\ Last(s) \notin Elems(p) \cup {n}
                               => Before(t, s)
      OBVIOUS
    <3>2. ASSUME NEW s, \A j \in 1 .. i : Last(s) # q[j]
          PROVE  Last(s) \notin Elems(p) \cup {n}
      <4>1. \A j \in 1 .. L : j \in 1 .. i /\ i \in 1 .. i
        BY <1>1, <2>1
      <4>2. i \in 1 .. i
        BY <1>1, <2>1
      <4> QED
        BY <1>1, <2>1, <3>2, <4>1, <4>2 DEF Elems
    <3> QED
      BY <1>1, <2>1, <3>1, <3>2
  <2>2. CASE i # L + 1
    <3>1. i \in 1 .. L /\ i \in DOMAIN p
      BY <1>1, <2>2
    <3>2. PICK t : /\ IsWay(t) /\ Last(t) = p[i]
                   /\ \A s : IsWay(s) /\ doc.type[Last(s)] = "Page" /\ (\A j \in 1 .. i : Last(s) # p[j])
                               => Before(t, s)
      BY <3>1 DEF Listed
    <3>3. \A j \in 1 .. i : q[j] = p[j]
      BY <1>1, <3>1
    <3> QED
      BY <3>1, <3>2, <3>3
  <2> QED
    BY <2>1, <2>2
<1>3. Listed(q)
  BY <1>1, <1>2 DEF Listed
<1> QED
  BY <1>3 DEF q

LEMMA OrderStep == TypeInv /\ WalkInv /\ OrderInv /\ [Next]_vars => OrderInv'
<1> SUFFICES ASSUME TypeInv, WalkInv, OrderInv, [Next]_vars, phase' \in {"loading", "ready"}
             PROVE  OrderInv'
  BY DEF OrderInv
<1>t. /\ doc \in Doc /\ doc.root \in Nodes
      /\ pageList \in Seq(Nodes) /\ stack \in Seq(Frames) /\ seen \in SUBSET Nodes
  BY DEF TypeInv, TypeOK, Frames, Doc
<1>w. phase \in {"loading", "ready"} =>
        /\ Walked(stack, seen) /\ Explored(stack, seen)
        /\ Elems(pageList) = PagesIn(seen)
        /\ Followed(stack, seen) /\ Listed(pageList)
  BY DEF WalkInv, OrderInv
<1>i. ASSUME NEW s, stack' = s, NEW v, seen' = v, NEW p, pageList' = p, doc' = doc, Followed(s, v), Listed(p)
      PROVE  OrderInv'
  <2>1. Followed(stack, seen)' /\ Listed(pageList)'
    BY <1>i, OrderCarried
  <2> QED
    BY <2>1 DEF OrderInv
<1>1. CASE Load
  <2> DEFINE s == <<Frame(doc.root, Nil)>>
  <2>1. doc' = doc /\ pageList' = << >> /\ stack' = s /\ seen' = {}
    <3>1. doc.root \notin Lost
      BY <1>1 DEF Load
    <3> QED
      BY <1>1, <3>1 DEF Load, StartList
  <2>2. Followed(s, {})
    <3>1. Len(s) = 1 /\ At(s, 1).at = 0
      BY DEF At, Frame
    <3> HIDE DEF s
    <3> SUFFICES ASSUME NEW w, IsWay(w), 1 < Len(w), w[1 + 1].kid < Passed(s, 1)
                 PROVE  FALSE
      BY <3>1 DEF Followed
    <3>2. 2 \in DOMAIN w
      BY <1>t, WayBasics
    <3>3. w[2].kid \in Nat /\ Passed(s, 1) = 0
      BY <1>t, <3>1, <3>2, WayBasics DEF Passed
    <3> QED
      BY <3>3
  <2>3. Listed(<< >>)
    BY DEF Listed
  <2> HIDE DEF s
  <2> QED
    BY <1>i, <2>1, <2>2, <2>3
<1>2. CASE Skip
  <2>1. UNCHANGED <<doc, seen, pageList>> /\ phase = "loading" /\ stack # << >> /\ stack' = Tail(stack)
        /\ stack[1].at = 0 /\ stack[1].node \in seen
    BY <1>2 DEF Skip, Entering, Pop, lists, AlreadyTraversed, Top
  <2>2. Followed(Tail(stack), seen)
    BY <1>t, <1>w, <2>1, FollowedPop
  <2> QED
    BY <1>i, <1>w, <2>1, <2>2
<1>3. CASE PageNode
  <2> DEFINE n == Top.node
             v == seen \cup {n}
             p == Append(pageList, n)
  <2>1. /\ doc' = doc /\ phase = "loading" /\ stack # << >> /\ stack' = Tail(stack)
        /\ seen' = v /\ pageList' = p
        /\ doc.type[n] = "Page" /\ n \notin seen /\ Top.at = 0
    BY <1>3 DEF PageNode, Entering, Pop, AlreadyTraversed
  <2>2. n \in Nodes /\ v \in SUBSET Nodes /\ seen \subseteq v
    BY <1>t, <2>1, TopType
  <2>3. Followed(Tail(stack), v)
    <3>1. stack[1].at = 0 /\ stack[1].node \in v /\ stack[1].node \notin Pages
      BY <2>1 DEF Top, Pages
    <3>2. /\ doc \in Doc /\ stack \in Seq(Frames) /\ stack # << >> /\ seen \in SUBSET Nodes
          /\ Walked(stack, seen) /\ Explored(stack, seen) /\ Followed(stack, seen)
      BY <1>t, <1>w, <2>1
    <3> HIDE DEF v, n, p
    <3> QED
      BY <2>2, <3>1, <3>2, FollowedPop
  <2>4. Listed(p)
    <3>1. PICK t : /\ IsWay(t) /\ Last(t) = n
                   /\ \A s : IsWay(s) /\ doc.type[Last(s)] = "Page" /\ Last(s) \notin seen \cup {n}
                               => Before(t, s)
      BY <1>t, <1>w, <2>1, FirstWay
    <3>2. \A s : IsWay(s) /\ doc.type[Last(s)] = "Page" /\ Last(s) \notin Elems(pageList) \cup {n}
                   => Before(t, s)
      <4>1. \A s : doc.type[Last(s)] = "Page" /\ Last(s) \notin Elems(pageList) => Last(s) \notin seen
        BY <1>w, <2>1 DEF PagesIn
      <4> QED
        BY <3>1, <4>1
    <3> HIDE DEF n
    <3> QED
      BY <1>t, <1>w, <2>1, <2>2, <3>1, <3>2, ListedAppend
  <2> HIDE DEF v, p
  <2> QED
    BY <1>i, <2>1, <2>3, <2>4
<1>4. CASE OtherNode
  BY <1>4 DEF OtherNode, Error
<1>5. CASE PagesNode
  <2> DEFINE v == seen \cup {Top.node}
             s == [stack EXCEPT ![1].at = 1]
  <2>1. UNCHANGED <<doc, pageList>> /\ phase = "loading" /\ stack # << >> /\ seen' = v
    BY <1>5 DEF PagesNode, Entering, lists
  <2>2. stack' = s
    BY <1>5 DEF PagesNode, Error
  <2>3. v \in SUBSET Nodes /\ seen \subseteq v
    BY <1>t, <2>1, TopType
  <2> HIDE DEF v
  <2>4. Followed(s, v)
    BY <1>t, <1>w, <2>1, <2>3, FollowedEnter
  <2> HIDE DEF s
  <2> QED
    BY <1>i, <1>w, <2>1, <2>2, <2>4
<1>6. CASE Kid
  <2> DEFINE c == doc.kids[Top.node][Top.at]
             s == <<Frame(c, Top.node)>> \o [stack EXCEPT ![1].at = Top.at + 1]
  <2>1. /\ UNCHANGED <<doc, seen, pageList>>
        /\ phase = "loading" /\ stack # << >> /\ Top.at \in DOMAIN doc.kids[Top.node]
        /\ stack' = s
    <3>1. [stack EXCEPT ![1].at = NextKid(@)] = [stack EXCEPT ![1].at = Top.at + 1]
      BY DEF NextKid, Top
    <3> QED
      BY <1>6, <3>1 DEF Kid, Error, lists
  <2>2. Followed(s, seen)
    BY <1>t, <1>w, <2>1, FollowedKid
  <2> HIDE DEF s
  <2> QED
    BY <1>i, <1>w, <2>1, <2>2
<1>7. CASE KidsDone
  <2>1. UNCHANGED <<doc, seen, pageList>> /\ phase = "loading" /\ stack # << >> /\ stack' = Tail(stack)
        /\ stack[1].at = Len(doc.kids[stack[1].node]) + 1
    BY <1>7 DEF KidsDone, Pop, lists, Top
  <2>2. stack[1].node \in seen
    <3>1. Len(doc.kids[stack[1].node]) \in Nat
      BY <1>t, <2>1, TopType, KidsType DEF Top
    <3>2. stack[1].at > 0 /\ 1 \in DOMAIN stack
      BY <1>t, <2>1, <3>1
    <3> QED
      BY <1>w, <2>1, <3>2 DEF Walked
  <2>3. Followed(Tail(stack), seen)
    BY <1>t, <1>w, <2>1, <2>2, FollowedPop
  <2> QED
    BY <1>i, <1>w, <2>1, <2>3
<1>8. CASE Loaded
  <2>1. UNCHANGED <<doc, seen, pageList, stack>> /\ phase = "loading"
    BY <1>8 DEF Loaded, lists, walk
  <2> QED
    BY <1>i, <1>w, <2>1
<1>9. ASSUME NEW i \in DOMAIN pageList, AddPage(i)
      PROVE  OrderInv'
  <2>1. UNCHANGED <<doc, pageList, seen, stack>> /\ phase' = phase
    BY <1>9 DEF AddPage, lists, walk
  <2> QED
    BY <1>i, <1>w, <2>1
<1>10. CASE UNCHANGED vars
  <2>1. UNCHANGED <<doc, pageList, seen, stack>> /\ phase' = phase
    BY <1>10 DEF vars, lists, walk
  <2> QED
    BY <1>i, <1>w, <2>1
<1> QED
  BY <1>1, <1>2, <1>3, <1>4, <1>5, <1>6, <1>7, <1>8, <1>9, <1>10 DEF Next, Walk

(* A load that succeeded has the pages in the order of the tree.            *)
LEMMA ListInOrder == TypeInv /\ WalkInv /\ OrderInv => PagesInOrder
<1> SUFFICES ASSUME TypeInv, WalkInv, OrderInv, phase = "ready"
             PROVE  InOrder(pageList)
  BY DEF PagesInOrder
<1>1. /\ doc \in Doc /\ pageList \in Seq(Nodes) /\ Once(pageList) /\ Elems(pageList) = PagesIn(Reach)
      /\ Listed(pageList)
  BY ReadySeen DEF TypeInv, TypeOK, WalkInv, OrderInv, Once
<1>2. (\A s : s \in Ways <=> IsWay(s)) /\ {Last(s) : s \in Ways} = Reach
  BY <1>1, WaysFacts, WaysReach
<1>3. Elems(pageList) = {n \in {Last(s) : s \in Ways} : doc.type[n] = "Page"}
  BY <1>1, <1>2 DEF PagesIn
<1>4. ASSUME NEW s \in Ways, NEW j \in DOMAIN pageList, pageList[j] = Last(s), NEW i \in 1 .. j - 1
      PROVE  \E t \in Ways : Last(t) = pageList[i] /\ Before(t, s)
  <2>1. DOMAIN pageList = 1 .. Len(pageList) /\ Len(pageList) \in Nat
    BY <1>1
  <2>2. i \in DOMAIN pageList
    BY <2>1
  <2>3. PICK t : /\ IsWay(t) /\ Last(t) = pageList[i]
                 /\ \A u : IsWay(u) /\ doc.type[Last(u)] = "Page" /\ (\A k \in 1 .. i : Last(u) # pageList[k])
                             => Before(t, u)
    BY <1>1, <2>2 DEF Listed
  <2>4. \A k \in 1 .. i : Last(s) # pageList[k]
    <3> TAKE k \in 1 .. i
    <3>1. k \in DOMAIN pageList /\ k # j
      BY <2>1
    <3> QED
      BY <1>1, <1>4, <3>1 DEF Once
  <2>5. doc.type[Last(s)] = "Page"
    <3>1. Last(s) \in Elems(pageList)
      BY <1>4 DEF Elems
    <3> QED
      BY <1>1, <3>1 DEF PagesIn
  <2> QED
    BY <1>2, <2>3, <2>4, <2>5
<1> QED
  BY <1>1, <1>3, <1>4 DEF InOrder, Once

-----------------------------------------------------------------------------
(* Two lists in the order of the tree are the same, as far as both go.      *)
LEMMA NotBoth ==
  ASSUME doc \in Doc, NEW s, NEW t, IsWay(s), IsWay(t), Before(t, s), Before(s, t)
  PROVE  FALSE
<1>1. PICK i \in DOMAIN t \cap DOMAIN s : (\A k \in 1 .. i - 1 : t[k] = s[k]) /\ t[i].kid < s[i].kid
  BY DEF Before
<1>2. PICK j \in DOMAIN s \cap DOMAIN t : (\A k \in 1 .. j - 1 : s[k] = t[k]) /\ s[j].kid < t[j].kid
  BY DEF Before
<1>3. /\ Len(s) \in Nat /\ DOMAIN s = 1 .. Len(s)
      /\ s[i].kid \in Nat /\ t[i].kid \in Nat /\ s[j].kid \in Nat /\ t[j].kid \in Nat
  BY <1>1, <1>2, WayBasics
<1>4. i \in Nat /\ j \in Nat /\ i > 0 /\ j > 0
  BY <1>1, <1>2, <1>3
<1>5. CASE i < j
  <2>1. i \in 1 .. j - 1
    BY <1>4, <1>5
  <2>2. t[i] = s[i]
    BY <1>2, <2>1
  <2> QED
    BY <1>1, <1>3, <2>2
<1>6. CASE j < i
  <2>1. j \in 1 .. i - 1
    BY <1>4, <1>6
  <2>2. t[j] = s[j]
    BY <1>1, <2>1
  <2> QED
    BY <1>2, <1>3, <2>2
<1>7. CASE i = j
  BY <1>1, <1>2, <1>3, <1>7
<1> QED
  BY <1>4, <1>5, <1>6, <1>7

LEMMA OneOrder ==
  ASSUME doc \in Doc, NEW p \in Seq(Nodes), NEW q \in Seq(Nodes),
         Listed(p), Listed(q), Once(p), Once(q),
         Elems(p) \subseteq PagesIn(Nodes), Elems(q) \subseteq PagesIn(Nodes)
  PROVE  \A i \in DOMAIN p \cap DOMAIN q : p[i] = q[i]
<1> DEFINE Bad == {i \in DOMAIN p \cap DOMAIN q : p[i] # q[i]}
<1> SUFFICES ASSUME Bad # {} PROVE FALSE
  OBVIOUS
<1>1. /\ DOMAIN p = 1 .. Len(p) /\ DOMAIN q = 1 .. Len(q) /\ Len(p) \in Nat /\ Len(q) \in Nat
  OBVIOUS
<1>2. PICK i \in Bad : \A k \in Bad : i <= k
  <2>1. Bad \in SUBSET Nat
    BY <1>1
  <2> HIDE DEF Bad
  <2> QED
    BY <2>1, LeastOf
<1>3. i \in DOMAIN p /\ i \in DOMAIN q /\ p[i] # q[i] /\ i \in Nat
  BY <1>1, <1>2
<1>4. \A k \in 1 .. i - 1 : k \in DOMAIN p /\ k \in DOMAIN q /\ p[k] = q[k] /\ k # i
  <2> TAKE k \in 1 .. i - 1
  <2>1. k \in DOMAIN p /\ k \in DOMAIN q /\ ~(i <= k) /\ k # i
    BY <1>1, <1>3
  <2>2. k \notin Bad
    BY <1>2, <2>1
  <2> QED
    BY <2>1, <2>2
<1> HIDE DEF Bad
<1>5. \A k \in 1 .. i : k \in 1 .. i - 1 \/ k = i
  BY <1>3
<1>6. PICK t : /\ IsWay(t) /\ Last(t) = p[i]
               /\ \A s : IsWay(s) /\ doc.type[Last(s)] = "Page" /\ (\A k \in 1 .. i : Last(s) # p[k])
                           => Before(t, s)
  BY <1>3 DEF Listed
<1>7. PICK u : /\ IsWay(u) /\ Last(u) = q[i]
               /\ \A s : IsWay(s) /\ doc.type[Last(s)] = "Page" /\ (\A k \in 1 .. i : Last(s) # q[k])
                           => Before(u, s)
  BY <1>3 DEF Listed
<1>8. doc.type[p[i]] = "Page" /\ doc.type[q[i]] = "Page"
  BY <1>3 DEF Elems, PagesIn
<1>9. \A k \in 1 .. i : q[i] # p[k]
  BY <1>3, <1>4, <1>5 DEF Once
<1>10. \A k \in 1 .. i : p[i] # q[k]
  BY <1>3, <1>4, <1>5 DEF Once
<1>11. Before(t, u)
  BY <1>6, <1>7, <1>8, <1>9
<1>12. Before(u, t)
  BY <1>6, <1>7, <1>8, <1>10
<1> QED
  BY <1>6, <1>7, <1>11, <1>12, NotBoth

(* The models.  Where nothing is lost and nothing in the tree is neither a  *)
(* page nor a Pages node, no load fails: the models begin with those of the *)
(* first, which are for the pages in order, and each load lists the same.   *)
Sound == doc.fails = {} /\ \A n \in Reach : doc.type[n] # "Other"

First(full, s, p) ==
  /\ full \in Seq(Nodes) /\ Listed(full) /\ Once(full) /\ Elems(full) \subseteq PagesIn(Reach)
  /\ Len(full) <= Len(s) /\ \A i \in DOMAIN full : s[i].node = full[i]
  /\ \/ full = p /\ Len(s) = Len(p)
     \/ Elems(full) = PagesIn(Reach) /\ Len(p) <= Len(full)

ModelsInv ==
  /\ phase = "closed" => models = << >>
  /\ Sound => phase # "failed" /\ \E full : First(full, models, pageList)

LEMMA ModelsCarried ==
  ASSUME doc' = doc, NEW s, models' = s, NEW p, pageList' = p
  PROVE  /\ Sound' <=> Sound
         /\ (\E full : First(full, models, pageList))' <=> \E full : First(full, s, p)
<1>1. Reach' = Reach
  BY ReachCarried
<1>2. \A full : Listed(full)' <=> Listed(full)
  BY DEF Listed, IsWay, Pages, Last, Step, Before
<1>3. PagesIn(Reach)' = PagesIn(Reach)
  BY <1>1 DEF PagesIn
<1>4. \A full : Once(full)' <=> Once(full)
  BY DEF Once
<1>5. \A full : Elems(full)' = Elems(full)
  BY DEF Elems
<1>6. \A full : First(full, models, pageList)' <=> First(full, s, p)
  BY <1>2, <1>3, <1>4, <1>5 DEF First
<1> QED
  BY <1>1, <1>6 DEF Sound

LEMMA ModelsStep == TypeInv /\ WalkInv /\ OrderInv /\ ModelsInv /\ [Next]_vars => ModelsInv'
<1> SUFFICES ASSUME TypeInv, WalkInv, OrderInv, ModelsInv, [Next]_vars
             PROVE  ModelsInv'
  OBVIOUS
<1>t. /\ doc \in Doc /\ doc.root \in Nodes
      /\ pageList \in Seq(Nodes) /\ models \in Seq(Model) /\ stack \in Seq(Frames) /\ seen \in SUBSET Nodes
      /\ Len(pageList) \in Nat /\ Len(models) \in Nat /\ Len(pageList) <= Len(models)
  BY DEF TypeInv, TypeOK, Frames, Doc
<1>m. /\ phase = "closed" => models = << >>
      /\ Sound => phase # "failed" /\ \E full : First(full, models, pageList)
      /\ Sound => Lost = {}
  BY DEF ModelsInv, Sound, Lost
<1>w. phase \in {"loading", "ready"} =>
        /\ seen \subseteq Reach /\ Walked(stack, seen)
        /\ Once(pageList) /\ Elems(pageList) = PagesIn(seen)
        /\ Listed(pageList)
  BY DEF WalkInv, OrderInv, Once
<1>i. ASSUME NEW s, models' = s, NEW p, pageList' = p, doc' = doc, phase' # "closed",
             Sound => phase' # "failed" /\ \E full : First(full, s, p)
      PROVE  ModelsInv'
  BY <1>i, ModelsCarried DEF ModelsInv
<1>1. CASE Load
  <2>1. doc' = doc /\ models' = models /\ phase' # "closed" /\ phase \in {"closed", "ready", "failed"}
        /\ (doc.root \notin Lost => pageList' = << >> /\ phase' = "loading")
    BY <1>1 DEF Load, StartList
  <2>2. ASSUME Sound
        PROVE  /\ phase' # "failed" /\ pageList' = << >>
               /\ \E full : First(full, models, << >>)
    <3>1. PICK full : First(full, models, pageList)
      BY <1>m, <2>2
    <3>2. Elems(full) = PagesIn(Reach) \/ models = << >>
      <4>1. CASE phase = "closed"
        BY <1>m, <4>1
      <4>2. CASE phase = "ready"
        <5>1. seen = Reach
          BY <4>2, ReadySeen
        <5> QED
          BY <1>w, <3>1, <4>2, <5>1 DEF First
      <4> QED
        BY <1>m, <2>1, <2>2, <4>1, <4>2
    <3>3. CASE Elems(full) = PagesIn(Reach)
      <4>1. Len(<< >>) = 0 /\ Len(full) \in Nat
        BY <3>1 DEF First
      <4>2. First(full, models, << >>)
        BY <3>1, <3>3, <4>1 DEF First
      <4> QED
        BY <1>m, <2>1, <2>2, <4>2
    <3>4. CASE models = << >>
      <4>1. Listed(<< >>) /\ Once(<< >>) /\ Elems(<< >>) = {} /\ << >> \in Seq(Nodes) /\ Len(<< >>) = 0
        BY DEF Listed, Once, Elems
      <4>2. First(<< >>, models, << >>)
        BY <3>4, <4>1 DEF First
      <4> QED
        BY <1>m, <2>1, <2>2, <4>2
    <3> QED
      BY <3>2, <3>3, <3>4
  <2> DEFINE p == pageList'
  <2>3. Sound => phase' # "failed" /\ \E full : First(full, models, p)
    <3> SUFFICES ASSUME Sound PROVE phase' # "failed" /\ \E full : First(full, models, p)
      OBVIOUS
    <3>1. p = << >>
      BY <2>2
    <3> HIDE DEF p
    <3> QED
      BY <2>2, <3>1
  <2> HIDE DEF p
  <2>4. pageList' = p
    BY DEF p
  <2> QED
    BY <1>i, <2>1, <2>3, <2>4
<1>2. CASE Skip \/ KidsDone \/ Loaded
  <2>1. UNCHANGED <<doc, models, pageList>> /\ phase' \notin {"closed", "failed"}
    BY <1>2 DEF Skip, KidsDone, Loaded, Entering, lists
  <2> QED
    BY <1>i, <1>m, <2>1
<1>3. CASE PageNode
  <2> DEFINE n == Top.node
             m == ModelOf(n)
             s == Append(models, m)
             p == Append(pageList, n)
  <2>1. /\ doc' = doc /\ phase = "loading" /\ phase' = phase /\ stack # << >>
        /\ models' = s /\ pageList' = p /\ doc.type[n] = "Page" /\ n \notin seen
    BY <1>3 DEF PageNode, Entering, AddModel, AlreadyTraversed
  <2>2. n \in Nodes /\ n \in Reach /\ m \in Model /\ m.node = n
    <3>1. n \in Nodes /\ n \in Reach
      BY <1>t, <1>w, <2>1, WalkedFacts, TopType DEF Top
    <3> QED
      BY <3>1, ModelOfType DEF TypeInv
  <2>3. /\ s \in Seq(Model) /\ Len(s) = Len(models) + 1 /\ s[Len(models) + 1] = m
        /\ \A i \in 1 .. Len(models) : s[i] = models[i]
    <3> HIDE DEF m
    <3> QED
      BY <1>t, <2>2, AppendFacts
  <2>4. /\ p \in Seq(Nodes) /\ Len(p) = Len(pageList) + 1 /\ p[Len(pageList) + 1] = n
        /\ DOMAIN p = 1 .. Len(pageList) + 1
        /\ \A i \in 1 .. Len(pageList) : p[i] = pageList[i]
    <3> HIDE DEF n
    <3> QED
      BY <1>t, <2>2, AppendFacts
  <2>5. /\ Listed(p) /\ Once(p) /\ Elems(p) \subseteq PagesIn(Reach)
    <3>1. OrderInv' /\ WalkInv' /\ phase' = "loading"
      BY <2>1, OrderStep, WalkStep
    <3>2. Listed(pageList)' /\ Once(pageList)' /\ Elems(pageList)' = PagesIn(seen)' /\ seen' \subseteq Reach'
      BY <3>1 DEF OrderInv, WalkInv, Once
    <3>3. Reach' = Reach
      BY <2>1, ReachCarried
    <3> HIDE DEF p
    <3>4. Listed(p)
      <4>1. (\A q : pageList' = q => (Listed(pageList)' <=> Listed(q)))
        BY <2>1, OrderCarried
      <4> QED
        BY <2>1, <3>2, <4>1
    <3>5. Once(p) /\ Elems(p) = Elems(pageList)'
      BY <2>1, <3>2 DEF Once, Elems
    <3>6. PagesIn(seen)' \subseteq PagesIn(Reach)
      BY <2>1, <3>2, <3>3 DEF PagesIn
    <3> QED
      BY <3>2, <3>4, <3>5, <3>6
  <2> HIDE DEF s, p, m, n
  <2>6. ASSUME Sound
        PROVE  \E full : First(full, s, p)
    <3>1. PICK full : First(full, models, pageList)
      BY <1>m, <2>6
    <3>2. CASE full = pageList /\ Len(models) = Len(pageList)
      <4>1. \A i \in DOMAIN p : s[i].node = p[i]
        <5> TAKE i \in DOMAIN p
        <5>1. i \in 1 .. Len(pageList) \/ i = Len(pageList) + 1
          BY <1>t, <2>4
        <5>2. CASE i \in 1 .. Len(pageList)
          <6>1. models[i].node = full[i]
            BY <1>t, <3>1, <3>2, <5>2 DEF First
          <6> QED
            BY <2>3, <2>4, <3>2, <5>2, <6>1
        <5>3. CASE i = Len(pageList) + 1
          BY <2>2, <2>3, <2>4, <3>2, <5>3
        <5> QED
          BY <5>1, <5>2, <5>3
      <4>2. Len(s) = Len(p) /\ Len(p) \in Nat /\ Len(p) <= Len(s)
        BY <1>t, <2>3, <2>4, <3>2
      <4>3. First(p, s, p)
        BY <2>4, <2>5, <4>1, <4>2 DEF First
      <4> QED
        BY <4>3
    <3>3. CASE Elems(full) = PagesIn(Reach) /\ Len(pageList) <= Len(full)
      <4>1. /\ full \in Seq(Nodes) /\ Listed(full) /\ Once(full) /\ Len(full) \in Nat
            /\ DOMAIN full = 1 .. Len(full) /\ Len(full) <= Len(models)
            /\ \A i \in DOMAIN full : models[i].node = full[i]
        BY <3>1 DEF First
      <4>2. \A i \in DOMAIN full : s[i].node = full[i]
        <5> TAKE i \in DOMAIN full
        <5>1. i \in 1 .. Len(models)
          BY <1>t, <4>1
        <5> QED
          BY <2>3, <4>1, <5>1
      <4>3. PICK j \in DOMAIN full : full[j] = n
        BY <2>1, <2>2, <3>3 DEF Elems, PagesIn
      <4>4. j \notin DOMAIN pageList
        <5> SUFFICES ASSUME j \in DOMAIN pageList
                     PROVE  FALSE
          OBVIOUS
        <5>1. Elems(pageList) \subseteq PagesIn(Nodes) /\ Elems(full) \subseteq PagesIn(Nodes)
          BY <1>t, <1>w, <2>1, <3>3, ReachFacts DEF PagesIn
        <5>2. pageList[j] = full[j]
          BY <1>t, <1>w, <2>1, <4>1, <4>3, <5>1, OneOrder
        <5>3. n \in Elems(pageList)
          BY <4>3, <5>2 DEF Elems
        <5> QED
          BY <1>w, <2>1, <5>3 DEF PagesIn
      <4>5. Len(p) <= Len(full)
        BY <1>t, <2>4, <4>1, <4>3, <4>4
      <4>6. Len(full) <= Len(s)
        BY <1>t, <2>3, <4>1
      <4>7. First(full, s, p)
        BY <3>3, <4>1, <4>2, <4>5, <4>6 DEF First
      <4> QED
        BY <4>7
    <3> QED
      BY <3>1, <3>2, <3>3 DEF First
  <2> QED
    BY <1>i, <2>1, <2>6
<1>4. CASE OtherNode
  <2>1. UNCHANGED <<doc, models, pageList>> /\ phase' # "closed"
        /\ phase = "loading" /\ stack # << >> /\ doc.type[Top.node] = "Other"
    BY <1>4 DEF OtherNode, Entering, Error, lists
  <2>2. Top.node \in Reach
    BY <1>t, <1>w, <2>1, WalkedFacts DEF Top
  <2>3. ~Sound
    BY <2>1, <2>2 DEF Sound
  <2> QED
    BY <1>i, <2>1, <2>3
<1>5. CASE PagesNode \/ Kid
  <2>1. UNCHANGED <<doc, models, pageList>> /\ phase = "loading"
    BY <1>5 DEF PagesNode, Kid, Entering, lists
  <2>2. phase' # "closed" /\ (Lost = {} => phase' = phase)
    BY <1>5, <2>1 DEF PagesNode, Kid, Error
  <2> QED
    BY <1>i, <1>m, <2>1, <2>2
<1>6. ASSUME NEW i \in DOMAIN pageList, AddPage(i)
      PROVE  ModelsInv'
  <2>1. UNCHANGED <<doc, models, pageList>> /\ (phase' = "stuck" \/ phase' = phase) /\ phase # "closed"
    BY <1>6 DEF AddPage, lists
  <2> QED
    BY <1>i, <1>m, <2>1
<1>7. CASE UNCHANGED vars
  <2>1. UNCHANGED <<doc, models, pageList, phase>>
    BY <1>7 DEF vars, lists
  <2>2. (\E full : First(full, models, pageList))' <=> \E full : First(full, models, pageList)
    BY <2>1, ModelsCarried
  <2>3. Sound' <=> Sound
    BY <2>1, ModelsCarried
  <2> QED
    BY <1>m, <2>1, <2>2, <2>3 DEF ModelsInv
<1> QED
  BY <1>1, <1>2, <1>3, <1>4, <1>5, <1>6, <1>7 DEF Next, Walk

LEMMA ModelsFound == TypeInv /\ WalkInv /\ OrderInv /\ ModelsInv => ModelsMatch
<1> SUFFICES ASSUME TypeInv, WalkInv, OrderInv, ModelsInv, phase = "ready", doc.fails = {},
                    NEW i \in DOMAIN pageList
             PROVE  GetPage(i).node = pageList[i]
  BY DEF ModelsMatch
<1>1. /\ doc \in Doc /\ pageList \in Seq(Nodes) /\ Once(pageList) /\ Listed(pageList)
      /\ Elems(pageList) = PagesIn(Reach) /\ DOMAIN pageList = 1 .. Len(pageList) /\ Len(pageList) \in Nat
  BY ReadySeen DEF TypeInv, TypeOK, WalkInv, OrderInv, Once
<1>2. Sound
  BY ReadySeen DEF WalkInv, Sound
<1>3. PICK full : First(full, models, pageList)
  BY <1>2 DEF ModelsInv
<1>4. /\ full \in Seq(Nodes) /\ Listed(full) /\ Once(full) /\ Elems(full) \subseteq PagesIn(Reach)
      /\ DOMAIN full = 1 .. Len(full) /\ Len(full) \in Nat
      /\ (full = pageList \/ Len(pageList) <= Len(full))
      /\ \A j \in DOMAIN full : models[j].node = full[j]
  BY <1>3 DEF First
<1>5. i \in DOMAIN full
  BY <1>1, <1>4
<1>6. PagesIn(Reach) \subseteq PagesIn(Nodes)
  BY <1>1, ReachFacts DEF PagesIn
<1>7. full[i] = pageList[i]
  BY <1>1, <1>4, <1>5, <1>6, OneOrder
<1> QED
  BY <1>4, <1>5, <1>7 DEF GetPage

(* buildPageList and GetPage: whatever the tree is, with circles and nodes  *)
(* that are shared, a load that succeeds lists each page that the root      *)
(* leads to once, in the order of the tree; the models are those of the     *)
(* listed pages, however often it is loaded, unless one was broken off; and *)
(* the Parents that a load sets make no circle.                             *)
THEOREM TreeReadHolds == Spec => []TreeRead
<1> DEFINE Inv == TypeInv /\ WalkInv /\ UpInv /\ OrderInv /\ ModelsInv
<1>1. Init => Inv
  <2> SUFFICES ASSUME Init PROVE Inv
    OBVIOUS
  <2>1. phase = "closed" /\ models = << >> /\ pageList = << >>
    BY DEF Init
  <2>2. First(<< >>, << >>, << >>)
    <3>1. Listed(<< >>) /\ Once(<< >>) /\ Elems(<< >>) = {} /\ << >> \in Seq(Nodes) /\ Len(<< >>) = 0
      BY DEF Listed, Once, Elems
    <3> QED
      BY <3>1 DEF First
  <2> QED
    BY <2>1, <2>2, TypeInit, InvInit DEF OrderInv, ModelsInv
<1>2. Inv /\ [Next]_vars => Inv'
  BY TypeStep, WalkStep, UpStep, OrderStep, ModelsStep
<1>3. Inv => TreeRead
  BY ListInOrder, ModelsFound, NotCircular DEF TreeRead
<1> HIDE DEF Inv
<1> QED
  BY <1>1, <1>2, <1>3, PTL DEF Spec
-----------------------------------------------------------------------------
(* Boxes.  The way up from n is the same by two sets of dictionaries, if    *)
(* they have the same Parents in n and in the nodes H, where these lead.    *)
LEMMA AncestorsSame ==
  ASSUME NEW par, NEW par2, NEW refs, NEW refs2, NEW n \in Nodes, NEW H \in SUBSET Nodes,
         \A m \in {n} \cup H : /\ par2[m] = par[m] /\ par[m] \in H \cup {Nil}
                               /\ m \notin refs /\ m \notin refs2
  PROVE  /\ Ancestors(par, refs, n) = Ancestors(par2, refs2, n)
         /\ Ancestors(par, refs, n) \in Seq(H)
<1> DEFINE N == Cardinality(Nodes) + 1
<1>1. N \in Nat /\ Tree \notin Nodes
  BY NodesFacts
<1>6. PICK f : Unfolded(par, refs, n, f)
  BY AncestorsUnfold
<1>7. PICK g : Unfolded(par2, refs2, n, g)
  BY AncestorsUnfold
<1> HIDE DEF N
<1>2. /\ \A i \in 0 .. N : f[i] = IF i = 0 THEN <<n>> ELSE Grow(par, refs, f[i - 1], i)
      /\ Ancestors(par, refs, n) = Tail(f[N])
  BY <1>6 DEF Unfolded, Most, N
<1>3. /\ \A i \in 0 .. N : g[i] = IF i = 0 THEN <<n>> ELSE Grow(par2, refs2, g[i - 1], i)
      /\ Ancestors(par2, refs2, n) = Tail(g[N])
  BY <1>7 DEF Unfolded, Most, N
<1> DEFINE Inside(s) == s \in Seq({n} \cup H) /\ s # << >> /\ Tail(s) \in Seq(H)
           Right(i) == g[i] = f[i] /\ Inside(f[i])
<1>4. \A i \in 0 .. N : Right(i)
  <2> DEFINE Bad == {i \in 0 .. N : ~Right(i)}
  <2> SUFFICES ASSUME Bad # {} PROVE FALSE
    OBVIOUS
  <2>1. PICK i \in Bad : \A k \in Bad : i <= k
    <3> HIDE DEF Right
    <3>1. Bad \in SUBSET Nat
      BY <1>1
    <3> QED
      BY <3>1, LeastOf
  <2>2. i # 0
    <3>1. 0 \in 0 .. N
      BY <1>1
    <3>2. f[0] = <<n>> /\ g[0] = <<n>>
      BY <1>2, <1>3, <3>1
    <3>3. <<n>> \in Seq({n} \cup H) /\ <<n>> # << >> /\ Tail(<<n>>) = << >>
      OBVIOUS
    <3>4. << >> \in Seq(H)
      OBVIOUS
    <3>5. Right(0)
      BY <3>2, <3>3, <3>4
    <3> HIDE DEF Right
    <3> QED
      BY <2>1, <3>5
  <2>3. i \in 1 .. N /\ i \in 0 .. N /\ i - 1 \in 0 .. N /\ i - 1 \notin Bad
    <3> HIDE DEF Right
    <3> QED
      BY <1>1, <2>1, <2>2
  <2> DEFINE s == f[i - 1]
             last == s[Len(s)]
             x == par[last]
  <2>4. g[i - 1] = s /\ Inside(s)
    BY <2>3
  <2>5. f[i] = Grow(par, refs, s, i) /\ g[i] = Grow(par2, refs2, s, i)
    BY <1>2, <1>3, <2>2, <2>3, <2>4
  <2> HIDE DEF s
  <2>6. Len(s) \in Nat \ {0} /\ DOMAIN s = 1 .. Len(s) /\ last \in {n} \cup H
    BY <2>4
  <2>7. /\ last \notin refs /\ last \notin refs2 /\ par2[last] = x /\ x \in H \cup {Nil}
        /\ last # Tree
    BY <1>1, <2>6
  <2>8. g[i] = f[i]
    BY <2>5, <2>7 DEF Grow
  <2>9. f[i] = s \/ (x # Nil /\ f[i] = Append(s, x))
    BY <2>5 DEF Grow
  <2>10. ASSUME x # Nil
         PROVE  Inside(Append(s, x))
    <3>1. x \in H
      BY <2>7, <2>10
    <3> HIDE DEF x
    <3> DEFINE D == {n} \cup H
    <3>2. s \in Seq(D) /\ x \in D /\ s # << >> /\ Tail(s) \in Seq(H)
      BY <2>4, <3>1
    <3> HIDE DEF D
    <3>3. Append(s, x) \in Seq(D) /\ Append(s, x) # << >>
      BY <3>2
    <3>4. Tail(Append(s, x)) = Append(Tail(s), x)
      BY <3>2
    <3>5. Append(Tail(s), x) \in Seq(H)
      BY <3>1, <3>2, AppendFacts
    <3> QED
      BY <3>3, <3>4, <3>5 DEF D
  <2>11. Right(i)
    <3> HIDE DEF Inside, x
    <3> QED
      BY <2>4, <2>8, <2>9, <2>10
  <2> HIDE DEF Right
  <2> QED
    BY <2>1, <2>11
<1>5. Right(N)
  <2>1. N \in 0 .. N
    BY <1>1
  <2> HIDE DEF Right
  <2> QED
    BY <1>4, <2>1
<1> QED
  BY <1>2, <1>3, <1>5 DEF N

\* What FirstOf yields.
LEMMA FirstNone ==
  ASSUME NEW val, NEW s, NEW a, \A i \in DOMAIN s : s[i] = Tree \/ val[s[i]][a] = Nil
  PROVE  FirstOf(val, s, a) = Nil
BY DEF FirstOf

LEMMA FirstAt ==
  ASSUME NEW val, NEW D, NEW s \in Seq(D), NEW a, NEW i \in DOMAIN s,
         s[i] # Tree, val[s[i]][a] # Nil,
         \A j \in DOMAIN s : j < i => s[j] = Tree \/ val[s[j]][a] = Nil
  PROVE  FirstOf(val, s, a) = val[s[i]][a]
<1> DEFINE has == {j \in DOMAIN s : s[j] # Tree /\ val[s[j]][a] # Nil}
           k == CHOOSE j \in has : \A l \in has : j <= l
<1>1. DOMAIN s \subseteq Nat
  OBVIOUS
<1>2. i \in has /\ \A l \in has : i <= l
  <2>1. i \in has
    OBVIOUS
  <2>2. ASSUME NEW l \in has
        PROVE  i <= l
    <3>1. ~(l < i) /\ l \in Nat /\ i \in Nat
      BY <1>1
    <3> QED
      BY <3>1
  <2> QED
    BY <2>1, <2>2
<1>3. k \in has /\ \A l \in has : k <= l
  BY <1>2
<1>4. k = i
  <2>1. k <= i /\ i <= k /\ k \in Nat /\ i \in Nat
    BY <1>1, <1>2, <1>3
  <2> QED
    BY <2>1
<1>5. FirstOf(val, s, a) = val[s[k]][a]
  BY <1>2 DEF FirstOf
<1> QED
  BY <1>4, <1>5

NoneIn(val, s, a) == \A i \in DOMAIN s : s[i] = Tree \/ val[s[i]][a] = Nil
FirstIs(val, s, a, i) ==
  /\ s[i] # Tree /\ val[s[i]][a] # Nil
  /\ \A j \in DOMAIN s : j < i => s[j] = Tree \/ val[s[j]][a] = Nil

LEMMA FirstCases ==
  ASSUME NEW val, NEW D, NEW s \in Seq(D), NEW a
  PROVE  NoneIn(val, s, a) \/ \E i \in DOMAIN s : FirstIs(val, s, a, i)
<1> DEFINE has == {j \in DOMAIN s : s[j] # Tree /\ val[s[j]][a] # Nil}
<1>1. has \in SUBSET Nat
  OBVIOUS
<1>2. CASE has = {}
  BY <1>2 DEF NoneIn
<1>3. CASE has # {}
  <2>1. PICK i \in has : \A j \in has : i <= j
    <3> HIDE DEF has
    <3> QED
      BY <1>1, <1>3, LeastOf
  <2>2. \A j \in DOMAIN s : j < i => j \notin has
    BY <1>1, <2>1
  <2> QED
    BY <2>1, <2>2 DEF FirstIs
<1> QED
  BY <1>2, <1>3

\* It depends on the values of the nodes in s only.
LEMMA FirstSame ==
  ASSUME NEW val, NEW val2, NEW D, NEW s \in Seq(D), NEW a,
         \A m \in D : val2[m][a] = val[m][a]
  PROVE  FirstOf(val2, s, a) = FirstOf(val, s, a)
<1>1. \A i \in DOMAIN s : val2[s[i]][a] = val[s[i]][a]
  OBVIOUS
<1>2. CASE NoneIn(val, s, a)
  BY <1>1, <1>2, FirstNone DEF NoneIn
<1>3. ASSUME NEW i \in DOMAIN s, FirstIs(val, s, a, i)
      PROVE  FirstOf(val2, s, a) = FirstOf(val, s, a)
  <2>1. FirstOf(val, s, a) = val[s[i]][a]
    BY <1>3, FirstAt DEF FirstIs
  <2>2. FirstOf(val2, s, a) = val2[s[i]][a]
    BY <1>1, <1>3, FirstAt DEF FirstIs
  <2> QED
    BY <1>1, <2>1, <2>2
<1> QED
  BY <1>2, <1>3, FirstCases

\* ... and the node in front goes first.
LEMMA FirstFront ==
  ASSUME NEW val, NEW D, NEW s \in Seq(D), NEW a, NEW n \in D, n # Tree
  PROVE  FirstOf(val, <<n>> \o s, a) = IF val[n][a] # Nil THEN val[n][a] ELSE FirstOf(val, s, a)
<1> DEFINE t == <<n>> \o s
<1>1. /\ t \in Seq(D) /\ t[1] = n /\ Len(s) \in Nat /\ DOMAIN t = 1 .. Len(s) + 1
      /\ \A i \in 1 .. Len(s) : t[i + 1] = s[i]
      /\ DOMAIN s = 1 .. Len(s)
  OBVIOUS
<1> HIDE DEF t
<1>2. \A j \in DOMAIN t : j = 1 \/ (j - 1 \in DOMAIN s /\ t[j] = s[j - 1] /\ j \in Nat)
  <2> TAKE j \in DOMAIN t
  <2>1. ASSUME j # 1
        PROVE  j - 1 \in 1 .. Len(s) /\ (j - 1) + 1 = j /\ j \in Nat
    BY <1>1, <2>1
  <2> QED
    BY <1>1, <2>1
<1>3. CASE val[n][a] # Nil
  <2>1. 1 \in DOMAIN t /\ \A j \in DOMAIN t : ~(j < 1)
    BY <1>1
  <2>2. FirstOf(val, t, a) = val[t[1]][a]
    BY <1>1, <1>3, <2>1, FirstAt
  <2> QED
    BY <1>1, <1>3, <2>2 DEF t
<1>4. CASE val[n][a] = Nil
  <2>1. ASSUME NoneIn(val, s, a)
        PROVE  FirstOf(val, t, a) = FirstOf(val, s, a)
    <3>1. \A i \in DOMAIN t : t[i] = Tree \/ val[t[i]][a] = Nil
      BY <1>1, <1>2, <1>4, <2>1 DEF NoneIn
    <3>2. FirstOf(val, t, a) = Nil
      BY <3>1, FirstNone
    <3>3. FirstOf(val, s, a) = Nil
      BY <2>1, FirstNone DEF NoneIn
    <3> QED
      BY <3>2, <3>3
  <2>2. ASSUME NEW i \in DOMAIN s, FirstIs(val, s, a, i)
        PROVE  FirstOf(val, t, a) = FirstOf(val, s, a)
    <3>1. i + 1 \in DOMAIN t /\ t[i + 1] = s[i] /\ i \in Nat
      BY <1>1
    <3>2. \A j \in DOMAIN t : j < i + 1 => t[j] = Tree \/ val[t[j]][a] = Nil
      <4> TAKE j \in DOMAIN t
      <4>1. CASE j = 1
        BY <1>1, <1>4, <4>1
      <4>2. CASE j # 1
        <5>1. j - 1 \in DOMAIN s /\ t[j] = s[j - 1] /\ j \in Nat
          BY <1>2, <4>2
        <5>2. j < i + 1 => j - 1 < i
          BY <3>1, <5>1
        <5> QED
          BY <2>2, <5>1, <5>2 DEF FirstIs
      <4> QED
        BY <4>1, <4>2
    <3>3. FirstOf(val, s, a) = val[s[i]][a]
      BY <2>2, FirstAt DEF FirstIs
    <3>4. FirstOf(val, t, a) = val[t[i + 1]][a]
      BY <1>1, <2>2, <3>1, <3>2, FirstAt DEF FirstIs
    <3> QED
      BY <3>1, <3>3, <3>4
  <2>3. FirstOf(val, t, a) = FirstOf(val, s, a)
    BY <2>1, <2>2, FirstCases
  <2> QED
    BY <1>4, <2>3 DEF t
<1> QED
  BY <1>3, <1>4
(* What the file has for the attributes; what is left of it.  Pages are     *)
(* changed when they are moved, their models and the nodes above them never *)
(* are, since in a proper tree buildPageList finds each Parent correct.     *)
Orig == [m \in Nodes |-> [b \in Attrs |-> IF b \in doc.own[m] THEN m ELSE Nil]]

InnerTrue(par, val) ==
  \A m \in Nodes : doc.type[m] # "Page" => par[m] = doc.parent[m] /\ val[m] = Orig[m]
ModelsTrue(s) ==
  \A i \in DOMAIN s :
    /\ s[i].parent = doc.parent[s[i].node]
    /\ \A a \in Attrs \ {Resources} : s[i].value[a] = Orig[s[i].node][a]

DictsInv ==
  Proper /\ phase # "stuck" =>
    /\ InnerTrue(parent, value)
    /\ out = << >> => parent = doc.parent /\ value = Orig
    /\ ModelsTrue(models)

LEMMA DictsCarried ==
  ASSUME doc' = doc, NEW par, parent' = par, NEW val, value' = val, NEW s, models' = s
  PROVE  /\ Proper' <=> Proper
         /\ InnerTrue(parent, value)' <=> InnerTrue(par, val)
         /\ ModelsTrue(models)' <=> ModelsTrue(s)
         /\ Orig' = Orig /\ (doc.parent)' = doc.parent
BY DEF Proper, Elems, InnerTrue, ModelsTrue, Orig

\* An activation that has a node above it is for one of its kids.
LEMMA KidOfPar ==
  ASSUME doc \in Doc, NEW s \in Seq(Frames), s # << >>, NEW v, Walked(s, v), s[1].par # Nil
  PROVE  /\ s[1].par \in Nodes /\ s[1].node \in Nodes
         /\ s[1].node \in Elems(doc.kids[s[1].par])
<1>1. /\ 1 \in DOMAIN s /\ Len(s) \in Nat \ {0} /\ DOMAIN s = 1 .. Len(s)
      /\ \A i \in DOMAIN s : s[i] \in Frames
  BY TailFacts
<1>2. Len(s) # 1
  BY <1>1 DEF Walked
<1>3. 1 < Len(s) /\ 1 + 1 = 2 /\ 2 \in DOMAIN s
  BY <1>1, <1>2
<1>4. /\ s[1].par = s[2].node
      /\ s[2].at - 1 \in DOMAIN doc.kids[s[2].node]
      /\ doc.kids[s[2].node][s[2].at - 1] = s[1].node
  BY <1>1, <1>3 DEF Walked
<1>5. s[1].node \in Nodes /\ s[2].node \in Nodes
  BY <1>1, <1>3 DEF Frames
<1> QED
  BY <1>4, <1>5 DEF Elems

LEMMA CorrectedSame ==
  ASSUME TypeInv, WalkInv, DictsInv, Proper, phase = "loading", stack # << >>
  PROVE  Corrected(parent) = parent
<1>1. CASE Top.par = Nil
  BY <1>1 DEF Corrected
<1>2. CASE Top.par # Nil
  <2>1. doc \in Doc /\ stack \in Seq(Frames) /\ Walked(stack, seen) /\ parent = doc.parent
        /\ parent \in [Nodes -> Parents]
    BY DEF TypeInv, TypeOK, Frames, WalkInv, DictsInv
  <2>2. Top.node \in Nodes /\ Top.par \in Nodes /\ Top.node \in Elems(doc.kids[Top.par])
    BY <1>2, <2>1, KidOfPar DEF Top
  <2>3. parent[Top.node] = Top.par
    BY <2>1, <2>2 DEF Proper
  <2> QED
    BY <1>2, <2>1, <2>2, <2>3 DEF Corrected
<1> QED
  BY <1>1, <1>2

LEMMA ModelOfTrue ==
  ASSUME TypeOK, NEW n \in Nodes
  PROVE  /\ ModelOf(n).node = n /\ ModelOf(n).parent = parent[n] /\ ModelOf(n).ref = (n \in isRef)
         /\ \A a \in Attrs \ {Resources} : ModelOf(n).value[a] = value[n][a]
<1>1. value[n] \in Values
  BY DEF TypeOK
<1> QED
  BY <1>1 DEF ModelOf, Values

LEMMA DictsStep == TypeInv /\ WalkInv /\ UpInv /\ DictsInv /\ [Next]_vars => DictsInv'
<1> SUFFICES ASSUME TypeInv, WalkInv, UpInv, DictsInv, [Next]_vars, phase' # "stuck"
             PROVE  DictsInv'
  BY DEF DictsInv
<1>t. /\ doc \in Doc /\ parent \in [Nodes -> Parents] /\ value \in [Nodes -> Values]
      /\ models \in Seq(Model) /\ stack \in Seq(Frames)
  BY DEF TypeInv, TypeOK, Frames
<1>d. doc' = doc
  BY DEF Next, Load, Walk, Skip, PageNode, OtherNode, PagesNode, Kid, KidsDone, Loaded, AddPage, vars
<1> SUFFICES ASSUME Proper PROVE DictsInv'
  BY <1>d DEF DictsInv, Proper, Elems
<1>u. phase # "stuck" =>
        /\ InnerTrue(parent, value)
        /\ out = << >> => parent = doc.parent /\ value = Orig
        /\ ModelsTrue(models)
  BY DEF DictsInv
<1>i. ASSUME NEW par, NEW val, NEW s, parent' = par, value' = val, models' = s,
             InnerTrue(par, val), out' = << >> => par = doc.parent /\ val = Orig, ModelsTrue(s)
      PROVE  DictsInv'
  <2>1. /\ InnerTrue(parent, value)' <=> InnerTrue(par, val)
        /\ ModelsTrue(models)' <=> ModelsTrue(s)
        /\ Orig' = Orig /\ (doc.parent)' = doc.parent
    BY <1>d, <1>i, DictsCarried
  <2> QED
    BY <1>i, <2>1 DEF DictsInv
<1>s. ASSUME UNCHANGED <<parent, value, models, out>>, phase # "stuck"
      PROVE  DictsInv'
  BY <1>i, <1>s, <1>u
<1>1. CASE Load \/ Skip \/ OtherNode \/ Kid \/ KidsDone \/ Loaded
  <2>1. UNCHANGED <<parent, value, models, out>> /\ phase # "stuck"
    BY <1>1 DEF Load, Skip, OtherNode, Kid, KidsDone, Loaded, Entering, dicts, lists
  <2> QED
    BY <1>s, <2>1
<1>2. CASE PageNode
  <2> DEFINE n == Top.node
             m == ModelOf(n)
             s == Append(models, m)
  <2>1. /\ parent' = Corrected(parent) /\ models' = s /\ UNCHANGED <<value, out>>
        /\ phase = "loading" /\ stack # << >>
    BY <1>2 DEF PageNode, Entering, AddModel
  <2>2. parent' = parent /\ out = << >> /\ parent = doc.parent /\ value = Orig
    BY <1>u, <2>1, CorrectedSame DEF TypeInv
  <2>3. n \in Nodes
    BY <1>t, <2>1, TopType
  <2>4. m \in Model /\ m.node = n /\ m.parent = parent[n]
        /\ \A a \in Attrs \ {Resources} : m.value[a] = value[n][a]
    BY <2>3, ModelOfType, ModelOfTrue DEF TypeInv
  <2>5. ModelsTrue(s)
    <3> HIDE DEF m
    <3>1. \A i \in DOMAIN s : (i \in DOMAIN models /\ s[i] = models[i]) \/ s[i] = m
      <4>1. \A i \in 1 .. Len(models) + 1 : i \in 1 .. Len(models) \/ i = Len(models) + 1
        BY <1>t
      <4> QED
        BY <1>t, <2>4, <4>1, AppendFacts
    <3>2. m.parent = doc.parent[m.node] /\ \A a \in Attrs \ {Resources} : m.value[a] = Orig[m.node][a]
      BY <2>2, <2>4
    <3> HIDE DEF s
    <3> QED
      BY <1>u, <2>1, <3>1, <3>2 DEF ModelsTrue
  <2> HIDE DEF s
  <2> QED
    BY <1>i, <1>u, <2>1, <2>2, <2>5
<1>3. CASE PagesNode
  <2>1. parent' = Corrected(parent) /\ UNCHANGED <<value, models, out>> /\ phase = "loading" /\ stack # << >>
    BY <1>3 DEF PagesNode, Entering, lists
  <2> QED
    BY <1>s, <2>1, CorrectedSame
<1>4. ASSUME NEW i \in DOMAIN pageList, AddPage(i)
      PROVE  DictsInv'
  <2> DEFINE n == GetPage(i).node
             v == [a \in Attrs |-> IF GetPage(i).value[a] # Nil THEN GetPage(i).value[a]
                                   ELSE Inherited(value, Upwards(GetPage(i)), a)]
             o == [node |-> n, value |-> v]
             par == [parent EXCEPT ![n] = Tree]
             val == [value EXCEPT ![n] = v]
  <2>1. /\ UNCHANGED models /\ parent' = par /\ value' = val /\ out' = Append(out, o)
        /\ phase # "stuck"
    BY <1>4 DEF AddPage, lists
  <2>2. n \in Nodes /\ doc.type[n] = "Page"
    BY <1>4, <2>1, AddPageTypes DEF UpInv, ModelsOf, PagesIn, GetPage
  <2> HIDE DEF n, v
  <2>3. out' # << >>
    <3>1. out \in Seq([node : Nodes, value : Values])
      BY DEF TypeInv, TypeOK
    <3> HIDE DEF o
    <3> QED
      BY <2>1, <3>1
  <2>4. InnerTrue(par, val)
    BY <1>t, <1>u, <2>1, <2>2 DEF InnerTrue
  <2> HIDE DEF par, val
  <2> QED
    BY <1>i, <1>u, <2>1, <2>3, <2>4
<1>5. CASE UNCHANGED vars
  <2>1. UNCHANGED <<parent, value, models, out, phase>>
    BY <1>5 DEF vars, dicts, lists
  <2> QED
    BY <1>s, <2>1
<1> QED
  BY <1>1, <1>2, <1>3, <1>4, <1>5 DEF Next, Walk
(* The references.  A reader that is not lazy replaces them in all that the *)
(* root leads to when it comes to the root for the first time, before there *)
(* is a model; and nothing brings them back.                                *)
Eager == ~doc.lazy /\ doc.fails = {}
Untouched(s, v, t, m) ==
  /\ m = << >> /\ t = {} /\ v = {}
  /\ phase = "closed" \/ (phase = "loading" /\ s = <<Frame(doc.root, Nil)>>)
Followable(refs, m) ==
  /\ doc.root \notin refs
  /\ \A i \in DOMAIN m : ~m[i].ref

LinksInv ==
  Proper /\ Eager /\ phase # "stuck" =>
    /\ Followable(isRef, models)
    /\ isRef \cap Reach = {} \/ Untouched(stack, seen, traversed, models)

\* A page or foreign object as the root leads to nothing else.
LEMMA ReachRoot ==
  ASSUME doc \in Doc, doc.root \notin Pages
  PROVE  Reach = {doc.root}
<1>1. KidsIn({doc.root}) /\ doc.root \in Nodes
  BY DEF KidsIn, Doc
<1> QED
  BY <1>1, ReachFacts

\* What the root leads to is all gone through when nothing was before.
LEMMA ReachUntraversed ==
  ASSUME doc \in Doc, traversed = {}, NEW par
  PROVE  Reach \subseteq Untraversed(doc.root, par)
<1> DEFINE next(m) == (Elems(doc.kids[m]) \cup {par[m]}) \cap (Nodes \ traversed)
<1> SUFFICES ASSUME NEW m \in Reach, NEW C \in SUBSET Nodes,
                    {doc.root} \ traversed \subseteq C, \A k \in C : next(k) \subseteq C
             PROVE  m \in C
  BY ReachFacts DEF Untraversed
<1>1. doc.root \in C
  OBVIOUS
<1>2. KidsIn(C)
  <2> SUFFICES ASSUME NEW k \in C \cap Pages
               PROVE  Elems(doc.kids[k]) \subseteq C
    BY DEF KidsIn
  <2>1. Elems(doc.kids[k]) \subseteq Nodes
    BY KidsType
  <2>2. Elems(doc.kids[k]) \subseteq next(k)
    BY <2>1
  <2> QED
    BY <2>2
<1> QED
  BY <1>1, <1>2, ReachFacts

LEMMA LinksStep == TypeInv /\ WalkInv /\ LinksInv /\ [Next]_vars => LinksInv'
<1> SUFFICES ASSUME TypeInv, WalkInv, LinksInv, [Next]_vars, phase' # "stuck"
             PROVE  LinksInv'
  BY DEF LinksInv
<1>t. /\ doc \in Doc /\ models \in Seq(Model) /\ stack \in Seq(Frames) /\ doc.root \in Nodes
  BY DEF TypeInv, TypeOK, Frames, Doc
<1>d. doc' = doc
  BY DEF Next, Load, Walk, Skip, PageNode, OtherNode, PagesNode, Kid, KidsDone, Loaded, AddPage, vars
<1>r. Reach' = Reach /\ (doc.root)' = doc.root
  BY <1>d, ReachCarried
<1> SUFFICES ASSUME Proper, Eager PROVE LinksInv'
  BY <1>d DEF LinksInv, Proper, Elems, Eager
<1>u. phase # "stuck" =>
        /\ Followable(isRef, models)
        /\ isRef \cap Reach = {} \/ Untouched(stack, seen, traversed, models)
  BY DEF LinksInv
<1>i. ASSUME NEW refs, NEW m, isRef' = refs, models' = m, Followable(refs, m),
             refs \cap Reach = {} \/ Untouched(stack, seen, traversed, models)'
      PROVE  LinksInv'
  BY <1>d, <1>r, <1>i DEF LinksInv, Followable
<1>l. Lost = {}
  BY DEF Lost, Eager
<1>1. CASE Load
  <2>1. UNCHANGED <<isRef, models, traversed>> /\ phase \in {"closed", "ready", "failed"}
        /\ phase' = "loading" /\ seen' = {} /\ stack' = <<Frame(doc.root, Nil)>>
    BY <1>1, <1>l DEF Load, dicts
  <2>2. Untouched(stack, seen, traversed, models) => Untouched(stack, seen, traversed, models)'
    BY <1>d, <2>1 DEF Untouched, Frame
  <2>3. Followable(isRef, models)
    BY <1>u, <2>1
  <2> QED
    BY <1>i, <1>u, <2>1, <2>2, <2>3
\* Where the walk stands no reference is left, unless it is about to begin.
<1>w. ASSUME phase = "loading", stack # << >>, Untouched(stack, seen, traversed, models)
      PROVE  Top = Frame(doc.root, Nil) /\ Top.at = 0 /\ Top.node = doc.root /\ Top.par = Nil
             /\ Top.node \notin seen
  BY <1>w DEF Untouched, Top, Frame
<1>2. CASE Skip \/ Kid \/ KidsDone \/ Loaded
  <2>1. UNCHANGED <<isRef, models>> /\ phase = "loading"
    BY <1>2 DEF Skip, Kid, KidsDone, Loaded, Entering, dicts, lists
  <2>2. ~Untouched(stack, seen, traversed, models)
    <3> SUFFICES ASSUME Untouched(stack, seen, traversed, models)
                 PROVE  FALSE
      OBVIOUS
    <3>1. stack = <<Frame(doc.root, Nil)>>
      BY <2>1 DEF Untouched
    <3>2. stack # << >> /\ Top.at = 0 /\ Top.node = doc.root /\ Top.node \notin seen
      BY <2>1, <3>1, <1>w
    <3>3. 0 \notin DOMAIN doc.kids[doc.root] /\ 0 # Len(doc.kids[doc.root]) + 1
      BY <1>t, KidsType
    <3> QED
      BY <1>2, <3>2, <3>3 DEF Skip, Kid, KidsDone, Loaded, AlreadyTraversed
  <2> QED
    BY <1>i, <1>u, <2>1, <2>2
<1>3. CASE OtherNode
  <2>1. UNCHANGED <<isRef, models>> /\ phase = "loading" /\ stack # << >>
        /\ doc.type[Top.node] = "Other"
    BY <1>3 DEF OtherNode, Entering, dicts, lists
  <2>2. isRef \cap Reach = {}
    <3>1. CASE Untouched(stack, seen, traversed, models)
      <4>1. doc.root \notin Pages
        BY <1>w, <2>1, <3>1 DEF Pages
      <4> QED
        BY <1>t, <1>u, <2>1, <4>1, ReachRoot DEF Followable
    <3> QED
      BY <1>u, <2>1, <3>1
  <2> QED
    BY <1>i, <1>u, <2>1, <2>2
<1>4. CASE PageNode
  <2> DEFINE n == Top.node
             p == ModelOf(n)
             m == Append(models, p)
             refs == Linked(isRef)
  <2>1. /\ isRef' = refs /\ models' = m /\ phase = "loading" /\ stack # << >>
        /\ doc.type[n] = "Page"
    BY <1>4 DEF PageNode, Entering, AddModel
  <2>2. isRef \cap Reach = {}
    <3>1. CASE Untouched(stack, seen, traversed, models)
      <4>1. doc.root \notin Pages
        BY <1>w, <2>1, <3>1 DEF Pages
      <4> QED
        BY <1>t, <1>u, <2>1, <4>1, ReachRoot DEF Followable
    <3> QED
      BY <1>u, <2>1, <3>1
  <2>3. n \in Nodes /\ n \in Reach
    BY <1>t, <2>1, WalkedFacts, TopType DEF Top, WalkInv, TypeInv, TypeOK
  <2>4. p \in Model /\ ~p.ref
    <3>1. p \in Model /\ p.ref = (n \in isRef)
      BY <2>3, ModelOfType, ModelOfTrue DEF TypeInv
    <3> HIDE DEF p
    <3> QED
      BY <2>2, <2>3, <3>1
  <2>5. refs \subseteq isRef
    BY DEF Linked
  <2>6. Followable(refs, m)
    <3> HIDE DEF p
    <3>1. \A i \in DOMAIN m : (i \in DOMAIN models /\ m[i] = models[i]) \/ m[i] = p
      <4>1. \A i \in 1 .. Len(models) + 1 : i \in 1 .. Len(models) \/ i = Len(models) + 1
        BY <1>t
      <4> QED
        BY <1>t, <2>4, <4>1, AppendFacts
    <3> HIDE DEF m, refs
    <3> QED
      BY <1>u, <2>1, <2>4, <2>5, <3>1 DEF Followable
  <2> HIDE DEF m, refs
  <2> QED
    BY <1>i, <2>1, <2>2, <2>5, <2>6
<1>5. CASE PagesNode
  <2> DEFINE reach == Untraversed(Top.node, Corrected(parent))
             refs == Linked(isRef) \ reach
  <2>1. /\ isRef' = refs /\ UNCHANGED models /\ phase = "loading" /\ stack # << >>
    BY <1>5, <1>l DEF PagesNode, Entering, lists, Eager
  <2>2. refs \subseteq isRef
    BY DEF Linked
  <2>3. refs \cap Reach = {}
    <3>1. CASE Untouched(stack, seen, traversed, models)
      <4>1. Top.node = doc.root /\ traversed = {}
        BY <1>w, <2>1, <3>1 DEF Untouched
      <4>2. Reach \subseteq reach
        BY <1>t, <4>1, ReachUntraversed
      <4> QED
        BY <4>2
    <3> QED
      BY <1>u, <2>1, <2>2, <3>1
  <2> HIDE DEF refs
  <2>4. Followable(refs, models)
    BY <1>u, <2>1, <2>2 DEF Followable
  <2> QED
    BY <1>i, <2>1, <2>3, <2>4
<1>6. ASSUME NEW i \in DOMAIN pageList, AddPage(i)
      PROVE  LinksInv'
  <2> DEFINE refs == isRef \ {GetPage(i).node}
  <2>1. isRef' = refs /\ UNCHANGED models /\ phase \in {"ready", "failed"}
    BY <1>6 DEF AddPage, lists
  <2>2. isRef \cap Reach = {} /\ Followable(isRef, models)
    BY <1>u, <2>1 DEF Untouched
  <2>3. Followable(refs, models)
    BY <2>2 DEF Followable
  <2>4. refs \cap Reach = {}
    BY <2>2
  <2> HIDE DEF refs
  <2> QED
    BY <1>i, <2>1, <2>3, <2>4
<1>7. CASE UNCHANGED vars
  <2>1. UNCHANGED <<isRef, models, stack, seen, traversed, phase>>
    BY <1>7 DEF vars, dicts, lists, walk
  <2>2. Untouched(stack, seen, traversed, models) => Untouched(stack, seen, traversed, models)'
    BY <1>d, <2>1 DEF Untouched, Frame
  <2> QED
    BY <1>i, <1>u, <2>1, <2>2
<1> QED
  BY <1>1, <1>2, <1>3, <1>4, <1>5, <1>6, <1>7 DEF Next, Walk
(* The nodes that the root leads to have their Parents among them.          *)
LEMMA ParentsInside ==
  ASSUME doc \in Doc, Proper, NEW m \in Reach
  PROVE  doc.parent[m] \in (Reach \cap Pages) \cup {Nil}
<1> DEFINE C == {doc.root} \cup {k \in Reach : doc.parent[k] \in Reach \cap Pages}
<1>1. C \in SUBSET Nodes /\ doc.root \in C /\ C \subseteq Reach
  BY ReachFacts
<1>2. KidsIn(C)
  <2> SUFFICES ASSUME NEW k \in C \cap Pages, NEW n \in Elems(doc.kids[k])
               PROVE  n \in C
    BY DEF KidsIn
  <2>1. k \in Reach \cap Pages /\ k \in Nodes
    BY <1>1
  <2>2. n \in Nodes /\ n \in Reach
    BY <2>1, KidsType, ReachFacts DEF KidsIn
  <2>3. doc.parent[n] = k
    BY <2>1, <2>2 DEF Proper
  <2> QED
    BY <2>1, <2>2, <2>3
<1>3. m \in C
  BY <1>1, <1>2, ReachFacts
<1>4. doc.parent[doc.root] = Nil
  BY DEF Proper
<1> QED
  BY <1>3, <1>4

\* What a page has in the file, itself or by its Parents.
LEMMA EffectiveFirst ==
  ASSUME doc \in Doc, NEW n \in Nodes, NEW a
  PROVE  Effective(n, a) = IF Orig[n][a] # Nil THEN Orig[n][a]
                           ELSE FirstOf(Orig, Ancestors(doc.parent, {}, n), a)
<1> DEFINE D == Nodes \cup {Tree}
           s == Ancestors(doc.parent, {}, n)
<1>1. n \in D /\ n # Tree
  BY NodesFacts
<1>2. doc.parent \in [Nodes -> Parents]
  BY DEF Doc, Parents
<1>3. s \in Seq(D)
  BY <1>2, AncestorsType
<1>4. Effective(n, a) = FirstOf(Orig, <<n>> \o s, a)
  BY DEF Effective, Orig
<1> HIDE DEF s, D
<1>5. FirstOf(Orig, <<n>> \o s, a) = IF Orig[n][a] # Nil THEN Orig[n][a] ELSE FirstOf(Orig, s, a)
  BY <1>1, <1>3, FirstFront
<1> QED
  BY <1>4, <1>5 DEF s

\* GetMediaBox, before a page was moved.
LEMMA BoxesFound == TypeInv /\ UpInv /\ DictsInv => BoxFound
<1> SUFFICES ASSUME TypeInv, UpInv, DictsInv, phase = "ready", Proper, out = << >>,
                    NEW i \in DOMAIN models, NEW a \in Attrs \ {Resources}
             PROVE  BoxOf(models[i], a) = Effective(models[i].node, a)
  BY DEF BoxFound
<1> DEFINE m == models[i]
           n == m.node
           par == [parent EXCEPT ![n] = m.parent]
<1>1. doc \in Doc /\ n \in Nodes /\ parent \in [Nodes -> Parents]
  BY DEF TypeInv, TypeOK, UpInv, ModelsOf, PagesIn
<1>2. parent = doc.parent /\ value = Orig /\ m.parent = doc.parent[n] /\ m.value[a] = Orig[n][a]
  BY DEF DictsInv, ModelsTrue
<1>3. par = doc.parent
  BY <1>1, <1>2
<1>4. BoxOf(m, a) = IF m.value[a] # Nil THEN m.value[a] ELSE FirstOf(value, Ancestors(par, {}, n), a)
  BY DEF BoxOf, Inherited
<1> HIDE DEF m, n, par
<1>5. Effective(n, a) = IF Orig[n][a] # Nil THEN Orig[n][a]
                        ELSE FirstOf(Orig, Ancestors(doc.parent, {}, n), a)
  BY <1>1, EffectiveFirst
<1>6. BoxOf(m, a) = Effective(n, a)
  BY <1>2, <1>3, <1>4, <1>5
<1> QED
  BY <1>6 DEF m, n

\* The way up from a page as its model has it.
LEMMA UpwardsTrue ==
  ASSUME TypeInv, UpInv, DictsInv, LinksInv, Proper, Eager, phase \in {"ready", "failed"},
         NEW i \in DOMAIN pageList
  PROVE  LET n == GetPage(i).node
         IN  /\ Upwards(GetPage(i)) = Ancestors(doc.parent, {}, n)
             /\ Upwards(GetPage(i)) \in Seq(Reach \cap Pages)
<1> DEFINE page == GetPage(i)
           n == page.node
           par == [parent EXCEPT ![n] = page.parent]
           refs == FilledRefs(page)
           H == Reach \cap Pages
<1>1. /\ doc \in Doc /\ i \in DOMAIN models /\ page = models[i] /\ n \in Nodes
      /\ parent \in [Nodes -> Parents]
  BY AddPageTypes DEF TypeInv, TypeOK, GetPage
<1>2. n \in Reach /\ doc.type[n] = "Page"
  BY <1>1 DEF UpInv, ModelsOf, PagesIn
<1>3. page.parent = doc.parent[n] /\ InnerTrue(parent, value)
  BY <1>1 DEF DictsInv, ModelsTrue
<1>4. isRef \cap Reach = {} /\ ~page.ref
  BY <1>1 DEF LinksInv, Untouched, Followable
<1> HIDE DEF page
<1>5. H \in SUBSET Nodes /\ Reach \subseteq Nodes
  BY <1>1, ReachFacts
<1>6. ASSUME NEW m \in {n} \cup H
      PROVE  doc.parent[m] = par[m] /\ par[m] \in H \cup {Nil} /\ m \notin refs /\ m \notin {}
  <2>1. m \in Nodes /\ m \in Reach
    BY <1>1, <1>2, <1>5
  <2>2. doc.parent[m] \in H \cup {Nil}
    BY <1>1, <2>1, ParentsInside
  <2>3. doc.parent[m] = par[m]
    <3>1. CASE m = n
      BY <1>1, <1>3, <3>1
    <3>2. CASE m # n
      <4>1. doc.type[m] # "Page"
        BY <3>2 DEF Pages
      <4>2. parent[m] = doc.parent[m]
        BY <1>3, <2>1, <4>1 DEF InnerTrue
      <4> QED
        BY <1>1, <2>1, <3>2, <4>2
    <3> QED
      BY <3>1, <3>2
  <2>4. m \notin refs
    BY <1>4, <2>1 DEF FilledRefs
  <2> QED
    BY <2>2, <2>3, <2>4
<1>7. Upwards(page) = Ancestors(par, refs, n)
  BY DEF Upwards
<1> HIDE DEF par, refs, n, H
<1>8. Ancestors(par, refs, n) = Ancestors(doc.parent, {}, n) /\ Ancestors(par, refs, n) \in Seq(H)
  BY <1>1, <1>5, <1>6, AncestorsSame
<1> QED
  BY <1>7, <1>8 DEF page, n, H

Kept(o) == \A i \in DOMAIN o : \A a \in Attrs \ {Resources} : o[i].value[a] = Effective(o[i].node, a)

LEMMA KeptCarried ==
  ASSUME doc' = doc, NEW o, out' = o
  PROVE  InheritedKept' <=> (Proper /\ Eager => Kept(o))
<1>1. Proper' <=> Proper
  BY DEF Proper, Elems
<1>2. \A n, a : Effective(n, a)' = Effective(n, a)
  BY DEF Effective
<1> QED
  BY <1>1, <1>2 DEF InheritedKept, Kept, Eager

LEMMA KeptStep ==
  TypeInv /\ UpInv /\ DictsInv /\ LinksInv /\ InheritedKept /\ [Next]_vars => InheritedKept'
<1> SUFFICES ASSUME TypeInv, UpInv, DictsInv, LinksInv, InheritedKept, [Next]_vars
             PROVE  InheritedKept'
  OBVIOUS
<1>d. doc' = doc
  BY DEF Next, Load, Walk, Skip, PageNode, OtherNode, PagesNode, Kid, KidsDone, Loaded, AddPage, vars
<1>k. Proper /\ Eager => Kept(out)
  BY DEF InheritedKept, Kept, Eager
<1>s. ASSUME out' = out
      PROVE  InheritedKept'
  BY <1>d, <1>k, <1>s, KeptCarried
<1>1. CASE Load \/ Walk \/ UNCHANGED vars
  <2>1. out' = out
    BY <1>1 DEF Load, Walk, Skip, PageNode, OtherNode, PagesNode, Kid, KidsDone, Loaded, vars
  <2> QED
    BY <1>s, <2>1
<1>2. ASSUME NEW i \in DOMAIN pageList, AddPage(i)
      PROVE  InheritedKept'
  <2> DEFINE page == GetPage(i)
             n == page.node
             up == Upwards(page)
             v == [a \in Attrs |-> IF page.value[a] # Nil THEN page.value[a]
                                   ELSE Inherited(value, up, a)]
             o == [node |-> n, value |-> v]
             all == Append(out, o)
  <2>1. phase \in {"ready", "failed"} /\ (out' = out \/ out' = all)
    BY <1>2 DEF AddPage
  <2>2. CASE out' = out
    BY <1>s, <2>2
  <2>3. CASE out' = all /\ Proper /\ Eager
    <3>1. up = Ancestors(doc.parent, {}, n) /\ up \in Seq(Reach \cap Pages)
      BY <2>1, <2>3, UpwardsTrue
    <3>2. doc \in Doc /\ i \in DOMAIN models /\ page = models[i] /\ n \in Nodes
      BY AddPageTypes DEF TypeInv, TypeOK, GetPage
    <3>3. \A a \in Attrs \ {Resources} : page.value[a] = Orig[n][a]
      BY <2>1, <2>3, <3>2 DEF DictsInv, ModelsTrue
    <3>4. \A m \in Reach \cap Pages : value[m] = Orig[m]
      <4>1. InnerTrue(parent, value)
        BY <2>1, <2>3 DEF DictsInv
      <4>2. Reach \subseteq Nodes
        BY <3>2, ReachFacts
      <4> QED
        BY <4>1, <4>2 DEF InnerTrue, Pages
    <3> HIDE DEF page, n, up
    <3>5. ASSUME NEW a \in Attrs \ {Resources}
          PROVE  v[a] = Effective(n, a)
      <4>1. v[a] = IF page.value[a] # Nil THEN page.value[a] ELSE FirstOf(value, up, a)
        BY DEF Inherited
      <4> HIDE DEF v
      <4>2. \A m \in Reach \cap Pages : value[m][a] = Orig[m][a]
        BY <3>4
      <4>3. FirstOf(value, up, a) = FirstOf(Orig, up, a)
        BY <3>1, <4>2, FirstSame
      <4>4. Effective(n, a) = IF Orig[n][a] # Nil THEN Orig[n][a] ELSE FirstOf(Orig, up, a)
        BY <3>1, <3>2, EffectiveFirst
      <4> QED
        BY <3>3, <4>1, <4>3, <4>4
    <3>6. o.node = n /\ o.value = v
      OBVIOUS
    <3>7. \A j \in DOMAIN all : (j \in DOMAIN out /\ all[j] = out[j]) \/ all[j] = o
      <4>1. v \in Values
        BY MovedType DEF v, up, page
      <4> DEFINE D == [node : Nodes, value : Values]
      <4>2. out \in Seq(D) /\ o \in D
        BY <3>2, <4>1 DEF TypeInv, TypeOK
      <4> HIDE DEF D, o
      <4>3. Len(out) \in Nat /\ DOMAIN out = 1 .. Len(out) /\ DOMAIN all = 1 .. Len(out) + 1
            /\ (\A j \in 1 .. Len(out) : all[j] = out[j]) /\ all[Len(out) + 1] = o
        BY <4>2, AppendFacts
      <4>4. \A j \in 1 .. Len(out) + 1 : j \in 1 .. Len(out) \/ j = Len(out) + 1
        BY <4>3
      <4> QED
        BY <4>3, <4>4
    <3> HIDE DEF v, o, all
    <3>8. Kept(all)
      BY <1>k, <2>3, <3>5, <3>6, <3>7 DEF Kept
    <3> QED
      BY <1>d, <2>3, <3>8, KeptCarried
  <2>4. CASE out' = all /\ ~(Proper /\ Eager)
    <3> HIDE DEF all
    <3> QED
      BY <1>d, <2>4, KeptCarried
  <2> QED
    BY <2>1, <2>2, <2>3, <2>4
<1> QED
  BY <1>1, <1>2 DEF Next

(* GetMediaBox and AddPage: in a proper tree, however often it is loaded,   *)
(* lazily or not, a page's box is the one that the file has for it, of its  *)
(* own or the nearest above; and pages that are moved one after another,    *)
(* read by the reader that is not lazy, keep what they inherit.             *)
THEOREM BoxesTrueHolds == Spec => []BoxesTrue
<1> DEFINE Inv == TypeInv /\ WalkInv /\ UpInv /\ DictsInv /\ LinksInv /\ InheritedKept
<1>1. Init => Inv
  <2> SUFFICES ASSUME Init PROVE Inv
    OBVIOUS
  <2>1. doc \in Doc /\ doc.root \in Nodes
    BY Assumptions DEF Init, Doc
  <2>2. parent = doc.parent /\ value = Orig /\ models = << >> /\ out = << >>
    BY DEF Init, Orig
  <2>3. DictsInv
    BY <2>2 DEF DictsInv, InnerTrue, ModelsTrue
  <2>4. LinksInv
    <3>1. Proper => doc.root \notin isRef
      BY DEF Init, Proper
    <3>2. Untouched(stack, seen, traversed, models)
      BY DEF Init, Untouched
    <3> QED
      BY <2>2, <3>1, <3>2 DEF LinksInv, Followable
  <2>5. InheritedKept
    BY <2>2 DEF InheritedKept
  <2> QED
    BY <2>3, <2>4, <2>5, TypeInit, InvInit
<1>2. Inv /\ [Next]_vars => Inv'
  BY TypeStep, WalkStep, UpStep, DictsStep, LinksStep, KeptStep
<1>3. Inv => BoxesTrue
  BY BoxesFound DEF BoxesTrue
<1> HIDE DEF Inv
<1> QED
  BY <1>1, <1>2, <1>3, PTL DEF Spec
=============================================================================

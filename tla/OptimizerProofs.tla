--------------------------- MODULE OptimizerProofs ---------------------------
(***************************************************************************)
(* Proofs about Optimizer: for every document, whichever optimizers run,   *)
(* in whichever order the groups come: the list that is written is closed, *)
(* every object that one in it refers to is in it, once.                   *)
(*                                                                         *)
(* Before an optimizer, what the list leads to is covered by a set of      *)
(* objects whose numbered ones are the list's.  An optimizer takes objects *)
(* out of the list, and only those that it is going to replace; the        *)
(* invariant follows their replacement, value by value, through the stack. *)
(***************************************************************************)
EXTENDS Optimizer, CommonLemmas
LOCAL INSTANCE SequencesExt

-----------------------------------------------------------------------------
(* Sequences.                                                               *)
LEMMA IsSeqOf ==
  ASSUME NEW S, NEW n \in Nat, NEW s, DOMAIN s = 1 .. n, s = [i \in 1 .. n |-> s[i]], \A i \in 1 .. n : s[i] \in S
  PROVE  s \in Seq(S) /\ Len(s) = n
OBVIOUS

\* What occurs in a sequence, index by index.
LEMMA ToSetIs ==
  ASSUME NEW S, NEW s \in Seq(S)
  PROVE  /\ ToSet(s) \in SUBSET S
         /\ \A i \in 1 .. Len(s) : s[i] \in ToSet(s)
         /\ \A x \in ToSet(s) : \E i \in 1 .. Len(s) : x = s[i]
         /\ s \in Seq(ToSet(s))
BY DEF ToSet

LEMMA ToSetIn ==
  ASSUME NEW S, NEW s \in Seq(S), NEW C, \A i \in 1 .. Len(s) : s[i] \in C
  PROVE  ToSet(s) \subseteq C
BY DEF ToSet

\* What occurs in two sequences, one after the other.
LEMMA ToSetConcat ==
  ASSUME NEW S, NEW s \in Seq(S), NEW t \in Seq(S)
  PROVE  s \o t \in Seq(S) /\ ToSet(s \o t) = ToSet(s) \cup ToSet(t)
<1>1. s \o t \in Seq(S) /\ Len(s \o t) = Len(s) + Len(t)
  OBVIOUS
<1>2. \A i \in 1 .. Len(s) : (s \o t)[i] = s[i]
  OBVIOUS
<1>3. \A i \in 1 .. Len(t) : (s \o t)[Len(s) + i] = t[i]
  OBVIOUS
<1>4. ASSUME NEW i \in 1 .. Len(s \o t)
      PROVE  (s \o t)[i] \in ToSet(s) \cup ToSet(t)
  <2>1. CASE i <= Len(s)
    BY <1>2, <2>1, ToSetIs
  <2>2. CASE i > Len(s)
    <3>1. i - Len(s) \in 1 .. Len(t) /\ i = Len(s) + (i - Len(s))
      BY <1>1, <2>2
    <3> QED
      BY <1>3, <3>1, ToSetIs
  <2> QED
    BY <2>1, <2>2
<1>5. \A i \in 1 .. Len(s) : s[i] \in ToSet(s \o t)
  <2>1. \A i \in 1 .. Len(s) : i \in 1 .. Len(s \o t)
    BY <1>1
  <2> QED
    BY <1>1, <1>2, <2>1, ToSetIs
<1>6. \A i \in 1 .. Len(t) : t[i] \in ToSet(s \o t)
  <2>1. \A i \in 1 .. Len(t) : Len(s) + i \in 1 .. Len(s \o t)
    BY <1>1
  <2> QED
    BY <1>1, <1>3, <2>1, ToSetIs
<1>7. ToSet(s \o t) \subseteq ToSet(s) \cup ToSet(t)
  <2> DEFINE C == ToSet(s) \cup ToSet(t)
             u == s \o t
  <2>1. u \in Seq(S) /\ \A i \in 1 .. Len(u) : u[i] \in C
    BY <1>1, <1>4
  <2> HIDE DEF C, u
  <2>2. ToSet(u) \subseteq C
    BY <2>1, ToSetIn
  <2> QED
    BY <2>2 DEF C, u
<1>8. ToSet(s) \subseteq ToSet(s \o t) /\ ToSet(t) \subseteq ToSet(s \o t)
  <2> DEFINE C == ToSet(s \o t)
  <2> HIDE DEF C
  <2>1. (\A i \in 1 .. Len(s) : s[i] \in C) /\ \A i \in 1 .. Len(t) : t[i] \in C
    BY <1>5, <1>6 DEF C
  <2>2. ToSet(s) \subseteq C /\ ToSet(t) \subseteq C
    BY <2>1, ToSetIn
  <2> QED
    BY <2>2 DEF C
<1>9. ToSet(s \o t) = ToSet(s) \cup ToSet(t)
  <2> HIDE DEF ToSet
  <2> QED
    BY <1>7, <1>8
<1> QED
  BY <1>1, <1>9

LEMMA ToSetAppend ==
  ASSUME NEW S, NEW s \in Seq(S), NEW x \in S
  PROVE  Append(s, x) \in Seq(S) /\ ToSet(Append(s, x)) = ToSet(s) \cup {x}
<1>1. Append(s, x) \in Seq(S) /\ Len(Append(s, x)) = Len(s) + 1
  OBVIOUS
<1>2. \A i \in 1 .. Len(s) + 1 : Append(s, x)[i] = IF i = Len(s) + 1 THEN x ELSE s[i]
  OBVIOUS
<1>3. \A i \in 1 .. Len(s) : i \in 1 .. Len(s) + 1 /\ i # Len(s) + 1
  OBVIOUS
<1>4. Len(s) + 1 \in 1 .. Len(s) + 1 /\ \A i \in 1 .. Len(s) + 1 : i = Len(s) + 1 \/ i \in 1 .. Len(s)
  OBVIOUS
<1>5. ToSet(s) \cup {x} \subseteq ToSet(Append(s, x))
  <2> DEFINE u == Append(s, x)
             C == ToSet(u)
  <2>1. u \in Seq(S) /\ Len(u) = Len(s) + 1 /\ \A i \in 1 .. Len(s) + 1 : u[i] = IF i = Len(s) + 1 THEN x ELSE s[i]
    BY <1>1, <1>2
  <2> HIDE DEF u
  <2>2. \A i \in 1 .. Len(u) : u[i] \in C
    BY <2>1, ToSetIs
  <2> HIDE DEF C
  <2>3. (\A i \in 1 .. Len(s) : s[i] \in C) /\ x \in C
    BY <1>3, <1>4, <2>1, <2>2
  <2>4. ToSet(s) \subseteq C
    BY <2>3, ToSetIn
  <2> QED
    BY <2>3, <2>4 DEF C, u
<1>6. ToSet(Append(s, x)) \subseteq ToSet(s) \cup {x}
  <2> DEFINE C == ToSet(s) \cup {x}
             u == Append(s, x)
  <2>1. \A i \in 1 .. Len(s) + 1 : Append(s, x)[i] \in ToSet(s) \cup {x}
    BY <1>2, <1>4, ToSetIs
  <2>2. u \in Seq(S) /\ \A i \in 1 .. Len(u) : u[i] \in C
    BY <1>1, <2>1
  <2> HIDE DEF C, u
  <2>3. ToSet(u) \subseteq C
    BY <2>2, ToSetIn
  <2> QED
    BY <2>3 DEF C, u
<1> QED
  BY <1>1, <1>5, <1>6

(* What Chosen chooses.                                                     *)
LEMMA ChosenIs ==
  ASSUME NEW D, NEW s \in Seq(D), NEW S
  PROVE  /\ Chosen(s, S) \in Seq(D)
         /\ ToSet(Chosen(s, S)) = ToSet(s) \cap S
         /\ (\A i, j \in 1 .. Len(s) : s[i] = s[j] => i = j) =>
              \A i, j \in 1 .. Len(Chosen(s, S)) : Chosen(s, S)[i] = Chosen(s, S)[j] => i = j
<1> DEFINE n == Len(s)
           put(i, u) == IF s[i] \in S THEN Append(u, s[i]) ELSE u
           Kept(f) == [i \in 0 .. n |-> IF i = 0 THEN << >> ELSE IF s[i] \in S THEN Append(f[i - 1], s[i]) ELSE f[i - 1]]
           kept == CHOOSE f : f = Kept(f)
           step == [p \in (1 .. n) \X Seq(D) |-> put(p[1], p[2])]
<1>1. Chosen(s, S) = kept[n]
  BY DEF Chosen
<1>2. n \in Nat /\ << >> \in Seq(D) /\ \A i \in 1 .. n : s[i] \in D
  OBVIOUS
<1>3. step \in [(1 .. n) \X Seq(D) -> Seq(D)]
  <2>1. \A i \in 1 .. n, u \in Seq(D) : put(i, u) \in Seq(D)
    OBVIOUS
  <2> HIDE DEF put
  <2> QED
    BY <2>1
<1>4. PICK g \in [0 .. n -> Seq(D)] : Iterated(g, n, << >>, step)
  <2> HIDE DEF step, n
  <2> QED
    BY <1>2, <1>3, Iterates
<1>5. g = Kept(g)
  <2>1. g[0] = << >> /\ \A i \in 1 .. n : g[i] = step[<<i, g[i - 1]>>]
    BY <1>4 DEF Iterated
  <2>2. \A i \in 0 .. n : i # 0 => i \in 1 .. n /\ i - 1 \in 0 .. n
    BY <1>2
  <2>3. \A i \in 0 .. n : i # 0 => g[i] = put(i, g[i - 1])
    BY <1>4, <2>1, <2>2
  <2>4. \A i \in 0 .. n : g[i] = Kept(g)[i]
    BY <2>1, <2>3
  <2> HIDE DEF n
  <2> QED
    BY <1>4, <2>4
<1>6. kept = Kept(kept)
  BY <1>5
<1> HIDE DEF kept
<1>7. kept[0] = << >> /\ \A i \in 1 .. n : kept[i] = put(i, kept[i - 1])
  <2>1. 0 \in 0 .. n /\ \A i \in 1 .. n : i \in 0 .. n /\ i # 0
    BY <1>2
  <2> QED
    BY <1>6, <2>1
<1> DEFINE Part(i) == {s[j] : j \in 1 .. i} \cap S
           NoTwo(t) == \A i, j \in 1 .. Len(t) : t[i] = t[j] => i = j
           G == {i \in 0 .. n : /\ kept[i] \in Seq(D) /\ ToSet(kept[i]) = Part(i)
                                /\ NoTwo(s) => NoTwo(kept[i])}
<1>8. 0 \in G
  <2>1. ToSet(<< >>) = {}
    BY DEF ToSet
  <2>2. NoTwo(<< >>)
    OBVIOUS
  <2>3. Part(0) = {}
    OBVIOUS
  <2>4. 0 \in 0 .. n
    BY <1>2
  <2>5. kept[0] \in Seq(D) /\ ToSet(kept[0]) = Part(0) /\ NoTwo(kept[0])
    BY <1>2, <1>7, <2>1, <2>2, <2>3
  <2> HIDE DEF NoTwo, Part, n
  <2> QED
    BY <2>4, <2>5
<1>9. ASSUME NEW i \in 1 .. n, i - 1 \in G
      PROVE  i \in G
  <2> DEFINE t == kept[i - 1]
  <2>1. t \in Seq(D) /\ ToSet(t) = Part(i - 1) /\ (NoTwo(s) => NoTwo(t))
    BY <1>9
  <2>2. kept[i] = IF s[i] \in S THEN Append(t, s[i]) ELSE t
    BY <1>7
  <2>3. 1 .. i = (1 .. i - 1) \cup {i} /\ i \in 0 .. n /\ i \notin 1 .. i - 1 /\ 1 .. i - 1 \subseteq 1 .. n
    OBVIOUS
  <2> HIDE DEF t, G
  <2>4. CASE s[i] \notin S
    <3>1. Part(i) = Part(i - 1)
      BY <2>3, <2>4
    <3> HIDE DEF Part, NoTwo
    <3> QED
      BY <2>1, <2>2, <2>3, <2>4, <3>1 DEF G
  <2>5. CASE s[i] \in S
    <3>1. Part(i) = Part(i - 1) \cup {s[i]}
      BY <2>3, <2>5
    <3>2. s[i] \in D
      BY <1>2
    <3>3. kept[i] \in Seq(D) /\ ToSet(kept[i]) = Part(i)
      <4> HIDE DEF Part
      <4> QED
        BY <2>1, <2>2, <2>5, <3>1, <3>2, ToSetAppend
    <3>4. ASSUME NoTwo(s)
          PROVE  NoTwo(kept[i])
      <4>1. s[i] \notin ToSet(t)
        BY <2>1, <2>3, <3>4
      <4>2. NoTwo(t)
        BY <2>1, <3>4
      <4>3. \A j \in 1 .. Len(t) : t[j] # s[i]
        BY <2>1, <4>1, ToSetIs
      <4> QED
        BY <2>1, <2>2, <2>5, <4>2, <4>3
    <3> HIDE DEF Part, NoTwo
    <3> QED
      BY <2>3, <3>3, <3>4 DEF G
  <2> QED
    BY <2>4, <2>5
<1> HIDE DEF G, n
<1>10. n \in G
  <2>1. n \in 0 .. n
    BY <1>2
  <2> QED
    BY <1>2, <1>8, <1>9, <2>1, UpTo
<1>11. Part(n) = ToSet(s) \cap S
  BY ToSetIs DEF n
<1> QED
  BY <1>1, <1>10, <1>11 DEF G, n

(* What is in a sequence of sequences laid end to end.                      *)
LEMMA FlattenIs ==
  ASSUME NEW D, NEW ss \in Seq(Seq(D)), NEW C, \A i \in 1 .. Len(ss) : ToSet(ss[i]) \subseteq C
  PROVE  FlattenSeq(ss) \in Seq(D) /\ ToSet(FlattenSeq(ss)) \subseteq C
<1> DEFINE n == Len(ss)
           Flat(f) == [i \in 1 .. n |-> IF i = 1 THEN ss[i] ELSE f[i - 1] \o ss[i]]
           flatten == CHOOSE f : f = Flat(f)
<1>1. CASE n = 0
  <2>1. FlattenSeq(ss) = << >> /\ << >> \in Seq(D)
    BY <1>1 DEF FlattenSeq
  <2>2. ToSet(<< >>) \subseteq C
    BY DEF ToSet
  <2> QED
    BY <2>1, <2>2
<1>2. CASE n # 0
  <2>1. FlattenSeq(ss) = flatten[n]
    BY <1>2 DEF FlattenSeq
  <2>2. n \in Nat /\ n - 1 \in Nat /\ 1 \in 1 .. n /\ \A i \in 1 .. n : ss[i] \in Seq(D)
    BY <1>2
  <2> DEFINE step == [p \in (1 .. n - 1) \X Seq(D) |-> p[2] \o ss[p[1] + 1]]
  <2>3. step \in [(1 .. n - 1) \X Seq(D) -> Seq(D)]
    <3>1. \A i \in 1 .. n - 1, u \in Seq(D) : u \o ss[i + 1] \in Seq(D)
      BY <2>2
    <3> QED
      BY <3>1
  <2>4. PICK g \in [0 .. n - 1 -> Seq(D)] : Iterated(g, n - 1, ss[1], step)
    <3> HIDE DEF step, n
    <3> QED
      BY <2>2, <2>3, Iterates
  <2> DEFINE f == [i \in 1 .. n |-> g[i - 1]]
  <2>5. f = Flat(f)
    <3>1. g[0] = ss[1] /\ \A i \in 1 .. n - 1 : g[i] = g[i - 1] \o ss[i + 1]
      <4>1. \A i \in 1 .. n - 1 : <<i, g[i - 1]>> \in (1 .. n - 1) \X Seq(D)
        <5>1. \A i \in 1 .. n - 1 : i - 1 \in 0 .. n - 1
          BY <2>2
        <5> HIDE DEF n
        <5> QED
          BY <2>4, <5>1
      <4> QED
        BY <2>4, <4>1 DEF Iterated
    <3>2. ASSUME NEW i \in 1 .. n
          PROVE  f[i] = IF i = 1 THEN ss[i] ELSE f[i - 1] \o ss[i]
      <4>1. CASE i = 1
        BY <3>1, <4>1
      <4>2. CASE i # 1
        <5>1. i - 1 \in 1 .. n - 1 /\ i - 1 \in 1 .. n /\ (i - 1) + 1 = i
          BY <2>2, <4>2
        <5>2. g[i - 1] = g[(i - 1) - 1] \o ss[(i - 1) + 1]
          BY <3>1, <5>1
        <5>3. f[i] = g[i - 1] /\ f[i - 1] = g[(i - 1) - 1]
          BY <5>1
        <5> HIDE DEF f
        <5> QED
          BY <4>2, <5>1, <5>2, <5>3
      <4> QED
        BY <4>1, <4>2
    <3>3. f = [i \in 1 .. n |-> f[i]]
      OBVIOUS
    <3> HIDE DEF f, n
    <3> QED
      BY <3>2, <3>3
  <2> HIDE DEF f, step
  <2>6. flatten = Flat(flatten)
    BY <2>5
  <2> HIDE DEF flatten
  <2>7. flatten[1] = ss[1] /\ \A i \in 1 .. n : i # 1 => flatten[i] = flatten[i - 1] \o ss[i]
    BY <2>2, <2>6
  <2> DEFINE G == {m \in 0 .. n - 1 : flatten[m + 1] \in Seq(D) /\ ToSet(flatten[m + 1]) \subseteq C}
  <2>8. 0 \in G
    <3>1. 0 \in 0 .. n - 1 /\ flatten[0 + 1] = ss[1] /\ ToSet(ss[1]) \subseteq C
      BY <2>2, <2>7
    <3> QED
      BY <2>2, <3>1
  <2>9. ASSUME NEW m \in 1 .. n - 1, m - 1 \in G
        PROVE  m \in G
    <3>1. /\ m + 1 \in 1 .. n /\ m + 1 # 1 /\ (m + 1) - 1 = (m - 1) + 1 /\ m \in 0 .. n - 1
      BY <2>2
    <3>2. flatten[m + 1] = flatten[(m - 1) + 1] \o ss[m + 1]
      BY <2>7, <3>1
    <3> DEFINE u == flatten[(m - 1) + 1]
    <3>3. u \in Seq(D) /\ ToSet(u) \subseteq C
      BY <2>9
    <3>4. ss[m + 1] \in Seq(D) /\ ToSet(ss[m + 1]) \subseteq C
      BY <2>2, <3>1
    <3> HIDE DEF u
    <3>5. u \o ss[m + 1] \in Seq(D) /\ ToSet(u \o ss[m + 1]) \subseteq C
      BY <3>3, <3>4, ToSetConcat
    <3> QED
      BY <3>1, <3>2, <3>5 DEF u
  <2> HIDE DEF G
  <2>10. n - 1 \in G
    <3>1. n - 1 \in 0 .. n - 1
      BY <2>2
    <3> QED
      BY <2>2, <2>8, <2>9, <3>1, UpTo
  <2>11. (n - 1) + 1 = n
    BY <2>2
  <2> QED
    BY <2>1, <2>10, <2>11 DEF G
<1> QED
  BY <1>1, <1>2

(* Groups with the same key: no two have an element in common, none has an  *)
(* element twice.                                                           *)
LEMMA GroupsAre ==
  ASSUME NEW D, NEW seq \in Seq(D), NEW key
  PROVE  /\ \A g \in Groups(seq, key) : g \in Seq(D) /\ Len(g) > 1 /\ ToSet(g) \subseteq ToSet(seq)
         /\ \A g1, g2 \in Groups(seq, key) : ToSet(g1) \cap ToSet(g2) # {} => g1 = g2
         /\ Once(seq) => \A g \in Groups(seq, key) : Once(g)
<1> DEFINE Like(x) == {o \in ToSet(seq) : key[o] = key[x]}
<1>1. \A g \in Groups(seq, key) : Len(g) > 1 /\ \E x \in ToSet(seq) : g = Chosen(seq, Like(x))
  BY DEF Groups
<1>2. \A x \in ToSet(seq) : Chosen(seq, Like(x)) \in Seq(D) /\ ToSet(Chosen(seq, Like(x))) = Like(x)
  <2>1. \A x \in ToSet(seq) : ToSet(seq) \cap Like(x) = Like(x)
    OBVIOUS
  <2> HIDE DEF Like
  <2> QED
    BY <2>1, ChosenIs
<1>3. ASSUME NEW g1 \in Groups(seq, key), NEW g2 \in Groups(seq, key), ToSet(g1) \cap ToSet(g2) # {}
      PROVE  g1 = g2
  <2>1. PICK x \in ToSet(seq) : g1 = Chosen(seq, Like(x))
    BY <1>1
  <2>2. PICK y \in ToSet(seq) : g2 = Chosen(seq, Like(y))
    BY <1>1
  <2>3. Like(x) \cap Like(y) # {}
    BY <1>2, <1>3, <2>1, <2>2
  <2>4. Like(x) = Like(y)
    BY <2>3
  <2> HIDE DEF Like
  <2> QED
    BY <2>1, <2>2, <2>4
<1>4. ASSUME Once(seq), NEW g \in Groups(seq, key)
      PROVE  Once(g)
  <2>1. PICK x \in ToSet(seq) : g = Chosen(seq, Like(x))
    BY <1>1
  <2>2. \A i, j \in 1 .. Len(seq) : seq[i] = seq[j] => i = j
    BY <1>4 DEF Once
  <2> HIDE DEF Like
  <2>3. g \in Seq(D) /\ \A i, j \in 1 .. Len(g) : g[i] = g[j] => i = j
    BY <1>2, <2>1, <2>2, ChosenIs
  <2> QED
    BY <2>3 DEF Once
<1>5. \A x \in ToSet(seq) : Like(x) \subseteq ToSet(seq)
  OBVIOUS
<1> HIDE DEF Like
<1> QED
  BY <1>1, <1>2, <1>3, <1>4, <1>5

(* There are finitely many of them.                                         *)
LEMMA GroupsFinite ==
  ASSUME NEW D, NEW seq \in Seq(D), NEW key
  PROVE  IsFiniteSet(Groups(seq, key)) /\ Cardinality(Groups(seq, key)) \in Nat
<1> DEFINE F == [i \in 1 .. Len(seq) |-> Chosen(seq, {o \in ToSet(seq) : key[o] = key[seq[i]]})]
<1>1. \A g \in Groups(seq, key) : \E i \in 1 .. Len(seq) : g = F[i]
  <2>1. ASSUME NEW g \in Groups(seq, key)
        PROVE  \E i \in 1 .. Len(seq) : g = F[i]
    <3>1. PICK x \in ToSet(seq) : g = Chosen(seq, {o \in ToSet(seq) : key[o] = key[x]})
      BY DEF Groups
    <3>2. PICK i \in 1 .. Len(seq) : x = seq[i]
      BY ToSetIs
    <3> QED
      BY <3>1, <3>2
  <2> QED
    BY <2>1
<1>2. Len(seq) \in Nat
  OBVIOUS
<1> HIDE DEF F
<1> QED
  BY <1>1, <1>2, ListFinite

-----------------------------------------------------------------------------
(* The heap: dictionaries that hold dictionaries come to an end.            *)
Falls(h, lev) ==
  \A o, p \in DOMAIN h : h[o].k = "dict" /\ h[p].k = "dict" /\ p \in Held(h[o]) => lev[p] < lev[o]
HeapInv(h) ==
  IsHeap(h) /\ StreamDictsApart(h) /\ \E L \in Nat : \E lev \in [DOMAIN h -> 0 .. L] : Falls(h, lev)
(* V has all that what is in V holds, and its objects with numbers are among ends. *)
Covers(h, V, ends) ==
  /\ V \subseteq DOMAIN h
  /\ \A o \in V : Held(h[o]) \subseteq V /\ (Container(h[o]) => o \in ends)

(* What a node holds.                                                       *)
LEMMA NodeVals ==
  ASSUME NEW n, NEW P, IsNode(n, P)
  PROVE  Vals(n) \in Seq(P) /\ Held(n) \subseteq P
<1>1. Vals(n) \in Seq(P)
  <2>1. CASE n.k = "dict"
    <3>1. n.ent \in Seq(Entries(P))
      BY <2>1 DEF IsNode
    <3>2. Vals(n) = [i \in 1 .. Len(n.ent) |-> n.ent[i].val]
      BY <2>1, <3>1 DEF Vals
    <3>3. \A i \in 1 .. Len(n.ent) : n.ent[i].val \in P
      <4>1. \A i \in 1 .. Len(n.ent) : n.ent[i] \in Entries(P)
        BY <3>1
      <4> QED
        BY <4>1 DEF Entries
    <3>4. Len(n.ent) \in Nat
      BY <3>1
    <3> DEFINE w == [i \in 1 .. Len(n.ent) |-> n.ent[i].val]
    <3>5. DOMAIN w = 1 .. Len(n.ent) /\ \A i \in 1 .. Len(n.ent) : w[i] \in P
      BY <3>3
    <3>6. w = [i \in 1 .. Len(n.ent) |-> w[i]]
      OBVIOUS
    <3> HIDE DEF w
    <3>7. w \in Seq(P)
      BY <3>4, <3>5, <3>6, IsSeqOf
    <3> QED
      BY <3>2, <3>7 DEF w
  <2>2. CASE n.k = "ind"
    BY <2>2 DEF IsNode, Vals
  <2>3. CASE n.k = "stream"
    BY <2>3 DEF IsNode, Vals
  <2>4. CASE n.k = "atom"
    BY <2>4 DEF Vals
  <2>5. CASE n.k \in {"array", "objstm"}
    BY <2>5 DEF IsNode, Vals
  <2> QED
    BY <2>1, <2>2, <2>3, <2>4, <2>5 DEF IsNode
<1> QED
  BY <1>1, ToSetIs DEF Held

\* Nodes that hold one object, or none.
LEMMA HeldOfOne ==
  ASSUME NEW n
  PROVE  (n.k = "ind" => Held(n) = {n.val}) /\ (n.k = "stream" => Held(n) = {n.dict}) /\ (n.k = "atom" => Held(n) = {})
<1>1. \A x : ToSet(<<x>>) = {x}
  BY DEF ToSet
<1>2. ToSet(<< >>) = {}
  BY DEF ToSet
<1>3. /\ n.k = "ind" => Vals(n) = <<n.val>>
      /\ n.k = "stream" => Vals(n) = <<n.dict>>
      /\ n.k = "atom" => Vals(n) = << >>
  BY DEF Vals
<1> QED
  BY <1>1, <1>2, <1>3 DEF Held

\* The heap is a finite sequence of nodes that hold its objects.
LEMMA HeapFacts ==
  ASSUME NEW h, IsHeap(h)
  PROVE  /\ Len(h) \in Nat /\ DOMAIN h = 1 .. Len(h) /\ IsFiniteSet(DOMAIN h) /\ Cardinality(DOMAIN h) = Len(h)
         /\ \A o \in DOMAIN h : IsNode(h[o], DOMAIN h) /\ Vals(h[o]) \in Seq(DOMAIN h) /\ Held(h[o]) \subseteq DOMAIN h
<1>1. Len(h) \in Nat /\ DOMAIN h = 1 .. Len(h)
  BY DEF IsHeap
<1>2. IsFiniteSet(1 .. Len(h)) /\ Cardinality(1 .. Len(h)) = Len(h)
  BY <1>1, IntervalSize
<1>3. \A o \in DOMAIN h : IsNode(h[o], DOMAIN h)
  BY <1>1 DEF IsHeap
<1> QED
  BY <1>1, <1>2, <1>3, NodeVals

(* A node is the same as before but for what it holds.                      *)
LEMMA WithValsIs ==
  ASSUME NEW n, NEW P, IsNode(n, P), n.k # "atom", NEW vals \in Seq(P), Len(vals) = Len(Vals(n))
  PROVE  IsNode(WithVals(n, vals), P) /\ WithVals(n, vals).k = n.k /\ Vals(WithVals(n, vals)) = vals
<1>1. CASE n.k = "ind"
  <2>1. Len(vals) = 1 /\ vals[1] \in P /\ vals = <<vals[1]>>
    <3>1. Len(Vals(n)) = 1
      BY <1>1 DEF Vals
    <3> QED
      BY <3>1
  <2>2. WithVals(n, vals) = [n EXCEPT !.val = vals[1]]
    BY <1>1 DEF WithVals
  <2> QED
    BY <1>1, <2>1, <2>2 DEF IsNode, Vals
<1>2. CASE n.k = "stream"
  <2>1. Len(vals) = 1 /\ vals[1] \in P /\ vals = <<vals[1]>>
    <3>1. Len(Vals(n)) = 1
      BY <1>2 DEF Vals
    <3> QED
      BY <3>1
  <2>2. WithVals(n, vals) = [n EXCEPT !.dict = vals[1]]
    BY <1>2 DEF WithVals
  <2> QED
    BY <1>2, <2>1, <2>2 DEF IsNode, Vals
<1>3. CASE n.k = "dict"
  <2> DEFINE l == Len(n.ent)
             ent == [i \in 1 .. l |-> [key |-> n.ent[i].key, val |-> vals[i]]]
  <2>1. n.ent \in Seq(Entries(P)) /\ "ent" \in DOMAIN n /\ l \in Nat /\ DOMAIN n.ent = 1 .. l
    BY <1>3 DEF IsNode
  <2>2. Len(vals) = l /\ \A i \in 1 .. l : vals[i] \in P
    <3>1. Vals(n) = [i \in 1 .. l |-> n.ent[i].val]
      BY <1>3, <2>1 DEF Vals
    <3>2. Len(Vals(n)) = l
      BY <2>1, <3>1
    <3> QED
      BY <3>2
  <2>3. WithVals(n, vals) = [n EXCEPT !.ent = ent]
    BY <1>3, <2>1 DEF WithVals
  <2>4. ent \in Seq(Entries(P)) /\ Len(ent) = l
    <3>1. \A i \in 1 .. l : ent[i] \in Entries(P)
      <4>1. \A i \in 1 .. l : n.ent[i] \in Entries(P)
        BY <2>1
      <4>2. \A i \in 1 .. l : n.ent[i].key \in STRING
        BY <4>1 DEF Entries
      <4> HIDE DEF l
      <4> QED
        BY <2>2, <4>2 DEF Entries
    <3>2. DOMAIN ent = 1 .. l /\ ent = [i \in 1 .. l |-> ent[i]]
      OBVIOUS
    <3> HIDE DEF ent, l
    <3> QED
      BY <2>1, <3>1, <3>2, IsSeqOf
  <2>5. \A i \in 1 .. l : ent[i].val = vals[i]
    OBVIOUS
  <2> HIDE DEF ent, l
  <2>6. [n EXCEPT !.ent = ent].ent = ent /\ [n EXCEPT !.ent = ent].k = n.k /\ "ent" \in DOMAIN [n EXCEPT !.ent = ent]
        /\ "k" \in DOMAIN [n EXCEPT !.ent = ent]
    BY <2>1 DEF IsNode
  <2> DEFINE m == [n EXCEPT !.ent = ent]
  <2>7. m.k = "dict" /\ m.ent = ent /\ "ent" \in DOMAIN m /\ "k" \in DOMAIN m
    BY <1>3, <2>6
  <2> HIDE DEF m
  <2>8. IsNode(m, P)
    BY <2>4, <2>7 DEF IsNode
  <2>9. Vals(m) = [i \in 1 .. l |-> ent[i].val]
    <3>1. DOMAIN ent = 1 .. l
      BY <2>4
    <3> QED
      BY <2>7, <3>1 DEF Vals
  <2>10. [i \in 1 .. l |-> ent[i].val] = vals
    BY <2>2, <2>5
  <2> QED
    BY <1>3, <2>3, <2>7, <2>8, <2>9, <2>10 DEF m
<1>4. CASE n.k \in {"array", "objstm"}
  <2>1. WithVals(n, vals) = [n EXCEPT !.items = vals]
    BY <1>4 DEF WithVals
  <2> QED
    BY <1>4, <2>1 DEF IsNode, Vals
<1> QED
  BY <1>1, <1>2, <1>3, <1>4 DEF IsNode

(* What an optimizer does to a heap: new objects, none of which is a stream,*)
(* a new dictionary being a copy; and dictionaries get to hold more, but no *)
(* dictionary.                                                              *)
LEMMA GrownHeap ==
  ASSUME NEW h, HeapInv(h), NEW h2, IsHeap(h2), DOMAIN h \subseteq DOMAIN h2,
         NEW A, \A a \in A : a \in DOMAIN h2 => h2[a].k # "dict",
         \A o \in DOMAIN h : /\ h2[o].k = h[o].k
                             /\ h[o].k = "dict" => Held(h2[o]) \subseteq Held(h[o]) \cup A
                             /\ h[o].k = "stream" => h2[o].dict = h[o].dict,
         \A o \in DOMAIN h2 : o \notin DOMAIN h =>
           /\ h2[o].k # "stream"
           /\ h2[o].k = "dict" => \E p \in DOMAIN h : h[p].k = "dict" /\ Held(h2[o]) \subseteq Held(h[p])
  PROVE  HeapInv(h2)
<1>1. \A o \in DOMAIN h2 : h2[o].k = "dict" =>
        \E p \in DOMAIN h : /\ h[p].k = "dict" /\ Held(h2[o]) \subseteq Held(h[p]) \cup A
                            /\ o \in DOMAIN h => p = o
  OBVIOUS
<1>2. PICK like \in [DOMAIN h2 -> DOMAIN h \cup {0}] :
        \A o \in DOMAIN h2 : h2[o].k = "dict" =>
          /\ like[o] \in DOMAIN h /\ h[like[o]].k = "dict" /\ Held(h2[o]) \subseteq Held(h[like[o]]) \cup A
          /\ o \in DOMAIN h => like[o] = o
  <2> DEFINE Is(o, p) == /\ p \in DOMAIN h /\ h[p].k = "dict" /\ Held(h2[o]) \subseteq Held(h[p]) \cup A
                         /\ o \in DOMAIN h => p = o
             f == [o \in DOMAIN h2 |-> IF h2[o].k = "dict" THEN CHOOSE p : Is(o, p) ELSE 0]
  <2>1. \A o \in DOMAIN h2 : h2[o].k = "dict" => Is(o, f[o])
    <3>1. \A o \in DOMAIN h2 : h2[o].k = "dict" => \E p : Is(o, p)
      BY <1>1
    <3> HIDE DEF Is
    <3> QED
      BY <3>1
  <2>2. f \in [DOMAIN h2 -> DOMAIN h \cup {0}]
    <3>1. \A o \in DOMAIN h2 : f[o] \in DOMAIN h \cup {0}
      BY <2>1
    <3>2. f = [o \in DOMAIN h2 |-> f[o]]
      OBVIOUS
    <3> HIDE DEF f
    <3> QED
      BY <3>1, <3>2
  <2> HIDE DEF f
  <2> QED
    BY <2>1, <2>2
<1>3. StreamDictsApart(h2)
  <2>1. ASSUME NEW o \in DOMAIN h2, h2[o].k = "stream"
        PROVE  o \in DOMAIN h /\ h[o].k = "stream" /\ h2[o].dict = h[o].dict
    BY <2>1
  <2>2. ASSUME NEW o \in DOMAIN h, h[o].k = "stream"
        PROVE  /\ h[o].dict \in DOMAIN h /\ h[h[o].dict].k = "dict" /\ h[o].dict \notin A
               /\ \A p \in DOMAIN h : h[p].k = "dict" => h[o].dict \notin Held(h[p])
    <3>1. h[o].dict \in DOMAIN h
      BY <2>2, HeapFacts DEF HeapInv, IsNode
    <3>2. h[h[o].dict].k = "dict" /\ h2[h[o].dict].k = "dict"
      BY <2>2, <3>1 DEF HeapInv, StreamDictsApart
    <3> QED
      BY <2>2, <3>1, <3>2 DEF HeapInv, StreamDictsApart
  <2>3. ASSUME NEW o \in DOMAIN h2, h2[o].k = "stream"
        PROVE  h2[h2[o].dict].k = "dict" /\ \A p \in DOMAIN h2 : h2[p].k = "dict" => h2[o].dict \notin Held(h2[p])
    BY <1>2, <2>1, <2>2, <2>3
  <2> QED
    BY <2>3 DEF StreamDictsApart
<1>4. PICK L \in Nat : \E lev \in [DOMAIN h -> 0 .. L] : Falls(h, lev)
  BY DEF HeapInv
<1>5. PICK lev \in [DOMAIN h -> 0 .. L] : Falls(h, lev)
  BY <1>4
<1> DEFINE lev2 == [o \in DOMAIN h2 |-> IF h2[o].k = "dict" THEN lev[like[o]] ELSE 0]
<1>6. lev2 \in [DOMAIN h2 -> 0 .. L]
  BY <1>2
<1>7. Falls(h2, lev2)
  <2>1. ASSUME NEW o \in DOMAIN h2, NEW p \in DOMAIN h2, h2[o].k = "dict", h2[p].k = "dict", p \in Held(h2[o])
        PROVE  lev2[p] < lev2[o]
    <3>1. p \in Held(h[like[o]]) /\ like[o] \in DOMAIN h /\ h[like[o]].k = "dict"
      BY <1>2, <2>1
    <3>2. p \in DOMAIN h /\ h[p].k = "dict" /\ like[p] = p
      BY <1>2, <2>1, <3>1, HeapFacts DEF HeapInv
    <3>3. lev[p] < lev[like[o]]
      BY <1>5, <3>1, <3>2 DEF Falls
    <3> QED
      BY <2>1, <3>2, <3>3
  <2> QED
    BY <2>1 DEF Falls
<1> HIDE DEF lev2
<1> QED
  BY <1>3, <1>6, <1>7 DEF HeapInv

\* What can be reached without a reference in between.
LEMMA ThroughIs ==
  ASSUME NEW h, IsHeap(h)
  PROVE  /\ Through(h) \in [DOMAIN h -> SUBSET DOMAIN h] /\ IsFiniteSet(DOMAIN h)
         /\ \A o \in DOMAIN h : Through(h)[o] = IF Container(h[o]) THEN {} ELSE Held(h[o])
         /\ \A x \in DOMAIN h :
              /\ Closure({x}, Through(h)) \in SUBSET DOMAIN h
              /\ x \in Closure({x}, Through(h))
              /\ \A m \in Closure({x}, Through(h)) : Through(h)[m] \subseteq Closure({x}, Through(h))
              /\ \A C \in SUBSET DOMAIN h : x \in C /\ (\A m \in C : Through(h)[m] \subseteq C) =>
                   Closure({x}, Through(h)) \subseteq C
<1>1. IsFiniteSet(DOMAIN h) /\ \A o \in DOMAIN h : Held(h[o]) \subseteq DOMAIN h
  BY HeapFacts
<1>2. Through(h) \in [DOMAIN h -> SUBSET DOMAIN h]
  BY <1>1 DEF Through
<1>3. \A o \in DOMAIN h : Through(h)[o] = IF Container(h[o]) THEN {} ELSE Held(h[o])
  BY DEF Through
<1> DEFINE N == DOMAIN h
           next == Through(h)
<1>4. ASSUME NEW x \in N
      PROVE  /\ Closure({x}, next) \in SUBSET N
             /\ x \in Closure({x}, next)
             /\ \A m \in Closure({x}, next) : next[m] \subseteq Closure({x}, next)
             /\ \A C \in SUBSET N : x \in C /\ (\A m \in C : next[m] \subseteq C) => Closure({x}, next) \subseteq C
  <2> DEFINE S == {x}
  <2>1. S \in SUBSET N /\ next \in [N -> SUBSET N] /\ IsFiniteSet(N)
    BY <1>1, <1>2
  <2>2. x \in S /\ \A C \in SUBSET N : x \in C => S \subseteq C
    OBVIOUS
  <2> HIDE DEF S, N, next
  <2>3. /\ Closure(S, next) \in SUBSET N
        /\ S \subseteq Closure(S, next)
        /\ \A m \in Closure(S, next) : next[m] \subseteq Closure(S, next)
        /\ \A C \in SUBSET N : S \subseteq C /\ (\A m \in C : next[m] \subseteq C) => Closure(S, next) \subseteq C
    BY <2>1, ClosureLeast
  <2>4. /\ Closure(S, next) \in SUBSET N
        /\ x \in Closure(S, next)
        /\ \A m \in Closure(S, next) : next[m] \subseteq Closure(S, next)
        /\ \A C \in SUBSET N : x \in C /\ (\A m \in C : next[m] \subseteq C) => Closure(S, next) \subseteq C
    BY <2>2, <2>3
  <2> QED
    BY <2>4 DEF S
<1> QED
  BY <1>1, <1>2, <1>3, <1>4

(* Where objects nest, what can be reached gets less from dictionary to     *)
(* dictionary.                                                              *)
LEMMA HeapInvFrom ==
  ASSUME NEW h, IsHeap(h), Acyclic(h), StreamDictsApart(h)
  PROVE  HeapInv(h)
<1> DEFINE From(o) == Closure({o}, Through(h))
           L == Cardinality(DOMAIN h)
           lev == [o \in DOMAIN h |-> Cardinality(From(o))]
<1>1. \A o \in DOMAIN h : From(o) \in SUBSET DOMAIN h /\ o \in From(o)
  BY ThroughIs
<1>2. ASSUME NEW o \in DOMAIN h, NEW p \in DOMAIN h, h[o].k = "dict", p \in Held(h[o])
      PROVE  From(p) \subseteq From(o) /\ From(p) # From(o)
  <2>1. ~Container(h[o])
    BY <1>2 DEF Container
  <2>2. p \in From(o)
    <3>1. p \in Through(h)[o]
      BY <1>2, <2>1, ThroughIs
    <3>2. \A m \in From(o) : Through(h)[m] \subseteq From(o)
      BY ThroughIs
    <3> HIDE DEF From
    <3> QED
      BY <1>1, <3>1, <3>2
  <2>3. From(p) \subseteq From(o)
    BY <2>2, ThroughIs
  <2>4. o \notin From(p)
    BY <1>2, <2>1 DEF Acyclic
  <2> QED
    BY <1>1, <2>3, <2>4
<1>3. IsFiniteSet(DOMAIN h)
  BY ThroughIs
<1> HIDE DEF From
<1>4. L \in Nat /\ \A o \in DOMAIN h : Cardinality(From(o)) \in 0 .. L
  <2>1. L \in Nat
    BY <1>3, HeapFacts
  <2>2. \A o \in DOMAIN h : From(o) \in SUBSET DOMAIN h /\ From(o) \in SUBSET From(o)
    BY <1>1
  <2> QED
    BY <1>3, <2>1, <2>2, PartSmaller
<1>5. lev \in [DOMAIN h -> 0 .. L]
  <2> HIDE DEF L
  <2> QED
    BY <1>4
<1>6. Falls(h, lev)
  <2>1. ASSUME NEW o \in DOMAIN h, NEW p \in DOMAIN h, h[o].k = "dict", p \in Held(h[o])
        PROVE  Cardinality(From(p)) < Cardinality(From(o))
    BY <1>1, <1>2, <1>3, <2>1, PartSmaller
  <2> QED
    BY <2>1 DEF Falls
<1> HIDE DEF lev, L
<1> QED
  BY <1>4, <1>5, <1>6 DEF HeapInv

(* A list contains itself if and only if what it leads to is covered.       *)
LEMMA CoverFrom ==
  ASSUME NEW h, IsHeap(h), NEW list, IsList(h, list), SelfContained(h, list)
  PROVE  \E V : ToSet(list) \subseteq V /\ Covers(h, V, ToSet(list))
<1> DEFINE From(x) == Closure({x}, Through(h))
           Refs == UNION {Held(h[o]) : o \in ToSet(list)}
           V == ToSet(list) \cup {c \in DOMAIN h : \E x \in Refs : c \in From(x)}
<1>1. ToSet(list) \subseteq DOMAIN h
  BY ToSetIs DEF IsList
<1>2. \A x \in Refs : x \in DOMAIN h /\ x \in From(x) /\ From(x) \subseteq DOMAIN h
  <2>1. \A x \in Refs : x \in DOMAIN h
    BY <1>1, HeapFacts
  <2> QED
    BY <2>1, ThroughIs
<1>3. \A x \in Refs : \A c \in From(x) : Container(h[c]) => c \in ToSet(list)
  BY <1>2 DEF SelfContained
<1>4. ASSUME NEW x \in Refs, NEW c \in From(x), ~Container(h[c])
      PROVE  Held(h[c]) \subseteq From(x)
  <2>1. x \in DOMAIN h /\ c \in DOMAIN h
    BY <1>2
  <2> QED
    BY <1>4, <2>1, ThroughIs
<1> HIDE DEF From
<1>5. \A o \in ToSet(list) : Held(h[o]) \subseteq V
  BY <1>2
<1>6. ASSUME NEW o \in V, o \notin ToSet(list)
      PROVE  ~Container(h[o]) /\ Held(h[o]) \subseteq V
  <2>1. PICK x \in Refs : o \in From(x)
    BY <1>6
  <2>2. ~Container(h[o])
    BY <1>3, <1>6, <2>1
  <2>3. Held(h[o]) \subseteq From(x)
    BY <1>4, <2>1, <2>2
  <2> QED
    BY <1>2, <2>2, <2>3
<1>7. ToSet(list) \subseteq V /\ V \subseteq DOMAIN h
  BY <1>1
<1> HIDE DEF V
<1> QED
  BY <1>5, <1>6, <1>7 DEF Covers

\* And back: a list that covers what it leads to is closed.
LEMMA ContainedFrom ==
  ASSUME NEW h, IsHeap(h), NEW list, NEW V, ToSet(list) \subseteq V, Covers(h, V, ToSet(list))
  PROVE  SelfContained(h, list)
<1>1. ASSUME NEW o \in ToSet(list), NEW x \in DOMAIN h, x \in Held(h[o])
      PROVE  Closure({x}, Through(h)) \subseteq V
  <2>1. x \in V /\ V \in SUBSET DOMAIN h
    BY <1>1 DEF Covers
  <2>2. \A m \in V : Through(h)[m] \subseteq V
    BY ThroughIs DEF Covers
  <2> QED
    BY <2>1, <2>2, ThroughIs
<1> QED
  BY <1>1 DEF SelfContained, Covers

(* What processDict finds in a dictionary, given what it finds in others.   *)
DictsInOne(h, found, o) ==
  IF h[o].k # "dict" THEN << >>
  ELSE FlattenSeq([i \in DOMAIN h[o].ent |->
         LET v == h[o].ent[i].val IN IF h[v].k = "dict" THEN <<v>> \o found[v] ELSE << >>])

LEMMA EntriesHeld ==
  ASSUME NEW h, IsHeap(h), NEW o \in DOMAIN h, h[o].k = "dict"
  PROVE  /\ Len(h[o].ent) \in Nat /\ DOMAIN h[o].ent = 1 .. Len(h[o].ent)
         /\ \A i \in 1 .. Len(h[o].ent) : h[o].ent[i].val \in DOMAIN h /\ h[o].ent[i].val \in Held(h[o])
<1> DEFINE n == h[o]
           P == DOMAIN h
<1>1. n.ent \in Seq(Entries(P))
  BY HeapFacts DEF IsNode
<1>2. Len(n.ent) \in Nat /\ DOMAIN n.ent = 1 .. Len(n.ent)
  BY <1>1
<1>3. Vals(n) = [i \in 1 .. Len(n.ent) |-> n.ent[i].val]
  BY <1>2 DEF Vals
<1>4. Vals(n) \in Seq(P) /\ Len(Vals(n)) = Len(n.ent)
  BY <1>2, <1>3, HeapFacts
<1>5. \A i \in 1 .. Len(n.ent) : Vals(n)[i] \in ToSet(Vals(n)) /\ Vals(n)[i] \in P
  <2> HIDE DEF n, P
  <2> QED
    BY <1>2, <1>4, ToSetIs
<1> QED
  BY <1>2, <1>3, <1>5 DEF Held

\* One step of the recursion of DictsIn; what it gives are dictionaries in dictionaries.
LEMMA DictsInOneIs ==
  ASSUME NEW h, IsHeap(h), NEW o \in DOMAIN h, NEW C, NEW found,
         h[o].k = "dict" =>
           \A v \in Held(h[o]) : h[v].k = "dict" =>
             v \in C /\ found[v] \in Seq(DOMAIN h) /\ ToSet(found[v]) \subseteq C
  PROVE  DictsInOne(h, found, o) \in Seq(DOMAIN h) /\ ToSet(DictsInOne(h, found, o)) \subseteq C
<1>0. << >> \in Seq(DOMAIN h) /\ ToSet(<< >>) \subseteq C
  BY DEF ToSet
<1>1. CASE h[o].k # "dict"
  BY <1>0, <1>1 DEF DictsInOne
<1>2. CASE h[o].k = "dict"
  <2> DEFINE l == Len(h[o].ent)
             val(i) == h[o].ent[i].val
             part(i) == IF h[val(i)].k = "dict" THEN <<val(i)>> \o found[val(i)] ELSE << >>
             ss == [i \in 1 .. l |-> part(i)]
  <2>1. l \in Nat /\ DOMAIN h[o].ent = 1 .. l /\ \A i \in 1 .. l : val(i) \in DOMAIN h /\ val(i) \in Held(h[o])
    BY <1>2, EntriesHeld
  <2>2. DictsInOne(h, found, o) = FlattenSeq(ss)
    BY <1>2, <2>1 DEF DictsInOne
  <2> HIDE DEF l, val
  <2>3. ASSUME NEW i \in 1 .. l
        PROVE  part(i) \in Seq(DOMAIN h) /\ ToSet(part(i)) \subseteq C
    <3>1. CASE h[val(i)].k = "dict"
      <4> DEFINE v == val(i)
                 t == found[v]
      <4>1. v \in DOMAIN h /\ v \in C /\ t \in Seq(DOMAIN h) /\ ToSet(t) \subseteq C
        BY <1>2, <2>1, <3>1
      <4>2. <<v>> \in Seq(DOMAIN h) /\ ToSet(<<v>>) \subseteq C
        <5> HIDE DEF v
        <5> QED
          BY <4>1 DEF ToSet
      <4> HIDE DEF v, t
      <4>3. <<v>> \o t \in Seq(DOMAIN h) /\ ToSet(<<v>> \o t) = ToSet(<<v>>) \cup ToSet(t)
        BY <4>1, <4>2, ToSetConcat
      <4>4. ToSet(<<v>> \o t) \subseteq C
        BY <4>1, <4>2, <4>3
      <4> QED
        BY <3>1, <4>3, <4>4 DEF v, t
    <3>2. CASE h[val(i)].k # "dict"
      BY <1>0, <3>2
    <3> QED
      BY <3>1, <3>2
  <2> HIDE DEF part
  <2>4. ss \in Seq(Seq(DOMAIN h)) /\ Len(ss) = l /\ \A i \in 1 .. l : ToSet(ss[i]) \subseteq C
    <3>1. DOMAIN ss = 1 .. l /\ ss = [i \in 1 .. l |-> ss[i]] /\ \A i \in 1 .. l : ss[i] \in Seq(DOMAIN h)
      BY <2>3
    <3>2. \A i \in 1 .. l : ToSet(ss[i]) \subseteq C
      BY <2>3
    <3> DEFINE S == Seq(DOMAIN h)
    <3>3. \A i \in 1 .. l : ss[i] \in S
      BY <3>1
    <3> HIDE DEF ss, S
    <3>4. ss \in Seq(S) /\ Len(ss) = l
      BY <2>1, <3>1, <3>3, IsSeqOf
    <3> QED
      BY <3>2, <3>4 DEF S
  <2> HIDE DEF ss
  <2>5. FlattenSeq(ss) \in Seq(DOMAIN h) /\ ToSet(FlattenSeq(ss)) \subseteq C
    <3> DEFINE D == DOMAIN h
    <3> HIDE DEF D
    <3>1. ss \in Seq(Seq(D)) /\ \A i \in 1 .. Len(ss) : ToSet(ss[i]) \subseteq C
      BY <2>4 DEF D
    <3>2. FlattenSeq(ss) \in Seq(D) /\ ToSet(FlattenSeq(ss)) \subseteq C
      BY <3>1, FlattenIs
    <3> QED
      BY <3>2 DEF D
  <2> QED
    BY <2>2, <2>5
<1> QED
  BY <1>1, <1>2

\* It depends on smaller dictionaries only.
LEMMA DictsInOneSame ==
  ASSUME NEW h, IsHeap(h), NEW o \in DOMAIN h, NEW f, NEW g,
         h[o].k = "dict" => \A v \in Held(h[o]) : h[v].k = "dict" => f[v] = g[v]
  PROVE  DictsInOne(h, f, o) = DictsInOne(h, g, o)
<1>1. CASE h[o].k # "dict"
  BY <1>1 DEF DictsInOne
<1>2. CASE h[o].k = "dict"
  <2> DEFINE part(u, i) == LET v == h[o].ent[i].val IN IF h[v].k = "dict" THEN <<v>> \o u[v] ELSE << >>
  <2>1. \A i \in DOMAIN h[o].ent : part(f, i) = part(g, i)
    BY <1>2, EntriesHeld
  <2>2. [i \in DOMAIN h[o].ent |-> part(f, i)] = [i \in DOMAIN h[o].ent |-> part(g, i)]
    <3> HIDE DEF part
    <3> QED
      BY <2>1
  <2>3. \A u : DictsInOne(h, u, o) = FlattenSeq([i \in DOMAIN h[o].ent |-> part(u, i)])
    BY <1>2 DEF DictsInOne
  <2> HIDE DEF part
  <2> QED
    BY <2>2, <2>3
<1> QED
  BY <1>1, <1>2

(* As dictionaries that hold dictionaries come to an end, so does           *)
(* processDict.                                                             *)
LEMMA DictsInRec ==
  ASSUME NEW h, HeapInv(h)
  PROVE  \A o \in DOMAIN h : DictsIn(h)[o] = DictsInOne(h, DictsIn(h), o)
<1> DEFINE D == DOMAIN h
           Step(f) == [o \in D |-> DictsInOne(h, f, o)]
           Fs == [D -> Seq(D)]
<1>1. PICK L \in Nat : \E lev \in [D -> 0 .. L] : Falls(h, lev)
  BY DEF HeapInv
<1>2. PICK lev \in [D -> 0 .. L] : Falls(h, lev)
  BY <1>1
<1>3. ASSUME NEW f \in Fs
      PROVE  Step(f) \in Fs
  <2>1. ASSUME NEW o \in D
        PROVE  DictsInOne(h, f, o) \in Seq(D)
    <3>1. \A v \in D : f[v] \in Seq(D) /\ ToSet(f[v]) \subseteq D
      <4> HIDE DEF D
      <4> QED
        BY ToSetIs
    <3>2. Held(h[o]) \subseteq D
      BY HeapFacts DEF HeapInv
    <3>3. \A v \in Held(h[o]) : v \in D /\ f[v] \in Seq(D) /\ ToSet(f[v]) \subseteq D
      BY <3>1, <3>2
    <3> QED
      BY <3>3, DictsInOneIs DEF HeapInv
  <2> HIDE DEF D
  <2> QED
    BY <2>1
<1>4. \E f : f = Step(f)
  <2> DEFINE n == L + 2
             v == [o \in D |-> << >>]
             step == [p \in (1 .. n) \X Fs |-> Step(p[2])]
  <2>1. v \in Fs /\ n \in Nat
    BY <1>1
  <2>2. step \in [(1 .. n) \X Fs -> Fs]
    <3> HIDE DEF Step, Fs, n
    <3> QED
      BY <1>3
  <2>3. PICK g \in [0 .. n -> Fs] : Iterated(g, n, v, step)
    <3> HIDE DEF step, n, v, Fs
    <3> QED
      BY <2>1, <2>2, Iterates
  <2>4. \A i \in 1 .. n : g[i] = Step(g[i - 1])
    <3>1. \A i \in 1 .. n : <<i, g[i - 1]>> \in (1 .. n) \X Fs
      <4>1. \A i \in 1 .. n : i - 1 \in 0 .. n
        BY <2>1
      <4> HIDE DEF n, Fs
      <4> QED
        BY <2>3, <4>1
    <3>2. \A i \in 1 .. n : g[i] = step[<<i, g[i - 1]>>]
      BY <2>3 DEF Iterated
    <3> HIDE DEF Step, n, Fs
    <3> QED
      BY <3>1, <3>2
  <2> HIDE DEF v, step
  <2> DEFINE Still(m) == \A o \in D : lev[o] < m => g[m + 1][o] = g[m][o]
             G == {m \in 0 .. L + 1 : Still(m)}
  <2>5. 0 \in G
    <3>1. \A o \in D : lev[o] \in 0 .. L
      BY <1>2
    <3> QED
      BY <1>1, <3>1
  <2>6. ASSUME NEW m \in 1 .. L + 1, m - 1 \in G
        PROVE  m \in G
    <3>1. m \in 1 .. n /\ m + 1 \in 1 .. n /\ (m + 1) - 1 = m /\ (m - 1) + 1 = m
      BY <1>1
    <3>2. g[m + 1] = Step(g[m]) /\ g[m] = Step(g[m - 1])
      BY <2>4, <3>1
    <3>3. ASSUME NEW o \in D, lev[o] < m
          PROVE  DictsInOne(h, g[m], o) = DictsInOne(h, g[m - 1], o)
      <4>1. ASSUME NEW x \in Held(h[o]), h[o].k = "dict", h[x].k = "dict"
            PROVE  g[m][x] = g[m - 1][x]
        <5>1. x \in D /\ lev[x] < lev[o]
          BY <1>2, <4>1, HeapFacts DEF HeapInv, Falls
        <5>2. lev[x] \in 0 .. L /\ lev[o] \in 0 .. L
          BY <1>2, <5>1
        <5>3. lev[x] < m - 1
          BY <3>3, <5>1, <5>2
        <5> QED
          BY <2>6, <3>1, <5>1, <5>3
      <4> QED
        BY <4>1, DictsInOneSame DEF HeapInv
    <3>4. Still(m)
      BY <3>2, <3>3
    <3>5. m \in 0 .. L + 1
      BY <1>1
    <3> QED
      BY <3>4, <3>5
  <2> HIDE DEF G
  <2>7. L + 1 \in G
    <3>1. L + 1 \in Nat /\ L + 1 \in 0 .. L + 1
      BY <1>1
    <3> QED
      BY <2>5, <2>6, <3>1, UpTo
  <2>8. \A o \in D : g[L + 2][o] = g[L + 1][o]
    <3>1. \A o \in D : lev[o] < L + 1
      BY <1>1, <1>2
    <3>2. (L + 1) + 1 = L + 2
      BY <1>1
    <3> QED
      BY <2>7, <3>1, <3>2 DEF G
  <2>9. g[L + 1] \in Fs /\ g[L + 2] \in Fs
    <3>1. L + 1 \in 0 .. n /\ L + 2 \in 0 .. n
      BY <1>1
    <3> HIDE DEF n, Fs
    <3> QED
      BY <2>3, <3>1
  <2>10. g[L + 2] = g[L + 1]
    <3> HIDE DEF D
    <3> QED
      BY <2>8, <2>9
  <2>11. g[L + 2] = Step(g[L + 1])
    <3>1. L + 2 \in 1 .. n /\ (L + 2) - 1 = L + 1
      BY <1>1
    <3> HIDE DEF Step
    <3> QED
      BY <2>4, <3>1
  <2> HIDE DEF Step
  <2> QED
    BY <2>10, <2>11
<1> DEFINE found == CHOOSE f : f = Step(f)
<1>5. found = Step(found)
  <2> HIDE DEF Step
  <2> QED
    BY <1>4
<1>6. DictsIn(h) = found
  BY DEF DictsIn, DictsInOne
<1> HIDE DEF found
<1> QED
  BY <1>5, <1>6

(* It finds dictionaries that are held by dictionaries, and nothing that is *)
(* not reached.                                                             *)
InDict(h, v) == h[v].k = "dict" /\ \E p \in DOMAIN h : h[p].k = "dict" /\ v \in Held(h[p])

\* So what DictsIn finds are dictionaries that a dictionary holds.
LEMMA DictsInIs ==
  ASSUME NEW h, HeapInv(h), NEW V, NEW ends, Covers(h, V, ends)
  PROVE  \A o \in V : /\ DictsIn(h)[o] \in Seq(DOMAIN h)
                      /\ ToSet(DictsIn(h)[o]) \subseteq {v \in V : InDict(h, v)}
<1> DEFINE D == DOMAIN h
           C == {v \in V : InDict(h, v)}
           found == DictsIn(h)
           Good(o) == found[o] \in Seq(DOMAIN h) /\ ToSet(found[o]) \subseteq C
<1>1. PICK L \in Nat : \E lev \in [D -> 0 .. L] : Falls(h, lev)
  BY DEF HeapInv
<1>2. PICK lev \in [D -> 0 .. L] : Falls(h, lev)
  BY <1>1
<1>3. V \subseteq D /\ \A o \in V : Held(h[o]) \subseteq V
  BY DEF Covers
<1> DEFINE G == {m \in 0 .. L + 1 : \A o \in V : lev[o] < m => Good(o)}
<1>4. 0 \in G
  <2>1. \A o \in V : lev[o] \in 0 .. L
    BY <1>2, <1>3
  <2> QED
    BY <1>1, <2>1
<1>5. ASSUME NEW m \in 1 .. L + 1, m - 1 \in G
      PROVE  m \in G
  <2>1. ASSUME NEW o \in V, lev[o] < m
        PROVE  Good(o)
    <3>1. ASSUME NEW v \in Held(h[o]), h[o].k = "dict", h[v].k = "dict"
          PROVE  v \in C /\ found[v] \in Seq(DOMAIN h) /\ ToSet(found[v]) \subseteq C
      <4>1. v \in V /\ o \in D /\ v \in D
        BY <1>3
      <4>2. v \in C
        BY <3>1, <4>1 DEF InDict
      <4>3. lev[v] < m - 1
        <5>1. lev[v] < lev[o]
          BY <1>2, <3>1, <4>1 DEF Falls
        <5>2. lev[v] \in 0 .. L /\ lev[o] \in 0 .. L
          BY <1>2, <4>1
        <5> QED
          BY <2>1, <5>1, <5>2
      <4>4. Good(v)
        BY <1>5, <4>1, <4>3
      <4> QED
        BY <4>2, <4>4
    <3> HIDE DEF C, found
    <3>2. o \in DOMAIN h /\ IsHeap(h)
      BY <1>3 DEF HeapInv
    <3>3. DictsInOne(h, found, o) \in Seq(DOMAIN h) /\ ToSet(DictsInOne(h, found, o)) \subseteq C
      BY <3>1, <3>2, DictsInOneIs
    <3>4. found[o] = DictsInOne(h, found, o)
      BY <3>2, DictsInRec DEF found
    <3> QED
      BY <3>3, <3>4
  <2>2. m \in 0 .. L + 1
    BY <1>1
  <2> HIDE DEF Good
  <2> QED
    BY <2>1, <2>2
<1> HIDE DEF G
<1>6. L + 1 \in G
  <2>1. L + 1 \in Nat /\ L + 1 \in 0 .. L + 1
    BY <1>1
  <2> QED
    BY <1>4, <1>5, <2>1, UpTo
<1>7. \A o \in V : lev[o] < L + 1
  BY <1>1, <1>2, <1>3
<1> QED
  BY <1>6, <1>7 DEF G

(* So does what is combined of the list's objects.                          *)
LEMMA DirectDictsAre ==
  ASSUME NEW h, HeapInv(h), NEW list, IsList(h, list), NEW V, ToSet(list) \subseteq V, Covers(h, V, ToSet(list))
  PROVE  /\ DirectDicts(h, list) \in Seq(DOMAIN h)
         /\ ToSet(DirectDicts(h, list)) \subseteq {v \in V : InDict(h, v)}
<1> DEFINE D == DOMAIN h
           C == {v \in V : InDict(h, v)}
           part(i) == IF h[list[i]].k = "ind" THEN DictsIn(h)[h[list[i]].val] ELSE << >>
           ss == [i \in 1 .. Len(list) |-> part(i)]
<1>1. list \in Seq(D) /\ Len(list) \in Nat /\ DOMAIN list = 1 .. Len(list)
  BY DEF IsList
<1>2. ASSUME NEW i \in 1 .. Len(list)
      PROVE  part(i) \in Seq(D) /\ ToSet(part(i)) \subseteq C
  <2>1. CASE h[list[i]].k = "ind"
    <3>1. list[i] \in V
      <4> HIDE DEF D
      <4> QED
        BY <1>1, ToSetIs
    <3>2. h[list[i]].val \in Held(h[list[i]])
      BY <2>1, HeldOfOne
    <3>3. h[list[i]].val \in V
      BY <3>1, <3>2 DEF Covers
    <3> QED
      BY <2>1, <3>3, DictsInIs
  <2>2. CASE h[list[i]].k # "ind"
    BY <2>2 DEF ToSet
  <2> QED
    BY <2>1, <2>2
<1>3. DirectDicts(h, list) = FlattenSeq(ss)
  BY <1>1 DEF DirectDicts
<1> HIDE DEF part, D, C
<1>4. ss \in Seq(Seq(D)) /\ Len(ss) = Len(list) /\ \A i \in 1 .. Len(list) : ToSet(ss[i]) \subseteq C
  <2> DEFINE S == Seq(D)
  <2>1. DOMAIN ss = 1 .. Len(list) /\ ss = [i \in 1 .. Len(list) |-> ss[i]]
        /\ \A i \in 1 .. Len(list) : ss[i] \in S /\ ToSet(ss[i]) \subseteq C
    BY <1>2
  <2> HIDE DEF ss, S
  <2>2. ss \in Seq(S) /\ Len(ss) = Len(list)
    BY <1>1, <2>1, IsSeqOf
  <2> QED
    BY <2>1, <2>2 DEF S
<1> HIDE DEF ss
<1>5. FlattenSeq(ss) \in Seq(D) /\ ToSet(FlattenSeq(ss)) \subseteq C
  BY <1>4, FlattenIs
<1> QED
  BY <1>3, <1>5 DEF D, C

-----------------------------------------------------------------------------
(* The invariant.  Before an optimizer, what the list leads to is covered.  *)
(* While values are replaced: what is to be replaced is not in the list and *)
(* what replaces it is; what has been gone through (Done) refers to objects *)
(* that have been, or to the list's; and of the objects with a number that  *)
(* can still be reached, all that are not in the list are to be replaced.   *)
Gone(T) == {o \in DOMAIN T : T[o] # o}
Done(T) == {o \in DOMAIN T : T[o] = o}
Source(h, list, of) == IF of = 0 THEN list ELSE Vals(h[of])
Frames(h) == [of : 0 .. Len(h), vals : Seq(DOMAIN h), i : Nat]

FrameOK(h, list, T, f) ==
  /\ f.of # 0 => f.of \in Done(T) /\ h[f.of].k # "atom"
  /\ Len(f.vals) = Len(Source(h, list, f.of)) /\ f.i \in 1 .. Len(f.vals) + 1
  /\ \A m \in 1 .. Len(f.vals) :
       \/ f.vals[m] = Source(h, list, f.of)[m]
       \/ Source(h, list, f.of)[m] \in Gone(T) /\ f.vals[m] \in ToSet(list)
  /\ \A m \in 1 .. Len(f.vals) : m < f.i =>
       f.vals[m] \in Done(T) \cup ToSet(list) /\ (f.of = 0 => list[m] \in Done(T))
StackOK(h, list, T, stack) ==
  /\ stack \in Seq(Frames(h)) /\ Len(stack) > 0
  /\ \A j \in 1 .. Len(stack) : FrameOK(h, list, T, stack[j]) /\ (stack[j].of = 0 <=> j = 1)
  /\ \A j, k \in 1 .. Len(stack) : stack[j].of = stack[k].of => j = k
TableOK(h, list, T) ==
  /\ Gone(T) \cap ToSet(list) = {} /\ \A o \in Gone(T) : T[o] \in ToSet(list)
  /\ \A o \in DOMAIN h : h[o].k = "stream" => h[o].dict \notin Gone(T)
Finished(h, list, T, stack) ==
  \A o \in Done(T) :
    (\A j \in 1 .. Len(stack) : stack[j].of # o) => Held(h[o]) \subseteq Done(T) \cup ToSet(list)

Covered(h, list, T) ==
  \E V : ToSet(list) \cup Done(T) \subseteq V /\ Covers(h, V, ToSet(list) \cup Gone(T))
NextInv(h, list) ==
  HeapInv(h) /\ IsList(h, list) /\ \E V : ToSet(list) \subseteq V /\ Covers(h, V, ToSet(list))
ReplaceInv(h, list, T, stack) ==
  HeapInv(h) /\ IsList(h, list) /\ TableOK(h, list, T) /\ StackOK(h, list, T, stack)
  /\ Finished(h, list, T, stack) /\ Covered(h, list, T)

OptShape ==
  optim = [at |-> optim.at, chain |-> optim.chain, heap |-> optim.heap, list |-> optim.list,
           table |-> optim.table, stack |-> optim.stack, was |-> optim.was]
OptIInv ==
  /\ OptShape /\ optim.at \in {"idle", "next", "replacing"}
  /\ optim.at = "next" => NextInv(optim.heap, optim.list)
  /\ optim.at = "replacing" => ReplaceInv(optim.heap, optim.list, optim.table, optim.stack)

\* The invariant says what is to be shown.
LEMMA OptDoneClosed == OptIInv => ListClosed
<1> SUFFICES ASSUME OptIInv, OptDone
             PROVE  SelfContained(optim.heap, optim.list) /\ Once(optim.list)
  BY DEF ListClosed
<1>1. NextInv(optim.heap, optim.list)
  BY DEF OptIInv, OptDone
<1> QED
  BY <1>1, ContainedFrom DEF NextInv, HeapInv, IsList

\* Nothing has been optimized.
LEMMA OptInitInv == OptInit => OptIInv
BY DEF OptInit, OptNone, OptIInv, OptShape

\* Documents are what the parser and the models give.
LEMMA OptimizeStep ==
  ASSUME OptIInv, NEW doc \in OptDocs, NEW options, Optimize(doc, options)
  PROVE  OptIInv'
<1>1. HeapInv(doc.heap) /\ IsList(doc.heap, doc.list) /\ SelfContained(doc.heap, doc.list)
  BY OptDocsAssumption, HeapInvFrom
<1>2. NextInv(doc.heap, doc.list)
  BY <1>1, CoverFrom DEF NextInv, HeapInv
<1>3. optim' = [at |-> "next", chain |-> Chain(options), heap |-> doc.heap, list |-> doc.list,
                table |-> optim.table, stack |-> optim.stack, was |-> <<doc, options>>]
  BY DEF Optimize, OptIInv, OptShape
<1> QED
  BY <1>2, <1>3 DEF OptIInv, OptShape

(* An optimizer has to see to this only: the list is still one of objects   *)
(* of the heap, what is to be replaced is not in it, and what replaces it   *)
(* is.                                                                      *)
LEMMA Started ==
  ASSUME OptShape, NEW h, NEW list, NEW T, HeapInv(h), IsList(h, list),
         NEW V, ToSet(list) \subseteq V, Covers(h, V, ToSet(list) \cup DOMAIN T),
         \A o \in DOMAIN T : T[o] # o /\ T[o] \in ToSet(list) /\ o \notin ToSet(list),
         \A o \in DOMAIN h : h[o].k = "stream" => h[o].dict \notin DOMAIN T,
         StartReplacing(h, list, T)
  PROVE  OptIInv'
<1>1. Gone(T) = DOMAIN T /\ Done(T) = {}
  BY DEF Gone, Done
<1>2. CASE T = << >>
  <2>1. optim' = [at |-> "next", chain |-> Tail(optim.chain), heap |-> h, list |-> list,
                  table |-> T, stack |-> << >>, was |-> optim.was]
    BY <1>2 DEF StartReplacing, OptShape
  <2>2. DOMAIN T = {}
    BY <1>2
  <2>3. NextInv(h, list)
    BY <2>2 DEF NextInv
  <2> QED
    BY <2>1, <2>3 DEF OptIInv, OptShape
<1>3. CASE T # << >>
  <2> DEFINE f == Frame(0, list)
             stack == <<f>>
  <2>1. optim' = [at |-> "replacing", chain |-> Tail(optim.chain), heap |-> h, list |-> list,
                  table |-> T, stack |-> stack, was |-> optim.was]
    BY <1>3 DEF StartReplacing, OptShape
  <2>2. f.of = 0 /\ f.vals = list /\ f.i = 1 /\ f \in Frames(h) /\ Len(list) \in Nat
    BY DEF Frame, Frames, IsList, HeapInv, IsHeap
  <2> HIDE DEF f
  <2>3. FrameOK(h, list, T, f)
    BY <2>2 DEF FrameOK, Source
  <2>4. StackOK(h, list, T, stack)
    <3>1. stack \in Seq(Frames(h)) /\ Len(stack) = 1 /\ stack[1] = f
      BY <2>2
    <3> HIDE DEF stack
    <3>2. \A j \in 1 .. Len(stack) : j = 1
      BY <3>1
    <3> QED
      BY <2>2, <2>3, <3>1, <3>2 DEF StackOK
  <2>5. TableOK(h, list, T)
    BY <1>1 DEF TableOK
  <2>6. Finished(h, list, T, stack)
    BY <1>1 DEF Finished
  <2>7. Covered(h, list, T)
    BY <1>1 DEF Covered
  <2>8. ReplaceInv(h, list, T, stack)
    BY <2>4, <2>5, <2>6, <2>7 DEF ReplaceInv
  <2> QED
    BY <2>1, <2>8 DEF OptIInv, OptShape
<1> QED
  BY <1>2, <1>3

(* Of objects of the list, all but the first of a group are deleted.        *)
LEMMA DeletedAll ==
  ASSUME NEW h, HeapInv(h), NEW list, IsList(h, list), NEW V, ToSet(list) \subseteq V, Covers(h, V, ToSet(list)),
         NEW S, NEW key, NEW seq, NEW groups, NEW list2, NEW T,
         seq = Chosen(list, S), groups = Groups(seq, key),
         list2 = Without(list, Deleted(groups)), T = ToFirst(groups)
  PROVE  /\ IsList(h, list2) /\ ToSet(list2) \subseteq V /\ Covers(h, V, ToSet(list2) \cup DOMAIN T)
         /\ \A o \in DOMAIN T : T[o] # o /\ T[o] \in ToSet(list2) /\ o \notin ToSet(list2)
         /\ \A o \in DOMAIN h : h[o].k = "stream" => h[o].dict \notin DOMAIN T
<1> DEFINE D == DOMAIN h
           gone == Deleted(groups)
<1>1. list \in Seq(D) /\ Once(list) /\ \A o \in ToSet(list) : Container(h[o])
  BY DEF IsList
<1>2. \A i, j \in 1 .. Len(list) : list[i] = list[j] => i = j
  BY <1>1 DEF Once
<1>3. seq \in Seq(D) /\ Once(seq) /\ ToSet(seq) \subseteq ToSet(list)
  <2>1. seq \in Seq(D) /\ ToSet(seq) = ToSet(list) \cap S /\ \A i, j \in 1 .. Len(seq) : seq[i] = seq[j] => i = j
    BY <1>1, <1>2, ChosenIs
  <2> QED
    BY <2>1 DEF Once
<1>4. /\ \A g \in groups : g \in Seq(D) /\ Len(g) > 1 /\ ToSet(g) \subseteq ToSet(list) /\ Once(g)
      /\ \A g1, g2 \in groups : ToSet(g1) \cap ToSet(g2) # {} => g1 = g2
  BY <1>3, GroupsAre
<1>5. DOMAIN T = gone
  BY DEF ToFirst, Deleted
<1>6. list2 \in Seq(D) /\ ToSet(list2) = ToSet(list) \ gone /\ Once(list2)
  <2> DEFINE R == ToSet(list) \ gone
  <2>1. list2 = Chosen(list, R)
    BY DEF Without
  <2>2. ToSet(list) \cap R = R
    OBVIOUS
  <2> HIDE DEF R, D
  <2>3. list2 \in Seq(D) /\ ToSet(list2) = R /\ \A i, j \in 1 .. Len(list2) : list2[i] = list2[j] => i = j
    <3>1. list \in Seq(D)
      BY <1>1
    <3>2. /\ Chosen(list, R) \in Seq(D) /\ ToSet(Chosen(list, R)) = ToSet(list) \cap R
          /\ (\A i, j \in 1 .. Len(list) : list[i] = list[j] => i = j) =>
               \A i, j \in 1 .. Len(Chosen(list, R)) : Chosen(list, R)[i] = Chosen(list, R)[j] => i = j
      BY <3>1, ChosenIs
    <3> QED
      BY <1>2, <2>1, <2>2, <3>2
  <2> QED
    BY <2>3 DEF Once, R
<1>7. ASSUME NEW g \in groups
      PROVE  /\ g[1] \in ToSet(g) /\ g[1] \notin ToSet(Tail(g))
             /\ ToSet(Tail(g)) \subseteq ToSet(g) /\ ToSet(g) \subseteq ToSet(list)
  <2>1. g \in Seq(D) /\ Len(g) > 1 /\ ToSet(g) \subseteq ToSet(list) /\ Once(g)
    BY <1>4
  <2>2. Tail(g) \in Seq(D) /\ Len(Tail(g)) = Len(g) - 1
    BY <2>1
  <2>3. \A i \in 1 .. Len(g) - 1 : Tail(g)[i] = g[i + 1] /\ i + 1 \in 1 .. Len(g) /\ i + 1 # 1
    BY <2>1
  <2>4. 1 \in 1 .. Len(g) /\ \A i, j \in 1 .. Len(g) : g[i] = g[j] => i = j
    BY <2>1 DEF Once
  <2>5. \A i \in 1 .. Len(g) : g[i] \in ToSet(g)
    BY <2>1, ToSetIs
  <2> DEFINE t == Tail(g)
  <2>6. \A i \in 1 .. Len(t) : t[i] \in ToSet(g) /\ t[i] # g[1]
    BY <2>2, <2>3, <2>4, <2>5
  <2>7. t \in Seq(D)
    BY <2>2
  <2> HIDE DEF t
  <2>8. ToSet(t) \subseteq ToSet(g) \ {g[1]}
    BY <2>6, <2>7, ToSetIn
  <2> QED
    BY <2>1, <2>4, <2>5, <2>8 DEF t
<1>8. \A o \in gone : \E g \in groups : o \in ToSet(Tail(g))
  BY DEF Deleted
<1>9. ASSUME NEW g \in groups
      PROVE  g[1] \notin gone
  <2>1. SUFFICES ASSUME g[1] \in gone
                 PROVE  FALSE
    OBVIOUS
  <2>2. PICK g2 \in groups : g[1] \in ToSet(Tail(g2))
    BY <1>8, <2>1
  <2>3. g[1] \in ToSet(g) /\ g[1] \in ToSet(g2)
    BY <1>7, <2>2
  <2>4. g2 = g
    BY <1>4, <2>3
  <2> QED
    BY <1>7, <2>2, <2>4
<1>10. ASSUME NEW o \in gone
       PROVE  T[o] # o /\ T[o] \in ToSet(list2) /\ o \notin ToSet(list2)
  <2>1. PICK g \in groups : o \in ToSet(Tail(g))
    BY <1>8
  <2>2. o \in ToSet(g)
    BY <1>7, <2>1
  <2> DEFINE c == CHOOSE g2 \in groups : o \in ToSet(g2)
  <2>3. c \in groups /\ o \in ToSet(c)
    BY <2>2
  <2>4. T[o] = c[1]
    BY <1>5, <1>10 DEF ToFirst, Deleted
  <2> HIDE DEF c
  <2>5. c = g
    BY <1>4, <2>2, <2>3
  <2>6. T[o] = g[1] /\ g[1] \in ToSet(list) /\ g[1] \notin gone
    BY <1>7, <1>9, <2>4, <2>5
  <2> QED
    BY <1>6, <1>7, <2>1, <2>6
<1>11. gone \subseteq ToSet(list)
  BY <1>7, <1>8
<1>12. Covers(h, V, ToSet(list2) \cup DOMAIN T)
  BY <1>5, <1>6 DEF Covers
<1>13. \A o \in DOMAIN h : h[o].k = "stream" => h[o].dict \notin gone
  BY <1>1, <1>11 DEF HeapInv, StreamDictsApart, Container
<1>14. IsList(h, list2)
  BY <1>1, <1>6 DEF IsList
<1> QED
  BY <1>5, <1>6, <1>10, <1>12, <1>13, <1>14

\* CombineDuplicateStreams.
LEMMA CombineStreamsStep ==
  ASSUME OptIInv, CombineDuplicateStreams
  PROVE  OptIInv'
<1> DEFINE h == optim.heap
           list == optim.list
           S == {o \in ToSet(list) : h[o].k = "stream"}
           seq == Chosen(list, S)
           key == [o \in ToSet(seq) |-> h[o].raw]
           groups == Groups(seq, key)
           list2 == Without(list, Deleted(groups))
           T == ToFirst(groups)
<1>1. NextInv(h, list) /\ OptShape
  BY DEF CombineDuplicateStreams, Runs, OptIInv
<1>2. StartReplacing(h, list2, T)
  BY DEF CombineDuplicateStreams, OfKind
<1>3. PICK V : ToSet(list) \subseteq V /\ Covers(h, V, ToSet(list))
  BY <1>1 DEF NextInv
<1>4. HeapInv(h) /\ IsList(h, list)
  BY <1>1 DEF NextInv
<1> HIDE DEF S, key
<1>5. /\ IsList(h, list2) /\ ToSet(list2) \subseteq V /\ Covers(h, V, ToSet(list2) \cup DOMAIN T)
      /\ \A o \in DOMAIN T : T[o] # o /\ T[o] \in ToSet(list2) /\ o \notin ToSet(list2)
      /\ \A o \in DOMAIN h : h[o].k = "stream" => h[o].dict \notin DOMAIN T
  BY <1>3, <1>4, DeletedAll
<1> HIDE DEF h, list2, T
<1> QED
  BY <1>1, <1>2, <1>4, <1>5, Started

\* A sequence of nodes is a heap.
LEMMA IsHeapOf ==
  ASSUME NEW n \in Nat, NEW h, DOMAIN h = 1 .. n, h = [o \in 1 .. n |-> h[o]], \A o \in 1 .. n : IsNode(h[o], 1 .. n)
  PROVE  IsHeap(h) /\ Len(h) = n
<1> DEFINE S == {h[o] : o \in 1 .. n}
<1>1. \A o \in 1 .. n : h[o] \in S
  OBVIOUS
<1> HIDE DEF S
<1>2. Len(h) = n
  BY <1>1, IsSeqOf
<1> QED
  BY <1>2 DEF IsHeap

LEMMA SeqWider ==
  ASSUME NEW P, NEW Q, P \subseteq Q, NEW s \in Seq(P)
  PROVE  s \in Seq(Q)
<1>1. DOMAIN s = 1 .. Len(s) /\ Len(s) \in Nat /\ s = [i \in 1 .. Len(s) |-> s[i]] /\ \A i \in 1 .. Len(s) : s[i] \in Q
  OBVIOUS
<1> QED
  BY <1>1, IsSeqOf

\* A node stays one in a larger heap.
LEMMA NodeWider ==
  ASSUME NEW n, NEW P, NEW Q, P \subseteq Q, IsNode(n, P)
  PROVE  IsNode(n, Q)
<1>1. Entries(P) \subseteq Entries(Q)
  BY DEF Entries
<1>2. n.k = "dict" => n.ent \in Seq(Entries(Q))
  BY <1>1, SeqWider DEF IsNode
<1>3. n.k \in {"array", "objstm"} => n.items \in Seq(Q)
  BY SeqWider DEF IsNode
<1> QED
  BY <1>2, <1>3 DEF IsNode

(* A node with another number, or with other data.                          *)
LEMMA NodeBut ==
  ASSUME NEW n, NEW P, IsNode(n, P), NEW m, DOMAIN m = DOMAIN n,
         m.k = n.k, m.val = n.val, m.dict = n.dict, m.items = n.items, m.ent = n.ent
  PROVE  IsNode(m, P) /\ Held(m) = Held(n)
<1>1. IsNode(m, P)
  BY DEF IsNode
<1>2. Vals(m) = Vals(n)
  BY DEF Vals, IsNode
<1> QED
  BY <1>1, <1>2 DEF Held

\* updateObjectNumbers changes numbers only.
LEMMA RenumberedIs ==
  ASSUME NEW h, HeapInv(h), NEW list, NEW h2, h2 = Renumbered(h, list)
  PROVE  /\ HeapInv(h2) /\ DOMAIN h2 = DOMAIN h
         /\ IsList(h, list) => IsList(h2, list)
         /\ \A V, ends : Covers(h, V, ends) => Covers(h2, V, ends)
<1> DEFINE n == Len(h)
<1>1. n \in Nat /\ DOMAIN h = 1 .. n /\ \A o \in 1 .. n : IsNode(h[o], 1 .. n)
  BY HeapFacts DEF HeapInv
<1>2. DOMAIN h2 = DOMAIN h /\ h2 = [o \in 1 .. n |-> h2[o]]
  BY <1>1 DEF Renumbered
<1>3. ASSUME NEW o \in 1 .. n
      PROVE  IsNode(h2[o], 1 .. n) /\ Held(h2[o]) = Held(h[o]) /\ h2[o].k = h[o].k /\ h2[o].dict = h[o].dict
  <2>1. CASE o \notin ToSet(list)
    <3>1. h2[o] = h[o]
      BY <1>1, <2>1 DEF Renumbered
    <3> QED
      BY <1>1, <3>1
  <2>2. CASE o \in ToSet(list)
    <3> DEFINE m == h2[o]
               e == h[o]
               x == SelectInSeq(list, LAMBDA y : y = o)
    <3>1. m = [e EXCEPT !.num = x]
      BY <1>1, <2>2 DEF Renumbered
    <3> HIDE DEF m, e, x
    <3>2. DOMAIN m = DOMAIN e /\ \A f \in DOMAIN e : f # "num" => m[f] = e[f]
      BY <3>1
    <3>3. IsNode(e, 1 .. n)
      BY <1>1 DEF e
    <3>4. IsNode(m, 1 .. n) /\ m.k = e.k
      BY <3>2, <3>3 DEF IsNode
    <3>5. Vals(m) = Vals(e)
      BY <3>2, <3>3 DEF IsNode, Vals
    <3>6. e.k = "stream" => m.dict = e.dict
      BY <3>2, <3>3 DEF IsNode
    <3>7. m.dict = e.dict
      BY <3>1
    <3> QED
      BY <3>4, <3>5, <3>7 DEF m, e, Held
  <2> QED
    BY <2>1, <2>2
<1> HIDE DEF n
<1>4. IsHeap(h2)
  BY <1>1, <1>2, <1>3, IsHeapOf
<1>5. HeapInv(h2)
  <2> DEFINE A == {}
  <2>1. \A a \in A : a \in DOMAIN h2 => h2[a].k # "dict"
    OBVIOUS
  <2>2. \A o \in DOMAIN h : /\ h2[o].k = h[o].k
                            /\ h[o].k = "dict" => Held(h2[o]) \subseteq Held(h[o]) \cup A
                            /\ h[o].k = "stream" => h2[o].dict = h[o].dict
    BY <1>1, <1>3
  <2>3. DOMAIN h \subseteq DOMAIN h2 /\ \A o \in DOMAIN h2 : o \in DOMAIN h
    BY <1>2
  <2> HIDE DEF A
  <2> QED
    BY <1>4, <2>1, <2>2, <2>3, GrownHeap
<1>6. \A o \in DOMAIN h : Container(h2[o]) = Container(h[o])
  BY <1>1, <1>3 DEF Container
<1>7. ASSUME NEW V, NEW ends, Covers(h, V, ends)
      PROVE  Covers(h2, V, ends)
  BY <1>1, <1>2, <1>3, <1>6, <1>7 DEF Covers
<1>8. ASSUME IsList(h, list)
      PROVE  IsList(h2, list)
  <2>1. ToSet(list) \subseteq DOMAIN h
    BY <1>8, ToSetIs DEF IsList
  <2> QED
    BY <1>2, <1>6, <1>8, <2>1 DEF IsList
<1> QED
  BY <1>2, <1>5, <1>7, <1>8

\* CombineIdenticalIndirectObjects.
LEMMA CombineIdenticalStep ==
  ASSUME OptIInv, CombineIdenticalIndirectObjects
  PROVE  OptIInv'
<1> DEFINE list == optim.list
           h == Renumbered(optim.heap, list)
           text == Printed(h)
           S == {o \in ToSet(list) : Comparable(h, o)}
           seq == Chosen(list, S)
           key == [o \in ToSet(seq) |-> text[h[o].val]]
           groups == Groups(seq, key)
           list2 == Without(list, Deleted(groups))
           T == ToFirst(groups)
<1>1. NextInv(optim.heap, list) /\ OptShape
  BY DEF CombineIdenticalIndirectObjects, Runs, OptIInv
<1>2. StartReplacing(h, list2, T)
  BY DEF CombineIdenticalIndirectObjects
<1>3. PICK V : ToSet(list) \subseteq V /\ Covers(optim.heap, V, ToSet(list))
  BY <1>1 DEF NextInv
<1>4. HeapInv(h) /\ IsList(h, list) /\ Covers(h, V, ToSet(list))
  BY <1>1, <1>3, RenumberedIs DEF NextInv
<1>0. seq = Chosen(list, S) /\ groups = Groups(seq, key) /\ list2 = Without(list, Deleted(groups)) /\ T = ToFirst(groups)
  OBVIOUS
<1> HIDE DEF S, seq, key, groups, list2, T, h, list
<1>5. /\ IsList(h, list2) /\ ToSet(list2) \subseteq V /\ Covers(h, V, ToSet(list2) \cup DOMAIN T)
      /\ \A o \in DOMAIN T : T[o] # o /\ T[o] \in ToSet(list2) /\ o \notin ToSet(list2)
      /\ \A o \in DOMAIN h : h[o].k = "stream" => h[o].dict \notin DOMAIN T
  BY <1>0, <1>3, <1>4, DeletedAll
<1> QED
  BY <1>1, <1>2, <1>4, <1>5, Started

\* Nothing twice in two sequences that have nothing in common.
LEMMA OnceConcat ==
  ASSUME NEW S, NEW s \in Seq(S), NEW t \in Seq(S), Once(s), Once(t), ToSet(s) \cap ToSet(t) = {}
  PROVE  Once(s \o t)
<1>1. Len(s \o t) = Len(s) + Len(t) /\ DOMAIN (s \o t) = 1 .. Len(s) + Len(t)
  OBVIOUS
<1>2. \A i \in 1 .. Len(s) : (s \o t)[i] = s[i] /\ s[i] \in ToSet(s)
  BY ToSetIs
<1>3. \A i \in 1 .. Len(s) + Len(t) : i > Len(s) =>
        i - Len(s) \in 1 .. Len(t) /\ (s \o t)[i] = t[i - Len(s)] /\ t[i - Len(s)] \in ToSet(t)
  <2>1. \A i \in 1 .. Len(t) : (s \o t)[Len(s) + i] = t[i] /\ t[i] \in ToSet(t)
    BY ToSetIs
  <2>2. \A i \in 1 .. Len(s) + Len(t) : i > Len(s) => i - Len(s) \in 1 .. Len(t) /\ Len(s) + (i - Len(s)) = i
    OBVIOUS
  <2> QED
    BY <2>1, <2>2
<1>4. /\ \A i, j \in 1 .. Len(s) : s[i] = s[j] => i = j
      /\ \A i, j \in 1 .. Len(t) : t[i] = t[j] => i = j
  BY DEF Once
<1> DEFINE u == s \o t
<1>5. ASSUME NEW i \in 1 .. Len(s) + Len(t), NEW j \in 1 .. Len(s) + Len(t), u[i] = u[j]
      PROVE  i = j
  <2>1. CASE i <= Len(s) /\ j <= Len(s)
    BY <1>2, <1>4, <1>5, <2>1
  <2>2. CASE i > Len(s) /\ j > Len(s)
    BY <1>3, <1>4, <1>5, <2>2
  <2>3. CASE i <= Len(s) /\ j > Len(s)
    BY <1>2, <1>3, <1>5, <2>3
  <2>4. CASE i > Len(s) /\ j <= Len(s)
    BY <1>2, <1>3, <1>5, <2>4
  <2> QED
    BY <2>1, <2>2, <2>3, <2>4
<1> QED
  BY <1>1, <1>5 DEF Once

\* ObjectStreams: a new object in front, none deleted.
LEMMA ObjectStreamsStep ==
  ASSUME OptIInv, ObjectStreams
  PROVE  OptIInv'
<1> DEFINE h == optim.heap
           list == optim.list
           n == Len(h)
           S == {o \in ToSet(list) : h[o].k = "ind"}
           members == Chosen(list, S)
           R == ToSet(list) \ ToSet(members)
           others == Chosen(list, R)
           stm == [k |-> "objstm", items |-> members, num |-> 0]
           T == << >>
<1>1. NextInv(h, list) /\ OptShape
  BY DEF ObjectStreams, Runs, OptIInv
<1>2. HeapInv(h) /\ IsList(h, list)
  BY <1>1 DEF NextInv
<1>3. n \in Nat /\ DOMAIN h = 1 .. n /\ Cardinality(DOMAIN h) = n /\ \A o \in DOMAIN h : IsNode(h[o], 1 .. n)
  BY <1>2, HeapFacts DEF HeapInv
<1>4. PICK V : ToSet(list) \subseteq V /\ Covers(h, V, ToSet(list))
  BY <1>1 DEF NextInv
<1>5. /\ members \in Seq(1 .. n) /\ others \in Seq(1 .. n) /\ Once(members) /\ Once(others)
      /\ ToSet(members) \cap ToSet(others) = {} /\ ToSet(members) \cup ToSet(others) = ToSet(list)
  <2> DEFINE D == 1 .. n
  <2>1. list \in Seq(D) /\ \A i, j \in 1 .. Len(list) : list[i] = list[j] => i = j
    BY <1>2, <1>3 DEF IsList, Once
  <2> HIDE DEF S, R, D
  <2>2. members \in Seq(D) /\ ToSet(members) = ToSet(list) \cap S
        /\ \A i, j \in 1 .. Len(members) : members[i] = members[j] => i = j
    BY <2>1, ChosenIs
  <2>3. others \in Seq(D) /\ ToSet(others) = ToSet(list) \cap R
        /\ \A i, j \in 1 .. Len(others) : others[i] = others[j] => i = j
    BY <2>1, ChosenIs
  <2> HIDE DEF members, others
  <2>4. Once(members) /\ Once(others)
    BY <2>2, <2>3 DEF Once
  <2> QED
    BY <2>2, <2>3, <2>4 DEF R, D
<1>6. StartReplacing(IF Len(members) > 1 THEN Append(h, stm) ELSE h,
                     (IF Len(members) > 1 THEN <<n + 1>> ELSE << >>) \o members \o others, T)
  BY <1>3 DEF ObjectStreams, OfKind, Without
<1> HIDE DEF h, list, members, others
<1> DEFINE both == members \o others
<1>7. both \in Seq(1 .. n) /\ ToSet(both) = ToSet(list) /\ Once(both)
  <2> DEFINE D == 1 .. n
  <2>1. members \in Seq(D) /\ others \in Seq(D)
    BY <1>5
  <2> HIDE DEF D
  <2>2. both \in Seq(D) /\ ToSet(both) = ToSet(members) \cup ToSet(others)
    BY <2>1, ToSetConcat
  <2>3. Once(both)
    BY <1>5, <2>1, OnceConcat
  <2> QED
    BY <1>5, <2>2, <2>3 DEF D
<1>8. ASSUME NEW list2, ToSet(list2) \subseteq DOMAIN h, StartReplacing(h, list2, T),
             list2 = both
      PROVE  OptIInv'
  <2>1. IsList(h, list2)
    BY <1>2, <1>3, <1>7, <1>8 DEF IsList
  <2>2. DOMAIN T = {}
    OBVIOUS
  <2>3. Covers(h, V, ToSet(list2) \cup DOMAIN T) /\ ToSet(list2) \subseteq V
    BY <1>4, <1>7, <1>8, <2>2
  <2> HIDE DEF T, both
  <2> QED
    BY <1>1, <1>2, <1>8, <2>1, <2>2, <2>3, Started
<1>9. CASE ~(Len(members) > 1)
  <2>1. << >> \o members = members
    BY <1>5
  <2>2. StartReplacing(h, both, T)
    BY <1>6, <1>9, <2>1
  <2>3. ToSet(both) \subseteq DOMAIN h
    BY <1>3, <1>7, ToSetIs
  <2> HIDE DEF both, T
  <2> QED
    BY <1>8, <2>2, <2>3
<1>10. CASE Len(members) > 1
  <2> DEFINE h2 == [o \in 1 .. n + 1 |-> IF o = n + 1 THEN stm ELSE h[o]]
             list2 == <<n + 1>> \o both
             V2 == V \cup {n + 1}
  <2>1. StartReplacing(h2, list2, T)
    <3>1. (<<n + 1>> \o members) \o others = list2
      BY <1>5
    <3>2. Append(h, stm) = h2
      <4> DEFINE D == {h[o] : o \in 1 .. n} \cup {stm}
      <4>1. h = [o \in 1 .. n |-> h[o]] /\ stm \in D /\ \A o \in 1 .. n : h[o] \in D
        BY <1>2 DEF HeapInv, IsHeap
      <4> HIDE DEF stm, D
      <4>2. h \in Seq(D) /\ Len(h) = n
        BY <1>3, <4>1, IsSeqOf
      <4>3. Append(h, stm) \in Seq(D) /\ Len(Append(h, stm)) = n + 1
            /\ \A o \in 1 .. n + 1 : Append(h, stm)[o] = IF o = n + 1 THEN stm ELSE h[o]
        <5>1. stm \in D /\ h \in Seq(D) /\ Len(h) = n /\ n \in Nat
          BY <1>3, <4>1, <4>2
        <5> HIDE DEF n
        <5> QED
          BY <5>1
      <4>4. Append(h, stm) = [o \in 1 .. n + 1 |-> Append(h, stm)[o]]
        <5> DEFINE a == Append(h, stm)
        <5>1. a \in Seq(D) /\ Len(a) = n + 1
          BY <4>3
        <5> HIDE DEF a, n
        <5>2. a = [o \in 1 .. n + 1 |-> a[o]]
          BY <5>1
        <5> QED
          BY <5>2 DEF a
      <4> HIDE DEF n
      <4> QED
        BY <4>3, <4>4
    <3> HIDE DEF list2, h2, stm
    <3> QED
      BY <1>6, <1>10, <3>1, <3>2
  <2>2. DOMAIN h2 = 1 .. n + 1 /\ h2[n + 1] = stm /\ \A o \in 1 .. n : h2[o] = h[o]
    BY <1>3
  <2>3. IsNode(stm, 1 .. n + 1) /\ Held(stm) = ToSet(members) /\ stm.k = "objstm"
    <3>1. members \in Seq(1 .. n + 1)
      BY <1>3, <1>5, SeqWider
    <3>2. Vals(stm) = members
      BY DEF Vals
    <3> QED
      BY <3>1, <3>2 DEF IsNode, Held
  <2> HIDE DEF stm
  <2>4. IsHeap(h2)
    <3>1. ASSUME NEW o \in 1 .. n + 1
          PROVE  IsNode(h2[o], 1 .. n + 1)
      <4>1. CASE o = n + 1
        BY <2>2, <2>3, <4>1
      <4>2. CASE o # n + 1
        <5>1. o \in 1 .. n /\ 1 .. n \subseteq 1 .. n + 1
          BY <1>3, <4>2
        <5>2. IsNode(h[o], 1 .. n) /\ h2[o] = h[o]
          BY <1>3, <2>2, <5>1
        <5> QED
          BY <5>1, <5>2, NodeWider
      <4> QED
        BY <4>1, <4>2
    <3>2. h2 = [o \in 1 .. n + 1 |-> h2[o]] /\ n + 1 \in Nat
      BY <1>3
    <3> HIDE DEF h2
    <3> QED
      BY <2>2, <3>1, <3>2, IsHeapOf
  <2> HIDE DEF h2
  <2>5. HeapInv(h2)
    <3> DEFINE A == {}
    <3>1. \A a \in A : a \in DOMAIN h2 => h2[a].k # "dict"
      OBVIOUS
    <3>2. \A o \in DOMAIN h : /\ h2[o].k = h[o].k
                              /\ h[o].k = "dict" => Held(h2[o]) \subseteq Held(h[o]) \cup A
                              /\ h[o].k = "stream" => h2[o].dict = h[o].dict
      BY <1>3, <2>2
    <3>3. \A o \in DOMAIN h2 : o \notin DOMAIN h => h2[o].k # "stream" /\ h2[o].k # "dict"
      BY <1>3, <2>2, <2>3
    <3>4. DOMAIN h \subseteq DOMAIN h2
      BY <1>3, <2>2
    <3> HIDE DEF A
    <3> QED
      BY <1>2, <2>4, <3>1, <3>2, <3>3, <3>4, GrownHeap
  <2>6. list2 \in Seq(1 .. n + 1) /\ ToSet(list2) = {n + 1} \cup ToSet(list) /\ Once(list2)
    <3>1. <<n + 1>> \in Seq(1 .. n + 1) /\ ToSet(<<n + 1>>) = {n + 1} /\ Once(<<n + 1>>)
      BY <1>3 DEF ToSet, Once
    <3>2. both \in Seq(1 .. n + 1)
      <4>1. 1 .. n \subseteq 1 .. n + 1
        BY <1>3
      <4> HIDE DEF both
      <4> QED
        BY <1>7, <4>1, SeqWider
    <3>3. n + 1 \notin ToSet(both)
      <4> HIDE DEF both
      <4>1. ToSet(both) \subseteq 1 .. n
        BY <1>7, ToSetIs
      <4> QED
        BY <1>3, <4>1
    <3> DEFINE D == 1 .. n + 1
               one == <<n + 1>>
    <3>4. one \in Seq(D) /\ ToSet(one) = {n + 1} /\ Once(one) /\ both \in Seq(D)
      BY <3>1, <3>2
    <3> HIDE DEF both, D, one
    <3>5. one \o both \in Seq(D) /\ ToSet(one \o both) = ToSet(one) \cup ToSet(both)
      BY <3>4, ToSetConcat
    <3>6. Once(one \o both)
      BY <1>7, <3>3, <3>4, OnceConcat
    <3> QED
      BY <1>7, <3>4, <3>5, <3>6 DEF D, one
  <2> HIDE DEF list2
  <2>7. ToSet(list) \subseteq 1 .. n /\ V \subseteq 1 .. n
    BY <1>3, <1>4 DEF Covers
  <2>8. IsList(h2, list2)
    <3>1. \A o \in ToSet(list) : Container(h2[o])
      BY <1>2, <2>2, <2>7 DEF IsList, Container
    <3>2. Container(h2[n + 1])
      BY <2>2, <2>3 DEF Container
    <3> QED
      BY <2>2, <2>6, <3>1, <3>2 DEF IsList
  <2>9. Covers(h2, V2, ToSet(list2))
    <3>1. \A o \in V : h2[o] = h[o] /\ Held(h[o]) \subseteq V /\ (Container(h[o]) => o \in ToSet(list))
      BY <1>4, <2>2, <2>7 DEF Covers
    <3>2. Held(h2[n + 1]) \subseteq V
      BY <1>4, <1>5, <2>2, <2>3
    <3>3. ASSUME NEW o \in V2
          PROVE  Held(h2[o]) \subseteq V2 /\ (Container(h2[o]) => o \in ToSet(list2))
      <4>1. CASE o = n + 1
        <5>1. o \in ToSet(list2)
          BY <2>6, <4>1
        <5>2. Held(h2[o]) \subseteq V
          BY <3>2, <4>1
        <5> QED
          BY <5>1, <5>2
      <4>2. CASE o \in V
        BY <2>6, <3>1, <4>2
      <4> QED
        BY <4>1, <4>2
    <3>4. V2 \subseteq DOMAIN h2
      <4>1. 1 .. n \subseteq 1 .. n + 1 /\ n + 1 \in 1 .. n + 1
        BY <1>3
      <4> HIDE DEF n
      <4> QED
        BY <2>2, <2>7, <4>1
    <3> HIDE DEF V2
    <3> QED
      BY <3>3, <3>4 DEF Covers
  <2>10. DOMAIN T = {} /\ ToSet(list2) \subseteq V2
    BY <1>4, <2>6
  <2>11. Covers(h2, V2, ToSet(list2) \cup DOMAIN T)
    BY <2>9, <2>10
  <2> HIDE DEF T, V2
  <2> QED
    BY <1>1, <2>1, <2>5, <2>8, <2>10, <2>11, Started
<1> QED
  BY <1>9, <1>10

(* A dictionary with one entry more, or another.                            *)
LEMMA SetKeyIs ==
  ASSUME NEW n, NEW P, IsNode(n, P), n.k = "dict", NEW key \in STRING, NEW o \in P
  PROVE  IsNode(SetKey(n, key, o), P) /\ SetKey(n, key, o).k = "dict" /\ Held(SetKey(n, key, o)) \subseteq Held(n) \cup {o}
<1> DEFINE m == SetKey(n, key, o)
           j == SelectInSeq(n.ent, LAMBDA e : e.key = key)
           l == Len(n.ent)
           E == Entries(P)
<1>1. n.ent \in Seq(E) /\ "ent" \in DOMAIN n /\ "k" \in DOMAIN n
  BY DEF IsNode
<1>2. l \in Nat /\ DOMAIN n.ent = 1 .. l /\ \A i \in 1 .. l : n.ent[i] \in E
  <2> HIDE DEF E
  <2> QED
    BY <1>1
<1>3. \A i \in 1 .. l : n.ent[i].val \in Held(n) /\ n.ent[i].val \in P
  <2>1. Vals(n) = [i \in 1 .. l |-> n.ent[i].val]
    BY <1>2 DEF Vals
  <2>2. Vals(n) \in Seq(P) /\ Len(Vals(n)) = l
    BY <1>2, <2>1, NodeVals
  <2>3. \A i \in 1 .. l : Vals(n)[i] \in ToSet(Vals(n)) /\ Vals(n)[i] \in P
    <3> HIDE DEF l
    <3> QED
      BY <1>2, <2>2, ToSetIs
  <2> QED
    BY <2>1, <2>3 DEF Held
<1>4. \E ent : /\ m = [n EXCEPT !.ent = ent] /\ ent \in Seq(E)
               /\ \A i \in 1 .. Len(ent) : ent[i].val \in Held(n) \cup {o}
  <2>1. CASE key \in Keys(n)
    <3> DEFINE ent == [n.ent EXCEPT ![j].val = o]
    <3>1. m = [n EXCEPT !.ent = ent]
      BY <2>1 DEF SetKey
    <3> HIDE DEF j
    <3>2. \A i \in 1 .. l : ent[i] = IF i = j THEN [n.ent[j] EXCEPT !.val = o] ELSE n.ent[i]
      BY <1>2
    <3>3. DOMAIN ent = 1 .. l /\ ent = [i \in 1 .. l |-> ent[i]]
      BY <1>2
    <3> HIDE DEF ent
    <3>4. ASSUME NEW i \in 1 .. l
          PROVE  ent[i] \in E /\ ent[i].val \in Held(n) \cup {o}
      <4>1. CASE i = j
        <5>1. n.ent[j] \in Entries(P)
          BY <1>2, <4>1
        <5>2. [n.ent[j] EXCEPT !.val = o] \in Entries(P) /\ [n.ent[j] EXCEPT !.val = o].val = o
          BY <5>1 DEF Entries
        <5> QED
          BY <3>2, <4>1, <5>2
      <4>2. CASE i # j
        BY <1>2, <1>3, <3>2, <4>2
      <4> QED
        BY <4>1, <4>2
    <3> HIDE DEF l, E
    <3>5. ent \in Seq(E) /\ Len(ent) = l
      BY <1>2, <3>3, <3>4, IsSeqOf
    <3> QED
      BY <3>1, <3>4, <3>5
  <2>2. CASE key \notin Keys(n)
    <3> DEFINE e == [key |-> key, val |-> o]
               ent == Append(n.ent, e)
    <3>1. m = [n EXCEPT !.ent = ent]
      BY <2>2 DEF SetKey
    <3>2. e \in E /\ e.val = o
      BY DEF Entries
    <3> HIDE DEF e, E, l
    <3>3. ent \in Seq(E) /\ Len(ent) = l + 1 /\ \A i \in 1 .. l + 1 : ent[i] = IF i = l + 1 THEN e ELSE n.ent[i]
      BY <1>1, <1>2, <3>2 DEF l
    <3>4. \A i \in 1 .. l + 1 : i = l + 1 \/ i \in 1 .. l
      BY <1>2
    <3>5. \A i \in 1 .. Len(ent) : ent[i].val \in Held(n) \cup {o}
      BY <1>3, <3>2, <3>3, <3>4
    <3> QED
      BY <3>1, <3>3, <3>5
  <2> QED
    BY <2>1, <2>2
<1> HIDE DEF m
<1>5. PICK ent : /\ m = [n EXCEPT !.ent = ent] /\ ent \in Seq(E)
                 /\ \A i \in 1 .. Len(ent) : ent[i].val \in Held(n) \cup {o}
  BY <1>4
<1>6. "k" \in DOMAIN m /\ m.k = "dict" /\ "ent" \in DOMAIN m /\ m.ent = ent
  BY <1>1, <1>5
<1>7. IsNode(m, P)
  BY <1>5, <1>6 DEF IsNode
<1>8. Held(m) \subseteq Held(n) \cup {o}
  <2> DEFINE C == Held(n) \cup {o}
             u == Vals(m)
  <2>1. Len(ent) \in Nat /\ DOMAIN ent = 1 .. Len(ent)
    <3> HIDE DEF E
    <3> QED
      BY <1>5
  <2>2. u = [i \in 1 .. Len(ent) |-> ent[i].val]
    BY <1>6, <2>1 DEF Vals
  <2>3. \A i \in 1 .. Len(ent) : u[i] \in C
    BY <1>5, <2>2
  <2>4. u \in Seq(P) /\ Len(u) = Len(ent)
    BY <1>7, <2>1, <2>2, NodeVals
  <2> HIDE DEF u, C
  <2>5. ToSet(u) \subseteq C
    BY <2>3, <2>4, ToSetIn
  <2> QED
    BY <2>5 DEF u, C, Held
<1> QED
  BY <1>6, <1>7, <1>8 DEF m

\* CompressStreams: one new atom, that dictionaries of streams get.
LEMMA CompressStreamsStep ==
  ASSUME OptIInv, CompressStreams
  PROVE  OptIInv'
<1> DEFINE h == optim.heap
           list == optim.list
           n == Len(h)
           streams == {o \in ToSet(list) : h[o].k = "stream" /\ Compressed(h, o)}
           dicts == {h[o].dict : o \in streams}
           atom == [k |-> "atom", val |-> "flate"]
           T == << >>
           h2 == [o \in 1 .. n + 1 |->
                    IF o = n + 1 THEN atom
                    ELSE IF o \in streams THEN [h[o] EXCEPT !.raw = <<"flate">> \o @]
                    ELSE IF o \in dicts THEN SetKey(h[o], "Filter", n + 1) ELSE h[o]]
<1>1. NextInv(h, list) /\ OptShape
  BY DEF CompressStreams, Runs, OptIInv
<1>2. HeapInv(h) /\ IsList(h, list)
  BY <1>1 DEF NextInv
<1>3. n \in Nat /\ DOMAIN h = 1 .. n /\ Cardinality(DOMAIN h) = n /\ \A o \in DOMAIN h : IsNode(h[o], 1 .. n)
  BY <1>2, HeapFacts DEF HeapInv
<1>4. PICK V : ToSet(list) \subseteq V /\ Covers(h, V, ToSet(list))
  BY <1>1 DEF NextInv
<1> DEFINE V2 == V \cup {n + 1}
<1>5. StartReplacing(h2, list, T)
  BY <1>3 DEF CompressStreams
<1>6. ToSet(list) \subseteq 1 .. n /\ V \subseteq 1 .. n
  BY <1>3, <1>4 DEF Covers
<1>7. \A o \in dicts : h[o].k = "dict" /\ o \notin streams
  BY <1>2, <1>3, <1>6 DEF HeapInv, StreamDictsApart
<1>8. 1 .. n \subseteq 1 .. n + 1 /\ n + 1 \in 1 .. n + 1 /\ n + 1 \notin 1 .. n /\ n + 1 \in Nat
      /\ \A o \in 1 .. n + 1 : o # n + 1 => o \in 1 .. n
  BY <1>3
<1>9. DOMAIN h2 = 1 .. n + 1 /\ h2 = [o \in 1 .. n + 1 |-> h2[o]]
  OBVIOUS
<1>10. \A o \in streams : h[o].k = "stream"
  OBVIOUS
<1> HIDE DEF streams, dicts, n
<1>11. h2[n + 1] = atom
  BY <1>8
<1>12. \A o \in 1 .. n : h2[o] = IF o \in streams THEN [h[o] EXCEPT !.raw = <<"flate">> \o @]
                                 ELSE IF o \in dicts THEN SetKey(h[o], "Filter", n + 1) ELSE h[o]
  BY <1>8
<1> HIDE DEF h2
<1>13. ASSUME NEW o \in 1 .. n
       PROVE  /\ IsNode(h2[o], 1 .. n + 1) /\ h2[o].k = h[o].k
              /\ h[o].k = "dict" => Held(h2[o]) \subseteq Held(h[o]) \cup {n + 1}
              /\ h[o].k # "dict" => Held(h2[o]) = Held(h[o])
              /\ h[o].k = "stream" => h2[o].dict = h[o].dict
  <2> DEFINE e == h[o]
  <2>1. IsNode(e, 1 .. n + 1)
    BY <1>3, <1>8, NodeWider
  <2>2. CASE o \in streams
    <3> DEFINE x == <<"flate">> \o e.raw
               m == h2[o]
    <3>1. m = [e EXCEPT !.raw = x]
      BY <1>12, <2>2
    <3>2. e.k = "stream"
      BY <1>10, <2>2
    <3> HIDE DEF m, e, x
    <3>3. DOMAIN m = DOMAIN e /\ \A f \in DOMAIN e : f # "raw" => m[f] = e[f]
      BY <3>1
    <3>4. IsNode(m, 1 .. n + 1) /\ m.k = e.k /\ m.dict = e.dict
      BY <2>1, <3>2, <3>3 DEF IsNode
    <3>5. Held(m) = Held(e)
      BY <3>2, <3>4, HeldOfOne
    <3> QED
      BY <3>4, <3>5 DEF m, e
  <2>3. CASE o \in dicts
    <3>1. e.k = "dict" /\ h2[o] = SetKey(e, "Filter", n + 1)
      BY <1>7, <1>12, <2>3
    <3> HIDE DEF e
    <3>2. "Filter" \in STRING
      BY FilterAssumption
    <3>3. IsNode(h2[o], 1 .. n + 1) /\ h2[o].k = "dict" /\ Held(h2[o]) \subseteq Held(e) \cup {n + 1}
      BY <1>8, <2>1, <3>1, <3>2, SetKeyIs
    <3> QED
      BY <3>1, <3>3 DEF e
  <2>4. CASE o \notin streams /\ o \notin dicts
    BY <1>12, <2>1, <2>4
  <2> QED
    BY <2>2, <2>3, <2>4
<1>14. IsNode(atom, 1 .. n + 1) /\ atom.k = "atom" /\ Held(atom) = {}
  BY HeldOfOne DEF IsNode
<1>15. IsHeap(h2)
  <2>1. \A o \in 1 .. n + 1 : IsNode(h2[o], 1 .. n + 1)
    BY <1>8, <1>11, <1>13, <1>14
  <2> HIDE DEF atom
  <2> QED
    BY <1>8, <1>9, <2>1, IsHeapOf
<1> HIDE DEF atom, h, list
<1>16. HeapInv(h2)
  <2> DEFINE A == {n + 1}
  <2>1. \A a \in A : a \in DOMAIN h2 => h2[a].k # "dict"
    BY <1>11, <1>14
  <2>2. \A o \in DOMAIN h : /\ h2[o].k = h[o].k
                            /\ h[o].k = "dict" => Held(h2[o]) \subseteq Held(h[o]) \cup A
                            /\ h[o].k = "stream" => h2[o].dict = h[o].dict
    BY <1>3, <1>13
  <2>3. \A o \in DOMAIN h2 : o \notin DOMAIN h => h2[o].k # "stream" /\ h2[o].k # "dict"
    BY <1>3, <1>8, <1>9, <1>11, <1>14
  <2>4. DOMAIN h \subseteq DOMAIN h2
    BY <1>3, <1>8, <1>9
  <2> HIDE DEF A
  <2> QED
    BY <1>2, <1>15, <2>1, <2>2, <2>3, <2>4, GrownHeap
<1>17. IsList(h2, list)
  <2>1. \A o \in ToSet(list) : Container(h2[o])
    BY <1>2, <1>6, <1>13 DEF IsList, Container
  <2>2. list \in Seq(DOMAIN h2)
    BY <1>2, <1>3, <1>8, <1>9, SeqWider DEF IsList
  <2> QED
    BY <1>2, <2>1, <2>2 DEF IsList
<1>18. Covers(h2, V2, ToSet(list))
  <2>1. ASSUME NEW o \in V2
        PROVE  Held(h2[o]) \subseteq V2 /\ (Container(h2[o]) => o \in ToSet(list))
    <3>1. CASE o = n + 1
      BY <1>11, <1>14, <3>1 DEF Container
    <3>2. CASE o \in V
      <4>1. o \in 1 .. n /\ Held(h[o]) \subseteq V /\ (Container(h[o]) => o \in ToSet(list))
        BY <1>4, <1>6, <3>2 DEF Covers
      <4>2. Held(h2[o]) \subseteq Held(h[o]) \cup {n + 1} /\ Container(h2[o]) = Container(h[o])
        BY <1>13, <4>1 DEF Container
      <4> QED
        BY <4>1, <4>2
    <3> QED
      BY <3>1, <3>2
  <2>2. V2 \subseteq DOMAIN h2
    BY <1>6, <1>8, <1>9
  <2> HIDE DEF V2
  <2> QED
    BY <2>1, <2>2 DEF Covers
<1>19. DOMAIN T = {} /\ ToSet(list) \subseteq V2
  BY <1>4
<1>20. Covers(h2, V2, ToSet(list) \cup DOMAIN T)
  BY <1>18, <1>19
<1> HIDE DEF T, V2
<1> QED
  BY <1>1, <1>5, <1>16, <1>17, <1>19, <1>20, Started

\* CombineDuplicateDirectObjects: an object and a copy for each group.
LEMMA CombineDirectStep ==
  ASSUME OptIInv, CombineDuplicateDirectObjects
  PROVE  OptIInv'
<1> DEFINE list == optim.list
           h == Renumbered(optim.heap, list)
           n == Len(h)
           found == DirectDicts(h, list)
           all == Groups(found, Printed(h))
           Start(groups, size) ==
             LET Made(i) == size + 2 * i
                 new == [o \in size + 1 .. size + 2 * Len(groups) |->
                          LET i == (o - size + 1) \div 2
                          IN  IF o = Made(i) THEN [k |-> "ind", val |-> o - 1, num |-> 0] ELSE h[groups[i][1]]]
             IN  StartReplacing([o \in 1 .. size + 2 * Len(groups) |-> IF o <= size THEN h[o] ELSE new[o]],
                                [i \in DOMAIN groups |-> Made(i)] \o list,
                                [o \in UNION {ToSet(groups[i]) : i \in DOMAIN groups} |->
                                   Made(CHOOSE i \in DOMAIN groups : o \in ToSet(groups[i]))])
<1>1. NextInv(optim.heap, list) /\ OptShape
  BY DEF CombineDuplicateDirectObjects, Runs, OptIInv
<1>2. PICK V : ToSet(list) \subseteq V /\ Covers(optim.heap, V, ToSet(list))
  BY <1>1 DEF NextInv
<1>3. HeapInv(h) /\ IsList(h, list) /\ Covers(h, V, ToSet(list))
  BY <1>1, <1>2, RenumberedIs DEF NextInv
<1>4. n \in Nat /\ DOMAIN h = 1 .. n /\ Cardinality(DOMAIN h) = n /\ \A o \in DOMAIN h : IsNode(h[o], 1 .. n)
  BY <1>3, HeapFacts DEF HeapInv
<1>5. \E groups \in SetToSeqs(all) : Start(groups, Cardinality(DOMAIN h))
  BY DEF CombineDuplicateDirectObjects
<1> HIDE DEF Start
<1>6. PICK groups \in SetToSeqs(all) : Start(groups, n)
  BY <1>4, <1>5
<1> DEFINE l == Len(groups)
<1>7. l \in Nat /\ DOMAIN groups = 1 .. l /\ \A i \in 1 .. l : groups[i] \in all
  <2>1. found \in Seq(DOMAIN h)
    BY <1>2, <1>3, DirectDictsAre
  <2> DEFINE c == Cardinality(all)
  <2>2. c \in Nat
    <3> DEFINE key == Printed(h)
               D == DOMAIN h
    <3> HIDE DEF found, key, D
    <3>1. found \in Seq(D)
      BY <2>1 DEF D
    <3> QED
      BY <3>1, GroupsFinite
  <2> HIDE DEF c, all
  <2>3. groups \in [1 .. c -> all]
    BY <1>6 DEF SetToSeqs, c
  <2>4. DOMAIN groups = 1 .. c /\ groups = [i \in 1 .. c |-> groups[i]] /\ \A i \in 1 .. c : groups[i] \in all
    BY <2>3
  <2>5. Len(groups) = c
    BY <2>2, <2>4, IsSeqOf
  <2> QED
    BY <2>2, <2>4, <2>5
<1>8. \A i \in 1 .. l : ToSet(groups[i]) \subseteq {v \in V : InDict(h, v)} /\ groups[i][1] \in {v \in V : InDict(h, v)}
  <2> DEFINE C == {v \in V : InDict(h, v)}
             D == DOMAIN h
  <2>1. found \in Seq(D) /\ ToSet(found) \subseteq C
    BY <1>2, <1>3, DirectDictsAre
  <2>2. \A g \in all : g \in Seq(D) /\ Len(g) > 1 /\ ToSet(g) \subseteq ToSet(found)
    <3> DEFINE key == Printed(h)
    <3> HIDE DEF found, key, D
    <3> QED
      BY <2>1, GroupsAre
  <2> HIDE DEF C, D, found, all
  <2>3. ASSUME NEW g \in all
        PROVE  g[1] \in C /\ ToSet(g) \subseteq C
    <3>1. 1 \in 1 .. Len(g)
      BY <2>2
    <3>2. g[1] \in ToSet(g)
      BY <2>2, <3>1, ToSetIs
    <3> QED
      BY <2>1, <2>2, <3>2
  <2>4. \A i \in 1 .. l : groups[i][1] \in C /\ ToSet(groups[i]) \subseteq C
    BY <1>7, <2>3
  <2> QED
    BY <2>4 DEF C
<1> DEFINE n2 == n + 2 * l
           Made(i) == n + 2 * i
           new == [o \in n + 1 .. n2 |->
                    LET i == (o - n + 1) \div 2
                    IN  IF o = Made(i) THEN [k |-> "ind", val |-> o - 1, num |-> 0] ELSE h[groups[i][1]]]
           h2 == [o \in 1 .. n2 |-> IF o <= n THEN h[o] ELSE new[o]]
           made == [i \in DOMAIN groups |-> Made(i)]
           list2 == made \o list
           which(o) == CHOOSE i \in DOMAIN groups : o \in ToSet(groups[i])
           T == [o \in UNION {ToSet(groups[i]) : i \in DOMAIN groups} |-> Made(which(o))]
           V2 == V \cup (n + 1 .. n2)
<1>9. StartReplacing(h2, list2, T)
  <2> HIDE DEF h, n
  <2> QED
    BY <1>6 DEF Start
<1> HIDE DEF h, n, all, found, l, list
<1>10. /\ n2 \in Nat /\ n \in Nat /\ n <= n2 /\ 1 .. n \subseteq 1 .. n2
       /\ \A i \in 1 .. l : Made(i) \in n + 1 .. n2
       /\ \A o \in 1 .. n2 : o \in 1 .. n \/ o \in n + 1 .. n2
       /\ \A o \in n + 1 .. n2 : o \in 1 .. n2 /\ o \notin 1 .. n /\ ~(o <= n)
  BY <1>4, <1>7
<1>11. DOMAIN h2 = 1 .. n2 /\ h2 = [o \in 1 .. n2 |-> h2[o]]
  OBVIOUS
<1>12. \A o \in 1 .. n : h2[o] = h[o]
  BY <1>10
<1>13. \A o \in n + 1 .. n2 : h2[o] = new[o]
  <2> HIDE DEF new, n2
  <2> QED
    BY <1>10
<1>14. ASSUME NEW o \in n + 1 .. n2
       PROVE  \E i \in 1 .. l : \/ o = Made(i) /\ h2[o] = [k |-> "ind", val |-> o - 1, num |-> 0]
                                               /\ o - 1 \in n + 1 .. n2
                                \/ o # Made(i) /\ h2[o] = h[groups[i][1]]
  <2> DEFINE i == (o - n + 1) \div 2
  <2>1. i \in 1 .. l /\ (o = Made(i) => o - 1 \in n + 1 .. n2)
    <3>1. \E x \in 1 .. 2 * l : o = n + x
      BY <1>4, <1>7
    <3>2. PICK x \in 1 .. 2 * l : o = n + x
      BY <3>1
    <3>3. i = (x + 1) \div 2
      BY <1>4, <1>7, <3>2
    <3> HIDE DEF i
    <3>4. i \in 1 .. l
      BY <1>7, <3>3
    <3> QED
      BY <1>4, <1>7, <3>2, <3>4
  <2>2. new[o] = IF o = Made(i) THEN [k |-> "ind", val |-> o - 1, num |-> 0] ELSE h[groups[i][1]]
    OBVIOUS
  <2> HIDE DEF i, new, n2, h2
  <2> QED
    BY <1>13, <2>1, <2>2
<1>15. \A i \in 1 .. l : h2[Made(i)].k = "ind"
  <2>1. ASSUME NEW i \in 1 .. l
        PROVE  h2[Made(i)].k = "ind"
    <3> DEFINE o == Made(i)
    <3>1. o \in n + 1 .. n2
      BY <1>10
    <3>2. (o - n + 1) \div 2 = i
      BY <1>4
    <3>3. new[o] = [k |-> "ind", val |-> o - 1, num |-> 0]
      BY <3>1, <3>2
    <3> HIDE DEF new, h2, o, n2
    <3> QED
      BY <1>13, <3>1, <3>3 DEF o
  <2> QED
    BY <2>1
<1> HIDE DEF new, h2
<1>16. V \subseteq 1 .. n /\ ToSet(list) \subseteq 1 .. n
  BY <1>2, <1>3, <1>4 DEF Covers
<1>17. ASSUME NEW i \in 1 .. l
       PROVE  /\ groups[i][1] \in 1 .. n /\ groups[i][1] \in V /\ h[groups[i][1]].k = "dict"
  BY <1>8, <1>16 DEF InDict
<1>18. IsHeap(h2)
  <2>1. ASSUME NEW o \in 1 .. n2
        PROVE  IsNode(h2[o], 1 .. n2)
    <3>1. CASE o \in 1 .. n
      BY <1>4, <1>10, <1>12, <3>1, NodeWider
    <3>2. CASE o \in n + 1 .. n2
      <4>1. PICK i \in 1 .. l : \/ o = Made(i) /\ h2[o] = [k |-> "ind", val |-> o - 1, num |-> 0]
                                               /\ o - 1 \in n + 1 .. n2
                                \/ o # Made(i) /\ h2[o] = h[groups[i][1]]
        BY <1>14, <3>2
      <4>2. CASE h2[o] = [k |-> "ind", val |-> o - 1, num |-> 0] /\ o - 1 \in n + 1 .. n2
        BY <1>10, <4>2 DEF IsNode
      <4>3. CASE h2[o] = h[groups[i][1]]
        BY <1>4, <1>10, <1>17, <4>3, NodeWider
      <4> QED
        BY <4>1, <4>2, <4>3
    <3> QED
      BY <1>10, <3>1, <3>2
  <2> HIDE DEF n2
  <2> QED
    BY <1>10, <1>11, <2>1, IsHeapOf
<1>19. HeapInv(h2)
  <2> DEFINE A == {}
  <2>1. \A a \in A : a \in DOMAIN h2 => h2[a].k # "dict"
    OBVIOUS
  <2>2. \A o \in DOMAIN h : /\ h2[o].k = h[o].k
                            /\ h[o].k = "dict" => Held(h2[o]) \subseteq Held(h[o]) \cup A
                            /\ h[o].k = "stream" => h2[o].dict = h[o].dict
    BY <1>4, <1>12
  <2>3. \A o \in DOMAIN h2 : o \notin DOMAIN h =>
          /\ h2[o].k # "stream"
          /\ h2[o].k = "dict" => \E p \in DOMAIN h : h[p].k = "dict" /\ Held(h2[o]) \subseteq Held(h[p])
    <3>1. ASSUME NEW o \in n + 1 .. n2
          PROVE  /\ h2[o].k # "stream"
                 /\ h2[o].k = "dict" => \E p \in 1 .. n : h[p].k = "dict" /\ Held(h2[o]) \subseteq Held(h[p])
      <4>1. PICK i \in 1 .. l : \/ h2[o] = [k |-> "ind", val |-> o - 1, num |-> 0]
                                \/ h2[o] = h[groups[i][1]]
        BY <1>14, <3>1
      <4>2. CASE h2[o] = [k |-> "ind", val |-> o - 1, num |-> 0]
        BY <4>2
      <4>3. CASE h2[o] = h[groups[i][1]]
        BY <1>17, <4>3
      <4> QED
        BY <4>1, <4>2, <4>3
    <3> HIDE DEF n2
    <3> QED
      BY <1>4, <1>10, <1>11, <3>1
  <2>4. DOMAIN h \subseteq DOMAIN h2
    BY <1>4, <1>10, <1>11
  <2> HIDE DEF A
  <2> QED
    BY <1>3, <1>18, <2>1, <2>2, <2>3, <2>4, GrownHeap
<1>20. /\ made \in Seq(1 .. n2) /\ Once(made) /\ ToSet(made) \subseteq n + 1 .. n2
       /\ \A i \in 1 .. l : Made(i) \in ToSet(made)
  <2>1. DOMAIN made = 1 .. l /\ made = [i \in 1 .. l |-> made[i]]
    BY <1>7
  <2>2. \A i \in 1 .. l : made[i] = Made(i) /\ made[i] \in n + 1 .. n2 /\ made[i] \in 1 .. n2
    BY <1>7, <1>10
  <2>3. Once(made)
    BY <1>4, <1>7 DEF Once
  <2> HIDE DEF made, Made, n2
  <2>4. made \in Seq(1 .. n2) /\ Len(made) = l
    BY <1>7, <2>1, <2>2, IsSeqOf
  <2> QED
    BY <2>2, <2>3, <2>4, ToSetIs
<1> HIDE DEF made
<1>21. list2 \in Seq(1 .. n2) /\ ToSet(list2) = ToSet(made) \cup ToSet(list) /\ Once(list2)
  <2> DEFINE D == 1 .. n2
  <2>1. list \in Seq(D) /\ Once(list)
    BY <1>3, <1>4, <1>10, SeqWider DEF IsList
  <2>2. ToSet(made) \cap ToSet(list) = {}
    BY <1>10, <1>16, <1>20
  <2>3. made \in Seq(D) /\ Once(made)
    BY <1>20
  <2> HIDE DEF D
  <2>4. list2 \in Seq(D) /\ ToSet(list2) = ToSet(made) \cup ToSet(list)
    BY <2>1, <2>3, ToSetConcat
  <2>5. Once(list2)
    BY <2>1, <2>2, <2>3, OnceConcat
  <2> QED
    BY <2>4, <2>5 DEF D
<1> HIDE DEF list2
<1>22. \A o \in ToSet(made) : \E i \in 1 .. l : o = Made(i)
  <2>1. \A o \in ToSet(made) : \E i \in 1 .. Len(made) : o = made[i]
    BY <1>20, ToSetIs
  <2>2. Len(made) = l /\ \A i \in 1 .. l : made[i] = Made(i)
    <3>1. DOMAIN made = 1 .. l /\ \A i \in 1 .. l : made[i] = Made(i)
      BY <1>7 DEF made
    <3> HIDE DEF Made, n2
    <3>2. Len(made) \in Nat /\ DOMAIN made = 1 .. Len(made)
      BY <1>20
    <3> QED
      BY <1>7, <3>1, <3>2
  <2> QED
    BY <2>1, <2>2
<1>23. IsList(h2, list2)
  <2>1. \A o \in ToSet(list) : Container(h2[o])
    BY <1>3, <1>12, <1>16 DEF IsList
  <2>2. \A o \in ToSet(made) : Container(h2[o])
    BY <1>15, <1>22 DEF Container
  <2> QED
    BY <1>11, <1>21, <2>1, <2>2 DEF IsList
<1>24. Covers(h2, V2, ToSet(list2))
  <2>1. ASSUME NEW o \in V2
        PROVE  Held(h2[o]) \subseteq V2 /\ (Container(h2[o]) => o \in ToSet(list2))
    <3>1. CASE o \in V
      BY <1>3, <1>12, <1>16, <1>21, <3>1 DEF Covers
    <3>2. CASE o \in n + 1 .. n2
      <4>1. PICK i \in 1 .. l : \/ o = Made(i) /\ h2[o] = [k |-> "ind", val |-> o - 1, num |-> 0]
                                               /\ o - 1 \in n + 1 .. n2
                                \/ o # Made(i) /\ h2[o] = h[groups[i][1]]
        BY <1>14, <3>2
      <4>2. CASE o = Made(i) /\ h2[o] = [k |-> "ind", val |-> o - 1, num |-> 0] /\ o - 1 \in n + 1 .. n2
        <5>1. Held(h2[o]) = {o - 1}
          BY <4>2, HeldOfOne
        <5>2. o \in ToSet(list2)
          BY <1>20, <1>21, <4>2
        <5> HIDE DEF n2
        <5> QED
          BY <4>2, <5>1, <5>2
      <4>3. CASE h2[o] = h[groups[i][1]]
        BY <1>3, <1>17, <4>3 DEF Covers, Container
      <4> QED
        BY <4>1, <4>2, <4>3
    <3> QED
      BY <3>1, <3>2
  <2>2. V2 \subseteq DOMAIN h2
    BY <1>10, <1>11, <1>16
  <2> HIDE DEF V2
  <2> QED
    BY <2>1, <2>2 DEF Covers
<1>25. ASSUME NEW o \in DOMAIN T
       PROVE  T[o] # o /\ T[o] \in ToSet(list2) /\ o \notin ToSet(list2) /\ InDict(h, o)
  <2>1. \E i \in 1 .. l : o \in ToSet(groups[i])
    BY <1>7
  <2>2. which(o) \in 1 .. l
    BY <1>7, <2>1
  <2>3. T[o] = Made(which(o))
    OBVIOUS
  <2>4. o \in V /\ InDict(h, o)
    BY <1>8, <2>1
  <2> HIDE DEF T, which
  <2>5. T[o] \in ToSet(made) /\ T[o] \in ToSet(list2)
    BY <1>20, <1>21, <2>2, <2>3
  <2>6. o \in 1 .. n /\ o \notin n + 1 .. n2
    BY <1>10, <1>16, <2>4
  <2>7. o \notin ToSet(list)
    BY <1>3, <2>4 DEF InDict, IsList, Container
  <2> QED
    BY <1>20, <1>21, <2>4, <2>5, <2>6, <2>7
<1>26. \A o \in DOMAIN h2 : h2[o].k = "stream" => h2[o].dict \notin DOMAIN T
  <2>1. ASSUME NEW o \in DOMAIN h2, h2[o].k = "stream"
        PROVE  h2[o].dict \notin DOMAIN T
    <3>1. o \in 1 .. n /\ h2[o] = h[o]
      <4>1. ASSUME o \in n + 1 .. n2
            PROVE  FALSE
        <5>1. PICK i \in 1 .. l : \/ h2[o] = [k |-> "ind", val |-> o - 1, num |-> 0]
                                  \/ h2[o] = h[groups[i][1]]
          BY <1>14, <4>1
        <5> QED
          BY <1>17, <2>1, <5>1
      <4> HIDE DEF n2
      <4> QED
        BY <1>10, <1>11, <1>12, <2>1, <4>1
    <3>2. \A p \in DOMAIN h : h[p].k = "dict" => h[o].dict \notin Held(h[p])
      BY <1>3, <1>4, <2>1, <3>1 DEF HeapInv, StreamDictsApart
    <3> HIDE DEF T
    <3> QED
      BY <1>25, <3>1, <3>2 DEF InDict
  <2> HIDE DEF T
  <2> QED
    BY <2>1
<1>27. ToSet(list2) \subseteq V2
  BY <1>2, <1>20, <1>21
<1>28. Covers(h2, V2, ToSet(list2) \cup DOMAIN T)
  <2> HIDE DEF T, V2
  <2> QED
    BY <1>24 DEF Covers
<1> HIDE DEF T, V2
<1> QED
  BY <1>1, <1>9, <1>19, <1>23, <1>25, <1>26, <1>27, <1>28, Started

-----------------------------------------------------------------------------
(* The stack of values being gone through.                                  *)
LEMMA TopIs ==
  ASSUME NEW S, NEW stack \in Seq(S), Len(stack) > 0
  PROVE  /\ Last(stack) = stack[Len(stack)] /\ Last(stack) \in S /\ Len(stack) \in Nat /\ Len(stack) \in 1 .. Len(stack)
         /\ Front(stack) \in Seq(S) /\ Len(Front(stack)) = Len(stack) - 1
         /\ \A j \in 1 .. Len(stack) - 1 : Front(stack)[j] = stack[j] /\ j \in 1 .. Len(stack) /\ j # Len(stack)
<1>1. Last(stack) = stack[Len(stack)]
  BY DEF Last
<1>2. Front(stack) = SubSeq(stack, 1, Len(stack) - 1)
  BY DEF Front
<1>3. Front(stack) \in Seq(S) /\ Len(Front(stack)) = Len(stack) - 1
      /\ \A j \in 1 .. Len(stack) - 1 : Front(stack)[j] = stack[j]
  <2> DEFINE n == Len(stack) - 1
             u == SubSeq(stack, 1, n)
  <2>1. n \in Nat /\ Len(stack) = n + 1 /\ DOMAIN stack = 1 .. n + 1 /\ \A j \in 1 .. n + 1 : stack[j] \in S
    OBVIOUS
  <2>2. u = [j \in 1 .. n |-> stack[j]]
    BY <2>1
  <2> HIDE DEF n, u
  <2>3. DOMAIN u = 1 .. n /\ u = [j \in 1 .. n |-> u[j]] /\ \A j \in 1 .. n : u[j] = stack[j] /\ u[j] \in S
    BY <2>1, <2>2
  <2>4. u \in Seq(S) /\ Len(u) = n
    BY <2>1, <2>3, IsSeqOf
  <2> QED
    BY <1>2, <2>3, <2>4 DEF n, u
<1>5. Last(stack) \in S /\ Len(stack) \in Nat /\ Len(stack) \in 1 .. Len(stack)
      /\ \A j \in 1 .. Len(stack) - 1 : j \in 1 .. Len(stack) /\ j # Len(stack)
  BY <1>1
<1> QED
  BY <1>1, <1>3, <1>5

TopChanged(S, stack, x, stack2) ==
  /\ stack2 \in Seq(S) /\ Len(stack2) = Len(stack)
  /\ \A j \in 1 .. Len(stack) : stack2[j] = IF j = Len(stack) THEN x ELSE stack[j]
LEMMA OnTop ==
  ASSUME NEW S, NEW stack \in Seq(S), Len(stack) > 0, NEW x \in S
  PROVE  TopChanged(S, stack, x, Append(Front(stack), x))
<1> DEFINE u == Front(stack)
           stack2 == Append(u, x)
<1>1. u \in Seq(S) /\ Len(u) = Len(stack) - 1 /\ \A j \in 1 .. Len(stack) - 1 : u[j] = stack[j]
  BY TopIs
<1> HIDE DEF u
<1>3. stack2 \in Seq(S) /\ Len(stack2) = Len(u) + 1
      /\ \A j \in 1 .. Len(u) + 1 : stack2[j] = IF j = Len(u) + 1 THEN x ELSE u[j]
  BY <1>1
<1> HIDE DEF stack2
<1>4. Len(stack) \in Nat /\ Len(u) + 1 = Len(stack)
  BY <1>1
<1>5. \A j \in 1 .. Len(stack) : j = Len(stack) \/ j \in 1 .. Len(stack) - 1
  BY <1>4
<1> QED
  BY <1>1, <1>3, <1>4, <1>5 DEF TopChanged, stack2, u

Put(s, k, x) == [s EXCEPT ![k] = x]
PutOK(S, s, k, x, w) ==
  /\ w \in Seq(S) /\ Len(w) = Len(s) /\ Len(s) \in Nat
  /\ \A m \in 1 .. Len(s) : w[m] = IF m = k THEN x ELSE s[m]
\* A sequence with one value changed.
LEMMA ExceptIs ==
  ASSUME NEW S, NEW s \in Seq(S), NEW k \in 1 .. Len(s), NEW x \in S
  PROVE  PutOK(S, s, k, x, Put(s, k, x))
BY DEF Put, PutOK

\* What a frame was started with can be reached.
LEMMA SourceIs ==
  ASSUME NEW h, HeapInv(h), NEW list, IsList(h, list), NEW V, ToSet(list) \subseteq V, NEW ends, Covers(h, V, ends),
         NEW of, of # 0 => of \in V
  PROVE  /\ Source(h, list, of) \in Seq(DOMAIN h)
         /\ \A m \in 1 .. Len(Source(h, list, of)) : Source(h, list, of)[m] \in V
         /\ V \subseteq DOMAIN h
<1>0. V \subseteq DOMAIN h
  BY DEF Covers
<1>1. CASE of = 0
  <2>1. Source(h, list, of) = list /\ list \in Seq(DOMAIN h)
    BY <1>1 DEF Source, IsList
  <2>2. \A m \in 1 .. Len(list) : list[m] \in V
    BY <2>1, ToSetIs
  <2> QED
    BY <1>0, <2>1, <2>2
<1>2. CASE of # 0
  <2>1. Source(h, list, of) = Vals(h[of]) /\ of \in DOMAIN h
    BY <1>0, <1>2 DEF Source
  <2>2. Vals(h[of]) \in Seq(DOMAIN h)
    BY <2>1, HeapFacts DEF HeapInv
  <2>3. ToSet(Vals(h[of])) \subseteq V
    BY <1>2 DEF Covers, Held
  <2>4. \A m \in 1 .. Len(Vals(h[of])) : Vals(h[of])[m] \in V
    BY <2>2, <2>3, ToSetIs
  <2> QED
    BY <1>0, <2>1, <2>2, <2>4
<1> QED
  BY <1>1, <1>2

(* What the frame on top holds can be reached.                              *)
Parts(h, list, T, of, vals, i) ==
  /\ of # 0 => of \in Done(T) /\ h[of].k # "atom"
  /\ Len(vals) = Len(Source(h, list, of)) /\ i \in 1 .. Len(vals) + 1
  /\ \A m \in 1 .. Len(vals) :
       vals[m] = Source(h, list, of)[m] \/ (Source(h, list, of)[m] \in Gone(T) /\ vals[m] \in ToSet(list))
  /\ \A m \in 1 .. Len(vals) : m < i =>
       vals[m] \in Done(T) \cup ToSet(list) /\ (of = 0 => list[m] \in Done(T))
Top(h, list, T, stack, V, of, vals, i) ==
  /\ Len(stack) \in Nat /\ Len(stack) \in 1 .. Len(stack) /\ stack[Len(stack)].of = of
  /\ of \in 0 .. Len(h) /\ vals \in Seq(DOMAIN h) /\ i \in Nat /\ i # 0
  /\ Parts(h, list, T, of, vals, i)
  /\ ToSet(list) \cup Done(T) \subseteq V /\ Covers(h, V, ToSet(list) \cup Gone(T)) /\ V \subseteq DOMAIN h
  /\ Source(h, list, of) \in Seq(DOMAIN h)
  /\ \A m \in 1 .. Len(vals) : vals[m] \in V /\ Source(h, list, of)[m] \in V
LEMMA TopFacts ==
  ASSUME NEW h, NEW list, NEW T, NEW stack, ReplaceInv(h, list, T, stack)
  PROVE  \E V : Top(h, list, T, stack, V, Last(stack).of, Last(stack).vals, Last(stack).i)
<1> DEFINE f == Last(stack)
<1>0. PICK V : ToSet(list) \cup Done(T) \subseteq V /\ Covers(h, V, ToSet(list) \cup Gone(T))
  BY DEF ReplaceInv, Covered
<1>1. stack \in Seq(Frames(h)) /\ Len(stack) > 0
  BY DEF ReplaceInv, StackOK
<1>2. Len(stack) \in Nat /\ Len(stack) \in 1 .. Len(stack) /\ f = stack[Len(stack)] /\ f \in Frames(h)
  BY <1>1, TopIs
<1> HIDE DEF f
<1>3. f.of \in 0 .. Len(h) /\ f.vals \in Seq(DOMAIN h) /\ f.i \in Nat
  BY <1>2 DEF Frames
<1>4. FrameOK(h, list, T, f)
  BY <1>2 DEF ReplaceInv, StackOK
<1>5. f.of # 0 => f.of \in V
  BY <1>0, <1>4 DEF FrameOK
<1>6. /\ Source(h, list, f.of) \in Seq(DOMAIN h) /\ V \subseteq DOMAIN h
      /\ \A m \in 1 .. Len(Source(h, list, f.of)) : Source(h, list, f.of)[m] \in V
  BY <1>0, <1>5, SourceIs DEF ReplaceInv
<1>7. \A m \in 1 .. Len(f.vals) : f.vals[m] \in V /\ Source(h, list, f.of)[m] \in V
  BY <1>0, <1>4, <1>6 DEF FrameOK
<1>8. f.i # 0
  BY <1>3, <1>4 DEF FrameOK
<1> QED
  BY <1>0, <1>2, <1>3, <1>4, <1>6, <1>7, <1>8 DEF Top, Parts, FrameOK, f

(* Values that were gone through stay so.                                   *)
LEMMA FrameKept ==
  ASSUME NEW h, NEW list, NEW T, NEW T2, NEW f, FrameOK(h, list, T, f), Gone(T2) = Gone(T), Done(T) \subseteq Done(T2)
  PROVE  FrameOK(h, list, T2, f)
BY DEF FrameOK

At(of, vals, i) == [of |-> of, vals |-> vals, i |-> i]
\* A frame that has gone on.
LEMMA AtIs ==
  ASSUME NEW h, NEW of \in 0 .. Len(h), NEW vals \in Seq(DOMAIN h), NEW i \in Nat
  PROVE  At(of, vals, i) \in Frames(h) /\ At(of, vals, i).of = of /\ At(of, vals, i).vals = vals /\ At(of, vals, i).i = i
<1> DEFINE O == 0 .. Len(h)
           W == Seq(DOMAIN h)
           g == At(of, vals, i)
<1>1. Frames(h) = [of : O, vals : W, i : Nat] /\ of \in O /\ vals \in W
  BY DEF Frames
<1>2. g.of = of /\ g.vals = vals /\ g.i = i /\ g = [of |-> of, vals |-> vals, i |-> i]
  BY DEF At
<1> HIDE DEF O, W, g
<1>3. g \in Frames(h)
  BY <1>1, <1>2
<1> QED
  BY <1>2, <1>3 DEF g

(* A value that is to be replaced is, and one that was gone through stays.  *)
LEMMA Replaced ==
  ASSUME NEW h, NEW list, NEW T, NEW stack, ReplaceInv(h, list, T, stack),
         NEW V, NEW of, NEW vals, NEW i, Top(h, list, T, stack, V, of, vals, i), i <= Len(vals),
         NEW o, o = vals[i], o \in DOMAIN T, NEW x, x = T[o],
         NEW w, w = Put(vals, i, x), NEW g, g = At(of, w, i + 1),
         NEW stack2, stack2 = Append(Front(stack), g)
  PROVE  ReplaceInv(h, list, T, stack2)
<1> DEFINE s == Source(h, list, of)
           n == Len(stack)
           C == Done(T) \cup ToSet(list)
           D == DOMAIN h
<1>0. HeapInv(h) /\ IsList(h, list) /\ TableOK(h, list, T) /\ StackOK(h, list, T, stack)
      /\ Finished(h, list, T, stack) /\ Covered(h, list, T)
  BY DEF ReplaceInv
<1>2. /\ n \in Nat /\ n \in 1 .. n /\ stack[n].of = of
      /\ of \in 0 .. Len(h) /\ vals \in Seq(D) /\ i \in Nat /\ i # 0
      /\ V \subseteq D /\ C \subseteq V /\ s \in Seq(D)
  BY DEF Top
<1>4. /\ Len(vals) = Len(s)
      /\ \A m \in 1 .. Len(vals) : vals[m] = s[m] \/ (s[m] \in Gone(T) /\ vals[m] \in ToSet(list))
      /\ \A m \in 1 .. Len(vals) : m < i => vals[m] \in C /\ (of = 0 => list[m] \in Done(T))
      /\ of # 0 => of \in Done(T) /\ h[of].k # "atom"
  BY DEF Parts, Top
<1> HIDE DEF n
<1>3. i \in 1 .. Len(vals) /\ Len(vals) \in Nat
  BY <1>2
<1>5. o \in Gone(T) \/ o \in Done(T)
  BY DEF Gone, Done
<1>6. x \in C /\ (x = s[i] \/ (s[i] \in Gone(T) /\ x \in ToSet(list)))
  <2>1. CASE o \in Gone(T)
    BY <1>0, <1>3, <1>4, <2>1 DEF TableOK
  <2>2. CASE o \in Done(T)
    BY <1>3, <1>4, <2>2 DEF Done
  <2> QED
    BY <1>5, <2>1, <2>2
<1>7. of = 0 => list[i] \in Done(T)
  <2>1. SUFFICES ASSUME of = 0
                 PROVE  list[i] \in Done(T)
    OBVIOUS
  <2>2. s = list
    BY <2>1 DEF Source
  <2>3. list[i] \in ToSet(list)
    <3>1. i \in 1 .. Len(list) /\ list \in Seq(D)
      BY <1>2, <1>3, <1>4, <2>2
    <3> QED
      BY <3>1, ToSetIs
  <2>4. list[i] \notin Gone(T)
    BY <1>0, <2>3 DEF TableOK
  <2> QED
    BY <1>3, <1>4, <1>5, <2>2, <2>4
<1>8. w \in Seq(D) /\ Len(w) = Len(vals) /\ \A m \in 1 .. Len(vals) : w[m] = IF m = i THEN x ELSE vals[m]
  <2>1. x \in D /\ vals \in Seq(D)
    BY <1>2, <1>6
  <2> HIDE DEF D
  <2>2. PutOK(D, vals, i, x, w)
    BY <1>3, <2>1, ExceptIs
  <2> QED
    BY <2>2 DEF PutOK
<1>9. g \in Frames(h) /\ g.of = of /\ g.vals = w /\ g.i = i + 1
  <2>1. i + 1 \in Nat /\ of \in 0 .. Len(h) /\ w \in Seq(DOMAIN h)
    BY <1>2, <1>8
  <2> QED
    BY <2>1, AtIs
<1>10. FrameOK(h, list, T, g)
  <2>2. Source(h, list, g.of) = s /\ Len(w) = Len(s) /\ i + 1 \in 1 .. Len(w) + 1
    BY <1>3, <1>4, <1>8, <1>9
  <2> HIDE DEF s
  <2>3. \A m \in 1 .. Len(w) : w[m] = s[m] \/ (s[m] \in Gone(T) /\ w[m] \in ToSet(list))
    BY <1>4, <1>6, <1>8
  <2>4. \A m \in 1 .. Len(w) : m < i + 1 => w[m] \in C /\ (of = 0 => list[m] \in Done(T))
    <3>1. ASSUME NEW m \in 1 .. Len(w), m < i + 1
          PROVE  w[m] \in C /\ (of = 0 => list[m] \in Done(T))
      <4>1. CASE m = i
        BY <1>3, <1>6, <1>7, <1>8, <4>1
      <4>2. CASE m # i
        <5>1. m < i /\ m \in 1 .. Len(vals)
          BY <1>3, <1>8, <3>1, <4>2
        <5> QED
          BY <1>4, <1>8, <4>2, <5>1
      <4> QED
        BY <4>1, <4>2
    <3> QED
      BY <3>1
  <2> QED
    BY <1>4, <1>9, <2>2, <2>3, <2>4 DEF FrameOK
<1>12. /\ stack2 \in Seq(Frames(h)) /\ Len(stack2) = n
       /\ \A j \in 1 .. n : stack2[j] = IF j = n THEN g ELSE stack[j]
  <2> DEFINE S == Frames(h)
  <2>1. stack \in Seq(S) /\ Len(stack) > 0 /\ g \in S
    BY <1>0, <1>9 DEF StackOK
  <2> HIDE DEF S
  <2>2. TopChanged(S, stack, g, stack2)
    BY <2>1, OnTop
  <2> QED
    BY <2>2 DEF S, n, TopChanged
<1>13. \A j \in 1 .. n : stack2[j].of = stack[j].of
  BY <1>2, <1>9, <1>12
<1>14. \A j \in 1 .. n : FrameOK(h, list, T, stack2[j])
  BY <1>0, <1>10, <1>12 DEF StackOK, n
<1>15. StackOK(h, list, T, stack2)
  BY <1>0, <1>12, <1>13, <1>14 DEF StackOK, n
<1>16. Finished(h, list, T, stack2)
  BY <1>0, <1>12, <1>13 DEF Finished, n
<1> QED
  BY <1>0, <1>15, <1>16 DEF ReplaceInv

(* A value that is met the first time stays, and is gone through next.      *)
Met(T, o) == [x \in DOMAIN T \cup {o} |-> IF x = o THEN o ELSE T[x]]
LEMMA MetIs ==
  ASSUME NEW T, NEW o, o \notin DOMAIN T
  PROVE  /\ Gone(Met(T, o)) = Gone(T) /\ Done(Met(T, o)) = Done(T) \cup {o} /\ o \notin Gone(T) /\ o \notin Done(T)
         /\ \A x \in Gone(T) : Met(T, o)[x] = T[x]
<1>1. /\ DOMAIN Met(T, o) = DOMAIN T \cup {o} /\ Met(T, o)[o] = o
      /\ \A x \in DOMAIN T : x # o /\ Met(T, o)[x] = T[x]
  BY DEF Met
<1> QED
  BY <1>1 DEF Gone, Done

MovedOK(h, list, T2, stack, stack2, o) ==
  /\ HeapInv(h) /\ IsList(h, list) /\ TableOK(h, list, T2) /\ StackOK(h, list, T2, stack2)
  /\ Covered(h, list, T2) /\ Len(stack2) = Len(stack) /\ \A j \in 1 .. Len(stack) : stack2[j].of = stack[j].of
  /\ o \in DOMAIN h /\ o \in Done(T2)
LEMMA Moved ==
  ASSUME NEW h, NEW list, NEW T, NEW stack, ReplaceInv(h, list, T, stack),
         NEW V, NEW of, NEW vals, NEW i, Top(h, list, T, stack, V, of, vals, i), i <= Len(vals),
         NEW o, o = vals[i], o \notin DOMAIN T, NEW T2, T2 = Met(T, o),
         NEW g, g = At(of, vals, i + 1),
         NEW stack2, stack2 = Append(Front(stack), g)
  PROVE  MovedOK(h, list, T2, stack, stack2, o)
<1> DEFINE s == Source(h, list, of)
           n == Len(stack)
           C == Done(T) \cup ToSet(list)
           C2 == Done(T2) \cup ToSet(list)
           D == DOMAIN h
<1>0. HeapInv(h) /\ IsList(h, list) /\ TableOK(h, list, T) /\ StackOK(h, list, T, stack)
  BY DEF ReplaceInv
<1>1. Gone(T2) = Gone(T) /\ Done(T2) = Done(T) \cup {o} /\ o \notin Gone(T) /\ \A x \in Gone(T) : T2[x] = T[x]
  BY MetIs
<1>2. /\ n \in Nat /\ n \in 1 .. n /\ stack[n].of = of
      /\ of \in 0 .. Len(h) /\ vals \in Seq(D) /\ i \in Nat /\ i # 0
      /\ V \subseteq D /\ C \subseteq V /\ s \in Seq(D) /\ \A m \in 1 .. Len(vals) : vals[m] \in V
      /\ Covers(h, V, ToSet(list) \cup Gone(T))
  BY DEF Top
<1>4. /\ Len(vals) = Len(s)
      /\ \A m \in 1 .. Len(vals) : vals[m] = s[m] \/ (s[m] \in Gone(T) /\ vals[m] \in ToSet(list))
      /\ \A m \in 1 .. Len(vals) : m < i => vals[m] \in C /\ (of = 0 => list[m] \in Done(T))
      /\ of # 0 => of \in Done(T) /\ h[of].k # "atom"
  BY DEF Parts, Top
<1> HIDE DEF n
<1>3. i \in 1 .. Len(vals) /\ Len(vals) \in Nat /\ o \in V
  BY <1>2
<1>5. TableOK(h, list, T2)
  BY <1>0, <1>1 DEF TableOK
<1>6. Covered(h, list, T2)
  BY <1>1, <1>2, <1>3 DEF Covered
<1>7. of = 0 => list[i] \in Done(T2)
  <2>1. SUFFICES ASSUME of = 0
                 PROVE  list[i] \in Done(T2)
    OBVIOUS
  <2>2. s = list
    BY <2>1 DEF Source
  <2>3. list[i] \in ToSet(list)
    <3>1. i \in 1 .. Len(list) /\ list \in Seq(D)
      BY <1>2, <1>3, <1>4, <2>2
    <3> QED
      BY <3>1, ToSetIs
  <2>4. list[i] \notin Gone(T)
    BY <1>0, <2>3 DEF TableOK
  <2> QED
    BY <1>1, <1>3, <1>4, <2>2, <2>4
<1>9. g \in Frames(h) /\ g.of = of /\ g.vals = vals /\ g.i = i + 1
  <2>1. i + 1 \in Nat /\ of \in 0 .. Len(h) /\ vals \in Seq(DOMAIN h)
    BY <1>2
  <2> QED
    BY <2>1, AtIs
<1>10. FrameOK(h, list, T2, g)
  <2>2. Source(h, list, g.of) = s /\ i + 1 \in 1 .. Len(vals) + 1
    BY <1>3, <1>9
  <2> HIDE DEF s
  <2>3. \A m \in 1 .. Len(vals) : vals[m] = s[m] \/ (s[m] \in Gone(T2) /\ vals[m] \in ToSet(list))
    BY <1>1, <1>4
  <2>4. \A m \in 1 .. Len(vals) : m < i + 1 => vals[m] \in C2 /\ (of = 0 => list[m] \in Done(T2))
    <3>1. ASSUME NEW m \in 1 .. Len(vals), m < i + 1
          PROVE  vals[m] \in C2 /\ (of = 0 => list[m] \in Done(T2))
      <4>1. CASE m = i
        BY <1>1, <1>7, <4>1
      <4>2. CASE m # i
        <5>1. m < i
          BY <1>3, <3>1, <4>2
        <5> QED
          BY <1>1, <1>4, <5>1
      <4> QED
        BY <4>1, <4>2
    <3> QED
      BY <3>1
  <2> QED
    BY <1>1, <1>4, <1>9, <2>2, <2>3, <2>4 DEF FrameOK
<1>12. /\ stack2 \in Seq(Frames(h)) /\ Len(stack2) = n
       /\ \A j \in 1 .. n : stack2[j] = IF j = n THEN g ELSE stack[j]
  <2> DEFINE S == Frames(h)
  <2>1. stack \in Seq(S) /\ Len(stack) > 0 /\ g \in S
    BY <1>0, <1>9 DEF StackOK
  <2> HIDE DEF S
  <2>2. TopChanged(S, stack, g, stack2)
    BY <2>1, OnTop
  <2> QED
    BY <2>2 DEF S, n, TopChanged
<1>13. \A j \in 1 .. n : stack2[j].of = stack[j].of
  BY <1>2, <1>9, <1>12
<1>14. \A j \in 1 .. n : FrameOK(h, list, T2, stack2[j])
  <2>1. \A j \in 1 .. n : FrameOK(h, list, T, stack[j])
    BY <1>0 DEF StackOK, n
  <2>2. \A j \in 1 .. n : FrameOK(h, list, T2, stack[j])
    BY <1>1, <2>1, FrameKept
  <2> QED
    BY <1>10, <1>12, <2>2
<1>15. StackOK(h, list, T2, stack2)
  BY <1>0, <1>12, <1>13, <1>14 DEF StackOK, n
<1> QED
  BY <1>0, <1>1, <1>2, <1>3, <1>5, <1>6, <1>12, <1>13, <1>15 DEF n, MovedOK

\* The values of an object that is met are gone through before the others.
LEMMA Visited ==
  ASSUME NEW h, NEW list, NEW T, NEW stack, ReplaceInv(h, list, T, stack),
         NEW V, NEW of, NEW vals, NEW i, Top(h, list, T, stack, V, of, vals, i), i <= Len(vals),
         NEW o, o = vals[i], o \notin DOMAIN T, NEW T2, T2 = Met(T, o),
         NEW stack1, stack1 = Append(Front(stack), At(of, vals, i + 1)),
         NEW stack2, stack2 = stack1 \o (IF h[o].k = "atom" THEN << >> ELSE <<Frame(o, Vals(h[o]))>>)
  PROVE  ReplaceInv(h, list, T2, stack2)
<1> DEFINE n == Len(stack)
           S == Frames(h)
           p == Frame(o, Vals(h[o]))
<1>1. /\ HeapInv(h) /\ IsList(h, list) /\ TableOK(h, list, T2) /\ StackOK(h, list, T2, stack1)
      /\ Covered(h, list, T2) /\ Len(stack1) = n /\ \A j \in 1 .. n : stack1[j].of = stack[j].of
      /\ o \in DOMAIN h /\ o \in Done(T2)
  <2>1. MovedOK(h, list, T2, stack, stack1, o)
    BY Moved
  <2> QED
    BY <2>1 DEF MovedOK
<1>2. Done(T2) = Done(T) \cup {o} /\ o \notin Done(T)
  BY MetIs
<1>3. /\ \A x \in Done(T) : (\A j \in 1 .. n : stack[j].of # x) => Held(h[x]) \subseteq Done(T) \cup ToSet(list)
      /\ \A j \in 1 .. n : stack[j].of = 0 \/ stack[j].of \in Done(T)
  BY DEF ReplaceInv, Finished, StackOK, FrameOK
<1>4. stack1 \in Seq(S) /\ n \in Nat /\ n > 0
      /\ (\A j \in 1 .. n : FrameOK(h, list, T2, stack1[j]) /\ (stack1[j].of = 0 <=> j = 1))
      /\ \A j, k \in 1 .. n : stack1[j].of = stack1[k].of => j = k
  <2>1. stack1 \in Seq(S) /\ n > 0
    BY <1>1 DEF StackOK
  <2>2. n \in Nat
    BY <1>1, <2>1
  <2> HIDE DEF n
  <2> QED
    BY <1>1, <2>1, <2>2 DEF StackOK
<1>5. o # 0 /\ o \in 0 .. Len(h) /\ Vals(h[o]) \in Seq(DOMAIN h)
  BY <1>1, HeapFacts DEF HeapInv
<1> HIDE DEF n, S
<1>6. CASE h[o].k = "atom"
  <2>1. stack2 = stack1
    BY <1>4, <1>6
  <2>2. Held(h[o]) = {}
    BY <1>6, HeldOfOne
  <2>3. Finished(h, list, T2, stack2)
    BY <1>1, <1>2, <1>3, <2>1, <2>2 DEF Finished
  <2> QED
    BY <1>1, <2>1, <2>3 DEF ReplaceInv
<1>7. CASE h[o].k # "atom"
  <2>1. p.of = o /\ p.vals = Vals(h[o]) /\ p.i = 1 /\ p \in S
    <3>1. 1 \in Nat
      OBVIOUS
    <3>2. p = At(o, Vals(h[o]), 1)
      BY DEF Frame, At
    <3> QED
      BY <1>5, <3>1, <3>2, AtIs DEF S
  <2>2. stack2 = stack1 \o <<p>>
    BY <1>7
  <2> HIDE DEF p
  <2>3. stack2 \in Seq(S) /\ Len(stack2) = n + 1 /\ stack2[n + 1] = p /\ \A j \in 1 .. n : stack2[j] = stack1[j]
    BY <1>1, <1>4, <2>1, <2>2
  <2>4. FrameOK(h, list, T2, p)
    <3>1. Source(h, list, o) = Vals(h[o]) /\ Len(Vals(h[o])) \in Nat
      BY <1>5 DEF Source
    <3> QED
      BY <1>1, <1>5, <1>7, <2>1, <3>1 DEF FrameOK
  <2>5. \A j \in 1 .. n + 1 : j = n + 1 \/ j \in 1 .. n
    BY <1>4
  <2>5a. \A j \in 1 .. n : stack2[j].of = stack[j].of /\ stack2[j].of = stack1[j].of
    BY <1>1, <2>3
  <2>6. \A j \in 1 .. n : stack2[j].of # o
    BY <1>2, <1>3, <1>5, <2>5a
  <2>7. StackOK(h, list, T2, stack2)
    <3>1. \A j \in 1 .. n + 1 : FrameOK(h, list, T2, stack2[j]) /\ (stack2[j].of = 0 <=> j = 1)
      <4>1. \A j \in 1 .. n : FrameOK(h, list, T2, stack2[j]) /\ (stack2[j].of = 0 <=> j = 1)
        BY <1>4, <2>3
      <4>2. n + 1 # 1 /\ stack2[n + 1].of # 0 /\ FrameOK(h, list, T2, stack2[n + 1])
        BY <1>4, <1>5, <2>1, <2>3, <2>4
      <4> QED
        BY <2>5, <4>1, <4>2
    <3>2. \A j, k \in 1 .. n + 1 : stack2[j].of = stack2[k].of => j = k
      BY <1>4, <2>1, <2>3, <2>5, <2>6
    <3>3. stack2 \in Seq(Frames(h)) /\ Len(stack2) = n + 1 /\ n + 1 > 0
      BY <1>4, <2>3 DEF S
    <3> QED
      BY <3>1, <3>2, <3>3 DEF StackOK
  <2>8. Finished(h, list, T2, stack2)
    <3>1. ASSUME NEW x \in Done(T2), \A j \in 1 .. n + 1 : stack2[j].of # x
          PROVE  Held(h[x]) \subseteq Done(T2) \cup ToSet(list)
      <4>1. x # o /\ x \in Done(T)
        BY <1>2, <1>4, <2>1, <2>3, <3>1
      <4>2. \A j \in 1 .. n : stack[j].of # x
        <5>1. \A j \in 1 .. n : j \in 1 .. n + 1
          BY <1>4
        <5> QED
          BY <2>5a, <3>1, <5>1
      <4> QED
        BY <1>2, <1>3, <4>1, <4>2
    <3> QED
      BY <2>3, <3>1 DEF Finished
  <2> QED
    BY <1>1, <2>7, <2>8 DEF ReplaceInv
<1> QED
  BY <1>6, <1>7

(* When the list has been gone through, it is as before, and what has been  *)
(* gone through is all that it leads to.                                    *)
LEMMA ListReplaced ==
  ASSUME NEW h, NEW list, NEW T, NEW stack, ReplaceInv(h, list, T, stack),
         NEW V, NEW vals, NEW i, Top(h, list, T, stack, V, 0, vals, i), i > Len(vals)
  PROVE  NextInv(h, vals)
<1> DEFINE n == Len(stack)
           C == Done(T) \cup ToSet(list)
<1>0. HeapInv(h) /\ IsList(h, list) /\ TableOK(h, list, T) /\ StackOK(h, list, T, stack) /\ Finished(h, list, T, stack)
  BY DEF ReplaceInv
<1>1. /\ n \in Nat /\ n \in 1 .. n /\ stack[n].of = 0 /\ vals \in Seq(DOMAIN h) /\ i \in Nat
      /\ V \subseteq DOMAIN h /\ C \subseteq V /\ Covers(h, V, ToSet(list) \cup Gone(T))
  BY DEF Top
<1>2. n = 1 /\ \A j \in 1 .. n : stack[j].of = 0
  <2>1. \A j \in 1 .. n : stack[j].of = 0 <=> j = 1
    BY <1>0 DEF StackOK
  <2> HIDE DEF n
  <2>2. n = 1
    BY <1>1, <2>1
  <2> QED
    BY <2>1, <2>2
<1>3. list \in Seq(DOMAIN h) /\ Len(vals) = Len(list) /\ Len(list) \in Nat /\ Len(vals) \in Nat
  BY <1>0, <1>1 DEF Parts, Top, Source, IsList
<1>4. ASSUME NEW m \in 1 .. Len(list)
      PROVE  vals[m] = list[m] /\ list[m] \in Done(T)
  <2>1. list[m] \in ToSet(list)
    BY <1>3, ToSetIs
  <2>2. list[m] \notin Gone(T)
    BY <1>0, <2>1 DEF TableOK
  <2>3. m < i /\ m \in 1 .. Len(vals)
    BY <1>1, <1>3
  <2> QED
    BY <2>2, <2>3 DEF Parts, Top, Source
<1>5. vals = list
  <2>1. DOMAIN vals = 1 .. Len(list) /\ DOMAIN list = 1 .. Len(list)
        /\ vals = [m \in 1 .. Len(list) |-> vals[m]] /\ list = [m \in 1 .. Len(list) |-> list[m]]
    BY <1>1, <1>3
  <2> QED
    BY <1>4, <2>1
<1>6. ToSet(list) \subseteq Done(T)
  BY <1>3, <1>4, ToSetIn
<1>7. \A o \in Done(T) : Held(h[o]) \subseteq Done(T)
  <2>1. \A o \in Done(T) : o # 0
    <3>1. 0 \notin DOMAIN h
      BY <1>0, HeapFacts DEF HeapInv
    <3> QED
      BY <1>1, <3>1
  <2>2. \A o \in Done(T) : \A j \in 1 .. Len(stack) : stack[j].of # o
    BY <1>2, <2>1
  <2> QED
    BY <1>0, <1>6, <2>2 DEF Finished
<1>8. Covers(h, Done(T), ToSet(list))
  BY <1>1, <1>7 DEF Covers, Done, Gone
<1> QED
  BY <1>0, <1>5, <1>6, <1>8 DEF NextInv

(* When an object has been gone through, it holds only objects that have    *)
(* been, or the list's.                                                     *)
LEMMA NodeReplaced ==
  ASSUME NEW h, NEW list, NEW T, NEW stack, ReplaceInv(h, list, T, stack),
         NEW V, NEW of, NEW vals, NEW i, Top(h, list, T, stack, V, of, vals, i), i > Len(vals), of # 0,
         NEW h2, h2 = [h EXCEPT ![of] = WithVals(@, vals)]
  PROVE  ReplaceInv(h2, list, T, Front(stack))
<1> DEFINE n == Len(stack)
           C == Done(T) \cup ToSet(list)
           D == DOMAIN h
           L == Len(h)
           m2 == WithVals(h[of], vals)
           stack2 == Front(stack)
<1>0. HeapInv(h) /\ IsList(h, list) /\ TableOK(h, list, T) /\ StackOK(h, list, T, stack) /\ Finished(h, list, T, stack)
  BY DEF ReplaceInv
<1>1. /\ n \in Nat /\ n \in 1 .. n /\ stack[n].of = of /\ vals \in Seq(D) /\ i \in Nat
      /\ V \subseteq D /\ C \subseteq V /\ Covers(h, V, ToSet(list) \cup Gone(T))
  BY DEF Top
<1>2. of \in Done(T) /\ of \in D /\ h[of].k # "atom"
  BY <1>1 DEF Parts, Top
<1>3. /\ L \in Nat /\ D = 1 .. L /\ IsHeap(h) /\ h = [o \in 1 .. L |-> h[o]]
      /\ \A o \in D : IsNode(h[o], D) /\ Vals(h[o]) \in Seq(D)
  BY <1>0, HeapFacts DEF HeapInv, IsHeap
<1>4. /\ Len(vals) = Len(Vals(h[of])) /\ Len(vals) \in Nat
      /\ \A m \in 1 .. Len(vals) : vals[m] = Vals(h[of])[m] \/ (Vals(h[of])[m] \in Gone(T) /\ vals[m] \in ToSet(list))
      /\ \A m \in 1 .. Len(vals) : vals[m] \in C
  <2>1. Len(vals) = Len(Vals(h[of])) /\ Len(vals) \in Nat
    BY <1>1 DEF Parts, Top, Source
  <2>2. \A m \in 1 .. Len(vals) : vals[m] = Vals(h[of])[m] \/ (Vals(h[of])[m] \in Gone(T) /\ vals[m] \in ToSet(list))
    BY DEF Parts, Top, Source
  <2>3. \A m \in 1 .. Len(vals) : m < i
    BY <1>1, <2>1
  <2>4. \A m \in 1 .. Len(vals) : m < i => vals[m] \in C
    BY DEF Parts, Top
  <2> QED
    BY <2>1, <2>2, <2>3, <2>4
<1>5. IsNode(m2, D) /\ m2.k = h[of].k /\ Vals(m2) = vals
  <2> DEFINE nd == h[of]
  <2>1. IsNode(nd, D) /\ nd.k # "atom" /\ vals \in Seq(D) /\ Len(vals) = Len(Vals(nd))
    BY <1>1, <1>2, <1>3, <1>4
  <2> HIDE DEF nd, D
  <2>2. IsNode(WithVals(nd, vals), D) /\ WithVals(nd, vals).k = nd.k /\ Vals(WithVals(nd, vals)) = vals
    BY <2>1, WithValsIs
  <2> QED
    BY <2>2 DEF nd
<1>6. DOMAIN h2 = 1 .. L /\ h2 = [o \in 1 .. L |-> h2[o]] /\ h2[of] = m2 /\ \A o \in D : o # of => h2[o] = h[o]
  BY <1>2, <1>3
<1> HIDE DEF m2, L
<1>7. IsHeap(h2) /\ Len(h2) = L
  <2>1. \A o \in 1 .. L : IsNode(h2[o], 1 .. L)
    BY <1>3, <1>5, <1>6
  <2> QED
    BY <1>3, <1>6, <2>1, IsHeapOf
<1> HIDE DEF n
<1>8. \A o \in D : h2[o].k = h[o].k
  BY <1>5, <1>6
<1>9. Held(h2[of]) = ToSet(vals) /\ ToSet(vals) \subseteq C /\ ToSet(vals) \subseteq Held(h[of]) \cup ToSet(list)
  <2>1. Held(h2[of]) = ToSet(vals)
    BY <1>5, <1>6 DEF Held
  <2>2. ToSet(vals) \subseteq C
    <3>1. vals \in Seq(D) /\ \A m \in 1 .. Len(vals) : vals[m] \in C
      BY <1>1, <1>4
    <3> HIDE DEF C, D
    <3> QED
      BY <3>1, ToSetIn
  <2>3. ToSet(vals) \subseteq Held(h[of]) \cup ToSet(list)
    <3> DEFINE u == Vals(h[of])
               E == Held(h[of]) \cup ToSet(list)
    <3>1. u \in Seq(D) /\ Len(vals) = Len(u)
      BY <1>2, <1>3, <1>4
    <3>2. \A m \in 1 .. Len(vals) : vals[m] = u[m] \/ vals[m] \in ToSet(list)
      BY <1>4
    <3>3. Held(h[of]) = ToSet(u)
      BY DEF Held
    <3> HIDE DEF u, D
    <3>4. \A m \in 1 .. Len(u) : u[m] \in ToSet(u)
      BY <3>1, ToSetIs
    <3>5. \A m \in 1 .. Len(vals) : vals[m] \in E
      BY <3>1, <3>2, <3>3, <3>4
    <3>6. vals \in Seq(D)
      BY <1>1
    <3> HIDE DEF E
    <3>7. ToSet(vals) \subseteq E
      BY <3>5, <3>6, ToSetIn
    <3> QED
      BY <3>7 DEF E
  <2> QED
    BY <2>1, <2>2, <2>3
<1>10. \A o \in D : h[o].k = "stream" => h2[o].dict = h[o].dict
  <2>1. SUFFICES ASSUME h[of].k = "stream"
                 PROVE  h2[of].dict = h[of].dict
    BY <1>6
  <2>2. Vals(h[of]) = <<h[of].dict>> /\ Vals(m2) = <<m2.dict>>
    BY <1>5, <2>1 DEF Vals
  <2>3. vals = <<m2.dict>> /\ 1 \in 1 .. Len(vals) /\ vals[1] = m2.dict /\ Vals(h[of])[1] = h[of].dict
    BY <1>5, <2>2
  <2>4. h[of].dict \notin Gone(T)
    BY <1>0, <1>2, <2>1 DEF TableOK
  <2> QED
    BY <1>4, <1>6, <2>3, <2>4
<1>11. HeapInv(h2)
  <2> DEFINE A == ToSet(list)
  <2>1. \A a \in A : a \in DOMAIN h2 => h2[a].k # "dict"
    BY <1>0, <1>3, <1>6, <1>8 DEF IsList, Container
  <2>2. \A o \in DOMAIN h : /\ h2[o].k = h[o].k
                            /\ h[o].k = "dict" => Held(h2[o]) \subseteq Held(h[o]) \cup A
                            /\ h[o].k = "stream" => h2[o].dict = h[o].dict
    BY <1>6, <1>8, <1>9, <1>10
  <2>3. DOMAIN h \subseteq DOMAIN h2 /\ \A o \in DOMAIN h2 : o \in DOMAIN h
    BY <1>3, <1>6
  <2> HIDE DEF A
  <2> QED
    BY <1>0, <1>7, <2>1, <2>2, <2>3, GrownHeap
<1>12. IsList(h2, list)
  <2>1. \A o \in ToSet(list) : o \in D
    BY <1>1
  <2> QED
    BY <1>0, <1>3, <1>6, <1>8, <2>1 DEF IsList, Container
<1>13. TableOK(h2, list, T)
  BY <1>0, <1>3, <1>6, <1>8, <1>10 DEF TableOK
<1>14. \A o \in D : Container(h2[o]) <=> Container(h[o])
  BY <1>8 DEF Container
<1>15. Covered(h2, list, T)
  <2>1. \A o \in V : Held(h2[o]) \subseteq V
    BY <1>1, <1>6, <1>9 DEF Covers
  <2>2. \A o \in V : Container(h2[o]) => o \in ToSet(list) \cup Gone(T)
    BY <1>1, <1>14 DEF Covers
  <2> QED
    BY <1>1, <1>3, <1>6, <2>1, <2>2 DEF Covered, Covers
<1>16. /\ stack \in Seq(Frames(h)) /\ n > 0
       /\ \A j \in 1 .. n : FrameOK(h, list, T, stack[j]) /\ (stack[j].of = 0 <=> j = 1)
       /\ \A j, k \in 1 .. n : stack[j].of = stack[k].of => j = k
  BY <1>0 DEF StackOK, n
<1>17. n # 1
  BY <1>1, <1>16
<1>18. /\ stack2 \in Seq(Frames(h)) /\ Len(stack2) = n - 1
       /\ \A j \in 1 .. n - 1 : stack2[j] = stack[j] /\ j \in 1 .. n /\ j # n
  <2> DEFINE S == Frames(h)
  <2>1. stack \in Seq(S) /\ Len(stack) > 0
    BY <1>16 DEF n
  <2> HIDE DEF S
  <2>2. stack2 \in Seq(S) /\ Len(stack2) = Len(stack) - 1
        /\ \A j \in 1 .. Len(stack) - 1 : stack2[j] = stack[j] /\ j \in 1 .. Len(stack) /\ j # Len(stack)
    BY <2>1, TopIs
  <2> QED
    BY <2>2 DEF S, n
<1> HIDE DEF stack2
<1>19. \A j \in 1 .. n - 1 : stack2[j].of # of
  BY <1>1, <1>16, <1>18
<1>20. Frames(h2) = Frames(h)
  BY <1>3, <1>6, <1>7 DEF Frames, L
<1>21. ASSUME NEW j \in 1 .. n - 1
       PROVE  FrameOK(h2, list, T, stack2[j])
  <2> DEFINE f == stack2[j]
  <2>1. FrameOK(h, list, T, f) /\ f.of # of
    BY <1>16, <1>18, <1>19
  <2> HIDE DEF f
  <2>2. f.of # 0 => f.of \in Done(T) /\ f.of \in D /\ h[f.of].k # "atom"
    BY <1>1, <2>1 DEF FrameOK
  <2>3. Source(h2, list, f.of) = Source(h, list, f.of)
    BY <1>6, <2>1, <2>2 DEF Source
  <2>4. f.of # 0 => h2[f.of].k # "atom"
    BY <1>8, <2>2
  <2>5. FrameOK(h2, list, T, f)
    BY <2>1, <2>2, <2>3, <2>4 DEF FrameOK
  <2> QED
    BY <2>5 DEF f
<1>22. StackOK(h2, list, T, stack2)
  <2>1. n - 1 > 0
    BY <1>1, <1>16, <1>17
  <2>2. \A j \in 1 .. n - 1 : stack2[j].of = 0 <=> j = 1
    BY <1>16, <1>18
  <2>3. \A j, k \in 1 .. n - 1 : stack2[j].of = stack2[k].of => j = k
    BY <1>16, <1>18
  <2>4. stack2 \in Seq(Frames(h2))
    BY <1>18, <1>20
  <2> QED
    BY <1>18, <1>21, <2>1, <2>2, <2>3, <2>4 DEF StackOK
<1>23. Finished(h2, list, T, stack2)
  <2>1. ASSUME NEW o \in Done(T), \A j \in 1 .. n - 1 : stack2[j].of # o
        PROVE  Held(h2[o]) \subseteq C
    <3>1. CASE o = of
      BY <1>9, <3>1
    <3>2. CASE o # of
      <4>1. \A j \in 1 .. n : j = n \/ j \in 1 .. n - 1
        BY <1>1
      <4>2. \A j \in 1 .. n : stack[j].of # o
        BY <1>1, <1>18, <2>1, <3>2, <4>1
      <4>3. Held(h[o]) \subseteq C
        BY <1>0, <4>2 DEF Finished, n
      <4>4. h2[o] = h[o]
        BY <1>1, <1>6, <3>2
      <4> QED
        BY <4>3, <4>4
    <3> QED
      BY <3>1, <3>2
  <2> QED
    BY <1>18, <2>1 DEF Finished
<1> QED
  BY <1>11, <1>12, <1>13, <1>15, <1>22, <1>23 DEF ReplaceInv, stack2

LEMMA AtPut ==
  ASSUME NEW of, NEW vals, NEW i, NEW k, NEW x
  PROVE  [At(of, vals, i) EXCEPT !.vals[k] = x] = At(of, Put(vals, k, x), i)
<1>1. [At(of, vals, i) EXCEPT !.vals[k] = x] = [At(of, vals, i) EXCEPT !.vals = [At(of, vals, i).vals EXCEPT ![k] = x]]
  OBVIOUS
<1>2. At(of, vals, i).vals = vals
  BY DEF At
<1>3. [At(of, vals, i) EXCEPT !.vals = Put(vals, k, x)] = At(of, Put(vals, k, x), i)
  BY DEF At
<1> QED
  BY <1>1, <1>2, <1>3 DEF Put

\* What replaceObjectsInPlace does with the next value.
LEMMA ReplaceNextStep ==
  ASSUME OptIInv, ReplaceNext
  PROVE  OptIInv'
<1> DEFINE h == optim.heap
           list == optim.list
           T == optim.table
           stack == optim.stack
           top == Last(stack)
           of == top.of
           vals == top.vals
           i == top.i
           o == vals[i]
           g == At(of, vals, i + 1)
           w == Put(vals, i, T[o])
           stack1 == Append(Front(stack), g)
           stack2 == stack1 \o (IF h[o].k = "atom" THEN << >> ELSE <<Frame(o, Vals(h[o]))>>)
           stack3 == Append(Front(stack), At(of, w, i + 1))
<1>1. optim.at = "replacing" /\ i <= Len(vals) /\ ReplaceInv(h, list, T, stack) /\ OptShape
  BY DEF ReplaceNext, Topmost, OptIInv
<1>2. PICK V : Top(h, list, T, stack, V, of, vals, i)
  BY <1>1, TopFacts
<1>3. top = At(of, vals, i)
  <2> DEFINE S == Frames(h)
  <2>1. stack \in Seq(S) /\ Len(stack) > 0
    BY <1>1 DEF ReplaceInv, StackOK
  <2> HIDE DEF S
  <2>2. top \in S
    BY <2>1, TopIs
  <2> HIDE DEF top
  <2> QED
    BY <2>2 DEF S, Frames, At
<1>4. [top EXCEPT !.i = @ + 1] = g
  BY <1>3 DEF At
<1>5. CASE o \in DOMAIN T
  <2>1. [[top EXCEPT !.i = @ + 1] EXCEPT !.vals[i] = T[o]] = At(of, w, i + 1)
    <3> DEFINE r == [top EXCEPT !.i = @ + 1]
               x == T[o]
               k == i + 1
    <3>1. r = At(of, vals, k)
      BY <1>4
    <3> HIDE DEF r, x, k, of, vals, i
    <3>2. [At(of, vals, k) EXCEPT !.vals[i] = x] = At(of, Put(vals, i, x), k)
      BY AtPut
    <3>3. [r EXCEPT !.vals[i] = x] = At(of, Put(vals, i, x), k)
      BY <3>1, <3>2
    <3> QED
      BY <3>3 DEF r, x, k
  <2>2. optim' = [optim EXCEPT !.stack = stack3]
    BY <1>5, <2>1 DEF ReplaceNext, Topmost, Below
  <2>3. ReplaceInv(h, list, T, stack3)
    <3> DEFINE x == T[o]
    <3>1. o \in DOMAIN T /\ w = Put(vals, i, x)
      BY <1>5
    <3> HIDE DEF h, list, T, stack, of, vals, i, o, w, x
    <3> QED
      BY <1>1, <1>2, <3>1, Replaced DEF o, x
  <2> HIDE DEF stack3
  <2>4. optim' = [at |-> "replacing", chain |-> optim.chain, heap |-> h, list |-> list,
                  table |-> T, stack |-> stack3, was |-> optim.was]
    BY <1>1, <2>2 DEF OptShape
  <2> QED
    BY <2>3, <2>4 DEF OptIInv, OptShape
<1>6. CASE o \notin DOMAIN T
  <2>1. Append(Front(stack), [top EXCEPT !.i = @ + 1]) = stack1
    BY <1>4
  <2>2. optim' = [optim EXCEPT !.table = Met(T, o), !.stack = stack2]
    BY <1>6, <2>1 DEF ReplaceNext, Topmost, Below, Met
  <2>3. ReplaceInv(h, list, Met(T, o), stack2)
    <3>1. o \notin DOMAIN T
      BY <1>6
    <3> HIDE DEF h, list, T, stack, of, vals, i, o
    <3> QED
      BY <1>1, <1>2, <3>1, Visited DEF o
  <2> HIDE DEF stack2
  <2>4. optim' = [at |-> "replacing", chain |-> optim.chain, heap |-> h, list |-> list,
                  table |-> Met(T, o), stack |-> stack2, was |-> optim.was]
    BY <1>1, <2>2 DEF OptShape
  <2> QED
    BY <2>3, <2>4 DEF OptIInv, OptShape
<1> QED
  BY <1>5, <1>6

\* What it does at the end of the values.
LEMMA ReplaceEndStep ==
  ASSUME OptIInv, ReplaceEnd
  PROVE  OptIInv'
<1> DEFINE h == optim.heap
           list == optim.list
           T == optim.table
           stack == optim.stack
           of == Last(stack).of
           vals == Last(stack).vals
           i == Last(stack).i
           h2 == [h EXCEPT ![of] = WithVals(@, vals)]
           stack2 == Front(stack)
<1>1. optim.at = "replacing" /\ i > Len(vals) /\ ReplaceInv(h, list, T, stack) /\ OptShape
  BY DEF ReplaceEnd, Topmost, OptIInv
<1>2. PICK V : Top(h, list, T, stack, V, of, vals, i)
  BY <1>1, TopFacts
<1>3. CASE of = 0
  <2>1. optim' = [optim EXCEPT !.at = "next", !.list = vals, !.stack = << >>, !.table = << >>]
    BY <1>3 DEF ReplaceEnd, Topmost
  <2>2. NextInv(h, vals)
    <3>1. Top(h, list, T, stack, V, 0, vals, i)
      BY <1>2, <1>3
    <3> HIDE DEF h, list, T, stack, of, vals, i
    <3> QED
      BY <1>1, <3>1, ListReplaced
  <2> HIDE DEF vals
  <2>3. optim' = [at |-> "next", chain |-> optim.chain, heap |-> h, list |-> vals,
                  table |-> << >>, stack |-> << >>, was |-> optim.was]
    BY <1>1, <2>1 DEF OptShape
  <2> QED
    BY <2>2, <2>3 DEF OptIInv, OptShape
<1>4. CASE of # 0
  <2>1. optim' = [optim EXCEPT !.heap = h2, !.stack = stack2]
    BY <1>1, <1>4 DEF ReplaceEnd, Topmost, Below, OptShape
  <2>2. ReplaceInv(h2, list, T, stack2)
    <3>1. of # 0
      BY <1>4
    <3> HIDE DEF h, list, T, stack, of, vals, i
    <3> QED
      BY <1>1, <1>2, <3>1, NodeReplaced
  <2> HIDE DEF h2, stack2
  <2>3. optim' = [at |-> "replacing", chain |-> optim.chain, heap |-> h2, list |-> list,
                  table |-> T, stack |-> stack2, was |-> optim.was]
    BY <1>1, <2>1 DEF OptShape
  <2> QED
    BY <2>2, <2>3 DEF OptIInv, OptShape
<1> QED
  BY <1>3, <1>4

LEMMA OptStutter ==
  ASSUME OptIInv, UNCHANGED optim
  PROVE  OptIInv'
BY DEF OptIInv, OptShape

(* Whichever optimizer is next and whichever value is replaced next, the    *)
(* list, the table of what replaces what and the stack fit the heap.        *)
THEOREM OptInv == OptSpec => []OptIInv
<1>1. ASSUME OptIInv, [OptNext]_optim
      PROVE  OptIInv'
  <2>1. CASE \E doc \in OptDocs, options \in OptOptions : Optimize(doc, options)
    BY <1>1, <2>1, OptimizeStep
  <2>2. CASE CombineDuplicateDirectObjects
    BY <1>1, <2>2, CombineDirectStep
  <2>3. CASE CombineDuplicateStreams
    BY <1>1, <2>3, CombineStreamsStep
  <2>4. CASE CombineIdenticalIndirectObjects
    BY <1>1, <2>4, CombineIdenticalStep
  <2>5. CASE ObjectStreams
    BY <1>1, <2>5, ObjectStreamsStep
  <2>6. CASE CompressStreams
    BY <1>1, <2>6, CompressStreamsStep
  <2>7. CASE ReplaceNext
    BY <1>1, <2>7, ReplaceNextStep
  <2>8. CASE ReplaceEnd
    BY <1>1, <2>8, ReplaceEndStep
  <2>9. CASE UNCHANGED optim
    BY <1>1, <2>9, OptStutter
  <2> QED
    BY <1>1, <2>1, <2>2, <2>3, <2>4, <2>5, <2>6, <2>7, <2>8, <2>9 DEF OptNext
<1> QED
  BY <1>1, OptInitInv, PTL DEF OptSpec

(* After the last optimizer nothing that was combined is still referred to  *)
(* and nothing that is referred to was taken out of the list: a writer that *)
(* writes the list writes every object a reference in the file leads to,    *)
(* and gives each one number.                                               *)
THEOREM ListClosedHolds == OptSpec => []ListClosed
BY OptInv, OptDoneClosed, PTL
=============================================================================

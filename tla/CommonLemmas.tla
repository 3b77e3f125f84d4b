---------------------------- MODULE CommonLemmas ----------------------------
(***************************************************************************)
(* What the proofs about several components need of the natural numbers    *)
(* and of graphs.                                                          *)
(***************************************************************************)
EXTENDS Integers, FiniteSets, Reachable, FiniteSetTheorems, WellFoundedInduction, TLAPS

(* A nonempty set of numbers has a least one.                               *)
LEMMA LeastOf ==
  ASSUME NEW T \in SUBSET Nat, T # {}
  PROVE  \E t \in T : \A u \in T : t <= u
<1>1. PICK t \in T : \A u \in T : <<u, t>> \notin OpToRel(<, Nat)
  BY NatLessThanWellFounded, WFMin
<1>2. ASSUME NEW u \in T
      PROVE  t <= u
  <2>1. ~ (u < t)
    BY <1>1 DEF OpToRel
  <2> QED
    BY <2>1
<1> QED
  BY <1>2

(* What holds of 0 and is passed on holds up to n.                          *)
LEMMA UpTo ==
  ASSUME NEW n \in Nat, NEW G, 0 \in G, \A m \in 1 .. n : m - 1 \in G => m \in G
  PROVE  \A m \in 0 .. n : m \in G
<1> DEFINE Bad == {m \in 0 .. n : m \notin G}
<1> SUFFICES ASSUME Bad # {} PROVE FALSE
  OBVIOUS
<1>1. PICK m \in Bad : \A k \in Bad : m <= k
  <2>1. Bad \in SUBSET Nat
    OBVIOUS
  <2> QED
    BY <2>1, LeastOf
<1>2. m \in 1 .. n /\ m - 1 \in 0 .. n /\ m - 1 \notin Bad
  BY <1>1
<1> QED
  BY <1>1, <1>2

(* A function whose values up to n are made one from the other exists.     *)
Iterated(f, n, v, step) == f[0] = v /\ \A i \in 1 .. n : f[i] = step[<<i, f[i - 1]>>]

LEMMA Iterates ==
  ASSUME NEW n \in Nat, NEW V, NEW v \in V, NEW step \in [(1 .. n) \X V -> V]
  PROVE  \E f \in [0 .. n -> V] : Iterated(f, n, v, step)
<1> DEFINE Made(f, m) == \A i \in 0 .. m : f[i] = IF i = 0 THEN v ELSE step[<<i, f[i - 1]>>]
           G == {m \in 0 .. n : \E f \in [0 .. m -> V] : Made(f, m)}
<1>1. 0 \in G
  <2> DEFINE f == [i \in 0 .. 0 |-> v]
  <2>1. f \in [0 .. 0 -> V] /\ Made(f, 0)
    OBVIOUS
  <2> HIDE DEF Made, f
  <2> QED
    BY <2>1
<1>2. ASSUME NEW m \in 1 .. n, m - 1 \in G
      PROVE  m \in G
  <2>1. PICK f \in [0 .. m - 1 -> V] : Made(f, m - 1)
    BY <1>2
  <2> DEFINE x == step[<<m, f[m - 1]>>]
             g == [i \in 0 .. m |-> IF i = m THEN x ELSE f[i]]
  <2>2. m - 1 \in 0 .. m - 1 /\ x \in V
    OBVIOUS
  <2>3. \A i \in 0 .. m : i = m \/ i \in 0 .. m - 1
    OBVIOUS
  <2>4. g \in [0 .. m -> V]
    <3> HIDE DEF x
    <3> QED
      BY <2>2, <2>3
  <2>5. \A i \in 0 .. m - 1 : g[i] = f[i]
    OBVIOUS
  <2>6. g[m] = step[<<m, g[m - 1]>>]
    <3>1. g[m] = x
      OBVIOUS
    <3>2. g[m - 1] = f[m - 1]
      BY <2>2, <2>5
    <3> HIDE DEF g
    <3> QED
      BY <3>1, <3>2
  <2> HIDE DEF g
  <2>7. Made(g, m)
    <3>1. ASSUME NEW i \in 0 .. m - 1
          PROVE  g[i] = IF i = 0 THEN v ELSE step[<<i, g[i - 1]>>]
      <4>1. CASE i = 0
        BY <2>1, <2>5, <4>1
      <4>2. CASE i # 0
        <5>1. i - 1 \in 0 .. m - 1
          BY <4>2
        <5> QED
          BY <2>1, <2>5, <4>2, <5>1
      <4> QED
        BY <4>1, <4>2
    <3> QED
      BY <2>3, <2>6, <3>1
  <2> QED
    BY <2>4, <2>7
<1> HIDE DEF G
<1>3. \A m \in 0 .. n : m \in G
  BY <1>1, <1>2, UpTo
<1>4. PICK f \in [0 .. n -> V] : Made(f, n)
  BY <1>3 DEF G
<1>5. 0 \in 0 .. n /\ \A i \in 1 .. n : i \in 0 .. n /\ i # 0
  OBVIOUS
<1> QED
  BY <1>4, <1>5 DEF Iterated

(* What Closure computes: the least set that is closed.                     *)
LEMMA ClosureLeast ==
  ASSUME NEW N, IsFiniteSet(N), NEW next \in [N -> SUBSET N], NEW S \in SUBSET N
  PROVE  /\ Closure(S, next) \in SUBSET N
         /\ S \subseteq Closure(S, next)
         /\ \A m \in Closure(S, next) : next[m] \subseteq Closure(S, next)
         /\ \A C \in SUBSET N :
              S \subseteq C /\ (\A m \in C : next[m] \subseteq C) => Closure(S, next) \subseteq C
<1> DEFINE G(T) == T \cup UNION {next[m] : m \in T}
           IsClosed(C) == \A m \in C : next[m] \subseteq C
           Least(T) == {n \in N : \A C \in SUBSET N : T \subseteq C /\ IsClosed(C) => n \in C}
           Step(f) == [T \in SUBSET N |-> IF G(T) = T THEN T ELSE f[G(T)]]
           closed == CHOOSE f : f = Step(f)
           F == [T \in SUBSET N |-> Least(T)]
<1>1. \A T \in SUBSET N : G(T) \in SUBSET N /\ T \subseteq G(T)
  OBVIOUS
<1>2. \A T \in SUBSET N : G(T) = T => IsClosed(T)
  OBVIOUS
<1>3. \A T, C \in SUBSET N : T \subseteq C /\ IsClosed(C) => G(T) \subseteq C
  OBVIOUS
<1> HIDE DEF G, IsClosed
<1>4. \A T \in SUBSET N : G(T) = T => Least(T) = T
  BY <1>2
<1>5. \A T \in SUBSET N : Least(T) = Least(G(T))
  BY <1>1, <1>3
<1>6. \A T \in SUBSET N : T \subseteq Least(T) /\ Least(T) \in SUBSET N
  OBVIOUS
<1> HIDE DEF Least
<1>7. F = Step(F)
  BY <1>1, <1>4, <1>5
<1>8. closed = Step(closed)
  BY <1>7
<1> HIDE DEF closed
<1>9. \A T \in SUBSET N : closed[T] = IF G(T) = T THEN T ELSE closed[G(T)]
  BY <1>8
<1>10. \A T \in SUBSET N : closed[T] = Least(T)
  <2> DEFINE Bad == {T \in SUBSET N : closed[T] # Least(T)}
             Sizes == {k \in Nat : \E T \in Bad : k = Cardinality(N \ T)}
  <2> SUFFICES ASSUME Bad # {}
               PROVE  FALSE
    OBVIOUS
  <2>1. \A T \in SUBSET N : IsFiniteSet(N \ T) /\ Cardinality(N \ T) \in Nat
    BY FS_Subset, FS_CardinalityType
  <2>2. Sizes # {}
    BY <2>1
  <2>3. PICK k \in Sizes : \A l \in Sizes : k <= l
    <3> HIDE DEF Sizes
    <3> QED
      <4>1. Sizes \in SUBSET Nat
        BY DEF Sizes
      <4> QED
        BY <2>2, <4>1, LeastOf
  <2>4. PICK T \in Bad : k = Cardinality(N \ T)
    BY <2>3
  <2>5. G(T) # T
    BY <1>4, <1>9
  <2>6. G(T) \in Bad
    BY <1>1, <1>5, <1>9, <2>5
  <2> DEFINE l == Cardinality(N \ G(T))
  <2>7. /\ T \in SUBSET N /\ G(T) \in SUBSET N
        /\ k \in Nat /\ l \in Nat /\ l \in Sizes
    BY <1>1, <2>1, <2>6
  <2>8. l <= k /\ l # k
    <3>1. N \ G(T) \in SUBSET (N \ T) /\ N \ G(T) # N \ T
      BY <1>1, <2>5
    <3> QED
      BY <2>1, <2>4, <2>7, <3>1, FS_Subset
  <2> HIDE DEF l, Sizes
  <2> QED
    BY <2>3, <2>7, <2>8
<1>11. Closure(S, next) = Least(S)
  <2>1. Closure(S, next) = closed[S]
    BY DEF Closure, closed, G
  <2> QED
    BY <1>10, <2>1
<1>12. IsClosed(Least(S))
  BY DEF Least, IsClosed
<1> QED
  BY <1>6, <1>11, <1>12 DEF Least, IsClosed

(* A set that a sequence of numbers leads through is finite.                *)
LEMMA ListFinite ==
  ASSUME NEW n \in Nat, NEW F, NEW S, \A x \in S : \E i \in 1 .. n : x = F[i]
  PROVE  IsFiniteSet(S) /\ Cardinality(S) \in Nat
<1> DEFINE I == {i \in 1 .. n : F[i] \in S}
           G == [i \in I |-> F[i]]
<1>1. IsFiniteSet(I)
  <2>1. IsFiniteSet(1 .. n)
    BY FS_Interval
  <2> QED
    BY <2>1, FS_Subset
<1>2. G \in [I -> S] /\ \A x \in S : \E i \in I : G[i] = x
  OBVIOUS
<1> HIDE DEF G, I
<1>3. G \in Surjection(I, S)
  BY <1>2 DEF Surjection
<1>4. IsFiniteSet(S)
  BY <1>1, <1>3, FS_Surjection
<1> QED
  BY <1>4, FS_CardinalityType

LEMMA IntervalSize ==
  ASSUME NEW n \in Nat
  PROVE  IsFiniteSet(1 .. n) /\ Cardinality(1 .. n) = n
BY FS_Interval

(* A part that is not all is smaller.                                       *)
LEMMA PartSmaller ==
  ASSUME NEW N, IsFiniteSet(N), NEW S \in SUBSET N, NEW T \in SUBSET S
  PROVE  /\ Cardinality(S) \in 0 .. Cardinality(N) /\ Cardinality(N) \in Nat
         /\ T # S => Cardinality(T) < Cardinality(S)
<1>1. IsFiniteSet(S) /\ Cardinality(N) \in Nat /\ Cardinality(S) \in Nat /\ Cardinality(S) <= Cardinality(N)
  BY FS_Subset, FS_CardinalityType
<1>2. Cardinality(T) \in Nat /\ Cardinality(T) <= Cardinality(S) /\ (Cardinality(T) = Cardinality(S) => T = S)
  BY <1>1, FS_Subset, FS_CardinalityType
<1> QED
  BY <1>1, <1>2

(* What a function gives for the elements of a finite set.                  *)
LEMMA FiniteImage ==
  ASSUME NEW S, IsFiniteSet(S), NEW f, DOMAIN f = S, f = [x \in S |-> f[x]]
  PROVE  IsFiniteSet({f[x] : x \in S})
<1> DEFINE T == {f[x] : x \in S}
<1>1. f \in [S -> T] /\ \A t \in T : \E x \in S : f[x] = t
  OBVIOUS
<1> HIDE DEF T
<1>2. f \in Surjection(S, T)
  BY <1>1 DEF Surjection
<1>3. IsFiniteSet(T)
  BY <1>2, FS_Surjection
<1> QED
  BY <1>3 DEF T

(* A function onto a set that is as large gives no value twice.             *)
LEMMA OntoOneToOne ==
  ASSUME NEW D, IsFiniteSet(D), NEW R, IsFiniteSet(R), Cardinality(D) = Cardinality(R),
         NEW f \in [D -> R], \A y \in R : \E x \in D : f[x] = y
  PROVE  \A x, y \in D : f[x] = f[y] => x = y
<1>1. f \in Surjection(D, R)
  BY DEF Surjection
<1>2. f \in Injection(D, R)
  BY <1>1, FS_SurjSameCardinalityImpliesInj
<1> QED
  BY <1>2 DEF Injection, IsInjective
=============================================================================

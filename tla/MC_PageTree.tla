---------------------------- MODULE MC_PageTree ----------------------------
(***************************************************************************)
(* A root r, an intermediate node m, and two pages p and q, linked in many *)
(* ways, proper or not.  x is neither.                                     *)
(***************************************************************************)
EXTENDS PageTree

CONSTANTS r, m, p, q, x, box

AllNodes == {r, m, p, q, x}
AllAttrs == {Resources, box}

Types == [n \in AllNodes |-> CASE n \in {r, m} -> "Pages" [] n = x -> "Other" [] OTHER -> "Page"]

Kids(ofR, ofM) == [n \in AllNodes |-> IF n = r THEN ofR ELSE IF n = m THEN ofM ELSE << >>]

DocOf(kids, par, own, fails, lazy) ==
  [type |-> Types, kids |-> kids, parent |-> par, root |-> r,
   own |-> own, fails |-> fails, lazy |-> lazy]

Owners(sets) == {[n \in AllNodes |-> IF n \in s THEN AllAttrs ELSE {}] : s \in sets}
Some == Owners({{r}, {m}, {r, m, q}, {p, r}})

\* Every node has the Parent that lists it.
ProperDocs ==
  LET par(k) == [n \in AllNodes |-> IF \E u \in {r, m} : n \in Elems(k[u])
                                     THEN CHOOSE u \in {r, m} : n \in Elems(k[u]) ELSE Nil]
      ks == {Kids(<<m, q>>, <<p>>), Kids(<<p, m>>, <<q>>), Kids(<<m>>, <<q, p>>),
             Kids(<<q, m>>, << >>)}
  IN  {DocOf(k, par(k), own, fails, lazy) :
         k \in ks, own \in Some, fails \in {{}, {p}}, lazy \in BOOLEAN}

\* Circles, shared nodes, others, and Parents that are missing or wrong.
OddDocs ==
  LET ks == {Kids(<<m, q>>, <<r, p>>), Kids(<<p, m, p>>, <<q, m>>), Kids(<<q, m, m>>, <<p, q>>),
             Kids(<<p, m>>, <<x, q>>)}
      pars == {[n \in AllNodes |-> IF n = p THEN f[1] ELSE IF n = m THEN f[2]
                                   ELSE IF n = r THEN f[3] ELSE IF n = x THEN f[4] ELSE r] :
                 f \in {Nil, m, q, x} \X {Nil, r, m} \X {Nil, m} \X {r, x, p}}
  IN  {DocOf(k, par, own, fails, lazy) :
         k \in ks, par \in pars, own \in Owners({{r}, {m}}), fails \in {{}, {q}, {m}}, lazy \in BOOLEAN}

AllDocs == ProperDocs \cup OddDocs
SoundDocs == {d \in ProperDocs : ~d.lazy /\ d.fails = {}}
=============================================================================

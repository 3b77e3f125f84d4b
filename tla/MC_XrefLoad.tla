---------------------------- MODULE MC_XrefLoad ----------------------------
(* Sets of xref sections for TLC: every file made of them is an initial     *)
(* state.                                                                   *)
EXTENDS XrefLoad

E(t, g) == [t |-> t, gen |-> g, is |-> IF t \in {"absent", "free"} THEN Nothing ELSE <<1, 0>>]
Absent == E("absent", 0)

Sec(kind, status, es, prevs, stms) ==
  {[kind |-> kind, status |-> status, len |-> Direct,
    ent |-> <<e, Absent>>, prev |-> p, stm |-> x] :
      e \in es, p \in prevs, x \in stms}

Undamaged(secs) ==
  {[sec |-> f, objs |-> {<<1, 0>>}, ints |-> {}, broken |-> {}] : f \in secs}

\* Chains of tables and streams, linked in every way.
ChainFiles ==
  LET links == Offs \cup {NoPrev}
      secs  == Sec("table", "ok", {E("free", 1), E("used", 0), E("used", 1)}, links, {NoPrev})
               \cup
               Sec("stream", "ok", {E("low", 0), E("used", 1), E("packed", 0)}, links, {NoPrev})
  IN  Undamaged({<<s, t, u>> : s \in secs, t \in secs, u \in secs})

Void == [kind |-> "stream", status |-> "unreadable", len |-> Direct,
         ent |-> <<Absent, Absent>>, prev |-> NoPrev, stm |-> NoPrev]

\* Two sections, damaged, with Prev and XRefStm of every kind; nothing at the
\* other offset.
DamagedFiles ==
  LET vals == {1, 2, NoPrev, BadPrev, Nowhere}
      stms == {NoPrev, BadPrev, 2}
      secs == UNION {Sec("table", st, {Absent, E("used", 1)}, vals, stms) :
                       st \in {"ok", "late"}}
              \cup
              UNION {Sec("stream", st, {E("used", 0)}, vals, {NoPrev, 2}) :
                       st \in {"ok", "late", "bad", "unreadable"}}
  IN  Undamaged({<<s, t, Void>> :
                   s \in secs, t \in secs})

\* A table, the xref stream it names and an older one.  The Length of the
\* streams is object 1 or 2; entries lead to the right object, to the other
\* one, or to none.
LengthFiles ==
  LET used(g, is) == [t |-> "used", gen |-> g, is |-> is]
      packed      == [t |-> "packed", gen |-> 0, is |-> <<2, 0>>]
      main(a, b)  == [kind |-> "table", status |-> "ok", len |-> Direct,
                      ent |-> <<a, b>>,
                      prev |-> 3, stm |-> 2]
      stm(n, st, p) == [kind |-> "stream", status |-> st, len |-> n,
                        ent |-> <<used(1, <<1, 1>>), packed>>,
                        prev |-> p, stm |-> NoPrev]
      ones == {Absent, used(0, <<1, 0>>), used(0, Nothing), used(0, <<2, 0>>)}
      twos == {Absent, used(1, <<2, 0>>), used(0, Nothing), used(0, <<1, 1>>)}
  IN  {[sec |-> <<main(a, b), stm(m, "ok", 3), stm(n, st, p)>>,
        objs |-> {<<1, 0>>, <<1, 1>>, <<2, 0>>}, ints |-> i, broken |-> br] :
          a \in ones, b \in twos, m \in {1, 2, Direct}, n \in {1, 2, Direct},
          st \in {"ok", "late"}, p \in {2, NoPrev}, i \in {{1}, {1, 2}}, br \in {{}, {1}}}

AllFiles == ChainFiles \cup DamagedFiles \cup LengthFiles

\* A table and an older one.
RevisedFiles ==
  Undamaged([Offs -> Sec("table", "ok", {Absent, E("free", 1), E("used", 0)},
                         Offs \cup {NoPrev}, {NoPrev})])
=============================================================================

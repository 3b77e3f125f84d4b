-------------------------- MODULE MC_ObjectLookup --------------------------
(* Documents for TLC: every file made of a few kinds of bodies, with every  *)
(* cross reference table.                                                   *)
EXTENDS ObjectLookup

B(kind, num, gen, len, has) ==
  [kind |-> kind, num |-> num, gen |-> gen, len |-> len, has |-> has]

Ints      == {B("int", n, 0, Direct, {}) : n \in Objs}
Streams   == {B("stream", n, 0, l, {}) : n \in Objs, l \in Objs \cup {Direct}}
ObjStms   == {B("objstm", n, 0, l, h) : n \in Objs, l \in Objs \cup {Direct},
                                        h \in SUBSET Objs}
Damaged   == {B("gap", 1, 0, Direct, {})} \cup {B("broken", n, 1, Direct, {}) : n \in Objs}

AtEntries == [t : {"at"}, pos : Pos]
InEntries == [t : {"in"}, os : Objs]

DocsOf(bodies, entries) ==
  [file : [Pos -> bodies], xrefs : [Objs -> entries \cup {NoEntry}]]

\* Documents without damage: integers, streams, and object stream 1 with 2, or
\* with 2 and 3.
IntactDocs ==
  LET bodies == {b \in Ints \cup Streams : b.num # 1} \cup
                {B("objstm", 1, 0, l, h) : l \in {Direct, 2, 3}, h \in {{2}, {2, 3}}}
  IN  {d \in DocsOf(bodies, AtEntries \cup [t : {"in"}, os : {1}]) : Intact(d)}

\* No stream: damage of the table and of the objects only.
FlatDocs == DocsOf(Ints \cup Damaged, AtEntries)

\* Two streams whose lengths refer to each other in every way, and nothing at
\* the last offset.
Gap == B("gap", 1, 0, Direct, {})
LengthDocs ==
  LET short == 1 .. FileSize - 1
  IN  [file : {[p \in Pos |-> IF p \in short THEN f[p] ELSE Gap] :
                 f \in [short -> Ints \cup Streams \cup Damaged]},
       xrefs : [Objs -> [t : {"at"}, pos : short] \cup {NoEntry}]]

DamagedDocs == FlatDocs \cup LengthDocs

\* Everything.
AllDocs == DocsOf(Ints \cup Streams \cup ObjStms \cup Damaged, AtEntries \cup InEntries)
=============================================================================

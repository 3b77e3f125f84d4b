---------------------------- MODULE MC_PdfWriter ----------------------------
(***************************************************************************)
(* Two pages p and q of a source document with the page tree t.  An        *)
(* annotation a on p is a widget of the form field f and links to q; both  *)
(* pages have the content stream c.  oc is a layer that knows page p.      *)
(***************************************************************************)
EXTENDS PdfWriter

CONSTANTS w1, w2, p, q, t, a, c, f, oc, s1, s2, sc, sa

One == {w1}
Two == {w1, w2}
AllNodes == {p, q, t, a, c, f, oc}
AllPages == {p, q}
AllStrs == {s1, s2, sc, sa}

Linked ==
  [kids |-> [n \in AllNodes |->
     CASE n = p -> <<c, a>> [] n = q -> <<c>> [] n = t -> <<p, q>>
       [] n = a -> <<p, q>> [] n = f -> <<a>> [] n = c -> << >> [] n = oc -> <<p>>],
   up |-> [n \in AllNodes |-> IF n \in {p, q} THEN t ELSE IF n = a THEN f ELSE None],
   strs |-> [n \in AllNodes |->
     CASE n = p -> {s1} [] n = q -> {s2} [] n = c -> {sc} [] n = a -> {sa} [] OTHER -> {}],
   streams |-> {c}, lazy |-> {}]

\* The annotation does not link to q.
Plain == [Linked EXCEPT !.kids[a] = <<p>>]

\* Read by NewPdfReaderLazy.
Lazy(d) == [d EXCEPT !.lazy = AllPages]

\* q is a Duplicate of p: the same direct Resources.
Duplicated == [Plain EXCEPT !.strs[q] = Plain.strs[p]]

Any == {Linked, Plain, Lazy(Linked), Lazy(Plain)}
OnlyLazyLinked == {Lazy(Linked)}
OnlyPlain == {Plain}
OnlyLinked == {Linked}
OnlyDuplicated == {Duplicated}

Layer == {<<oc>>}
NoLayer == {}
Unresolved == {<<BadRef>>}
Forms == {f}
NoForms == {}

Sound == {{}, {"rc4"}, {"aes"}, {"modern"}, {"objstm"}, {"rc4", "modern"}}
Ciphers == {{}, {"rc4"}, {"aes"}}
Streamed == {{}, {"objstm"}, {"rc4"}, {"rc4", "objstm"}}
StreamedModern == {{}, {"objstm"}, {"modern"}, {"objstm", "modern"}}
=============================================================================

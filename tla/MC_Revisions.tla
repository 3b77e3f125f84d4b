---------------------------- MODULE MC_Revisions ----------------------------
(***************************************************************************)
(* A file of two pages: the first has a font, an image whose dictionary    *)
(* refers to another object, a link back to it and a field; both share the *)
(* font.  The page of the other document has a font of the same name, and  *)
(* an image of the name that the font gets when the pages are merged.      *)
(*                                                                         *)
(* Signing is a machine of its own: Appender has which objects a revision  *)
(* is made of, Signatures the bytes that are digested; laying out pages is *)
(* a third.  A behaviour is one of one of them.                            *)
(***************************************************************************)
EXTENDS Appender, Signatures, MC_Layout

CONSTANTS p1, p2, s1, s2, font, image, space, link, field, tree, xp, xs, xfont, xnote, xtree

McFile == {p1, p2, s1, s2, font, image, space, link, field, tree}
McExt == {xp, xs, xfont, xnote, xtree}
McStreams == {s1, s2, image, xs}
McPages == <<p1, p2>>
ExtP == xp
McChanges == {<<s1, "data">>, <<image, "dict">>, <<font, "data">>}

McLinks == [n \in McFile \cup McExt |->
  CASE n = image -> {space} [] n \in {link, field} -> {p1} [] n = tree -> {p1, p2}
    [] n = xnote -> {xp} [] n = xtree -> {xp} [] OTHER -> {}]
McUp == [n \in McFile \cup McExt |-> CASE n \in {p1, p2} -> tree [] n = xp -> xtree [] OTHER -> Nil]
McAnnots == [p \in {p1, p2, xp} |-> CASE p = p1 -> {link, field} [] p = p2 -> {} [] p = xp -> {xnote}]
McOwn == {tree, xp}
McFields == <<field>>
McKids == [f \in McFile |-> << >>]

F == <<"F">>
X == <<"X">>
G == <<"F", 1>>
Only(n, o) == [m \in {n} |-> o]
\* Shadings, fonts and images; patterns are in nobody's page here.
McRes == [p \in {p1, p2, xp} |->
  CASE p = p1 -> [Font |-> Only(F, font), XObject |-> Only(X, image)]
    [] p = p2 -> [Font |-> Only(F, font), XObject |-> Nil]
    [] p = xp -> [Font |-> Only(F, xfont), XObject |-> Only(G, xfont)]]
McText == [p \in {p1, p2, xp} |-> CASE p = p1 -> {s1} [] p = p2 -> {s2} [] p = xp -> {xs}]

\* The client changed nothing or all of these.
RevInit == AppInit /\ changed \in {{}, Changes} /\ SigInit /\ LayoutInit
RevNext ==
  \/ SigInit /\ LayoutIdle /\ AppNext /\ UNCHANGED <<sigVars, LayoutVars>>
  \/ AppInit /\ changed = {} /\ LayoutIdle /\ SigNext /\ UNCHANGED <<appVars, LayoutVars>>
  \/ AppInit /\ changed = {} /\ SigInit /\ LayoutNext /\ UNCHANGED <<appVars, sigVars>>
RevSpec == RevInit /\ [][RevNext]_<<appVars, sigVars, LayoutVars>>
=============================================================================

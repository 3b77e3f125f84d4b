------------------------------ MODULE Reachable ------------------------------
(***************************************************************************)
(* What can be reached in a graph: next maps a node to a set of nodes.     *)
(***************************************************************************)

\* All that is in S, and all that can be reached from it.
Closure(S, next) ==
  LET closed[T \in SUBSET DOMAIN next] ==
        LET g == T \cup UNION {next[m] : m \in T} IN IF g = T THEN T ELSE closed[g]
  IN  closed[S]
=============================================================================

---------------------------- MODULE ObjectStore ----------------------------
(***************************************************************************)
(* What core.PdfParser promises to its callers: LookupByNumber answers     *)
(* every request with the object the document has under that number, the   *)
(* same one each time.  How the parser comes by it (cache, cross reference *)
(* table, object streams, stream lengths) is not visible here.             *)
(***************************************************************************)
CONSTANTS Objs,      \* object numbers
          NoRequest, \* no lookup is under way
          NoAnswer   \* the lookup under way has not been answered

VARIABLES value,   \* the object of each number, fixed for a document
          asked,   \* the number being looked up
          answer   \* what the lookup returned

Init ==
  /\ asked = NoRequest
  /\ answer = NoAnswer

Ask(n) ==
  /\ asked = NoRequest \/ answer # NoAnswer
  /\ asked' = n
  /\ answer' = NoAnswer
  /\ UNCHANGED value

Reply ==
  /\ asked # NoRequest
  /\ answer = NoAnswer
  /\ answer' = value[asked]
  /\ UNCHANGED <<value, asked>>

Next == Reply \/ \E n \in Objs : Ask(n)

Spec == Init /\ [][Next]_<<value, asked, answer>>

\* A lookup that was asked for is answered.
FairSpec == Spec /\ WF_<<value, asked, answer>>(Reply)
=============================================================================

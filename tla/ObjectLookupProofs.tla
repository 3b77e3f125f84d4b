------------------------- MODULE ObjectLookupProofs -------------------------
(***************************************************************************)
(* Proofs about ObjectLookup: the types, and the guard against recursive   *)
(* stream lengths, for every file, every cross reference table (right or   *)
(* not) and every sequence of lookups.                                     *)
(***************************************************************************)
EXTENDS ObjectLookup, WellFoundedInduction, TLAPS

-----------------------------------------------------------------------------
(* The stack operations, index by index.                                    *)
LEMMA ShortStack ==
  ASSUME NEW S, NEW f \in S, NEW g \in S
  PROVE  <<f>> \in Seq(S) /\ <<f, g>> \in Seq(S)
OBVIOUS

LEMMA PoppedStack ==
  ASSUME NEW S, NEW s \in Seq(S), s # << >>
  PROVE  /\ Tail(s) \in Seq(S)
         /\ Len(s) \in Nat \ {0} /\ Len(Tail(s)) = Len(s) - 1
         /\ \A i \in 1 .. Len(s) - 1 : Tail(s)[i] = s[i + 1]
         /\ s[1] \in S
OBVIOUS

LEMMA ReplacedTop ==
  ASSUME NEW S, NEW s \in Seq(S), s # << >>, NEW f \in S
  PROVE  LET t == <<f>> \o Tail(s)
         IN  /\ t \in Seq(S)
             /\ Len(t) = Len(s)
             /\ t[1] = f
             /\ \A i \in 2 .. Len(s) : t[i] = s[i]
OBVIOUS

LEMMA PushedFrame ==
  ASSUME NEW S, NEW s \in Seq(S), s # << >>, NEW f \in S, NEW g \in S
  PROVE  LET t == <<g, f>> \o Tail(s)
         IN  /\ t \in Seq(S)
             /\ Len(t) = Len(s) + 1
             /\ t[1] = g /\ t[2] = f
             /\ \A i \in 2 .. Len(s) : t[i + 1] = s[i]
OBVIOUS

-----------------------------------------------------------------------------
(* A frame that waits for a Length stands at a stream with a reference for  *)
(* its Length: what ParseAt saw when it made the frame.                     *)
LengthFrames ==
  \A i \in DOMAIN stack : stack[i].f = "length" =>
    /\ file[stack[i].at].kind \in {"stream", "objstm"}
    /\ file[stack[i].at].len # Direct

(* A nonempty set of numbers has a least one.                               *)
LEMMA LeastNumber ==
  ASSUME NEW T \in SUBSET Nat, T # {}
  PROVE  \E t \in T : \A u \in T : t <= u
<1>1. PICK t \in T : \A u \in T : <<u, t>> \notin OpToRel(<, Nat)
  BY NatLessThanWellFounded, WFMin
<1>2. ASSUME NEW u \in T
      PROVE  t <= u
  <2>1. ~ (u < t)
    BY <1>1 DEF OpToRel
  <2> QED
    BY <2>1
<1> QED
  BY <1>2

(* Among the headers of a number there is one that the scan keeps.          *)
LEMMA KeptIsHeader ==
  ASSUME TypeOK, NEW o \in Objs, Headers(o) # {}
  PROVE  Kept(o) \in Headers(o)
<1> DEFINE H == Headers(o)
           Below == {d \in Nat : \E p \in H : d = MaxGen - file[p].gen}
<1>1. \A p \in H : p \in Nat /\ file[p].gen \in 0 .. MaxGen
  BY DEF TypeOK, Headers, Body, Pos, Gens
<1>2. Below # {}
  <2>1. PICK p \in H : TRUE
    OBVIOUS
  <2>2. MaxGen - file[p].gen \in Below
    BY <1>1, Assumptions
  <2> QED
    BY <2>2
<1>3. PICK d \in Below : \A e \in Below : d <= e
  BY <1>2, LeastNumber
<1> DEFINE First == {p \in H : d = MaxGen - file[p].gen}
<1>4. First # {} /\ First \subseteq Nat
  BY <1>1, <1>3
<1>5. PICK p \in First : \A q \in First : p <= q
  BY <1>4, LeastNumber
<1>6. ASSUME NEW q \in H
      PROVE  \/ file[p].gen > file[q].gen
             \/ file[p].gen = file[q].gen /\ p <= q
  <2>1. MaxGen - file[q].gen \in Below
    BY <1>1, Assumptions
  <2>2. d <= MaxGen - file[q].gen /\ d = MaxGen - file[p].gen
    BY <1>3, <1>5, <2>1
  <2>3. CASE d = MaxGen - file[q].gen
    BY <1>1, <1>5, <2>2, <2>3, Assumptions
  <2>4. CASE d # MaxGen - file[q].gen
    BY <1>1, <2>2, <2>4, Assumptions
  <2> QED
    BY <2>3, <2>4
<1> QED
  BY <1>6 DEF Kept

(* The table the scan of the file makes.                                    *)
LEMMA TopDownType ==
  ASSUME TypeOK
  PROVE  TopDown \in XrefTable
<1>1. \A o \in Objs : Headers(o) # {} => Kept(o) \in Pos
  BY KeptIsHeader DEF Headers
<1> QED
  BY <1>1 DEF TopDown, XrefTable, Entry

-----------------------------------------------------------------------------
(* The frames are frames.                                                   *)
LEMMA FrameTypes ==
  /\ \A n \in Objs, rep \in BOOLEAN : Lookup(n, rep) \in Frame
  /\ \A n \in Objs : Resolving(n) \in Frame
  /\ \A n \in Objs, rep \in BOOLEAN, at \in Pos : Length(n, rep, at) \in Frame
  /\ \A n, os \in Objs : Member(n, os) \in Frame
  /\ \A n, cur \in Objs, old, new \in XrefTable, todo \in SUBSET Objs :
       Rebuild(n, old, todo, cur, new) \in Frame
BY DEF Frame, Lookup, Resolving, Length, Member, Rebuild

(* What the frame on top is made of, by its kind.                           *)
LEMMA TopType ==
  ASSUME TypeOK, stack # << >>
  PROVE  /\ Top \in Frame
         /\ Top.f \in {"lookup", "length", "member", "resolve", "rebuild"}
         /\ Top.n \in Objs
         /\ Top.f \in {"lookup", "length"} => Top.rep \in BOOLEAN
         /\ Top.f = "length" => Top.at \in Pos
         /\ Top.f = "member" => Top.os \in Objs
         /\ Top.f = "rebuild" => /\ Top.old \in XrefTable /\ Top.new \in XrefTable
                                 /\ Top.todo \in SUBSET Objs /\ Top.cur \in Objs
<1>1. Top \in Frame
  BY DEF TypeOK, Top
<1> QED
  BY <1>1 DEF Frame

(* A result that is no error has an object or null.                         *)
LEMMA ResultVal ==
  ASSUME NEW r \in Result, r.ok
  PROVE  /\ r.val \in Object \cup {Null}
         /\ r.val # Null => r.val.num \in Objs /\ r.val.at \in Pos
<1>1. r # Fail
  <2>1. Fail.ok = FALSE
    BY DEF Fail
  <2> QED
    BY <2>1
<1>2. r \in [ok : {TRUE}, val : Object \cup {Null}]
  BY <1>1 DEF Result
<1>3. r.val \in Object \cup {Null}
  BY <1>2
<1> QED
  BY <1>3 DEF Object

(* Returning, going on and calling keep the stack a stack of frames.        *)
LEMMA ReturnType ==
  ASSUME TypeOK, stack # << >>, NEW r \in Result, Return(r)
  PROVE  stack' \in Seq(Frame) /\ ret' \in Result \cup {Pending}
BY PoppedStack DEF TypeOK, Return

LEMMA BecomeType ==
  ASSUME TypeOK, stack # << >>, NEW f \in Frame, Become(f)
  PROVE  stack' \in Seq(Frame) /\ ret' \in Result \cup {Pending}
BY ReplacedTop DEF TypeOK, Become

LEMMA CallType ==
  ASSUME TypeOK, stack # << >>, NEW f \in Frame, NEW g \in Frame, Call(f, g)
  PROVE  stack' \in Seq(Frame) /\ ret' \in Result \cup {Pending}
BY PushedFrame DEF TypeOK, Call

(* lookupByNumber after a parse error and after a parse.                    *)
LEMMA ParseErrorType ==
  ASSUME TypeOK, stack # << >>, NEW n \in Objs, NEW rep \in BOOLEAN, ParseError(n, rep)
  PROVE  /\ stack' \in Seq(Frame) /\ ret' \in Result \cup {Pending}
         /\ xrefs' \in XrefTable /\ repaired' \in BOOLEAN /\ UNCHANGED cache
<1>1. CASE rep /\ ~repaired
  <2>1. Become(Lookup(n, FALSE)) /\ Lookup(n, FALSE) \in Frame
    BY <1>1, FrameTypes DEF ParseError
  <2> QED
    BY <1>1, <2>1, BecomeType, TopDownType DEF ParseError
<1>2. CASE ~(rep /\ ~repaired)
  <2>1. Return(Fail) /\ Fail \in Result
    BY <1>2 DEF ParseError, Result
  <2> QED
    BY <1>2, <2>1, ReturnType DEF ParseError, TypeOK
<1> QED
  BY <1>1, <1>2

LEMMA ParseDoneType ==
  ASSUME TypeOK, stack # << >>, NEW n \in Objs, NEW rep \in BOOLEAN, NEW v \in Object,
         ParseDone(n, rep, v)
  PROVE  /\ stack' \in Seq(Frame) /\ ret' \in Result \cup {Pending}
         /\ cache' \in [Objs -> Object \cup {NoObj, Null}]
<1>1. CASE rep /\ v.num # n
  <2> DEFINE f == Rebuild(n, xrefs, Known(xrefs), n, [o \in Objs |-> NoEntry])
  <2>1. f \in Frame
    BY FrameTypes DEF TypeOK, Known, XrefTable
  <2>2. Become(f)
    BY <1>1 DEF ParseDone
  <2> HIDE DEF f
  <2> QED
    BY <1>1, <2>1, <2>2, BecomeType DEF ParseDone, TypeOK
<1>2. CASE ~(rep /\ v.num # n)
  <2>1. Return(Ok(v)) /\ Ok(v) \in Result
    BY <1>2 DEF ParseDone, Result, Ok
  <2> QED
    BY <1>2, <2>1, ReturnType DEF ParseDone, TypeOK
<1> QED
  BY <1>1, <1>2

LEMMA RelookupType ==
  ASSUME TypeOK, stack # << >>, NEW n \in Objs, Relookup(n)
  PROVE  /\ stack' \in Seq(Frame) /\ ret' \in Result \cup {Pending}
         /\ cache' \in [Objs -> Object \cup {NoObj, Null}]
<1>1. Become(Lookup(n, FALSE)) /\ Lookup(n, FALSE) \in Frame
  BY FrameTypes DEF Relookup
<1> QED
  BY <1>1, BecomeType DEF Relookup, NoCache

-----------------------------------------------------------------------------
(* Every step of a lookup keeps the types.                                  *)
LEMMA TypeStep == TypeOK /\ LengthFrames /\ [Next]_vars => TypeOK'
<1> SUFFICES ASSUME TypeOK, LengthFrames, [Next]_vars
             PROVE  TypeOK'
  OBVIOUS
<1>1. ASSUME NEW n \in Objs, Ask(n)
      PROVE  TypeOK'
  <2>1. Lookup(n, TRUE) \in Frame /\ Resolving(n) \in Frame
    BY FrameTypes
  <2>2. <<Lookup(n, TRUE)>> \in Seq(Frame) /\ <<Lookup(n, TRUE), Resolving(n)>> \in Seq(Frame)
    BY <2>1, ShortStack
  <2>3. stack' \in Seq(Frame)
    BY <1>1, <2>2, Zenon DEF Ask
  <2> QED
    BY <1>1, <2>3 DEF Ask, TypeOK
<1>2. CASE Resolved
  <2>1. stack # << >> /\ ret \in Result /\ Return(ret)
    BY <1>2 DEF Resolved, Returned, Running, TypeOK
  <2>2. stack' \in Seq(Frame) /\ ret' \in Result \cup {Pending}
    BY <2>1, ReturnType
  <2>3. cache' \in [Objs -> Object \cup {NoObj, Null}]
    BY <1>2, <2>1, ResultVal DEF Resolved, TypeOK
  <2> QED
    BY <1>2, <2>2, <2>3 DEF Resolved, TypeOK
<1>3. CASE CacheHit
  <2>1. stack # << >> /\ Top.n \in Objs /\ Return(Ok(cache[Top.n]))
    BY <1>3, TopType DEF CacheHit, Called, Running
  <2>2. Ok(cache[Top.n]) \in Result
    BY <1>3, <2>1 DEF CacheHit, TypeOK, Result, Ok
  <2> QED
    BY <1>3, <2>1, <2>2, ReturnType DEF CacheHit, TypeOK
<1>4. CASE Missing
  <2>1. stack # << >> /\ Return(Ok(Null)) /\ Ok(Null) \in Result
    BY <1>4 DEF Missing, Called, Running, Result, Ok
  <2> QED
    BY <1>4, <2>1, ReturnType DEF Missing, TypeOK
<1>5. CASE ParseAt
  <2> DEFINE n == Top.n
             p == xrefs[n].pos
             b == file[p]
             waits == b.kind \in {"stream", "objstm"} /\ b.len # Direct
  <2>1. stack # << >> /\ Top.f = "lookup" /\ n \in Objs /\ Top.rep \in BOOLEAN
    BY <1>5, TopType DEF ParseAt, Called, Running
  <2>2. p \in Pos /\ b \in Body
    BY <1>5, <2>1 DEF ParseAt, TypeOK, XrefTable, Entry
  <2>3. CASE b.kind \in {"gap", "broken"} \/ (waits /\ InProgress(b.len))
    <3>1. ParseError(n, Top.rep) /\ UNCHANGED <<lenBusy, file, objstms, asked>>
      BY <1>5, <2>3 DEF ParseAt
    <3> QED
      BY <2>1, <3>1, ParseErrorType DEF TypeOK
  <2>4. CASE waits /\ ~InProgress(b.len)
    <3>1. /\ lenBusy' = lenBusy \cup {b.len}
          /\ Call(Length(n, Top.rep, p), Lookup(b.len, TRUE))
          /\ UNCHANGED <<xrefs, cache, repaired, file, objstms, asked>>
      BY <1>5, <2>4 DEF ParseAt
    <3>2. b.len \in Objs
      BY <2>2, <2>4 DEF Body
    <3>3. Length(n, Top.rep, p) \in Frame /\ Lookup(b.len, TRUE) \in Frame
      BY <2>1, <2>2, <3>2, FrameTypes
    <3>4. stack' \in Seq(Frame) /\ ret' \in Result \cup {Pending}
      BY <2>1, <3>1, <3>3, CallType
    <3> QED
      BY <3>1, <3>2, <3>4 DEF TypeOK
  <2>5. CASE ~(b.kind \in {"gap", "broken"}) /\ ~waits
    <3>1. ParseDone(n, Top.rep, Parsed(p)) /\ UNCHANGED <<xrefs, repaired, lenBusy, file, objstms, asked>>
      BY <1>5, <2>5 DEF ParseAt
    <3>2. Parsed(p) \in Object
      BY <2>2, <2>5 DEF Parsed, Object, Body, BodyKinds
    <3>3. /\ stack' \in Seq(Frame) /\ ret' \in Result \cup {Pending}
          /\ cache' \in [Objs -> Object \cup {NoObj, Null}]
      BY <2>1, <3>1, <3>2, ParseDoneType
    <3> QED
      BY <3>1, <3>3 DEF TypeOK
  <2> QED
    BY <2>3, <2>4, <2>5
<1>6. CASE LengthTraced
  <2>1. /\ stack # << >> /\ Top.f = "length" /\ Top.n \in Objs
        /\ Top.rep \in BOOLEAN /\ Top.at \in Pos
    BY <1>6, TopType DEF LengthTraced, Returned, Running
  <2>2. lenBusy' \in SUBSET Objs /\ UNCHANGED <<file, objstms, asked>>
    BY <1>6 DEF LengthTraced, Completed, TypeOK
  <2>3. Parsed(Top.at) \in Object
    <3>1. file[Top.at].kind \in {"stream", "objstm"}
      BY <2>1 DEF LengthFrames, Top, TypeOK
    <3>2. file[Top.at] \in Body
      BY <2>1 DEF TypeOK
    <3> QED
      BY <2>1, <3>1, <3>2 DEF Parsed, Object, Body
  <2>4. CASE ParseDone(Top.n, Top.rep, Parsed(Top.at)) /\ UNCHANGED <<xrefs, repaired>>
    <3>1. /\ stack' \in Seq(Frame) /\ ret' \in Result \cup {Pending}
          /\ cache' \in [Objs -> Object \cup {NoObj, Null}]
      BY <2>1, <2>3, <2>4, ParseDoneType
    <3> QED
      BY <2>2, <2>4, <3>1 DEF TypeOK
  <2>5. CASE ParseError(Top.n, Top.rep)
    BY <2>1, <2>2, <2>5, ParseErrorType DEF TypeOK
  <2> QED
    BY <1>6, <2>4, <2>5 DEF LengthTraced
<1>7. CASE FromStream
  <2> DEFINE n == Top.n
             os == xrefs[n].os
  <2>1. stack # << >> /\ n \in Objs
    BY <1>7, TopType DEF FromStream, Called, Running
  <2>2. os \in Objs
    BY <1>7, <2>1 DEF FromStream, TypeOK, XrefTable, Entry
  <2>3. UNCHANGED <<file, xrefs, objstms, repaired, lenBusy, asked>>
    BY <1>7 DEF FromStream
  <2>4. CASE Return(Fail) /\ UNCHANGED cache
    BY <2>1, <2>3, <2>4, ReturnType DEF TypeOK, Result
  <2>5. CASE Call(Member(n, os), Lookup(os, TRUE)) /\ UNCHANGED cache
    <3>1. Member(n, os) \in Frame /\ Lookup(os, TRUE) \in Frame
      BY <2>1, <2>2, FrameTypes
    <3> QED
      BY <2>1, <2>3, <2>5, <3>1, CallType DEF TypeOK
  <2>6. CASE /\ objstms[os] # NoObj
             /\ cache' = [cache EXCEPT ![n] = MemberOf(objstms[os], n)]
             /\ Return(Ok(MemberOf(objstms[os], n)))
    <3>1. MemberOf(objstms[os], n) \in Object
      BY <2>1, <2>2, <2>6 DEF TypeOK, MemberOf, Object
    <3>2. Ok(MemberOf(objstms[os], n)) \in Result
      BY <3>1 DEF Ok, Result
    <3> QED
      BY <2>1, <2>3, <2>6, <3>1, <3>2, ReturnType DEF TypeOK
  <2> QED
    BY <1>7, <2>4, <2>5, <2>6 DEF FromStream
<1>8. CASE StreamLoaded
  <2>1. stack # << >> /\ Top.n \in Objs /\ Top.os \in Objs /\ ret \in Result
    BY <1>8, TopType DEF StreamLoaded, Returned, Running, TypeOK
  <2>2. UNCHANGED <<file, xrefs, repaired, lenBusy, asked>>
    BY <1>8 DEF StreamLoaded
  <2>3. CASE ret.ok /\ ret.val # Null /\ ret.val.kind = "objstm"
    <3> DEFINE v == MemberOf(ret.val.at, Top.n)
    <3>1. ret.val.at \in Pos
      BY <2>1, <2>3, ResultVal
    <3>2. v \in Object /\ Ok(v) \in Result
      BY <2>1, <3>1 DEF MemberOf, Object, Ok, Result
    <3>3. /\ objstms' = [objstms EXCEPT ![Top.os] = ret.val.at]
          /\ cache' = [cache EXCEPT ![Top.n] = v]
          /\ Return(Ok(v))
      BY <1>8, <2>3 DEF StreamLoaded
    <3> HIDE DEF v
    <3> QED
      BY <2>1, <2>2, <3>1, <3>2, <3>3, ReturnType DEF TypeOK
  <2>4. CASE Return(Fail) /\ UNCHANGED <<objstms, cache>>
    BY <2>1, <2>2, <2>4, ReturnType DEF TypeOK, Result
  <2> QED
    BY <1>8, <2>3, <2>4 DEF StreamLoaded
<1>9. CASE RebuildNext
  <2>1. stack # << >> /\ Top \in Frame /\ Top.f = "rebuild" /\ Top.todo \in SUBSET Objs
    BY <1>9, TopType DEF RebuildNext, Called, Running
  <2>2. PICK o \in Top.todo :
          Call([Top EXCEPT !.todo = @ \ {o}, !.cur = o], Lookup(o, FALSE))
    BY <1>9 DEF RebuildNext
  <2>3. [Top EXCEPT !.todo = @ \ {o}, !.cur = o] \in Frame /\ Lookup(o, FALSE) \in Frame
    <3>1. [Top EXCEPT !.todo = @ \ {o}, !.cur = o] \in Frame
      BY <2>1 DEF Frame
    <3> QED
      BY <2>1, <3>1, FrameTypes
  <2>4. stack' \in Seq(Frame) /\ ret' \in Result \cup {Pending}
    BY <2>1, <2>2, <2>3, CallType
  <2> QED
    BY <1>9, <2>4 DEF RebuildNext, TypeOK
<1>10. CASE RebuildEntry
  <2>1. /\ stack # << >> /\ Top \in Frame /\ Top.f = "rebuild" /\ ret \in Result
        /\ Top.old \in XrefTable /\ Top.new \in XrefTable /\ Top.cur \in Objs
    BY <1>10, TopType DEF RebuildEntry, Returned, Running, TypeOK
  <2>2. CASE Return(Fail)
    BY <1>10, <2>1, <2>2, ReturnType DEF RebuildEntry, TypeOK, Result
  <2>3. CASE ret.val # Null
    <3> DEFINE f == [Top EXCEPT !.new[ret.val.num] = Top.old[Top.cur]]
    <3>1. ret.val.num \in Objs
      BY <1>10, <2>1, <2>3, ResultVal DEF RebuildEntry
    <3>2. f \in Frame
      BY <2>1, <3>1 DEF Frame, XrefTable
    <3>3. Become(f)
      BY <1>10, <2>3 DEF RebuildEntry
    <3> HIDE DEF f
    <3> QED
      BY <1>10, <2>1, <3>2, <3>3, BecomeType DEF RebuildEntry, TypeOK
  <2> QED
    BY <1>10, <2>2, <2>3 DEF RebuildEntry
<1>11. CASE RebuildFails
  <2>1. stack # << >> /\ Top.n \in Objs
    BY <1>11, TopType DEF RebuildFails, Returned, Running
  <2>2. CASE Return(Fail) /\ UNCHANGED <<xrefs, cache, repaired>>
    BY <1>11, <2>1, <2>2, ReturnType DEF RebuildFails, TypeOK, Result
  <2>3. CASE repaired' = TRUE /\ xrefs' = TopDown /\ Relookup(Top.n)
    BY <1>11, <2>1, <2>3, RelookupType, TopDownType DEF RebuildFails, TypeOK
  <2> QED
    BY <1>11, <2>2, <2>3 DEF RebuildFails
<1>12. CASE RebuildDone
  <2>1. stack # << >> /\ Top.n \in Objs /\ Top.new \in XrefTable /\ Relookup(Top.n)
    BY <1>12, TopType DEF RebuildDone, Called, Running
  <2> QED
    BY <1>12, <2>1, RelookupType DEF RebuildDone, TypeOK
<1>13. CASE UNCHANGED vars
  BY <1>13 DEF vars, TypeOK
<1> QED
  BY <1>1, <1>2, <1>3, <1>4, <1>5, <1>6, <1>7, <1>8, <1>9, <1>10, <1>11, <1>12,
     <1>13 DEF Next, Step

-----------------------------------------------------------------------------
(* The guard of traceStreamLength, as an inductive invariant: a Length that *)
(* a frame waits for is marked, and no two frames wait for the same one.    *)
LengthGuard ==
  /\ LengthFrames
  /\ \A i \in DOMAIN stack : stack[i].f = "length" => file[stack[i].at].len \in lenBusy
  /\ LengthOnce

(* What a step does to the stack, as far as the guard sees it: nothing; a   *)
(* call by the client; the frames below the top are kept, shifted by d, and *)
(* no frame that waits for a Length is added; or one is.                    *)
KeepsBelow(d) ==
  \A j \in DOMAIN stack' : stack'[j].f = "length" =>
    j - d \in 2 .. Len(stack) /\ stack'[j] = stack[j - d]

LEMMA ReturnKeeps ==
  ASSUME TypeOK, stack # << >>, NEW r, Return(r)
  PROVE  KeepsBelow(-1)
BY PoppedStack DEF KeepsBelow, Return, TypeOK

LEMMA BecomeKeeps ==
  ASSUME TypeOK, stack # << >>, NEW f \in Frame, f.f # "length", Become(f)
  PROVE  KeepsBelow(0)
<1> DEFINE t == <<f>> \o Tail(stack)
<1>1. /\ t \in Seq(Frame) /\ Len(t) = Len(stack) /\ t[1] = f
      /\ \A i \in 2 .. Len(stack) : t[i] = stack[i]
  BY ReplacedTop DEF TypeOK
<1>2. stack' = t /\ Len(stack) \in Nat
  BY DEF Become, TypeOK
<1> HIDE DEF t
<1> QED
  BY <1>1, <1>2 DEF KeepsBelow

LEMMA CallKeeps ==
  ASSUME TypeOK, stack # << >>, NEW f \in Frame, f.f # "length",
         NEW g \in Frame, g.f # "length", Call(f, g)
  PROVE  KeepsBelow(1)
<1> DEFINE t == <<g, f>> \o Tail(stack)
<1>1. /\ t \in Seq(Frame) /\ Len(t) = Len(stack) + 1 /\ t[1] = g /\ t[2] = f
      /\ \A i \in 2 .. Len(stack) : t[i + 1] = stack[i]
  BY PushedFrame DEF TypeOK
<1>2. stack' = t /\ Len(stack) \in Nat
  BY DEF Call, TypeOK
<1>3. \A j \in DOMAIN t : j = 1 \/ j = 2 \/ (j - 1 \in 2 .. Len(stack) /\ t[j] = stack[j - 1])
  BY <1>1, <1>2
<1> HIDE DEF t
<1> QED
  BY <1>1, <1>2, <1>3 DEF KeepsBelow

(* Keeping the frames below the top keeps the guard, if nothing is unmarked *)
(* but what the frame on top waited for.                                    *)
LEMMA KeepsGuard ==
  ASSUME TypeOK, LengthGuard, stack # << >>, UNCHANGED file,
         NEW d \in {-1, 0, 1}, KeepsBelow(d), stack' \in Seq(Frame),
         \/ lenBusy \subseteq lenBusy'
         \/ Top.f = "length" /\ lenBusy \ {file[Top.at].len} \subseteq lenBusy'
  PROVE  LengthGuard'
<1>1. Len(stack) \in Nat \ {0} /\ 1 \in DOMAIN stack /\ DOMAIN stack = 1 .. Len(stack)
      /\ DOMAIN stack' \subseteq Nat
  BY DEF TypeOK
<1>2. \A i \in 2 .. Len(stack) : i \in DOMAIN stack /\ i # 1
  BY <1>1
<1>3. LengthFrames'
  BY <1>2 DEF LengthFrames, LengthGuard, KeepsBelow
<1>4. ASSUME NEW j \in DOMAIN stack', stack'[j].f = "length"
      PROVE  file[stack'[j].at].len \in lenBusy'
  <2>1. j - d \in 2 .. Len(stack) /\ stack'[j] = stack[j - d]
    BY <1>4 DEF KeepsBelow
  <2>2. file[stack[j - d].at].len \in lenBusy
    BY <1>2, <1>4, <2>1 DEF LengthGuard
  <2>3. Top.f = "length" => file[Top.at].len # file[stack[j - d].at].len
    BY <1>1, <1>2, <1>4, <2>1 DEF LengthGuard, LengthOnce, Top
  <2> QED
    BY <2>1, <2>2, <2>3
<1>5. LengthOnce'
  <2> SUFFICES ASSUME NEW i \in DOMAIN stack', NEW j \in DOMAIN stack',
                      stack'[i].f = "length", stack'[j].f = "length",
                      file[stack'[i].at].len = file[stack'[j].at].len
               PROVE  i = j
    BY DEF LengthOnce
  <2>1. i - d \in 2 .. Len(stack) /\ stack'[i] = stack[i - d]
    BY DEF KeepsBelow
  <2>2. j - d \in 2 .. Len(stack) /\ stack'[j] = stack[j - d]
    BY DEF KeepsBelow
  <2>3. i - d = j - d
    BY <1>2, <2>1, <2>2 DEF LengthGuard, LengthOnce
  <2> QED
    BY <1>1, <2>3
<1> QED
  BY <1>3, <1>4, <1>5 DEF LengthGuard

(* ParseAt adds a frame that waits for a Length which no frame waits for.   *)
LEMMA WaitGuard ==
  ASSUME TypeOK, LengthGuard, stack # << >>, UNCHANGED file,
         NEW n \in Objs, NEW rep \in BOOLEAN, NEW p \in Pos,
         file[p].kind \in {"stream", "objstm"}, file[p].len # Direct,
         file[p].len \notin lenBusy, lenBusy' = lenBusy \cup {file[p].len},
         Call(Length(n, rep, p), Lookup(file[p].len, TRUE))
  PROVE  LengthGuard'
<1> DEFINE f == Length(n, rep, p)
           g == Lookup(file[p].len, TRUE)
           t == <<g, f>> \o Tail(stack)
<1>1. f \in Frame /\ g \in Frame
  <2>1. file[p].len \in Objs
    BY DEF TypeOK, Body
  <2> QED
    BY <2>1, FrameTypes
<1>2. g.f = "lookup" /\ f.f = "length" /\ f.at = p
  BY DEF Length, Lookup
<1> HIDE DEF f, g
<1>3. /\ t \in Seq(Frame) /\ Len(t) = Len(stack) + 1 /\ t[1] = g /\ t[2] = f
      /\ \A i \in 2 .. Len(stack) : t[i + 1] = stack[i]
  BY <1>1, PushedFrame DEF TypeOK
<1>4. stack' = t
  BY DEF Call, f, g
<1> HIDE DEF t
<1>5. Len(stack) \in Nat /\ DOMAIN t = 1 .. Len(stack) + 1 /\ DOMAIN stack = 1 .. Len(stack)
  BY <1>3 DEF TypeOK
<1>6. \A j \in DOMAIN t : t[j].f = "length" =>
        \/ j = 2 /\ t[j] = f
        \/ /\ j # 2 /\ j - 1 \in DOMAIN stack /\ t[j] = stack[j - 1]
           /\ file[t[j].at].len \in lenBusy
  <2> SUFFICES ASSUME NEW j \in DOMAIN t, t[j].f = "length", j # 2
               PROVE  /\ j - 1 \in DOMAIN stack /\ t[j] = stack[j - 1]
                      /\ file[t[j].at].len \in lenBusy
    BY <1>3
  <2>1. j # 1
    BY <1>2, <1>3
  <2>2. j - 1 \in 2 .. Len(stack) /\ (j - 1) + 1 = j
    BY <1>5, <2>1
  <2>3. t[j] = stack[j - 1]
    BY <1>3, <2>2
  <2> QED
    BY <1>5, <2>2, <2>3 DEF LengthGuard
<1>7. LengthFrames'
  BY <1>2, <1>4, <1>6 DEF LengthFrames, LengthGuard
<1>8. \A j \in DOMAIN t : t[j].f = "length" => file[t[j].at].len \in lenBusy'
  BY <1>2, <1>6
<1>9. LengthOnce'
  <2> SUFFICES ASSUME NEW i \in DOMAIN t, NEW j \in DOMAIN t,
                      t[i].f = "length", t[j].f = "length",
                      file[t[i].at].len = file[t[j].at].len
               PROVE  i = j
    BY <1>4 DEF LengthOnce
  <2>1. CASE i = 2 \/ j = 2
    BY <1>2, <1>6, <2>1
  <2>2. CASE i # 2 /\ j # 2
    <3>1. i - 1 = j - 1
      BY <1>6, <2>2 DEF LengthGuard, LengthOnce
    <3> QED
      BY <1>5, <3>1
  <2> QED
    BY <2>1, <2>2
<1> QED
  BY <1>4, <1>7, <1>8, <1>9 DEF LengthGuard

(* After a parse error and after a parse no frame waits for a Length that   *)
(* did not before.                                                          *)
LEMMA ParseErrorKeeps ==
  ASSUME TypeOK, stack # << >>, NEW n \in Objs, NEW rep \in BOOLEAN, ParseError(n, rep)
  PROVE  KeepsBelow(0) \/ KeepsBelow(-1)
<1>1. CASE rep /\ ~repaired
  <2> DEFINE f == Lookup(n, FALSE)
  <2>1. Become(f) /\ f \in Frame /\ f.f # "length"
    BY <1>1, FrameTypes DEF ParseError, Lookup
  <2> HIDE DEF f
  <2> QED
    BY <2>1, BecomeKeeps
<1>2. CASE ~(rep /\ ~repaired)
  BY <1>2, ReturnKeeps DEF ParseError
<1> QED
  BY <1>1, <1>2

LEMMA ParseDoneKeeps ==
  ASSUME TypeOK, stack # << >>, NEW n \in Objs, NEW rep \in BOOLEAN, NEW v,
         ParseDone(n, rep, v)
  PROVE  KeepsBelow(0) \/ KeepsBelow(-1)
<1>1. CASE rep /\ v.num # n
  <2> DEFINE f == Rebuild(n, xrefs, Known(xrefs), n, [o \in Objs |-> NoEntry])
  <2>1. f \in Frame
    BY FrameTypes DEF TypeOK, Known, XrefTable
  <2>2. Become(f) /\ f.f # "length"
    BY <1>1 DEF ParseDone, Rebuild
  <2> HIDE DEF f
  <2> QED
    BY <2>1, <2>2, BecomeKeeps
<1>2. CASE ~(rep /\ v.num # n)
  BY <1>2, ReturnKeeps DEF ParseDone
<1> QED
  BY <1>1, <1>2

LEMMA RelookupKeeps ==
  ASSUME TypeOK, stack # << >>, NEW n \in Objs, Relookup(n)
  PROVE  KeepsBelow(0)
<1> DEFINE f == Lookup(n, FALSE)
<1>1. Become(f) /\ f \in Frame /\ f.f # "length"
  BY FrameTypes DEF Relookup, Lookup
<1> HIDE DEF f
<1> QED
  BY <1>1, BecomeKeeps

(* Every step keeps the guard.                                              *)
LEMMA GuardStep == TypeOK /\ LengthGuard /\ [Next]_vars => LengthGuard'
<1> SUFFICES ASSUME TypeOK, LengthGuard, [Next]_vars
             PROVE  LengthGuard'
  OBVIOUS
<1>0. TypeOK' /\ stack' \in Seq(Frame)
  <2>1. TypeOK'
    BY TypeStep DEF LengthGuard
  <2> QED
    BY <2>1 DEF TypeOK
<1>14. ASSUME stack # << >>, UNCHANGED file,
             KeepsBelow(-1) \/ KeepsBelow(0) \/ KeepsBelow(1),
             \/ lenBusy \subseteq lenBusy'
             \/ Top.f = "length" /\ lenBusy \ {file[Top.at].len} \subseteq lenBusy'
      PROVE  LengthGuard'
  BY <1>0, <1>14, KeepsGuard
<1>1. ASSUME NEW n \in Objs, Ask(n)
      PROVE  LengthGuard'
  <2>1. \A j \in DOMAIN stack' : stack'[j].f # "length"
    BY <1>1 DEF Ask, Lookup, Resolving
  <2> QED
    BY <2>1 DEF LengthGuard, LengthFrames, LengthOnce
<1>2. CASE Resolved
  <2>1. stack # << >> /\ Return(ret) /\ UNCHANGED <<file, lenBusy>>
    BY <1>2 DEF Resolved, Returned, Running
  <2> QED
    BY <2>1, <1>14, ReturnKeeps
<1>3. CASE CacheHit
  <2>1. stack # << >> /\ Return(Ok(cache[Top.n])) /\ UNCHANGED <<file, lenBusy>>
    BY <1>3 DEF CacheHit, Called, Running
  <2> QED
    BY <2>1, <1>14, ReturnKeeps
<1>4. CASE Missing
  <2>1. stack # << >> /\ Return(Ok(Null)) /\ UNCHANGED <<file, lenBusy>>
    BY <1>4 DEF Missing, Called, Running
  <2> QED
    BY <2>1, <1>14, ReturnKeeps
<1>5. CASE ParseAt
  <2> DEFINE n == Top.n
             p == xrefs[n].pos
             b == file[p]
             waits == b.kind \in {"stream", "objstm"} /\ b.len # Direct
  <2>1. stack # << >> /\ Top.f = "lookup" /\ n \in Objs /\ Top.rep \in BOOLEAN
    BY <1>5, TopType DEF ParseAt, Called, Running
  <2>2. p \in Pos
    BY <1>5, <2>1 DEF ParseAt, TypeOK, XrefTable, Entry
  <2>3. CASE b.kind \in {"gap", "broken"} \/ (waits /\ InProgress(b.len))
    <3>1. ParseError(n, Top.rep) /\ UNCHANGED <<lenBusy, file>>
      BY <1>5, <2>3 DEF ParseAt
    <3> QED
      BY <2>1, <3>1, <1>14, ParseErrorKeeps
  <2>4. CASE waits /\ ~InProgress(b.len)
    <3>1. /\ lenBusy' = lenBusy \cup {b.len}
          /\ Call(Length(n, Top.rep, p), Lookup(b.len, TRUE))
          /\ UNCHANGED file
      BY <1>5, <2>4 DEF ParseAt
    <3> QED
      BY <2>1, <2>2, <2>4, <3>1, WaitGuard DEF InProgress
  <2>5. CASE ~(b.kind \in {"gap", "broken"}) /\ ~waits
    <3>1. ParseDone(n, Top.rep, Parsed(p)) /\ UNCHANGED <<lenBusy, file>>
      BY <1>5, <2>5 DEF ParseAt
    <3> QED
      BY <2>1, <3>1, <1>14, ParseDoneKeeps
  <2> QED
    BY <2>3, <2>4, <2>5
<1>6. CASE LengthTraced
  <2>1. /\ stack # << >> /\ Top.f = "length" /\ Top.n \in Objs
        /\ Top.rep \in BOOLEAN /\ UNCHANGED file
    BY <1>6, TopType DEF LengthTraced, Returned, Running
  <2>2. lenBusy \ {file[Top.at].len} \subseteq lenBusy'
    BY <1>6 DEF LengthTraced, Completed
  <2>3. ParseDone(Top.n, Top.rep, Parsed(Top.at)) \/ ParseError(Top.n, Top.rep)
    BY <1>6 DEF LengthTraced
  <2> QED
    BY <2>1, <2>2, <2>3, <1>14, ParseDoneKeeps, ParseErrorKeeps
<1>7. CASE FromStream
  <2> DEFINE n == Top.n
             os == xrefs[n].os
  <2>1. stack # << >> /\ n \in Objs /\ UNCHANGED <<file, lenBusy>>
    BY <1>7, TopType DEF FromStream, Called, Running
  <2>2. os \in Objs
    BY <1>7, <2>1 DEF FromStream, TypeOK, XrefTable, Entry
  <2>3. \/ \E r : Return(r)
        \/ Call(Member(n, os), Lookup(os, TRUE))
    BY <1>7 DEF FromStream
  <2>4. CASE \E r : Return(r)
    BY <2>1, <2>4, <1>14, ReturnKeeps
  <2>5. CASE Call(Member(n, os), Lookup(os, TRUE))
    <3>1. /\ Member(n, os) \in Frame /\ Lookup(os, TRUE) \in Frame
          /\ Member(n, os).f # "length" /\ Lookup(os, TRUE).f # "length"
      BY <2>1, <2>2, FrameTypes DEF Member, Lookup
    <3> QED
      BY <2>1, <2>5, <3>1, <1>14, CallKeeps
  <2> QED
    BY <2>3, <2>4, <2>5
<1>8. CASE StreamLoaded
  <2>1. stack # << >> /\ UNCHANGED <<file, lenBusy>>
    BY <1>8 DEF StreamLoaded, Returned, Running
  <2>2. \E r : Return(r)
    BY <1>8 DEF StreamLoaded
  <2> QED
    BY <2>1, <2>2, <1>14, ReturnKeeps
<1>9. CASE RebuildNext
  <2>1. /\ stack # << >> /\ Top \in Frame /\ Top.f = "rebuild"
        /\ Top.todo \in SUBSET Objs /\ UNCHANGED <<file, lenBusy>>
    BY <1>9, TopType DEF RebuildNext, Called, Running
  <2>2. PICK o \in Top.todo :
          Call([Top EXCEPT !.todo = @ \ {o}, !.cur = o], Lookup(o, FALSE))
    BY <1>9 DEF RebuildNext
  <2>3. /\ [Top EXCEPT !.todo = @ \ {o}, !.cur = o] \in Frame
        /\ [Top EXCEPT !.todo = @ \ {o}, !.cur = o].f # "length"
    BY <2>1 DEF Frame
  <2>4. Lookup(o, FALSE) \in Frame /\ Lookup(o, FALSE).f # "length"
    BY <2>1, FrameTypes DEF Lookup
  <2> QED
    BY <2>1, <2>2, <2>3, <2>4, <1>14, CallKeeps
<1>10. CASE RebuildEntry
  <2>1. /\ stack # << >> /\ Top \in Frame /\ Top.f = "rebuild"
        /\ UNCHANGED <<file, lenBusy>>
    BY <1>10, TopType DEF RebuildEntry, Returned, Running
  <2>2. CASE ret.val = Null
    BY <1>10, <2>1, <2>2, <1>14, ReturnKeeps DEF RebuildEntry
  <2>3. CASE ret.val # Null
    <3> DEFINE f == [Top EXCEPT !.new[ret.val.num] = Top.old[Top.cur]]
    <3>1. Become(f)
      BY <1>10, <2>3 DEF RebuildEntry
    <3>2. f \in Frame
      <4>1. ret \in Result /\ ret.ok
        BY <1>10 DEF RebuildEntry, Returned, TypeOK
      <4>2. ret.val.num \in Objs
        BY <2>3, <4>1, ResultVal
      <4>3. /\ Top.old \in XrefTable /\ Top.new \in XrefTable
            /\ Top.cur \in Objs
        BY <2>1, TopType
      <4>4. [Top.new EXCEPT ![ret.val.num] = Top.old[Top.cur]] \in XrefTable
        BY <4>2, <4>3 DEF XrefTable
      <4> QED
        BY <2>1, <4>4 DEF Frame
    <3>3. f.f # "length"
      BY <2>1 DEF Frame
    <3> HIDE DEF f
    <3> QED
      BY <2>1, <3>1, <3>2, <3>3, <1>14, BecomeKeeps
  <2> QED
    BY <2>2, <2>3
<1>11. CASE RebuildFails
  <2>1. /\ stack # << >> /\ Top.n \in Objs /\ UNCHANGED <<file, lenBusy>>
    BY <1>11, TopType DEF RebuildFails, Returned, Running
  <2>2. Return(Fail) \/ Relookup(Top.n)
    BY <1>11 DEF RebuildFails
  <2> QED
    BY <2>1, <2>2, <1>14, ReturnKeeps, RelookupKeeps
<1>12. CASE RebuildDone
  <2>1. /\ stack # << >> /\ Top.n \in Objs /\ UNCHANGED <<file, lenBusy>>
        /\ Relookup(Top.n)
    BY <1>12, TopType DEF RebuildDone, Called, Running
  <2> QED
    BY <2>1, <1>14, RelookupKeeps
<1>13. CASE UNCHANGED vars
  BY <1>13 DEF vars, LengthGuard, LengthFrames, LengthOnce
<1> QED
  BY <1>1, <1>2, <1>3, <1>4, <1>5, <1>6, <1>7, <1>8, <1>9, <1>10, <1>11, <1>12,
     <1>13 DEF Next, Step

-----------------------------------------------------------------------------
LEMMA InitGuard == Init => TypeOK /\ LengthGuard
<1> SUFFICES ASSUME Init
             PROVE  TypeOK /\ LengthGuard
  OBVIOUS
<1>1. PICK d \in Docs : file = d.file /\ xrefs = d.xrefs
  BY DEF Init
<1>2. d \in Doc
  BY Assumptions
<1>3. file \in [Pos -> Body] /\ xrefs \in XrefTable
  BY <1>1, <1>2 DEF Doc
<1>4. /\ cache \in [Objs -> Object \cup {NoObj, Null}]
      /\ objstms \in [Objs -> Pos \cup {NoObj}]
  BY DEF Init, NoCache
<1>5. repaired \in BOOLEAN /\ lenBusy \in SUBSET Objs
  BY DEF Init
<1>6. stack \in Seq(Frame)
  BY DEF Init
<1>7. ret \in Result \cup {Pending} /\ asked \in Objs \cup {NoRequest}
  BY DEF Init
<1>8. TypeOK
  BY <1>3, <1>4, <1>5, <1>6, <1>7 DEF TypeOK
<1>9. LengthGuard
  BY DEF Init, LengthGuard, LengthFrames, LengthOnce
<1> QED
  BY <1>8, <1>9

(* The types and the guard, together, hold of every behaviour.              *)
LEMMA GuardHolds == Spec => [](TypeOK /\ LengthGuard)
<1>1. TypeOK /\ LengthGuard /\ [Next]_vars => (TypeOK /\ LengthGuard)'
  BY TypeStep, GuardStep DEF LengthGuard
<1> QED
  BY InitGuard, <1>1, PTL DEF Spec

(* TypeOK for every file and table: what the lookups hand each other is     *)
(* what they expect, whatever the file claims.                              *)
THEOREM TypeCorrect == Spec => []TypeOK
BY GuardHolds, PTL

(* "Get stream length, avoiding recursive loops" (traceStreamLength): no    *)
(* Length is ever being looked up on behalf of a lookup of itself, for      *)
(* every file, table and sequence of lookups, and without a bound on the    *)
(* stack.                                                                   *)
THEOREM LengthOnceHolds == Spec => []LengthOnce
<1>1. TypeOK /\ LengthGuard => LengthOnce
  BY DEF LengthGuard
<1> QED
  BY GuardHolds, <1>1, PTL
-----------------------------------------------------------------------------
(***************************************************************************)
(* Proofs about the repairs of the cross reference table in ObjectLookup:  *)
(* in a file without streams, however damaged, a lookup never returns an   *)
(* object that has another number than the one that was asked for.         *)
(*                                                                         *)
(* The difficulty is that rebuildXrefTable fills the cache with objects    *)
(* under the numbers of the old, wrong table, so that the cache cannot be  *)
(* trusted while it runs, and that lookups without repairs do not check    *)
(* the number of what they find.  FlatInv says who may rely on what.       *)
(***************************************************************************)

NoStreams == \A p \in Pos : file[p].kind \notin {"stream", "objstm"}

\* The entries of a table lead to offsets; they lead to the right objects.
AtOnly(table) == \A o \in Objs : table[o] # NoEntry => table[o].t = "at"
RightTable(table) ==
  \A o \in Objs : table[o] # NoEntry =>
    table[o].t = "at" /\ file[table[o].pos].num = o

\* v is what a lookup of n finds by the table as it is now.
Found(n, v) ==
  \/ v = Null /\ xrefs[n] = NoEntry
  \/ v # Null /\ xrefs[n] # NoEntry /\ v = Parsed(xrefs[n].pos)

\* Until the file was scanned the table is the one that the cache was filled by.
CacheFound == ~repaired => \A n \in Objs : cache[n] # NoObj => Found(n, cache[n])
CacheRight ==
  \A n \in Objs : cache[n] \notin {NoObj, Null} => cache[n].num = n

RightAnswer ==
  ret # Pending /\ ret.ok =>
    /\ ret.val # Null => ret.val.num = asked
    /\ ~repaired => Found(asked, ret.val)

\* What is below the activations of lookupByNumber and rebuildXrefTable.
Waiting == {<< >>, <<Resolving(asked)>>}

\* A rebuild under way: nothing was scanned yet, and the new table is right.
Rebuilding(f) ==
  /\ f.f = "rebuild" /\ f.n = asked
  /\ ~repaired /\ f.old = xrefs
  /\ f.todo \subseteq Known(xrefs) /\ f.cur \in Known(xrefs)
  /\ RightTable(f.new)

\* The stack, and who relies on what: no lookup is under way, or only its
\* result has to be kept; the lookup that was asked for, without repairs only
\* by a right table; the rebuild, with what it looked up last; and the lookup
\* of the entry the rebuild is at.
AtRest == stack \in Waiting /\ RightAnswer /\ CacheRight
LookingUp ==
  /\ stack # << >> /\ Tail(stack) \in Waiting /\ asked \in Objs
  /\ Top.f = "lookup" /\ Top.n = asked /\ ret = Pending
  /\ ~Top.rep => RightTable(xrefs)
  /\ CacheRight
InRebuild ==
  /\ stack # << >> /\ Tail(stack) \in Waiting /\ asked \in Objs
  /\ Rebuilding(Top)
  /\ ret # Pending /\ ret.ok => Found(Top.cur, ret.val)
BelowRebuild ==
  /\ stack # << >> /\ Tail(stack) # << >> /\ asked \in Objs
  /\ Tail(Tail(stack)) \in Waiting
  /\ Rebuilding(Tail(stack)[1])
  /\ Top.f = "lookup" /\ Top.n = Tail(stack)[1].cur /\ ~Top.rep /\ ret = Pending

FlatInv ==
  NoStreams =>
    /\ AtOnly(xrefs)
    /\ repaired => RightTable(xrefs)
    /\ CacheFound
    /\ AtRest \/ LookingUp \/ InRebuild \/ BelowRebuild

-----------------------------------------------------------------------------
(* The stack, after each of the ways to leave an activation.                *)
LEMMA StackAfterBecome ==
  ASSUME TypeOK, stack # << >>, NEW f \in Frame, Become(f)
  PROVE  stack' # << >> /\ Tail(stack') = Tail(stack) /\ Top' = f /\ ret' = Pending
BY PoppedStack DEF TypeOK, Become, Top

LEMMA StackAfterCall ==
  ASSUME TypeOK, stack # << >>, NEW f \in Frame, NEW g \in Frame, Call(f, g)
  PROVE  /\ stack' # << >> /\ Top' = g /\ ret' = Pending
         /\ Tail(stack') # << >> /\ Tail(stack')[1] = f
         /\ Tail(Tail(stack')) = Tail(stack)
<1>1. Tail(stack) \in Seq(Frame)
  BY PoppedStack DEF TypeOK
<1>2. stack' = <<g, f>> \o Tail(stack) /\ ret' = Pending
  BY DEF Call
<1> HIDE DEF Top
<1>3. Tail(stack') = <<f>> \o Tail(stack)
  BY <1>1, <1>2
<1>4. Tail(<<f>> \o Tail(stack)) = Tail(stack)
  BY <1>1
<1>5. (<<f>> \o Tail(stack))[1] = f /\ <<f>> \o Tail(stack) # << >>
  BY <1>1
<1>6. stack' # << >> /\ stack'[1] = g
  BY <1>1, <1>2
<1> QED
  BY <1>2, <1>3, <1>4, <1>5, <1>6 DEF Top

LEMMA WaitingStack ==
  /\ << >> # <<Resolving(asked)>> /\ Tail(<<Resolving(asked)>>) = << >>
  /\ <<Resolving(asked)>>[1] = Resolving(asked)
OBVIOUS

(* The scan of the file finds each object where it is.                      *)
LEMMA TopDownRight ==
  ASSUME TypeOK
  PROVE  RightTable(TopDown) /\ AtOnly(TopDown)
<1>1. \A o \in Objs : Headers(o) # {} => Kept(o) \in Pos /\ file[Kept(o)].num = o
  BY KeptIsHeader DEF Headers
<1>2. \A o \in Objs : TopDown[o] # NoEntry =>
        Headers(o) # {} /\ TopDown[o] = [t |-> "at", pos |-> Kept(o)]
  BY DEF TopDown
<1>3. ASSUME NEW o \in Objs, TopDown[o] # NoEntry
      PROVE  TopDown[o].t = "at" /\ file[TopDown[o].pos].num = o
  <2>0. TopDown[o] = [t |-> "at", pos |-> Kept(o)]
    BY <1>2, <1>3, Zenon
  <2> DEFINE p == Kept(o)
             e == TopDown[o]
  <2> HIDE DEF p, e
  <2>2. e = [t |-> "at", pos |-> p] => e.t = "at" /\ e.pos = p
    OBVIOUS
  <2>1. TopDown[o].t = "at" /\ TopDown[o].pos = Kept(o)
    BY <2>0, <2>2 DEF p, e
  <2> QED
    BY <1>1, <1>2, <1>3, <2>1
<1> QED
  BY <1>3 DEF RightTable, AtOnly

(* What is parsed at an offset without a stream is an object.               *)
LEMMA ParsedObject ==
  ASSUME TypeOK, NoStreams, NEW p \in Pos, file[p].kind \notin {"gap", "broken"}
  PROVE  Parsed(p) \in Object /\ Parsed(p) \notin {NoObj, Null}
<1>1. file[p] \in Body
  BY DEF TypeOK
<1>2. Parsed(p) \in Object
  BY <1>1 DEF Parsed, Object, Body, BodyKinds
<1> QED
  BY <1>2, Assumptions
-----------------------------------------------------------------------------
(* Step by step.  A step that leaves file, table and repaired alone keeps   *)
(* what is said of them.                                                    *)
LEMMA SameTable ==
  ASSUME UNCHANGED <<file, xrefs, repaired, asked>>
  PROVE  /\ AtOnly(xrefs)' = AtOnly(xrefs)
         /\ RightTable(xrefs)' = RightTable(xrefs)
         /\ NoStreams' = NoStreams
         /\ \A n, v : Found(n, v)' = Found(n, v)
         /\ \A f : Rebuilding(f)' = Rebuilding(f)
         /\ Waiting' = Waiting
BY DEF AtOnly, RightTable, NoStreams, Found, Parsed, Rebuilding, Known, Waiting,
       Resolving

(* An object that is found under its number may be cached there.            *)
LEMMA CachedOne ==
  ASSUME TypeOK, NEW n \in Objs, NEW v, UNCHANGED <<file, xrefs, repaired>>,
         cache' = [cache EXCEPT ![n] = v]
  PROVE  /\ CacheFound /\ (~repaired => Found(n, v)) => CacheFound'
         /\ CacheRight /\ (v # Null => v.num = n) => CacheRight'
<1>1. \A m \in Objs : cache'[m] = IF m = n THEN v ELSE cache[m]
  BY DEF TypeOK
<1>2. \A m, u : Found(m, u)' = Found(m, u)
  BY DEF Found, Parsed
<1> QED
  BY <1>1, <1>2 DEF CacheFound, CacheRight

(* An emptied cache holds nothing wrong.                                    *)
LEMMA EmptyCache ==
  ASSUME cache' = NoCache
  PROVE  CacheFound' /\ CacheRight'
BY DEF NoCache, CacheFound, CacheRight

LEMMA AskFlat ==
  ASSUME TypeOK, FlatInv, NoStreams, NEW n \in Objs, Ask(n)
  PROVE  FlatInv'
<1>1. /\ UNCHANGED <<file, xrefs, cache, objstms, repaired, lenBusy>>
      /\ stack = << >> /\ asked' = n /\ ret' = Pending
      /\ stack' \in {<<Lookup(n, TRUE)>>, <<Lookup(n, TRUE), Resolving(n)>>}
  BY DEF Ask
<1>2. AtRest
  BY <1>1, WaitingStack DEF FlatInv, LookingUp, InRebuild, BelowRebuild
<1>3. stack' # << >> /\ Tail(stack') \in {<< >>, <<Resolving(n)>>} /\ stack'[1] = Lookup(n, TRUE)
  <2>1. CASE stack' = <<Lookup(n, TRUE)>>
    BY <2>1
  <2>2. CASE stack' = <<Lookup(n, TRUE), Resolving(n)>>
    BY <2>2
  <2> QED
    BY <1>1, <2>1, <2>2
<1>4. LookingUp'
  BY <1>1, <1>2, <1>3 DEF AtRest, LookingUp, Waiting, Top, Lookup, CacheRight
<1>5. AtOnly(xrefs)' /\ (repaired => RightTable(xrefs))' /\ CacheFound'
  BY <1>1 DEF FlatInv, AtOnly, RightTable, CacheFound, Found, Parsed
<1> QED
  BY <1>4, <1>5 DEF FlatInv

(* In a file without streams only these frames run.                         *)
LEMMA RunningFrames ==
  ASSUME TypeOK, FlatInv, NoStreams, stack # << >>
  PROVE  /\ Top.f \in {"resolve", "lookup", "rebuild"}
         /\ Top.f = "resolve" => AtRest /\ stack = <<Resolving(asked)>>
         /\ Top.f = "lookup" => LookingUp \/ BelowRebuild
         /\ Top.f = "rebuild" => InRebuild
<1>1. CASE AtRest
  BY <1>1, WaitingStack DEF AtRest, Waiting, Top, Resolving
<1>2. CASE LookingUp
  BY <1>2 DEF LookingUp
<1>3. CASE InRebuild
  BY <1>3 DEF InRebuild, Rebuilding
<1>4. CASE BelowRebuild
  BY <1>4 DEF BelowRebuild
<1> QED
  BY <1>1, <1>2, <1>3, <1>4 DEF FlatInv

LEMMA ResolvedFlat ==
  ASSUME TypeOK, FlatInv, NoStreams, Resolved
  PROVE  FlatInv'
<1>1. /\ stack # << >> /\ Top.f = "resolve" /\ ret # Pending
      /\ cache' = IF ret.ok THEN [cache EXCEPT ![Top.n] = ret.val] ELSE cache
      /\ stack' = Tail(stack) /\ ret' = ret
      /\ UNCHANGED <<file, xrefs, objstms, repaired, lenBusy, asked>>
  BY DEF Resolved, Returned, Running, Return
<1>2. AtRest /\ stack = <<Resolving(asked)>>
  BY <1>1, RunningFrames
<1>3. Top.n = asked /\ Top.n \in Objs /\ stack' = << >>
  BY <1>1, <1>2, WaitingStack, TopType DEF Top, Resolving
<1>4. CacheFound' /\ CacheRight'
  <2>1. CASE ret.ok
    BY <1>1, <1>2, <1>3, <2>1, CachedOne DEF AtRest, RightAnswer, FlatInv
  <2>2. CASE ~ret.ok
    BY <1>1, <1>2, <2>2 DEF AtRest, FlatInv, CacheFound, CacheRight, Found, Parsed
  <2> QED
    BY <2>1, <2>2
<1>5. RightAnswer'
  BY <1>1, <1>2, SameTable DEF AtRest, RightAnswer
<1>6. AtRest'
  BY <1>3, <1>4, <1>5 DEF AtRest, Waiting
<1> QED
  BY <1>1, <1>4, <1>6, SameTable DEF FlatInv

(* A lookup returns r: to the client, or to the rebuild that called it.     *)
LEMMA LookupReturns ==
  ASSUME TypeOK, FlatInv, NoStreams, stack # << >>, Top.f = "lookup",
         NEW r, Return(r), UNCHANGED <<file, xrefs, repaired, asked>>,
         CacheFound', LookingUp => CacheRight',
         r # Pending /\ r.ok =>
           /\ ~repaired => Found(Top.n, r.val)
           /\ LookingUp => (r.val # Null => r.val.num = Top.n)
  PROVE  FlatInv'
<1>1. stack' = Tail(stack) /\ ret' = r
  BY DEF Return
<1>2. CASE LookingUp
  <2>1. RightAnswer'
    BY <1>1, <1>2, SameTable DEF LookingUp, RightAnswer
  <2>2. AtRest'
    BY <1>1, <1>2, <2>1, SameTable DEF LookingUp, AtRest
  <2> QED
    BY <2>2, SameTable DEF FlatInv
<1>3. CASE BelowRebuild
  <2>1. Top.n = Tail(stack)[1].cur /\ ~repaired
    BY <1>3 DEF BelowRebuild, Rebuilding
  <2>2. Tail(stack) = stack' /\ Tail(stack)[1] = Top'
    BY <1>1 DEF Top
  <2>3. Rebuilding(Top)' /\ (ret # Pending /\ ret.ok => Found(Top.cur, ret.val))'
    BY <1>1, <1>3, <2>1, <2>2, SameTable DEF BelowRebuild
  <2>4. InRebuild'
    BY <1>1, <1>3, <2>2, <2>3, SameTable DEF BelowRebuild, InRebuild
  <2> QED
    BY <2>4, SameTable DEF FlatInv
<1> QED
  BY <1>2, <1>3, RunningFrames

LEMMA CacheHitFlat ==
  ASSUME TypeOK, FlatInv, NoStreams, CacheHit
  PROVE  FlatInv'
<1>1. /\ stack # << >> /\ Top.f = "lookup" /\ cache[Top.n] # NoObj
      /\ Return(Ok(cache[Top.n]))
      /\ UNCHANGED <<file, xrefs, cache, objstms, repaired, lenBusy, asked>>
  BY DEF CacheHit, Called, Running
<1>2. Top.n \in Objs
  BY <1>1, TopType
<1>3. Ok(cache[Top.n]).val = cache[Top.n]
  BY DEF Ok
<1>4. ~repaired => Found(Top.n, cache[Top.n])
  BY <1>1, <1>2 DEF FlatInv, CacheFound
<1>5. LookingUp => (cache[Top.n] # Null => cache[Top.n].num = Top.n)
  BY <1>1, <1>2 DEF LookingUp, CacheRight
<1>6. CacheFound' /\ (LookingUp => CacheRight')
  BY <1>1, SameTable DEF FlatInv, LookingUp, CacheFound, CacheRight
<1> QED
  BY <1>1, <1>3, <1>4, <1>5, <1>6, LookupReturns

LEMMA MissingFlat ==
  ASSUME TypeOK, FlatInv, NoStreams, Missing
  PROVE  FlatInv'
<1>1. /\ stack # << >> /\ Top.f = "lookup" /\ xrefs[Top.n] = NoEntry
      /\ Return(Ok(Null))
      /\ UNCHANGED <<file, xrefs, cache, objstms, repaired, lenBusy, asked>>
  BY DEF Missing, Called, Running
<1>2. Ok(Null).val = Null
  BY DEF Ok
<1>3. Found(Top.n, Null)
  BY <1>1 DEF Found
<1>4. CacheFound' /\ (LookingUp => CacheRight')
  BY <1>1, SameTable DEF FlatInv, LookingUp, CacheFound, CacheRight
<1> QED
  BY <1>1, <1>2, <1>3, <1>4, LookupReturns

(* An object at an offset that does not parse: the first time the scan      *)
(* makes the table right.                                                   *)
LEMMA ParseErrorFlat ==
  ASSUME TypeOK, FlatInv, NoStreams, stack # << >>, Top.f = "lookup",
         ParseError(Top.n, Top.rep), UNCHANGED <<file, asked>>
  PROVE  FlatInv'
<1>1. CASE Top.rep /\ ~repaired
  <2>1. /\ repaired' = TRUE /\ xrefs' = TopDown /\ UNCHANGED cache
        /\ Become(Lookup(Top.n, FALSE))
    BY <1>1 DEF ParseError
  <2>2. Lookup(Top.n, FALSE) \in Frame
    BY TopType, FrameTypes
  <2>3. LookingUp
    BY <1>1, RunningFrames DEF BelowRebuild
  <2>4. stack' # << >> /\ Tail(stack') = Tail(stack) /\ Top' = Lookup(Top.n, FALSE) /\ ret' = Pending
    BY <2>1, <2>2, StackAfterBecome
  <2>5. RightTable(xrefs)' /\ AtOnly(xrefs)'
    BY <2>1, TopDownRight DEF RightTable, AtOnly
  <2>6. LookingUp'
    BY <2>1, <2>3, <2>4, <2>5 DEF LookingUp, Waiting, Resolving, Lookup, CacheRight
  <2> QED
    BY <2>1, <2>5, <2>6 DEF FlatInv, CacheFound
<1>2. CASE ~(Top.rep /\ ~repaired)
  <2>1. Return(Fail) /\ UNCHANGED <<repaired, xrefs, cache>>
    BY <1>2 DEF ParseError
  <2>2. ~Fail.ok
    BY DEF Fail
  <2>3. CacheFound' /\ (LookingUp => CacheRight')
    BY <2>1, SameTable DEF FlatInv, LookingUp, CacheFound, CacheRight
  <2> QED
    BY <2>1, <2>2, <2>3, LookupReturns
<1> QED
  BY <1>1, <1>2

(* An object at an offset that parses: it is returned, or has the table     *)
(* rebuilt.  It can have another number only before the scan.               *)
LEMMA ParseDoneFlat ==
  ASSUME TypeOK, FlatInv, NoStreams, stack # << >>, Top.f = "lookup",
         xrefs[Top.n] # NoEntry, NEW v \in Object, v = Parsed(xrefs[Top.n].pos),
         ParseDone(Top.n, Top.rep, v), UNCHANGED <<file, xrefs, repaired, asked>>
  PROVE  FlatInv'
<1> DEFINE n == Top.n
<1>1. n \in Objs /\ v # Null /\ Found(n, v) /\ v.num = file[xrefs[n].pos].num
  BY TopType, Assumptions DEF Found, Parsed
<1>2. RightTable(xrefs) => v.num = n
  BY <1>1 DEF RightTable
<1>3. CASE Top.rep /\ v.num # n
  <2> DEFINE f == Rebuild(n, xrefs, Known(xrefs), n, [o \in Objs |-> NoEntry])
  <2>1. Become(f) /\ UNCHANGED cache
    BY <1>3 DEF ParseDone
  <2>2. f \in Frame
    BY <1>1, FrameTypes DEF TypeOK, Known, XrefTable
  <2>3. LookingUp /\ ~repaired
    BY <1>2, <1>3, RunningFrames DEF BelowRebuild, FlatInv
  <2>4. Rebuilding(f)
    <3>1. n \in Known(xrefs)
      BY <1>1 DEF Known
    <3>2. RightTable([o \in Objs |-> NoEntry])
      BY DEF RightTable
    <3> QED
      BY <2>3, <3>1, <3>2 DEF Rebuilding, Rebuild, LookingUp
  <2> HIDE DEF f
  <2>5. stack' # << >> /\ Tail(stack') = Tail(stack) /\ Top' = f /\ ret' = Pending
    BY <2>1, <2>2, StackAfterBecome
  <2>6. InRebuild'
    BY <2>3, <2>4, <2>5, SameTable DEF LookingUp, InRebuild
  <2>7. CacheFound'
    BY <2>1, SameTable DEF FlatInv, CacheFound
  <2> QED
    BY <2>6, <2>7, SameTable DEF FlatInv
<1>4. CASE ~(Top.rep /\ v.num # n)
  <2>1. cache' = [cache EXCEPT ![n] = v] /\ Return(Ok(v))
    BY <1>4 DEF ParseDone
  <2>2. LookingUp => v.num = n
    BY <1>2, <1>4 DEF LookingUp
  <2>3. CacheFound'
    BY <1>1, <2>1, CachedOne DEF FlatInv
  <2>4. LookingUp => CacheRight'
    BY <1>1, <2>1, <2>2, CachedOne DEF LookingUp
  <2>5. Ok(v).val = v
    BY DEF Ok
  <2> QED
    BY <1>1, <2>1, <2>2, <2>3, <2>4, <2>5, LookupReturns
<1> QED
  BY <1>3, <1>4

LEMMA ParseAtFlat ==
  ASSUME TypeOK, FlatInv, NoStreams, ParseAt
  PROVE  FlatInv'
<1> DEFINE n == Top.n
           p == xrefs[n].pos
<1>1. /\ stack # << >> /\ Top.f = "lookup" /\ xrefs[n] # NoEntry /\ xrefs[n].t = "at"
      /\ UNCHANGED <<file, objstms, asked>>
  BY DEF ParseAt, Called, Running
<1>2. n \in Objs /\ p \in Pos
  BY <1>1, TopType DEF TypeOK, XrefTable, Entry
<1>3. file[p].kind \notin {"stream", "objstm"}
  BY <1>2 DEF NoStreams
<1>4. CASE file[p].kind \in {"gap", "broken"}
  <2>1. ParseError(n, Top.rep)
    BY <1>3, <1>4 DEF ParseAt
  <2> QED
    BY <1>1, <2>1, ParseErrorFlat
<1>5. CASE file[p].kind \notin {"gap", "broken"}
  <2>1. ParseDone(n, Top.rep, Parsed(p)) /\ UNCHANGED <<xrefs, repaired>>
    BY <1>3, <1>5 DEF ParseAt
  <2>2. Parsed(p) \in Object
    BY <1>2, <1>5, ParsedObject
  <2> QED
    BY <1>1, <2>1, <2>2, ParseDoneFlat
<1> QED
  BY <1>4, <1>5

-----------------------------------------------------------------------------
(* The rebuild.                                                             *)
LEMMA RebuildNextFlat ==
  ASSUME TypeOK, FlatInv, NoStreams, RebuildNext
  PROVE  FlatInv'
<1>1. /\ stack # << >> /\ Top.f = "rebuild"
      /\ UNCHANGED <<file, xrefs, cache, objstms, repaired, lenBusy, asked>>
  BY DEF RebuildNext, Called, Running
<1>2. InRebuild /\ Top \in Frame
  BY <1>1, RunningFrames, TopType
<1>3. PICK o \in Top.todo :
        Call([Top EXCEPT !.todo = @ \ {o}, !.cur = o], Lookup(o, FALSE))
  BY DEF RebuildNext
<1> DEFINE f == [Top EXCEPT !.todo = @ \ {o}, !.cur = o]
           g == Lookup(o, FALSE)
<1>4. o \in Objs /\ o \in Known(xrefs)
  BY <1>2 DEF InRebuild, Rebuilding, Known
<1>5. f \in Frame /\ g \in Frame
  <2>1. f \in Frame
    BY <1>1, <1>2, <1>4, TopType DEF Frame
  <2> QED
    BY <1>4, <2>1, FrameTypes
<1>6. Rebuilding(f) /\ f.cur = o
  BY <1>1, <1>2, <1>4, TopType DEF InRebuild, Rebuilding, Frame
<1>7. g.f = "lookup" /\ g.n = o /\ ~g.rep
  BY DEF Lookup
<1> HIDE DEF f, g
<1>8. /\ stack' # << >> /\ Top' = g /\ ret' = Pending
      /\ Tail(stack') # << >> /\ Tail(stack')[1] = f
      /\ Tail(Tail(stack')) = Tail(stack)
  BY <1>1, <1>3, <1>5, StackAfterCall DEF f, g
<1>9. BelowRebuild'
  BY <1>1, <1>2, <1>6, <1>7, <1>8, SameTable DEF InRebuild, BelowRebuild
<1>10. CacheFound'
  BY <1>1, SameTable DEF FlatInv, CacheFound
<1> QED
  BY <1>1, <1>9, <1>10, SameTable DEF FlatInv

(* An entry moves to the number of the object it leads to.                  *)
LEMMA RebuildEntryFlat ==
  ASSUME TypeOK, FlatInv, NoStreams, RebuildEntry
  PROVE  FlatInv'
<1>1. /\ stack # << >> /\ Top.f = "rebuild" /\ ret # Pending /\ ret.ok
      /\ UNCHANGED <<file, xrefs, cache, objstms, repaired, lenBusy, asked>>
  BY DEF RebuildEntry, Returned, Running
<1>2. InRebuild /\ Top \in Frame /\ Top.new \in XrefTable /\ Top.old \in XrefTable
  BY <1>1, RunningFrames, TopType
<1> DEFINE cur == Top.cur
           v   == ret.val
           f   == [Top EXCEPT !.new[v.num] = Top.old[cur]]
<1>3. /\ cur \in Objs /\ xrefs[cur] # NoEntry /\ v # Null
      /\ v = Parsed(xrefs[cur].pos)
  BY <1>1, <1>2 DEF InRebuild, Rebuilding, Known, Found
<1>4. v.num \in Objs /\ v.num = file[xrefs[cur].pos].num
  BY <1>1, <1>3, ResultVal DEF Parsed, TypeOK
<1>5. Become(f)
  BY <1>3 DEF RebuildEntry
<1>6. f \in Frame /\ f.f = "rebuild" /\ f.n = Top.n /\ f.old = Top.old
      /\ f.todo = Top.todo /\ f.cur = cur
      /\ f.new = [Top.new EXCEPT ![v.num] = Top.old[cur]]
  BY <1>1, <1>2, <1>3, <1>4 DEF Frame, XrefTable
<1> HIDE DEF f
<1>7. RightTable(f.new)
  <2>1. ASSUME NEW o \in Objs, f.new[o] # NoEntry
        PROVE  f.new[o].t = "at" /\ file[f.new[o].pos].num = o
    <3>1. CASE o = v.num
      BY <1>2, <1>3, <1>4, <1>6, <3>1
         DEF InRebuild, Rebuilding, XrefTable, FlatInv, AtOnly
    <3>2. CASE o # v.num
      BY <1>2, <1>6, <2>1, <3>2 DEF InRebuild, Rebuilding, XrefTable, RightTable
    <3> QED
      BY <3>1, <3>2
  <2> QED
    BY <2>1 DEF RightTable
<1>8. Rebuilding(f)
  BY <1>2, <1>6, <1>7 DEF InRebuild, Rebuilding
<1>9. stack' # << >> /\ Tail(stack') = Tail(stack) /\ Top' = f /\ ret' = Pending
  BY <1>1, <1>5, <1>6, StackAfterBecome
<1>10. InRebuild'
  BY <1>1, <1>2, <1>8, <1>9, SameTable DEF InRebuild
<1>11. CacheFound'
  BY <1>1, SameTable DEF FlatInv, CacheFound
<1> QED
  BY <1>1, <1>10, <1>11, SameTable DEF FlatInv

(* The table is right after a rebuild, whether it scanned or not.           *)
LEMMA RelookupFlat ==
  ASSUME TypeOK, NoStreams, InRebuild, Top.n \in Objs, Relookup(Top.n),
         UNCHANGED <<file, asked>>, RightTable(xrefs)'
  PROVE  FlatInv'
<1>1. Become(Lookup(Top.n, FALSE)) /\ Lookup(Top.n, FALSE) \in Frame /\ cache' = NoCache
  BY FrameTypes DEF Relookup
<1>2. stack' # << >> /\ Tail(stack') = Tail(stack) /\ Top' = Lookup(Top.n, FALSE) /\ ret' = Pending
  BY <1>1, StackAfterBecome DEF InRebuild
<1>3. LookingUp'
  BY <1>1, <1>2, EmptyCache
     DEF InRebuild, Rebuilding, LookingUp, Waiting, Resolving, Lookup
<1>4. AtOnly(xrefs)'
  BY DEF RightTable, AtOnly
<1> QED
  BY <1>1, <1>3, <1>4, EmptyCache DEF FlatInv

LEMMA RebuildFailsFlat ==
  ASSUME TypeOK, FlatInv, NoStreams, RebuildFails
  PROVE  FlatInv'
<1>1. stack # << >> /\ Top.f = "rebuild" /\ UNCHANGED <<file, asked>>
  BY DEF RebuildFails, Returned, Running
<1>2. InRebuild /\ Top.n \in Objs
  BY <1>1, RunningFrames, TopType
<1>3. xrefs' = TopDown /\ Relookup(Top.n)
  BY <1>2 DEF RebuildFails, InRebuild, Rebuilding
<1>4. RightTable(xrefs)'
  BY <1>1, <1>3, TopDownRight DEF RightTable
<1> QED
  BY <1>1, <1>2, <1>3, <1>4, RelookupFlat

LEMMA RebuildDoneFlat ==
  ASSUME TypeOK, FlatInv, NoStreams, RebuildDone
  PROVE  FlatInv'
<1>1. /\ stack # << >> /\ Top.f = "rebuild" /\ UNCHANGED <<file, asked>>
      /\ xrefs' = Top.new /\ Relookup(Top.n)
  BY DEF RebuildDone, Called, Running
<1>2. InRebuild /\ Top.n \in Objs
  BY <1>1, RunningFrames, TopType
<1>3. RightTable(xrefs)'
  BY <1>1, <1>2 DEF InRebuild, Rebuilding, RightTable
<1> QED
  BY <1>1, <1>2, <1>3, RelookupFlat

(* Every step keeps the invariant.                                          *)
LEMMA FlatStep == TypeOK /\ FlatInv /\ [Next]_vars => FlatInv'
<1> SUFFICES ASSUME TypeOK, FlatInv, [Next]_vars
             PROVE  FlatInv'
  OBVIOUS
<1>1. UNCHANGED file
  BY DEF Next, Step, Ask, Resolved, CacheHit, Missing, ParseAt, LengthTraced, FromStream,
         StreamLoaded, RebuildNext, RebuildEntry, RebuildFails, RebuildDone, vars
<1>2. NoStreams' = NoStreams
  BY <1>1 DEF NoStreams
<1>3. CASE ~NoStreams
  BY <1>2, <1>3 DEF FlatInv
<1>4. CASE NoStreams
  <2>1. ASSUME NEW n \in Objs, Ask(n)
        PROVE  FlatInv'
    BY <1>4, <2>1, AskFlat
  <2>2. CASE Resolved
    BY <1>4, <2>2, ResolvedFlat
  <2>3. CASE CacheHit
    BY <1>4, <2>3, CacheHitFlat
  <2>4. CASE Missing
    BY <1>4, <2>4, MissingFlat
  <2>5. CASE ParseAt
    BY <1>4, <2>5, ParseAtFlat
  <2>6. ~LengthTraced /\ ~StreamLoaded
    BY <1>4, RunningFrames DEF LengthTraced, StreamLoaded, Returned, Running
  <2>7. ~FromStream
    <3> SUFFICES ASSUME FromStream PROVE FALSE
      OBVIOUS
    <3>1. stack # << >> /\ xrefs[Top.n] # NoEntry /\ xrefs[Top.n].t = "in"
      BY DEF FromStream, Called, Running
    <3>2. Top.n \in Objs
      BY <3>1, TopType
    <3>3. AtOnly(xrefs)
      BY <1>4 DEF FlatInv
    <3> QED
      BY <3>1, <3>2, <3>3 DEF AtOnly
  <2>8. CASE RebuildNext
    BY <1>4, <2>8, RebuildNextFlat
  <2>9. CASE RebuildEntry
    BY <1>4, <2>9, RebuildEntryFlat
  <2>10. CASE RebuildFails
    BY <1>4, <2>10, RebuildFailsFlat
  <2>11. CASE RebuildDone
    BY <1>4, <2>11, RebuildDoneFlat
  <2>12. CASE UNCHANGED vars
    <3>1. UNCHANGED <<file, xrefs, cache, repaired, stack, ret, asked>>
      BY <2>12 DEF vars
    <3>2. Top' = Top
      BY <3>1 DEF Top
    <3> QED
      BY <3>1, <3>2, SameTable
         DEF FlatInv, CacheFound, AtRest, LookingUp, InRebuild, BelowRebuild,
             RightAnswer, CacheRight
  <2> QED
    BY <2>1, <2>2, <2>3, <2>4, <2>5, <2>6, <2>7, <2>8, <2>9, <2>10, <2>11, <2>12
       DEF Next, Step
<1> QED
  BY <1>3, <1>4

(* A file without streams has no entry that leads into an object stream.    *)
NoStrayEntries ==
  \A d \in Docs :
    (\A p \in Pos : d.file[p].kind \notin {"stream", "objstm"}) => AtOnly(d.xrefs)

(* "Check the object number.. If it does not match, then try to rebuild":   *)
(* in a file without streams, and whatever is wrong with it and its table,  *)
(* no lookup in any sequence of lookups returns an object with another      *)
(* number, whichever order a rebuild ranges over the table in.              *)
THEOREM RightObjectHolds ==
  ASSUME NoStrayEntries
  PROVE  Spec => []RightObject
<1>1. Init => FlatInv
  <2> SUFFICES ASSUME Init PROVE FlatInv
    OBVIOUS
  <2>1. PICK d \in Docs : file = d.file /\ xrefs = d.xrefs
    BY DEF Init
  <2>2. NoStreams => AtOnly(xrefs)
    BY <2>1 DEF NoStrayEntries, NoStreams
  <2>3. stack \in Waiting /\ RightAnswer /\ CacheRight /\ CacheFound /\ ~repaired
    BY DEF Init, Waiting, RightAnswer, CacheRight, CacheFound, NoCache
  <2> QED
    BY <2>2, <2>3 DEF FlatInv, AtRest
<1>2. TypeOK /\ FlatInv => RightObject
  <2> SUFFICES ASSUME TypeOK, FlatInv, Answered, ret.ok, ret.val # Null, NoStreams
               PROVE  ret.val.num = asked
    BY DEF RightObject, NoStreams
  <2>1. AtRest
    BY WaitingStack DEF Answered, FlatInv, LookingUp, InRebuild, BelowRebuild
  <2> QED
    BY <2>1 DEF AtRest, RightAnswer, Answered
<1> QED
  BY <1>1, <1>2, FlatStep, TypeCorrect, PTL DEF Spec
-----------------------------------------------------------------------------
(***************************************************************************)
(* ObjectLookup implements ObjectStore for intact documents: however       *)
(* lookups follow each other, each is answered by the object its number    *)
(* has, and between the request and the answer nothing else is visible.    *)
(* (That the answer comes is liveness, and checked by TLC.)                *)
(*                                                                         *)
(* What the lookups rely on is that no repair is ever started: an intact   *)
(* document never fails to parse, and it never refuses a Length as being   *)
(* looked up already.  The second needs an order on the objects in which   *)
(* what an object needs comes before it: Level.                            *)
(***************************************************************************)

Loaded == [file |-> file, xrefs |-> xrefs]

\* How far an object is from one that can be parsed by itself: a stream with
\* its Length at an offset needs that; what is in an object stream needs the
\* stream; and a stream may have its Length in an object stream.
Level(n) ==
  IF xrefs[n] = NoEntry THEN 0
  ELSE IF xrefs[n].t = "in" THEN 2
  ELSE IF \/ file[xrefs[n].pos].kind \notin {"stream", "objstm"}
          \/ file[xrefs[n].pos].len = Direct THEN 0
  ELSE IF IntAt(Loaded, file[xrefs[n].pos].len) THEN 1 ELSE 3

\* A frame is what the code made of an intact document: it attempts repairs,
\* it never rebuilds, and it stands at the object it is for.
FrameTrue(f) ==
  /\ f.f # "rebuild"
  /\ f.f = "lookup" => f.rep
  /\ f.f = "length" => /\ xrefs[f.n] # NoEntry /\ xrefs[f.n].t = "at"
                       /\ f.at = xrefs[f.n].pos
                       /\ file[f.at].kind \in {"stream", "objstm"}
                       /\ file[f.at].len # Direct
  /\ f.f = "member" => /\ xrefs[f.n] # NoEntry /\ xrefs[f.n].t = "in"
                       /\ f.os = xrefs[f.n].os

\* The number whose lookup an activation waits for, or is.
Wanted(f) ==
  IF f.f = "length" THEN file[f.at].len ELSE IF f.f = "member" THEN f.os ELSE f.n

\* Each activation serves the one below it, the lowest the client; what is
\* on top of an activation is no further from being parsed than that.
StackTrue ==
  /\ \A i \in DOMAIN stack : FrameTrue(stack[i])
  /\ \A i, j \in DOMAIN stack : j = i + 1 => stack[i].n = Wanted(stack[j])
  /\ \A i \in DOMAIN stack : i = Len(stack) => stack[i].n = asked
  /\ \A i, j \in DOMAIN stack : i < j => Level(stack[i].n) <= Level(stack[j].n)

BusyTrue ==
  \A r \in lenBusy : \E i \in DOMAIN stack :
    stack[i].f = "length" /\ file[stack[i].at].len = r

CacheTrue == \A n \in Objs : cache[n] # NoObj => Ok(cache[n]) = ValueOf(n)

StreamsTrue ==
  \A os \in Objs : objstms[os] # NoObj =>
    xrefs[os] # NoEntry /\ xrefs[os].t = "at" /\ objstms[os] = xrefs[os].pos

AnswerTrue ==
  /\ stack # << >> => asked \in Objs /\ (ret # Pending => ret = ValueOf(Wanted(Top)))
  /\ stack = << >> /\ asked # NoRequest => ret = ValueOf(asked)
  /\ stack = << >> /\ asked = NoRequest => ret = Pending

StoreInv ==
  Intact(Loaded) /\ StackTrue /\ BusyTrue /\ CacheTrue /\ StreamsTrue /\ AnswerTrue

-----------------------------------------------------------------------------
(* Intact documents.  What an entry leads to, and what that needs.          *)
LEMMA IntactAt ==
  ASSUME TypeOK, Intact(Loaded), NEW n \in Objs, xrefs[n] # NoEntry, xrefs[n].t = "at"
  PROVE  LET p == xrefs[n].pos
             r == file[p].len
         IN  /\ p \in Pos
             /\ file[p].kind \notin {"gap", "broken"}
             /\ Parsed(p) \in Object /\ Parsed(p).num = n
             /\ ValueOf(n) = Ok(Parsed(p))
             /\ file[p].kind \in {"stream", "objstm"} /\ r # Direct =>
                  /\ r \in Objs
                  /\ Level(r) < Level(n)
                  /\ ValueOf(r).ok /\ ValueOf(r).val # Null
                  /\ ValueOf(r).val.kind = "int"
<1> DEFINE p == xrefs[n].pos
           r == file[p].len
<1>1. p \in Pos /\ file[p] \in Body
  BY DEF TypeOK, XrefTable, Entry
<1>2. /\ file[p].num = n
      /\ file[p].kind \notin {"gap", "broken"}
      /\ file[p].kind \in {"stream", "objstm"} =>
           \/ r = Direct \/ IntAt(Loaded, r)
           \/ /\ xrefs[r] # NoEntry /\ xrefs[r].t = "in"
              /\ HasMember(Loaded, r, xrefs[r].os)
  BY DEF Intact, Loaded, LengthAt
<1>3. Parsed(p) \in Object /\ Parsed(p).num = n
  BY <1>1, <1>2 DEF Parsed, Object, Body, BodyKinds
<1>4. ValueOf(n) = Ok(Parsed(p))
  BY DEF ValueOf
<1>5. ASSUME file[p].kind \in {"stream", "objstm"}, r # Direct
      PROVE  /\ r \in Objs
             /\ Level(r) < Level(n)
             /\ ValueOf(r).ok /\ ValueOf(r).val # Null
             /\ ValueOf(r).val.kind = "int"
  <2>1. r \in Objs
    BY <1>1, <1>5 DEF Body
  <2>2. CASE IntAt(Loaded, r)
    <3>1. xrefs[r] # NoEntry /\ xrefs[r].t = "at" /\ file[xrefs[r].pos].kind = "int"
      BY <2>2 DEF IntAt, Loaded
    <3>2. xrefs[r].pos \in Pos /\ file[xrefs[r].pos] \in Body
      BY <2>1, <3>1 DEF TypeOK, XrefTable, Entry
    <3>3. Parsed(xrefs[r].pos) \in Object /\ Parsed(xrefs[r].pos).kind = "int"
      BY <3>1, <3>2 DEF Parsed, Object, Body
    <3>4. ValueOf(r) = Ok(Parsed(xrefs[r].pos))
      BY <3>1 DEF ValueOf
    <3>5. Level(r) = 0 /\ Level(n) = 1
      BY <1>5, <2>2, <3>1 DEF Level
    <3>6. Level(r) < Level(n)
      BY <3>5
    <3>7. Parsed(xrefs[r].pos) # Null
      BY <3>3, Assumptions
    <3>8. ValueOf(r).ok /\ ValueOf(r).val = Parsed(xrefs[r].pos)
      BY <3>4 DEF Ok
    <3> QED
      BY <2>1, <3>3, <3>6, <3>7, <3>8
  <2>3. CASE ~IntAt(Loaded, r)
    <3>1. /\ xrefs[r] # NoEntry /\ xrefs[r].t = "in"
          /\ HasMember(Loaded, r, xrefs[r].os)
      BY <1>2, <1>5, <2>3
    <3> DEFINE q == xrefs[xrefs[r].os].pos
    <3>2. /\ xrefs[r].os \in Objs
          /\ xrefs[xrefs[r].os] # NoEntry /\ xrefs[xrefs[r].os].t = "at"
          /\ r \in file[q].has
      BY <2>1, <3>1 DEF HasMember, Loaded, TypeOK, XrefTable, Entry
    <3>3. q \in Pos
      BY <3>2 DEF TypeOK, XrefTable, Entry
    <3>4. MemberOf(q, r) \in Object /\ MemberOf(q, r).kind = "int"
      BY <2>1, <3>2, <3>3 DEF MemberOf, Object
    <3>5. ValueOf(r) = Ok(MemberOf(q, r))
      BY <3>1 DEF ValueOf
    <3>6. Level(r) = 2 /\ Level(n) = 3
      BY <1>5, <2>3, <3>1 DEF Level
    <3>7. Level(r) < Level(n)
      BY <3>6
    <3>8. MemberOf(q, r) # Null
      BY <3>4, Assumptions
    <3>9. ValueOf(r).ok /\ ValueOf(r).val = MemberOf(q, r)
      BY <3>5 DEF Ok
    <3> QED
      BY <2>1, <3>4, <3>7, <3>8, <3>9
  <2> QED
    BY <2>2, <2>3
<1> QED
  BY <1>1, <1>2, <1>3, <1>4, <1>5

LEMMA IntactIn ==
  ASSUME TypeOK, Intact(Loaded), NEW n \in Objs, xrefs[n] # NoEntry, xrefs[n].t = "in"
  PROVE  LET os == xrefs[n].os
             q  == xrefs[os].pos
         IN  /\ os \in Objs /\ os # n
             /\ xrefs[os] # NoEntry /\ xrefs[os].t = "at" /\ q \in Pos
             /\ file[q].kind = "objstm"
             /\ ValueOf(n) = Ok(MemberOf(q, n)) /\ MemberOf(q, n) \in Object
             /\ Level(os) < Level(n)
<1> DEFINE os == xrefs[n].os
           q  == xrefs[os].pos
<1>1. os \in Objs
  BY DEF TypeOK, XrefTable, Entry
<1>2. /\ xrefs[os] # NoEntry /\ xrefs[os].t = "at"
      /\ file[q].kind = "objstm" /\ n \in file[q].has
      /\ file[q].len = Direct \/ IntAt(Loaded, file[q].len)
  BY DEF Intact, HasMember, LengthAt, Loaded
<1>3. q \in Pos
  BY <1>1, <1>2 DEF TypeOK, XrefTable, Entry
<1>4. ValueOf(n) = Ok(MemberOf(q, n))
  BY DEF ValueOf
<1>5. MemberOf(q, n) \in Object
  BY <1>3 DEF MemberOf, Object
<1>6. Level(n) = 2 /\ Level(os) \in {0, 1}
  BY <1>2 DEF Level
<1> QED
  BY <1>1, <1>2, <1>3, <1>4, <1>5, <1>6

LEMMA LevelNat == \A n : Level(n) \in 0 .. 3
BY DEF Level

(* Steps leave the file alone, and lookups of an intact document the table: *)
(* the object of a number stays the same.                                   *)
LEMMA SameDocument ==
  ASSUME UNCHANGED <<file, xrefs>>
  PROVE  /\ Intact(Loaded)' = Intact(Loaded)
         /\ \A n : ValueOf(n)' = ValueOf(n)
         /\ \A n : Level(n)' = Level(n)
         /\ \A f : FrameTrue(f)' = FrameTrue(f)
         /\ \A f : Wanted(f)' = Wanted(f)
<1>1. Intact(Loaded)' = Intact(Loaded)
  BY DEF Intact, Loaded, HasMember, LengthAt, IntAt
<1>2. \A n : ValueOf(n)' = ValueOf(n)
  BY DEF ValueOf, Parsed, MemberOf
<1>3. \A n : Level(n)' = Level(n)
  BY DEF Level, IntAt, Loaded
<1>4. \A f : FrameTrue(f)' = FrameTrue(f) /\ Wanted(f)' = Wanted(f)
  BY DEF FrameTrue, Wanted
<1> QED
  BY <1>1, <1>2, <1>3, <1>4
-----------------------------------------------------------------------------
(* An activation returns the object of its number: to the client, or to the *)
(* activation below it, which waits for just that.                          *)
LEMMA ReturnTrue ==
  ASSUME TypeOK, StackTrue, AnswerTrue, stack # << >>,
         UNCHANGED <<file, xrefs, asked>>, Return(ValueOf(Top.n))
  PROVE  StackTrue' /\ AnswerTrue'
<1> DEFINE s == stack
           t == stack'
<1>1. t = Tail(s) /\ ret' = ValueOf(s[1].n)
  BY DEF Return, Top
<1>2. /\ t \in Seq(Frame) /\ Len(s) \in Nat \ {0} /\ Len(t) = Len(s) - 1
      /\ \A i \in 1 .. Len(s) - 1 : t[i] = s[i + 1]
      /\ DOMAIN s = 1 .. Len(s) /\ DOMAIN t = 1 .. Len(s) - 1
  BY <1>1, PoppedStack DEF TypeOK
<1>3. asked' = asked /\ asked \in Objs
  BY DEF AnswerTrue
<1> HIDE DEF s, t
<1>4. \A i \in DOMAIN t : i + 1 \in DOMAIN s /\ t[i] = s[i + 1]
  BY <1>2
<1>5. \A i \in DOMAIN s : FrameTrue(s[i])
  BY DEF StackTrue, s
<1>6. \A i, j \in DOMAIN s : j = i + 1 => s[i].n = Wanted(s[j])
  BY DEF StackTrue, s
<1>7. \A i \in DOMAIN s : i = Len(s) => s[i].n = asked
  BY DEF StackTrue, s
<1>8. \A i, j \in DOMAIN s : i < j => Level(s[i].n) <= Level(s[j].n)
  BY DEF StackTrue, s
<1>9. StackTrue'
  <2>1. \A i \in DOMAIN t : FrameTrue(t[i])
    BY <1>4, <1>5
  <2>2. ASSUME NEW i \in DOMAIN t, NEW j \in DOMAIN t, j = i + 1
        PROVE  t[i].n = Wanted(t[j])
    <3>1. s[i + 1].n = Wanted(s[j + 1])
      BY <1>2, <1>4, <1>6, <2>2
    <3> QED
      BY <1>4, <3>1
  <2>3. \A i \in DOMAIN t : i = Len(t) => t[i].n = asked
    BY <1>2, <1>4, <1>7
  <2>4. ASSUME NEW i \in DOMAIN t, NEW j \in DOMAIN t, i < j
        PROVE  Level(t[i].n) <= Level(t[j].n)
    <3>1. Level(s[i + 1].n) <= Level(s[j + 1].n)
      BY <1>2, <1>4, <1>8, <2>4
    <3> QED
      BY <1>4, <3>1
  <2> QED
    BY <1>3, <2>1, <2>2, <2>3, <2>4, SameDocument DEF StackTrue, t
<1>10. AnswerTrue'
  <2>1. CASE t = << >>
    <3>1. s[1].n = asked
      BY <1>2, <1>7, <2>1
    <3> QED
      BY <1>1, <1>3, <2>1, <3>1, SameDocument, Assumptions DEF AnswerTrue, t
  <2>2. CASE t # << >>
    <3>1. Len(s) # 1
      BY <1>2, <2>2
    <3>2. 1 \in DOMAIN s /\ 2 \in DOMAIN s /\ t[1] = s[2]
      BY <1>2, <3>1
    <3>3. s[1].n = Wanted(t[1])
      BY <1>6, <3>2
    <3> QED
      BY <1>1, <1>3, <2>2, <3>3, SameDocument DEF AnswerTrue, Top, t
  <2> QED
    BY <2>1, <2>2
<1> QED
  BY <1>9, <1>10

(* A lookup calls another one for what it needs.                            *)
LEMMA CallTrue ==
  ASSUME TypeOK, StackTrue, AnswerTrue, stack # << >>,
         UNCHANGED <<file, xrefs, asked>>,
         NEW f \in Frame, NEW g \in Frame, Call(f, g),
         FrameTrue(f), FrameTrue(g),
         f.n = Top.n, g.n = Wanted(f), Level(g.n) < Level(f.n)
  PROVE  /\ StackTrue' /\ AnswerTrue'
         /\ Len(stack') = Len(stack) + 1 /\ stack'[2] = f
         /\ \A i \in 2 .. Len(stack) : stack'[i + 1] = stack[i]
<1> DEFINE s == stack
           t == stack'
<1>1. t = <<g, f>> \o Tail(s) /\ ret' = Pending /\ f.n = s[1].n
  BY DEF Call, Top
<1>2. /\ t \in Seq(Frame) /\ Len(s) \in Nat \ {0} /\ Len(t) = Len(s) + 1
      /\ t[1] = g /\ t[2] = f
      /\ \A i \in 2 .. Len(s) : t[i + 1] = s[i]
      /\ DOMAIN s = 1 .. Len(s) /\ DOMAIN t = 1 .. Len(s) + 1
  BY <1>1, PushedFrame, PoppedStack DEF TypeOK
<1>3. asked' = asked /\ asked \in Objs
  BY DEF AnswerTrue
<1> HIDE DEF s, t
<1>4. \A i \in DOMAIN t : \/ i = 1 /\ t[i] = g
                          \/ i = 2 /\ t[i] = f
                          \/ i >= 3 /\ i - 1 \in DOMAIN s /\ t[i] = s[i - 1]
  BY <1>2
<1>5. \A i \in DOMAIN s : FrameTrue(s[i])
  BY DEF StackTrue, s
<1>6. \A i, j \in DOMAIN s : j = i + 1 => s[i].n = Wanted(s[j])
  BY DEF StackTrue, s
<1>7. \A i \in DOMAIN s : i = Len(s) => s[i].n = asked
  BY DEF StackTrue, s
<1>8. \A i, j \in DOMAIN s : i < j => Level(s[i].n) <= Level(s[j].n)
  BY DEF StackTrue, s
\* The numbers, from the second frame up, are the old ones.
<1>9. \A i \in DOMAIN t : i >= 2 => i - 1 \in DOMAIN s /\ t[i].n = s[i - 1].n
  BY <1>1, <1>2, <1>4
<1>10. StackTrue'
  <2>1. \A i \in DOMAIN t : FrameTrue(t[i])
    BY <1>4, <1>5
  <2>2. ASSUME NEW i \in DOMAIN t, NEW j \in DOMAIN t, j = i + 1
        PROVE  t[i].n = Wanted(t[j])
    <3>1. CASE i = 1
      BY <1>2, <2>2, <3>1
    <3>2. CASE i # 1
      <4>1. i >= 2 /\ j >= 3 /\ j - 1 \in DOMAIN s /\ t[j] = s[j - 1]
        BY <1>2, <2>2, <3>2
      <4>2. i - 1 \in DOMAIN s /\ t[i].n = s[i - 1].n /\ j - 1 = (i - 1) + 1
        BY <1>2, <1>9, <2>2, <4>1
      <4>3. s[i - 1].n = Wanted(s[j - 1])
        BY <1>6, <4>1, <4>2
      <4> QED
        BY <4>1, <4>2, <4>3
    <3> QED
      BY <3>1, <3>2
  <2>3. \A i \in DOMAIN t : i = Len(t) => t[i].n = asked
    BY <1>2, <1>7, <1>9
  <2>4. ASSUME NEW i \in DOMAIN t, NEW j \in DOMAIN t, i < j
        PROVE  Level(t[i].n) <= Level(t[j].n)
    <3>1. j - 1 \in DOMAIN s /\ t[j].n = s[j - 1].n
      BY <1>2, <1>9, <2>4
    <3>2. CASE i = 1
      <4>1. Level(s[1].n) <= Level(s[j - 1].n)
        BY <1>2, <1>8, <3>1, LevelNat
      <4>2. Level(t[1].n) < Level(s[1].n)
        BY <1>1, <1>2
      <4>3. Level(t[1].n) <= Level(t[j].n)
        BY <3>1, <4>1, <4>2, LevelNat
      <4> QED
        BY <3>2, <4>3
    <3>3. CASE i # 1
      <4>1. i - 1 \in DOMAIN s /\ t[i].n = s[i - 1].n /\ i - 1 < j - 1
        BY <1>2, <1>9, <2>4, <3>3
      <4>2. Level(s[i - 1].n) <= Level(s[j - 1].n)
        BY <1>8, <3>1, <4>1
      <4> QED
        BY <3>1, <4>1, <4>2
    <3> QED
      BY <3>2, <3>3
  <2> QED
    BY <1>3, <2>1, <2>2, <2>3, <2>4, SameDocument DEF StackTrue, t
<1>11. AnswerTrue'
  BY <1>1, <1>2, <1>3 DEF AnswerTrue, t
<1> QED
  BY <1>2, <1>10, <1>11 DEF s, t
(* What is marked as being looked up still is, after the activation on top  *)
(* has returned, if that was not the one that waited for it.                *)
LEMMA ReturnBusy ==
  ASSUME TypeOK, BusyTrue, stack # << >>, UNCHANGED file, stack' = Tail(stack),
         \A r \in lenBusy' :
           r \in lenBusy /\ ~(Top.f = "length" /\ file[Top.at].len = r)
  PROVE  BusyTrue'
<1> SUFFICES ASSUME NEW r \in lenBusy'
             PROVE  \E i \in DOMAIN stack' :
                      stack'[i].f = "length" /\ file[stack'[i].at].len = r
  BY DEF BusyTrue
<1>1. PICK i \in DOMAIN stack : stack[i].f = "length" /\ file[stack[i].at].len = r
  BY DEF BusyTrue
<1>2. i # 1
  BY <1>1 DEF Top
<1>3. /\ stack' \in Seq(Frame) /\ Len(stack) \in Nat \ {0} /\ Len(stack') = Len(stack) - 1
      /\ \A k \in 1 .. Len(stack) - 1 : stack'[k] = stack[k + 1]
  BY PoppedStack DEF TypeOK
<1>4. i - 1 \in DOMAIN stack' /\ stack'[i - 1] = stack[i]
  BY <1>2, <1>3 DEF TypeOK
<1> QED
  BY <1>1, <1>4

(* Everything else keeps what is marked below a call.                       *)
LEMMA CallBusy ==
  ASSUME TypeOK, BusyTrue, stack # << >>, UNCHANGED file,
         NEW f, Top.f = "lookup",
         Len(stack') = Len(stack) + 1, stack' \in Seq(Frame), stack'[2] = f,
         \A i \in 2 .. Len(stack) : stack'[i + 1] = stack[i],
         \A r \in lenBusy' : r \in lenBusy \/ (f.f = "length" /\ file[f.at].len = r)
  PROVE  BusyTrue'
<1> SUFFICES ASSUME NEW r \in lenBusy'
             PROVE  \E i \in DOMAIN stack' :
                      stack'[i].f = "length" /\ file[stack'[i].at].len = r
  BY DEF BusyTrue
<1>0. Len(stack) \in Nat \ {0} /\ DOMAIN stack' = 1 .. Len(stack) + 1
  BY PoppedStack DEF TypeOK
<1>1. CASE r \in lenBusy
  <2>1. PICK i \in DOMAIN stack : stack[i].f = "length" /\ file[stack[i].at].len = r
    BY <1>1 DEF BusyTrue
  <2>2. i # 1
    BY <2>1 DEF Top
  <2>3. i + 1 \in DOMAIN stack' /\ stack'[i + 1] = stack[i]
    BY <1>0, <2>2 DEF TypeOK
  <2> QED
    BY <2>1, <2>3
<1>2. CASE r \notin lenBusy
  <2>1. 2 \in DOMAIN stack'
    BY <1>0
  <2> QED
    BY <1>2, <2>1
<1> QED
  BY <1>1, <1>2

(* What is cached is the object of its number.                              *)
LEMMA CachedTrue ==
  ASSUME TypeOK, CacheTrue, UNCHANGED <<file, xrefs>>,
         \/ UNCHANGED cache
         \/ \E n \in Objs : \E v : cache' = [cache EXCEPT ![n] = v] /\ Ok(v) = ValueOf(n)
  PROVE  CacheTrue'
<1>1. CASE UNCHANGED cache
  BY <1>1, SameDocument DEF CacheTrue
<1>2. ASSUME NEW n \in Objs, NEW v, cache' = [cache EXCEPT ![n] = v], Ok(v) = ValueOf(n)
      PROVE  CacheTrue'
  <2>1. \A m \in Objs : cache'[m] = IF m = n THEN v ELSE cache[m]
    BY <1>2 DEF TypeOK
  <2> QED
    BY <1>2, <2>1, SameDocument DEF CacheTrue
<1> QED
  BY <1>1, <1>2

(* The step in which an activation ends with the object of its number.      *)
LEMMA AnswerStep ==
  ASSUME TypeOK, StoreInv, stack # << >>, UNCHANGED <<file, xrefs, asked>>,
         Return(ValueOf(Top.n)), StreamsTrue',
         \/ UNCHANGED cache
         \/ \E v : cache' = [cache EXCEPT ![Top.n] = v] /\ Ok(v) = ValueOf(Top.n),
         \A r \in lenBusy' :
           r \in lenBusy /\ ~(Top.f = "length" /\ file[Top.at].len = r)
  PROVE  StoreInv'
<1>1. StackTrue' /\ AnswerTrue'
  BY ReturnTrue DEF StoreInv
<1>2. BusyTrue'
  <2>1. stack' = Tail(stack)
    BY DEF Return
  <2> QED
    BY <2>1, ReturnBusy DEF StoreInv
<1>3. CacheTrue'
  <2>1. Top.n \in Objs
    BY TopType
  <2> QED
    BY <2>1, CachedTrue DEF StoreInv
<1>4. Intact(Loaded)'
  BY SameDocument DEF StoreInv
<1> QED
  BY <1>1, <1>2, <1>3, <1>4 DEF StoreInv

LEMMA SameStreams ==
  ASSUME StreamsTrue, UNCHANGED <<xrefs, objstms>>
  PROVE  StreamsTrue'
BY DEF StreamsTrue

-----------------------------------------------------------------------------
(* Step by step.                                                            *)
LEMMA AskedStack ==
  ASSUME NEW a, NEW b, NEW t, t = <<a>> \/ t = <<a, b>>
  PROVE  /\ DOMAIN t \subseteq {1, 2} /\ t # << >>
         /\ \A i \in DOMAIN t : t[i] = a \/ t[i] = b
         /\ 2 \in DOMAIN t => t[2] = b
<1>1. CASE t = <<a>>
  BY <1>1
<1>2. CASE t = <<a, b>>
  BY <1>2
<1> QED
  BY <1>1, <1>2

LEMMA AskStore ==
  ASSUME TypeOK, StoreInv, NEW n \in Objs, Ask(n)
  PROVE  StoreInv'
<1>1. /\ UNCHANGED <<file, xrefs, cache, objstms, repaired, lenBusy>>
      /\ stack = << >> /\ asked' = n /\ ret' = Pending
  BY DEF Ask
<1>2. \/ stack' = <<Lookup(n, TRUE)>>
      \/ stack' = <<Lookup(n, TRUE), Resolving(n)>>
  BY DEF Ask
<1>3. lenBusy = {}
  BY <1>1 DEF StoreInv, BusyTrue
<1> DEFINE t == stack'
<1>4. /\ FrameTrue(Lookup(n, TRUE)) /\ Lookup(n, TRUE).n = n
      /\ FrameTrue(Resolving(n)) /\ Resolving(n).n = n /\ Wanted(Resolving(n)) = n
  BY DEF Lookup, Resolving, FrameTrue, Wanted
<1>5. /\ DOMAIN t \subseteq {1, 2} /\ t # << >>
      /\ \A i \in DOMAIN t :
           t[i] = Lookup(n, TRUE) \/ (t[i] = Resolving(n))
      /\ 2 \in DOMAIN t => t[2] = Resolving(n)
  <2> DEFINE a == Lookup(n, TRUE)
             b == Resolving(n)
  <2> HIDE DEF a, b, t
  <2>1. t = <<a>> \/ t = <<a, b>>
    BY <1>2 DEF a, b, t
  <2>2. /\ DOMAIN t \subseteq {1, 2} /\ t # << >>
        /\ \A i \in DOMAIN t : t[i] = a \/ t[i] = b
        /\ 2 \in DOMAIN t => t[2] = b
    BY <2>1, AskedStack
  <2> QED
    BY <2>2 DEF a, b
<1> HIDE DEF t
<1>6. \A i \in DOMAIN t : FrameTrue(t[i]) /\ t[i].n = n
  BY <1>4, <1>5
<1>7. \A i, j \in DOMAIN t : j = i + 1 => t[i].n = Wanted(t[j])
  BY <1>4, <1>5, <1>6
<1>8. StackTrue'
  <2>1. \A i, j \in DOMAIN t : Level(t[i].n) <= Level(t[j].n)
    BY <1>6, LevelNat
  <2> QED
    BY <1>1, <1>6, <1>7, <2>1, SameDocument DEF StackTrue, t
<1>9. AnswerTrue'
  BY <1>1, <1>5 DEF AnswerTrue, t
<1> QED
  BY <1>1, <1>3, <1>8, <1>9, SameDocument, CachedTrue, SameStreams
     DEF StoreInv, BusyTrue
(* The activation that runs, and what it got.                               *)
LEMMA TopTrue ==
  ASSUME TypeOK, StoreInv, stack # << >>
  PROVE  /\ FrameTrue(Top) /\ Top.n \in Objs
         /\ ret # Pending => ret = ValueOf(Wanted(Top))
<1>1. 1 \in DOMAIN stack
  BY PoppedStack DEF TypeOK
<1> QED
  BY <1>1, TopType DEF StoreInv, StackTrue, AnswerTrue, Top

LEMMA ValueNull == \A n : xrefs[n] = NoEntry => ValueOf(n) = Ok(Null)
BY DEF ValueOf

LEMMA ResolvedStore ==
  ASSUME TypeOK, StoreInv, Resolved
  PROVE  StoreInv'
<1>1. /\ stack # << >> /\ Top.f = "resolve" /\ ret # Pending
      /\ cache' = IF ret.ok THEN [cache EXCEPT ![Top.n] = ret.val] ELSE cache
      /\ Return(ret)
      /\ UNCHANGED <<file, xrefs, objstms, repaired, lenBusy, asked>>
  BY DEF Resolved, Returned, Running
<1>2. ret = ValueOf(Top.n)
  BY <1>1, TopTrue DEF Wanted
<1>3. ret = Ok(ret.val)
  BY <1>2 DEF ValueOf, Ok
<1>4. \/ UNCHANGED cache
      \/ \E v : cache' = [cache EXCEPT ![Top.n] = v] /\ Ok(v) = ValueOf(Top.n)
  BY <1>1, <1>2, <1>3 DEF TypeOK
<1> QED
  BY <1>1, <1>2, <1>4, AnswerStep, SameStreams DEF StoreInv

LEMMA CacheHitStore ==
  ASSUME TypeOK, StoreInv, CacheHit
  PROVE  StoreInv'
<1>1. /\ stack # << >> /\ Top.f = "lookup" /\ cache[Top.n] # NoObj
      /\ Return(Ok(cache[Top.n]))
      /\ UNCHANGED <<file, xrefs, cache, objstms, repaired, lenBusy, asked>>
  BY DEF CacheHit, Called, Running
<1>2. Ok(cache[Top.n]) = ValueOf(Top.n)
  BY <1>1, TopTrue DEF StoreInv, CacheTrue
<1> QED
  BY <1>1, <1>2, AnswerStep, SameStreams DEF StoreInv

LEMMA MissingStore ==
  ASSUME TypeOK, StoreInv, Missing
  PROVE  StoreInv'
<1>1. /\ stack # << >> /\ Top.f = "lookup" /\ xrefs[Top.n] = NoEntry
      /\ Return(Ok(Null))
      /\ UNCHANGED <<file, xrefs, cache, objstms, repaired, lenBusy, asked>>
  BY DEF Missing, Called, Running
<1> QED
  BY <1>1, ValueNull, AnswerStep, SameStreams DEF StoreInv

(* What was parsed has the number that was looked up, so it is cached and   *)
(* returned.                                                                *)
LEMMA ParseDoneStore ==
  ASSUME TypeOK, StoreInv, stack # << >>, UNCHANGED <<file, xrefs, objstms, asked>>,
         xrefs[Top.n] # NoEntry, xrefs[Top.n].t = "at",
         ParseDone(Top.n, Top.rep, Parsed(xrefs[Top.n].pos)),
         \A r \in lenBusy' :
           r \in lenBusy /\ ~(Top.f = "length" /\ file[Top.at].len = r)
  PROVE  StoreInv'
<1> DEFINE v == Parsed(xrefs[Top.n].pos)
<1>1. Top.n \in Objs /\ Intact(Loaded)
  BY TopTrue DEF StoreInv
<1>2. v.num = Top.n /\ ValueOf(Top.n) = Ok(v)
  BY <1>1, IntactAt
<1>3. cache' = [cache EXCEPT ![Top.n] = v] /\ Return(Ok(v))
  BY <1>2 DEF ParseDone
<1> QED
  BY <1>2, <1>3, AnswerStep, SameStreams DEF StoreInv

(* An object at an offset.  Its Length is not being looked up: a lookup of  *)
(* that is further down, so what it is for is no nearer than this object,   *)
(* and this object is further than its Length.                              *)
LEMMA ParseAtStore ==
  ASSUME TypeOK, StoreInv, ParseAt
  PROVE  StoreInv' /\ UNCHANGED <<file, xrefs>>
<1> DEFINE n == Top.n
           p == xrefs[n].pos
           r == file[p].len
           waits == file[p].kind \in {"stream", "objstm"} /\ r # Direct
<1>1. /\ stack # << >> /\ Top.f = "lookup" /\ n \in Objs /\ Top.rep
      /\ xrefs[n] # NoEntry /\ xrefs[n].t = "at"
      /\ UNCHANGED <<file, objstms, asked>>
  BY TopTrue DEF ParseAt, Called, Running, FrameTrue
<1>2. /\ p \in Pos /\ file[p].kind \notin {"gap", "broken"}
      /\ waits => r \in Objs /\ Level(r) < Level(n)
  BY <1>1, IntactAt DEF StoreInv
<1>3. waits => r \notin lenBusy
  <2> SUFFICES ASSUME waits, r \in lenBusy
               PROVE  FALSE
    OBVIOUS
  <2>1. PICK i \in DOMAIN stack : stack[i].f = "length" /\ file[stack[i].at].len = r
    BY DEF StoreInv, BusyTrue
  <2>2. i \in Nat /\ i >= 2 /\ i - 1 \in DOMAIN stack /\ 1 \in DOMAIN stack
    BY <1>1, <2>1 DEF TypeOK, Top
  <2>3. stack[i - 1].n = r
    <3>1. stack[i - 1].n = Wanted(stack[i])
      <4>1. \A k, j \in DOMAIN stack : j = k + 1 => stack[k].n = Wanted(stack[j])
        BY DEF StoreInv, StackTrue
      <4>2. i = (i - 1) + 1
        BY <2>2
      <4> QED
        BY <2>2, <4>1, <4>2
    <3> QED
      BY <2>1, <3>1 DEF Wanted
  <2>4. Level(n) <= Level(r)
    <3>1. CASE i = 2
      BY <2>3, <3>1, LevelNat DEF Top
    <3>2. CASE i # 2
      <4>1. Level(stack[1].n) <= Level(stack[i - 1].n)
        BY <2>2, <3>2 DEF StoreInv, StackTrue
      <4> QED
        BY <2>3, <4>1 DEF Top
    <3> QED
      BY <3>1, <3>2
  <2> QED
    BY <1>2, <2>4, LevelNat
<1>4. CASE waits
  <2>1. /\ lenBusy' = lenBusy \cup {r}
        /\ Call(Length(n, Top.rep, p), Lookup(r, TRUE))
        /\ UNCHANGED <<xrefs, cache, repaired>>
    BY <1>2, <1>3, <1>4 DEF ParseAt, InProgress
  <2> DEFINE f == Length(n, Top.rep, p)
             g == Lookup(r, TRUE)
  <2>2. f \in Frame /\ g \in Frame
    BY <1>1, <1>2, <1>4, TopType, FrameTypes
  <2>3. /\ f.f = "length" /\ f.n = n /\ f.at = p
        /\ g.f = "lookup" /\ g.n = r /\ g.rep
    BY DEF Length, Lookup
  <2>4. FrameTrue(f) /\ FrameTrue(g) /\ Wanted(f) = r
    BY <1>1, <1>4, <2>3 DEF FrameTrue, Wanted
  <2> HIDE DEF f, g
  <2>5. Call(f, g)
    BY <2>1 DEF f, g
  <2>6. Level(g.n) < Level(f.n) /\ g.n = Wanted(f) /\ f.n = Top.n
    BY <1>2, <1>4, <2>3, <2>4
  <2>7. /\ StackTrue' /\ AnswerTrue'
        /\ Len(stack') = Len(stack) + 1 /\ stack'[2] = f
        /\ \A i \in 2 .. Len(stack) : stack'[i + 1] = stack[i]
    BY <1>1, <2>1, <2>2, <2>4, <2>5, <2>6, CallTrue DEF StoreInv
  <2>8. stack' \in Seq(Frame)
    BY <1>1, <2>2, <2>5, CallType
  <2>9. BusyTrue'
    BY <1>1, <2>1, <2>3, <2>7, <2>8, CallBusy DEF StoreInv
  <2> QED
    BY <1>1, <2>1, <2>7, <2>9, SameDocument, CachedTrue, SameStreams DEF StoreInv
<1>5. CASE ~waits
  <2>1. ParseDone(n, Top.rep, Parsed(p)) /\ UNCHANGED <<xrefs, repaired, lenBusy>>
    BY <1>2, <1>5 DEF ParseAt
  <2> QED
    BY <1>1, <2>1, ParseDoneStore
<1> QED
  BY <1>4, <1>5
(* The Length is an integer, so the stream is parsed.                       *)
LEMMA LengthTracedStore ==
  ASSUME TypeOK, StoreInv, LengthTraced
  PROVE  StoreInv' /\ UNCHANGED <<file, xrefs>>
<1>1. /\ stack # << >> /\ Top.f = "length" /\ ret # Pending
      /\ UNCHANGED <<file, objstms, asked>>
      /\ lenBusy' = IF ret.ok THEN Completed(file[Top.at].len) ELSE lenBusy
  BY DEF LengthTraced, Returned, Running
<1>2. /\ Top.n \in Objs /\ xrefs[Top.n] # NoEntry /\ xrefs[Top.n].t = "at"
      /\ Top.at = xrefs[Top.n].pos
      /\ file[Top.at].kind \in {"stream", "objstm"} /\ file[Top.at].len # Direct
      /\ ret = ValueOf(file[Top.at].len)
  BY <1>1, TopTrue DEF FrameTrue, Wanted
<1>3. ret.ok /\ ret.val # Null /\ ret.val.kind = "int"
  <2> DEFINE m == Top.n
  <2>1. Intact(Loaded) /\ m \in Objs /\ xrefs[m] # NoEntry /\ xrefs[m].t = "at"
    BY <1>2 DEF StoreInv
  <2>2. /\ file[xrefs[m].pos].kind \in {"stream", "objstm"}
        /\ file[xrefs[m].pos].len # Direct
        /\ ret = ValueOf(file[xrefs[m].pos].len)
    BY <1>2
  <2> HIDE DEF m
  <2> QED
    BY <2>1, <2>2, IntactAt
<1>4. /\ ParseDone(Top.n, Top.rep, Parsed(xrefs[Top.n].pos))
      /\ UNCHANGED <<xrefs, repaired>>
  BY <1>2, <1>3 DEF LengthTraced
<1>5. lenBusy' = lenBusy \ {file[Top.at].len}
  BY <1>1, <1>3 DEF Completed
<1> QED
  BY <1>1, <1>2, <1>4, <1>5, ParseDoneStore

(* An object in an object stream: loaded from the one that is decoded, or   *)
(* the object stream is looked up first.                                    *)
LEMMA FromStreamStore ==
  ASSUME TypeOK, StoreInv, FromStream
  PROVE  StoreInv'
<1> DEFINE n  == Top.n
           os == xrefs[n].os
           q  == xrefs[os].pos
<1>1. /\ stack # << >> /\ Top.f = "lookup" /\ n \in Objs
      /\ xrefs[n] # NoEntry /\ xrefs[n].t = "in"
      /\ UNCHANGED <<file, xrefs, objstms, repaired, lenBusy, asked>>
  BY TopTrue DEF FromStream, Called, Running
<1>2. /\ os \in Objs /\ os # n /\ xrefs[os] # NoEntry
      /\ ValueOf(n) = Ok(MemberOf(q, n))
      /\ Level(os) < Level(n)
  BY <1>1, IntactIn DEF StoreInv
<1>3. CASE objstms[os] # NoObj
  <2>1. objstms[os] = q
    BY <1>2, <1>3 DEF StoreInv, StreamsTrue
  <2>2. cache' = [cache EXCEPT ![n] = MemberOf(q, n)] /\ Return(Ok(MemberOf(q, n)))
    BY <1>2, <1>3, <2>1 DEF FromStream
  <2> QED
    BY <1>1, <1>2, <2>2, AnswerStep, SameStreams DEF StoreInv
<1>4. CASE objstms[os] = NoObj
  <2>1. Call(Member(n, os), Lookup(os, TRUE)) /\ UNCHANGED cache
    BY <1>2, <1>4 DEF FromStream
  <2> DEFINE f == Member(n, os)
             g == Lookup(os, TRUE)
  <2>2. f \in Frame /\ g \in Frame
    BY <1>1, <1>2, FrameTypes
  <2>3. /\ f.f = "member" /\ f.n = n /\ f.os = os
        /\ g.f = "lookup" /\ g.n = os /\ g.rep
    BY DEF Member, Lookup
  <2>4. FrameTrue(f) /\ FrameTrue(g) /\ Wanted(f) = os
    BY <1>1, <2>3 DEF FrameTrue, Wanted
  <2> HIDE DEF f, g
  <2>5. Call(f, g)
    BY <2>1 DEF f, g
  <2>6. Level(g.n) < Level(f.n) /\ g.n = Wanted(f) /\ f.n = Top.n
    BY <1>2, <2>3, <2>4
  <2>7. /\ StackTrue' /\ AnswerTrue'
        /\ Len(stack') = Len(stack) + 1 /\ stack'[2] = f
        /\ \A i \in 2 .. Len(stack) : stack'[i + 1] = stack[i]
    BY <1>1, <2>2, <2>4, <2>5, <2>6, CallTrue DEF StoreInv
  <2>8. stack' \in Seq(Frame)
    BY <1>1, <2>2, <2>5, CallType
  <2>9. BusyTrue'
    BY <1>1, <2>7, <2>8, CallBusy DEF StoreInv
  <2> QED
    BY <1>1, <2>1, <2>7, <2>9, SameDocument, CachedTrue, SameStreams DEF StoreInv
<1> QED
  BY <1>3, <1>4

(* The object stream came: it is kept, decoded, and the object loaded.      *)
LEMMA StreamLoadedStore ==
  ASSUME TypeOK, StoreInv, StreamLoaded
  PROVE  StoreInv'
<1> DEFINE n  == Top.n
           os == Top.os
           q  == xrefs[os].pos
<1>1. /\ stack # << >> /\ Top.f = "member" /\ ret # Pending
      /\ UNCHANGED <<file, xrefs, repaired, lenBusy, asked>>
  BY DEF StreamLoaded, Returned, Running
<1>2. /\ n \in Objs /\ xrefs[n] # NoEntry /\ xrefs[n].t = "in" /\ os = xrefs[n].os
      /\ ret = ValueOf(os)
  BY <1>1, TopTrue DEF FrameTrue, Wanted
<1>3. /\ os \in Objs /\ xrefs[os] # NoEntry /\ xrefs[os].t = "at"
      /\ file[q].kind = "objstm" /\ ValueOf(n) = Ok(MemberOf(q, n))
  BY <1>2, IntactIn DEF StoreInv
<1>4. ret = Ok(Parsed(q)) /\ Parsed(q) \in Object
  BY <1>2, <1>3, IntactAt DEF StoreInv
<1>5. ret.ok /\ ret.val = Parsed(q) /\ ret.val # Null
  BY <1>4, Assumptions DEF Ok
<1>6. ret.val.kind = "objstm" /\ ret.val.at = q
  BY <1>3, <1>5 DEF Parsed
<1>7. /\ objstms' = [objstms EXCEPT ![os] = q]
      /\ cache' = [cache EXCEPT ![n] = MemberOf(q, n)]
      /\ Return(Ok(MemberOf(q, n)))
  BY <1>5, <1>6 DEF StreamLoaded
<1>8. StreamsTrue'
  <2>1. \A o \in Objs : objstms'[o] = IF o = os THEN q ELSE objstms[o]
    BY <1>7 DEF TypeOK
  <2> QED
    BY <1>1, <1>3, <2>1 DEF StoreInv, StreamsTrue
<1> QED
  BY <1>1, <1>3, <1>7, <1>8, AnswerStep

(* Every step keeps the invariant: a lookup in an intact document never     *)
(* comes to a rebuild.                                                      *)
LEMMA StoreStep ==
  ASSUME TypeOK, StoreInv, [Next]_vars
  PROVE  StoreInv' /\ UNCHANGED <<file, xrefs>>
<1>1. ~(RebuildNext \/ RebuildEntry \/ RebuildFails \/ RebuildDone)
  BY TopTrue
     DEF RebuildNext, RebuildEntry, RebuildFails, RebuildDone, Called, Returned, Running,
         FrameTrue
<1>2. CASE UNCHANGED vars
  <2>1. UNCHANGED <<file, xrefs, cache, objstms, lenBusy, stack, ret, asked>>
    BY <1>2 DEF vars
  <2>2. StackTrue' = StackTrue /\ BusyTrue' = BusyTrue
    BY <2>1, SameDocument DEF StackTrue, BusyTrue
  <2>3. AnswerTrue' = AnswerTrue
    BY <2>1, SameDocument DEF AnswerTrue, Top
  <2> QED
    BY <2>1, <2>2, <2>3, SameDocument, CachedTrue, SameStreams DEF StoreInv
<1>3. ASSUME NEW n \in Objs, Ask(n)
      PROVE  StoreInv' /\ UNCHANGED <<file, xrefs>>
  BY <1>3, AskStore DEF Ask
<1>4. CASE Resolved \/ CacheHit \/ Missing
  BY <1>4, ResolvedStore, CacheHitStore, MissingStore DEF Resolved, CacheHit, Missing
<1>5. CASE FromStream \/ StreamLoaded
  BY <1>5, FromStreamStore, StreamLoadedStore DEF FromStream, StreamLoaded
<1> QED
  BY <1>1, <1>2, <1>3, <1>4, <1>5, ParseAtStore, LengthTracedStore DEF Next, Step

LEMMA StoreInit ==
  ASSUME \A d \in Docs : Intact(d), Init
  PROVE  StoreInv
<1>1. PICK d \in Docs : file = d.file /\ xrefs = d.xrefs
  BY DEF Init
<1>2. Intact(Loaded)
  <2>1. d = Loaded
    BY <1>1, Assumptions DEF Doc, Loaded
  <2> QED
    BY <2>1
<1>3. StackTrue /\ BusyTrue /\ CacheTrue /\ StreamsTrue /\ AnswerTrue
  BY DEF Init, StackTrue, BusyTrue, CacheTrue, StreamsTrue, AnswerTrue, NoCache
<1> QED
  BY <1>2, <1>3 DEF StoreInv

-----------------------------------------------------------------------------
(* The refinement, step by step.  A request is a request; the step that     *)
(* empties the stack is the answer; the steps in between are not visible.   *)
LEMMA ValueType ==
  ASSUME TypeOK, Intact(Loaded), NEW n \in Objs
  PROVE  ValueOf(n) \in Result /\ ValueOf(n) # Pending
<1>1. \A v \in Object \cup {Null} : Ok(v) \in Result
  BY DEF Ok, Result
<1>2. CASE xrefs[n] = NoEntry
  BY <1>1, <1>2, ValueNull, Assumptions
<1>3. CASE xrefs[n] # NoEntry /\ xrefs[n].t = "at"
  BY <1>1, <1>3, IntactAt, Assumptions
<1>4. CASE xrefs[n] # NoEntry /\ xrefs[n].t = "in"
  BY <1>1, <1>4, IntactIn, Assumptions
<1>5. xrefs[n] # NoEntry => xrefs[n].t \in {"at", "in"}
  BY DEF TypeOK, XrefTable, Entry
<1> QED
  BY <1>2, <1>3, <1>4, <1>5

LEMMA StoreSimulation ==
  ASSUME TypeOK, StoreInv, StoreInv', [Next]_vars, UNCHANGED <<file, xrefs>>
  PROVE  [Store!Next]_<<[n \in Objs |-> ValueOf(n)], asked,
                        IF stack = << >> THEN ret ELSE Pending>>
<1> DEFINE value  == [n \in Objs |-> ValueOf(n)]
           answer == IF stack = << >> THEN ret ELSE Pending
<1>1. value' = value
  BY SameDocument
<1>2. asked \in Objs => ValueOf(asked) # Pending
  BY ValueType DEF StoreInv
<1>3. ASSUME NEW n \in Objs, Ask(n)
      PROVE  Store!Ask(n)
  <2>1. /\ stack = << >> /\ asked' = n /\ ret' = Pending
    BY <1>3 DEF Ask
  <2>2. answer' = Pending
    BY <2>1
  <2>3. asked = NoRequest \/ answer # Pending
    BY <1>2, <2>1 DEF StoreInv, AnswerTrue, TypeOK
  <2> QED
    BY <1>1, <2>1, <2>2, <2>3 DEF Store!Ask
<1>4. CASE UNCHANGED vars
  BY <1>1, <1>4 DEF vars
<1>5. CASE Step
  <2>1. stack # << >> /\ UNCHANGED asked
    BY <1>5 DEF Step, Resolved, CacheHit, Missing, ParseAt, LengthTraced, FromStream,
                StreamLoaded, RebuildNext, RebuildEntry, RebuildFails, RebuildDone,
                Called, Returned, Running
  <2>2. answer = Pending /\ asked \in Objs /\ asked # NoRequest
    BY <2>1, Assumptions DEF StoreInv, AnswerTrue
  <2>3. CASE stack' # << >>
    BY <1>1, <2>1, <2>2, <2>3
  <2>4. CASE stack' = << >>
    <3>1. answer' = ValueOf(asked)
      BY <2>1, <2>2, <2>4, SameDocument DEF StoreInv, AnswerTrue
    <3>2. Store!Reply
      BY <1>1, <2>1, <2>2, <3>1 DEF Store!Reply
    <3> QED
      BY <3>2 DEF Store!Next
  <2> QED
    BY <2>3, <2>4
<1> QED
  BY <1>3, <1>4, <1>5 DEF Next, Store!Next

(* LookupByNumber implements ObjectStore: if the document is intact as it   *)
(* was loaded, then whatever was looked up before, a lookup answers with    *)
(* the object that the table leads to, the same one each time, and never    *)
(* replaces the table, for every number of objects and size of file.        *)
THEOREM StoreImplemented ==
  ASSUME \A d \in Docs : Intact(d)
  PROVE  Spec => Store!Spec
<1> DEFINE value  == [n \in Objs |-> ValueOf(n)]
           answer == IF stack = << >> THEN ret ELSE Pending
<1>1. Init => StoreInv
  BY StoreInit
<1>2. Init => Store!Init
  BY DEF Init, Store!Init
<1>3. TypeOK /\ StoreInv /\ [Next]_vars => StoreInv'
  BY StoreStep
<1>4. TypeOK /\ StoreInv /\ [Next]_vars => [Store!Next]_<<value, asked, answer>>
  BY StoreStep, StoreSimulation
<1> QED
  BY <1>1, <1>2, <1>3, <1>4, TypeCorrect, PTL DEF Spec, Store!Spec

(* For an intact document the cross reference table stays the one that was  *)
(* loaded: neither the scan of the file nor the rebuild ever replaces it.   *)
THEOREM NeverRepaired ==
  ASSUME \A d \in Docs : Intact(d)
  PROVE  Spec => [][UNCHANGED xrefs]_vars
<1>1. Init => StoreInv
  BY StoreInit
<1>2. TypeOK /\ StoreInv /\ [Next]_vars => StoreInv' /\ UNCHANGED xrefs
  BY StoreStep
<1> QED
  BY <1>1, <1>2, TypeCorrect, PTL DEF Spec
=============================================================================

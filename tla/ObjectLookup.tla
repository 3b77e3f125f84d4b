---------------------------- MODULE ObjectLookup ----------------------------
(***************************************************************************)
(* Looking up objects: core.PdfParser.LookupByNumber (and resolveReference,*)
(* which caches what it returns), with everything it calls: parsing the    *)
(* object at its offset, tracing a stream's Length, loading an object out  *)
(* of an object stream, and the two repairs of the cross reference table.  *)
(*                                                                         *)
(* These functions call each other recursively on shared parser state, so  *)
(* the call stack is a variable.  A frame stands for one activation; the   *)
(* steps between two calls are one action.  ret is what the activation     *)
(* popped last returned.                                                   *)
(*                                                                         *)
(* A file maps offsets to what is there.  The document is not encrypted.   *)
(***************************************************************************)
EXTENDS Naturals, Sequences, FiniteSets

CONSTANTS
  Objs,      \* object numbers
  MaxGen,    \* the highest generation number
  FileSize,  \* the file has offsets 1 to FileSize
  Docs,      \* files and the tables loadXrefs may have made of them
  MaxDepth,  \* bound on the call stack
  Direct,    \* Length: an integer, not a reference
  NoEntry,   \* the table has no entry for a number
  NoObj,     \* the cache has no object for a number
  Null,      \* the null object
  Pending,   \* no activation has returned yet
  NoRequest  \* no lookup was asked for yet

Pos == 1 .. FileSize
Gens == 0 .. MaxGen

\* gap: no "n g obj" here.  broken: a header, but what follows does not parse.
\* int, other: an indirect object.  stream, objstm: a stream; the objects in
\* an object stream, if it is one, are "has" (integers, for the model).
BodyKinds == {"gap", "broken", "int", "other", "stream", "objstm"}
Body == [kind : BodyKinds, num : Objs, gen : Gens,
         len  : Objs \cup {Direct}, has : SUBSET Objs]

\* XrefObject: at an offset, or in the object stream with a given number.
Entry == [t : {"at"}, pos : Pos] \cup [t : {"in"}, os : Objs]
XrefTable == [Objs -> Entry \cup {NoEntry}]
Doc == [file : [Pos -> Body], xrefs : XrefTable]

\* A parsed object: its number, what it is and where it came from.  An object
\* loaded from an object stream that does not have it is "garbage".
Object == [num : Objs, kind : {"int", "other", "stream", "objstm", "garbage"},
           at : Pos]

Fail == [ok |-> FALSE]
Ok(v) == [ok |-> TRUE, val |-> v]
Result == {Fail} \cup [ok : {TRUE}, val : Object \cup {Null}]

ASSUME Assumptions ==
  /\ Objs \subseteq Nat \ {0} /\ FileSize \in Nat /\ MaxGen \in Nat
  /\ Docs \subseteq Doc
  /\ MaxDepth \in Nat
  /\ Direct \notin Objs
  /\ NoEntry \notin Entry
  /\ {NoObj, Null} \cap Object = {} /\ NoObj # Null
  /\ NoRequest \notin Objs /\ Pending \notin Result

VARIABLES
  file,      \* the file, never changes
  xrefs,     \* parser.xrefs.ObjectMap
  cache,     \* parser.ObjCache
  objstms,   \* parser.objstms: the object streams decoded, by number
  repaired,  \* parser.repairsAttempted
  lenBusy,   \* parser.streamLengthReferenceLookupInProgress, numbers set true
  stack,     \* activations, the innermost first
  ret,       \* what the last activation returned
  asked      \* the number the client asked for last

vars == <<file, xrefs, cache, objstms, repaired, lenBusy, stack, ret, asked>>

-----------------------------------------------------------------------------
(* Frames.  lookup: lookupByNumber(n, rep) is about to run.  resolve:       *)
(* resolveReference waits for its lookup.  length: ParseIndirectObject at   *)
(* at, for lookupByNumber(n, rep), waits for the Length.  member:           *)
(* lookupObjectViaOS waits for object stream os, to load n.  rebuild:       *)
(* rebuildXrefTable, called for n, ranges over the entries old, has todo    *)
(* left, looked up cur last (n before the first) and has built new.         *)
Lookup(n, rep) == [f |-> "lookup", n |-> n, rep |-> rep]
Resolving(n) == [f |-> "resolve", n |-> n]
Length(n, rep, at) == [f |-> "length", n |-> n, rep |-> rep, at |-> at]
Member(n, os) == [f |-> "member", n |-> n, os |-> os]
Rebuild(n, old, todo, cur, new) ==
  [f |-> "rebuild", n |-> n, old |-> old, todo |-> todo, cur |-> cur, new |-> new]

Top == stack[1]
Running(f) == stack # << >> /\ Top.f = f
Called(f) == Running(f) /\ ret = Pending     \* the top frame is to go on
Returned(f) == Running(f) /\ ret # Pending   \* what it waited for is there

Return(r) == stack' = Tail(stack) /\ ret' = r
Become(f) == stack' = <<f>> \o Tail(stack) /\ ret' = Pending
Call(f, g) ==
  /\ Len(stack) < MaxDepth
  /\ stack' = <<g, f>> \o Tail(stack)
  /\ ret' = Pending

-----------------------------------------------------------------------------
(* repairRebuildXrefsTopDown scans the file for "n g obj": an entry is made *)
(* for a number not met before, or replaced when the generation is higher.  *)
Headers(o) == {p \in Pos : file[p].kind # "gap" /\ file[p].num = o}
Kept(o) == CHOOSE p \in Headers(o) : \A q \in Headers(o) :
             \/ file[p].gen > file[q].gen
             \/ file[p].gen = file[q].gen /\ p <= q
\* Mutant of TopDown: a number that is not found gets offset 0.
TopDownAll == [o \in Objs |-> [t |-> "at", pos |-> IF Headers(o) = {} THEN 0 ELSE Kept(o)]]

TopDown == [o \in Objs |-> IF Headers(o) = {} THEN NoEntry
                           ELSE [t |-> "at", pos |-> Kept(o)]]

Known(table) == {o \in Objs : table[o] # NoEntry}

Parsed(p) == [num |-> file[p].num, kind |-> file[p].kind, at |-> p]

(* lookupObjectViaOS on a decoded stream: a number that is missing in its   *)
(* offset map has offset 0 there, and what starts the stream is returned.   *)
MemberOf(p, n) ==
  [num |-> n, kind |-> IF n \in file[p].has THEN "int" ELSE "garbage", at |-> p]

\* Mutant of ParseError: the repair is attempted again and again.
ParseErrorAgain(n, rep) ==
  /\ repaired' = TRUE
  /\ xrefs' = TopDown
  /\ Become(Lookup(n, rep))
  /\ UNCHANGED cache

(* lookupByNumber after a parse error: the first time, when repairs are to  *)
(* be attempted, scan the file and look again; otherwise fail.              *)
ParseError(n, rep) ==
  IF rep /\ ~repaired
  THEN /\ repaired' = TRUE
       /\ xrefs' = TopDown
       /\ Become(Lookup(n, FALSE))
       /\ UNCHANGED cache
  ELSE /\ Return(Fail)
       /\ UNCHANGED <<repaired, xrefs, cache>>

\* Mutant of ParseDone: the number of the object is not checked.
ParseDoneUnchecked(n, rep, v) ==
  cache' = [cache EXCEPT ![n] = v] /\ Return(Ok(v))

(* lookupByNumber after a successful parse: an object with another number   *)
(* has the table rebuilt, otherwise it is cached and returned.              *)
ParseDone(n, rep, v) ==
  IF rep /\ v.num # n
  THEN /\ Become(Rebuild(n, xrefs, Known(xrefs), n, [o \in Objs |-> NoEntry]))
       /\ UNCHANGED cache
  ELSE cache' = [cache EXCEPT ![n] = v] /\ Return(Ok(v))

-----------------------------------------------------------------------------
(* The client calls LookupByNumber, or resolves a reference.                *)
Ask(n) ==
  /\ stack = << >>
  /\ asked' = n
  /\ stack' \in {<<Lookup(n, TRUE)>>, <<Lookup(n, TRUE), Resolving(n)>>}
  /\ ret' = Pending
  /\ UNCHANGED <<file, xrefs, cache, objstms, repaired, lenBusy>>

(* resolveReference keeps what it got, a null object too.                   *)
Resolved ==
  /\ Returned("resolve")
  /\ cache' = IF ret.ok THEN [cache EXCEPT ![Top.n] = ret.val] ELSE cache
  /\ Return(ret)
  /\ UNCHANGED <<file, xrefs, objstms, repaired, lenBusy, asked>>

(* Cached objects and numbers the table does not have.                      *)
CacheHit ==
  /\ Called("lookup")
  /\ cache[Top.n] # NoObj
  /\ Return(Ok(cache[Top.n]))
  /\ UNCHANGED <<file, xrefs, cache, objstms, repaired, lenBusy, asked>>

Missing ==
  /\ Called("lookup")
  /\ cache[Top.n] = NoObj /\ xrefs[Top.n] = NoEntry
  /\ Return(Ok(Null))
  /\ UNCHANGED <<file, xrefs, cache, objstms, repaired, lenBusy, asked>>

\* Mutants: a Length being looked up is looked up again; a Length stays marked.
NeverInProgress(r) == FALSE
NeverCompleted(r) == lenBusy

\* traceStreamLength: streamLengthReferenceLookupInProgress[r], true and false.
InProgress(r) == r \in lenBusy
Completed(r) == lenBusy \ {r}

(* An object at an offset: parsed at once, refused, or a stream whose       *)
(* Length is a reference, which traceStreamLength looks up unless a lookup  *)
(* of it is in progress.                                                    *)
ParseAt ==
  LET n == Top.n
      p == xrefs[n].pos
      b == file[p]
      waits == b.kind \in {"stream", "objstm"} /\ b.len # Direct
  IN  /\ Called("lookup")
      /\ cache[n] = NoObj /\ xrefs[n] # NoEntry /\ xrefs[n].t = "at"
      /\ CASE b.kind \in {"gap", "broken"} \/ (waits /\ InProgress(b.len)) ->
                ParseError(n, Top.rep) /\ UNCHANGED lenBusy
           [] waits /\ ~InProgress(b.len) ->
                /\ lenBusy' = lenBusy \cup {b.len}
                /\ Call(Length(n, Top.rep, p), Lookup(b.len, TRUE))
                /\ UNCHANGED <<xrefs, cache, repaired>>
           [] OTHER ->
                /\ ParseDone(n, Top.rep, Parsed(p))
                /\ UNCHANGED <<xrefs, repaired, lenBusy>>
      /\ UNCHANGED <<file, objstms, asked>>

(* traceStreamLength gets its answer.  An error leaves the reference marked *)
(* as in progress.                                                          *)
LengthTraced ==
  LET good == ret.ok /\ ret.val # Null /\ ret.val.kind \in {"int", "garbage"}
  IN  /\ Returned("length")
      /\ lenBusy' = IF ret.ok THEN Completed(file[Top.at].len) ELSE lenBusy
      /\ IF good
         THEN ParseDone(Top.n, Top.rep, Parsed(Top.at)) /\ UNCHANGED <<xrefs, repaired>>
         ELSE ParseError(Top.n, Top.rep)
      /\ UNCHANGED <<file, objstms, asked>>

(* An object in an object stream: refused, loaded from a stream decoded     *)
(* before, or after a lookup of the stream.                                 *)
FromStream ==
  LET n  == Top.n
      os == xrefs[n].os
  IN  /\ Called("lookup")
      /\ cache[n] = NoObj /\ xrefs[n] # NoEntry /\ xrefs[n].t = "in"
      /\ CASE os = n \/ xrefs[os] = NoEntry ->
                Return(Fail) /\ UNCHANGED cache
           [] os # n /\ xrefs[os] # NoEntry /\ objstms[os] # NoObj ->
                LET v == MemberOf(objstms[os], n)
                IN  cache' = [cache EXCEPT ![n] = v] /\ Return(Ok(v))
           [] OTHER ->
                Call(Member(n, os), Lookup(os, TRUE)) /\ UNCHANGED cache
      /\ UNCHANGED <<file, xrefs, objstms, repaired, lenBusy, asked>>

(* lookupObjectViaOS gets the stream: it must be an object stream, whose    *)
(* decoded contents are kept.                                               *)
StreamLoaded ==
  /\ Returned("member")
  /\ IF ret.ok /\ ret.val # Null /\ ret.val.kind = "objstm"
     THEN LET v == MemberOf(ret.val.at, Top.n)
          IN  /\ objstms' = [objstms EXCEPT ![Top.os] = ret.val.at]
              /\ cache' = [cache EXCEPT ![Top.n] = v]
              /\ Return(Ok(v))
     ELSE Return(Fail) /\ UNCHANGED <<objstms, cache>>
  /\ UNCHANGED <<file, xrefs, repaired, lenBusy, asked>>

-----------------------------------------------------------------------------
(* rebuildXrefTable.  After it the cache is emptied and n looked up again,  *)
(* without repairs.                                                         *)
NoCache == [o \in Objs |-> NoObj]

\* Mutant of Relookup: the cache is not emptied.
RelookupCached(n) == UNCHANGED cache /\ Become(Lookup(n, FALSE))

Relookup(n) == cache' = NoCache /\ Become(Lookup(n, FALSE))

(* The next entry, in the order of Go's map iteration: any.                 *)
RebuildNext ==
  /\ Called("rebuild")
  /\ \E o \in Top.todo :
       Call([Top EXCEPT !.todo = @ \ {o}, !.cur = o], Lookup(o, FALSE))
  /\ UNCHANGED <<file, xrefs, cache, objstms, repaired, lenBusy, asked>>

(* An entry whose object was found moves to the object's own number; what   *)
(* has no number (the null object) ends the rebuild and the lookup in error.*)
RebuildEntry ==
  /\ Returned("rebuild")
  /\ ret.ok
  /\ IF ret.val = Null
     THEN Return(Fail)
     ELSE Become([Top EXCEPT !.new[ret.val.num] = Top.old[Top.cur]])
  /\ UNCHANGED <<file, xrefs, cache, objstms, repaired, lenBusy, asked>>

(* An entry whose object cannot be looked up: scan the file instead, unless *)
(* that was done before.                                                    *)
RebuildFails ==
  /\ Returned("rebuild")
  /\ ~ret.ok
  /\ IF repaired
     THEN Return(Fail) /\ UNCHANGED <<xrefs, cache, repaired>>
     ELSE /\ repaired' = TRUE
          /\ xrefs' = TopDown
          /\ Relookup(Top.n)
  /\ UNCHANGED <<file, objstms, lenBusy, asked>>

RebuildDone ==
  /\ Called("rebuild")
  /\ Top.todo = {}
  /\ xrefs' = Top.new
  /\ Relookup(Top.n)
  /\ UNCHANGED <<file, objstms, repaired, lenBusy, asked>>

-----------------------------------------------------------------------------
Init ==
  /\ \E d \in Docs : file = d.file /\ xrefs = d.xrefs
  /\ cache = NoCache
  /\ objstms = [o \in Objs |-> NoObj]
  /\ repaired = FALSE
  /\ lenBusy = {}
  /\ stack = << >>
  /\ ret = Pending
  /\ asked = NoRequest

\* The steps of a lookup under way.
Step ==
  \/ Resolved \/ CacheHit \/ Missing \/ ParseAt \/ LengthTraced
  \/ FromStream \/ StreamLoaded
  \/ RebuildNext \/ RebuildEntry \/ RebuildFails \/ RebuildDone

Next == Step \/ \E n \in Objs : Ask(n)

Spec == Init /\ [][Next]_vars

\* A lookup is a sequential call that runs until it returns; nobody has to
\* make another one.
FairSpec == Spec /\ WF_vars(Step)

-----------------------------------------------------------------------------
Frame ==
  [f : {"lookup"}, n : Objs, rep : BOOLEAN] \cup
  [f : {"resolve"}, n : Objs] \cup
  [f : {"length"}, n : Objs, rep : BOOLEAN, at : Pos] \cup
  [f : {"member"}, n : Objs, os : Objs] \cup
  [f : {"rebuild"}, n : Objs, old : XrefTable, todo : SUBSET Objs,
   cur : Objs, new : XrefTable]

TypeOK ==
  /\ file \in [Pos -> Body]
  /\ xrefs \in XrefTable
  /\ cache \in [Objs -> Object \cup {NoObj, Null}]
  /\ objstms \in [Objs -> Pos \cup {NoObj}]
  /\ repaired \in BOOLEAN
  /\ lenBusy \in SUBSET Objs
  /\ stack \in Seq(Frame)
  /\ ret \in Result \cup {Pending}
  /\ asked \in Objs \cup {NoRequest}

Answered == stack = << >> /\ ret # Pending

(* A document as ISO 32000 has it: every entry leads to an object of its    *)
(* number, object streams are not in object streams, and the Length of a    *)
(* stream leads to an integer without needing that stream.                  *)
IntAt(d, r) ==
  /\ d.xrefs[r] # NoEntry /\ d.xrefs[r].t = "at"
  /\ d.file[d.xrefs[r].pos].kind = "int"
LengthAt(d, p) == d.file[p].len = Direct \/ IntAt(d, d.file[p].len)
HasMember(d, n, os) ==
  /\ d.xrefs[os] # NoEntry /\ d.xrefs[os].t = "at"
  /\ d.file[d.xrefs[os].pos].kind = "objstm"
  /\ n \in d.file[d.xrefs[os].pos].has
Intact(d) ==
  \A n \in Objs : d.xrefs[n] # NoEntry =>
    LET e == d.xrefs[n]
    IN  IF e.t = "in"
        THEN HasMember(d, n, e.os) /\ LengthAt(d, d.xrefs[e.os].pos)
        ELSE /\ d.file[e.pos].num = n
             /\ d.file[e.pos].kind \notin {"gap", "broken"}
             /\ d.file[e.pos].kind \in {"stream", "objstm"} =>
                  LET r == d.file[e.pos].len
                  IN  \/ LengthAt(d, e.pos)
                      \/ /\ d.xrefs[r] # NoEntry /\ d.xrefs[r].t = "in"
                         /\ HasMember(d, r, d.xrefs[r].os)
                         /\ LengthAt(d, d.xrefs[d.xrefs[r].os].pos)

(* For an intact document LookupByNumber implements ObjectStore: whatever   *)
(* was looked up before, a lookup returns the object that the table, as it  *)
(* was loaded, leads to.  (The table is a parameter of the mapping: a       *)
(* repair that replaced it would change what the document contains.)        *)
ValueOf(n) ==
  IF xrefs[n] = NoEntry THEN Ok(Null)
  ELSE IF xrefs[n].t = "at" THEN Ok(Parsed(xrefs[n].pos))
  ELSE Ok(MemberOf(xrefs[xrefs[n].os].pos, n))

Store == INSTANCE ObjectStore WITH
  NoAnswer <- Pending,
  value    <- [n \in Objs |-> ValueOf(n)],
  answer   <- IF stack = << >> THEN ret ELSE Pending

ImplementsStore == Store!FairSpec

(* "Check the object number.. If it does not match, then try to rebuild":   *)
(* in a file without streams, and so without entries that lead into one, a  *)
(* lookup never returns an object that has another number.  (With streams   *)
(* it may: a rebuild that fails leaves what it looked up in the cache,      *)
(* under the numbers of the old table.)                                     *)
RightObject ==
  /\ Answered /\ ret.ok /\ ret.val # Null
  /\ \A p \in Pos : file[p].kind \notin {"stream", "objstm"}
  => ret.val.num = asked

(* "Get stream length, avoiding recursive loops": no Length is being looked *)
(* up on behalf of a lookup of the same Length, whatever refers to what.    *)
LengthOnce ==
  \A i, j \in DOMAIN stack :
    /\ stack[i].f = "length" /\ stack[j].f = "length"
    /\ file[stack[i].at].len = file[stack[j].at].len
    => i = j

(* Every lookup returns, in a damaged file too, after at most one scan of   *)
(* the file; the bound on the stack is never what stops it.                 *)
Returns == stack # << >> ~> stack = << >>

(* "Mark as completed lookup": when no lookup is under way, no Length is    *)
(* marked as being looked up.                                               *)
LengthsReleased == stack = << >> => lenBusy = {}

(* "xref circular reference" is an error: an object stream is not looked up *)
(* on behalf of a lookup of itself.                                         *)
CircularRefused ==
  \A i, j \in DOMAIN stack :
    /\ stack[i].f = "member" /\ stack[j].f = "member"
    /\ stack[i].os = stack[j].os
    => i = j
=============================================================================

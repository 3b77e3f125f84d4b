----------------------------- MODULE Signatures -----------------------------
(***************************************************************************)
(* Signing a revision in PdfAppender.Write, and ValidateSignatures.        *)
(*                                                                         *)
(* A file is a sequence of cells.  The new revision is written to a buffer *)
(* first, with placeholders for ByteRange and Contents of each signature   *)
(* dictionary; their places are found while it is written, as offsets in   *)
(* the dictionary (pdfSignDictionary.WriteString) and of the dictionary in *)
(* the file (writeObject).  Then the ranges are patched in, what they      *)
(* cover is digested, and Contents is patched in.                          *)
(***************************************************************************)
EXTENDS Integers, Sequences, FiniteSets
LOCAL INSTANCE SequencesExt

CONSTANTS
  Handlers,     \* signature handlers; several signatures may share one
  RangeWidth,   \* cells of the placeholder of a ByteRange, for each signature
  HoleWidth,    \* cells of Contents
  MaxRevisions, \* bound on the revisions
  MaxSigs       \* bound on the signatures in one of them

ASSUME SignaturesAssumptions ==
  RangeWidth \in Nat \ {0} /\ HoleWidth \in Nat \ {0} /\ MaxRevisions \in Nat /\ MaxSigs \in Nat

VARIABLES
  file,   \* the bytes of the last revision
  sigs,   \* what is known of the signatures: [handler, range, alone, end]
  failed  \* Sign of a handler failed: Write returned an error

sigVars == <<file, sigs, failed>>

Text(n) == [i \in 1 .. n |-> <<"text">>]
Blank(n) == [i \in 1 .. n |-> <<"blank">>]

\* A signature dictionary, one of k: ByteRange is set before it is written, but
\* Contents may be among the keys before it, or not.
Body(sig, k) ==
  LET range == Blank(RangeWidth * (k + 1))
      hole  == Blank(HoleWidth)
  IN  IF sig.first = "Contents" THEN Text(1) \o hole \o Text(1) \o range \o Text(1)
      ELSE Text(1) \o range \o Text(1) \o hole \o Text(1)

\* pdfSignDictionary.WriteString: the offsets in the dictionary.
ContentsStart(sig, k) == IF sig.first = "Contents" THEN 1 ELSE 2 + RangeWidth * (k + 1)
\* Mutant of ContentsEnd.
ContentsEndBefore(sig, k) == ContentsStart(sig, k) + HoleWidth - 1

ContentsEnd(sig, k) == ContentsStart(sig, k) + HoleWidth
RangeStart(sig, k) == IF sig.first = "Contents" THEN 2 + HoleWidth ELSE 1
RangeEnd(sig, k) == RangeStart(sig, k) + RangeWidth * (k + 1)

\* The mock write: a line feed, then objects, each a header, a dictionary and
\* what comes between it and the next.  The buffer after each of them.
Mocks(list) ==
  LET k == Len(list)
      after[i \in 0 .. k] ==
        IF i = 0 THEN Text(1) ELSE after[i - 1] \o Text(2) \o Body(list[i], k) \o Text(1)
  IN  after
Mock(list) == Mocks(list)[Len(list)]

\* writeObject: where a dictionary begins, in the file.
FileOffset(offset, list, i) == offset + Len(Mocks(list)[i - 1]) + 2

(***************************************************************************)
(* Write, from the mock write on.                                          *)
(***************************************************************************)
\* ByteRange: from the end of one Contents to the beginning of the next.
ByteRange(offset, list) ==
  LET k == Len(list)
      start(i) == FileOffset(offset, list, i) + ContentsStart(list[i], k)
      end(i) == FileOffset(offset, list, i) + ContentsEnd(list[i], k)
      last(i) == IF i = 1 THEN 0 ELSE end(i - 1)
  IN  [i \in 1 .. k |-> <<last(i), start(i) - last(i)>>]
        \o <<<<last(k + 1), offset + Len(Mock(list)) - last(k + 1)>>>>

\* copy into parts of the buffer that are blanked before.  Positions count from
\* 0, and no two parts overlap.
Patch(buffer, parts) ==
  LET at(q) == {i \in DOMAIN parts : parts[i].from < q /\ q <= parts[i].to}
  IN  [q \in DOMAIN buffer |->
         IF at(q) = {} THEN buffer[q]
         ELSE LET part == parts[CHOOSE i \in at(q) : TRUE]
              IN  IF q = part.from + 1 THEN part.cell ELSE <<"blank">>]

\* Mutant of RangesPatched.
RangesLeft(buffer, offset, list, ranges) == buffer

RangesPatched(buffer, offset, list, ranges) ==
  LET at(i) == FileOffset(offset, list, i) - offset
  IN  Patch(buffer, [i \in DOMAIN list |->
        [from |-> at(i) + RangeStart(list[i], Len(list)), to |-> at(i) + RangeEnd(list[i], Len(list)),
         cell |-> <<"range", ranges>>]])

\* What handler h is given of the buffer: for each signature of h what lies
\* before its Contents and behind the Contents before it, then the rest, for
\* each signature of h.
DigestParts(buffer, list, h) ==
  LET k == Len(list)
      from(i) == IF i = 1 THEN 0 ELSE FileOffset(0, list, i - 1) + ContentsEnd(list[i - 1], k)
      to(i) == FileOffset(0, list, i) + ContentsStart(list[i], k)
      ofH(i, part) == IF list[i].handler = h THEN part ELSE << >>
  IN  FlattenSeq([i \in 1 .. k |-> ofH(i, SubSeq(buffer, from(i) + 1, to(i)))])
        \o FlattenSeq([i \in 1 .. k |-> ofH(i, SubSeq(buffer, from(k + 1) + 1, Len(buffer)))])

\* Mutant of Digest.
DigestRevision(buffer, list, h) == DigestParts(buffer, list, h)

\* The original file is digested while it is copied.
Digest(buffer, list, h) == file \o DigestParts(buffer, list, h)

ContentsPatched(buffer, offset, list) ==
  LET at(i) == FileOffset(offset, list, i) - offset
  IN  Patch(buffer, [i \in DOMAIN list |->
        [from |-> at(i) + ContentsStart(list[i], Len(list)), to |-> at(i) + ContentsEnd(list[i], Len(list)),
         cell |-> <<"digest", Digest(buffer, list, list[i].handler)>>]])

Signed(offset, list) ==
  LET ranges == ByteRange(offset, list)
  IN  ContentsPatched(RangesPatched(Mock(list), offset, list, ranges), offset, list)

SigInit == file = Text(2) /\ sigs = << >> /\ failed = FALSE

\* A revision without signatures is written without a detour.
AppendPlain(n) ==
  /\ ~failed /\ Len(file) < MaxRevisions * (6 + RangeWidth * (MaxSigs + 1) + HoleWidth)
  /\ file' = file \o Text(n)
  /\ UNCHANGED <<sigs, failed>>

SignRevision(list) ==
  /\ ~failed /\ Cardinality({sigs[i].revision : i \in DOMAIN sigs}) < MaxRevisions
  /\ LET ranges == ByteRange(Len(file), list)
         k == Len(list)
     IN  /\ file' = file \o Signed(Len(file), list)
         /\ sigs' = sigs \o [i \in 1 .. k |->
              [ranges |-> ranges, revision |-> Len(file), end |-> Len(file'),
               alone |-> k = 1,
               hole |-> FileOffset(Len(file), list, i) + ContentsStart(list[i], k)]]
  /\ UNCHANGED failed

\* Sign fails when the original is written already: the file is as before.
SignFails ==
  /\ ~failed /\ failed' = TRUE
  /\ UNCHANGED <<file, sigs>>

Lists == UNION {[1 .. k -> [handler : Handlers, first : {"Contents", "ByteRange"}]] : k \in 1 .. MaxSigs}

SigNext == (\E n \in 1 .. 2 : AppendPlain(n)) \/ (\E list \in Lists : SignRevision(list)) \/ SignFails
SigSpec == SigInit /\ [][SigNext]_sigVars

(***************************************************************************)
(* ValidateSignatures.                                                     *)
(***************************************************************************)
\* What is read for a signature: its ranges, one after another.
Covered(s) == FlattenSeq([i \in DOMAIN s.ranges |->
                SubSeq(file, s.ranges[i][1] + 1, s.ranges[i][1] + s.ranges[i][2])])
Verifies(s) == file[s.hole + 1] = <<"digest", Covered(s)>>

\* A signature that is the only one of its revision verifies, in that revision
\* and in all later ones: what is digested while the file is written is what
\* its ByteRange covers when it is read (Write, ValidateSignatures).
SignaturesVerify == \A i \in DOMAIN sigs : sigs[i].alone => Verifies(sigs[i])

\* ByteRange leaves out Contents and nothing else up to the end of the
\* revision, and its ranges are in order, however many signatures there are.
RangesExact ==
  \A i \in DOMAIN sigs :
    LET s == sigs[i]
        in(p) == \E j \in DOMAIN s.ranges : s.ranges[j][1] <= p /\ p < s.ranges[j][1] + s.ranges[j][2]
        holes == UNION {t.hole .. t.hole + HoleWidth - 1 :
                          t \in {sigs[j] : j \in {j \in DOMAIN sigs : sigs[j].end = s.end}}}
    IN  \A p \in 0 .. s.end - 1 : in(p) <=> p \notin holes

\* The ranges in the file are those that were digested.
RangesWritten ==
  \A i \in DOMAIN sigs : \E p \in DOMAIN file :
    p > sigs[i].revision /\ p <= sigs[i].end /\ file[p] = <<"range", sigs[i].ranges>>

\* Several signatures in one revision: each misses what lies between it and
\* the one before the one before it, and two of one handler see the end twice.
AllVerify == \A i \in DOMAIN sigs : Verifies(sigs[i])

\* What a signature covers is what was digested, and all there is.
SignaturesSound == SignaturesVerify /\ RangesExact /\ RangesWritten
=============================================================================

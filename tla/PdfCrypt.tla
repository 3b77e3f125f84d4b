------------------------------- MODULE PdfCrypt -------------------------------
(***************************************************************************)
(* Reading an encrypted document: core/crypt.go, the lookups that call it  *)
(* (core/crossrefs.go, core/parser.go), the two password handlers of       *)
(* core/security and the reader that drives them (model/reader.go).        *)
(*                                                                         *)
(* Objects are decrypted in place, when a lookup first returns them, with  *)
(* whatever key the crypter holds at that time, and stay in the parser's   *)
(* cache.  Nothing keeps a client from looking objects up before it gives  *)
(* a password, and passwords can be given more than once.                  *)
(*                                                                         *)
(* An object is reduced to Parts strings, in the order in which they are   *)
(* decrypted; the last part of a stream is its data.  A part of the file   *)
(* is "ciphered", or "broken" (ciphered, of a length AES refuses), or      *)
(* "exempt" (the contents of a signature, an identity filter, a cross      *)
(* reference stream).                                                      *)
(***************************************************************************)
EXTENDS Naturals, Sequences

CONSTANTS
    Nums,       \* object numbers
    Parts,      \* strings per object
    Docs,       \* the encrypted documents considered
    NoNum,      \* "not in an object stream", "no such entry in the trailer"
    Absent      \* not in the parser's cache

PartNums == 1 .. Parts
PartKinds == {"ciphered", "broken", "exempt"}
PartStates == {"ciphered", "plain", "garbled"}
Contents == [PartNums -> PartStates]
Keys == {"none", "right", "wrong"}
Passwords == {"owner", "user", "empty", "other"}

Doc == [revision  : {4, 5, 6},              \* R of the standard handler
        cipher    : {"RC4", "AES"},
        emptyUser : BOOLEAN,                \* its user password is empty
        encrypt   : Nums \cup {NoNum},      \* trailer /Encrypt, a reference
        info      : Nums \cup {NoNum},      \* trailer /Info
        streams   : SUBSET Nums,
        home      : [Nums -> Nums \cup {NoNum}],    \* object stream of a member
        part      : [Nums -> [PartNums -> PartKinds]],
        structure : Seq(Nums)]              \* what loadStructure looks up

ASSUME CryptAssumption ==
    /\ Parts \in Nat \ {0}
    /\ NoNum \notin Nums
    /\ Absent \notin Contents
    /\ Docs \subseteq Doc
    /\ \A d \in Docs : \A n \in Nums :
        d.home[n] # NoNum => d.home[n] \in d.streams /\ d.home[d.home[n]] = NoNum

VARIABLES
    doc,                \* the document being read
    crypterSet,         \* parser.crypter # nil
    authenticated,      \* crypter.authenticated
    encryptionKey,      \* crypter.encryptionKey, against the document's
    decryptedObjects,   \* objects marked as decrypted
    decryptedObjNum,    \* numbers never to be decrypted
    objCache,           \* parser.ObjCache: what the cached object holds
    todo,               \* what loadStructure has still to look up
    trusted,            \* history: numbers cached while the key was right
    held,               \* history: objects a lookup has returned
    failed,             \* history: lookups that failed under the right key
    early,              \* history: something was looked up without that key
    asked               \* history: a password has been tried

vars == <<doc, crypterSet, authenticated, encryptionKey, decryptedObjects,
          decryptedObjNum, objCache, todo, trusted, held, failed, early, asked>>
crypter == <<crypterSet, authenticated, encryptionKey, decryptedObjNum>>

TypeOK ==
    /\ doc \in Docs
    /\ crypterSet \in BOOLEAN /\ authenticated \in BOOLEAN
    /\ encryptionKey \in Keys
    /\ decryptedObjects \subseteq Nums /\ decryptedObjNum \subseteq Nums
    /\ objCache \in [Nums -> Contents \cup {Absent}]
    /\ todo \in Seq(Nums)
    /\ trusted \subseteq Nums /\ held \subseteq Nums /\ failed \subseteq Nums
    /\ early \in BOOLEAN /\ asked \in BOOLEAN

Init ==
    /\ doc \in Docs
    /\ crypterSet = FALSE /\ authenticated = FALSE /\ encryptionKey = "none"
    /\ decryptedObjects = {} /\ decryptedObjNum = {}
    /\ objCache = [n \in Nums |-> Absent]
    /\ todo = << >> /\ trusted = {} /\ held = {} /\ failed = {}
    /\ early = FALSE /\ asked = FALSE

-----------------------------------------------------------------------------
(* Passwords *)

\* Revisions up to 4: the owner's password, then the user's.
AuthenticateR4(pw) ==
    IF pw \in {"owner", "user"} \/ (pw = "empty" /\ doc.emptyUser)
    THEN "right" ELSE "refused"

\* Mutant: the permissions are not validated in revision 6 either
AuthenticateUnvalidated(pw) ==
    IF AuthenticateR4(pw) = "refused" /\ doc.emptyUser
    THEN "wrong" ELSE AuthenticateR4(pw)

\* Revisions 5 and 6: the same, and the handler tries the empty password by
\* itself.  It then derives the key from the password it was given: revision 6
\* notices, from the permissions, revision 5 has nothing to notice it by.
AuthenticateR6(pw) ==
    IF AuthenticateR4(pw) = "refused" /\ doc.emptyUser
    THEN IF doc.revision = 5 THEN "wrong" ELSE "error"
    ELSE AuthenticateR4(pw)

Authenticate(pw) ==
    IF doc.revision >= 5 THEN AuthenticateR6(pw) ELSE AuthenticateR4(pw)

\* PdfParser.Decrypt: a refused password is followed by the empty one.
Attempt(pw) ==
    IF Authenticate(pw) = "refused" THEN Authenticate("empty") ELSE Authenticate(pw)

-----------------------------------------------------------------------------
(* Decrypting one object in place *)

\* An object as the file has it: members of object streams are not ciphered.
Stored(n) ==
    [i \in PartNums |-> IF doc.part[n][i] = "exempt" \/ doc.home[n] # NoNum
                        THEN "plain" ELSE "ciphered"]

\* AES refuses an empty key, and data of the wrong length; a wrong key may show
\* as a wrong padding.  RC4 takes whatever it is given.
MustFail(n, i) ==
    /\ doc.part[n][i] # "exempt"
    /\ doc.cipher = "AES"
    /\ encryptionKey = "none" \/ doc.part[n][i] = "broken"
MayFail(n, i) ==
    /\ doc.part[n][i] # "exempt"
    /\ doc.cipher = "AES"
    /\ MustFail(n, i) \/ encryptionKey = "wrong"

Deciphered(s) ==
    IF s = "ciphered" /\ encryptionKey = "right" THEN "plain" ELSE "garbled"

\* Everything before the part that fails is deciphered, what follows it is not.
\* The data of a stream is replaced even when the cipher reports an error.
DecryptedUpTo(n, content, k) ==
    [i \in PartNums |->
        IF doc.part[n][i] = "exempt" THEN content[i]
        ELSE IF i < k THEN Deciphered(content[i])
        ELSE IF i = k /\ i = Parts /\ n \in doc.streams THEN "garbled"
        ELSE content[i]]

\* A stream whose data is not ciphered is left before the strings of its
\* dictionary are looked at.
PassedBy(n) == n \in doc.streams /\ doc.part[n][Parts] = "exempt"

\* Mutant: the strings of such a dictionary are deciphered
DecryptionsOfAll(n, content) ==
    {[content |-> DecryptedUpTo(n, content, k), ok |-> k > Parts] :
        k \in {k \in 1 .. Parts + 1 : /\ \A j \in PartNums : j < k => ~MustFail(n, j)
                                      /\ k \in PartNums => MayFail(n, k)}}
Decryptions(n, content) ==
    IF PassedBy(n) THEN {[content |-> content, ok |-> TRUE]} ELSE
    {[content |-> DecryptedUpTo(n, content, k), ok |-> k > Parts] :
        k \in {k \in 1 .. Parts + 1 : /\ \A j \in PartNums : j < k => ~MustFail(n, j)
                                      /\ k \in PartNums => MayFail(n, k)}}

\* Mutant: the marks are ignored
IsDecryptedByNumber(n) == n \in decryptedObjNum
\* Looking it up again would find its mark: it is never deciphered twice.
IsDecrypted(n) == n \in decryptedObjects \cup decryptedObjNum

-----------------------------------------------------------------------------
(* Lookups: each yields the set of possible outcomes *)

\* The wrapper around the lookup of an object that is cached or has its own
\* entry in the table.  It is cached, and marked, before it is deciphered.
LookupByNumberWrapper(n) ==
    LET content == IF objCache[n] # Absent THEN objCache[n] ELSE Stored(n)
    IN  IF ~crypterSet \/ IsDecrypted(n)
        THEN {[cache |-> [objCache EXCEPT ![n] = content],
               marks |-> decryptedObjects, ok |-> TRUE]}
        ELSE {[cache |-> [objCache EXCEPT ![n] = d.content],
               marks |-> decryptedObjects \cup {n}, ok |-> d.ok] :
                   d \in Decryptions(n, content)}

\* Mutant: the member is left unmarked
LookupObjectViaOSUnmarked(n) ==
    LET home == doc.home[n] IN
    {IF d.ok /\ d.cache[home][Parts] = "plain"
     THEN [cache |-> [d.cache EXCEPT ![n] = Stored(n)],
           marks |-> d.marks, ok |-> TRUE]
     ELSE [d EXCEPT !.ok = FALSE] : d \in LookupByNumberWrapper(home)}
\* Mutant: object streams must have been looked up and decrypted beforehand
LookupObjectViaOSDecrypted(n) ==
    LET home == doc.home[n] IN
    {IF IsDecrypted(home) /\ d.ok /\ d.cache[home][Parts] = "plain"
     THEN [cache |-> [d.cache EXCEPT ![n] = Stored(n)],
           marks |-> d.marks \cup {n}, ok |-> TRUE]
     ELSE [d EXCEPT !.ok = FALSE] : d \in LookupByNumberWrapper(home)}
\* A member is cut out of its object stream, if the data of that decodes, and
\* marked, as it must not be deciphered once more.
LookupObjectViaOS(n) ==
    LET home == doc.home[n] IN
    {IF d.ok /\ d.cache[home][Parts] = "plain"
     THEN [cache |-> [d.cache EXCEPT ![n] = Stored(n)],
           marks |-> d.marks \cup {n}, ok |-> TRUE]
     ELSE [d EXCEPT !.ok = FALSE] : d \in LookupByNumberWrapper(home)}
Lookup(n) ==
    IF objCache[n] = Absent /\ doc.home[n] # NoNum
    THEN LookupObjectViaOS(n) ELSE LookupByNumberWrapper(n)

\* Resolving a reference takes a cached object as it is.
ResolveReference(n) ==
    IF objCache[n] # Absent
    THEN {[cache |-> objCache, marks |-> decryptedObjects, ok |-> TRUE]}
    ELSE Lookup(n)

\* The lookup of n, by one of the above, had the outcome r.
Answer(n, r) ==
    /\ objCache' = r.cache
    /\ decryptedObjects' = r.marks
    /\ held' = IF r.ok THEN held \cup {n} ELSE held
    /\ failed' = IF encryptionKey = "right" /\ ~r.ok THEN failed \cup {n} ELSE failed
    /\ trusted' = IF encryptionKey = "right"
                  THEN trusted \cup {m \in Nums : objCache[m] = Absent /\ r.cache[m] # Absent}
                  ELSE trusted
    /\ early' = (early \/ encryptionKey # "right")
    /\ UNCHANGED <<doc, crypter, asked>>

-----------------------------------------------------------------------------
(* The reader *)

\* Mutant: the crypter excludes nothing by number
NewPdfReaderExcludingNone ==
    /\ ~crypterSet
    /\ crypterSet' = TRUE
    /\ decryptedObjNum' = {}
    /\ objCache' = IF doc.encrypt = NoNum THEN objCache
                   ELSE [objCache EXCEPT ![doc.encrypt] = Stored(doc.encrypt)]
    /\ UNCHANGED <<doc, authenticated, encryptionKey, decryptedObjects, todo,
                   trusted, held, failed, early, asked>>
\* NewPdfReader finds the Encrypt dictionary, which it looks up while there is
\* no crypter yet, and excludes that and the Info dictionary for good.
NewPdfReader ==
    /\ ~crypterSet
    /\ crypterSet' = TRUE
    /\ decryptedObjNum' = {doc.encrypt, doc.info} \ {NoNum}
    /\ objCache' = IF doc.encrypt = NoNum THEN objCache
                   ELSE [objCache EXCEPT ![doc.encrypt] = Stored(doc.encrypt)]
    /\ UNCHANGED <<doc, authenticated, encryptionKey, decryptedObjects, todo,
                   trusted, held, failed, early, asked>>

Idle == crypterSet /\ todo = << >>

\* Mutant: the key is taken over before it is known to be one
DecryptUnchecked(pw) ==
    /\ Idle
    /\ asked' = TRUE
    /\ authenticated' = (Attempt(pw) \in {"right", "wrong"})
    /\ encryptionKey' = Attempt(pw)
    /\ todo' = IF authenticated' THEN doc.structure ELSE << >>
    /\ UNCHANGED <<doc, crypterSet, decryptedObjects, decryptedObjNum, objCache,
                   trusted, held, failed, early>>
\* A password that is not accepted leaves the key of an earlier one in place.
Decrypt(pw) ==
    /\ Idle
    /\ asked' = TRUE
    /\ authenticated' = (Attempt(pw) \in {"right", "wrong"})
    /\ encryptionKey' = IF authenticated' THEN Attempt(pw) ELSE encryptionKey
    /\ todo' = IF authenticated' THEN doc.structure ELSE << >>
    /\ UNCHANGED <<doc, crypterSet, decryptedObjects, decryptedObjNum, objCache,
                   trusted, held, failed, early>>

\* loadStructure, part of Decrypt, gives up at the first object it cannot have.
LoadStructure ==
    /\ todo # << >>
    /\ \E r \in Lookup(Head(todo)) :
        /\ Answer(Head(todo), r)
        /\ todo' = IF r.ok THEN Tail(todo) ELSE << >>

\* Neither asks whether the document has been authenticated.
GetIndirectObjectByNumber(n) ==
    /\ Idle
    /\ \E r \in Lookup(n) : Answer(n, r)
    /\ UNCHANGED todo
Resolve(n) ==
    /\ Idle
    /\ \E r \in ResolveReference(n) : Answer(n, r)
    /\ UNCHANGED todo

Next ==
    \/ NewPdfReader
    \/ \E pw \in Passwords : Decrypt(pw)
    \/ LoadStructure
    \/ \E n \in Nums : GetIndirectObjectByNumber(n) \/ Resolve(n)

Spec == Init /\ [][Next]_vars

-----------------------------------------------------------------------------
(* Properties *)

Excluded == {doc.encrypt, doc.info}
Sound(n) == doc.cipher = "AES" => \A i \in PartNums : doc.part[n][i] # "broken"

\* What is first looked up under the right key is read as it was written,
\* whatever is looked up, resolved or tried as a password afterwards: nothing
\* is deciphered twice or left ciphered (crossrefs.go:215, :321, crypt.go:616);
\* a stream whose data is not ciphered is left as the file has it, the strings
\* of its dictionary too (crypt.go:679).
ReadAsWritten ==
    \A n \in trusted \ Excluded :
        Sound(n) => \A i \in PartNums :
            objCache[n][i] = IF PassedBy(n) THEN Stored(n)[i] ELSE "plain"

\* A client that gives the right password before anything else can look up
\* every undamaged object, those in object streams included
\* (crossrefs.go:85, :315; revision 5 may swap the key for a wrong one).
Readable ==
    ~early => \A n \in failed :
        ~Sound(n) \/ (doc.home[n] # NoNum /\ ~Sound(doc.home[n]))

\* The Encrypt and the Info dictionary stay as the file has them
\* (parser.go:1721), whichever way they are reached.
NeverDecrypted ==
    \A n \in Nums \cap Excluded : objCache[n] \in {Absent, Stored(n)}

\* An accepted password means the document's key, after any sequence of right
\* and wrong passwords, except for revision 5 (crypt.go:512, parser.go:1749).
KeySound ==
    authenticated /\ doc.revision # 5 => encryptionKey = "right"

\* No call changes an object that an earlier call has handed out: not another
\* lookup, not a later password (crypt.go:620, the mark precedes the work).
AnswersStable ==
    [][\A n \in held : objCache'[n] = objCache[n]]_vars

\* Decrypt "also tries to decrypt with an empty password" (reader.go:131):
\* where that is the user's password, any call leaves the document readable.
EmptyTried ==
    asked /\ doc.emptyUser => authenticated /\ encryptionKey = "right"

\* "If encrypted, decrypt it prior to returning" (crossrefs.go:214): under the
\* right key an undamaged object that is handed out has been decrypted.
DecryptedFirst ==
    encryptionKey = "right" =>
        \A n \in held \ Excluded :
            Sound(n) /\ ~PassedBy(n) => \A i \in PartNums : objCache[n][i] = "plain"
=============================================================================

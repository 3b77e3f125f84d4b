---------------------------- MODULE PdfCryptProofs ----------------------------
(***************************************************************************)
(* What lookups in an encrypted document guarantee, for every document,    *)
(* every set of object numbers and every number of strings per object.     *)
(*                                                                         *)
(* The argument rests on CacheMarked: once there is a crypter, everything  *)
(* in the cache is marked or excluded, and nothing else is marked.  So a   *)
(* lookup deciphers an object exactly when it caches it, and GoodOutcome   *)
(* says what such a lookup can do to the cache.                            *)
(***************************************************************************)
EXTENDS PdfCrypt, TLAPS

Cached(m) == objCache[m] # Absent

CacheMarked ==
    /\ \A m \in Nums : Cached(m) => crypterSet /\ IsDecrypted(m)
    /\ \A m \in decryptedObjects : Cached(m)
    /\ todo # << >> => crypterSet
    /\ decryptedObjNum = IF crypterSet THEN Excluded \ {NoNum} ELSE {}
    /\ \A m \in held \cup trusted : Cached(m)

\* What is made of a part that is read under the right key.
AsWritten(m, i) == IF PassedBy(m) THEN Stored(m)[i] ELSE "plain"

\* What is cached under the right key is plain, if it is sound and not excluded.
PlainIn(cache, m) ==
    m \notin Excluded /\ Sound(m) => \A i \in PartNums : cache[m][i] = AsWritten(m, i)

IInv ==
    /\ TypeOK /\ CacheMarked
    /\ ReadAsWritten /\ NeverDecrypted /\ KeySound

\* What a lookup may have as its outcome.
GoodOutcome(r) ==
    /\ r.cache \in [Nums -> Contents \cup {Absent}]
    /\ r.marks \subseteq Nums /\ decryptedObjects \subseteq r.marks
    /\ r.ok \in BOOLEAN
    /\ \A m \in Nums : Cached(m) => r.cache[m] = objCache[m]
    /\ \A m \in Nums : r.cache[m] # Absent => m \in r.marks \cup decryptedObjNum
    /\ \A m \in r.marks : r.cache[m] # Absent
    /\ \A m \in Nums : ~Cached(m) /\ r.cache[m] # Absent =>
            /\ encryptionKey = "right" => PlainIn(r.cache, m)
            /\ m \in decryptedObjNum => r.cache[m] = Stored(m)

-----------------------------------------------------------------------------
(* What a document is made of *)

LEMMA DocFacts ==
    ASSUME doc \in Docs
    PROVE  /\ doc \in Doc
           /\ doc.part \in [Nums -> [PartNums -> PartKinds]]
           /\ doc.home \in [Nums -> Nums \cup {NoNum}]
           /\ doc.structure \in Seq(Nums)
           /\ doc.cipher \in {"RC4", "AES"} /\ doc.emptyUser \in BOOLEAN
           /\ doc.encrypt \in Nums \cup {NoNum} /\ doc.info \in Nums \cup {NoNum}
           /\ \A n \in Nums : doc.home[n] # NoNum =>
                    doc.home[n] \in Nums /\ doc.home[doc.home[n]] = NoNum
<1>1. doc \in Doc
  BY CryptAssumption
<1>2. doc.home \in [Nums -> Nums \cup {NoNum}]
  BY <1>1 DEF Doc
<1>3. \A n \in Nums : doc.home[n] # NoNum =>
                    doc.home[n] \in Nums /\ doc.home[doc.home[n]] = NoNum
  BY <1>2, CryptAssumption
<1> QED
  BY <1>1, <1>2, <1>3 DEF Doc

LEMMA StoredType ==
    ASSUME doc \in Docs, NEW n \in Nums
    PROVE  Stored(n) \in Contents
BY DEF Stored, Contents, PartStates

\* Deciphering yields contents again, and under the right key it deciphers the
\* whole of an undamaged object.
LEMMA DecryptionFacts ==
    ASSUME doc \in Docs, NEW n \in Nums, NEW content \in Contents,
           NEW d \in Decryptions(n, content)
    PROVE  /\ d.content \in Contents /\ d.ok \in BOOLEAN
           /\ /\ encryptionKey = "right" /\ Sound(n)
              /\ content = Stored(n) /\ doc.home[n] = NoNum
              => \A i \in PartNums : d.content[i] = AsWritten(n, i)
<1>0. CASE PassedBy(n)
  <2>1. d = [content |-> content, ok |-> TRUE]
    BY <1>0 DEF Decryptions
  <2> QED
    BY <1>0, <2>1 DEF AsWritten
<1>a. SUFFICES ASSUME ~PassedBy(n)
      PROVE  /\ d.content \in Contents /\ d.ok \in BOOLEAN
             /\ /\ encryptionKey = "right" /\ Sound(n)
                /\ content = Stored(n) /\ doc.home[n] = NoNum
                => \A i \in PartNums : d.content[i] = "plain"
  BY <1>0 DEF AsWritten
<1>1. PICK k \in 1 .. Parts + 1 :
        /\ k \in PartNums => MayFail(n, k)
        /\ d = [content |-> DecryptedUpTo(n, content, k), ok |-> k > Parts]
  BY <1>a DEF Decryptions
<1>2. Parts \in Nat /\ k \in Nat
  BY <1>1, CryptAssumption
<1>3. d.content \in Contents
  BY <1>1 DEF DecryptedUpTo, Contents, PartStates, Deciphered
<1>4. d.ok \in BOOLEAN
  BY <1>1
<1>5. ASSUME encryptionKey = "right", Sound(n), content = Stored(n),
             doc.home[n] = NoNum, NEW i \in PartNums
      PROVE  d.content[i] = "plain"
  <2>1. k \notin PartNums
    <3>1. SUFFICES ASSUME k \in PartNums PROVE FALSE
      OBVIOUS
    <3>2. MustFail(n, k)
      BY <1>1, <1>5, <3>1 DEF MayFail
    <3> QED
      BY <1>5, <3>1, <3>2 DEF MustFail, Sound
  <2>2. i < k
    BY <1>1, <1>2, <2>1 DEF PartNums
  <2>3. d.content[i] = DecryptedUpTo(n, content, k)[i]
    BY <1>1
  <2>4. CASE doc.part[n][i] = "exempt"
    BY <1>5, <2>3, <2>4 DEF DecryptedUpTo, Stored
  <2>5. CASE doc.part[n][i] # "exempt"
    <3>1. d.content[i] = Deciphered(content[i])
      BY <2>2, <2>3, <2>5 DEF DecryptedUpTo
    <3>2. content[i] = "ciphered"
      BY <1>5, <2>5 DEF Stored
    <3> QED
      BY <1>5, <3>1, <3>2 DEF Deciphered
  <2> QED
    BY <2>4, <2>5
<1> QED
  BY <1>3, <1>4, <1>5
-----------------------------------------------------------------------------
(* Lookups *)

\* The wrapper deciphers what it caches, and leaves alone what is cached.
LEMMA WrapperOutcome ==
    ASSUME TypeOK, CacheMarked, crypterSet, NEW n \in Nums,
           Cached(n) \/ doc.home[n] = NoNum, NEW r \in LookupByNumberWrapper(n)
    PROVE  GoodOutcome(r) /\ r.cache[n] # Absent
<1> DEFINE content == IF objCache[n] # Absent THEN objCache[n] ELSE Stored(n)
<1>1. content \in Contents /\ content # Absent
  BY StoredType, CryptAssumption DEF TypeOK
<1>2. CASE IsDecrypted(n)
  <2>1. r = [cache |-> [objCache EXCEPT ![n] = content],
             marks |-> decryptedObjects, ok |-> TRUE]
    BY <1>2 DEF LookupByNumberWrapper
  <2>2. r.cache \in [Nums -> Contents \cup {Absent}] /\ r.cache[n] = content
    BY <1>1, <2>1 DEF TypeOK
  <2>3. \A m \in Nums : Cached(m) \/ m # n => r.cache[m] = objCache[m]
    BY <2>1 DEF TypeOK, Cached
  <2>4. ~Cached(n) => n \in decryptedObjNum /\ r.cache[n] = Stored(n)
    BY <1>2, <2>2 DEF CacheMarked, IsDecrypted, Cached
  <2>5. decryptedObjNum \subseteq Excluded
    BY DEF CacheMarked
  <2>6. \A m \in Nums : r.cache[m] # Absent => m \in r.marks \cup decryptedObjNum
    BY <1>2, <2>1, <2>3 DEF CacheMarked, IsDecrypted, Cached
  <2>7. \A m \in r.marks : r.cache[m] # Absent
    BY <2>1, <2>3, <2>2, <1>1 DEF CacheMarked, Cached, TypeOK
  <2>8. \A m \in Nums : ~Cached(m) /\ r.cache[m] # Absent => m = n
    BY <2>3 DEF Cached
  <2> QED
    BY <1>1, <2>1, <2>2, <2>3, <2>4, <2>5, <2>6, <2>7, <2>8
       DEF GoodOutcome, PlainIn, TypeOK
<1>3. CASE ~IsDecrypted(n)
  <2>1. ~Cached(n) /\ content = Stored(n) /\ doc.home[n] = NoNum
    BY <1>3 DEF CacheMarked, Cached
  <2>2. PICK d \in Decryptions(n, content) :
            r = [cache |-> [objCache EXCEPT ![n] = d.content],
                 marks |-> decryptedObjects \cup {n}, ok |-> d.ok]
    BY <1>3 DEF LookupByNumberWrapper
  <2>3. /\ d.content \in Contents /\ d.ok \in BOOLEAN
        /\ encryptionKey = "right" /\ Sound(n) =>
                \A i \in PartNums : d.content[i] = AsWritten(n, i)
    BY <1>1, <2>1, DecryptionFacts DEF TypeOK
  <2>4. r.cache \in [Nums -> Contents \cup {Absent}] /\ r.cache[n] = d.content
    BY <2>2, <2>3 DEF TypeOK
  <2>5. d.content # Absent
    BY <2>3, CryptAssumption
  <2>6. \A m \in Nums : m # n => r.cache[m] = objCache[m]
    BY <2>2 DEF TypeOK
  <2>7. \A m \in Nums : ~Cached(m) /\ r.cache[m] # Absent => m = n
    BY <2>6 DEF Cached
  <2>8. encryptionKey = "right" => PlainIn(r.cache, n)
    BY <2>3, <2>4 DEF PlainIn
  <2>9. n \notin decryptedObjNum
    BY <1>3 DEF IsDecrypted
  <2>10. \A m \in Nums : r.cache[m] # Absent => m \in r.marks \cup decryptedObjNum
    BY <2>2, <2>6 DEF CacheMarked, IsDecrypted, Cached
  <2>11. \A m \in r.marks : r.cache[m] # Absent
    BY <2>2, <2>4, <2>5, <2>6 DEF CacheMarked, Cached, TypeOK
  <2>12. \A m \in Nums : Cached(m) => r.cache[m] = objCache[m]
    BY <2>1, <2>6
  <2> QED
    BY <2>2, <2>3, <2>4, <2>5, <2>7, <2>8, <2>9, <2>10, <2>11, <2>12
       DEF GoodOutcome, TypeOK
<1> QED
  BY <1>2, <1>3

\* A member enters the cache with its object stream, plain and marked.
LEMMA MemberOutcome ==
    ASSUME TypeOK, CacheMarked, crypterSet, NEW n \in Nums,
           ~Cached(n), doc.home[n] # NoNum, NEW r \in LookupObjectViaOS(n)
    PROVE  GoodOutcome(r) /\ (r.ok => r.cache[n] # Absent)
<1> DEFINE home == doc.home[n]
<1>1. home \in Nums /\ doc.home[home] = NoNum /\ home # n
  BY DocFacts DEF TypeOK
<1>2. PICK d \in LookupByNumberWrapper(home) :
        r = IF d.ok /\ d.cache[home][Parts] = "plain"
            THEN [cache |-> [d.cache EXCEPT ![n] = Stored(n)],
                  marks |-> d.marks \cup {n}, ok |-> TRUE]
            ELSE [d EXCEPT !.ok = FALSE]
  BY DEF LookupObjectViaOS
<1>3. GoodOutcome(d)
  BY <1>1, WrapperOutcome
<1>4. d = [cache |-> d.cache, marks |-> d.marks, ok |-> d.ok]
  BY <1>2 DEF LookupByNumberWrapper
<1>5. CASE d.ok /\ d.cache[home][Parts] = "plain"
  <2>1. /\ r.cache = [d.cache EXCEPT ![n] = Stored(n)]
        /\ r.marks = d.marks \cup {n} /\ r.ok = TRUE
    BY <1>2, <1>5
  <2>2. Stored(n) \in Contents /\ Stored(n) # Absent
    BY StoredType, CryptAssumption DEF TypeOK
  <2>3. r.cache \in [Nums -> Contents \cup {Absent}] /\ r.cache[n] = Stored(n)
    BY <1>3, <2>1, <2>2 DEF GoodOutcome
  <2>4. \A m \in Nums : m # n => r.cache[m] = d.cache[m]
    BY <1>3, <2>1 DEF GoodOutcome
  <2>5. \A i \in PartNums : Stored(n)[i] = AsWritten(n, i)
    BY DEF Stored, AsWritten
  <2>6. PlainIn(r.cache, n)
    BY <2>3, <2>5 DEF PlainIn
  <2>7. \A m \in Nums : m # n => (PlainIn(d.cache, m) => PlainIn(r.cache, m))
    BY <2>4 DEF PlainIn
  <2>8. \A m \in Nums : ~Cached(m) /\ r.cache[m] # Absent =>
            /\ encryptionKey = "right" => PlainIn(r.cache, m)
            /\ m \in decryptedObjNum => r.cache[m] = Stored(m)
    BY <1>3, <2>3, <2>4, <2>6, <2>7 DEF GoodOutcome
  <2>9. \A m \in Nums : Cached(m) => r.cache[m] = objCache[m]
    BY <1>3, <2>4 DEF GoodOutcome
  <2>10. \A m \in Nums : r.cache[m] # Absent => m \in r.marks \cup decryptedObjNum
    BY <1>3, <2>1, <2>4 DEF GoodOutcome
  <2>11. \A m \in r.marks : r.cache[m] # Absent
    BY <1>3, <2>1, <2>2, <2>3, <2>4 DEF GoodOutcome
  <2>12. r.marks \subseteq Nums /\ decryptedObjects \subseteq r.marks
    BY <1>3, <2>1 DEF GoodOutcome
  <2> QED
    BY <2>1, <2>2, <2>3, <2>8, <2>9, <2>10, <2>11, <2>12 DEF GoodOutcome
<1>6. CASE ~(d.ok /\ d.cache[home][Parts] = "plain")
  <2>1. r.cache = d.cache /\ r.marks = d.marks /\ r.ok = FALSE
    BY <1>2, <1>4, <1>6
  <2> QED
    BY <1>3, <2>1 DEF GoodOutcome, PlainIn
<1> QED
  BY <1>5, <1>6

LEMMA LookupOutcome ==
    ASSUME TypeOK, CacheMarked, crypterSet, NEW n \in Nums, NEW r \in Lookup(n)
    PROVE  GoodOutcome(r) /\ (r.ok => r.cache[n] # Absent)
<1>1. CASE ~Cached(n) /\ doc.home[n] # NoNum
  BY <1>1, MemberOutcome DEF Lookup, Cached
<1>2. CASE Cached(n) \/ doc.home[n] = NoNum
  BY <1>2, WrapperOutcome DEF Lookup, Cached
<1> QED
  BY <1>1, <1>2

LEMMA ResolveOutcome ==
    ASSUME TypeOK, CacheMarked, crypterSet, NEW n \in Nums,
           NEW r \in ResolveReference(n)
    PROVE  GoodOutcome(r) /\ (r.ok => r.cache[n] # Absent)
<1>1. CASE Cached(n)
  <2>1. r.cache = objCache /\ r.marks = decryptedObjects /\ r.ok = TRUE
    BY <1>1 DEF ResolveReference, Cached
  <2> QED
    BY <1>1, <2>1 DEF GoodOutcome, CacheMarked, Cached, IsDecrypted, TypeOK
<1>2. CASE ~Cached(n)
  BY <1>2, LookupOutcome DEF ResolveReference, Cached
<1> QED
  BY <1>1, <1>2
-----------------------------------------------------------------------------
(* Steps *)

LEMMA PasswordFacts ==
    ASSUME TypeOK, NEW pw \in Passwords
    PROVE  /\ Attempt(pw) \in {"right", "wrong", "refused", "error"}
           /\ doc.revision # 5 => Attempt(pw) # "wrong"
BY DEF Attempt, Authenticate, AuthenticateR4, AuthenticateR6

\* A lookup with a good outcome preserves the invariant.
LEMMA AnswerKeeps ==
    ASSUME IInv, crypterSet, NEW n \in Nums, NEW r, GoodOutcome(r),
           r.ok => r.cache[n] # Absent, Answer(n, r),
           todo' \in Seq(Nums)
    PROVE  IInv' /\ (\A m \in held : objCache'[m] = objCache[m])
<1>1. /\ objCache' = r.cache /\ decryptedObjects' = r.marks
      /\ UNCHANGED <<doc, crypterSet, authenticated, encryptionKey,
                     decryptedObjNum, asked>>
  BY DEF Answer, crypter
<1>2. TypeOK'
  <2>1. held' \subseteq Nums /\ failed' \subseteq Nums /\ trusted' \subseteq Nums
    BY DEF Answer, IInv, TypeOK
  <2>2. early' \in BOOLEAN
    BY DEF Answer
  <2> QED
    BY <1>1, <2>1, <2>2 DEF IInv, TypeOK, GoodOutcome
<1>3. \A m \in Nums : Cached(m) => objCache'[m] = objCache[m] /\ Cached(m)'
  BY <1>1 DEF GoodOutcome, Cached
<1>4. \A m \in held \cup trusted : m \in Nums /\ Cached(m)
  BY DEF IInv, CacheMarked, TypeOK
<1>5. \A m \in held' : (m = n /\ r.ok) \/ m \in held
  BY DEF Answer
<1>6. \A m \in trusted' :
        m \in trusted \/ (m \in Nums /\ encryptionKey = "right" /\ ~Cached(m) /\ Cached(m)')
  BY <1>1 DEF Answer, Cached
<1>7. CacheMarked'
  <2>1. \A m \in (held \cup trusted)' : Cached(m)'
    BY <1>1, <1>3, <1>4, <1>5, <1>6 DEF Cached
  <2>2. \A m \in Nums : Cached(m)' => crypterSet' /\ IsDecrypted(m)'
    BY <1>1 DEF GoodOutcome, Cached, IsDecrypted
  <2>3. \A m \in decryptedObjects' : Cached(m)'
    BY <1>1 DEF GoodOutcome, Cached
  <2>4. decryptedObjNum' = IF crypterSet' THEN (Excluded \ {NoNum})' ELSE {}
    BY <1>1 DEF IInv, CacheMarked, Excluded
  <2> QED
    BY <1>1, <2>1, <2>2, <2>3, <2>4 DEF CacheMarked
<1>8. ReadAsWritten'
  <2>1. SUFFICES ASSUME NEW m \in trusted', m \notin Excluded, Sound(m),
                        NEW i \in PartNums
                 PROVE  r.cache[m][i] = AsWritten(m, i)
    BY <1>1 DEF ReadAsWritten, Excluded, Sound, PassedBy, Stored, AsWritten
  <2>2. CASE m \in trusted
    BY <1>1, <1>3, <1>4, <2>1, <2>2 DEF IInv, ReadAsWritten, AsWritten
  <2>3. CASE m \notin trusted
    BY <1>1, <1>6, <2>1, <2>3 DEF GoodOutcome, PlainIn, Cached
  <2> QED
    BY <2>2, <2>3
<1>9. NeverDecrypted'
  <2>1. SUFFICES ASSUME NEW m \in Nums \cap Excluded
                 PROVE  r.cache[m] \in {Absent, Stored(m)}
    BY <1>1 DEF NeverDecrypted, Excluded, Stored
  <2>2. m \in decryptedObjNum
    BY <2>1, CryptAssumption DEF IInv, CacheMarked
  <2>3. CASE Cached(m)
    BY <2>1, <2>3 DEF GoodOutcome, IInv, NeverDecrypted, Cached
  <2>4. CASE ~Cached(m)
    BY <2>1, <2>2, <2>4 DEF GoodOutcome
  <2> QED
    BY <2>3, <2>4
<1>10. KeySound'
  BY <1>1 DEF IInv, KeySound
<1> QED
  BY <1>2, <1>3, <1>4, <1>7, <1>8, <1>9, <1>10 DEF IInv

LEMMA InitIInv == Init => IInv
<1> SUFFICES ASSUME Init PROVE IInv
  OBVIOUS
<1>1. TypeOK
  <2>1. todo \in Seq(Nums)
    BY DEF Init
  <2>2. objCache \in [Nums -> Contents \cup {Absent}]
    BY DEF Init
  <2> QED
    BY <2>1, <2>2 DEF Init, TypeOK, Keys
<1>2. CacheMarked
  BY DEF Init, CacheMarked, Cached
<1> QED
  BY <1>1, <1>2 DEF Init, IInv, ReadAsWritten, NeverDecrypted, KeySound, Excluded

LEMMA NextIInv ==
    ASSUME IInv, [Next]_vars
    PROVE  IInv' /\ (\A m \in held : objCache'[m] = objCache[m])
<1>0. TypeOK /\ CacheMarked
  BY DEF IInv
<1>1. CASE NewPdfReader
  <2>1. /\ ~crypterSet /\ crypterSet'
        /\ decryptedObjNum' = Excluded \ {NoNum}
        /\ UNCHANGED <<doc, authenticated, encryptionKey, decryptedObjects, todo,
                       trusted, held, failed, early, asked>>
    BY <1>1 DEF NewPdfReader, Excluded
  <2>2. \A m \in Nums : ~Cached(m)
    BY <1>0, <2>1 DEF CacheMarked
  <2>3. held = {} /\ trusted = {} /\ decryptedObjects = {}
    BY <1>0, <2>2 DEF CacheMarked, TypeOK
  <2>4. /\ objCache' \in [Nums -> Contents \cup {Absent}]
        /\ \A m \in Nums : \/ m = doc.encrypt /\ objCache'[m] = Stored(m)
                          \/ objCache'[m] = Absent
    <3>1. CASE doc.encrypt = NoNum
      BY <1>0, <1>1, <2>2, <3>1 DEF NewPdfReader, TypeOK, Cached
    <3>2. CASE doc.encrypt # NoNum
      <4>1. doc.encrypt \in Nums
        BY <1>0, <3>2, DocFacts DEF TypeOK
      <4>2. Stored(doc.encrypt) \in Contents
        BY <1>0, <4>1, StoredType DEF TypeOK
      <4>3. objCache' = [objCache EXCEPT ![doc.encrypt] = Stored(doc.encrypt)]
        BY <1>1, <3>2 DEF NewPdfReader
      <4> QED
        BY <1>0, <2>2, <4>1, <4>2, <4>3 DEF TypeOK, Cached
    <3> QED
      BY <3>1, <3>2
  <2>5. TypeOK'
    <3>1. decryptedObjNum' \subseteq Nums
      BY <1>0, <2>1, DocFacts DEF TypeOK, Excluded
    <3> QED
      BY <1>0, <2>1, <2>4, <3>1 DEF TypeOK
  <2>6. CacheMarked'
    <3>1. \A m \in Nums : Cached(m)' => IsDecrypted(m)'
      BY <2>1, <2>4, CryptAssumption DEF Cached, IsDecrypted, Excluded
    <3> QED
      BY <2>1, <2>3, <3>1 DEF CacheMarked, Excluded
  <2>7. NeverDecrypted'
    <3>1. \A m \in Nums : Stored(m)' = Stored(m)
      BY <2>1 DEF Stored
    <3> QED
      BY <2>4, <3>1 DEF NeverDecrypted
  <2>8. ReadAsWritten' /\ KeySound'
    BY <2>1, <2>3 DEF IInv, ReadAsWritten, KeySound
  <2> QED
    BY <2>3, <2>5, <2>6, <2>7, <2>8 DEF IInv
<1>2. ASSUME NEW pw \in Passwords, Decrypt(pw)
      PROVE  IInv' /\ (\A m \in held : objCache'[m] = objCache[m])
  <2>1. /\ crypterSet
        /\ authenticated' = (Attempt(pw) \in {"right", "wrong"})
        /\ encryptionKey' = IF authenticated' THEN Attempt(pw) ELSE encryptionKey
        /\ todo' \in {doc.structure, << >>}
        /\ asked' = TRUE
        /\ UNCHANGED <<doc, crypterSet, decryptedObjects, decryptedObjNum,
                       objCache, trusted, held, failed, early>>
    BY <1>2 DEF Decrypt, Idle
  <2>2. TypeOK'
    <3>1. doc.structure \in Seq(Nums)
      BY <1>0, DocFacts DEF TypeOK
    <3>2. encryptionKey' \in Keys
      BY <1>0, <2>1 DEF TypeOK, Keys
    <3>3. todo' \in Seq(Nums)
      <4>1. << >> \in Seq(Nums)
        OBVIOUS
      <4> QED
        BY <2>1, <3>1, <4>1
    <3>4. authenticated' \in BOOLEAN
      BY <2>1
    <3> QED
      BY <1>0, <2>1, <3>2, <3>3, <3>4 DEF TypeOK
  <2>3. CacheMarked'
    BY <1>0, <2>1 DEF CacheMarked, Cached, IsDecrypted, Excluded
  <2>4. ReadAsWritten' /\ NeverDecrypted'
    BY <2>1 DEF IInv, ReadAsWritten, NeverDecrypted, Excluded, Sound, Stored, PassedBy
  <2>5. KeySound'
    BY <1>0, <2>1, PasswordFacts DEF KeySound
  <2> QED
    BY <2>1, <2>2, <2>3, <2>4, <2>5 DEF IInv
<1>3. CASE LoadStructure
  <2>1. todo \in Seq(Nums) /\ todo # << >> /\ crypterSet
    BY <1>0, <1>3 DEF LoadStructure, TypeOK, CacheMarked
  <2>2. Head(todo) \in Nums /\ Tail(todo) \in Seq(Nums)
    BY <2>1
  <2>3. PICK r \in Lookup(Head(todo)) :
            /\ Answer(Head(todo), r)
            /\ todo' = IF r.ok THEN Tail(todo) ELSE << >>
    BY <1>3 DEF LoadStructure
  <2>4. todo' \in Seq(Nums)
    BY <2>2, <2>3
  <2> QED
    BY <1>0, <2>1, <2>2, <2>3, <2>4, LookupOutcome, AnswerKeeps
<1>4. ASSUME NEW n \in Nums, GetIndirectObjectByNumber(n)
      PROVE  IInv' /\ (\A m \in held : objCache'[m] = objCache[m])
  <2>1. PICK r \in Lookup(n) : Answer(n, r)
    BY <1>4 DEF GetIndirectObjectByNumber
  <2>2. crypterSet /\ todo' \in Seq(Nums)
    BY <1>0, <1>4 DEF GetIndirectObjectByNumber, Idle, TypeOK
  <2> QED
    BY <1>0, <2>1, <2>2, LookupOutcome, AnswerKeeps
<1>5. ASSUME NEW n \in Nums, Resolve(n)
      PROVE  IInv' /\ (\A m \in held : objCache'[m] = objCache[m])
  <2>1. PICK r \in ResolveReference(n) : Answer(n, r)
    BY <1>5 DEF Resolve
  <2>2. crypterSet /\ todo' \in Seq(Nums)
    BY <1>0, <1>5 DEF Resolve, Idle, TypeOK
  <2> QED
    BY <1>0, <2>1, <2>2, ResolveOutcome, AnswerKeeps
<1>6. CASE UNCHANGED vars
  BY <1>0, <1>6 DEF vars, IInv, TypeOK, CacheMarked, Cached, IsDecrypted, Excluded,
                    ReadAsWritten, NeverDecrypted, KeySound, Sound, Stored, PassedBy
<1> QED
  BY <1>1, <1>2, <1>3, <1>4, <1>5, <1>6 DEF Next

-----------------------------------------------------------------------------
(* Theorems *)

LEMMA Invariance == Spec => []IInv
<1>1. IInv /\ [Next]_vars => IInv'
  BY NextIInv
<1> QED
  BY InitIInv, <1>1, PTL DEF Spec

\* The variables keep their types, whatever passwords and lookups follow each
\* other (core/crypt.go, core/crossrefs.go).
THEOREM TypeCorrect == Spec => []TypeOK
<1>1. IInv => TypeOK
  BY DEF IInv
<1> QED
  BY Invariance, <1>1, PTL

\* An undamaged object that is first looked up under the right key is plain from
\* then on: lookups decipher it once, members of object streams not at all, and
\* a stream whose data is not ciphered stays as the file has it, the strings of
\* its dictionary included (crypt.go:615, :679, crossrefs.go:215, :321).
THEOREM ReadAsWrittenHolds == Spec => []ReadAsWritten
<1>1. IInv => ReadAsWritten
  BY DEF IInv
<1> QED
  BY Invariance, <1>1, PTL

\* The Encrypt and Info dictionaries stay as the file has them (parser.go:1721).
THEOREM NeverDecryptedHolds == Spec => []NeverDecrypted
<1>1. IInv => NeverDecrypted
  BY DEF IInv
<1> QED
  BY Invariance, <1>1, PTL

\* Being authenticated means having the document's key, except in revision 5
\* (crypt.go:512, parser.go:1743).
THEOREM KeySoundHolds == Spec => []KeySound
<1>1. IInv => KeySound
  BY DEF IInv
<1> QED
  BY Invariance, <1>1, PTL

\* No step changes an object that a lookup has returned (crypt.go:620).
THEOREM AnswersStableHolds == Spec => AnswersStable
<1>1. IInv /\ [Next]_vars => [\A n \in held : objCache'[n] = objCache[n]]_vars
  BY NextIInv
<1> QED
  BY Invariance, <1>1, PTL DEF Spec, AnswersStable
-----------------------------------------------------------------------------
(* Readable needs a look at the time before: as long as nothing was looked  *)
(* up without the right key, all that is cached was cached under it, except *)
(* the Encrypt dictionary, which NewPdfReader needs to find the handler.    *)
CachedUnderKey ==
    ~early => \A m \in Nums : Cached(m) => m \in trusted \/ m = doc.encrypt

\* The Encrypt and the Info dictionary are dictionaries, not object streams:
\* what is in an object stream is not in one that is excluded by its number.
StreamsNotExcluded ==
    \A d \in Docs : \A n \in Nums :
        d.home[n] # NoNum => d.home[n] \notin {d.encrypt, d.info}

\* An object with an entry of its own cannot be had under the right key only if
\* a part of it is broken.
LEMMA WrapperFails ==
    ASSUME TypeOK, encryptionKey = "right", NEW n \in Nums,
           NEW r \in LookupByNumberWrapper(n), ~r.ok
    PROVE  ~Sound(n)
<1> DEFINE content == IF objCache[n] # Absent THEN objCache[n] ELSE Stored(n)
<1>1. PICK d \in Decryptions(n, content) : r.ok = d.ok
  BY DEF LookupByNumberWrapper
<1>2. PICK k \in 1 .. Parts + 1 :
        /\ k \in PartNums => MayFail(n, k)
        /\ d = [content |-> DecryptedUpTo(n, content, k), ok |-> k > Parts]
  <2>1. ~PassedBy(n)
    BY <1>1 DEF Decryptions
  <2> QED
    BY <2>1 DEF Decryptions
<1>3. k \in PartNums
  <2>1. ~ (k > Parts)
    BY <1>1, <1>2
  <2> QED
    BY <2>1, CryptAssumption DEF PartNums
<1> QED
  BY <1>2, <1>3 DEF MayFail, MustFail, Sound

\* The data of an undamaged object stream is there to be decoded.
LEMMA StreamDecodes ==
    ASSUME IInv, crypterSet, CachedUnderKey, StreamsNotExcluded, ~early,
           encryptionKey = "right", NEW n \in Nums, doc.home[n] # NoNum,
           Sound(doc.home[n]), NEW d \in LookupByNumberWrapper(doc.home[n])
    PROVE  d.cache[doc.home[n]][Parts] = "plain"
<1> DEFINE home == doc.home[n]
<1>1. TypeOK /\ CacheMarked /\ ReadAsWritten
  BY DEF IInv
<1>2. home \in Nums /\ doc.home[home] = NoNum /\ home \notin Excluded
  BY <1>1, DocFacts DEF TypeOK, StreamsNotExcluded, Excluded
<1>3. Parts \in PartNums /\ AsWritten(home, Parts) = "plain"
  BY <1>2, CryptAssumption DEF PartNums, AsWritten, PassedBy, Stored
<1>4. GoodOutcome(d) /\ d.cache[home] # Absent
  BY <1>1, <1>2, WrapperOutcome
<1>5. CASE Cached(home)
  <2>1. home \in trusted
    BY <1>2, <1>5 DEF CachedUnderKey, Excluded
  <2>2. objCache[home][Parts] = "plain"
    BY <1>1, <1>2, <1>3, <2>1 DEF ReadAsWritten, AsWritten
  <2> QED
    BY <1>2, <1>4, <1>5, <2>2 DEF GoodOutcome
<1>6. CASE ~Cached(home)
  <2>1. PlainIn(d.cache, home)
    BY <1>2, <1>4, <1>6 DEF GoodOutcome
  <2> QED
    BY <1>2, <1>3, <2>1 DEF PlainIn
<1> QED
  BY <1>5, <1>6

\* So a lookup under the right key fails only on damage.
LEMMA LookupFails ==
    ASSUME IInv, crypterSet, CachedUnderKey, StreamsNotExcluded, ~early,
           encryptionKey = "right", NEW n \in Nums,
           NEW r \in Lookup(n) \cup ResolveReference(n), ~r.ok
    PROVE  ~Sound(n) \/ (doc.home[n] # NoNum /\ ~Sound(doc.home[n]))
<1>1. TypeOK
  BY DEF IInv
<1>2. r \in Lookup(n)
  BY DEF ResolveReference
<1>3. CASE r \in LookupByNumberWrapper(n)
  BY <1>1, <1>3, WrapperFails
<1>4. CASE r \in LookupObjectViaOS(n) /\ doc.home[n] # NoNum
  <2>1. PICK d \in LookupByNumberWrapper(doc.home[n]) :
          r.ok = (d.ok /\ d.cache[doc.home[n]][Parts] = "plain")
    <3>1. PICK d \in LookupByNumberWrapper(doc.home[n]) :
            r = IF d.ok /\ d.cache[doc.home[n]][Parts] = "plain"
                THEN [cache |-> [d.cache EXCEPT ![n] = Stored(n)],
                      marks |-> d.marks \cup {n}, ok |-> TRUE]
                ELSE [d EXCEPT !.ok = FALSE]
      BY <1>4 DEF LookupObjectViaOS
    <3>2. CASE d.ok /\ d.cache[doc.home[n]][Parts] = "plain"
      BY <3>1, <3>2
    <3>3. CASE ~ (d.ok /\ d.cache[doc.home[n]][Parts] = "plain")
      <4>1. "ok" \in DOMAIN d
        BY DEF LookupByNumberWrapper
      <4> QED
        BY <3>1, <3>3, <4>1
    <3> QED
      BY <3>2, <3>3
  <2>2. doc.home[n] \in Nums
    BY <1>1, <1>4, DocFacts DEF TypeOK
  <2>3. CASE ~d.ok
    BY <1>1, <1>4, <2>2, <2>3, WrapperFails
  <2>4. CASE d.cache[doc.home[n]][Parts] # "plain"
    BY <1>4, <2>4, StreamDecodes
  <2> QED
    BY <2>1, <2>3, <2>4
<1> QED
  BY <1>2, <1>3, <1>4 DEF Lookup

\* A lookup keeps Readable and what it rests on.
LEMMA AnswerReadable ==
    ASSUME IInv, crypterSet, CachedUnderKey, StreamsNotExcluded, Readable,
           NEW n \in Nums, NEW r \in Lookup(n) \cup ResolveReference(n),
           Answer(n, r)
    PROVE  (CachedUnderKey /\ Readable)'
<1>1. TypeOK /\ CacheMarked
  BY DEF IInv
<1>2. GoodOutcome(r)
  BY <1>1, LookupOutcome, ResolveOutcome
<1>3. /\ objCache' = r.cache /\ UNCHANGED <<doc, encryptionKey>>
      /\ early' = (early \/ encryptionKey # "right")
      /\ failed' = IF encryptionKey = "right" /\ ~r.ok THEN failed \cup {n} ELSE failed
      /\ encryptionKey = "right" =>
           trusted' = trusted \cup {m \in Nums : objCache[m] = Absent /\ r.cache[m] # Absent}
  BY DEF Answer, crypter
<1>4. SUFFICES ASSUME ~early' PROVE (CachedUnderKey /\ Readable)'
  BY DEF CachedUnderKey, Readable
<1>5. ~early /\ encryptionKey = "right"
  BY <1>3, <1>4, <1>1 DEF TypeOK
<1>6. CachedUnderKey'
  BY <1>3, <1>5 DEF CachedUnderKey, Cached
<1>7. Readable'
  <2>1. ASSUME NEW m \in failed'
        PROVE  ~Sound(m) \/ (doc.home[m] # NoNum /\ ~Sound(doc.home[m]))
    <3>1. CASE m \in failed
      BY <1>5, <3>1 DEF Readable
    <3>2. CASE m = n /\ ~r.ok
      BY <1>5, <3>2, LookupFails
    <3> QED
      BY <1>3, <2>1, <3>1, <3>2
  <2> QED
    BY <1>3, <2>1 DEF Readable, Sound
<1> QED
  BY <1>6, <1>7

LEMMA NextReadable ==
    ASSUME IInv, CachedUnderKey, StreamsNotExcluded, Readable, [Next]_vars
    PROVE  (CachedUnderKey /\ Readable)'
<1>0. TypeOK /\ CacheMarked
  BY DEF IInv
<1>1. CASE NewPdfReader
  <2>1. /\ UNCHANGED <<doc, trusted, failed, early>>
        /\ \A m \in Nums : Cached(m)' => Cached(m) \/ m = doc.encrypt
    BY <1>0, <1>1 DEF NewPdfReader, Cached, TypeOK
  <2> QED
    BY <2>1 DEF CachedUnderKey, Readable, Sound
<1>2. ASSUME NEW pw \in Passwords, Decrypt(pw)
      PROVE  (CachedUnderKey /\ Readable)'
  BY <1>2 DEF Decrypt, CachedUnderKey, Readable, Sound, Cached
<1>3. CASE LoadStructure
  <2>1. Head(todo) \in Nums /\ crypterSet
    BY <1>0, <1>3 DEF LoadStructure, TypeOK, CacheMarked
  <2>2. PICK r \in Lookup(Head(todo)) : Answer(Head(todo), r)
    BY <1>3 DEF LoadStructure
  <2> QED
    BY <2>1, <2>2, AnswerReadable
<1>4. ASSUME NEW n \in Nums, GetIndirectObjectByNumber(n)
      PROVE  (CachedUnderKey /\ Readable)'
  BY <1>4, AnswerReadable DEF GetIndirectObjectByNumber, Idle
<1>5. ASSUME NEW n \in Nums, Resolve(n)
      PROVE  (CachedUnderKey /\ Readable)'
  BY <1>5, AnswerReadable DEF Resolve, Idle
<1>6. CASE UNCHANGED vars
  BY <1>6 DEF vars, CachedUnderKey, Readable, Sound, Cached
<1> QED
  BY <1>1, <1>2, <1>3, <1>4, <1>5, <1>6 DEF Next

\* A client that gives the right password before anything else can look up every
\* undamaged object, in an object stream or not, and in any order, as long as
\* the trailer's Encrypt and Info are not object streams: lookups of members
\* decipher the stream they are in, once (crossrefs.go:85, :315, crypt.go:615).
THEOREM ReadableHolds ==
    ASSUME StreamsNotExcluded
    PROVE  Spec => []Readable
<1>1. Init => CachedUnderKey /\ Readable
  BY DEF Init, CachedUnderKey, Readable, Cached
<1>2. IInv /\ CachedUnderKey /\ Readable /\ [Next]_vars
        => (CachedUnderKey /\ Readable)'
  BY NextReadable
<1> QED
  BY Invariance, <1>1, <1>2, PTL DEF Spec
=============================================================================

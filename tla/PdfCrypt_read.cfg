SPECIFICATION Spec
CONSTANTS
    Nums = {1, 2, 3, 4, 5}
    Parts = 2
    None = None
    NoNum = None
    Absent = Absent
    Docs <- TheDocs
INVARIANTS
    TypeOK
    ReadAsWritten
    Readable
    NeverDecrypted
    KeySound
PROPERTY
    AnswersStable

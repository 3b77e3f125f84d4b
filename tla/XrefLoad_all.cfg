SPECIFICATION FairSpec
CONSTANTS
  Objs = {1, 2}
  Gens = {0, 1}
  MaxGen = 1
  FileSize = 9
  Offs = {1, 2, 3}
  Files <- AllFiles
  NoPrev = NoPrev
  BadPrev = BadPrev
  Nowhere = Nowhere
  Outside = Outside
  Nothing = Nothing
  Direct = Direct
INVARIANTS
  TypeOK
  Precedence
  BoundedLoad
PROPERTIES
  NeverForgets
  Terminates
\* loadXrefs returns: the behaviour stops there
CHECK_DEADLOCK FALSE

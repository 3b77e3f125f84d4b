SPECIFICATION FairSpec
CONSTANTS
  Objs = {1, 2}
  MaxGen = 1
  FileSize = 3
  Docs <- DamagedDocs
  MaxDepth = 12
  Direct = Direct
  NoEntry = NoEntry
  NoObj = NoObj
  Null = Null
  Pending = Pending
  NoRequest = NoRequest
INVARIANTS
  TypeOK
  RightObject
  LengthOnce
PROPERTIES
  Returns

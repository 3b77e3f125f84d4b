SPECIFICATION FairSpec
CONSTANTS
  Objs = {1, 2, 3}
  MaxGen = 1
  FileSize = 3
  Docs <- IntactDocs
  MaxDepth = 8
  Direct = Direct
  NoEntry = NoEntry
  NoObj = NoObj
  Null = Null
  Pending = Pending
  NoRequest = NoRequest
PROPERTIES
  ImplementsStore

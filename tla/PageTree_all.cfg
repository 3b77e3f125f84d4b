SPECIFICATION FairSpec
CONSTANTS
  r = r  m = m  p = p  q = q  x = x  box = box
  Resources = Resources  Nil = Nil  Fresh = Fresh  Tree = Tree
  Nodes <- AllNodes
  Attrs <- AllAttrs
  Docs <- AllDocs
  MaxLoads = 2
  MaxOut = 3
INVARIANTS TypeOK TreeRead BoxesTrue
PROPERTY Returns
\* nothing has to be done with a document that was read
CHECK_DEADLOCK FALSE

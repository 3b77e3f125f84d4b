SPECIFICATION FairSpec
CONSTANTS
  w1 = w1  w2 = w2
  p = p  q = q  t = t  a = a  c = c  f = f  oc = oc
  s1 = s1  s2 = s2  sc = sc  sa = sa
  BadRef = BadRef  None = None  Original = Original
  Writers <- One
  DocNodes <- AllNodes
  Pages <- AllPages
  DocStrs <- AllStrs
  Docs <- Any
  Attachable <- Forms
  OCs <- Layer
  Combos <- Sound
  Refreshed = {}
  MaxPages = 2
INVARIANTS TypeOK FileWhole TextKept
PROPERTY Returns
CHECK_DEADLOCK FALSE

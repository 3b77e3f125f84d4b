SPECIFICATION Spec
CONSTANTS
  w1 = w1  w2 = w2
  p = p  q = q  t = t  a = a  c = c  f = f  oc = oc
  s1 = s1  s2 = s2  sc = sc  sa = sa
  BadRef = BadRef  None = None  Original = Original
  Writers <- One
  DocNodes <- AllNodes
  Pages <- AllPages
  DocStrs <- AllStrs
  Docs <- OnlyPlain
  Attachable <- NoForms
  OCs <- NoLayer
  Combos <- Streamed
  Refreshed = {}
  MaxPages = 1
INVARIANT OutputCiphered
CHECK_DEADLOCK FALSE

CONSTANTS
  p1 = p1 p2 = p2 s1 = s1 s2 = s2 font = font image = image space = space
  link = link field = field tree = tree xp = xp xs = xs xfont = xfont xnote = xnote xtree = xtree
  FileNodes <- McFile
  ExtNodes <- McExt
  Streams <- McStreams
  FilePages <- McPages
  ExtPage <- ExtP
  Links <- McLinks
  Up <- McUp
  Annots <- McAnnots
  Own <- McOwn
  Fields <- McFields
  FieldKids <- McKids
  PageRes <- McRes
  PageText <- McText
  Kinds = {"Font", "XObject"}
  Merged = {"Font", "XObject"}
  Places = {1, 2}
  SignPlaces = {1, 2, 3}
  MaxSigned = 2
  MaxCalls = 3
  MaxWrites = 2
  Licensed = FALSE
  Changes <- McChanges
  Stamp = Stamp
  Nil = Nil
  Handlers = {1, 2}
  RangeWidth = 1
  HoleWidth = 2
  MaxRevisions = 2
  MaxSigs = 2
  StartTables <- McStartTables
  Items <- McItems
  Skips <- McSkips
  SubTables <- McSubTables
  SubPlaces <- McSubPlaces
  HeaderRows <- McHeaderRows
  Sizes <- McSizes
  Spots <- McSpots
  TableMargins <- McTableMargins
  MaxBuilding = 2  MaxTablePages = 10
  StartBooks <- McStartBooks
  Leaves <- McLeaves
  AddedSizes = {8}  NewSizes = {16}  MovesTo = {9}
  MaxClientCalls = 3  MaxChapters = 5
  Glyphs <- McGlyphs
  Divisions <- McDivisions
  Chunks <- McChunks
  ParagraphEdits <- McParagraphEdits
  DrawContexts <- McDrawContexts
  MaxTextEdits = 1  MaxDrawings = 2
SPECIFICATION RevSpec
\* a client may stop after any call
CHECK_DEADLOCK FALSE
INVARIANTS RevisionSound SignaturesSound LayoutSound

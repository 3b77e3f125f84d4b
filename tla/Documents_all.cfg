CONSTANTS
  KeysOf <- TheKeysOf
  EditsOf <- TheEditsOf
  MaxEdits = 1  MaxWrites = 2
  Fonts14 <- TheFonts14
  FormDocs <- TheFormDocs
  Providers <- TheProviders
  Generators <- MCGenerators
  MadeFields <- TheMadeFields
  MaxNesting = 3  MaxCalls = 3
  OptDocs <- TheOptDocs
  OptOptions <- MCOptOptions
  Squeezed = {"text", "other"}
  OptDepth = 8
SPECIFICATION DocumentsSpec
\* the client may stop
CHECK_DEADLOCK FALSE
INVARIANTS  FormsSound
PROPERTIES WriteStable

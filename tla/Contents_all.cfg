CONSTANTS
  Width = 4  StackLimit = 6  MaxEvaluations = 2
  Math <- McMath
  Programs <- ThePrograms
  Texts <- TheTexts
  Arguments <- McArguments
  LawCases <- TheLawCases
  Unit = 255
  ToneCurve <- McToneCurve
  SpaceObjects <- TheSpaceObjects
  ColourInputs <- TheColourInputs
  ColourImages <- TheColourImages
  Numerals <- McNumerals
  HexCodes <- McHexCodes
  PageSpaces <- ThePageSpaces
  CreatorCalls <- TheCreatorCalls
  ColourCalls <- TheColourCalls
  ContentTexts <- TheContentTexts
  InlineFilters <- TheInlineFilters
  MaxCalls = 2  MaxColourCalls = 3
  Fonts <- TheFonts
  DefaultFont <- McDefaultFont
  Forms <- TheForms
  PageImages <- McPageImages
  Pieces <- ThePieces
  LongPieces <- TheLongPieces
  MaxPieces = 2  MaxLongPieces = 3  MaxForms = 2  MaxFontCache = 1
  Marks <- TheMarks
  MaxMarks = 3
  MaxBfEntries = 2  MaxCode = 8  MaxShown = 3
  SimpleEncodings <- TheSimpleEncodings
  StdFonts <- TheStdFonts
  RuneMaps <- TheRuneMaps
  MapFiles <- TheMapFiles
  Alphabets <- TheAlphabets
  SimpleFonts <- TheSimpleFonts
  TrueTypes <- TheTrueTypes
  CidWidths <- TheCidWidths
SPECIFICATION ContentsSpec
\* a client stops
CHECK_DEADLOCK FALSE
INVARIANTS CalculatorSound ColoursSound ContentSound TextSound

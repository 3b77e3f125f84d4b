CONSTANTS
  Base = 16  Digit = 10  Nibble = 4
  FilterData <- TheFilterData
  Encoders <- TheEncoders
  Headings <- TheHeadings
  Terms = 2  OwnMakeups = 1  Makeups = 2
  White <- TheWhite
  Black <- TheBlack
  FaxImages <- TheFaxImages
  FaxSettings <- TheFaxSettings
  Pictures <- ThePictures
  ImgEncoders <- TheImgEncoders
  Sources <- TheSources
  Scales <- TheScales
  Targets = {1, 4, 8}
  MaxImageCalls = 3
  Ascii <- TheAscii
  MaxNumber = 2000000000
  MaxItems = 6
  SynValues <- TheSynValues
  SynKeys <- TheSynKeys
  SynTexts <- TheSynTexts
  SynMerged <- TheSynMerged
  SynData <- TheSynData
  Gaps <- TheGaps
  MaxEdits = 2
  Sheets <- TheSheets
SPECIFICATION CodecsSpec
\* a job is done, or a client stops
CHECK_DEADLOCK FALSE
INVARIANTS StreamsSound FaxSound ImagesSound SyntaxSound

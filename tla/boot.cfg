SPECIFICATION Spec
CONSTANTS
  Rows = 2
  Cols = 2
  Base = 3
  Printers = {entry, t1, t2}
  Entry0 = entry
  Blank = Blank
  NewLine = NewLine
  PageEntries = 3
  LastPage = 7
  HeapPages = {1, 2, 3, 4, 5, 6, 7}
  NFrames = 9
  Junk = 5
  Welcome <- MCWelcome
  Texts <- MCTexts
  Keys = {1, 2}
  Names <- MCNames
  Break = 2
  Unknown <- MCUnknown
  Released <- MCReleased
  MaxPrints = 2
  MaxKeys = 2
  NoKey = NoKey
SYMMETRY MCSymmetry
INVARIANTS ShowsText TranslationHolds KeyIsHeard
PROPERTY AlonePrintHeals
CHECK_DEADLOCK FALSE

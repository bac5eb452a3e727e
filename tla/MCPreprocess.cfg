SPECIFICATION Spec
CONSTANTS
  Starts <- MCStarts
  Pieces <- MCPieces
  Frames <- MCFrames
  Cuts <- MCCuts
  MaxLen = 11
  NULL = NULL
INVARIANTS
  TypeOK
  HeaderWhole
  ParsedAsRecognised
  Reported
PROPERTIES
  RecognisedStays

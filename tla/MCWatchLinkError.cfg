SPECIFICATION FairSpec
CONSTANTS
  Fragment <- MCFragment
  MinBackoff = 1
  MaxBackoff = 3
  LineEnd <- MCLineEnd
  Payload <- MCPayload
  Id <- MCId
  MaxSent = 2
  MaxPiece = 3
  MaxFailures = 4
PROPERTIES
  ErrorsArePaced

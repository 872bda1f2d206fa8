CONSTANTS
  BUF = 4
  MaxMessages = 2
  MaxCuts = 2
  Nil = Nil
  Piece <- AllPieces
  Messages <- ThreeMessages
  Lengths <- ThreeLengths
  Token <- Tokens
SPECIFICATION SessionSpec
INVARIANTS
  SessionTypeOK
  FramesTile
  WaitsOnWholeBlocks
  BlockFrameIsLast
  PoliteExecuted
  HeadsOnce
  CutOnlyTruncates
PROPERTIES
  PoliteAnswered

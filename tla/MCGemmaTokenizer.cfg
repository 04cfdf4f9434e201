SPECIFICATION Spec
CONSTANTS
  Bytes <- AllBytes
  Gguf <- GgufFiles
  Calls <- AllCalls
  EndingPieces <- Ending
  TurnPiece <- Turn
  BosText <- Bos
  AnswerSuffix <- Suffix
INVARIANTS
  TokenizesAsSpecified
  NoTextLost
  LabelVerdictIsWhole
PROPERTIES
  MergesGreedily

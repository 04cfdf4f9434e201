SPECIFICATION Spec
CONSTANTS
  Models <- ModelSet
  Devices <- DeviceSeq
  CopyChunk = 2
  SupportedBlocks = {2}
  MaxTokens = 4
  Word = 256
  Arguments <- ArgumentSet
  Inputs <- InputSet
INVARIANTS
  WeightsArePlaced
  ReportIsWhole

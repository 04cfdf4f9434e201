SPECIFICATION Spec
CONSTANTS
  Images <- ImageSet
  PatchSize = 2
  MergeSize = 2
  MinPixels = 64
  MaxPixels = 512
  TableSize = 64
INVARIANTS
  SizeWithinLimits
  ResamplingCoversImage
  TokensPoolOwnSquare
  EstimateHolds

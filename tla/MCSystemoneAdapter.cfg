SPECIFICATION Spec
CONSTANTS
  Malformed = Malformed
  NotFinite = NotFinite
  NoImage = NoImage
  NoId = NoId
  Bodies <- BodySet
  ModelId <- ModelIdBytes
  Uninspectable <- UninspectableSet
  MaxQuestions = 2
  MinOptions = 2
  LegacyOptions = 2
  MaxOptions = 4
  Token <- TokenSet
  Logits = {0, 1, 2}
INVARIANTS
  JsonMeansTheSame
  Base64Exact
  ScoresBelongToOptions

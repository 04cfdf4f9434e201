SPECIFICATION FairSpec
CONSTANTS
  Tokens = {"t1", "t2"}
  Model = "gemma"
  Keys = {"a", "b", "c"}
  Pasted <- PastedLists
  Files = {"f1", "f2"}
  MaxOptions = 3
INVARIANTS
  ResultOfLatestSubmit
PROPERTIES
  BearerIsShownToken
  EvaluatesUnderTriedToken
  PageUnlocks

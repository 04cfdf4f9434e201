SPECIFICATION Spec
CONSTANTS
  Tokens = {"t1"}
  Model = "gemma"
  Keys = {"a", "b"}
  Pasted <- PastedLists
  Files = {"f1", "f2"}
  MaxOptions = 3
INVARIANT
  ImageIsTheChosenFile

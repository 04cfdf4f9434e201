SPECIFICATION Spec
CONSTANTS
  Requests <- MCRequests
  MaxUrl = 3
  MaxMethod = 2
  MaxHeaderBytes = 18
  MaxHeaderCount = 2
  MaxBody = 3
  SeparatorBytes = 2
  ReadTimeout = 2
INVARIANTS
  ExceptionMatchesMethodAndPath

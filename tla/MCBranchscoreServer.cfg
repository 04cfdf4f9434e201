SPECIFICATION FairSpec
CONSTANTS
  Clients = {c1, c2}
  Requests <- MCRequests
  NoClient = NoClient
  NoId = NoId
  NoResponse = NoResponse
  NoImage = NoImage
  IdA = IdA
  IdB = IdB
  ContextLength = 6
  MaxPrefillPositions = 5
  MaxRequestPositions = 8
  Backlog = 2
INVARIANTS
  TypeOK
  PreflightBeforeInference
  AnswersAreOwn
  AnsweredOnce
PROPERTIES
  RefinesDecisionService
  StopsWhenAsked
  EveryoneIsServed

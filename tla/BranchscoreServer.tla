---------------------------- MODULE BranchscoreServer ----------------------------
(***************************************************************************)
(* The server's loop and its handling of a connection (run_server and      *)
(* handle_connection of src/tools/branchscore_server.cpp): one thread      *)
(* accepts a connection, reads its request, routes it, preflights and      *)
(* evaluates its questions, answers and closes.  Clients connect, wait in  *)
(* the listener's queue and leave as they please; a signal asks the loop   *)
(* to stop.                                                                *)
(*                                                                         *)
(* A request is what the handling looks at:                                *)
(*   read         0, or the status receive_request fails with              *)
(*   url, method  as parsed                                                *)
(*   json         the Content-Type is application/json                     *)
(*   body         "syntax" if it is no JSON, the code of the RequestError  *)
(*                parse_request throws, or "ok"                            *)
(*   request_id   the request_id string of the body, or NoId               *)
(*   image        its image or NoImage                                     *)
(*   oversized    the image exceeds the server's dimensions or pixels      *)
(*   questions    in the lexical order of their ids                        *)
(***************************************************************************)
EXTENDS DecisionEngine, Sums, Sequences, SequencesExt

CONSTANTS
  Clients,
  Requests,              \* the requests considered
  NoClient,
  NoId,
  NoResponse,
  MaxRequestPositions,   \* max_request_prefill_positions
  Backlog                \* connections the listener queues

ASSUME ServerAssumption == MaxRequestPositions \in Nat /\ Backlog \in Nat \ {0}

Statuses == {200, 400, 401, 404, 405, 408, 413, 414, 415, 417, 422, 431, 500}

\* What receive_request and parse_request guarantee: a failure to read is no success,
\* and a body that was accepted asks something.
ASSUME RequestsAssumption ==
  /\ NoClient \notin Clients
  /\ \A r \in Requests :
       /\ r.read \in {0} \cup (Statuses \ {200})
       /\ r.image \in ImageType \cup {NoImage}
       /\ r.body = "ok" => r.questions \in Seq(QuestionType) /\ r.questions # <<>>

VARIABLES
  pc,                  \* where the server's thread is
  stopping,            \* set by the signal handler
  client,              \* the connection being handled
  request_id,          \* what the answer echoes
  index,               \* the question in turn
  request_positions,   \* positions preflighted so far
  results,             \* one entry per evaluated question
  answer,              \* the response about to be sent
  request,             \* what each client asks for
  state,               \* of each client: "away", "queued", "served", "gone"
  queue,               \* the listener's queue
  executed,            \* client -> evaluate calls that reached the backend
  received             \* client -> the responses that were sent to it

connectionVars == <<client, request_id, index, request_positions, results, answer>>
clientVars == <<request, state, queue>>
vars == <<pc, stopping, connectionVars, clientVars, executed, received, engineVars>>

current == request[client]

Init ==
  /\ pc = "loop"
  /\ stopping = FALSE
  /\ client = NoClient
  /\ request_id = NoId
  /\ index = 0
  /\ request_positions = 0
  /\ results = <<>>
  /\ answer = NoResponse
  /\ request \in [Clients -> Requests]
  /\ state = [c \in Clients |-> "away"]
  /\ queue = <<>>
  /\ executed = [c \in Clients |-> 0]
  /\ received = [c \in Clients |-> <<>>]
  /\ EngineInit

\* ---- clients and signals -----------------------------------------------------

Listening == pc \notin {"stopped", "failed"}

ClientConnects(c) ==
  /\ Listening
  /\ state[c] = "away"
  /\ Len(queue) < Backlog
  /\ state' = [state EXCEPT ![c] = "queued"]
  /\ queue' = Append(queue, c)
  /\ UNCHANGED <<pc, stopping, connectionVars, request, executed, received, engineVars>>

\* A client may give up before its answer; its connection stays in the queue.
ClientLeaves(c) ==
  /\ state[c] \in {"queued", "served"}
  /\ received[c] = <<>>
  /\ state' = [state EXCEPT ![c] = "gone"]
  /\ UNCHANGED <<pc, stopping, connectionVars, request, queue, executed, received,
                 engineVars>>

Signal ==
  /\ ~stopping
  /\ stopping' = TRUE
  /\ UNCHANGED <<pc, connectionVars, clientVars, executed, received, engineVars>>

\* ---- run_server ---------------------------------------------------------------

Go(next_pc) ==
  /\ pc' = next_pc
  /\ UNCHANGED <<stopping, clientVars, executed, received>>

\* while (!stopping)
CheckStopping ==
  /\ pc = "loop"
  /\ Go(IF stopping THEN "stopped" ELSE "poll")
  /\ UNCHANGED <<connectionVars, engineVars>>

\* poll returns when a connection waits or after half a second without one.
AfterPollInverted == IF queue = <<>> THEN "accept" ELSE "loop"
AfterPollWaiting == IF queue = <<>> THEN "poll" ELSE "accept"
AfterPoll == IF queue = <<>> THEN "loop" ELSE "accept"

PollReturns ==
  /\ pc = "poll"
  /\ Go(AfterPoll)
  /\ UNCHANGED <<connectionVars, engineVars>>

\* poll and accept return early with EINTR for the one signal of this model.
Interrupted ==
  /\ stopping
  /\ pc \in {"poll", "accept"}
  /\ Go("loop")
  /\ UNCHANGED <<connectionVars, engineVars>>

\* Any other error of poll or accept ends the server, that of accept quietly when
\* it has been told to stop.
ListenerFails ==
  /\ pc \in {"poll", "accept"}
  /\ Go(IF pc = "accept" /\ stopping THEN "stopped" ELSE "failed")
  /\ UNCHANGED <<connectionVars, engineVars>>

\* A connection starts without the id of the one before it.
InitialRequestIdStale == request_id
InitialRequestId == NoId

AfterAcceptDropping == IF stopping THEN "loop" ELSE "read"
AfterAccept == "read"

Accept ==
  /\ pc = "accept"
  /\ queue # <<>>
  /\ client' = Head(queue)
  /\ queue' = Tail(queue)
  /\ state' = [state EXCEPT ![Head(queue)] = IF @ = "queued" THEN "served" ELSE @]
  /\ request_id' = InitialRequestId
  /\ pc' = AfterAccept
  /\ UNCHANGED <<stopping, index, request_positions, results, answer, request, executed,
                 received, engineVars>>

\* ---- handle_connection ----------------------------------------------------------

Response(status, answers) ==
  [status |-> status, request_id |-> request_id, answers |-> answers]

Reply(status) ==
  /\ answer' = Response(status, <<>>)
  /\ Go("send")
  /\ UNCHANGED <<client, request_id, index, request_positions, results>>

Routes == {"/ui", "/healthz", "/v1/systemone"}
MethodOf(url) == IF url = "/v1/systemone" THEN "POST" ELSE "GET"

RouteStatus(r) ==
  IF r.read # 0 THEN r.read
  ELSE IF r.url \notin Routes THEN 404
  ELSE IF r.method # MethodOf(r.url) THEN 405
  ELSE IF r.url # "/v1/systemone" THEN 200
  ELSE IF ~r.json THEN 415
  ELSE IF r.body = "syntax" THEN 400
  ELSE 0

\* receive_request finds the connection closed, or reset, before the request's end.
ReadAbandoned ==
  /\ pc = "read"
  /\ state[client] = "gone"
  /\ Reply(400)
  /\ UNCHANGED engineVars

\* receive_request, the routes, and the request_id of a body that is JSON.
ReadAndRoute ==
  /\ pc = "read"
  /\ IF RouteStatus(current) # 0
       THEN Reply(RouteStatus(current))
       ELSE /\ request_id' = current.request_id
            /\ Go("parse")
            /\ UNCHANGED <<client, index, request_positions, results, answer>>
  /\ UNCHANGED engineVars

\* status_for_code, for the codes parse_request and the preflight use.
StatusForCode(code) ==
  IF code = "unsupported_media_type" THEN 415
  ELSE IF code \in BudgetCodes \cup {"request_token_budget_exceeded"} THEN 413
  ELSE IF code = "image_decode_error" THEN 422
  ELSE IF code = "runtime_error" THEN 500
  ELSE 422

ParseStatus(r) ==
  IF r.body # "ok" THEN StatusForCode(r.body)
  ELSE IF r.image # NoImage /\ r.oversized THEN 413
  ELSE 0

InitialResultsKept == results
InitialResults == <<>>

Parse ==
  /\ pc = "parse"
  /\ IF ParseStatus(current) # 0
       THEN Reply(ParseStatus(current))
       ELSE /\ index' = 1
            /\ request_positions' = 0
            /\ results' = InitialResults
            /\ Go("preflight")
            /\ UNCHANGED <<client, request_id, answer>>
  /\ UNCHANGED engineVars

RequestRoomPerQuestion == MaxRequestPositions
RequestRoom == MaxRequestPositions - request_positions

PreflightError ==
  LET q == current.questions[index] IN
  IF EstimateError(q, current.image) # "none" THEN EstimateError(q, current.image)
  ELSE IF Expanded(q, current.image) > RequestRoom THEN "request_token_budget_exceeded"
  ELSE "none"

\* The next loop starts when every question has been through this one.
AfterPreflightInterleaved == "evaluate"
AfterPreflight == IF index = Len(current.questions) THEN "evaluate" ELSE "preflight"

Preflight ==
  /\ pc = "preflight"
  /\ IF PreflightError # "none"
       THEN Reply(StatusForCode(PreflightError))
       ELSE /\ request_positions' =
                 request_positions + Expanded(current.questions[index], current.image)
            /\ index' = IF AfterPreflight = "evaluate" THEN 1 ELSE index + 1
            /\ Go(AfterPreflight)
            /\ UNCHANGED <<client, request_id, results, answer>>
  /\ UNCHANGED engineVars

CallEvaluate ==
  /\ pc = "evaluate"
  /\ Call(current.questions[index], current.image)
  /\ Go("engine")
  /\ UNCHANGED connectionVars

EngineRuns ==
  /\ pc = "engine"
  /\ Evaluate
  /\ executed' =
       IF Executing' /\ ~Executing THEN [executed EXCEPT ![client] = @ + 1] ELSE executed
  /\ UNCHANGED <<pc, stopping, connectionVars, clientVars, received>>

AfterEvaluate == IF index = Len(current.questions) THEN "respond" ELSE "evaluate"

EngineReturns ==
  /\ pc = "engine"
  /\ stage = "returned"
  /\ results' = Append(results, [question |-> index, positions |-> positions])
  /\ index' = index + 1
  /\ Go(AfterEvaluate)
  /\ UNCHANGED <<client, request_id, request_positions, answer, engineVars>>

EngineThrows ==
  /\ pc = "engine"
  /\ stage = "threw"
  /\ Reply(StatusForCode(thrown))
  /\ UNCHANGED engineVars

\* make_response: one answer per question, or a number that is not finite.
Respond ==
  /\ pc = "respond"
  /\ \/ Reply(500)
     \/ /\ answer' = Response(200, results)
        /\ Go("send")
        /\ UNCHANGED <<client, request_id, index, request_positions, results>>
  /\ UNCHANGED engineVars

\* The response is written and the connection closed; a client that has left
\* does not get it, and the server does not ask.
Send ==
  /\ pc = "send"
  /\ received' =
       IF state[client] = "gone" THEN received
       ELSE [received EXCEPT ![client] = Append(@, answer)]
  /\ pc' = "loop"
  /\ client' = NoClient
  /\ answer' = NoResponse
  /\ UNCHANGED <<stopping, request_id, index, request_positions, results, clientVars,
                 executed, engineVars>>

Ended == ~Listening /\ UNCHANGED vars

Handle == ReadAbandoned \/ ReadAndRoute \/ Parse \/ Preflight \/ CallEvaluate \/ EngineRuns
            \/ EngineReturns \/ EngineThrows \/ Respond \/ Send

\* The steps the loop takes of its own accord; a call that fails or is interrupted is
\* nothing it may count on.
Progress == CheckStopping \/ PollReturns \/ Accept \/ Handle

Server == Progress \/ Interrupted \/ ListenerFails

Next ==
  \/ Server
  \/ \E c \in Clients : ClientConnects(c) \/ ClientLeaves(c)
  \/ Signal
  \/ Ended

Spec == Init /\ [][Next]_vars

\* The server's thread goes on: every wait in it ends (receive_request and poll
\* by their timeouts, a backend call by returning, a send by being taken: a peer
\* that takes nothing can hold the thread, see ResponseSend).
FairSpec == Spec /\ WF_vars(Progress)
------------------------------------------------------------------------------

Responses ==
  [status : Statuses, request_id : {r.request_id : r \in Requests} \cup {NoId},
   answers : Seq([question : Nat, positions : Nat])]

TypeOK ==
  /\ pc \in {"loop", "poll", "accept", "read", "parse", "preflight", "evaluate", "engine",
             "respond", "send", "stopped", "failed"}
  /\ stopping \in BOOLEAN
  /\ client \in Clients \cup {NoClient}
  /\ request \in [Clients -> Requests]
  /\ state \in [Clients -> {"away", "queued", "served", "gone"}]
  /\ queue \in Seq(Clients)
  /\ request_positions \in 0 .. MaxRequestPositions
  /\ executed \in [Clients -> Nat]
  /\ received \in [Clients -> Seq(Responses)]
  /\ EngineTypeOK

\* ---- what a client may expect ----------------------------------------------------

PositionsOf(r) == [i \in DOMAIN r.questions |-> Expanded(r.questions[i], r.image)]

WithinBudgets(r) ==
  /\ \A q \in Range(r.questions) : EstimateError(q, r.image) = "none"
  /\ SumOf(PositionsOf(r)) <= MaxRequestPositions

\* README.md, "Limits": HTTP preflights all questions before inference, position
\* overflow returns 413.  No question of a request reaches the backend unless all
\* of them, and their sum, are within the budgets.
PreflightBeforeInference ==
  \A c \in Clients : executed[c] > 0 => WithinBudgets(request[c])

\* Every status the request's own content may get: a refusal of the HTTP layer,
\* one of the preflight, or an answer from the engine.
AnswerStatuses(r) ==
  IF RouteStatus(r) # 0 THEN {RouteStatus(r)}
  ELSE IF ParseStatus(r) # 0 THEN {ParseStatus(r)}
  ELSE IF ~WithinBudgets(r)
    THEN (IF \A q \in Range(r.questions) : q.valid THEN {413} ELSE {413, 500})
  ELSE IF r.image # NoImage /\ ~r.image.decodes THEN {422, 500}
  ELSE {200, 500}

\* The answers to the first n questions of a request, with the positions that were
\* preflighted for them: the host's estimate is what Prefill then held.
Answers(r, n) ==
  [i \in 1 .. n |->
     [question |-> i, positions |-> Expanded(r.questions[i], r.image)]]

Success(r, reply) == reply.status = 200 /\ r.url = "/v1/systemone"

OwnId(r, reply) == reply.request_id = IF RouteStatus(r) = 0 THEN r.request_id ELSE NoId

\* Every answer is one its own request deserves and carries that request's id,
\* whatever was asked, refused, abandoned or thrown on the connections before it;
\* only a request within the budgets is answered by the engine, and a success answers
\* every question of it, in order.
AnswersAreOwn ==
  \A c \in Clients : \A reply \in Range(received[c]) :
    /\ reply.status \in AnswerStatuses(request[c])
    /\ OwnId(request[c], reply)
    /\ Success(request[c], reply) =>
         reply.answers = Answers(request[c], Len(request[c].questions))

\* An accepted connection is answered once, also across exceptions and a signal
\* to stop: stopping lets the request being handled finish.
AnsweredOnce ==
  /\ \A c \in Clients : Len(received[c]) <= 1
  /\ pc \in {"stopped", "failed"} =>
       \A c \in Clients : state[c] = "served" => Len(received[c]) = 1

\* A signal ends the server, whatever is queued.
StopsWhenAsked == stopping ~> pc \in {"stopped", "failed"}

\* Every connection in the queue has its turn as long as the server runs.
EveryoneIsServed ==
  \A c \in Clients :
    state[c] = "queued" ~>
      \/ Len(received[c]) = 1
      \/ state[c] = "gone"
      \/ pc \in {"stopped", "failed"}

\* ---- the service it implements ------------------------------------------------------

\* A question is run when all of its request are within the budgets, and run once.
Admits(r, n) == WithinBudgets(r) /\ n <= Len(r.questions)

\* A success was computed, question by question, for this request.
Deserves(r, n, reply) ==
  /\ reply.status \in AnswerStatuses(r)
  /\ OwnId(r, reply)
  /\ Success(r, reply) =>
       reply.answers = Answers(r, Len(r.questions)) /\ n = Len(r.questions)

\* The loop, the routes, the preflight and the engine's stages together are a service
\* that gives each connection its turn: in order, one at a time, closing in between.
Service == INSTANCE DecisionService WITH
  asked <- request,
  came <- {c \in Clients : state[c] # "away"},
  left <- {c \in Clients : state[c] = "gone"},
  waiting <- queue,
  in_turn <- client,
  runs <- executed,
  replies <- received,
  open <- Listening

RefinesDecisionService == Service!ServiceSpec
==============================================================================

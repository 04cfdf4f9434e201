------------------------------ MODULE ServerProofs ------------------------------
(***************************************************************************)
(* Proofs about BranchscoreServer for any number of clients, any requests, *)
(* any budgets and backlog: one thread, one connection after the other.    *)
(***************************************************************************)
EXTENDS BranchscoreServer, FiniteSetTheorems, TLAPS

\* ---- sums of the first terms of a sequence --------------------------------------

LEMMA FirstNone ==
  ASSUME NEW f
  PROVE  SumOfFirst(f, 0) = 0
<1>1. Units([i \in 1 .. 0 |-> f[i]]) = {}
  BY DEF Units
<1> QED
  BY <1>1, FS_EmptySet DEF SumOfFirst, SumOf

LEMMA FirstFinite ==
  ASSUME NEW n \in Nat, NEW f, \A i \in 1 .. n : f[i] \in Nat
  PROVE  IsFiniteSet(Units([i \in 1 .. n |-> f[i]]))
<1> DEFINE column(i) == {i} \X (1 .. f[i])
           c == [i \in 1 .. n |-> column(i)]
           columns == {column(i) : i \in 1 .. n}
<1>1. \A i \in 1 .. n : IsFiniteSet(column(i))
  <2> SUFFICES ASSUME NEW i \in 1 .. n PROVE IsFiniteSet(column(i))
    OBVIOUS
  <2>1. f[i] \in Nat
    OBVIOUS
  <2>2. IsFiniteSet(1 .. f[i])
    BY <2>1, FS_Interval
  <2>3. IsFiniteSet({i})
    BY FS_Singleton
  <2> QED
    BY <2>2, <2>3, FS_Product
<1>2. c \in Surjection(1 .. n, columns)
  BY DEF Surjection
<1>3. \A T \in columns : IsFiniteSet(T)
  BY <1>1
<1>4. Units([i \in 1 .. n |-> f[i]]) = UNION columns
  BY DEF Units
<1> HIDE DEF c, columns
<1>5. IsFiniteSet(columns)
  <2>1. IsFiniteSet(1 .. n)
    BY FS_Interval
  <2> QED
    BY <1>2, <2>1, FS_Surjection
<1> QED
  BY <1>3, <1>4, <1>5, FS_UNION

LEMMA FirstType ==
  ASSUME NEW n \in Nat, NEW f, \A i \in 1 .. n : f[i] \in Nat
  PROVE  SumOfFirst(f, n) \in Nat
BY FirstFinite, FS_CardinalityType DEF SumOfFirst, SumOf

\* One term more adds its value.
LEMMA FirstAdd ==
  ASSUME NEW n \in Nat, NEW f, \A i \in 1 .. n + 1 : f[i] \in Nat
  PROVE  SumOfFirst(f, n + 1) = SumOfFirst(f, n) + f[n + 1]
<1> DEFINE old == Units([i \in 1 .. n |-> f[i]])
           new == Units([i \in 1 .. n + 1 |-> f[i]])
           column == {n + 1} \X (1 .. f[n + 1])
<1>1. IsFiniteSet(old) /\ Cardinality(old) \in Nat
  <2>1. \A i \in 1 .. n : f[i] \in Nat
    OBVIOUS
  <2>2. IsFiniteSet(old)
    BY <2>1, FirstFinite
  <2> QED
    BY <2>2, FS_CardinalityType
<1>2. IsFiniteSet(column) /\ Cardinality(column) = f[n + 1]
  <2>1. f[n + 1] \in Nat
    OBVIOUS
  <2>2. IsFiniteSet({n + 1}) /\ Cardinality({n + 1}) = 1
    BY FS_Singleton
  <2>3. \A w \in Nat : IsFiniteSet(1 .. w) /\ Cardinality(1 .. w) = w
    BY FS_Interval
  <2>4. IsFiniteSet(column)
        /\ Cardinality(column) = Cardinality({n + 1}) * Cardinality(1 .. f[n + 1])
    BY <2>1, <2>2, <2>3, FS_Product
  <2> QED
    BY <2>1, <2>2, <2>3, <2>4
<1>3. new = old \cup column
  <2>1. 1 .. n + 1 = (1 .. n) \cup {n + 1}
    OBVIOUS
  <2>2. \A p \in new : p \in old \cup column
    BY <2>1 DEF Units
  <2>3. \A p \in old \cup column : p \in new
    BY <2>1 DEF Units
  <2> QED
    BY <2>2, <2>3
<1>4. old \cap column = {}
  BY DEF Units
<1> HIDE DEF old, new, column
<1>5. Cardinality(old \cup column)
        = Cardinality(old) + Cardinality(column) - Cardinality(old \cap column)
  BY <1>1, <1>2, FS_Union
<1>6. Cardinality(new) = Cardinality(old) + f[n + 1]
  BY <1>1, <1>2, <1>3, <1>4, <1>5, FS_EmptySet
<1> QED
  BY <1>6 DEF SumOfFirst, SumOf, old, new

\* Fewer terms do not add up to more.
LEMMA FirstMonotone ==
  ASSUME NEW m \in Nat, NEW n \in Nat, m <= n, NEW f, \A i \in 1 .. n : f[i] \in Nat
  PROVE  SumOfFirst(f, m) <= SumOfFirst(f, n)
<1>1. IsFiniteSet(Units([i \in 1 .. n |-> f[i]]))
  BY FirstFinite
<1>2. Units([i \in 1 .. m |-> f[i]]) \subseteq Units([i \in 1 .. n |-> f[i]])
  BY DEF Units
<1> QED
  BY <1>1, <1>2, FS_Subset DEF SumOfFirst, SumOf

USE RequestsAssumption

Handling == pc \in {"read", "parse", "preflight", "evaluate", "engine", "respond", "send"}
Routed == pc \in {"parse", "preflight", "evaluate", "engine", "respond"}

\* The answers to the first n questions of a client, and what AnswersAreOwn says of a reply.
AnswersTo(c, n) == Answers(request[c], n)
Complete(c, reply) ==
  Success(request[c], reply) => reply.answers = AnswersTo(c, Len(request[c].questions))
CarriesOwnId(c, reply) == OwnId(request[c], reply)

\* ---- the inductive invariant --------------------------------------------------

Shape ==
  /\ request \in [Clients -> Requests]
  /\ DOMAIN state = Clients
  /\ DOMAIN received = Clients
  /\ queue \in Seq(Clients)

\* A connection is in one place only: not come yet, in the queue, or in hand.
QueueInv ==
  /\ \A i, j \in DOMAIN queue : queue[i] = queue[j] => i = j
  /\ \A i \in DOMAIN queue :
       state[queue[i]] \in {"queued", "gone"} /\ received[queue[i]] = <<>>
  /\ \A c \in Clients : state[c] = "away" => received[c] = <<>>

InHandInv ==
  Handling =>
    /\ client \in Clients
    /\ state[client] \in {"served", "gone"}
    /\ received[client] = <<>>
    /\ \A i \in DOMAIN queue : queue[i] # client

\* Whoever was accepted and still listens has been answered, or is being served.
ServedInv ==
  \A c \in Clients :
    state[c] = "served" => received[c] # <<>> \/ (Handling /\ c = client)

ReceivedInv ==
  \A c \in Clients :
    received[c] # <<>> =>
      \E reply : received[c] = <<reply>> /\ Complete(c, reply) /\ CarriesOwnId(c, reply)

\* How far the connection in hand has come.
RequestInv ==
  /\ pc = "read" => request_id = NoId
  /\ Routed => RouteStatus(current) = 0 /\ request_id = current.request_id
  /\ pc \in {"preflight", "evaluate", "engine", "respond"} => current.body = "ok"
  /\ pc = "preflight" => results = <<>>
  /\ pc \in {"preflight", "evaluate", "engine"} => index \in 1 .. Len(current.questions)
  /\ pc \in {"evaluate", "engine"} => results = AnswersTo(client, index - 1)
  /\ pc = "respond" => results = AnswersTo(client, Len(current.questions))
  /\ pc = "send" =>
       Complete(client, answer) /\ (state[client] # "gone" => CarriesOwnId(client, answer))

\* What the engine holds belongs to the question in turn.
EngineInv ==
  pc = "engine" =>
    /\ question = current.questions[index] /\ image = current.image
    /\ stage \in {"readout", "returned"} => positions = Expanded(question, image)

Places == Shape /\ QueueInv /\ InHandInv /\ ServedInv /\ ReceivedInv

IInv == Places /\ RequestInv /\ EngineInv

\* ---- sequences ------------------------------------------------------------------

LEMMA AppendOne == \A reply : Append(<<>>, reply) = <<reply>>
  OBVIOUS

LEMMA NoAnswers == \A c : AnswersTo(c, 0) = <<>>
  BY DEF AnswersTo, Answers

LEMMA OneMoreAnswer ==
  ASSUME NEW c, NEW n \in Nat
  PROVE  Append(AnswersTo(c, n),
                [question |-> n + 1,
                 positions |-> Expanded(request[c].questions[n + 1], request[c].image)])
           = AnswersTo(c, n + 1)
  BY DEF AnswersTo, Answers

\* ---- where connections are ------------------------------------------------------

LEMMA ReplyStays ==
  ASSUME UNCHANGED request, NEW c, NEW reply
  PROVE  /\ Complete(c, reply)' = Complete(c, reply)
         /\ CarriesOwnId(c, reply)' = CarriesOwnId(c, reply)
  BY DEF Complete, Success, CarriesOwnId, OwnId, AnswersTo, Answers

LEMMA ReceivedStays ==
  ASSUME UNCHANGED <<request, received>>, ReceivedInv
  PROVE  ReceivedInv'
  BY ReplyStays DEF ReceivedInv

LEMMA PlacesStay ==
  ASSUME Places, UNCHANGED <<clientVars, received, client>>, Handling' <=> Handling
  PROVE  Places'
  BY ReceivedStays DEF Places, clientVars, Shape, QueueInv, InHandInv, ServedInv

LEMMA ConnectKeepsPlaces ==
  ASSUME Places, NEW c \in Clients, ClientConnects(c)
  PROVE  Places'
<1> USE DEF ClientConnects, connectionVars
<1>1. \A i \in DOMAIN queue : queue[i] # c
  BY DEF Places, Shape, QueueInv
<1>2. /\ queue' \in Seq(Clients)
      /\ DOMAIN queue' = 1 .. Len(queue) + 1
      /\ queue'[Len(queue) + 1] = c
      /\ \A i \in DOMAIN queue : i # Len(queue) + 1 /\ queue'[i] = queue[i]
  BY DEF Places, Shape
<1>3. \A i \in DOMAIN queue' : i = Len(queue) + 1 \/ i \in DOMAIN queue
  BY <1>2 DEF Places, Shape
<1>4. Shape'
  BY <1>2 DEF Places, Shape
<1>5. QueueInv'
  BY <1>1, <1>2, <1>3 DEF Places, Shape, QueueInv
<1>6. InHandInv'
  <2>1. Handling => client # c
    BY DEF Places, InHandInv
  <2> QED
    BY <1>2, <1>3, <2>1 DEF Places, Shape, InHandInv, Handling
<1>7. ServedInv'
  BY DEF Places, Shape, ServedInv, Handling
<1>8. ReceivedInv'
  BY ReceivedStays DEF Places
<1> QED
  BY <1>4, <1>5, <1>6, <1>7, <1>8 DEF Places

LEMMA LeaveKeepsPlaces ==
  ASSUME Places, NEW c \in Clients, ClientLeaves(c)
  PROVE  Places'
<1> USE DEF ClientLeaves, connectionVars
<1>1. Shape' /\ QueueInv'
  BY DEF Places, Shape, QueueInv
<1>2. InHandInv'
  BY DEF Places, Shape, InHandInv, Handling
<1>3. ServedInv'
  BY DEF Places, Shape, ServedInv, Handling
<1>4. ReceivedInv'
  BY ReceivedStays DEF Places
<1> QED
  BY <1>1, <1>2, <1>3, <1>4 DEF Places

\* Accepting takes the first of the queue in hand; it is nowhere else.
LEMMA AcceptKeepsPlaces ==
  ASSUME Places, Accept
  PROVE  Places'
<1> USE DEF Accept
<1> DEFINE c == Head(queue)
<1>1. /\ c \in Clients /\ c = queue[1] /\ 1 \in DOMAIN queue
      /\ queue' \in Seq(Clients)
      /\ \A i \in DOMAIN queue' : i + 1 \in DOMAIN queue /\ queue'[i] = queue[i + 1]
                                  /\ i + 1 # 1 /\ i \in Nat
  BY DEF Places, Shape
<1>2. state[c] \in {"queued", "gone"} /\ received[c] = <<>>
  BY <1>1 DEF Places, QueueInv
<1>3. \A i \in DOMAIN queue' : queue'[i] # c
  BY <1>1 DEF Places, QueueInv
<1>4. Shape'
  BY <1>1 DEF Places, Shape
<1>5. QueueInv'
  <2>1. \A i, j \in DOMAIN queue' : queue'[i] = queue'[j] => i = j
    BY <1>1 DEF Places, QueueInv
  <2>2. \A i \in DOMAIN queue' :
          state'[queue'[i]] \in {"queued", "gone"} /\ received'[queue'[i]] = <<>>
    BY <1>1, <1>3 DEF Places, Shape, QueueInv
  <2>3. \A d \in Clients : state'[d] = "away" => received'[d] = <<>>
    BY <1>2 DEF Places, Shape, QueueInv
  <2> QED
    BY <2>1, <2>2, <2>3 DEF QueueInv
<1>6. InHandInv'
  BY <1>1, <1>2, <1>3 DEF Places, Shape, InHandInv, Handling
<1>7. ServedInv'
  <2>1. Handling' /\ client' = c
    BY DEF Handling, AfterAccept
  <2>2. \A d \in Clients : d # c => state'[d] = state[d]
    BY DEF Places, Shape
  <2> QED
    BY <2>1, <2>2 DEF Places, ServedInv, Handling
<1>8. ReceivedInv'
  BY ReceivedStays DEF Places
<1> QED
  BY <1>4, <1>5, <1>6, <1>7, <1>8 DEF Places

\* Sending adds the one reply of a connection and lets it go.
LEMMA SendKeepsPlaces ==
  ASSUME Places, RequestInv, Send
  PROVE  Places'
<1> USE DEF Send, clientVars
<1>1. Handling /\ ~Handling'
  BY DEF Handling
<1>2. client \in Clients /\ received[client] = <<>>
  BY <1>1 DEF Places, InHandInv
<1>3. \A c \in Clients : c # client => received'[c] = received[c]
  BY <1>2 DEF Places, Shape
<1>4. state[client] # "gone" => received'[client] = <<answer>>
  BY <1>2, AppendOne DEF Places, Shape
<1>5. Shape'
  BY DEF Places, Shape
<1>6. QueueInv'
  <2>1. \A i \in DOMAIN queue : queue[i] \in Clients /\ queue[i] # client
    BY <1>1 DEF Places, Shape, InHandInv
  <2>2. state[client] # "away"
    BY <1>1 DEF Places, InHandInv
  <2> QED
    BY <1>3, <2>1, <2>2 DEF Places, QueueInv
<1>7. InHandInv'
  BY <1>1 DEF InHandInv
<1>8. ServedInv'
  BY <1>1, <1>3, <1>4 DEF Places, ServedInv
<1>9. ReceivedInv'
  <2> SUFFICES ASSUME NEW c \in Clients, received'[c] # <<>>
               PROVE  \E reply : /\ received'[c] = <<reply>>
                                 /\ Complete(c, reply)' /\ CarriesOwnId(c, reply)'
    BY DEF ReceivedInv
  <2>1. CASE c # client
    <3>1. PICK reply : received[c] = <<reply>> /\ Complete(c, reply) /\ CarriesOwnId(c, reply)
      BY <1>3, <2>1 DEF Places, ReceivedInv
    <3> QED
      BY <1>3, <2>1, <3>1, ReplyStays
  <2>2. CASE c = client
    <3>1. state[client] # "gone"
      BY <1>2, <2>2
    <3>2. Complete(client, answer) /\ CarriesOwnId(client, answer)
      BY <3>1 DEF RequestInv
    <3> QED
      BY <1>4, <2>2, <3>1, <3>2, ReplyStays
  <2> QED
    BY <2>1, <2>2
<1> QED
  BY <1>5, <1>6, <1>7, <1>8, <1>9 DEF Places

\* ---- what is in hand ------------------------------------------------------------

LEMMA InitInv == Init => IInv
<1> SUFFICES ASSUME Init PROVE IInv
  OBVIOUS
<1> USE DEF Init
<1>1. Places
  BY DEF Places, Shape, QueueInv, InHandInv, ServedInv, ReceivedInv, Handling
<1>2. RequestInv /\ EngineInv
  BY DEF RequestInv, EngineInv, Routed
<1> QED
  BY <1>1, <1>2 DEF IInv

\* Clients and signals change nothing of it, but that the client may be gone.
LEMMA EnvironmentStep ==
  ASSUME IInv, Signal \/ \E c \in Clients : ClientConnects(c) \/ ClientLeaves(c)
  PROVE  IInv'
<1>1. Places'
  <2>1. CASE Signal
    BY <2>1, PlacesStay DEF IInv, Signal, Handling, connectionVars
  <2>2. CASE \E c \in Clients : ClientConnects(c) \/ ClientLeaves(c)
    BY <2>2, ConnectKeepsPlaces, LeaveKeepsPlaces DEF IInv
  <2> QED
    BY <2>1, <2>2
<1>2. /\ UNCHANGED <<pc, connectionVars, request, engineVars>>
      /\ Handling /\ state'[client] # "gone" => state[client] # "gone"
  BY DEF Signal, ClientConnects, ClientLeaves, clientVars, connectionVars, IInv, Places,
         Shape, InHandInv
<1>3. RequestInv'
  BY <1>2, ReplyStays
     DEF IInv, RequestInv, Routed, Handling, connectionVars, current, AnswersTo, Answers,
         RouteStatus
<1>4. EngineInv'
  BY <1>2 DEF IInv, EngineInv, connectionVars, engineVars, current, Expanded
<1> QED
  BY <1>1, <1>3, <1>4 DEF IInv

\* Between connections nothing is in hand.
LEMMA LoopStep ==
  ASSUME IInv, CheckStopping \/ PollReturns \/ Interrupted \/ ListenerFails
  PROVE  IInv'
<1>1. ~Handling /\ ~Handling' /\ UNCHANGED <<clientVars, received, client>>
  BY DEF CheckStopping, PollReturns, Interrupted, ListenerFails, Go, AfterPoll, Handling,
         connectionVars
<1>2. Places'
  BY <1>1, PlacesStay DEF IInv
<1>3. RequestInv' /\ EngineInv'
  BY <1>1 DEF RequestInv, EngineInv, Routed, Handling
<1> QED
  BY <1>2, <1>3 DEF IInv

LEMMA AcceptStep ==
  ASSUME IInv, Accept
  PROVE  IInv'
<1>1. RequestInv' /\ EngineInv'
  BY DEF Accept, AfterAccept, InitialRequestId, RequestInv, EngineInv, Routed
<1> QED
  BY <1>1, AcceptKeepsPlaces DEF IInv

LEMMA SendStep ==
  ASSUME IInv, Send
  PROVE  IInv'
<1>1. RequestInv' /\ EngineInv'
  BY DEF Send, RequestInv, EngineInv, Routed
<1> QED
  BY <1>1, SendKeepsPlaces DEF IInv

\* A reply without answers is right when it is no success of /v1/systemone and its id
\* is the client's.
LEMMA ReplyStep ==
  ASSUME IInv, Handling, NEW status, Reply(status),
         status = 200 => current.url # "/v1/systemone",
         state[client] # "gone" =>
           request_id = IF RouteStatus(current) = 0 THEN current.request_id ELSE NoId
  PROVE  IInv'
<1> USE DEF Reply, Go, clientVars
<1>1. Places'
  BY PlacesStay DEF IInv, Handling
<1>2. Complete(client, answer)' /\ (state[client] # "gone" => CarriesOwnId(client, answer))'
  BY DEF Response, Complete, Success, CarriesOwnId, OwnId, current, RouteStatus
<1>3. RequestInv' /\ EngineInv'
  BY <1>2 DEF RequestInv, EngineInv, Routed
<1> QED
  BY <1>1, <1>3 DEF IInv

LEMMA ReadStep ==
  ASSUME IInv, ReadAbandoned \/ ReadAndRoute
  PROVE  IInv'
<1>0. pc = "read" /\ Handling /\ request_id = NoId
  BY DEF ReadAbandoned, ReadAndRoute, Handling, IInv, RequestInv
<1>1. CASE ReadAbandoned
  BY <1>0, <1>1, ReplyStep DEF ReadAbandoned
<1>2. CASE ReadAndRoute /\ RouteStatus(current) # 0
  <2>1. RouteStatus(current) = 200 => current.url # "/v1/systemone"
    BY <1>0 DEF RouteStatus, IInv, Places, Shape, InHandInv, current
  <2> QED
    BY <1>0, <1>2, <2>1, ReplyStep DEF ReadAndRoute
<1>3. CASE ReadAndRoute /\ RouteStatus(current) = 0
  <2> USE <1>3 DEF ReadAndRoute, Go
  <2>1. Places'
    BY <1>0, PlacesStay DEF IInv, Handling
  <2>2. RequestInv' /\ EngineInv'
    BY DEF RequestInv, EngineInv, Routed, clientVars, current, RouteStatus
  <2> QED
    BY <2>1, <2>2 DEF IInv
<1> QED
  BY <1>1, <1>2, <1>3

\* ---- from the parsed request to the answer --------------------------------------

\* No code of the handling or of the engine stands for a success.
LEMMA NoSuccessCode == \A code : StatusForCode(code) # 200
  BY DEF StatusForCode

LEMMA RoutedFacts ==
  ASSUME IInv, Routed
  PROVE  /\ Handling /\ client \in Clients /\ current \in Requests
         /\ RouteStatus(current) = 0 /\ request_id = current.request_id
  BY DEF IInv, Places, Shape, InHandInv, RequestInv, Routed, Handling, current

LEMMA AcceptedFacts ==
  ASSUME IInv, pc \in {"preflight", "evaluate", "engine", "respond"}
  PROVE  current.questions \in Seq(QuestionType) /\ Len(current.questions) \in Nat \ {0}
<1>1. current \in Requests /\ current.body = "ok"
  BY RoutedFacts DEF Routed, IInv, RequestInv
<1>2. current.questions \in Seq(QuestionType) /\ current.questions # <<>>
  BY <1>1
<1> QED
  BY <1>2

LEMMA ParseStep ==
  ASSUME IInv, Parse
  PROVE  IInv'
<1> USE DEF Parse
<1>0. Handling /\ request_id = current.request_id /\ RouteStatus(current) = 0
      /\ client \in Clients /\ current \in Requests
  BY RoutedFacts DEF Routed
<1>1. CASE ParseStatus(current) # 0
  <2>1. ParseStatus(current) # 200
    BY NoSuccessCode DEF ParseStatus
  <2> QED
    BY <1>0, <1>1, <2>1, ReplyStep
<1>2. CASE ParseStatus(current) = 0
  <2> USE <1>2 DEF Go
  <2>1. Places'
    BY <1>0, PlacesStay DEF IInv, Handling
  <2>2. current.body = "ok"
    BY DEF ParseStatus, StatusForCode
  <2>3. current.questions \in Seq(QuestionType) /\ current.questions # <<>>
    BY <1>0, <2>2
  <2>4. 1 \in 1 .. Len(current.questions)
    BY <2>3
  <2>5. RequestInv' /\ EngineInv'
    BY <1>0, <2>2, <2>4
       DEF RequestInv, EngineInv, Routed, clientVars, current, RouteStatus, InitialResults
  <2> QED
    BY <2>1, <2>5 DEF IInv
<1> QED
  BY <1>1, <1>2

LEMMA PreflightStep ==
  ASSUME IInv, Preflight
  PROVE  IInv'
<1> USE DEF Preflight
<1>0. Handling /\ request_id = current.request_id /\ RouteStatus(current) = 0
  BY RoutedFacts DEF Routed
<1>1. CASE PreflightError # "none"
  BY <1>0, <1>1, ReplyStep, NoSuccessCode
<1>2. CASE PreflightError = "none"
  <2> USE <1>2 DEF Go
  <2>1. pc' \in {"preflight", "evaluate"} /\ UNCHANGED <<request, state>>
    BY DEF AfterPreflight, clientVars
  <2>2. Places'
    BY <1>0, <2>1, PlacesStay DEF IInv, Handling
  <2>3. index \in 1 .. Len(current.questions) /\ Len(current.questions) \in Nat \ {0}
    BY AcceptedFacts DEF IInv, RequestInv
  <2>4. index' \in 1 .. Len(current.questions)
    BY <2>3 DEF AfterPreflight
  <2>5. pc' = "evaluate" => index' = 1
    BY DEF AfterPreflight
  <2>6. results = <<>> /\ current.body = "ok"
    BY DEF IInv, RequestInv
  <2>7. results' = <<>> /\ (pc' = "evaluate" => AnswersTo(client, index - 1)' = <<>>)
    BY <2>5, <2>6, NoAnswers DEF AnswersTo, Answers
  <2>8. RequestInv'
    BY <1>0, <2>1, <2>4, <2>6, <2>7 DEF RequestInv, Routed, current, RouteStatus
  <2>9. EngineInv'
    BY <2>1 DEF EngineInv
  <2> QED
    BY <2>2, <2>8, <2>9 DEF IInv
<1> QED
  BY <1>1, <1>2

LEMMA CallStep ==
  ASSUME IInv, CallEvaluate
  PROVE  IInv'
<1> USE DEF CallEvaluate, Call, Go, connectionVars, clientVars
<1>1. Places'
  BY PlacesStay DEF IInv, Handling
<1>2. RequestInv'
  BY DEF IInv, RequestInv, Routed, current, RouteStatus, AnswersTo, Answers
<1>3. EngineInv'
  BY DEF EngineInv, current
<1> QED
  BY <1>1, <1>2, <1>3 DEF IInv

LEMMA EngineStep ==
  ASSUME IInv, EngineRuns
  PROVE  IInv'
<1> USE DEF EngineRuns, connectionVars, clientVars
<1>1. Places'
  BY PlacesStay DEF IInv, Handling
<1>2. RequestInv'
  BY DEF IInv, RequestInv, Routed, current, RouteStatus, AnswersTo, Answers
<1>3. UNCHANGED <<question, image>>
      /\ (stage' \in {"readout", "returned"} => positions' = Expanded(question, image))
  <2>1. stage \in {"readout", "returned"} => positions = Expanded(question, image)
    BY DEF IInv, EngineInv
  <2>2. CASE PreparePrompt \/ PrepareImage
    BY <2>2 DEF PreparePrompt, PrepareImage, Check, StepTo, Raise
  <2>3. CASE EncodeImage \/ BackendThrows
    BY <2>3 DEF EncodeImage, BackendThrows, StepTo, Raise
  <2>4. CASE Prefill
    BY <2>4 DEF Prefill, PrefillPositions, Expanded, HasImage
  <2>5. CASE ReadOut
    BY <2>1, <2>5 DEF ReadOut, StepTo
  <2> QED
    BY <2>2, <2>3, <2>4, <2>5 DEF Evaluate
<1>4. EngineInv'
  BY <1>3 DEF IInv, EngineInv, current, Expanded
<1> QED
  BY <1>1, <1>2, <1>4 DEF IInv

LEMMA ReturnStep ==
  ASSUME IInv, EngineReturns
  PROVE  IInv'
<1> USE DEF EngineReturns, Go, clientVars, engineVars
<1>0. Handling /\ request_id = current.request_id /\ RouteStatus(current) = 0
  BY RoutedFacts DEF Routed
<1>1. Places'
  BY PlacesStay DEF IInv, Handling, AfterEvaluate
<1>2. index \in 1 .. Len(current.questions) /\ Len(current.questions) \in Nat \ {0}
  BY AcceptedFacts DEF IInv, RequestInv
<1>3. results = AnswersTo(client, index - 1) /\ current.body = "ok"
  BY DEF IInv, RequestInv
<1>4. positions = Expanded(current.questions[index], current.image)
  BY DEF IInv, EngineInv
<1>5. results' = AnswersTo(client, index)
  <2>1. index - 1 \in Nat /\ (index - 1) + 1 = index
    BY <1>2
  <2> QED
    BY <1>3, <1>4, <2>1, OneMoreAnswer DEF current
<1>6. UNCHANGED <<request, client>> /\ index' - 1 = index
  BY <1>2
<1>7. /\ pc' = "evaluate" => index' \in 1 .. Len(current.questions)
      /\ pc' = "respond" => index = Len(current.questions)
      /\ pc' \in {"evaluate", "respond"} /\ UNCHANGED <<request, client, state, request_id>>
  BY <1>2 DEF AfterEvaluate
<1>8. RequestInv'
  <2>1. /\ pc' = "evaluate" => results' = AnswersTo(client, index - 1)'
        /\ pc' = "respond" => results' = AnswersTo(client, Len(current.questions))'
    BY <1>5, <1>6, <1>7 DEF AnswersTo, Answers, current, Expanded
  <2> QED
    BY <1>0, <1>3, <1>7, <2>1 DEF RequestInv, Routed, current, RouteStatus
<1>9. EngineInv'
  BY <1>7 DEF EngineInv
<1> QED
  BY <1>1, <1>8, <1>9 DEF IInv

LEMMA ThrowStep ==
  ASSUME IInv, EngineThrows
  PROVE  IInv'
<1>1. Handling /\ request_id = current.request_id /\ RouteStatus(current) = 0
  BY RoutedFacts DEF Routed, EngineThrows
<1> QED
  BY <1>1, ReplyStep, NoSuccessCode DEF EngineThrows

LEMMA RespondStep ==
  ASSUME IInv, Respond
  PROVE  IInv'
<1>0. Handling /\ request_id = current.request_id /\ RouteStatus(current) = 0
  BY RoutedFacts DEF Routed, Respond
<1>1. CASE Reply(500)
  BY <1>0, <1>1, ReplyStep
<1>2. CASE answer' = Response(200, results) /\ Go("send")
           /\ UNCHANGED <<client, request_id, index, request_positions, results>>
  <2> USE <1>2 DEF Go, clientVars
  <2>1. Places'
    BY <1>0, PlacesStay DEF IInv, Handling
  <2>2. results = AnswersTo(client, Len(current.questions))
    BY DEF Respond, IInv, RequestInv
  <2>3. Complete(client, answer)' /\ CarriesOwnId(client, answer)'
    BY <1>0, <2>2 DEF Response, Complete, Success, CarriesOwnId, OwnId, AnswersTo, Answers,
                      current, RouteStatus
  <2>4. RequestInv' /\ EngineInv'
    BY <2>3 DEF RequestInv, EngineInv, Routed
  <2> QED
    BY <2>1, <2>4 DEF IInv
<1> QED
  BY <1>1, <1>2 DEF Respond

LEMMA StutterStep ==
  ASSUME IInv, UNCHANGED vars
  PROVE  IInv'
<1> USE DEF vars, connectionVars, clientVars, engineVars
<1>1. Places'
  BY PlacesStay DEF IInv, Handling
<1>2. RequestInv'
  BY ReplyStays DEF IInv, RequestInv, Routed, current, RouteStatus, AnswersTo, Answers
<1>3. EngineInv'
  BY DEF IInv, EngineInv, current, Expanded
<1> QED
  BY <1>1, <1>2, <1>3 DEF IInv

LEMMA StepInv == IInv /\ [Next]_vars => IInv'
<1> SUFFICES ASSUME IInv, [Next]_vars PROVE IInv'
  OBVIOUS
<1>1. CASE Handle
  BY <1>1, ReadStep, ParseStep, PreflightStep, CallStep, EngineStep, ReturnStep, ThrowStep,
     RespondStep, SendStep DEF Handle
<1>2. CASE Server /\ ~Handle
  BY <1>2, LoopStep, AcceptStep DEF Server, Progress
<1>3. CASE Signal \/ \E c \in Clients : ClientConnects(c) \/ ClientLeaves(c)
  BY <1>3, EnvironmentStep
<1>4. CASE UNCHANGED vars
  BY <1>4, StutterStep
<1> QED
  BY <1>1, <1>2, <1>3, <1>4 DEF Next, Ended

LEMMA Invariance == Spec => []IInv
  BY InitInv, StepInv, PTL DEF Spec
------------------------------------------------------------------------------

\* One connection, one answer: run_server answers whomever it accepted, once, whatever
\* the engine throws and whenever the signal comes.
THEOREM EveryConnectionAnsweredOnce == Spec => []AnsweredOnce
<1>1. IInv => AnsweredOnce
  <2> SUFFICES ASSUME IInv PROVE AnsweredOnce
    OBVIOUS
  <2>1. \A c \in Clients : received[c] = <<>> \/ Len(received[c]) = 1
    <3> SUFFICES ASSUME NEW c \in Clients, received[c] # <<>> PROVE Len(received[c]) = 1
      OBVIOUS
    <3>1. PICK reply : received[c] = <<reply>>
      BY DEF IInv, Places, ReceivedInv
    <3> QED
      BY <3>1
  <2>2. \A c \in Clients : Len(received[c]) <= 1
    <3> SUFFICES ASSUME NEW c \in Clients PROVE Len(received[c]) <= 1
      OBVIOUS
    <3>1. CASE received[c] = <<>>
      BY <3>1
    <3>2. CASE Len(received[c]) = 1
      BY <3>2
    <3> QED
      BY <2>1, <3>1, <3>2
  <2>3. ASSUME pc \in {"stopped", "failed"}, NEW c \in Clients, state[c] = "served"
        PROVE  Len(received[c]) = 1
    <3>1. ~Handling
      BY <2>3 DEF Handling
    <3> QED
      BY <2>1, <2>3, <3>1 DEF IInv, Places, ServedInv
  <2> QED
    BY <2>2, <2>3 DEF AnsweredOnce
<1> QED
  BY <1>1, Invariance, PTL

LEMMA RepliesRight ==
  ASSUME IInv, NEW c \in Clients, NEW reply \in Range(received[c])
  PROVE  Complete(c, reply) /\ CarriesOwnId(c, reply)
<1>1. received[c] # <<>>
  BY DEF Range
<1>2. PICK only : received[c] = <<only>> /\ Complete(c, only) /\ CarriesOwnId(c, only)
  BY <1>1 DEF IInv, Places, ReceivedInv
<1>3. reply = only
  BY <1>2 DEF Range
<1> QED
  BY <1>2, <1>3

\* ---- types ----------------------------------------------------------------------

AnswersType == Seq([question : Nat, positions : Nat])

Typed == TypeOK /\ (pc = "send" => answer \in Responses)

\* A question with its image has a number of positions, and its prompt alone has no more.
LEMMA ExpandedType ==
  ASSUME NEW q \in QuestionType, NEW i \in ImageType \cup {NoImage}
  PROVE  Expanded(q, i) \in Nat /\ q.ids \in Nat /\ q.ids <= Expanded(q, i)
<1>1. q.ids \in Nat
  BY DEF QuestionType
<1>2. i # NoImage => i.visual \in Nat \ {0}
  BY DEF ImageType
<1> QED
  BY <1>1, <1>2 DEF Expanded

LEMMA PositionsType ==
  ASSUME NEW r \in Requests, r.body = "ok"
  PROVE  /\ DOMAIN PositionsOf(r) = 1 .. Len(r.questions) /\ Len(r.questions) \in Nat \ {0}
         /\ \A i \in 1 .. Len(r.questions) :
              /\ r.questions[i] \in QuestionType
              /\ PositionsOf(r)[i] = Expanded(r.questions[i], r.image)
              /\ PositionsOf(r)[i] \in Nat
<1>1. r.questions \in Seq(QuestionType) /\ r.questions # <<>>
      /\ r.image \in ImageType \cup {NoImage}
  OBVIOUS
<1>2. \A i \in 1 .. Len(r.questions) : r.questions[i] \in QuestionType
  BY <1>1
<1>3. DOMAIN r.questions = 1 .. Len(r.questions) /\ Len(r.questions) \in Nat \ {0}
  BY <1>1
<1> QED
  BY <1>1, <1>2, <1>3, ExpandedType DEF PositionsOf

LEMMA EngineTypes ==
  ASSUME EngineTypeOK, Evaluate
  PROVE  EngineTypeOK'
<1>1. question' = question /\ image' = image
  BY DEF Evaluate, PreparePrompt, PrepareImage, EncodeImage, Prefill, ReadOut,
         BackendThrows, Check, StepTo, Raise
<1>2. positions' \in Nat
  <2>1. CASE Prefill
    <3>1. Expanded(question, image) \in Nat
      BY ExpandedType DEF EngineTypeOK
    <3> QED
      BY <2>1, <3>1 DEF Prefill, PrefillPositions, Expanded, HasImage
  <2>2. CASE ~Prefill
    <3>1. positions' = positions
      BY <2>2 DEF Evaluate, PreparePrompt, PrepareImage, EncodeImage, ReadOut,
                  BackendThrows, Check, StepTo, Raise
    <3> QED
      BY <3>1 DEF EngineTypeOK
  <2> QED
    BY <2>1, <2>2
<1> DEFINE Errors == {"none", "runtime_error", "image_decode_error"} \cup BudgetCodes
<1>3. PromptError \in Errors /\ ImageError \in Errors
  <2>1. \A count : BudgetError(count) \in Errors
    BY DEF BudgetError, BudgetCodes
  <2> HIDE DEF Errors
  <2>2. "runtime_error" \in Errors /\ "image_decode_error" \in Errors /\ "none" \in Errors
    BY DEF Errors
  <2> QED
    BY <2>1, <2>2 DEF PromptError, ImageError, RuntimeErrorIf
<1>4. thrown' \in Errors
  <2>1. thrown \in Errors
    BY DEF EngineTypeOK
  <2> HIDE DEF Errors
  <2>2. "runtime_error" \in Errors
    BY DEF Errors
  <2> QED
    BY <1>3, <2>1, <2>2 DEF Evaluate, PreparePrompt, PrepareImage, EncodeImage, Prefill,
         ReadOut, BackendThrows, Check, StepTo, Raise
<1>5. stage' \in {"image", "vision", "prefill", "readout", "returned", "threw"}
  BY DEF Evaluate, PreparePrompt, PrepareImage, EncodeImage, Prefill, ReadOut,
         BackendThrows, Check, StepTo, Raise
<1> QED
  BY <1>1, <1>2, <1>4, <1>5 DEF EngineTypeOK

LEMMA CodeStatus == \A code : StatusForCode(code) \in Statuses \ {200}
  BY DEF StatusForCode, Statuses

LEMMA IdType ==
  ASSUME IInv, Handling, pc # "send"
  PROVE  request_id \in {r.request_id : r \in Requests} \cup {NoId}
<1>1. CASE pc = "read"
  BY <1>1 DEF IInv, RequestInv
<1>2. CASE pc # "read"
  <2>1. Routed
    BY <1>2 DEF Handling, Routed
  <2> QED
    BY <2>1, RoutedFacts
<1> QED
  BY <1>1, <1>2

LEMMA ReplyTyped ==
  ASSUME IInv, Typed, Handling, pc # "send", NEW status \in Statuses, Reply(status),
         UNCHANGED engineVars
  PROVE  Typed'
<1>1. answer' \in Responses
  <2>1. <<>> \in Seq([question : Nat, positions : Nat])
    OBVIOUS
  <2> QED
    BY <2>1, IdType DEF Reply, Response, Responses
<1>2. pc' = "send" /\ UNCHANGED <<client, request_positions, stopping, clientVars, executed,
                                  received, engineVars>>
  BY DEF Reply, Go
<1> QED
  BY <1>1, <1>2 DEF Typed, TypeOK, clientVars, engineVars, EngineTypeOK

\* Steps of the environment and of the loop leave the engine and the answers alone.
LEMMA OutsideTyped ==
  ASSUME IInv, Typed,
         \/ Signal
         \/ \E c \in Clients : ClientConnects(c) \/ ClientLeaves(c)
         \/ CheckStopping \/ PollReturns \/ Interrupted \/ ListenerFails \/ Accept
         \/ UNCHANGED vars
  PROVE  Typed'
<1> USE DEF Signal, ClientConnects, ClientLeaves, CheckStopping, PollReturns, Interrupted,
            ListenerFails, Accept, AfterAccept, Go, AfterPoll, connectionVars, clientVars,
            vars
<1>1. UNCHANGED <<request, request_positions, executed, received, engineVars>>
  OBVIOUS
<1>2. pc' \in {"loop", "poll", "accept", "read", "stopped", "failed"}
        \/ UNCHANGED <<pc, answer>>
  OBVIOUS
<1>3. stopping' \in BOOLEAN /\ client' \in Clients \cup {NoClient} /\ queue' \in Seq(Clients)
  <2>0. /\ stopping \in BOOLEAN /\ client \in Clients \cup {NoClient}
        /\ queue \in Seq(Clients)
    BY DEF Typed, TypeOK
  <2>1. CASE Accept
    <3>1. Head(queue) \in Clients /\ Tail(queue) \in Seq(Clients)
      BY <2>0, <2>1
    <3> QED
      BY <2>0, <2>1, <3>1
  <2>2. CASE \E c \in Clients : ClientConnects(c) \/ ClientLeaves(c)
    BY <2>0, <2>2
  <2>3. CASE ~Accept /\ ~\E c \in Clients : ClientConnects(c) \/ ClientLeaves(c)
    <3>1. UNCHANGED <<client, queue>> /\ (stopping' = TRUE \/ stopping' = stopping)
      BY <2>3
    <3> QED
      BY <2>0, <3>1
  <2> QED
    BY <2>1, <2>2, <2>3
<1>4. state' \in [Clients -> {"away", "queued", "served", "gone"}]
  <2>1. \/ state' = state
        \/ \E c \in Clients, place \in {"queued", "served", "gone"} :
             state' = [state EXCEPT ![c] = place]
    <3>1. CASE Accept
      <4> DEFINE c == Head(queue)
                 place == IF state[c] = "queued" THEN "served" ELSE state[c]
      <4>1. queue \in Seq(Clients) /\ queue # <<>>
            /\ state \in [Clients -> {"away", "queued", "served", "gone"}]
        BY <3>1 DEF Typed, TypeOK
      <4>2. c \in Clients
        BY <4>1
      <4>3. state' = [state EXCEPT ![c] = place]
        BY <3>1
      <4> HIDE DEF c, Signal, ClientConnects, ClientLeaves, CheckStopping, PollReturns,
                   Interrupted, ListenerFails, Accept, AfterAccept, Go, AfterPoll,
                   connectionVars, clientVars, vars
      <4>4. state[c] = "away" => state' = state
        BY <4>1, <4>2, <4>3
      <4>5. state[c] # "away" => place \in {"queued", "served", "gone"}
        BY <4>1, <4>2
      <4>6. CASE state[c] = "away"
        BY <4>4, <4>6
      <4>7. CASE state[c] # "away"
        <5> HIDE DEF place
        <5> QED
          BY <4>2, <4>3, <4>5, <4>7
      <4> QED
        BY <4>6, <4>7
    <3>2. CASE \E c \in Clients : ClientConnects(c) \/ ClientLeaves(c)
      BY <3>2
    <3>3. CASE ~Accept /\ ~\E c \in Clients : ClientConnects(c) \/ ClientLeaves(c)
      BY <3>3
    <3> QED
      BY <3>1, <3>2, <3>3
  <2> HIDE DEF Signal, ClientConnects, ClientLeaves, CheckStopping, PollReturns, Interrupted,
               ListenerFails, Accept, AfterAccept, Go, AfterPoll, connectionVars, clientVars,
               vars
  <2>2. state \in [Clients -> {"away", "queued", "served", "gone"}]
    BY DEF Typed, TypeOK
  <2> QED
    BY <2>1, <2>2
<1> HIDE DEF Signal, ClientConnects, ClientLeaves, CheckStopping, PollReturns, Interrupted,
             ListenerFails, Accept, AfterAccept, Go, AfterPoll, connectionVars, clientVars,
             vars
<1>5. EngineTypeOK'
  BY <1>1 DEF Typed, TypeOK, EngineTypeOK, engineVars
<1> QED
  BY <1>1, <1>2, <1>3, <1>4, <1>5 DEF Typed, TypeOK

LEMMA HandleTyped ==
  ASSUME IInv, Typed, Handle
  PROVE  Typed'
<1>1. CASE ReadAbandoned
  <2>1. 400 \in Statuses
    BY DEF Statuses
  <2> QED
    BY <1>1, <2>1, ReplyTyped DEF ReadAbandoned, Handling
<1>2. CASE ReadAndRoute
  <2>1. CASE RouteStatus(current) # 0
    <3>1. current \in Requests
      BY <1>2 DEF ReadAndRoute, IInv, Places, Shape, InHandInv, Handling, current
    <3>2. RouteStatus(current) \in Statuses
      BY <2>1, <3>1 DEF RouteStatus, Statuses
    <3> QED
      BY <1>2, <2>1, <3>2, ReplyTyped DEF ReadAndRoute, Handling
  <2>2. CASE RouteStatus(current) = 0
    BY <1>2, <2>2 DEF ReadAndRoute, Go, Typed, TypeOK, clientVars, engineVars, EngineTypeOK
  <2> QED
    BY <2>1, <2>2
<1>3. CASE Parse
  <2>1. CASE ParseStatus(current) # 0
    <3>1. ParseStatus(current) \in Statuses
      <4>1. 413 \in Statuses
        BY DEF Statuses
      <4> QED
        BY <2>1, <4>1, CodeStatus DEF ParseStatus
    <3> QED
      BY <1>3, <2>1, <3>1, ReplyTyped DEF Parse, Handling
  <2>2. CASE ParseStatus(current) = 0
    <3>1. 0 \in 0 .. MaxRequestPositions
      BY ServerAssumption
    <3> QED
      BY <1>3, <2>2, <3>1 DEF Parse, Go, Typed, TypeOK, clientVars, engineVars, EngineTypeOK
  <2> QED
    BY <2>1, <2>2
<1>4. CASE Preflight
  <2>1. CASE PreflightError # "none"
    BY <1>4, <2>1, CodeStatus, ReplyTyped DEF Preflight, Handling
  <2>2. CASE PreflightError = "none"
    <3>1. Expanded(current.questions[index], current.image) <= RequestRoom
          /\ Expanded(current.questions[index], current.image) \in Nat
      <4>1. ~(Expanded(current.questions[index], current.image) > RequestRoom)
        BY <2>2 DEF PreflightError
      <4>2. current \in Requests /\ current.body = "ok"
            /\ index \in 1 .. Len(current.questions)
        BY <1>4, RoutedFacts DEF Preflight, Routed, IInv, RequestInv
      <4>3. Expanded(current.questions[index], current.image) \in Nat
        BY <4>2, PositionsType
      <4>4. RequestRoom \in Int
        BY ServerAssumption DEF RequestRoom, Typed, TypeOK
      <4> QED
        BY <4>1, <4>3, <4>4
    <3>2. request_positions' \in 0 .. MaxRequestPositions
      <4>1. request_positions' =
              request_positions + Expanded(current.questions[index], current.image)
        BY <1>4, <2>2 DEF Preflight
      <4>2. request_positions \in 0 .. MaxRequestPositions
        BY DEF Typed, TypeOK
      <4> QED
        BY <3>1, <4>1, <4>2, ServerAssumption DEF RequestRoom
    <3>3. pc' \in {"preflight", "evaluate"}
          /\ UNCHANGED <<client, stopping, clientVars, executed, received, engineVars>>
      BY <1>4, <2>2 DEF Preflight, AfterPreflight, Go
    <3> QED
      BY <3>2, <3>3 DEF Typed, TypeOK, clientVars, engineVars, EngineTypeOK
  <2> QED
    BY <2>1, <2>2
<1>5. CASE CallEvaluate
  <2>1. current \in Requests /\ current.body = "ok" /\ index \in 1 .. Len(current.questions)
    BY <1>5, RoutedFacts DEF CallEvaluate, Routed, IInv, RequestInv
  <2>2. current.questions[index] \in QuestionType
        /\ current.image \in ImageType \cup {NoImage}
    BY <2>1, PositionsType
  <2>3. EngineTypeOK'
    BY <1>5, <2>2 DEF CallEvaluate, Call, EngineTypeOK
  <2>4. pc' = "engine" /\ UNCHANGED <<client, request_positions, stopping, clientVars,
                                      executed, received>>
    BY <1>5 DEF CallEvaluate, Go, connectionVars
  <2> QED
    BY <2>3, <2>4 DEF Typed, TypeOK, clientVars
<1>6. CASE EngineRuns
  <2>1. EngineTypeOK'
    BY <1>6, EngineTypes DEF EngineRuns, Typed, TypeOK
  <2>2. executed' \in [Clients -> Nat]
    <3>1. executed' = executed \/ executed' = [executed EXCEPT ![client] = @ + 1]
      BY <1>6 DEF EngineRuns
    <3>2. executed \in [Clients -> Nat]
      BY DEF Typed, TypeOK
    <3> QED
      BY <3>1, <3>2
  <2>3. UNCHANGED <<pc, client, request_positions, stopping, clientVars, received>>
        /\ pc = "engine"
    BY <1>6 DEF EngineRuns, connectionVars
  <2> QED
    BY <2>1, <2>2, <2>3 DEF Typed, TypeOK, clientVars
<1>7. CASE EngineReturns
  BY <1>7 DEF EngineReturns, AfterEvaluate, Go, Typed, TypeOK, clientVars, engineVars,
              EngineTypeOK
<1>8. CASE EngineThrows
  BY <1>8, CodeStatus, ReplyTyped DEF EngineThrows, Handling
<1>9. CASE Respond
  <2>1. CASE Reply(500)
    <3>1. 500 \in Statuses
      BY DEF Statuses
    <3> QED
      BY <1>9, <2>1, <3>1, ReplyTyped DEF Respond, Handling
  <2>2. CASE ~Reply(500)
    <3>1. /\ answer' = Response(200, results) /\ pc' = "send"
          /\ UNCHANGED <<client, request_positions, stopping, clientVars, executed, received,
                         engineVars>>
      BY <1>9, <2>2 DEF Respond, Go
    <3>2. results \in AnswersType
      <4>1. current \in Requests /\ current.body = "ok"
            /\ results = AnswersTo(client, Len(current.questions))
        BY <1>9, RoutedFacts DEF Respond, Routed, IInv, RequestInv
      <4>2. \A i \in 1 .. Len(current.questions) :
              Expanded(current.questions[i], current.image) \in Nat
        BY <4>1, PositionsType
      <4>3. Len(current.questions) \in Nat
        BY <4>1, PositionsType
      <4> QED
        BY <4>1, <4>2, <4>3 DEF AnswersTo, Answers, AnswersType, current
    <3>3. 200 \in Statuses /\ request_id \in {r.request_id : r \in Requests} \cup {NoId}
      BY <1>9, IdType DEF Respond, Handling, Statuses
    <3>4. answer' \in Responses
      BY <3>1, <3>2, <3>3 DEF Response, Responses, AnswersType
    <3> QED
      BY <3>1, <3>4 DEF Typed, TypeOK, clientVars, engineVars, EngineTypeOK
  <2> QED
    BY <2>1, <2>2
<1>10. CASE Send
  <2>1. received' \in [Clients -> Seq(Responses)]
    <3>1. answer \in Responses /\ received \in [Clients -> Seq(Responses)]
      BY <1>10 DEF Send, Typed, TypeOK
    <3> HIDE DEF Responses
    <3>2. \A c \in Clients : Append(received[c], answer) \in Seq(Responses)
      BY <3>1
    <3> QED
      BY <1>10, <3>1, <3>2 DEF Send
  <2>2. pc' = "loop" /\ client' = NoClient
        /\ UNCHANGED <<request_positions, stopping, clientVars, executed, engineVars>>
    BY <1>10 DEF Send
  <2> QED
    BY <2>1, <2>2 DEF Typed, TypeOK, clientVars, engineVars, EngineTypeOK
<1> QED
  BY <1>1, <1>2, <1>3, <1>4, <1>5, <1>6, <1>7, <1>8, <1>9, <1>10 DEF Handle

LEMMA InitTyped == Init => Typed
<1> SUFFICES ASSUME Init PROVE Typed
  OBVIOUS
<1>1. request_positions \in 0 .. MaxRequestPositions
  BY ServerAssumption DEF Init
<1>2. EngineTypeOK
  BY DEF Init, EngineInit, EngineTypeOK, QuestionType
<1>3. received \in [Clients -> Seq(Responses)] /\ queue \in Seq(Clients)
  BY DEF Init
<1> QED
  BY <1>1, <1>2, <1>3 DEF Init, Typed, TypeOK

LEMMA TypedStep == IInv /\ Typed /\ [Next]_vars => Typed'
<1> SUFFICES ASSUME IInv, Typed, [Next]_vars PROVE Typed'
  OBVIOUS
<1>1. CASE Handle
  BY <1>1, HandleTyped
<1>2. CASE ~Handle
  BY <1>2, OutsideTyped DEF Next, Server, Progress, Ended
<1> QED
  BY <1>1, <1>2

LEMMA TypedAlways == Spec => [](IInv /\ Typed)
<1>1. Spec => []Typed
  BY InitTyped, TypedStep, Invariance, PTL DEF Spec
<1> QED
  BY <1>1, Invariance, PTL

\* Every variable of the server keeps its type: the positions of a request never exceed
\* its budget, a status is one the server has, and the engine is left in a state that it
\* can be called in again.
THEOREM TypeCorrect == Spec => []TypeOK
<1>1. Typed => TypeOK
  BY DEF Typed
<1> QED
  BY <1>1, TypedAlways, PTL

\* ---- what a request deserves ----------------------------------------------------

\* The questions before the one in turn have passed the preflight and are counted.
Preflighted ==
  /\ request_positions = SumOfFirst(PositionsOf(current), index - 1)
  /\ \A i \in 1 .. index - 1 : EstimateError(current.questions[i], current.image) = "none"

\* Within the budgets, the engine throws only for the image or an internal error.
MayThrow(r, code) ==
  \/ code = "runtime_error"
  \/ code = "image_decode_error" /\ r.image # NoImage /\ ~r.image.decodes

Decoded(r) == r.image = NoImage \/ r.image.decodes

InTurnInv ==
  /\ pc \in {"preflight", "evaluate", "engine", "respond"} => ParseStatus(current) = 0
  /\ pc = "preflight" => Preflighted
  /\ pc \in {"evaluate", "engine", "respond"} => WithinBudgets(current)
  /\ pc = "engine" /\ stage = "image" => HasImage
  /\ pc = "engine" /\ stage \in {"vision", "prefill", "readout", "returned"} =>
       Decoded(current)
  /\ pc = "respond" => Decoded(current)
  /\ pc = "engine" /\ stage = "threw" => MayThrow(current, thrown)
  /\ pc = "send" /\ state[client] # "gone" => answer.status \in AnswerStatuses(current)

RepliesInv ==
  \A c \in Clients : \A i \in DOMAIN received[c] :
    received[c][i].status \in AnswerStatuses(request[c])

DueInv == InTurnInv /\ PreflightBeforeInference /\ RepliesInv

LEMMA ClientInHand ==
  ASSUME IInv, Handling
  PROVE  client \in Clients /\ current \in Requests /\ current = request[client]
  BY DEF IInv, Places, Shape, InHandInv, current

\* Only a step of the connection in hand can change what is due.
LEMMA RestStays ==
  ASSUME DueInv, UNCHANGED <<request, executed, received>>, InTurnInv'
  PROVE  DueInv'
<1>1. PreflightBeforeInference'
  BY DEF DueInv, PreflightBeforeInference
<1>2. RepliesInv'
  BY DEF DueInv, RepliesInv
<1> QED
  BY <1>1, <1>2 DEF DueInv

LEMMA OutsideDue ==
  ASSUME IInv, Typed, DueInv,
         \/ Signal
         \/ \E c \in Clients : ClientConnects(c) \/ ClientLeaves(c)
         \/ CheckStopping \/ PollReturns \/ Interrupted \/ ListenerFails \/ Accept
         \/ UNCHANGED vars
  PROVE  DueInv'
<1> USE DEF Signal, ClientConnects, ClientLeaves, CheckStopping, PollReturns, Interrupted,
            ListenerFails, Accept, AfterAccept, Go, AfterPoll, connectionVars, clientVars,
            vars
<1>1. UNCHANGED <<request, executed, received, stage, thrown>> /\ (HasImage' <=> HasImage)
  BY DEF engineVars, HasImage
<1>2. CASE pc' \in {"loop", "poll", "accept", "read", "stopped", "failed"}
  BY <1>1, <1>2, RestStays DEF InTurnInv
<1>3. CASE UNCHANGED <<pc, connectionVars>>
  <2>1. Handling /\ state'[client] # "gone" => state[client] # "gone"
    BY <1>3 DEF IInv, Places, Shape, InHandInv, Handling
  <2>2. current' = current
    BY <1>1, <1>3 DEF current
  <2> HIDE DEF Signal, ClientConnects, ClientLeaves, CheckStopping, PollReturns, Interrupted,
               ListenerFails, Accept, AfterAccept, Go, AfterPoll, clientVars, vars
  <2>3. InTurnInv'
    BY <1>1, <1>3, <2>1, <2>2 DEF DueInv, InTurnInv, Preflighted, MayThrow, Handling
  <2> QED
    BY <1>1, <2>3, RestStays
<1> QED
  BY <1>2, <1>3

LEMMA ReplyDue ==
  ASSUME IInv, DueInv, Handling, NEW status, Reply(status), UNCHANGED engineVars,
         state[client] # "gone" => status \in AnswerStatuses(current)
  PROVE  DueInv'
<1>1. /\ UNCHANGED <<request, executed, received, client, state>>
      /\ pc' = "send" /\ answer'.status = status
  BY DEF Reply, Response, Go, clientVars
<1>2. InTurnInv'
  BY <1>1 DEF InTurnInv, current
<1> QED
  BY <1>1, <1>2, RestStays

\* ---- the sum of a request -------------------------------------------------------

\* Once its questions have been counted, a request is within its budget; a question
\* that exceeds what is left shows that it is not.
LEMMA CountedInTurn ==
  ASSUME IInv, Typed, DueInv, pc = "preflight"
  PROVE  LET f == PositionsOf(current)
             n == Len(current.questions)
         IN  /\ index \in 1 .. n /\ n \in Nat
             /\ f[index] = Expanded(current.questions[index], current.image)
             /\ f[index] \in Nat
             /\ SumOfFirst(f, index - 1) = request_positions
             /\ SumOfFirst(f, index) = request_positions + f[index]
             /\ SumOfFirst(f, index) <= SumOfFirst(f, n)
             /\ SumOfFirst(f, n) = SumOf(f)
             /\ SumOfFirst(f, n) \in Nat
<1> DEFINE f == PositionsOf(current)
           n == Len(current.questions)
<1>1. current \in Requests /\ current.body = "ok" /\ index \in 1 .. n
  BY RoutedFacts DEF Routed, IInv, RequestInv
<1>2. DOMAIN f = 1 .. n /\ n \in Nat \ {0} /\ \A i \in 1 .. n : f[i] \in Nat
      /\ f[index] = Expanded(current.questions[index], current.image)
  BY <1>1, PositionsType
<1>3. SumOfFirst(f, index - 1) = request_positions
  BY DEF DueInv, InTurnInv, Preflighted
<1>4. f = [i \in 1 .. n |-> f[i]]
  BY <1>2 DEF PositionsOf
<1> HIDE DEF f, n
<1>5. SumOfFirst(f, index) = SumOfFirst(f, index - 1) + f[index]
  <2>1. index - 1 \in Nat /\ (index - 1) + 1 = index
        /\ \A i \in 1 .. (index - 1) + 1 : f[i] \in Nat
    BY <1>1, <1>2
  <2>2. SumOfFirst(f, (index - 1) + 1) = SumOfFirst(f, index - 1) + f[(index - 1) + 1]
    BY <2>1, FirstAdd
  <2> QED
    BY <2>1, <2>2
<1>6. SumOfFirst(f, index) <= SumOfFirst(f, n) /\ SumOfFirst(f, n) \in Nat
  BY <1>1, <1>2, FirstMonotone, FirstType
<1>7. SumOfFirst(f, n) = SumOf(f)
  BY <1>4 DEF SumOfFirst
<1> QED
  BY <1>1, <1>2, <1>3, <1>5, <1>6, <1>7 DEF f, n

LEMMA PreflightDue ==
  ASSUME IInv, Typed, DueInv, Preflight
  PROVE  DueInv'
<1> DEFINE f == PositionsOf(current)
           q == current.questions[index]
           n == Len(current.questions)
<1>1. pc = "preflight" /\ Handling /\ current \in Requests /\ current.body = "ok"
      /\ RouteStatus(current) = 0 /\ ParseStatus(current) = 0
  BY RoutedFacts DEF Preflight, Routed, IInv, RequestInv, DueInv, InTurnInv
<1>2. /\ index \in 1 .. n /\ n \in Nat
      /\ f[index] = Expanded(q, current.image) /\ f[index] \in Nat
      /\ SumOfFirst(f, index) = request_positions + f[index]
      /\ SumOfFirst(f, index) <= SumOf(f) /\ SumOf(f) \in Nat
      /\ SumOfFirst(f, n) = SumOf(f)
  BY <1>1, CountedInTurn
<1>3. request_positions \in 0 .. MaxRequestPositions /\ MaxRequestPositions \in Nat
  BY ServerAssumption DEF Typed, TypeOK
<1>4. \A i \in 1 .. n : current.questions[i] \in Range(current.questions)
  <2>1. DOMAIN current.questions = 1 .. n
    BY <1>1
  <2> QED
    BY <2>1 DEF Range
<1>5. CASE PreflightError # "none"
  <2>1. ~WithinBudgets(current)
    <3>1. CASE EstimateError(q, current.image) # "none"
      BY <1>2, <1>4, <3>1 DEF WithinBudgets
    <3>2. CASE EstimateError(q, current.image) = "none"
      <4>1. f[index] > MaxRequestPositions - request_positions
        BY <1>2, <1>5, <3>2 DEF PreflightError, RequestRoom
      <4>2. SumOf(f) > MaxRequestPositions
        <5> HIDE DEF f
        <5> QED
          BY <1>2, <1>3, <4>1
      <4>3. ~(SumOf(f) <= MaxRequestPositions)
        <5> HIDE DEF f
        <5> QED
          BY <1>2, <1>3, <4>2
      <4> QED
        BY <4>3 DEF WithinBudgets
    <3> QED
      BY <3>1, <3>2
  <2>2. PreflightError \in {"runtime_error", "request_token_budget_exceeded"} \cup BudgetCodes
        /\ (PreflightError = "runtime_error" => ~q.valid)
    BY <1>5 DEF PreflightError, EstimateError, BudgetError, BudgetCodes
  <2>3. StatusForCode(PreflightError) \in {413, 500}
        /\ (StatusForCode(PreflightError) = 500 => PreflightError = "runtime_error")
    BY <2>2 DEF StatusForCode, BudgetCodes
  <2>4. (\A p \in Range(current.questions) : p.valid) => StatusForCode(PreflightError) = 413
    BY <1>2, <1>4, <2>2, <2>3
  <2>5. StatusForCode(PreflightError) \in AnswerStatuses(current)
    BY <1>1, <2>1, <2>3, <2>4 DEF AnswerStatuses
  <2> QED
    BY <1>1, <1>5, <2>5, ReplyDue DEF Preflight
<1>6. CASE PreflightError = "none"
  <2>1. EstimateError(q, current.image) = "none"
        /\ ~(Expanded(q, current.image) > MaxRequestPositions - request_positions)
    BY <1>6 DEF PreflightError, RequestRoom
  <2>2. SumOfFirst(f, index) <= MaxRequestPositions
    <3> HIDE DEF f
    <3> QED
      BY <1>2, <1>3, <2>1
  <2>3. \A i \in 1 .. index : EstimateError(current.questions[i], current.image) = "none"
    <3>1. \A i \in 1 .. index - 1 :
            EstimateError(current.questions[i], current.image) = "none"
      BY <1>1 DEF DueInv, InTurnInv, Preflighted
    <3>2. \A i \in 1 .. index : i \in 1 .. index - 1 \/ i = index
      BY <1>2
    <3> QED
      BY <2>1, <3>1, <3>2
  <2>4. /\ UNCHANGED <<request, executed, received, client, engineVars>> /\ current' = current
        /\ request_positions' = SumOfFirst(f, index)
        /\ index' = IF AfterPreflight = "evaluate" THEN 1 ELSE index + 1
        /\ pc' = AfterPreflight
    BY <1>2, <1>6 DEF Preflight, Go, clientVars, current
  <2>5. CASE index = n
    <3>1. WithinBudgets(current)
      <4>1. \A p \in Range(current.questions) :
              EstimateError(p, current.image) = "none"
        <5>1. DOMAIN current.questions = 1 .. n
          BY <1>1
        <5> QED
          BY <2>3, <2>5, <5>1 DEF Range
      <4>2. SumOf(f) <= MaxRequestPositions
        BY <1>2, <2>2, <2>5
      <4> QED
        BY <4>1, <4>2 DEF WithinBudgets
    <3>2. pc' = "evaluate"
      BY <2>4, <2>5 DEF AfterPreflight
    <3>3. InTurnInv'
      BY <1>1, <2>4, <3>1, <3>2 DEF InTurnInv
    <3> QED
      BY <2>4, <3>3, RestStays
  <2>6. CASE index # n
    <3>1. pc' = "preflight" /\ index' = index + 1
      BY <2>4, <2>6 DEF AfterPreflight
    <3>2. index' - 1 = index
      BY <1>2, <3>1
    <3>3. Preflighted'
      BY <2>3, <2>4, <3>2 DEF Preflighted
    <3>4. InTurnInv'
      BY <1>1, <2>4, <3>1, <3>3 DEF InTurnInv
    <3> QED
      BY <2>4, <3>4, RestStays
  <2> QED
    BY <2>5, <2>6
<1> QED
  BY <1>5, <1>6

\* ---- the engine, and the answer ---------------------------------------------------

\* The prompt alone, without its image, is within a budget that the whole is within.
LEMMA BudgetOfLess ==
  ASSUME NEW m \in Nat, NEW n \in Nat, m <= n, BudgetError(n) = "none"
  PROVE  BudgetError(m) = "none"
<1>1. ~(n > ContextLength) /\ ~(n > MaxPrefillPositions)
  BY DEF BudgetError
<1>2. ~(m > ContextLength) /\ ~(m > MaxPrefillPositions)
  BY <1>1, PositionsAssumption
<1> QED
  BY <1>2 DEF BudgetError

\* After the preflight the checks of the engine find no budget exceeded.
LEMMA EngineAfterPreflight ==
  ASSUME IInv, Typed, DueInv, pc = "engine"
  PROVE  /\ PromptError \in {"none", "runtime_error"}
         /\ HasImage => ImageError \in {"none", "image_decode_error"}
         /\ HasImage /\ ImageError = "image_decode_error" => ~image.decodes
         /\ image = current.image
<1>1. question = current.questions[index] /\ image = current.image
      /\ index \in 1 .. Len(current.questions)
      /\ current \in Requests /\ current.body = "ok" /\ WithinBudgets(current)
  BY RoutedFacts DEF Routed, IInv, RequestInv, EngineInv, DueInv, InTurnInv
<1>2. question \in QuestionType /\ image \in ImageType \cup {NoImage}
  BY <1>1, PositionsType
<1>3. EstimateError(question, image) = "none"
  <2>1. question \in Range(current.questions)
    <3>1. DOMAIN current.questions = 1 .. Len(current.questions)
      BY <1>1
    <3> QED
      BY <1>1, <3>1 DEF Range
  <2> QED
    BY <1>1, <2>1 DEF WithinBudgets
<1>4. question.valid /\ BudgetError(Expanded(question, image)) = "none"
  BY <1>3 DEF EstimateError, BudgetError
<1>5. BudgetError(question.ids) = "none"
  BY <1>2, <1>4, ExpandedType, BudgetOfLess
<1>6. PromptError \in {"none", "runtime_error"}
  BY <1>4, <1>5 DEF PromptError, RuntimeErrorIf
<1>7. ASSUME HasImage
      PROVE  ImageError = IF ~image.decodes THEN "image_decode_error" ELSE "none"
  <2>1. Expanded(question, image) = (question.ids - 1) + image.visual
    BY <1>7 DEF HasImage, Expanded
  <2> QED
    BY <1>4, <2>1 DEF ImageError
<1> QED
  BY <1>1, <1>6, <1>7

LEMMA EngineDue ==
  ASSUME IInv, Typed, DueInv, EngineRuns
  PROVE  DueInv'
<1>1. pc = "engine" /\ WithinBudgets(current) /\ ParseStatus(current) = 0
      /\ client \in Clients /\ current = request[client]
  BY ClientInHand DEF EngineRuns, DueInv, InTurnInv, Handling
<1>2. UNCHANGED <<pc, request, client, state, answer, received, index>> /\ current' = current
  BY DEF EngineRuns, connectionVars, clientVars, current
<1>3. stage' = "threw" => MayThrow(current, thrown')
  <2>1. CASE PreparePrompt
    BY <1>1, <2>1, EngineAfterPreflight DEF PreparePrompt, Check, StepTo, Raise, MayThrow
  <2>2. CASE PrepareImage
    <3>1. HasImage
      BY <1>1, <2>2 DEF DueInv, InTurnInv, PrepareImage
    <3> QED
      BY <1>1, <2>2, <3>1, EngineAfterPreflight
         DEF PrepareImage, Check, StepTo, Raise, MayThrow, HasImage
  <2>3. CASE EncodeImage \/ Prefill \/ ReadOut \/ BackendThrows
    BY <2>3 DEF EncodeImage, Prefill, ReadOut, BackendThrows, StepTo, Raise, MayThrow
  <2> QED
    BY <2>1, <2>2, <2>3 DEF EngineRuns, Evaluate
<1>4. InTurnInv'
  <2>1. stage' = "image" => HasImage'
    BY DEF EngineRuns, Evaluate, PreparePrompt, PrepareImage, EncodeImage, Prefill, ReadOut,
           BackendThrows, Check, StepTo, Raise, HasImage
  <2>2. stage' \in {"vision", "prefill", "readout", "returned"} => Decoded(current)
    <3>1. CASE PreparePrompt
      BY <1>1, <3>1, EngineAfterPreflight
         DEF PreparePrompt, Check, StepTo, Raise, HasImage, Decoded
    <3>2. CASE PrepareImage
      BY <1>1, <3>2, EngineAfterPreflight
         DEF PrepareImage, Check, StepTo, Raise, ImageError, Decoded
    <3>3. CASE EncodeImage \/ Prefill \/ ReadOut \/ BackendThrows
      BY <1>1, <3>3
         DEF EncodeImage, Prefill, ReadOut, BackendThrows, StepTo, Raise, DueInv, InTurnInv
    <3> QED
      BY <3>1, <3>2, <3>3 DEF EngineRuns, Evaluate
  <2> QED
    BY <1>1, <1>2, <1>3, <2>1, <2>2 DEF InTurnInv
<1>5. PreflightBeforeInference'
  <2>1. \A c \in Clients : c # client => executed'[c] = executed[c]
    BY DEF EngineRuns, Typed, TypeOK
  <2> QED
    BY <1>1, <1>2, <2>1 DEF DueInv, PreflightBeforeInference
<1>6. RepliesInv'
  BY <1>2 DEF DueInv, RepliesInv
<1> QED
  BY <1>4, <1>5, <1>6 DEF DueInv

LEMMA HandleDue ==
  ASSUME IInv, Typed, DueInv, Handle
  PROVE  DueInv'
<1>1. CASE ReadAbandoned
  BY <1>1, ReplyDue DEF ReadAbandoned, Handling
<1>2. CASE ReadAndRoute
  <2>1. CASE RouteStatus(current) # 0
    <3>1. RouteStatus(current) \in AnswerStatuses(current)
      BY <2>1 DEF AnswerStatuses
    <3> QED
      BY <1>2, <2>1, <3>1, ReplyDue DEF ReadAndRoute, Handling
  <2>2. CASE RouteStatus(current) = 0
    <3>1. pc' = "parse" /\ UNCHANGED <<request, executed, received>>
      BY <1>2, <2>2 DEF ReadAndRoute, Go, clientVars
    <3>2. InTurnInv'
      BY <3>1 DEF InTurnInv
    <3> QED
      BY <3>1, <3>2, RestStays
  <2> QED
    BY <2>1, <2>2
<1>3. CASE Parse
  <2>0. RouteStatus(current) = 0
    BY <1>3, RoutedFacts DEF Parse, Routed
  <2>1. CASE ParseStatus(current) # 0
    <3>1. ParseStatus(current) \in AnswerStatuses(current)
      BY <2>0, <2>1 DEF AnswerStatuses
    <3> QED
      BY <1>3, <2>1, <3>1, ReplyDue DEF Parse, Handling
  <2>2. CASE ParseStatus(current) = 0
    <3>1. pc' = "preflight" /\ index' = 1 /\ request_positions' = 0 /\ current' = current
          /\ UNCHANGED <<request, executed, received>>
      BY <1>3, <2>2 DEF Parse, Go, clientVars, current
    <3>2. Preflighted'
      BY <3>1, FirstNone DEF Preflighted
    <3>3. InTurnInv'
      BY <2>2, <3>1, <3>2 DEF InTurnInv
    <3> QED
      BY <3>1, <3>3, RestStays
  <2> QED
    BY <2>1, <2>2
<1>4. CASE Preflight
  BY <1>4, PreflightDue
<1>5. CASE CallEvaluate
  <2>1. pc = "evaluate" /\ pc' = "engine" /\ stage' = "prompt" /\ current' = current
        /\ UNCHANGED <<request, executed, received>>
    BY <1>5 DEF CallEvaluate, Call, Go, connectionVars, clientVars, current
  <2>2. InTurnInv'
    BY <2>1 DEF DueInv, InTurnInv
  <2> QED
    BY <2>1, <2>2, RestStays
<1>6. CASE EngineRuns
  BY <1>6, EngineDue
<1>7. CASE EngineReturns
  <2>1. /\ pc = "engine" /\ stage = "returned" /\ pc' \in {"evaluate", "respond"}
        /\ current' = current /\ UNCHANGED <<request, executed, received>>
    BY <1>7 DEF EngineReturns, AfterEvaluate, Go, clientVars, current
  <2>2. InTurnInv'
    BY <2>1 DEF DueInv, InTurnInv
  <2> QED
    BY <2>1, <2>2, RestStays
<1>8. CASE EngineThrows
  <2>1. MayThrow(current, thrown) /\ WithinBudgets(current) /\ ParseStatus(current) = 0
        /\ RouteStatus(current) = 0
    BY <1>8, RoutedFacts DEF EngineThrows, Routed, DueInv, InTurnInv
  <2>2. StatusForCode(thrown) \in AnswerStatuses(current)
    BY <2>1 DEF MayThrow, StatusForCode, AnswerStatuses, BudgetCodes
  <2> QED
    BY <1>8, <2>2, ReplyDue DEF EngineThrows, Handling
<1>9. CASE Respond
  <2>1. WithinBudgets(current) /\ ParseStatus(current) = 0 /\ RouteStatus(current) = 0
    BY <1>9, RoutedFacts DEF Respond, Routed, DueInv, InTurnInv
  <2>2. CASE Reply(500)
    <3>1. 500 \in AnswerStatuses(current)
      BY <2>1 DEF AnswerStatuses
    <3> QED
      BY <1>9, <2>2, <3>1, ReplyDue DEF Respond, Handling
  <2>3. CASE ~Reply(500)
    <3>1. answer' = Response(200, results) /\ pc' = "send" /\ current' = current
          /\ UNCHANGED <<request, executed, received>>
      BY <1>9, <2>3 DEF Respond, Go, clientVars, current
    <3>2. 200 \in AnswerStatuses(current)
      BY <1>9, <2>1 DEF Respond, DueInv, InTurnInv, Decoded, AnswerStatuses
    <3>3. answer'.status = 200
      BY <3>1 DEF Response
    <3>4. InTurnInv'
      BY <3>1, <3>2, <3>3 DEF InTurnInv
    <3> QED
      BY <3>1, <3>4, RestStays
  <2> QED
    BY <2>2, <2>3
<1>10. CASE Send
  <2>1. pc = "send" /\ pc' = "loop" /\ client \in Clients /\ UNCHANGED <<request, executed>>
        /\ current = request[client] /\ received[client] = <<>>
    BY <1>10, ClientInHand DEF Send, Handling, clientVars, IInv, Places, InHandInv
  <2>2. InTurnInv'
    BY <2>1 DEF InTurnInv
  <2>3. PreflightBeforeInference'
    BY <2>1 DEF DueInv, PreflightBeforeInference
  <2>4. RepliesInv'
    <3> SUFFICES ASSUME NEW c \in Clients, NEW i \in DOMAIN received'[c]
                 PROVE  received'[c][i].status \in AnswerStatuses(request[c])
      BY <2>1 DEF RepliesInv
    <3>1. CASE received'[c] = received[c]
      BY <3>1 DEF DueInv, RepliesInv
    <3>2. CASE received'[c] # received[c]
      <4>1. c = client /\ state[client] # "gone"
            /\ received'[c] = Append(received[c], answer)
        BY <1>10, <3>2 DEF Send, Typed, TypeOK
      <4>2. received'[c] = <<answer>>
        BY <2>1, <4>1, AppendOne
      <4>3. i = 1 /\ received'[c][i] = answer
        BY <4>2
      <4> QED
        BY <2>1, <4>1, <4>3 DEF DueInv, InTurnInv
    <3> QED
      BY <3>1, <3>2
  <2> QED
    BY <2>2, <2>3, <2>4 DEF DueInv
<1> QED
  BY <1>1, <1>2, <1>3, <1>4, <1>5, <1>6, <1>7, <1>8, <1>9, <1>10 DEF Handle

LEMMA InitDue == Init => DueInv
<1> SUFFICES ASSUME Init PROVE DueInv
  OBVIOUS
<1>1. InTurnInv
  BY DEF Init, InTurnInv
<1>2. PreflightBeforeInference
  <2>1. \A c \in Clients : executed[c] = 0
    BY DEF Init
  <2>2. \A c \in Clients : ~(executed[c] > 0)
    BY <2>1
  <2> QED
    BY <2>2 DEF PreflightBeforeInference
<1>3. RepliesInv
  <2>1. \A c \in Clients : DOMAIN received[c] = {}
    BY DEF Init
  <2> QED
    BY <2>1 DEF RepliesInv
<1> QED
  BY <1>1, <1>2, <1>3 DEF DueInv

LEMMA DueStep == IInv /\ Typed /\ DueInv /\ [Next]_vars => DueInv'
<1> SUFFICES ASSUME IInv, Typed, DueInv, [Next]_vars PROVE DueInv'
  OBVIOUS
<1>1. CASE Handle
  BY <1>1, HandleDue
<1>2. CASE ~Handle
  BY <1>2, OutsideDue DEF Next, Server, Progress, Ended
<1> QED
  BY <1>1, <1>2

LEMMA DueAlways == Spec => []DueInv
  BY InitDue, DueStep, TypedAlways, PTL DEF Spec

\* handle_connection preflights every question before it evaluates the first: what
\* reached the backend was within each budget, and so was the sum of its request.
THEOREM NothingRunsUnchecked == Spec => []PreflightBeforeInference
<1>1. DueInv => PreflightBeforeInference
  BY DEF DueInv
<1> QED
  BY <1>1, DueAlways, PTL

\* Every answer has a status its own request deserves and that request's id, and a success
\* of /v1/systemone answers every question of it, in order, each with the positions the
\* preflight counted.
THEOREM EveryAnswerIsOwn == Spec => []AnswersAreOwn
<1>1. IInv /\ DueInv => AnswersAreOwn
  <2> SUFFICES ASSUME IInv, DueInv, NEW c \in Clients, NEW reply \in Range(received[c])
               PROVE  /\ reply.status \in AnswerStatuses(request[c])
                      /\ OwnId(request[c], reply)
                      /\ Success(request[c], reply) =>
                           reply.answers = Answers(request[c], Len(request[c].questions))
    BY DEF AnswersAreOwn
  <2>1. reply.status \in AnswerStatuses(request[c])
    BY DEF DueInv, RepliesInv, Range
  <2>2. Complete(c, reply) /\ CarriesOwnId(c, reply)
    BY RepliesRight
  <2> QED
    BY <2>1, <2>2 DEF Complete, CarriesOwnId, AnswersTo
<1> QED
  BY <1>1, Invariance, DueAlways, PTL

\* ---- the service it implements --------------------------------------------------

\* The connection in hand has run as many questions as it has come to; one that has not
\* had its turn has run none.
RunsInv ==
  /\ ~Handling => client = NoClient
  /\ \A c \in Clients : state[c] = "away" => executed[c] = 0
  /\ \A i \in DOMAIN queue : executed[queue[i]] = 0
  /\ pc \in {"read", "parse", "preflight"} => executed[client] = 0
  /\ pc = "evaluate" => executed[client] = index - 1
  /\ pc = "engine" /\ stage \in {"prompt", "image"} => executed[client] = index - 1
  /\ pc = "engine" /\ (Executing \/ stage = "returned") => executed[client] = index
  /\ pc = "respond" => executed[client] = Len(current.questions)
  /\ pc = "send" /\ Success(current, answer) => executed[client] = Len(current.questions)

\* A step after which the connection in hand is elsewhere or answered, and nothing was run.
LEMMA RunsStay ==
  ASSUME IInv, RunsInv, UNCHANGED <<request, state, queue, executed, client>>, Handling,
         \/ pc' = "send" /\ ~Success(current', answer')
         \/ pc = "read" /\ pc' = "parse"
  PROVE  RunsInv'
<1>1. Handling' /\ ~(pc' \in {"evaluate", "engine", "respond"})
  BY DEF Handling
<1>2. pc' \in {"read", "parse", "preflight"} => executed'[client'] = 0
  BY DEF RunsInv
<1> QED
  BY <1>1, <1>2 DEF RunsInv, current

LEMMA ReplyRuns ==
  ASSUME IInv, RunsInv, Handling, NEW status, Reply(status),
         status = 200 => current.url # "/v1/systemone"
  PROVE  RunsInv'
<1>1. UNCHANGED <<request, state, queue, executed, client>> /\ pc' = "send"
      /\ answer'.status = status /\ current' = current
  BY DEF Reply, Response, Go, clientVars, current
<1>2. ~Success(current', answer')
  BY <1>1 DEF Success
<1> QED
  BY <1>1, <1>2, RunsStay

LEMMA OutsideRuns ==
  ASSUME IInv, Typed, RunsInv,
         \/ Signal
         \/ \E c \in Clients : ClientConnects(c) \/ ClientLeaves(c)
         \/ CheckStopping \/ PollReturns \/ Interrupted \/ ListenerFails
         \/ UNCHANGED vars
  PROVE  RunsInv'
<1> USE DEF Signal, ClientConnects, ClientLeaves, CheckStopping, PollReturns, Interrupted,
            ListenerFails, Go, AfterPoll, connectionVars, clientVars, vars
<1>1. UNCHANGED <<request, executed, stage, client, index, answer>>
  BY DEF engineVars
<1>2. current' = current /\ (Executing' <=> Executing)
  BY <1>1 DEF current, Executing
<1>3. /\ Handling' <=> Handling
      /\ Handling => pc' = pc
  BY DEF Handling
<1>4. \A c \in Clients : state'[c] = "away" => executed'[c] = 0
  BY <1>1 DEF RunsInv, Typed, TypeOK
<1>5. \A i \in DOMAIN queue' : executed'[queue'[i]] = 0
  <2>1. CASE \E c \in Clients : ClientConnects(c)
    <3>1. PICK c \in Clients : ClientConnects(c)
      BY <2>1
    <3>2. queue \in Seq(Clients) /\ queue' = Append(queue, c) /\ executed[c] = 0
      BY <3>1 DEF RunsInv, Typed, TypeOK
    <3>3. \A i \in DOMAIN queue' : queue'[i] = c \/ (i \in DOMAIN queue /\ queue'[i] = queue[i])
      BY <3>2
    <3> QED
      BY <1>1, <3>2, <3>3 DEF RunsInv
  <2>2. CASE ~\E c \in Clients : ClientConnects(c)
    <3>1. queue' = queue
      BY <2>2
    <3> QED
      BY <1>1, <3>1 DEF RunsInv
  <2> QED
    BY <2>1, <2>2
<1> HIDE DEF Signal, ClientConnects, ClientLeaves, CheckStopping, PollReturns, Interrupted,
             ListenerFails, Go, AfterPoll, connectionVars, clientVars, vars
<1>6. CASE Handling
  BY <1>1, <1>2, <1>3, <1>4, <1>5, <1>6 DEF RunsInv
<1>7. CASE ~Handling
  <2>1. client' = NoClient /\ ~Handling'
    BY <1>1, <1>3, <1>7 DEF RunsInv
  <2> QED
    BY <1>4, <1>5, <2>1 DEF RunsInv, Handling
<1> QED
  BY <1>6, <1>7

LEMMA AcceptRuns ==
  ASSUME IInv, Typed, RunsInv, Accept
  PROVE  RunsInv'
<1> USE DEF Accept, AfterAccept
<1>1. queue \in Seq(Clients) /\ queue # <<>> /\ 1 \in DOMAIN queue /\ Head(queue) = queue[1]
  BY DEF Typed, TypeOK
<1>2. executed'[client'] = 0 /\ executed' = executed /\ pc' = "read" /\ Handling'
  BY <1>1 DEF RunsInv, Handling
<1>3. \A c \in Clients : state'[c] = "away" => state[c] = "away"
  BY DEF Typed, TypeOK
<1>4. \A i \in DOMAIN queue' : i + 1 \in DOMAIN queue /\ queue'[i] = queue[i + 1]
  BY <1>1
<1> HIDE DEF Accept
<1> QED
  BY <1>2, <1>3, <1>4 DEF RunsInv

\* The parts of RunsInv about the connection in hand, as its steps change them.
LEMMA InHandRuns ==
  ASSUME IInv, Typed, RunsInv, Handling, Handling', UNCHANGED <<state, queue, client>>,
         \A c \in Clients : c # client => executed'[c] = executed[c],
         pc' \in {"read", "parse", "preflight"} => executed'[client] = 0,
         pc' = "evaluate" => executed'[client] = index' - 1,
         pc' = "engine" /\ stage' \in {"prompt", "image"} => executed'[client] = index' - 1,
         pc' = "engine" /\ (Executing' \/ stage' = "returned") => executed'[client] = index',
         pc' = "respond" => executed'[client] = Len(current'.questions),
         pc' = "send" /\ Success(current', answer') =>
           executed'[client] = Len(current'.questions)
  PROVE  RunsInv'
<1>1. \A i \in DOMAIN queue : queue[i] \in Clients /\ queue[i] # client
  BY DEF IInv, Places, Shape, InHandInv
<1>2. \A c \in Clients : state[c] = "away" => c # client
  BY DEF IInv, Places, InHandInv
<1> QED
  BY <1>1, <1>2 DEF RunsInv

LEMMA EngineRunsOnce ==
  ASSUME IInv, Typed, RunsInv, EngineRuns
  PROVE  /\ executed[client] \in Nat /\ index \in Nat /\ client \in Clients
         /\ executed' = executed \/ executed' = [executed EXCEPT ![client] = @ + 1]
         /\ stage' \in {"prompt", "image"} => executed' = executed /\ stage = "prompt"
         /\ executed' # executed =>
              /\ executed[client] = index - 1
              /\ executed' = [executed EXCEPT ![client] = @ + 1]
         /\ Executing' \/ stage' = "returned" => executed'[client] = index
<1>1. /\ executed[client] \in Nat /\ client \in Clients
      /\ executed \in [Clients -> Nat] /\ pc = "engine"
  BY ClientInHand DEF EngineRuns, Handling, Typed, TypeOK
<1>2. index \in Nat
  <2>1. index \in 1 .. Len(current.questions)
    BY DEF EngineRuns, IInv, RequestInv
  <2> QED
    BY <2>1
<1>3. executed' = IF Executing' /\ ~Executing THEN [executed EXCEPT ![client] = @ + 1]
                  ELSE executed
  BY DEF EngineRuns
<1>4. /\ stage' \in {"prompt", "image"} => ~Executing' /\ stage = "prompt"
      /\ Executing' /\ ~Executing => stage \in {"prompt", "image"}
      /\ stage' = "returned" => Executing /\ ~Executing'
  BY DEF EngineRuns, Evaluate, PreparePrompt, PrepareImage, EncodeImage, Prefill, ReadOut,
         BackendThrows, Check, StepTo, Raise, Executing
<1>5. executed[client] + 1 = index \/ ~(Executing' /\ ~Executing)
  <2>1. Executing' /\ ~Executing => executed[client] = index - 1
    BY <1>1, <1>4 DEF RunsInv
  <2> QED
    BY <1>1, <1>2, <2>1
<1>6. [executed EXCEPT ![client] = @ + 1][client] = executed[client] + 1
  BY <1>1
<1>7. Executing \/ stage = "returned" => executed[client] = index
  BY <1>1 DEF RunsInv
<1>8. Executing' \/ stage' = "returned" => executed'[client] = index
  BY <1>3, <1>4, <1>5, <1>6, <1>7
<1>9. executed[client] + 1 = index => executed[client] = index - 1
  BY <1>1, <1>2
<1> QED
  BY <1>1, <1>2, <1>3, <1>4, <1>5, <1>8, <1>9

LEMMA HandleRuns ==
  ASSUME IInv, Typed, RunsInv, Handle
  PROVE  RunsInv'
<1>1. CASE ReadAbandoned
  BY <1>1, ReplyRuns DEF ReadAbandoned, Handling
<1>2. CASE ReadAndRoute
  <2>1. CASE RouteStatus(current) # 0
    <3>1. RouteStatus(current) = 200 => current.url # "/v1/systemone"
      <4>1. current \in Requests
        BY <1>2, ClientInHand DEF ReadAndRoute, Handling
      <4>2. current.read # 200
        BY <4>1
      <4> QED
        BY <2>1, <4>2 DEF RouteStatus
    <3> QED
      BY <1>2, <2>1, <3>1, ReplyRuns DEF ReadAndRoute, Handling
  <2>2. CASE RouteStatus(current) = 0
    BY <1>2, <2>2, RunsStay DEF ReadAndRoute, Go, clientVars, Handling
  <2> QED
    BY <2>1, <2>2
<1>3. CASE Parse
  <2>1. CASE ParseStatus(current) # 0
    <3>1. ParseStatus(current) # 200
      BY NoSuccessCode DEF ParseStatus
    <3> QED
      BY <1>3, <2>1, <3>1, ReplyRuns DEF Parse, Handling
  <2>2. CASE ParseStatus(current) = 0
    <3>1. /\ pc = "parse" /\ pc' = "preflight" /\ Handling /\ Handling'
          /\ UNCHANGED <<state, queue, client, executed>>
      BY <1>3, <2>2 DEF Parse, Go, clientVars, Handling
    <3>2. executed[client] = 0
      BY <3>1 DEF RunsInv
    <3> QED
      BY <3>1, <3>2, InHandRuns
  <2> QED
    BY <2>1, <2>2
<1>4. CASE Preflight
  <2>1. CASE PreflightError # "none"
    BY <1>4, <2>1, NoSuccessCode, ReplyRuns DEF Preflight, Handling
  <2>2. CASE PreflightError = "none"
    <3>1. /\ pc = "preflight" /\ Handling /\ Handling'
          /\ pc' = "preflight" \/ (pc' = "evaluate" /\ index' = 1)
          /\ UNCHANGED <<state, queue, client, executed>>
      BY <1>4, <2>2 DEF Preflight, AfterPreflight, Go, clientVars, Handling
    <3>2. executed[client] = 0
      BY <3>1 DEF RunsInv
    <3> QED
      BY <3>1, <3>2, InHandRuns
  <2> QED
    BY <2>1, <2>2
<1>5. CASE CallEvaluate
  <2>1. /\ pc = "evaluate" /\ pc' = "engine" /\ stage' = "prompt" /\ Handling /\ Handling'
        /\ UNCHANGED <<state, queue, client, executed, index>>
    BY <1>5 DEF CallEvaluate, Call, Go, connectionVars, clientVars, Handling
  <2>2. executed[client] = index - 1 /\ ~Executing'
    BY <2>1 DEF RunsInv, Executing
  <2> QED
    BY <2>1, <2>2, InHandRuns
<1>6. CASE EngineRuns
  <2>1. /\ pc = "engine" /\ pc' = "engine" /\ Handling /\ Handling'
        /\ UNCHANGED <<state, queue, client, index>>
    BY <1>6 DEF EngineRuns, connectionVars, clientVars, Handling
  <2>2. \A c \in Clients : c # client => executed'[c] = executed[c]
    BY <1>6, EngineRunsOnce DEF Typed, TypeOK
  <2>3. /\ Executing' \/ stage' = "returned" => executed'[client] = index
        /\ stage' \in {"prompt", "image"} => executed' = executed /\ stage = "prompt"
    BY <1>6, EngineRunsOnce
  <2>4. stage = "prompt" => executed[client] = index - 1
    BY <2>1 DEF RunsInv
  <2> QED
    BY <2>1, <2>2, <2>3, <2>4, InHandRuns
<1>7. CASE EngineReturns
  <2>1. /\ pc = "engine" /\ stage = "returned" /\ Handling /\ Handling'
        /\ UNCHANGED <<state, queue, client, executed, request>> /\ current' = current
        /\ index' = index + 1 /\ pc' = AfterEvaluate /\ pc' \in {"evaluate", "respond"}
    BY <1>7 DEF EngineReturns, AfterEvaluate, Go, clientVars, Handling, current
  <2>2. executed[client] = index /\ index \in Nat
    <3>1. executed[client] = index /\ index \in 1 .. Len(current.questions)
      BY <2>1 DEF RunsInv, IInv, RequestInv
    <3> QED
      BY <3>1
  <2>3. executed[client] = index' - 1
    BY <2>1, <2>2
  <2>4. pc' = "respond" => executed[client] = Len(current.questions)
    BY <2>1, <2>2 DEF AfterEvaluate
  <2> QED
    BY <2>1, <2>3, <2>4, InHandRuns
<1>8. CASE EngineThrows
  BY <1>8, NoSuccessCode, ReplyRuns DEF EngineThrows, Handling
<1>9. CASE Respond
  <2>1. /\ pc = "respond" /\ pc' = "send" /\ Handling /\ Handling' /\ current' = current
        /\ UNCHANGED <<state, queue, client, executed, request>>
    BY <1>9 DEF Respond, Reply, Go, clientVars, Handling, current
  <2>2. executed[client] = Len(current.questions)
    BY <2>1 DEF RunsInv
  <2> QED
    BY <2>1, <2>2, InHandRuns
<1>10. CASE Send
  <2>1. /\ ~Handling' /\ client' = NoClient /\ UNCHANGED <<state, queue, executed>>
        /\ pc' = "loop"
    BY <1>10 DEF Send, clientVars, Handling
  <2> QED
    BY <2>1 DEF RunsInv
<1> QED
  BY <1>1, <1>2, <1>3, <1>4, <1>5, <1>6, <1>7, <1>8, <1>9, <1>10 DEF Handle

LEMMA RunsAlways == Spec => []RunsInv
<1>1. Init => RunsInv
  BY DEF Init, RunsInv, Handling
<1>2. IInv /\ Typed /\ RunsInv /\ [Next]_vars => RunsInv'
  <2> SUFFICES ASSUME IInv, Typed, RunsInv, [Next]_vars PROVE RunsInv'
    OBVIOUS
  <2>1. CASE Handle
    BY <2>1, HandleRuns
  <2>2. CASE Accept
    BY <2>2, AcceptRuns
  <2>3. CASE ~Handle /\ ~Accept
    BY <2>3, OutsideRuns DEF Next, Server, Progress, Ended
  <2> QED
    BY <2>1, <2>2, <2>3
<1> QED
  BY <1>1, <1>2, Invariance, TypedAlways, PTL DEF Spec

\* ---- the refinement ---------------------------------------------------------------

Arrived == {c \in Clients : state[c] # "away"}
Departed == {c \in Clients : state[c] = "gone"}

\* What the service sees of a state; a step that leaves it alone is none of the service.
LEMMA UnseenStep ==
  ASSUME UNCHANGED <<request, state, queue, client, executed, received>>,
         Listening' <=> Listening
  PROVE  UNCHANGED Service!serviceVars
<1>1. Listening' = Listening
  BY DEF Listening
<1> QED
  BY <1>1 DEF Service!serviceVars

LEMMA ComeStep ==
  ASSUME IInv, Typed, NEW c \in Clients, ClientConnects(c)
  PROVE  Service!Come(c)
<1>1. Listening' = Listening /\ Listening
  BY DEF ClientConnects, Listening
<1>2. Arrived' = Arrived \cup {c} /\ c \notin Arrived /\ Departed' = Departed
  BY DEF ClientConnects, Typed, TypeOK, Arrived, Departed
<1> QED
  BY <1>1, <1>2 DEF ClientConnects, connectionVars, Service!Come, Arrived, Departed

LEMMA GiveUpStep ==
  ASSUME IInv, Typed, NEW c \in Clients, ClientLeaves(c)
  PROVE  Service!GiveUp(c)
<1>1. Listening' = Listening
  BY DEF ClientLeaves, Listening
<1>2. state[c] \in {"queued", "served"} /\ state' = [state EXCEPT ![c] = "gone"]
      /\ DOMAIN state = Clients
  BY DEF ClientLeaves, Typed, TypeOK
<1>3. Arrived' = Arrived /\ c \in Arrived \ Departed
  BY <1>2 DEF Arrived, Departed
<1>4. Departed' = Departed \cup {c}
  BY <1>2 DEF Departed
<1> QED
  BY <1>1, <1>3, <1>4 DEF ClientLeaves, connectionVars, Service!GiveUp, Arrived, Departed

LEMMA TakeStep ==
  ASSUME IInv, Typed, RunsInv, Accept
  PROVE  Service!TakeNext
<1>1. Listening' = Listening /\ Listening
  BY DEF Accept, AfterAccept, Listening
<1>2. client = NoClient
  BY DEF Accept, RunsInv, Handling
<1>3. /\ Head(queue) \in Clients
      /\ state[Head(queue)] \in {"queued", "gone"}
  <2>1. queue \in Seq(Clients) /\ queue # <<>>
    BY DEF Accept, Typed, TypeOK
  <2>2. 1 \in DOMAIN queue /\ Head(queue) = queue[1]
    BY <2>1
  <2> QED
    BY <2>1, <2>2 DEF IInv, Places, QueueInv
<1>4. Arrived' = Arrived /\ Departed' = Departed
  BY <1>3 DEF Accept, Typed, TypeOK, Arrived, Departed
<1> QED
  BY <1>1, <1>2, <1>4 DEF Accept, Service!TakeNext, Arrived, Departed

LEMMA EngineMaps ==
  ASSUME IInv, Typed, DueInv, RunsInv, EngineRuns
  PROVE  Service!RunQuestion \/ UNCHANGED Service!serviceVars
<1>1. /\ UNCHANGED <<request, state, queue, client, received, pc>>
      /\ Listening' = Listening
  BY DEF EngineRuns, connectionVars, clientVars, Listening
<1>2. CASE executed' = executed
  BY <1>1, <1>2, UnseenStep
<1>3. CASE executed' # executed
  <2>1. /\ executed[client] \in Nat /\ executed[client] = index - 1 /\ index \in Nat
        /\ executed' = [executed EXCEPT ![client] = @ + 1] /\ client \in Clients
    BY <1>3, EngineRunsOnce
  <2>2. WithinBudgets(current) /\ index \in 1 .. Len(current.questions)
    BY DEF EngineRuns, DueInv, InTurnInv, IInv, RequestInv
  <2>3. executed[client] + 1 = index /\ index <= Len(current.questions)
    BY <2>1, <2>2
  <2>4. Admits(request[client], executed[client] + 1)
    BY <2>2, <2>3 DEF Admits, current
  <2>5. client # NoClient
    BY <2>1
  <2> QED
    BY <1>1, <2>1, <2>4, <2>5 DEF Service!RunQuestion
<1> QED
  BY <1>2, <1>3

LEMMA SendMaps ==
  ASSUME IInv, Typed, DueInv, RunsInv, Send
  PROVE  Service!Answer \/ Service!Drop
<1>1. /\ pc = "send" /\ client \in Clients /\ client # NoClient /\ received[client] = <<>>
      /\ UNCHANGED <<request, state, queue, executed>> /\ client' = NoClient
      /\ Listening' = Listening
  BY ClientInHand DEF Send, Handling, clientVars, IInv, Places, InHandInv, Listening
<1>2. CASE state[client] = "gone"
  <2>1. received' = received /\ client \in Departed
    BY <1>1, <1>2 DEF Send, Departed
  <2> QED
    BY <1>1, <2>1 DEF Service!Drop, Departed
<1>3. CASE state[client] # "gone"
  <2>1. client \notin Departed /\ received' = [received EXCEPT ![client] = <<answer>>]
    BY <1>1, <1>3, AppendOne DEF Send, Departed, Typed, TypeOK
  <2>2. received'[client] = <<answer>> /\ answer \in Range(received'[client])
    <3>1. received'[client] = <<answer>>
      BY <1>1, <2>1 DEF Typed, TypeOK
    <3>2. <<answer>>[1] = answer /\ 1 \in DOMAIN <<answer>>
      OBVIOUS
    <3> QED
      BY <3>1, <3>2 DEF Range
  <2>3. Deserves(request[client], executed[client], answer)
    <3>1. answer.status \in AnswerStatuses(request[client])
      BY <1>1, <1>3 DEF DueInv, InTurnInv, current
    <3>2. Complete(client, answer) /\ CarriesOwnId(client, answer)
      BY <1>1, <1>3 DEF IInv, RequestInv
    <3>3. Success(request[client], answer) => executed[client] = Len(request[client].questions)
      BY <1>1 DEF RunsInv, current
    <3> QED
      BY <3>1, <3>2, <3>3 DEF Deserves, Complete, CarriesOwnId, AnswersTo
  <2> QED
    BY <1>1, <2>1, <2>2, <2>3 DEF Service!Answer, Service!Range, Range, Departed
<1> QED
  BY <1>2, <1>3

\* CheckStopping, Interrupted and ListenerFails may close; nothing else the loop does on
\* its own is seen.
LEMMA LoopMaps ==
  ASSUME IInv, RunsInv, CheckStopping \/ PollReturns \/ Interrupted \/ ListenerFails
  PROVE  Service!Close \/ UNCHANGED Service!serviceVars
<1>1. /\ UNCHANGED <<request, state, queue, client, executed, received>>
      /\ Listening /\ ~Handling
  BY DEF CheckStopping, PollReturns, Interrupted, ListenerFails, Go, connectionVars,
         clientVars, Listening, Handling
<1>2. client = NoClient
  BY <1>1 DEF RunsInv
<1>3. CASE Listening'
  BY <1>1, <1>3, UnseenStep
<1>4. CASE ~Listening'
  <2>1. Listening' = FALSE
    BY <1>4 DEF Listening
  <2> QED
    BY <1>1, <1>2, <2>1 DEF Service!Close
<1> QED
  BY <1>3, <1>4

\* Whatever clients do and whenever a signal comes, the server is a decision service: it
\* takes connections in the order they came, one at a time, runs a question only of a
\* request that is within the budgets as a whole, and none twice, and ends each turn with
\* one answer the request deserves, a success only when all its questions were run.
THEOREM ServiceIsImplemented == Spec => RefinesDecisionService
<1>1. Init => Service!ServiceInit
  <2> SUFFICES ASSUME Init PROVE Service!ServiceInit
    OBVIOUS
  <2>1. Arrived = {} /\ Departed = {} /\ Listening = TRUE
    BY DEF Init, Arrived, Departed, Listening
  <2> QED
    BY <2>1 DEF Init, Service!ServiceInit, Arrived, Departed
<1>2. IInv /\ Typed /\ DueInv /\ RunsInv /\ [Next]_vars
        => [Service!ServiceNext]_Service!serviceVars
  <2> SUFFICES ASSUME IInv, Typed, DueInv, RunsInv, [Next]_vars
               PROVE  Service!ServiceNext \/ UNCHANGED Service!serviceVars
    OBVIOUS
  <2>1. CASE \E c \in Clients : ClientConnects(c) \/ ClientLeaves(c)
    BY <2>1, ComeStep, GiveUpStep DEF Service!ServiceNext
  <2>2. CASE Accept
    BY <2>2, TakeStep DEF Service!ServiceNext
  <2>3. CASE EngineRuns
    BY <2>3, EngineMaps DEF Service!ServiceNext
  <2>4. CASE Send
    BY <2>4, SendMaps DEF Service!ServiceNext
  <2>5. CASE CheckStopping \/ PollReturns \/ Interrupted \/ ListenerFails
    BY <2>5, LoopMaps DEF Service!ServiceNext
  <2>6. CASE \/ ReadAbandoned \/ ReadAndRoute \/ Parse \/ Preflight \/ CallEvaluate
             \/ EngineReturns \/ EngineThrows \/ Respond
    <3>1. UNCHANGED <<request, state, queue, client, executed, received>>
      BY <2>6 DEF ReadAbandoned, ReadAndRoute, Parse, Preflight, CallEvaluate, EngineReturns,
                  EngineThrows, Respond, Reply, Go, connectionVars, clientVars
    <3>2. Listening' /\ Listening
      BY <2>6 DEF ReadAbandoned, ReadAndRoute, Parse, Preflight, CallEvaluate, EngineReturns,
                  EngineThrows, Respond, Reply, Go, AfterPreflight, AfterEvaluate, Listening
    <3> QED
      BY <3>1, <3>2, UnseenStep
  <2>7. CASE Signal \/ Ended \/ UNCHANGED vars
    BY <2>7, UnseenStep DEF Signal, Ended, vars, connectionVars, clientVars, Listening
  <2> QED
    BY <2>1, <2>2, <2>3, <2>4, <2>5, <2>6, <2>7 DEF Next, Server, Progress, Handle
<1> QED
  BY <1>1, <1>2, TypedAlways, DueAlways, RunsAlways, PTL
     DEF Spec, RefinesDecisionService, Service!ServiceSpec
=================================================================================

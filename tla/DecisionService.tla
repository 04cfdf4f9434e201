---------------------------- MODULE DecisionService ----------------------------
(***************************************************************************)
(* What a server of decisions promises its clients, with no routes,        *)
(* checks, engine or loop: connections have their turn one at a time in    *)
(* the order they came; no question is run that is not admitted, and none  *)
(* twice; a turn ends with one answer the request deserves, or with none   *)
(* if the client has left; and the service closes between two turns.       *)
(***************************************************************************)
EXTENDS Naturals, Sequences, Functions

CONSTANTS
  Clients,
  NoClient,
  Admits(_, _),       \* a request may have its n-th question run
  Deserves(_, _, _)   \* a request of which n questions were run, and an answer to it

VARIABLES
  asked,      \* what each client asks for
  came,       \* the clients that have connected
  left,       \* those of them that gave up
  waiting,    \* connections whose turn is to come
  in_turn,    \* the client whose turn it is, or NoClient
  runs,       \* client -> questions of it that were run
  replies,    \* client -> the answers it got
  open

serviceVars == <<asked, came, left, waiting, in_turn, runs, replies, open>>

ServiceInit ==
  /\ came = {}
  /\ left = {}
  /\ waiting = <<>>
  /\ in_turn = NoClient
  /\ runs = [c \in Clients |-> 0]
  /\ replies = [c \in Clients |-> <<>>]
  /\ open = TRUE

Come(c) ==
  /\ open
  /\ c \notin came
  /\ came' = came \cup {c}
  /\ waiting' = Append(waiting, c)
  /\ UNCHANGED <<asked, left, in_turn, runs, replies, open>>

GiveUp(c) ==
  /\ c \in came \ left
  /\ replies[c] = <<>>
  /\ left' = left \cup {c}
  /\ UNCHANGED <<asked, came, waiting, in_turn, runs, replies, open>>

TakeNext ==
  /\ open
  /\ in_turn = NoClient
  /\ waiting # <<>>
  /\ in_turn' = Head(waiting)
  /\ waiting' = Tail(waiting)
  /\ UNCHANGED <<asked, came, left, runs, replies, open>>

RunQuestion ==
  /\ in_turn # NoClient
  /\ Admits(asked[in_turn], runs[in_turn] + 1)
  /\ runs' = [runs EXCEPT ![in_turn] = @ + 1]
  /\ UNCHANGED <<asked, came, left, waiting, in_turn, replies, open>>

\* The turn ends with any one answer that is deserved.
Answer ==
  /\ in_turn # NoClient
  /\ in_turn \notin left
  /\ replies[in_turn] = <<>>
  /\ \E reply \in Range(replies'[in_turn]) :
       /\ Deserves(asked[in_turn], runs[in_turn], reply)
       /\ replies' = [replies EXCEPT ![in_turn] = <<reply>>]
  /\ in_turn' = NoClient
  /\ UNCHANGED <<asked, came, left, waiting, runs, open>>

Drop ==
  /\ in_turn \in left
  /\ in_turn' = NoClient
  /\ UNCHANGED <<asked, came, left, waiting, runs, replies, open>>

Close ==
  /\ open
  /\ in_turn = NoClient
  /\ open' = FALSE
  /\ UNCHANGED <<asked, came, left, waiting, in_turn, runs, replies>>

ServiceNext ==
  \/ \E c \in Clients : Come(c) \/ GiveUp(c)
  \/ TakeNext
  \/ RunQuestion
  \/ Answer
  \/ Drop
  \/ Close

ServiceSpec == ServiceInit /\ [][ServiceNext]_serviceVars
==============================================================================

------------------------------ MODULE ResponseSend ------------------------------
(***************************************************************************)
(* send_all of src/tools/branchscore_server.cpp: a response is written to  *)
(* a blocking socket.  poll waits, up to a deadline, for the socket to     *)
(* take anything; send then blocks until the kernel has taken all of the   *)
(* rest, the connection breaks, or a signal cuts the call short.  The      *)
(* kernel's buffer and the peer that empties it are external.  Byte i of   *)
(* the response is the number i.                                           *)
(***************************************************************************)
EXTENDS Integers, Sequences

CONSTANTS
  Length,        \* bytes of the response
  BufferSize,    \* bytes the kernel takes before the peer reads some
  SendTimeout,   \* send_timeout, in ticks
  MaxClock,      \* bound on the ticks of a run
  MaxSignals     \* bound on the signals of a run

ASSUME SendAssumption ==
  /\ {Length, BufferSize, SendTimeout, MaxClock, MaxSignals} \subseteq Nat
  /\ Length > 0 /\ BufferSize > 0 /\ SendTimeout > 0

VARIABLES
  pc,         \* "poll", "send", or the result: "sent", "failed"
  sent,       \* bytes that returned calls of send have taken
  wire,       \* the bytes the kernel has taken, in order
  taken,      \* how many of them the peer has read
  called_at,  \* Len(wire) when the running send was called
  peer,       \* TRUE until the peer resets the connection
  clock,
  signals

vars == <<pc, sent, wire, taken, called_at, peer, clock, signals>>

Space == BufferSize - (Len(wire) - taken)
Copied == Len(wire) - called_at

Init ==
  /\ pc = "poll"
  /\ sent = 0
  /\ wire = <<>>
  /\ taken = 0
  /\ called_at = 0
  /\ peer = TRUE
  /\ clock = 0
  /\ signals = 0

Ready == Space > 0 \/ ~peer

\* wait_for checks the time left and polls: a poll that began in time may find the
\* socket ready at the deadline.
PollReady ==
  /\ pc = "poll"
  /\ clock <= SendTimeout
  /\ Ready
  /\ pc' = "send"
  /\ called_at' = Len(wire)
  /\ UNCHANGED <<sent, wire, taken, peer, clock, signals>>

ExpiredAfter == clock > SendTimeout
Expired == clock >= SendTimeout

PollTimeout ==
  /\ pc = "poll"
  /\ Expired
  /\ pc' = "failed"
  /\ UNCHANGED <<sent, wire, taken, called_at, peer, clock, signals>>

\* The running call hands over bytes.data() + sent onwards.
FirstUnsentRestarted == 1
FirstUnsent == sent + 1

SendCopies ==
  /\ pc = "send"
  /\ peer
  /\ Space > 0
  /\ sent + Copied < Length
  /\ wire' = Append(wire, FirstUnsent + Copied)
  /\ UNCHANGED <<pc, sent, taken, called_at, peer, clock, signals>>

SentAfterCallAll == Length
SentAfterCall == sent + Copied

Return ==
  /\ sent' = SentAfterCall
  /\ pc' = IF SentAfterCall < Length THEN "poll" ELSE "sent"
  /\ UNCHANGED <<wire, taken, called_at, peer, clock>>

\* The call returns once the kernel has taken everything that was left.
SendReturns ==
  /\ pc = "send"
  /\ sent + Copied = Length
  /\ Return
  /\ UNCHANGED signals

\* A signal ends a blocked call that has copied something; one that has copied
\* nothing is restarted, as std::signal asks for on the systems considered.
SendInterrupted ==
  /\ pc = "send"
  /\ signals < MaxSignals
  /\ signals' = signals + 1
  /\ Copied > 0
  /\ Return

\* A broken connection ends the call: with what was copied, or with an error.
SendBreaks ==
  /\ pc = "send"
  /\ ~peer
  /\ IF Copied > 0
       THEN Return
       ELSE /\ pc' = "failed"
            /\ UNCHANGED <<sent, wire, taken, called_at, peer, clock>>
  /\ UNCHANGED signals

PeerReads ==
  /\ peer
  /\ taken < Len(wire)
  /\ taken' = taken + 1
  /\ UNCHANGED <<pc, sent, wire, called_at, peer, clock, signals>>

PeerResets ==
  /\ peer
  /\ pc \in {"poll", "send"}
  /\ peer' = FALSE
  /\ UNCHANGED <<pc, sent, wire, taken, called_at, clock, signals>>

\* Time passes while the call waits in poll, and while it is blocked in send.
Blocked == pc = "send" /\ Space = 0 /\ peer /\ sent + Copied < Length

Tick ==
  /\ clock < MaxClock
  /\ \/ pc = "poll" /\ clock < SendTimeout
     \/ Blocked
  /\ clock' = clock + 1
  /\ UNCHANGED <<pc, sent, wire, taken, called_at, peer, signals>>

Finished == pc \in {"sent", "failed"} /\ UNCHANGED vars

Server == PollReady \/ PollTimeout \/ SendCopies \/ SendReturns \/ SendBreaks

Next == Server \/ SendInterrupted \/ PeerReads \/ PeerResets \/ Tick \/ Finished

Spec == Init /\ [][Next]_vars

\* The server runs on and so does the clock; the peer reads, if it does at all,
\* at its own pace.
FairSpec == Spec /\ WF_vars(Server) /\ WF_vars(Tick)
------------------------------------------------------------------------------

TypeOK ==
  /\ pc \in {"poll", "send", "sent", "failed"}
  /\ sent \in 0 .. Length
  /\ wire \in Seq(1 .. Length)
  /\ taken \in 0 .. Len(wire)
  /\ called_at \in 0 .. Len(wire)
  /\ peer \in BOOLEAN
  /\ clock \in 0 .. MaxClock
  /\ signals \in 0 .. MaxSignals

\* Whatever cuts the response into several calls, the peer gets its bytes once
\* and in order.
NoByteLostOrRepeated == \A i \in 1 .. Len(wire) : wire[i] = i

\* send_all reports success for the whole response only.
SuccessIsWhole == pc = "sent" => Len(wire) = Length

\* The call ends unless the peer, and nothing else, holds it up for good.
EndsUnlessPeerStalls == <>(pc \in {"sent", "failed"}) \/ <>[]Blocked

\* docs/phases/phase-4-plus-http-server.md, "Implemented contract": the server
\* uses a 10-second response write timeout.
WriteTimeoutHolds == pc \in {"poll", "send"} => clock <= SendTimeout
==============================================================================

------------------------------- MODULE SendProofs -------------------------------
(***************************************************************************)
(* Proofs about ResponseSend for every length, buffer, timeout and number  *)
(* of signals.                                                             *)
(***************************************************************************)
EXTENDS ResponseSend, TLAPS

\* While a call runs, the kernel holds what earlier calls returned and what this one
\* has copied; outside of one, exactly what has been counted.
CountsAgree ==
  /\ Len(wire) <= Length
  /\ pc \in {"poll", "sent"} => sent = Len(wire)
  /\ pc = "send" => called_at = sent

IInv == TypeOK /\ CountsAgree /\ NoByteLostOrRepeated /\ SuccessIsWhole

LEMMA InitInv == Init => IInv
  BY SendAssumption DEF Init, IInv, TypeOK, CountsAgree, NoByteLostOrRepeated, SuccessIsWhole

\* The byte that is copied is the next one of the response.
LEMMA CopyKeepsOrder ==
  ASSUME IInv, SendCopies
  PROVE  IInv'
<1>1. Len(wire) + 1 <= Length /\ FirstUnsent + Copied = Len(wire) + 1
  BY SendAssumption DEF IInv, TypeOK, CountsAgree, SendCopies, FirstUnsent, Copied
<1>2. wire' = Append(wire, Len(wire) + 1)
  BY <1>1 DEF SendCopies
<1>3. wire' \in Seq(1 .. Length) /\ Len(wire') = Len(wire) + 1
  BY <1>1, <1>2, SendAssumption DEF IInv, TypeOK
<1>4. \A i \in 1 .. Len(wire') : wire'[i] = i
  BY <1>2, <1>3 DEF IInv, TypeOK, NoByteLostOrRepeated
<1> QED
  BY <1>1, <1>3, <1>4
     DEF IInv, TypeOK, CountsAgree, NoByteLostOrRepeated, SuccessIsWhole, SendCopies

\* However a call ends, what it has taken is counted.
LEMMA ReturnCounts ==
  ASSUME IInv, pc = "send", Return, signals' \in 0 .. MaxSignals
  PROVE  IInv'
<1>1. SentAfterCall = Len(wire)
  BY SendAssumption DEF IInv, TypeOK, CountsAgree, SentAfterCall, Copied
<1> QED
  BY <1>1, SendAssumption
     DEF IInv, TypeOK, CountsAgree, NoByteLostOrRepeated, SuccessIsWhole, Return

LEMMA StepInv == IInv /\ [Next]_vars => IInv'
<1> SUFFICES ASSUME IInv, [Next]_vars PROVE IInv'
  OBVIOUS
<1> USE SendAssumption
<1>1. CASE PollReady
  BY <1>1 DEF IInv, TypeOK, CountsAgree, NoByteLostOrRepeated, SuccessIsWhole, PollReady
<1>2. CASE PollTimeout
  BY <1>2 DEF IInv, TypeOK, CountsAgree, NoByteLostOrRepeated, SuccessIsWhole, PollTimeout
<1>3. CASE SendCopies
  BY <1>3, CopyKeepsOrder
<1>4. CASE SendReturns
  BY <1>4, ReturnCounts DEF SendReturns, IInv, TypeOK
<1>5. CASE SendInterrupted
  <2>1. signals' \in 0 .. MaxSignals
    BY <1>5 DEF SendInterrupted, IInv, TypeOK
  <2> QED
    BY <1>5, <2>1, ReturnCounts DEF SendInterrupted
<1>6. CASE SendBreaks
  <2>1. CASE Copied > 0
    BY <1>6, <2>1, ReturnCounts DEF SendBreaks, IInv, TypeOK
  <2>2. CASE ~(Copied > 0)
    BY <1>6, <2>2
       DEF SendBreaks, IInv, TypeOK, CountsAgree, NoByteLostOrRepeated, SuccessIsWhole
  <2> QED
    BY <2>1, <2>2
<1>7. CASE PeerReads
  BY <1>7 DEF IInv, TypeOK, CountsAgree, NoByteLostOrRepeated, SuccessIsWhole, PeerReads
<1>8. CASE PeerResets
  BY <1>8 DEF IInv, TypeOK, CountsAgree, NoByteLostOrRepeated, SuccessIsWhole, PeerResets
<1>9. CASE Tick
  BY <1>9 DEF IInv, TypeOK, CountsAgree, NoByteLostOrRepeated, SuccessIsWhole, Tick
<1>10. CASE UNCHANGED vars
  BY <1>10
     DEF IInv, TypeOK, CountsAgree, NoByteLostOrRepeated, SuccessIsWhole, vars, Copied
<1> QED
  BY <1>1, <1>2, <1>3, <1>4, <1>5, <1>6, <1>7, <1>8, <1>9, <1>10
     DEF Next, Server, Finished

LEMMA Invariance == Spec => []IInv
  BY InitInv, StepInv, PTL DEF Spec

\* Every variable of a running send_all keeps its type, the counters their bounds.
THEOREM TypeCorrect == Spec => []TypeOK
<1>1. IInv => TypeOK
  BY DEF IInv
<1> QED
  BY <1>1, Invariance, PTL

\* The peer gets the bytes of send_all once and in order, into however many calls
\* the buffer, signals and resets cut them.
THEOREM BytesInOrder == Spec => []NoByteLostOrRepeated
<1>1. IInv => NoByteLostOrRepeated
  BY DEF IInv
<1> QED
  BY <1>1, Invariance, PTL

\* send_all returns true for a whole response only.
THEOREM SuccessMeansWhole == Spec => []SuccessIsWhole
<1>1. IInv => SuccessIsWhole
  BY DEF IInv
<1> QED
  BY <1>1, Invariance, PTL
=================================================================================

------------------------------- MODULE PageProofs -------------------------------
(***************************************************************************)
(* Proofs about BrowserPage for every set of tokens, keys and files: the   *)
(* handlers of Connect and Submit may overlap in any way.                  *)
(***************************************************************************)
EXTENDS BrowserPage, TLAPS

\* An edit of the field takes the token away, so it never outlives the text it came
\* from.
TokenInv == authToken \in {NoText, field}

\* A token that is held is the one Connect waits for; with nothing to wait for it is
\* the one the server accepted.  Only this says more than that the tokens agree: the
\* model id alone may come from the answer to an earlier token.
TriedInv ==
  /\ authToken # NoText /\ connecting = Idle => authToken = accepted
  /\ authToken # NoText /\ connecting # Idle => authToken = connecting.bearer

\* Nothing is on display while a submission runs, and it carries its own question.
QuestionInv == submission # Idle => shown = Hidden /\ submission.options = asked

IInv == TokenInv /\ TriedInv /\ QuestionInv /\ ResultOfLatestSubmit

LEMMA InitInv == Init => IInv
  BY DEF Init, IInv, TokenInv, TriedInv, QuestionInv, ResultOfLatestSubmit

\* Whatever is sent, or read first, has the options that were asked.
LEMMA SendCarries ==
  ASSUME NEW options, NEW chosen, NEW bytes, Send(options, chosen, bytes)
  PROVE  submission' # Idle => submission'.options = options
  BY DEF Send, Idle

LEMMA StepInv == IInv /\ [Next]_vars => IInv'
<1> SUFFICES ASSUME IInv, [Next]_vars PROVE IInv'
  OBVIOUS
<1> USE DEF IInv, TokenInv, TriedInv, QuestionInv, ResultOfLatestSubmit,
            connection, form, evaluation
<1>1. CASE EditToken
  BY <1>1 DEF EditToken, TokenAfterInput
<1>2. CASE Connect
  <2>1. connecting' # Idle
    BY <1>2 DEF Connect, Idle
  <2> QED
    BY <1>2, <2>1 DEF Connect
<1>3. CASE Connected
  BY <1>3 DEF Connected
<1>4. CASE ConnectFails
  BY <1>4 DEF ConnectFails, TokenAfterFailure
<1>5. CASE AddOption \/ RemoveOption \/ TypeKey \/ ImportOptions
  BY <1>5 DEF AddOption, RemoveOption, TypeKey, ImportOptions
<1>6. CASE ChooseFile
  BY <1>6 DEF ChooseFile
<1>7. CASE RefuseSubmit
  BY <1>7 DEF RefuseSubmit, ShownAtSubmit
<1>8. CASE Submit
  <2>1. submission' # Idle => submission'.options = ToSet(rows)
    BY <1>8, SendCarries DEF Submit
  <2> QED
    BY <1>8, <2>1 DEF Submit, ShownAtSubmit
<1>9. CASE FileIsRead
  <2>1. submission # Idle
    BY <1>9 DEF FileIsRead, Idle
  <2>2. submission' # Idle => submission'.options = submission.options
    BY <1>9, SendCarries DEF FileIsRead
  <2> QED
    BY <1>9, <2>1, <2>2 DEF FileIsRead
<1>10. CASE Answered
  <2>1. submission # Idle
    BY <1>10 DEF Answered, Idle
  <2> QED
    BY <1>10, <2>1 DEF Answered
<1>11. CASE SubmitFails
  BY <1>11 DEF SubmitFails, SubmissionAfterError
<1>12. CASE UNCHANGED vars
  BY <1>12 DEF vars
<1> QED
  BY <1>1, <1>2, <1>3, <1>4, <1>5, <1>6, <1>7, <1>8, <1>9, <1>10, <1>11, <1>12
     DEF Next, Settles

LEMMA Invariance == Spec => []IInv
  BY InitInv, StepInv, PTL DEF Spec

\* The result the page shows is the one of the latest press of the submit button.
THEOREM ResultIsOfLatestSubmit == Spec => []ResultOfLatestSubmit
<1>1. IInv => ResultOfLatestSubmit
  BY DEF IInv
<1> QED
  BY <1>1, Invariance, PTL
------------------------------------------------------------------------------

\* What the page sends, it sends with the token of the moment.
SendsShownToken ==
  /\ connecting' \notin {connecting, Idle} => connecting'.bearer \in {NoText, field}
  /\ submission' # submission /\ submission'.stage = "waiting"
       => submission'.bearer \in {NoText, field}

LEMMA SendBears ==
  ASSUME NEW options, NEW chosen, NEW bytes, Send(options, chosen, bytes), TokenInv
  PROVE  submission'.stage = "waiting" => submission'.bearer \in {NoText, field}
  BY DEF Send, Idle, TokenInv

LEMMA StepSendsShownToken == IInv /\ [Next]_vars => [SendsShownToken]_vars
<1> SUFFICES ASSUME IInv, Next PROVE SendsShownToken
  BY DEF vars
<1> USE DEF SendsShownToken, connection, form, evaluation
<1>1. CASE Connect
  BY <1>1 DEF Connect
<1>2. CASE Connected \/ ConnectFails
  BY <1>2 DEF Connected, ConnectFails
<1>3. CASE Submit
  <2>1. submission'.stage = "waiting" => submission'.bearer \in {NoText, field}
    BY <1>3, SendBears DEF Submit, IInv
  <2> QED
    BY <1>3, <2>1 DEF Submit
<1>4. CASE FileIsRead
  <2>1. submission'.stage = "waiting" => submission'.bearer \in {NoText, field}
    BY <1>4, SendBears DEF FileIsRead, IInv
  <2> QED
    BY <1>4, <2>1 DEF FileIsRead
<1>5. CASE Answered \/ SubmitFails
  BY <1>5 DEF Answered, SubmitFails, SubmissionAfterError, Idle
<1>6. CASE EditToken \/ ChooseFile \/ RefuseSubmit
  BY <1>6 DEF EditToken, ChooseFile, RefuseSubmit
<1>7. CASE AddOption \/ RemoveOption \/ TypeKey \/ ImportOptions
  BY <1>7 DEF AddOption, RemoveOption, TypeKey, ImportOptions
<1> QED
  BY <1>1, <1>2, <1>3, <1>4, <1>5, <1>6, <1>7 DEF Next, Settles

\* Every health request and every evaluation carries the token the field shows when
\* it is sent, or none.
THEOREM BearerIsShown == Spec => BearerIsShownToken
<1>1. SendsShownToken =>
        /\ connecting' \notin {connecting, Idle} => connecting'.bearer \in {NoText, field}
        /\ submission' # submission /\ submission'.stage = "waiting"
             => submission'.bearer \in {NoText, field}
  BY DEF SendsShownToken
<1> QED
  BY <1>1, Invariance, StepSendsShownToken, PTL DEF Spec, BearerIsShownToken

LEMMA TriedToken == IInv /\ authToken # NoText => Tried(authToken)
  BY DEF IInv, TriedInv, Tried

\* What an evaluation starts under, and what it is sent with.
StartsUnderTried ==
  submission = Idle /\ submission' # Idle /\ field # NoText
    => authToken = field /\ Tried(field)

SendsTried ==
  submission' # submission /\ submission'.stage = "waiting"
    => submission'.bearer = NoText \/ Tried(submission'.bearer)

LEMMA StepStartsUnderTried == IInv /\ [Next]_vars => [StartsUnderTried]_vars
<1> SUFFICES ASSUME IInv, Next, submission = Idle, submission' # Idle, field # NoText
             PROVE  authToken = field /\ Tried(field)
  BY DEF vars, StartsUnderTried
<1>1. Submit
  BY DEF Next, Settles, EditToken, Connect, Connected, ConnectFails, AddOption,
         RemoveOption, TypeKey, ImportOptions, ChooseFile, RefuseSubmit, FileIsRead,
         Answered, SubmitFails, evaluation, Idle
<1>2. authToken = field
  BY <1>1 DEF Submit, MayEvaluate, IInv, TokenInv
<1> QED
  BY <1>2, TriedToken

LEMMA SendBearsToken ==
  ASSUME NEW options, NEW chosen, NEW bytes, Send(options, chosen, bytes)
  PROVE  submission'.stage = "waiting" => submission'.bearer = authToken
  BY DEF Send, Idle

LEMMA StepSendsTried == IInv /\ [Next]_vars => [SendsTried]_vars
<1> SUFFICES ASSUME IInv, Next, submission' # submission, submission'.stage = "waiting"
             PROVE  submission'.bearer = NoText \/ Tried(submission'.bearer)
  BY DEF vars, SendsTried
<1>1. Submit \/ FileIsRead
  BY DEF Next, Settles, EditToken, Connect, Connected, ConnectFails, AddOption,
         RemoveOption, TypeKey, ImportOptions, ChooseFile, RefuseSubmit, Answered,
         SubmitFails, SubmissionAfterError, evaluation, Idle
<1>2. submission'.bearer = authToken
  <2>1. CASE Submit
    BY <2>1, SendBearsToken DEF Submit
  <2>2. CASE FileIsRead
    BY <2>2, SendBearsToken DEF FileIsRead
  <2> QED
    BY <1>1, <2>1, <2>2
<1> QED
  BY <1>2, TriedToken

\* An evaluation starts, and is sent, under a token the server accepted since it was
\* typed or Connect is asking about, never because of an answer to another token
\* alone.
THEOREM EvaluatesUnderToken == Spec => EvaluatesUnderTriedToken
<1>1. StartsUnderTried /\ SendsTried =>
        /\ submission = Idle /\ submission' # Idle /\ field # NoText
             => authToken = field /\ Tried(field)
        /\ submission' # submission /\ submission'.stage = "waiting"
             => submission'.bearer = NoText \/ Tried(submission'.bearer)
  BY DEF StartsUnderTried, SendsTried
<1> QED
  BY <1>1, Invariance, StepStartsUnderTried, StepSendsTried, PTL
     DEF Spec, EvaluatesUnderTriedToken
================================================================================

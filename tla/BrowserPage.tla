------------------------------ MODULE BrowserPage ------------------------------
(***************************************************************************)
(* The script of the page served at /ui (its text is in                    *)
(* src/tools/branchscore_server.cpp).  A handler runs to its end or to its *)
(* next await; between two awaits of one handler any other handler may     *)
(* run.  The connect handler waits for one answer, the submit handler for  *)
(* the image file and then for its answer.  Server, network and file reads *)
(* are external: each settles, in any order, with success or failure.      *)
(***************************************************************************)
EXTENDS Naturals, FiniteSets, SequencesExt

CONSTANTS
  Tokens,      \* nonempty texts of the token field
  Model,       \* the model id of the health answer
  Keys,        \* nonempty option keys
  Pasted,      \* lists that may be pasted into the import field
  Files,       \* PNG and JPEG files
  MaxOptions   \* maxOptions

NoText == ""       \* an empty field, no token, no model
NoFile == "no file"
Hidden == {}       \* no result on display, no question asked
Idle == [stage |-> "idle"]

ASSUME PageAssumption ==
  /\ NoText \notin Tokens \cup Keys \cup {Model}
  /\ NoFile \notin Files
  /\ MaxOptions \in Nat /\ MaxOptions >= 2
  /\ Pasted \subseteq Seq(Keys \cup {NoText})
  /\ Cardinality(Keys) >= 2

VARIABLES
  field,       \* tokenInput.value.trim()
  authToken,
  modelId,
  accepted,    \* history: the token whose health answer set modelId
  connecting,  \* Idle, or the health request that is awaited
  rows,        \* the trimmed keys of the option rows
  file,        \* imageInput.files[0]
  imageValue,  \* the file whose bytes are held, or NoFile
  submission,  \* Idle, or what the submit handler has gathered
  shown,       \* the options of the result on display
  asked        \* the options of the latest submit, Hidden when it was refused

vars == <<field, authToken, modelId, accepted, connecting, rows, file, imageValue,
          submission, shown, asked>>
connection == <<field, authToken, modelId, accepted, connecting>>
form == <<rows, file, imageValue>>
evaluation == <<submission, shown, asked>>

Init ==
  /\ field \in Tokens \cup {NoText}     \* a browser may restore the field
  /\ authToken = NoText
  /\ modelId = NoText
  /\ accepted = NoText
  /\ connecting = Idle
  /\ \E first, second \in Keys : first # second /\ rows = <<first, second>>
  /\ file = NoFile
  /\ imageValue = NoFile
  /\ submission = Idle
  /\ shown = Hidden
  /\ asked = Hidden
------------------------------------------------------------------------------
(* The token and Connect.                                                  *)

TokenAfterInputKept == authToken
TokenAfterInput == NoText

EditToken ==
  /\ field' \in Tokens \cup {NoText}
  /\ authToken' = TokenAfterInput
  /\ modelId' = NoText
  /\ accepted' = NoText
  /\ UNCHANGED <<connecting, form, evaluation>>

Connect ==
  /\ connecting = Idle                  \* the button is disabled meanwhile
  /\ authToken' = field
  /\ connecting' = [stage |-> "waiting", bearer |-> authToken']
  /\ UNCHANGED <<field, modelId, accepted, form, evaluation>>

\* The answer is stored whatever has happened to the field since.
Connected ==
  /\ connecting # Idle
  /\ modelId' = Model
  /\ accepted' = connecting.bearer
  /\ connecting' = Idle
  /\ UNCHANGED <<field, authToken, form, evaluation>>

TokenAfterFailureKept == authToken
TokenAfterFailure == NoText

ConnectFails ==
  /\ connecting # Idle
  /\ authToken' = TokenAfterFailure
  /\ modelId' = NoText
  /\ accepted' = NoText
  /\ connecting' = Idle
  /\ UNCHANGED <<field, form, evaluation>>
------------------------------------------------------------------------------
(* Option rows.  A submission disables adding and importing, not removing  *)
(* or typing.                                                              *)

AddOption ==
  /\ submission = Idle
  /\ Len(rows) < MaxOptions
  /\ rows' = Append(rows, NoText)
  /\ UNCHANGED <<connection, file, imageValue, evaluation>>

RemoveOption ==
  /\ \E i \in DOMAIN rows : rows' = RemoveAt(rows, i)
  /\ UNCHANGED <<connection, file, imageValue, evaluation>>

TypeKey ==
  /\ \E i \in DOMAIN rows, k \in Keys \cup {NoText} : rows' = [rows EXCEPT ![i] = k]
  /\ UNCHANGED <<connection, file, imageValue, evaluation>>

Unique(keys) == IsInjective(keys) /\ NoText \notin ToSet(keys)

Acceptable(keys) == Len(keys) \in 2 .. MaxOptions /\ Unique(keys)

ImportOptions ==
  /\ submission = Idle
  /\ \E keys \in Pasted :
       /\ Acceptable(keys)
       /\ rows' = keys
  /\ UNCHANGED <<connection, file, imageValue, evaluation>>
------------------------------------------------------------------------------
(* The image.  A file of another type empties the input again.             *)

ChooseFile ==
  /\ file' \in Files \cup {NoFile}
  /\ imageValue' = NoFile
  /\ UNCHANGED <<connection, rows, evaluation>>
------------------------------------------------------------------------------
(* Submit.                                                                 *)

MayEvaluate == modelId # NoText /\ ~(authToken = NoText /\ field # NoText)

ShownAtSubmitStill == shown
ShownAtSubmit == Hidden

\* The submit button is disabled while a submission runs.  Every press hides the
\* result; one that fails a check (a blank state or question is possible at any
\* time) goes no further.
RefuseSubmit ==
  /\ submission = Idle
  /\ \E blank \in BOOLEAN : blank \/ ~MayEvaluate \/ ~Acceptable(rows)
  /\ shown' = ShownAtSubmit
  /\ asked' = Hidden
  /\ UNCHANGED <<submission, connection, form>>

\* fetch with the page's model, token and image of this moment, or an error at once
\* when the body exceeds its limit.
Send(options, chosen, bytes) ==
  \/ submission' = [stage |-> "waiting", options |-> options, chosen |-> chosen,
                    bearer |-> authToken, model |-> modelId, image |-> bytes]
  \/ submission' = Idle

Submit ==
  /\ submission = Idle
  /\ MayEvaluate
  /\ Acceptable(rows)
  /\ shown' = ShownAtSubmit
  /\ asked' = ToSet(rows)
  /\ IF file = NoFile
       THEN Send(ToSet(rows), file, imageValue)
       ELSE submission' = [stage |-> "reading", options |-> ToSet(rows), chosen |-> file]
  /\ UNCHANGED <<connection, form>>

\* The handler goes on with the bytes of the file it had asked for.
FileIsRead ==
  /\ submission.stage = "reading"
  /\ imageValue' = submission.chosen
  /\ Send(submission.options, submission.chosen, submission.chosen)
  /\ UNCHANGED <<connection, rows, file, shown, asked>>

\* A 200 answer is assumed to hold the object the server builds (send_json of the
\* adapter's response); one that does not parse is a SubmitFails.
Answered ==
  /\ submission.stage = "waiting"
  /\ shown' = submission.options
  /\ submission' = Idle
  /\ UNCHANGED <<connection, form, asked>>

SubmissionAfterErrorLocked == [stage |-> "failed"]
SubmissionAfterError == Idle

\* A file that cannot be read, a refused or a lost request.
SubmitFails ==
  /\ submission # Idle
  /\ submission' = SubmissionAfterError
  /\ UNCHANGED <<connection, form, shown, asked>>

Settles == FileIsRead \/ Answered \/ SubmitFails

Next ==
  \/ EditToken \/ Connect \/ Connected \/ ConnectFails
  \/ AddOption \/ RemoveOption \/ TypeKey \/ ImportOptions
  \/ ChooseFile
  \/ RefuseSubmit \/ Submit \/ Settles

Spec == Init /\ [][Next]_vars

\* Reading a file ends and so does a request, one way or the other.
FairSpec == Spec /\ WF_vars(Settles)
------------------------------------------------------------------------------
\* A request carries the token the field shows at that moment or none: a token
\* that was edited or cleared is sent no more, whatever was in flight.
BearerIsShownToken ==
  [][/\ connecting' \notin {connecting, Idle} => connecting'.bearer \in {NoText, field}
     /\ submission' # submission /\ submission'.stage = "waiting"
          => submission'.bearer \in {NoText, field}]_vars

\* The server has accepted the token since it was typed, or Connect is asking about it.
Tried(token) == token = accepted \/ (connecting # Idle /\ connecting.bearer = token)

\* With a token in the field a submission starts only under that token, and a token
\* that is sent with an evaluation has been accepted by the server since it was typed
\* or is the one Connect waits for.  The second case exists: the late answer to an
\* earlier token makes the page ready, and a submission may start while Connect with
\* the new one waits.  An answer to another token is never enough once Connect is done.
EvaluatesUnderTriedToken ==
  [][/\ submission = Idle /\ submission' # Idle /\ field # NoText
          => authToken = field /\ Tried(field)
     /\ submission' # submission /\ submission'.stage = "waiting"
          => submission'.bearer = NoText \/ Tried(submission'.bearer)]_vars

\* A result on display answers the latest press of the submit button, with the
\* options the form had then.
ResultOfLatestSubmit == shown # Hidden => shown = asked

\* The page never stays locked: every submission gives the buttons back.
PageUnlocks == submission # Idle ~> submission = Idle

\* docs/phases/phase-4-plus-http-server.md, "First-screen workflow": one optional
\* file is converted and its name displayed; the image sent is that file.
ImageIsTheChosenFile ==
  submission.stage = "waiting" => submission.image = submission.chosen
==============================================================================

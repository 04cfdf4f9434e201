----------------------------- MODULE DecisionEngine -----------------------------
(***************************************************************************)
(* Gemma4DecisionEngine (src/src/gemma4_decision_engine.cpp): the host-    *)
(* side estimate of a question's Prefill positions and the stages of       *)
(* evaluate, with every check that can stop it.                            *)
(*                                                                         *)
(* A question is what the checks look at:                                  *)
(*   valid         validate_request and the renderer accept it             *)
(*   ids           token ids of the rendered prompt                        *)
(*   placeholders  how many of them are <|image|>: the renderer writes one *)
(*                 for an image, the caller's texts may hold more          *)
(*   delimited     the first of them stands between <|image> and <image|>  *)
(*   labels        the answer labels are distinct tokens at a boundary     *)
(* An image is NoImage or the count of its visual tokens, and whether its  *)
(* pixels decode (its header has been read already).                       *)
(***************************************************************************)
EXTENDS Integers

CONSTANTS
  NoImage,
  ContextLength,         \* of the loaded model
  MaxPrefillPositions    \* max_prefill_positions

ASSUME PositionsAssumption ==
  ContextLength \in Nat /\ MaxPrefillPositions \in Nat

QuestionType ==
  [valid : BOOLEAN, ids : Nat, placeholders : Nat, delimited : BOOLEAN,
   labels : BOOLEAN]

\* The smallest image has one visual token (TokenCount of VisionInput).
ImageType == [visual : Nat \ {0}, decodes : BOOLEAN]

VARIABLES
  stage,      \* "idle", the stage evaluate has reached, "returned" or "threw"
  question,   \* the question being evaluated
  image,      \* its image, or NoImage
  thrown,     \* what evaluate threw: "none" or the kind of exception
  positions   \* prefix_length of the returned state, 0 before

engineVars == <<stage, question, image, thrown, positions>>

HasImage == image # NoImage

\* check_position_budget
BudgetError(count) ==
  IF count > ContextLength THEN "context_limit_exceeded"
  ELSE IF count > MaxPrefillPositions THEN "token_budget_exceeded"
  ELSE "none"

BudgetCodes == {"context_limit_exceeded", "token_budget_exceeded"}

\* The <|image|> placeholder is replaced by the visual tokens.
Expanded(q, i) == IF i = NoImage THEN q.ids ELSE q.ids - 1 + i.visual

\* estimate_prefill_positions throws this, or returns Expanded(q, i).
EstimateError(q, i) ==
  IF ~q.valid THEN "runtime_error" ELSE BudgetError(Expanded(q, i))

\* ---- evaluate ---------------------------------------------------------------

EngineInit ==
  /\ stage = "idle"
  /\ question = [valid |-> TRUE, ids |-> 0, placeholders |-> 0, delimited |-> TRUE,
                 labels |-> TRUE]
  /\ image = NoImage
  /\ thrown = "none"
  /\ positions = 0

Call(q, i) ==
  /\ stage \in {"idle", "returned", "threw"}
  /\ stage' = "prompt"
  /\ question' = q
  /\ image' = i
  /\ thrown' = "none"
  /\ positions' = 0

StepTo(next_stage) ==
  /\ stage' = next_stage
  /\ UNCHANGED <<question, image, thrown, positions>>

Raise(kind) ==
  /\ stage' = "threw"
  /\ thrown' = kind
  /\ UNCHANGED <<question, image, positions>>

Check(error, next_stage) ==
  IF error = "none" THEN StepTo(next_stage) ELSE Raise(error)

RuntimeErrorIf(condition) == IF condition THEN "runtime_error" ELSE "none"

PromptError ==
  IF ~question.valid THEN "runtime_error"
  ELSE IF BudgetError(question.ids) # "none" THEN BudgetError(question.ids)
  ELSE RuntimeErrorIf(
         \/ question.placeholders # (IF HasImage THEN 1 ELSE 0)
         \/ HasImage /\ ~question.delimited
         \/ ~question.labels)

\* Validation, rendering, tokenization, the image boundary, the answer labels.
PreparePrompt ==
  /\ stage = "prompt"
  /\ Check(PromptError, IF HasImage THEN "image" ELSE "prefill")

ImageError ==
  IF ~image.decodes THEN "image_decode_error"
  ELSE BudgetError((question.ids - 1) + image.visual)

\* The image is decoded and resized; its own positions are checked again.
PrepareImage ==
  /\ stage = "image"
  /\ Check(ImageError, "vision")

\* Vision, Prefill and readout run on the backend, each of them may fail.
EncodeImage == stage = "vision" /\ StepTo("prefill")

PrefillPositions == (IF HasImage THEN question.ids - 1 + image.visual ELSE question.ids)

Prefill ==
  /\ stage = "prefill"
  /\ stage' = "readout"
  /\ positions' = PrefillPositions
  /\ UNCHANGED <<question, image, thrown>>

ReadOut == stage = "readout" /\ StepTo("returned")

BackendThrows ==
  /\ stage \in {"vision", "prefill", "readout"}
  /\ Raise("runtime_error")

Evaluate == PreparePrompt \/ PrepareImage \/ EncodeImage \/ Prefill \/ ReadOut
              \/ BackendThrows

Executing == stage \in {"vision", "prefill", "readout"}
------------------------------------------------------------------------------

EngineTypeOK ==
  /\ stage \in {"idle", "prompt", "image", "vision", "prefill", "readout", "returned",
                "threw"}
  /\ question \in QuestionType
  /\ image \in ImageType \cup {NoImage}
  /\ thrown \in {"none", "runtime_error", "image_decode_error"} \cup BudgetCodes
  /\ positions \in Nat
==============================================================================

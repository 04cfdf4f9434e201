---------------------------- MODULE SystemoneAdapter ----------------------------
(***************************************************************************)
(* A request from the body's text to the response's contents:              *)
(* src/src/systemone_adapter.cpp on both ends, between them the prompt of  *)
(* src/src/gemma4_prompt_renderer.cpp, the readout of                      *)
(* src/src/categorical_readout.cpp, and gemma4_decision_engine.cpp, which  *)
(* joins scores and options.  The model is external: it gives any logit to *)
(* any token.  Names of fields are shortened to one byte.                  *)
(***************************************************************************)
EXTENDS Json

CONSTANTS
  Bodies,          \* the texts considered
  ModelId,         \* the id the server advertises, as bytes
  Uninspectable,   \* the images whose header cannot be read
  MaxQuestions,    \* max_questions_per_request
  MinOptions,      \* min_decision_options
  LegacyOptions,   \* legacy_decision_options
  MaxOptions,      \* max_decision_options
  Token,           \* of each answer label, the token it is at the boundary
  Logits,          \* what the model may give a token
  NotFinite,
  NoImage,
  NoId

ASSUME AdapterAssumption ==
  /\ {MaxQuestions, MinOptions, LegacyOptions, MaxOptions} \subseteq Nat \ {0}
  /\ Logits \subseteq Int
  /\ \A a, b \in DOMAIN Token : Token[a] = Token[b] => a = b

VARIABLES
  body,
  pc,         \* the stage reached, or the end: "answered", "refused", "failed"
  error,      \* code of a RequestError, "syntax" for a text that is no JSON
  envelope,   \* its value
  image,      \* NoImage, or the bytes decoded, Malformed if they cannot be
  request,    \* what parse_request returns
  prompts,    \* of each question, as rendered
  logits,     \* the model's, of the answer tokens of each prompt
  results,    \* of evaluate, in the order of the questions
  response    \* answers by question id, and the request_id

vars == <<body, pc, error, envelope, image, request, prompts, logits, results, response>>

Nothing == [questions |-> <<>>]

Init ==
  /\ body \in Bodies
  /\ pc = "parse"
  /\ error = "none"
  /\ envelope = Null
  /\ image = NoImage
  /\ request = Nothing
  /\ prompts = <<>>
  /\ logits = <<>>
  /\ results = <<>>
  /\ response = Nothing

Name == [state |-> <<115>>, model |-> <<109>>, questions |-> <<113>>, request_id |-> <<114>>,
         image |-> <<105>>, media_type |-> <<116>>, data_base64 |-> <<100>>, type |-> <<121>>,
         instructions |-> <<110>>, criteria |-> <<99>>]
Choice == <<67>>
Png == <<80>>
Jpeg == <<74>>
------------------------------------------------------------------------------
(* required, require_object, reject_unknown_fields.                        *)

Has(value, field) == Name[field] \in DOMAIN value.object
Field(value, field) == value.object[Name[field]]
IsString(value, field) == Has(value, field) /\ Is(Field(value, field), "string")
Text(value, field) == Field(value, field).string

OnlyFields(value, fields) == DOMAIN value.object \subseteq {Name[f] : f \in fields}
ObjectOf(value, fields) == Is(value, "object") /\ OnlyFields(value, fields)
------------------------------------------------------------------------------
(* decode_base64.                                                          *)

Padding == 61
Digit(byte) ==
  CASE byte \in 65 .. 90 -> byte - 65
    [] byte \in 97 .. 122 -> byte - 71
    [] byte \in 48 .. 57 -> byte + 4
    [] byte = 43 -> 62
    [] byte = 47 -> 63
    [] OTHER -> -1

SpareBitsIgnored(b, c, padded) == FALSE
\* Bits of the last digit that no byte takes must be zero.
SpareBits(b, c, padded) ==
  \/ padded = 2 /\ b % 16 # 0
  \/ padded = 1 /\ c % 4 # 0

\* The bytes of the four characters from offset on.
Quad(encoded, offset) ==
  LET char(k) == encoded[offset + k]
      a == Digit(char(0))
      b == Digit(char(1))
      c == IF char(2) = Padding THEN 0 ELSE Digit(char(2))
      d == IF char(3) = Padding THEN 0 ELSE Digit(char(3))
      padded == (IF char(2) = Padding THEN 1 ELSE 0) + (IF char(3) = Padding THEN 1 ELSE 0)
      bits == a * 262144 + b * 4096 + c * 64 + d
  IN IF \/ a < 0 \/ b < 0 \/ c < 0 \/ d < 0
        \/ padded > 0 /\ offset + 3 # Len(encoded)
        \/ char(2) = Padding /\ char(3) # Padding
        \/ SpareBits(b, c, padded)
       THEN Malformed
     ELSE SubSeq(<<bits \div 65536, (bits \div 256) % 256, bits % 256>>, 1, 3 - padded)

DecodeBase64(encoded) ==
  LET quads == [q \in 1 .. Len(encoded) \div 4 |-> Quad(encoded, 4 * q - 3)]
  IN IF encoded = <<>> \/ Len(encoded) % 4 # 0 \/ \E q \in DOMAIN quads : quads[q] = Malformed
       THEN Malformed
     ELSE FlattenSeq(quads)

Signature(media_type) ==
  IF media_type = Png THEN <<137, 80, 78, 71, 13, 10, 26, 10>> ELSE <<255, 216, 255>>
------------------------------------------------------------------------------
(* Parsing.  The first check that fails decides the code.                  *)

Refuse(code) == pc' = "refused" /\ error' = code
Continue(stage) == pc' = stage /\ UNCHANGED error

ParseBody ==
  /\ pc = "parse"
  /\ envelope' = Parse(body)
  /\ IF envelope' = Malformed THEN Refuse("syntax") ELSE Continue("envelope")
  /\ UNCHANGED <<body, image, request, prompts, logits, results, response>>

\* serialize_state; a string goes as it is, as the only token of a text.
StateOk(value) ==
  \/ Is(value, "string") /\ value.string # <<>>
  \/ Is(value, "array") \/ Is(value, "object")
SerializeState(value) == IF Is(value, "string") THEN <<value>> ELSE Stringify(value)

EnvelopeError ==
  IF \/ ~ObjectOf(envelope, {"state", "model", "questions", "request_id", "image"})
     \/ ~Has(envelope, "state")
    THEN "invalid_request"
  ELSE IF ~StateOk(Field(envelope, "state")) \/ ~IsString(envelope, "model")
    THEN "invalid_request"
  ELSE IF Text(envelope, "model") # ModelId THEN "unsupported_model"
  ELSE IF Has(envelope, "request_id") /\ ~IsString(envelope, "request_id")
    THEN "invalid_request"
  ELSE "none"

ParseEnvelope ==
  /\ pc = "envelope"
  /\ IF EnvelopeError # "none" THEN Refuse(EnvelopeError)
     ELSE Continue(IF Has(envelope, "image") THEN "image" ELSE "questions")
  /\ UNCHANGED <<body, envelope, image, request, prompts, logits, results, response>>

ImageFieldsError(value) ==
  IF \/ ~ObjectOf(value, {"media_type", "data_base64"})
     \/ ~IsString(value, "media_type") \/ ~IsString(value, "data_base64")
    THEN "invalid_request"
  ELSE IF Text(value, "media_type") \notin {Png, Jpeg} THEN "unsupported_media_type"
  ELSE "none"

\* parse_image.
ParseImage ==
  /\ pc = "image"
  /\ LET value == Field(envelope, "image")
     IN IF ImageFieldsError(value) # "none"
          THEN Refuse(ImageFieldsError(value)) /\ UNCHANGED image
        ELSE /\ image' = DecodeBase64(Text(value, "data_base64"))
             /\ IF \/ image' = Malformed
                   \/ ~IsPrefix(Signature(Text(value, "media_type")), image')
                   \/ image' \in Uninspectable
                  THEN Refuse("invalid_image")
                ELSE Continue("questions")
  /\ UNCHANGED <<body, envelope, request, prompts, logits, results, response>>

CriteriaError(criteria) ==
  IF ~Is(criteria, "object") THEN "invalid_request"
  ELSE IF \/ Cardinality(DOMAIN criteria.object) \notin MinOptions .. MaxOptions
          \/ \E id \in DOMAIN criteria.object :
               \/ id = <<>>
               \/ ~Is(criteria.object[id], "null") /\ ~Is(criteria.object[id], "string")
    THEN "invalid_request"
  ELSE "none"

QuestionError(id, value) ==
  IF \/ id = <<>>
     \/ ~ObjectOf(value, {"type", "instructions", "criteria"})
     \/ ~IsString(value, "type")
    THEN "invalid_request"
  ELSE IF Text(value, "type") # Choice THEN "unsupported_question_type"
  ELSE IF \/ ~IsString(value, "instructions") \/ Text(value, "instructions") = <<>>
          \/ ~Has(value, "criteria")
    THEN "invalid_request"
  ELSE CriteriaError(Field(value, "criteria"))

Questions == Field(envelope, "questions")

QuestionsError ==
  IF ~Has(envelope, "questions") \/ ~Is(Questions, "object") THEN "invalid_request"
  ELSE IF Cardinality(DOMAIN Questions.object) \notin 1 .. MaxQuestions THEN "invalid_request"
  ELSE LET ids == Keys(Questions)
           Wrong(k) == QuestionError(ids[k], Questions.object[ids[k]])
           wrong == {k \in DOMAIN ids : Wrong(k) # "none"}
       IN IF wrong = {} THEN "none" ELSE Wrong(CHOOSE k \in wrong : \A j \in wrong : k <= j)

Visible(id, description) ==
  IF Is(description, "null") THEN id ELSE id \o <<58, 32>> \o description.string

Decision(value) ==
  LET criteria == Field(value, "criteria")
      ids == Keys(criteria)
  IN [state |-> SerializeState(Field(envelope, "state")),
      question |-> Text(value, "instructions"),
      image |-> image # NoImage,
      options |-> [i \in DOMAIN ids |->
        [id |-> ids[i], description |-> Visible(ids[i], criteria.object[ids[i]])]]]

ParseQuestions ==
  /\ pc = "questions"
  /\ IF QuestionsError # "none"
       THEN Refuse(QuestionsError) /\ UNCHANGED request
     ELSE /\ request' = [
               request_id |-> IF Has(envelope, "request_id")
                                THEN Text(envelope, "request_id") ELSE NoId,
               questions |-> LET ids == Keys(Questions)
                             IN [k \in DOMAIN ids |->
                                  [id |-> ids[k], decision |-> Decision(Questions.object[ids[k]])]]]
          /\ Continue("render")
  /\ UNCHANGED <<body, envelope, image, prompts, logits, results, response>>
------------------------------------------------------------------------------
(* One question after the other: prompt, readout, result.                  *)

current == request.questions[Len(results) + 1]

\* answer_label, of option i of n.
AnswerLabel(i, n) == IF n > LegacyOptions THEN <<"label", i>> ELSE <<"letter", i>>

\* Option i is the i-th row of the prompt, its slot holds the label shown there.
Render ==
  /\ pc = "render"
  /\ LET decision == current.decision
         options == decision.options
         label(i) == AnswerLabel(i, Len(options))
     IN prompts' = Append(prompts,
          [state |-> decision.state,
           question |-> decision.question,
           image |-> decision.image,
           rows |-> [i \in DOMAIN options |->
             [letter |-> label(i), description |-> Escaped(options[i].description)]],
           slots |-> [i \in DOMAIN options |-> [label |-> label(i), id |-> options[i].id]]])
  /\ Continue("prefill")
  /\ UNCHANGED <<body, envelope, image, request, logits, results, response>>

AnswerIds(slots) == [i \in DOMAIN slots |-> Token[slots[i].label]]

GatheredInTokenOrder(ids, vocabulary) ==
  LET sorted == SetToSortSeq(ToSet(ids), <) IN [i \in DOMAIN ids |-> vocabulary[sorted[i]]]
\* gather_categorical_logits: the rows of the answer tokens, in their order.
Gathered(ids, vocabulary) == [i \in DOMAIN ids |-> vocabulary[ids[i]]]

\* max_element: the first of the largest.
Largest(raw) ==
  CHOOSE i \in DOMAIN raw : \A j \in DOMAIN raw : raw[j] < raw[i] \/ (raw[j] = raw[i] /\ i <= j)

\* A relative probability stands as its logarithm, less the common denominator's.
Result(slots, raw) ==
  [option_scores |-> [i \in DOMAIN slots |->
     [option_id |-> slots[i].id, raw_score |-> raw[i], relative |-> raw[i] - raw[Largest(raw)]]],
   selected_id |-> slots[Largest(raw)].id]

\* Prefill, readout and normalization of the question whose prompt is the last one.
ReadOut ==
  /\ pc = "prefill"
  /\ LET slots == Last(prompts).slots
         ids == AnswerIds(slots)
     IN \E vocabulary \in [ToSet(ids) -> Logits \cup {NotFinite}] :
          /\ logits' = Append(logits, vocabulary)
          /\ IF \E i \in DOMAIN ids : vocabulary[ids[i]] = NotFinite
               THEN pc' = "failed" /\ UNCHANGED results
             ELSE /\ results' = Append(results, Result(slots, Gathered(ids, vocabulary)))
                  /\ pc' = IF Len(prompts) = Len(request.questions) THEN "respond" ELSE "render"
  /\ UNCHANGED <<body, error, envelope, image, request, prompts, response>>

\* A check of evaluate, vision, Prefill or a graph fails.
EvaluateFails ==
  /\ pc \in {"render", "prefill"}
  /\ pc' = "failed"
  /\ UNCHANGED <<body, error, envelope, image, request, prompts, logits, results, response>>

\* validate_result.
ResultValid(question, result) ==
  LET expected == {o.id : o \in ToSet(question.decision.options)}
      actual == {s.option_id : s \in ToSet(result.option_scores)}
  IN /\ Len(result.option_scores) = Len(question.decision.options)
     /\ actual = expected
     /\ Cardinality(actual) = Len(result.option_scores)
     /\ result.selected_id \in expected

ByOption(result, Score(_)) ==
  [id \in {s.option_id : s \in ToSet(result.option_scores)} |->
    Score(CHOOSE s \in ToSet(result.option_scores) : s.option_id = id)]

MakeResponse ==
  /\ pc = "respond"
  /\ LET Position(id) == CHOOSE k \in DOMAIN request.questions : request.questions[k].id = id
         AnswerTo(result) ==
           [choice |-> result.selected_id,
            probabilities |-> ByOption(result, LAMBDA s : s.relative),
            raw_logits |-> ByOption(result, LAMBDA s : s.raw_score)]
     IN IF \A k \in DOMAIN results : ResultValid(request.questions[k], results[k])
          THEN /\ response' = [
                    questions |-> [id \in {q.id : q \in ToSet(request.questions)} |->
                                    AnswerTo(results[Position(id)])],
                    request_id |-> request.request_id]
               /\ Continue("answered")
        ELSE pc' = "failed" /\ UNCHANGED <<error, response>>
  /\ UNCHANGED <<body, envelope, image, request, prompts, logits, results>>

Finished == pc \in {"answered", "refused", "failed"} /\ UNCHANGED vars

Next ==
  \/ ParseBody \/ ParseEnvelope \/ ParseImage \/ ParseQuestions
  \/ Render \/ ReadOut \/ EvaluateFails \/ MakeResponse
  \/ Finished

Spec == Init /\ [][Next]_vars
------------------------------------------------------------------------------

\* A body is read as the grammar reads it, whatever its spaces, escapes and order of
\* members, and refused when the grammar gives it no meaning or two members of an object
\* one key; what stringify writes of it has the same meaning again.
JsonMeansTheSame ==
  /\ pc = "envelope" =>
       /\ Values(Spaceless(body)) = {envelope}
       /\ Values(Stringify(envelope)) = {envelope}
  /\ error = "syntax" => Values(Spaceless(body)) = {}

\* The encoding of RFC 4648, bit by bit.
Alphabet ==
  [i \in 1 .. 26 |-> 64 + i] \o [i \in 1 .. 26 |-> 96 + i] \o [i \in 1 .. 10 |-> 47 + i]
    \o <<43, 47>>
Ordinal(char) ==
  IF char \in ToSet(Alphabet) THEN CHOOSE v \in 0 .. 63 : Alphabet[v + 1] = char ELSE 0
Bits(word, width) ==
  FlattenSeq([i \in DOMAIN word |-> [k \in 1 .. width |-> (word[i] \div 2 ^ (width - k)) % 2]])
Regrouped(word, from, to, count) ==
  LET bits == Bits(word, from) \o [k \in 1 .. to |-> 0]
      number(i) == FoldLeft(LAMBDA n, bit : 2 * n + bit, 0, SubSeq(bits, to * (i - 1) + 1, to * i))
  IN [i \in 1 .. count |-> number(i)]

Encoding(bytes) ==
  LET digits == Regrouped(bytes, 8, 6, (8 * Len(bytes) + 5) \div 6)
  IN [i \in DOMAIN digits |-> Alphabet[digits[i] + 1]]
       \o [i \in 1 .. (3 - (Len(bytes) % 3)) % 3 |-> Padding]

\* The only bytes that could have a given encoding.
Candidate(encoded) ==
  LET digits == SelectSeq(encoded, LAMBDA char : char # Padding)
  IN Regrouped([i \in DOMAIN digits |-> Ordinal(digits[i])], 6, 8, (6 * Len(digits)) \div 8)

\* An image is decoded if and only if its text is the encoding of some bytes, with the
\* padding that their number asks for and no stray bits, and to those bytes.
Base64Exact ==
  image # NoImage =>
    LET encoded == Text(Field(envelope, "image"), "data_base64")
    IN image = IF encoded # <<>> /\ Encoding(Candidate(encoded)) = encoded
                 THEN Candidate(encoded) ELSE Malformed

\* Every question asked is answered under its own id.  A score is the model's logit for
\* the label that stood beside that option in that question's prompt, the choice is
\* the largest, at a tie the first in the order of the ids, and the answer echoes the
\* request's id.
ScoresBelongToOptions ==
  pc = "answered" =>
    LET asked == Keys(Questions)
    IN /\ DOMAIN response.questions = ToSet(asked)
       /\ response.request_id = IF Has(envelope, "request_id")
                                   THEN Text(envelope, "request_id") ELSE NoId
       /\ \A k \in DOMAIN asked :
            LET value == Questions.object[asked[k]]
                answer == response.questions[asked[k]]
                criteria == Field(value, "criteria").object
                Shown(id) == {row \in ToSet(prompts[k].rows) :
                                row.description = Escaped(Visible(id, criteria[id]))}
                logit(id) == logits[k][Token[(CHOOSE row \in Shown(id) : TRUE).letter]]
            IN /\ prompts[k].question = Text(value, "instructions")
               /\ \A id \in DOMAIN criteria :
                    /\ Cardinality(Shown(id)) = 1
                    /\ answer.raw_logits[id] = logit(id)
                    /\ answer.probabilities[id] = logit(id) - logit(answer.choice)
                    /\ \/ logit(id) < logit(answer.choice)
                       \/ logit(id) = logit(answer.choice)
                            /\ (id = answer.choice \/ Before(answer.choice, id))
               /\ DOMAIN answer.probabilities = DOMAIN criteria
               /\ DOMAIN answer.raw_logits = DOMAIN criteria
================================================================================

-------------------------- MODULE MCBranchscoreServer --------------------------
(***************************************************************************)
(* Small instances of BranchscoreServer: a context of 6 positions, a       *)
(* budget of 5 per Prefill and of 8 per request, so that two questions can *)
(* each be within their budget and together beyond the request's.          *)
(***************************************************************************)
EXTENDS BranchscoreServer

CONSTANTS IdA, IdB

Question(ids, placeholders) ==
  [valid |-> TRUE, ids |-> ids, placeholders |-> placeholders, delimited |-> TRUE,
   labels |-> TRUE]

Refused(status) ==
  [read |-> status, url |-> "", method |-> "", json |-> FALSE, body |-> "",
   request_id |-> NoId, image |-> NoImage, oversized |-> FALSE, questions |-> <<>>]

Get(url, method) == [Refused(0) EXCEPT !.url = url, !.method = method]

Post(body, id, image_, questions) ==
  [Get("/v1/systemone", "POST") EXCEPT
     !.json = TRUE, !.body = body, !.request_id = id, !.image = image_,
     !.questions = questions]

Image(visual, decodes) == [visual |-> visual, decodes |-> decodes]

Plain == Question(4, 0)
Unlabelled == [Plain EXCEPT !.labels = FALSE]
Undelimited == [Question(3, 1) EXCEPT !.delimited = FALSE]
Unrenderable == [Plain EXCEPT !.valid = FALSE]

\* Refusals of every layer, and requests that reach the engine; each budget is met
\* exactly and exceeded by one.
MCRequests ==
  {Refused(401), Get("/other", "GET"), Get("/ui", "POST"), Get("/healthz", "GET"),
   [Post("ok", IdA, NoImage, <<Plain>>) EXCEPT !.json = FALSE],
   Post("syntax", NoId, NoImage, <<>>),
   Post("invalid_request", IdA, NoImage, <<>>),
   [Post("ok", IdB, Image(1, TRUE), <<Question(3, 1)>>) EXCEPT !.oversized = TRUE],
   Post("ok", IdA, NoImage, <<Plain, Question(6, 0)>>),
   Post("ok", NoId, NoImage, <<Question(7, 0)>>),
   Post("ok", IdB, NoImage, <<Plain, Question(5, 0)>>),
   Post("ok", IdA, NoImage, <<Plain, Unrenderable>>),
   Post("ok", IdA, NoImage, <<Plain, Question(4, 1)>>),
   Post("ok", IdB, Image(3, TRUE), <<Question(3, 1), Undelimited>>),
   Post("ok", IdA, Image(2, FALSE), <<Question(3, 1)>>),
   Post("ok", NoId, NoImage, <<Unlabelled>>),
   Post("ok", IdA, NoImage, <<Plain, Plain>>),
   Post("ok", NoId, Image(3, TRUE), <<Question(3, 1)>>)}
==============================================================================

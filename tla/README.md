# TLA+ models of branchscore

branchscore answers multiple-choice questions with a Gemma 4 model: a prompt goes through
the model once (Prefill), the logits of the last position are compared at the answer
labels, and an HTTP server wraps this as `POST /v1/systemone`.  This directory models the
program in TLA+, checks it with TLC and proves what matters most of its stateful
components with TLAPS.  Paths below are relative to the repository.

## The system

| Component | State it keeps | Operations | Made correct by |
|---|---|---|---|
| Prefill engine, `src/prefill_engine.cpp` | chunk position, graph inputs, persistent logits | `prefill`: checks, chunk loop, layers, freeze | chunks compute what one causal pass computes |
| State cache, `src/state_cache.cpp` | K/V tensors per stored layer, capacity, frozen prefix | construct, copy K/V, `source_layer`, `freeze_prefix` | reads only initialised rows of the right layer |
| Decision engine, `src/gemma4_decision_engine.cpp` | none between calls | `estimate_prefill_positions`, `evaluate` | budgets; the estimate is what Prefill then holds |
| Request reader, `tools/branchscore_server.cpp` | `ParseContext` | llhttp callbacks, `receive_request` | limits on the whole request, checks before the body, a deadline |
| Response writer, same file | bytes sent | `send_all` | every byte once, in order, in time |
| Server loop, same file | listener queue, `stopping`, the connection in hand | `run_server`, `handle_connection` | own answers, preflight first, everyone served, stops |
| JSON codec, `src/json.cpp` | parser position | parse, stringify | a text means what the grammar says, or is refused |
| Adapter, `src/systemone_adapter.cpp` | none | `parse_request`, `make_response` | one status per malformed request, one answer per question |
| Renderer and labels, readout | none | render, gather, summarize | every score belongs to its option; the largest logit is selected, ties by order |
| Tokenizer, `src/tokenizer.cpp` | vocabulary, merges | load, tokenize, check of answer labels | the ids of greedy merging by rank; labels are single tokens at a boundary |
| Image preprocessor, vision encoder | none between calls | inspect, resize, encode | aligned sizes within limits, the estimated token count |
| Browser page (in the server's source) | token, model, options, image, submission | Connect, edit, import, choose image, submit | an answer belongs to what the form showed |
| Backend context, model loader | device, weights | select, load | every weight is its own bytes; the two files fit |
| `branchscore`, `branchscore_bench` | arguments, rows, output stream | parse, load, evaluate, report | success means the whole report, of its own rows |

Calls go one way: the server loop calls the reader, the adapter, the engine for every
question and the writer; the engine calls renderer, tokenizer, preprocessor, encoder,
prefill and readout.  The page calls the server and goes on while it waits.  The server
has one thread.  What is concurrent is its environment: peers that cut, delay, break off
or never read; clients in the listener's queue; a signal handler that sets one flag; a
backend that can fail at any call.  The hard behaviours are therefore the cut of bytes
into reads and writes, deadlines, leftovers of one connection in the next, and, inside
Prefill, the interplay of three partitions of the same positions (text/visual segments,
microbatches, padding) with a cache that layers share.  The page's handlers interleave at
their awaits.  Elsewhere the difficulty is sequential: lists kept in parallel across four
files, queues with stale entries, and arithmetic at the edges of sizes, encodings and
offsets.  `PROJECT.json` lists these hazards at their lines.

## The modules

`StateCache` is the state of `StateCache` in the code.  A slot of a tensor holds the
`<<layer, position>>` whose K/V was copied there, `Zero` when the buffer was cleared,
`Unset` when it was only allocated; K and V are always copied and viewed together, so one
slot stands for both.

`PrefillEngine` extends it with `PrefillEngine::prefill`.  Actions follow the code's
order: `Start`/`Reject` (width, context, capacity, sharing), `BuildChunk`/`RejectChunk`
(inputs of a chunk, layer lookups), `StoreKV` and `AttendLayer` per layer of the graph,
`FinishChunk` (logits of the last chunk, next chunk), `Freeze`, and `BackendFailure` for
unsupported ops, allocations and computations that fail.  Tensors are abstracted to where
their rows come from; arithmetic inside a layer is not modelled, except that the output of
a layer at a position depends on the rows its attention read.

`CausalPass` is the abstract specification: positions attend their causal scope in any
grouping, never before the keys they need are known, and the answer is read from the last
position.  `PrefillEngine` implements it (`RefinesCausalPass`).

`HttpReceive` is `receive_request`.  llhttp is external: a request is the list of events
it reports.  Each action is one callback on any number of the bytes that are left of the
current part, so every cut of a request into reads is a behaviour.  `Tick`, `PeerBreaks`
are the environment, `TimeOut` and `Broken` the two ends that are not the parser's.

`ResponseSend` is `send_all` on a blocking socket, with the kernel's buffer and the peer
that empties it as environment.  Byte *i* of the response is the number *i*.

`DecisionEngine` holds the budget arithmetic and the stages of `evaluate` with each check
that can stop it.  `BranchscoreServer` extends it with the loop and the handling of a
connection; reading and writing are one step each there (the two modules above open them).
Clients connect, wait, leave.  A question or an image is what the checks look at.

`DecisionService` is the abstract specification: connections have their turn one at a time
in the order they came, no question is run that is not admitted (`Admits`) and none twice,
a turn ends with one deserved answer (`Deserves`), or none if the client has left.
`BranchscoreServer` implements it (`RefinesDecisionService`).

`BrowserPage` is the page's script.  A handler is cut at each `await`; in between, any
other handler may run.  The submit handler waits first for the file's bytes, then for the
answer, the connect handler for one answer.  Server, network and file reads are external
and settle in any order, with success or failure.  A 200 answer is assumed to hold the
object the server builds: `renderResponse` shows the panel before it reads the payload
(`:280`), so another server's malformed 200 would leave the earlier choice on display.
`accepted` is a history variable: the token whose health answer set the model.

`Tokenization` says what a tokenizer with byte fallback promises of a whole text;
`GemmaTokenizer` is the code, a step being one turn of a loop: `Load` of a GGUF vocabulary
with its refusals, splitting at special tokens (`Split`, `RawEnds`), `Escape` of a byte,
`NextSegment` at newline runs, `CutCharacter`, `FillQueue`, the linked symbols and the
candidate queue of the merge loop (`PopStale`, `PopMerge`), `EmitSymbol` with its fallback,
and `CheckLabel` with the shortcut for the fixed suffix.  `GreedyMerge` is the abstract
specification of a segment: a set of cuts instead of a list, no queue; the best ranked
pair of neighbouring parts, the leftmost of several, loses the cut between them until no
pair has a rank, then the parts are written from left to right.  `GemmaTokenizer`
implements it (`MergesGreedily`).

`VisionInput` follows one image: `Inspect` of the header, decoding, target size, the
windows of the resampling filter, the attention paths of `encode`, the order of patches
and pooled tokens.  Factors and window bounds are exact fractions; the code's doubles may
turn a quotient that is a whole number into one just below or above, which `drift` chooses
for the factors and `Cut` for each bound (any other quotient is further from a whole number
than the doubles err).

`Json` holds parser and writer as operators over tokens (strings byte by byte) beside the
grammar they are compared with.  `SystemoneAdapter` extends it with the path of a request:
envelope, validation in the code's order, image, rendering, readout, response.  The model
gives any logit to any token.

`ModelLoading` selects a device, then copies the tensors of both files chunk by chunk,
each weight remembering which bytes of the file it came from, and checks keys,
configuration and tensors.  `CommandLine` extends it with the two programs, from arguments
to exit status, with a buffered output stream whose flushes may fail and other programs
that may create the file.

`Sums` has sums of naturals as cardinalities, which theorems on finite sets can be applied
to; `HttpReceive` counts header bytes with it, `BranchscoreServer` positions.

MC modules give the small instances.  `PrefillProofs`, `SendProofs`, `ReceiveProofs`,
`ServerProofs`, `PageProofs`, `VisionProofs`, `LoaderProofs` and `TokenizerProofs` hold the
proofs about the module they extend; the two that need sums begin with the lemmas on them.
Operators named after a fault (`BlockedLate`, `RenewedDeadline`, ...) stand in front of
the operator they would replace; they are the mutants listed in `PROJECT.json` and occur
in no behaviour.

## What the runs show

| Run | Shows | Bounds |
|---|---|---|
| `prefill` | Attention reads only rows inside the tensor that hold finite values; inputs and per-layer ids follow the prompt; attention is causal; a returned state is whole; shape and freeze checks never throw, and capacity only where padding exceeds an uneven context; it ends; it refines `CausalPass` | chunks of 2 (512), padding to 4 (256), window 2, prompts of 0-9 positions in all splits of before/visual/after, six layer layouts (Gemma's in small and the ones the code rejects), both cache kinds |
| `http_receive` | The verdict and the content type kept are those of the whole request however it is cut; no body byte is stored before the head passed; reading ends within one timeout; it ends whatever the peer does | URL 3 bytes, 18 header bytes, 2 headers, body 3; requests at and beyond each limit, trailers, both binds; 2 ticks |
| `response_send` | No byte lost or repeated over several calls, success means all bytes, the call ends unless the peer stalls | 5 bytes, buffer 2, timeout 2, clock 4, 2 signals |
| `server` | No question runs before all fit the budgets; answers carry their own id and a status their request deserves; a success answers every question with the positions preflighted; each accepted connection is answered once; it refines `DecisionService`; a signal stops the loop; queued clients are served | 2 clients with any of 18 requests (every refusal, every engine failure, one and two questions, each budget met and exceeded by one), backlog 2 (8) |
| `browser_page` | Tokens sent are those shown; a submission starts under the token shown, and goes out with a token accepted since it was typed or that Connect is asking about; the result on display is of the latest press; the page never stays locked | 2 tokens, 3 keys, 2 files, 3 options (512), lists to paste of up to 4 keys |
| `tokenizer` | List and queue implement `GreedyMerge` step by step; the ids are those of the plain rule, or throws exactly where a byte has no fallback; no byte is lost; the label shortcut gives the verdict of the whole prompt | texts of up to 5 bytes, prompts of up to 3 before the suffix, with `<bos>` of up to 2, 4 vocabularies, 5 files that are refused |
| `vision` | Sizes are aligned and within the limits unless the image is extremely narrow; resampling covers the image however its bounds were rounded; tokens pool their own squares; the estimate holds | patches of 2 merged by 2 (16, 3), 4-32 tokens (70-1120), images up to 28x28, strips up to 1x700 |
| `adapter` | JSON texts mean what the grammar gives them; base64 is decoded exactly when canonical; scores and choice belong to their options | every 5 tokens, objects with one edit, pairs of string units, every quad over the boundary digits, 2 questions of up to 4 options (512), logits 0-2 |
| `bench` | Weights come from their own bytes; a program's output is the beginning of what was asked, and success means all of it | 3 devices, models of two blocks and those with one thing wrong, chunks of 2 bytes, up to 3 lines of input |
| `stale_image` | *violated*: the image sent is the file the form shows | as `browser_page` |
| `write_timeout` | *violated*: the documented 10-second write timeout | as `response_send` |
| `ui_exception` | *violated*: the documented match of method and path in the authentication exception | as `http_receive` |

Why the bounds are enough.  In `prefill` every boundary of a segment falls on, before and
after a chunk boundary, three chunks exist, the window is left behind and padding does and
does not fit; the theorems below remove the bound.  In `http_receive` each limit is met
and exceeded with a part split over two reads; nothing in the code looks further back than
the counters of the context.  In `response_send` the buffer fills twice.  In `server`
state left by one connection can only reach the next, so two clients suffice, and both may
wait, so that their order counts.  The page has one connect and one submission at a time;
two tokens and two files tell "before" from "after" at each await.  In `tokenizer` five
bytes allow a merge that makes its left, its right and both neighbouring candidates stale,
and a text cut twice.  In `vision` the bounds cross both pixel limits and both clamps;
sizes enter the code only as quotients of them.  In `adapter` a JSON text is wrong at one
place, or short enough for all texts.  In `bench` tensors are shorter than, equal to and
longer than one and two chunks, with gaps and out of order, and a buffered line may be
lost at each flush.

### The three divergences

* `send_all` checks its deadline before `poll`; the `send` that follows blocks until the
  whole rest is taken (`tools/branchscore_server.cpp:725`).  A peer that stops reading
  holds the only thread.  `docs/phases/phase-4-plus-http-server.md:86-87` promises a
  10-second write timeout.
* `on_headers_complete` (`:574`) compares the URL only; line 159 of the same document
  asks for method and exact path.  `POST /ui` is read to its end without a token, then
  answered 405.
* The submit handler of the page assigns `imageValue` after it has awaited the file's bytes
  (`tools/branchscore_server.cpp:339`), and only a change of the input resets it.  A file
  cleared while it is read stays there, and the next submission, which shows no file, sends
  it.  The same document, lines 184-186, has one optional file with a remove action.

The modelling met more that no run states.  The benchmark looks whether its output exists
before it loads the model and truncates whatever is there when it opens it
(`tools/branchscore_bench.cpp:387`, `:403`), and it decides on success before its stream's
last flush (`:431`), where `docs/phases/phase-3-evaluation-debug.md:77` asks to "Refuse
silent truncation and accidental output overwrite"; `ReportIsWhole` excepts just these two
cases (`SomeoneCreates`, `tail_lost`).  A Connect answer that comes after the token was
edited makes the page look connected with no token.  The submit handler compares again
(`:314`) and refuses as long as the token is not the field's, but Connect assigns the new
token before its answer (`:232`) and keeps the old model, so a submission may start under
a token whose own check is still awaited; the server then decides.
`EvaluatesUnderTriedToken` says just this: accepted since it was typed, or being asked
about, never neither.  An error of `accept` that concerns one connection only (`:1073`)
ends the server; no document promises otherwise, and `StopsWhenAsked` and
`EveryoneIsServed` count a failed server as ended.  An image with an aspect ratio beyond
1120 is prepared above the pixel limit (`Ordinary` in `SizeWithinLimits`); its estimate is
as large, so the preflight counts what Prefill gets.  A projector whose patch and merge
sizes multiply to a multiple of 2^32 has a pixel limit of zero in the check of its
configuration.

### Fairness

* `prefill`: weak fairness of the call's own steps; one thread that keeps running.
  Backend failures are not fair.
* `http_receive`: the clock advances and a poll whose time is over returns.  The peer
  owes nothing.
* `response_send`: the server's steps and the clock.  The peer need not read, which is
  why `EndsUnlessPeerStalls` has the stalled peer as its alternative.
* `browser_page`: file reads and requests settle.  The user owes nothing.
* `server`: weak fairness of the steps the loop takes of its own accord.  An
  interrupted or failing `poll` or `accept` is possible, never promised.  Reading ends
  by `ReadTerminates`; a backend call is assumed to return; sending is assumed to end,
  which `write_timeout` shows to depend on the peer: `EveryoneIsServed` and
  `StopsWhenAsked` hold under that assumption only.

## What is proved

For every set of configurations, prompts, `Microbatch > 0` and `PadUnit > 0`
(`PrefillProofs`):

`TypeCorrect`, `ViewsAreInitialised`, `InputsInOrder`, `AttentionIsCausal`,
`ReturnedStateIsWhole`, `ErrorsAreExpected` — the six safety properties of the `prefill`
run — and `PrefillRefinesPass`: `Spec => RefinesCausalPass`.

Assumptions are those of the modules: `ConfigsAssumption` (a layer exists and the pattern
names layers of the model, which the loader checks), `ShapesAssumption`,
`ChunkAssumption`, `SlotAssumption` and `NoneAssumption` (distinct markers).

The properties are not inductive: that attention read the right rows now needs to know
what each cache slot holds before it reads.  `IInv` therefore says how far each of three
fronts has come at every point of the loop: inputs fed up to `FedUpTo`, K/V of layer *l*
stored up to `StoredUpTo(l)` with the rest of the tensor as initialised, attention of
layer *l* done up to `AttendedUpTo(l)` with exactly `CausalKeys`; and which control facts
the checks have established (`ControlInv`).  `FedInOrder`, `AttendsCausally` and
`OnlyExpectedErrors` are kept in it for failed calls, where the fronts say no more.
`ChunkInputRows` is the arithmetic core (the concatenated overlaps are the prompt's rows
of the chunk), `ReadRowsCausal` the other (unmasked rows of the view are the causal
scope).  The refinement maps `Start`, `StoreKV`, a non-last `FinishChunk` to stutters and
the rest to `Feed`, `Attend`, `ReadLast`, `Finish`, `Fail`.

`ResponseSend`, for every length, buffer, timeout and number of signals (`SendProofs`):
`TypeCorrect`, `BytesInOrder`, `SuccessMeansWhole`.  What has to be added is
`CountsAgree`: what returned sends have taken and what the running one has copied are
together the bytes on the wire.

`HttpReceive`, for every set of requests and every limit (`ReceiveProofs`): `TypeCorrect`,
which bounds header bytes, header count and body bytes by their limits with trailers and
portions of any size, `EndsInTime`, `AnswersTheWholeRequest` (the verdict and the content
type are those of the uncut request) and `NoBodyBeforeTheHead`.  `EndsInTime` needs that
the deadline never moves and that the clock does not pass it.  The verdict needs
`Progress`: the counters of the context are what the parts before the current one, and the
bytes taken of it, add up to (`Place`, `UrlInv`, `HeadInv`, `BodyInv`), and no limit was
passed on the way.  Since prefixes of a sum only grow (`FirstMonotone`), a limit passed
early is passed by the whole, and one never passed holds for it.  `ContentTypeInv` follows
the headers and trailers together, since a trailer may replace the type of the head.
`PartsType` shows that the parts of a message end in its completion, so the parser never
runs past them.  Assumed are the types of requests (`RequestsAssumption`), limits in
`Nat`, a method of at most `MaxMethod` bytes (llhttp knows no longer one) and `MaxMethod +
MaxUrl <= MaxHeaderBytes` (32 + 4096 against 16384 in the code), without which a long URL
would meet the header limit first.

`BranchscoreServer`, for any number of clients, any requests and every backlog
(`ServerProofs`): `TypeCorrect`, `EveryConnectionAnsweredOnce`, `NothingRunsUnchecked`,
`EveryAnswerIsOwn` and `ServiceIsImplemented`, that is `Spec => RefinesDecisionService`.
The invariant has five parts.  `Places`: who is queued, in hand, served or gone, each
client in one place.  `RequestInv`: how far the connection in hand has come, with the
results so far being the answers to its first questions.  `EngineInv`: the engine's
arguments are those of the current question.  `DueInv`: what the checks passed so far have
established about the whole request, above all that the positions counted are the sum of
the questions before the one in turn (`Preflighted`), so that one question too many shows
the sum of all to be too large; and that the engine, after the preflight, throws no budget
error (`EngineAfterPreflight`).  `RunsInv`: the connection in hand has run the questions
before the one in turn, and that one as soon as the engine executes.  In the refinement,
connecting, leaving and accepting map to `Come`, `GiveUp`, `TakeNext`, the engine's first
backend call for a question to `RunQuestion`, sending to `Answer` or `Drop`, the end of
the loop to `Close`, and all the checks in between to stutters.  `RequestsAssumption` is
what reader and adapter ensure: a failure to read has an error status, an accepted body
asks something, an image has at least one visual token.

`VisionInput`, for images of every size and all patch, merge and pixel settings
(`VisionProofs`): `SizeIsAllowed`, `NoPixelIsMissed`, `TokensAreSquares` and
`EstimateIsKept`.  The core is arithmetic: two sides that are each within, or each beyond,
what an area allows them have a product within or beyond it (`SidesBelow`, `SidesAbove`);
floor and ceiling move a side by less than one unit; every source pixel is in the window
of the target pixel its middle falls into, even when both bounds came out one less, and
the kernel has the one weight more that a window may then need.  `SizeInv` and
`EstimateInv` carry the chosen size from `Inspect` to the tokens.  Assumed: `4 * MinPixels
<= MaxPixels` (the code has 16 times), positive image sizes, and `TableAssumption`, that
the position table has a row for every patch of the longest strip the limits let through;
the code never compares the two, so the model file has to hold it.

`BrowserPage`, for every set of tokens, keys and files (`PageProofs`):
`ResultIsOfLatestSubmit`, `BearerIsShown`, `EvaluatesUnderToken`.  `TokenInv` says the
connected token is the field's or none, `TriedInv` that it is the one Connect waits for or,
with nothing to wait for, the one the server accepted (the model id alone does not tell,
it may come from the answer to an earlier token), `QuestionInv` that a submission carries
the question asked and nothing is displayed meanwhile.

`CommandLine`, for every pair of files, `CopyChunk > 0` and any devices (`LoaderProofs`):
`LoadsInPlace`, that is `Spec => []WeightsArePlaced`, and `ReportsAreWhole`, that is
`Spec => []ReportIsWhole`.  `CopyInv` follows the copying loop:
tensors before the one in turn are whole, later ones empty, and of that one a beginning is
there, up to where the stream stands (`RunsJoin`: two adjacent runs of bytes are one).
`PhaseInv` keeps the text model whole while the projector is loaded.  `ModelsAssumption`
is what the GGUF reader ensures: no tensor name twice, values of their declared type.
`ReportInv` relates the lines of input read so far to the rows written (`BenchInv`), the
rows to what the file holds and the stream still buffers (`WrittenInv`, `StreamInv`), and
both to the exit status (`ExitInv`).  `Asked` numbers the input lines that ask something by
counting those before them, and one line more is one row more or none.

`GemmaTokenizer`, for every file, every set of calls and texts of any length
(`TokenizerProofs`): `MergeInvariant` and `GreedyMerging`, that is `Spec => MergesGreedily`.
The invariant has three parts.  `Listed`: the live symbols tile the segment in the order
of their numbers, and each links to the next and back.  `Candidate`: a candidate whose two
symbols are both alive links neighbours; its left symbol is as it was when the candidate
was made, its right one may have grown, and this is what the code's comparison of text
finds out (`NotStale`).  `Complete`: the queue holds a candidate for every ranked pair of
neighbours, so that none is forgotten when its neighbours merge.  The least candidate that
is not stale is then the least ranked pair (`TopIsBest`), and an empty queue means that no
pair has a rank (`RefinesMergeEnds`).  The comparison by text alone, without versions, is
thereby right for any merges, ambiguous ones included.  In the refinement `PopStale` maps
to a stutter, `FillQueue` to `BeginSegment`, every step before or after to `WriteBetween`.
That a least candidate exists (`LeastPair`) comes from the library's theorem that inclusion
of finite sets is well founded.
Assumed (`TokenizerAssumption`): texts, pieces and merge entries are sequences of bytes, and
the answer suffix begins with the turn token, as the two literals in the code do.

Where a fold would have needed induction over data, the theorems above use cardinalities:
`SumOf` counts pairs, and `FirstAdd` says what one term more adds.

Only model-checked: all liveness (`Terminates` and the other temporal properties are out
of the prover's reach), and the invariants of `GemmaTokenizer` and `SystemoneAdapter`.
`TokenizesAsSpecified` and `LabelVerdictIsWhole` compare results of whole texts with
recursive functions, `NoTextLost` flattens a list of pieces, and those of
`SystemoneAdapter` compare with the grammar of JSON and with base64: what these give for
every input only induction over data could show.

## What is not modelled

* Tensor arithmetic, softmax and precision; filter weights and normalisation of pixels.
* The fixed words of prompts and messages, and the SHA-256 that identifies a prompt
  template: arithmetic on 32-bit words, which TLC's integers do not hold.
* Timings, percentiles and the layout of reports and printed text; `branchscore-tokenize`,
  which prints what `GemmaTokenizer` returns.
* The server's start-up arguments and `bind`, and two processes on one port.
* What the kernel does with unread data when a refused connection is closed: a reset may
  overtake the answer.  This hazard is listed without a property.
* The programs under `docs/records`, snapshots of experiments.

## What is left

1. That the parts `GreedyMerge` writes are, segment after segment, the ids `Tokenization`
   gives the text: the recursion of the one is the run of the other, an induction over data.
2. A composition of `BrowserPage` with `BranchscoreServer` instead of an external server.

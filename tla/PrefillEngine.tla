----------------------------- MODULE PrefillEngine -----------------------------
(***************************************************************************)
(* PrefillEngine::prefill (src/src/prefill_engine.cpp): the prompt goes    *)
(* through the model in chunks of Microbatch positions.  A chunk's graph   *)
(* runs the layers in order; each stored layer copies the chunk's K/V into *)
(* the cache before its attention reads the cache back under a causal      *)
(* mask.  Tensors are abstracted to where their rows come from: an input   *)
(* row to the token or visual token it embeds, a cached K/V row to its     *)
(* layer and position, an attention output to the rows it read.            *)
(***************************************************************************)
EXTENDS StateCache, Sequences

CONSTANTS
  Microbatch,   \* prefill_token_microbatch_size
  PadUnit,      \* flash attention reads the cache in multiples of this
  Shapes,       \* the prompts considered: lengths of their three segments
  None          \* no value yet

ASSUME ChunkAssumption == Microbatch \in Nat \ {0} /\ PadUnit \in Nat \ {0}

\* visual = 0 stands for a prompt without visual tokens; width_matches says that
\* the visual tokens, if any, have the text model's embedding length.
ASSUME ShapesAssumption ==
  Shapes \subseteq [before : Nat, visual : Nat, after : Nat, width_matches : BOOLEAN]

\* The values an input row can have, and None apart from them.
Segments == {"before", "visual", "after", "pad"}
Rows == (Segments \X Nat) \X (Segments \X Nat)

ASSUME NoneAssumption == None \notin Nat /\ None \notin Rows

VARIABLES
  shape,          \* the prompt of this call
  pc,             \* "start", "build", "store", "attend", "logits", "done", "failed"
  error,          \* which check threw, "none" otherwise
  chunk_start,
  layer,          \* the layer the running graph has reached
  fed,            \* position -> <<embedding row, per-layer id>> it was given
  attended,       \* <<layer, position>> -> the cache rows its attention used
  logits          \* the position the persistent logits were read from

vars == <<cacheVars, shape, pc, error, chunk_start, layer, fed, attended, logits>>

\* ---- the prompt ----------------------------------------------------------

TokenCount == shape.before + shape.visual + shape.after
VisualBegin == shape.before
VisualEnd == VisualBegin + shape.visual
Positions == 0 .. (TokenCount - 1)

Lesser(a, b) == IF a < b THEN a ELSE b
Greater(a, b) == IF a > b THEN a ELSE b

PaddedCount(count) == ((count + PadUnit - 1) \div PadUnit) * PadUnit

QueryCount == Lesser(Microbatch, TokenCount - chunk_start)
ChunkEnd == chunk_start + QueryCount
CacheCount == IF flash THEN PaddedCount(ChunkEnd) ELSE ChunkEnd

\* The tensors of a chunk: the part of each segment that falls into the chunk,
\* concatenated in prompt order.
OverlapStart(first) == Greater(chunk_start, first)
OverlapEnd(last) == Lesser(ChunkEnd, last)

OverlapCount(first, length) == OverlapEnd(first + length) - OverlapStart(first)

SegmentRowsNoOffset(segment, first, length) ==
  [i \in 1 .. OverlapCount(first, length) |-> <<segment, i - 1>>]
SegmentRows(segment, first, length) ==
  [i \in 1 .. OverlapCount(first, length) |->
     <<segment, OverlapStart(first) - first + (i - 1)>>]

Overlap(segment, first, length) ==
  IF OverlapStart(first) < OverlapEnd(first + length)
    THEN SegmentRows(segment, first, length)
    ELSE <<>>

ChunkInput ==
  Overlap("before", 0, shape.before)
    \o Overlap("visual", VisualBegin, shape.visual)
    \o Overlap("after", VisualEnd, shape.after)

\* The per-layer embedding is looked up by position: token 0 for visual ones.
PadId == <<"pad", 0>>
PerLayerId(p) ==
  IF p < shape.before THEN <<"before", p>>
  ELSE IF p >= VisualEnd THEN <<"after", p - VisualEnd>>
  ELSE PadId

\* ---- masks ---------------------------------------------------------------

\* window 0 masks the future only.
BlockedLate(query, key, window) ==
  key > query \/ (window # 0 /\ key + window < query)
Blocked(query, key, window) ==
  key > query \/ (window # 0 /\ key + window <= query)

Window(l) == IF IsSlidingWindow(l) THEN config.sliding_window ELSE 0

ReadRows(l, query) ==
  {cache[SourceLayer(l)][key] :
     key \in {k \in 0 .. (CacheCount - 1) : ~Blocked(query, k, Window(l))}}

\* ---- actions -------------------------------------------------------------

Init ==
  /\ CacheInit
  /\ shape \in Shapes
  /\ pc = "start"
  /\ error = "none"
  /\ chunk_start = 0
  /\ layer = 0
  /\ fed = [p \in Positions |-> None]
  /\ attended = [lp \in Layers \X Positions |-> {}]
  /\ logits = None

Throw(reason) ==
  /\ pc' = "failed"
  /\ error' = reason
  /\ UNCHANGED <<cacheVars, shape, chunk_start, layer, fed, attended, logits>>

Capacity == IF flash THEN PaddedCount(TokenCount) ELSE TokenCount

StartError ==
  IF ~shape.width_matches THEN "width"
  ELSE IF TokenCount = 0 \/ TokenCount > config.context_length THEN "context"
  ELSE IF ~CapacityAllowed(Capacity) THEN "capacity"
  ELSE IF ~SharingAllowed THEN "sharing"
  ELSE "none"

\* The context check and the construction of the state cache.
Start ==
  /\ pc = "start"
  /\ StartError = "none"
  /\ CreateCache(Capacity)
  /\ pc' = "build"
  /\ UNCHANGED <<config, flash, prefix_length, shape, error, chunk_start, layer,
                 fed, attended, logits>>

Reject ==
  /\ pc = "start"
  /\ StartError # "none"
  /\ Throw(StartError)

BuildError ==
  IF Len(ChunkInput) # QueryCount THEN "shape"
  ELSE IF \E l \in Layers : ~(HeadsMatch(l) /\ SourceDefined(l)) THEN "layer"
  ELSE "none"

\* The graph of the next chunk: its inputs, then its layers, whose shared
\* ones look up the layer they read.
BuildChunk ==
  /\ pc = "build"
  /\ chunk_start < TokenCount
  /\ BuildError = "none"
  /\ fed' = [p \in Positions |->
               IF p \in chunk_start .. (ChunkEnd - 1)
                 THEN <<ChunkInput[p - chunk_start + 1], PerLayerId(p)>>
                 ELSE fed[p]]
  /\ layer' = 0
  /\ pc' = "store"
  /\ UNCHANGED <<cacheVars, shape, error, chunk_start, attended, logits>>

RejectChunk ==
  /\ pc = "build"
  /\ chunk_start < TokenCount
  /\ BuildError # "none"
  /\ Throw(BuildError)

\* A layer that stores K/V copies the chunk's; a shared layer has none.
StoreKV ==
  /\ pc = "store"
  /\ IF layer < StoredCount
       THEN StorePositions(layer, chunk_start, ChunkEnd)
       ELSE cache' = cache
  /\ pc' = "attend"
  /\ UNCHANGED <<config, flash, capacity, prefix_length, shape, error,
                 chunk_start, layer, fed, attended, logits>>

AfterLastLayerEarly == layer + 2 >= config.block_count
AfterLastLayer == layer + 1 = config.block_count
NextChunkStartStuck == chunk_start
NextChunkStart == chunk_start + Microbatch

\* Attention of one layer.  After the last one the graph is done: the last
\* chunk also reads the logits off its last row, and the loop moves on.
AttendLayer ==
  /\ pc = "attend"
  /\ attended' = [lp \in Layers \X Positions |->
                    IF lp[1] = layer /\ lp[2] \in chunk_start .. (ChunkEnd - 1)
                      THEN ReadRows(layer, lp[2])
                      ELSE attended[lp]]
  /\ IF AfterLastLayer
       THEN /\ pc' = "logits"
            /\ layer' = layer
       ELSE /\ pc' = "store"
            /\ layer' = layer + 1
  /\ UNCHANGED <<cacheVars, shape, error, chunk_start, fed, logits>>

LastRowPast == chunk_start + QueryCount
LastRow == chunk_start + (QueryCount - 1)

\* The graph has been computed: the last chunk's logits are copied out.
FinishChunk ==
  /\ pc = "logits"
  /\ logits' = IF ChunkEnd = TokenCount THEN LastRow ELSE logits
  /\ chunk_start' = NextChunkStart
  /\ pc' = "build"
  /\ UNCHANGED <<cacheVars, shape, error, layer, fed, attended>>

\* An op the backend lacks, a failed allocation or a failed computation.
BackendFailure ==
  /\ \/ pc = "start" /\ StartError = "none"
     \/ pc = "build" /\ chunk_start < TokenCount
     \/ pc \in {"store", "attend"}
  /\ Throw("backend")

\* Every chunk is in: the prefix is frozen, once, and the state returned.
Freeze ==
  /\ pc = "build"
  /\ chunk_start >= TokenCount
  /\ IF FreezeAllowed(TokenCount)
       THEN /\ prefix_length' = TokenCount
            /\ pc' = "done"
            /\ UNCHANGED <<config, flash, capacity, cache, shape, error, chunk_start,
                           layer, fed, attended, logits>>
       ELSE Throw("freeze")

Halted == pc \in {"done", "failed"} /\ UNCHANGED vars

Step == Start \/ Reject \/ BuildChunk \/ RejectChunk \/ StoreKV \/ AttendLayer
          \/ FinishChunk \/ Freeze

Next == Step \/ BackendFailure \/ Halted

Spec == Init /\ [][Next]_vars

\* The call runs on one thread that keeps running.
FairSpec == Spec /\ WF_vars(Step)
------------------------------------------------------------------------------

Errors == {"none", "width", "context", "capacity", "sharing", "shape", "layer",
           "backend", "freeze"}
SlotContents == (Nat \X Nat) \cup {Zero, Unset}

\* Every variable has its type: the cache tensors exist exactly for the stored
\* layers and have the capacity the cache was made with.
TypeOK ==
  /\ config \in Configs
  /\ flash \in BOOLEAN
  /\ capacity \in Nat
  /\ cache \in [StoredLayers -> [Slots -> SlotContents]]
  /\ prefix_length \in Nat
  /\ shape \in Shapes
  /\ pc \in {"start", "build", "store", "attend", "logits", "done", "failed"}
  /\ error \in Errors
  /\ chunk_start \in Nat
  /\ layer \in Layers
  /\ fed \in [Positions -> Rows \cup {None}]
  /\ attended \in [Layers \X Positions -> SUBSET SlotContents]
  /\ logits \in Positions \cup {None}

\* What an attention is about to read, masked rows included, lies inside the
\* cache tensor and holds finite values: flash attention multiplies the rows the
\* mask blocks as well, and one row of leftover memory there would spoil the
\* result (the comment at the end of StateCache's constructor).
ViewInitialised ==
  pc = "attend" =>
    /\ CacheCount <= capacity
    /\ \A key \in 0 .. (CacheCount - 1) : cache[SourceLayer(layer)][key] # Unset

\* The tensors a chunk is assembled from give every position the embedding of
\* its own token or visual token, across chunk and segment boundaries, and the
\* per-layer id of the same token (of token 0 for a visual position).
PromptRow(p) ==
  IF p < VisualBegin THEN <<"before", p>>
  ELSE IF p < VisualEnd THEN <<"visual", p - VisualBegin>>
  ELSE <<"after", p - VisualEnd>>

FedInOrder ==
  \A p \in Positions :
    fed[p] # None =>
      /\ fed[p][1] = PromptRow(p)
      /\ fed[p][2] = IF PromptRow(p)[1] = "visual" THEN PadId ELSE PromptRow(p)

\* Chunked attention reads what one causal pass over the whole prompt would:
\* a position that has been through a layer has read the K/V of exactly the
\* positions up to its own, in a sliding-window layer the last sliding_window of
\* them, no padding among them, and all from one tensor of the same kind of
\* attention.
CausalScope(l, p) ==
  {k \in 0 .. p : Window(l) = 0 \/ p < k + Window(l)}

CausalKeys(source, l, p) == {<<source, k>> : k \in CausalScope(l, p)}

AttendsCausally ==
  \A l \in Layers, p \in Positions :
    attended[<<l, p>>] # {} =>
      \E source \in StoredLayers :
        /\ IsSlidingWindow(source) = IsSlidingWindow(l)
        /\ attended[<<l, p>>] = CausalKeys(source, l, p)

\* The state that prefill returns is complete: the frozen prefix covers the
\* prompt, every stored layer keeps the K/V of every position in its own slot,
\* and the persistent logits were read from the last position.
ReturnsWholePrompt ==
  pc = "done" =>
    /\ prefix_length = TokenCount
    /\ logits = TokenCount - 1
    /\ \A l \in StoredLayers, p \in Positions : cache[l][p] = <<l, p>>

\* The checks inside the chunk loop and after it are never the ones that throw
\* for a prompt within the context: its input always has the chunk's width and
\* the prefix can always be frozen.  Only padding for flash attention beyond the
\* end of a context that is not a multiple of PadUnit makes the cache too large.
OnlyExpectedErrors ==
  /\ error \notin {"shape", "freeze"}
  /\ error = "capacity" => flash /\ config.context_length % PadUnit # 0

\* A call comes to an end: it returns or throws.
Terminates == <>(pc \in {"done", "failed"})

\* The chunked computation is one causal pass over the prompt.
Pass == INSTANCE CausalPass WITH
  model <- config,
  prompt <- [p \in Positions |->
               <<PromptRow(p),
                 IF PromptRow(p)[1] = "visual" THEN PadId ELSE PromptRow(p)>>],
  readout <- logits,
  phase <- IF pc \in {"done", "failed"} THEN pc ELSE "running"

RefinesCausalPass == Pass!PassSpec
==============================================================================

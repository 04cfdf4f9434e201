------------------------------ MODULE ModelLoading ------------------------------
(***************************************************************************)
(* What every program does first: choose a device                          *)
(* (src/src/backend_context.cpp), then load the text model and the vision  *)
(* projector onto it (src/src/model_loader.cpp).  A GGUF file is           *)
(*   readable  its metadata can be read                                    *)
(*   keys      name -> [type, array, values]; one key of the model's many  *)
(*             for each way of reading it                                  *)
(*   data      where tensor data starts                                    *)
(*   length    of the file                                                 *)
(*   tensors   names, offsets into the data, sizes in bytes, never none    *)
(* A tensor of block b is named <<kind, b>>.  A weight is the sequence of  *)
(* the file positions its bytes came from.                                 *)
(***************************************************************************)
EXTENDS Integers, Sequences, SequencesExt, FiniteSets

CONSTANTS
  Models,           \* [text |-> file, vision |-> file] considered
  Devices,          \* sequence of [name, family, type]: what ggml reports
  CopyChunk,        \* copy_chunk_size
  SupportedBlocks,  \* 35 and 42
  MaxTokens,        \* 1120, image tokens at most
  Word              \* 2^32

NoDevice == 0

ASSUME LoadingAssumption ==
  /\ {CopyChunk, MaxTokens, Word} \subseteq Nat \ {0}
  /\ SupportedBlocks \subseteq 0 .. Word - 1

\* What gguf_init_from_file ensures of a file it accepts: no name twice, and values of
\* the type they are said to have.  No tensor of a model is empty.
ASSUME ModelsAssumption ==
  \A m \in Models : \A p \in {"text", "vision"} :
    /\ m[p].data \in Nat
    /\ DOMAIN m[p].tensors = 1 .. Len(m[p].tensors) /\ Len(m[p].tensors) \in Nat
    /\ \A i \in DOMAIN m[p].tensors :
         /\ m[p].tensors[i].offset \in Nat /\ m[p].tensors[i].bytes \in Nat \ {0}
         /\ \A j \in DOMAIN m[p].tensors :
              m[p].tensors[i].name = m[p].tensors[j].name => i = j
    /\ \A key \in DOMAIN m[p].keys :
         m[p].keys[key].type = "uint32" =>
           \A k \in DOMAIN m[p].keys[key].values : m[p].keys[key].values[k] \in 0 .. Word - 1
    /\ \A key \in DOMAIN m[p].keys :
         ~m[p].keys[key].array => DOMAIN m[p].keys[key].values = {1}

VARIABLES
  pc,
  model,
  selector,   \* the --backend argument, in lower case
  device,     \* index of the one chosen
  part,       \* file being loaded
  source,     \* index of the tensor being copied
  position,   \* of the input stream
  weights     \* part -> tensor name -> positions

loadingVars == <<model, selector, device, part, source, position, weights>>
file == model[part]

LoadingInit ==
  /\ model \in Models
  /\ selector \in {"auto", "none"} \cup {Devices[i].name : i \in DOMAIN Devices}
                                   \cup {Devices[i].family : i \in DOMAIN Devices}
  /\ device = NoDevice
  /\ part = "text"
  /\ source = 1
  /\ position = 0
  /\ weights = [p \in {"text", "vision"} |-> <<>>]
------------------------------------------------------------------------------

Fail == pc' = "failed"

\* select_device: candidates in ggml's order, for auto a GPU before the first of all.
Matching ==
  {i \in DOMAIN Devices :
     IF selector = "auto" THEN Devices[i].type \in {"gpu", "integrated-gpu"}
     ELSE selector \in {Devices[i].name, Devices[i].family}}

Selected ==
  IF Matching # {} THEN CHOOSE i \in Matching : \A j \in Matching : i <= j
  ELSE IF selector = "auto" /\ Devices # <<>> THEN 1
  ELSE NoDevice

\* The BackendContext constructor, then on to the next stage.
SelectDevice(next_stage) ==
  /\ pc = "device"
  /\ device' = Selected
  /\ \/ pc' = IF Selected = NoDevice THEN "failed" ELSE next_stage
     \/ Selected # NoDevice /\ Fail
  /\ UNCHANGED <<model, selector, part, source, position, weights>>

Included(name) == part = "text" \/ name[1] \in {"v", "v.blk"} \/ name = <<"mm.input_projection">>
Sources == {i \in DOMAIN file.tensors : Included(file.tensors[i].name)}
First(indices) == {i \in indices : \A j \in indices : i <= j}

\* LoadedWeights::load up to the allocation of the tensors.
ReadMetadata ==
  /\ pc = "metadata"
  /\ \/ /\ file.readable
        /\ source' \in First(Sources)
        /\ weights' = [weights EXCEPT ![part] =
                         [n \in {file.tensors[i].name : i \in Sources} |-> <<>>]]
        /\ pc' = "seek"
     \/ Fail /\ UNCHANGED <<weights, source>>
  /\ UNCHANGED <<model, selector, device, part, position>>

tensor == file.tensors[source]

SeekFirstOnly == IF source \in First(Sources) THEN file.data + tensor.offset ELSE position
TensorStart == file.data + tensor.offset

SeekTensor ==
  /\ pc = "seek"
  /\ position' = TensorStart
  /\ pc' = "read"
  /\ UNCHANGED <<model, selector, device, part, source, weights>>

Copied == weights[part][tensor.name]
ChunkSize ==
  LET rest == tensor.bytes - Len(Copied)
  IN IF rest < CopyChunk THEN rest ELSE CopyChunk

Later == {i \in Sources : i > source}

\* One turn of the copying loop, and the way to the next tensor after the last one.
ReadChunk ==
  /\ pc = "read"
  /\ IF position + ChunkSize > file.length
       THEN Fail /\ UNCHANGED <<weights, position, source>>
     ELSE LET done == Len(Copied) + ChunkSize = tensor.bytes
          IN /\ weights' = [weights EXCEPT ![part][tensor.name] =
                              @ \o [k \in 1 .. ChunkSize |-> position + k - 1]]
             /\ position' = position + ChunkSize
             /\ \/ ~done /\ pc' = "read" /\ UNCHANGED source
                \/ done /\ source' \in First(Later) /\ pc' = "seek"
                \/ done /\ Later = {} /\ pc' = "config" /\ UNCHANGED source
  /\ UNCHANGED <<model, selector, device, part>>

\* The typed readers: a missing key or another type is an error.
HasScalar(keys, key, type) ==
  key \in DOMAIN keys /\ ~keys[key].array /\ keys[key].type = type
HasTriplet(keys, key) ==
  /\ key \in DOMAIN keys
  /\ keys[key].array /\ keys[key].type = "float32" /\ Len(keys[key].values) >= 3
HasU32s(keys, key) ==
  /\ key \in DOMAIN keys
  /\ keys[key].type \in {"uint32", "int32", "uint64", "int64"}
  /\ ToSet(keys[key].values) \subseteq 0 .. Word - 1
HasBools(keys, key) ==
  /\ key \in DOMAIN keys
  /\ keys[key].array
  /\ keys[key].type \in {"bool", "uint8", "int8", "uint32", "int32"}

Number(keys, key) == keys[key].values[1]
OptionalU32(keys, key, fallback) == IF key \in DOMAIN keys THEN Number(keys, key) ELSE fallback

\* read_text_config.
TextConfigOk(keys) ==
  /\ HasScalar(keys, "architecture", "string")
  /\ keys.architecture.values = <<"gemma4">>
  /\ \A key \in {"blocks", "shared", "width"} : HasScalar(keys, key, "uint32")
  /\ HasScalar(keys, "softcap", "float32")
  /\ HasU32s(keys, "feed_forward") /\ HasBools(keys, "pattern")
  /\ Number(keys, "blocks") \in SupportedBlocks
  /\ Len(keys.pattern.values) = Number(keys, "blocks")
  /\ Len(keys.feed_forward.values) \in {1, Number(keys, "blocks")}

\* read_vision_config, with its products in 64 bits.
MaxPixels(keys) ==
  LET side == Number(keys, "patch") * OptionalU32(keys, "merge", 3)
      area == (side * side) % (Word * Word)
  IN (MaxTokens * area) % (Word * Word)

VisionConfigOk(keys) ==
  /\ HasScalar(keys, "projector", "string")
  /\ keys.projector.values = <<"gemma4v">>
  /\ \A key \in {"blocks", "patch", "projection"} : HasScalar(keys, key, "uint32")
  /\ "merge" \in DOMAIN keys => HasScalar(keys, "merge", "uint32")
  /\ HasTriplet(keys, "std")
  /\ OptionalU32(keys, "merge", 3) # 0 /\ Number(keys, "patch") # 0
  /\ MaxPixels(keys) < Word
  /\ \A channel \in 1 .. 3 : keys.std.values[channel] # 0

\* Blocks that have keys and values of their own.
KvLayers(keys) == (Number(keys, "blocks") - Number(keys, "shared")) % Word

BlocksOf(keys) == 0 .. Number(keys, "blocks") - 1
TextTensors(keys) ==
  {<<"global">>} \cup {<<"blk", b>> : b \in BlocksOf(keys)}
                 \cup {<<"blk.attn_k", b>> : b \in {k \in BlocksOf(keys) : k < KvLayers(keys)}}
VisionTensors(keys) ==
  {<<"v">>, <<"mm.input_projection">>} \cup {<<"v.blk", b>> : b \in BlocksOf(keys)}

Accepted ==
  IF part = "text"
    THEN TextConfigOk(file.keys) /\ TextTensors(file.keys) \subseteq DOMAIN weights.text
  ELSE /\ VisionConfigOk(file.keys)
       /\ VisionTensors(file.keys) \subseteq DOMAIN weights.vision
       /\ Number(file.keys, "projection") = Number(model.text.keys, "width")

\* The rest of ModelLoader::load for this file.
CheckModel ==
  /\ pc = "config"
  /\ IF ~Accepted THEN Fail /\ UNCHANGED part
     ELSE /\ part' = "vision"
          /\ pc' = IF part = "text" THEN "metadata" ELSE "loaded"
  /\ UNCHANGED <<model, selector, device, source, position, weights>>

LoadStep == ReadMetadata \/ SeekTensor \/ ReadChunk \/ CheckModel
------------------------------------------------------------------------------

\* What a loaded model computes with: every tensor that the graphs will ask for has
\* exactly its own bytes of its own file, in order, whatever the chunks and the gaps
\* between tensors, and the two files belong together.
WeightsInPlace ==
  /\ \A p \in {"text", "vision"} :
       \A t \in ToSet(model[p].tensors) :
         t.name \in DOMAIN weights[p] =>
           weights[p][t.name] = [k \in 1 .. t.bytes |-> model[p].data + t.offset + k - 1]
  /\ \A b \in BlocksOf(model.text.keys) :
       /\ <<"blk", b>> \in DOMAIN weights.text
       /\ b < Number(model.text.keys, "blocks") - Number(model.text.keys, "shared") =>
            <<"blk.attn_k", b>> \in DOMAIN weights.text
  /\ \A b \in BlocksOf(model.vision.keys) : <<"v.blk", b>> \in DOMAIN weights.vision
  /\ Number(model.vision.keys, "projection") = Number(model.text.keys, "width")
================================================================================

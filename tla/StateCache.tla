------------------------------ MODULE StateCache ------------------------------
(***************************************************************************)
(* The K/V store of one decision (src/src/state_cache.cpp).  It holds one  *)
(* key and one value tensor for every layer that stores its own K/V; the   *)
(* remaining, shared layers read the tensors of a stored layer.  Keys and  *)
(* values are written and read together, so one slot stands for both.      *)
(*                                                                         *)
(* A slot holds <<layer, position>> once the K/V of that position has been *)
(* copied into the tensor of that layer, Zero where the buffer was cleared *)
(* and Unset where it is as the allocator left it.                         *)
(***************************************************************************)
EXTENDS Integers

CONSTANTS
  Configs,    \* the model configurations (TextModelConfig) considered
  Zero,       \* a slot of a cleared buffer
  Unset       \* a slot of a buffer nobody has written

(***************************************************************************)
(* What the loader guarantees of a configuration: there is a layer, and    *)
(* the sliding-window pattern names layers of the model.                   *)
(***************************************************************************)
ConfigType ==
  [block_count      : Nat \ {0},
   shared_kv_layers : Nat,
   sliding          : SUBSET Nat,
   context_length   : Nat,
   sliding_window   : Nat,
   uneven_heads     : SUBSET Nat]   \* layers whose K and V head sizes differ

ASSUME ConfigsAssumption ==
  /\ Configs \subseteq ConfigType
  /\ \A c \in Configs : c.sliding \subseteq 0 .. (c.block_count - 1)

ASSUME SlotAssumption ==
  /\ Zero # Unset
  /\ Zero \notin Nat \X Nat
  /\ Unset \notin Nat \X Nat

VARIABLES
  config,         \* the configuration of the loaded model
  flash,          \* TRUE on the CUDA family: F16 cache and flash attention
  capacity,       \* positions each cache tensor has room for
  cache,          \* stored layer -> slot -> content
  prefix_length   \* 0 until the prefix is frozen

cacheVars == <<config, flash, capacity, cache, prefix_length>>

Layers == 0 .. (config.block_count - 1)
StoredCount == config.block_count - config.shared_kv_layers
StoredLayers == 0 .. (StoredCount - 1)
Slots == 0 .. (capacity - 1)

HeadsMatch(layer) == layer \notin config.uneven_heads
IsSlidingWindow(layer) == layer \in config.sliding

(***************************************************************************)
(* A shared layer reads the last stored layer, or the one before it when   *)
(* it is a sliding-window layer.  The subtraction is unsigned: with a      *)
(* single stored layer it wraps, the pattern lookup of the wrapped index   *)
(* throws, and so does a source of the other attention type.               *)
(***************************************************************************)
SharedSource(layer) == StoredCount - (IF IsSlidingWindow(layer) THEN 2 ELSE 1)

SourceLayer(layer) ==
  IF layer < StoredCount THEN layer ELSE SharedSource(layer)

SourceDefined(layer) ==
  layer >= StoredCount =>
    /\ SharedSource(layer) >= 0
    /\ IsSlidingWindow(SharedSource(layer)) = IsSlidingWindow(layer)

(***************************************************************************)
(* The constructor rejects a capacity of zero or beyond the context and a  *)
(* model without a stored layer.                                           *)
(***************************************************************************)
CapacityAllowed(size) == size # 0 /\ size <= config.context_length
SharingAllowed == config.shared_kv_layers < config.block_count

(***************************************************************************)
(* Flash attention also reads masked padding, so an F16 buffer is cleared; *)
(* an F32 buffer is left as allocated.                                     *)
(***************************************************************************)
InitialSlotNotCleared == Unset
InitialSlot == IF flash THEN Zero ELSE Unset

CreateCache(size) ==
  /\ capacity' = size
  /\ cache' = [l \in StoredLayers |-> [s \in 0 .. (size - 1) |-> InitialSlot]]

(***************************************************************************)
(* cache_current_kv: the K/V of positions first .. last - 1 of a layer are *)
(* copied to the slots of the same numbers.                                *)
(***************************************************************************)
StorePositionsAtStart(layer, first, last) ==
  cache' = [cache EXCEPT ![layer] =
              [s \in Slots |-> IF s < last - first THEN <<layer, first + s>> ELSE @[s]]]
StorePositions(layer, first, last) ==
  cache' = [cache EXCEPT ![layer] =
              [s \in Slots |->
                 IF s \in first .. (last - 1) THEN <<layer, s>> ELSE @[s]]]

FreezeAllowedStrict(length) ==
  /\ length # 0
  /\ length < capacity
  /\ prefix_length = 0
FreezeAllowed(length) ==
  /\ length # 0
  /\ length <= capacity
  /\ prefix_length = 0

CacheInit ==
  /\ config \in Configs
  /\ flash \in BOOLEAN
  /\ capacity = 0
  /\ cache = [l \in StoredLayers |-> [s \in Slots |-> Unset]]
  /\ prefix_length = 0
==============================================================================

------------------------------ MODULE CausalPass ------------------------------
(***************************************************************************)
(* What a Prefill promises, with no chunks, cache or buffers: one causal   *)
(* forward pass over the prompt.  Positions may be computed in any order   *)
(* and in any grouping, as long as a position attends exactly the          *)
(* positions its layer lets it see, all of them already known at the layer *)
(* whose keys it reads, and the answer is read from the last position.     *)
(***************************************************************************)
EXTENDS Integers

CONSTANTS
  None        \* no value yet

VARIABLES
  model,      \* the configuration of the model
  prompt,     \* position -> the embedding row it is made of
  fed,        \* position -> the embedding row it was given, or None
  attended,   \* <<layer, position>> -> the <<layer, position>> keys it read
  readout,    \* the position the logits come from, or None
  phase       \* "running", "done" or "failed"

passVars == <<model, prompt, fed, attended, readout, phase>>

Positions == DOMAIN prompt
PassLayers == 0 .. (model.block_count - 1)
PassStored == model.block_count - model.shared_kv_layers

Sliding(layer) == layer \in model.sliding

\* The positions a query may see: its own and the earlier ones, in a
\* sliding-window layer only the last sliding_window of them (0: no window).
Scope(layer, p) ==
  {k \in Positions :
     /\ k <= p
     /\ Sliding(layer) /\ model.sliding_window # 0
          => p < k + model.sliding_window}

\* A layer reads its own keys, or, when it stores none, those of a stored
\* layer with the same kind of attention.
KeySource(layer, source) ==
  IF layer < PassStored
    THEN source = layer
    ELSE source \in 0 .. (PassStored - 1) /\ Sliding(source) = Sliding(layer)

Computed(layer, p) == attended[<<layer, p>>] # {}

\* The input of a layer at a position: the embedding row or the output of
\* the layer below.
Known(layer, p) == IF layer = 0 THEN fed[p] # None ELSE Computed(layer - 1, p)

PassInit ==
  /\ fed = [p \in Positions |-> None]
  /\ attended = [lp \in PassLayers \X Positions |-> {}]
  /\ readout = None
  /\ phase = "running"

Feed(rows) ==
  /\ phase = "running"
  /\ fed' = [p \in Positions |-> IF p \in rows THEN prompt[p] ELSE fed[p]]
  /\ UNCHANGED <<model, prompt, attended, readout, phase>>

Attend(layer, source, queries) ==
  /\ phase = "running"
  /\ KeySource(layer, source)
  /\ \A q \in queries :
       /\ Known(layer, q)
       /\ \A k \in Scope(layer, q) : Known(source, k)
  /\ attended' = [lp \in PassLayers \X Positions |->
                    IF lp[1] = layer /\ lp[2] \in queries
                      THEN {<<source, k>> : k \in Scope(layer, lp[2])}
                      ELSE attended[lp]]
  /\ UNCHANGED <<model, prompt, fed, readout, phase>>

\* The last position has been through every layer and gives the logits.
ReadLast(p) ==
  /\ phase = "running"
  /\ p \in Positions
  /\ \A k \in Positions : k <= p
  /\ \A layer \in PassLayers : Computed(layer, p)
  /\ readout' = p
  /\ UNCHANGED <<model, prompt, fed, attended, phase>>

Finish ==
  /\ phase = "running"
  /\ readout # None
  /\ \A layer \in PassLayers, p \in Positions : Computed(layer, p)
  /\ phase' = "done"
  /\ UNCHANGED <<model, prompt, fed, attended, readout>>

Fail ==
  /\ phase = "running"
  /\ phase' = "failed"
  /\ UNCHANGED <<model, prompt, fed, attended, readout>>

PassNext ==
  \/ \E rows \in SUBSET Positions : Feed(rows)
  \/ \E layer \in PassLayers, source \in PassLayers,
        queries \in SUBSET Positions : Attend(layer, source, queries)
  \/ \E p \in Positions : ReadLast(p)
  \/ Finish
  \/ Fail

PassSpec == PassInit /\ [][PassNext]_passVars
==============================================================================

---------------------------- MODULE MCPrefillEngine ----------------------------
(***************************************************************************)
(* Small instances of PrefillEngine: chunks of 2 positions (512 in the     *)
(* code), padding to multiples of 4 (256), prompts of up to 7 positions    *)
(* whose segments start and end on and off chunk boundaries.               *)
(***************************************************************************)
EXTENDS PrefillEngine

\* A model of n layers, the last `shared` of them without K/V of their own.
Model(n, shared, sliding, context, uneven) ==
  [block_count |-> n, shared_kv_layers |-> shared, sliding |-> sliding,
   context_length |-> context, sliding_window |-> 2, uneven_heads |-> uneven]

\* Gemma 4's layout in small (stored sliding and full layers, then shared ones of
\* both kinds) with a context that is and one that is not a multiple of PadUnit,
\* and models the code rejects: sharing everything, a single stored layer with a
\* sliding shared one, a source of the other kind, uneven heads.
MCConfigs ==
  {Model(4, 2, {0, 2}, 8, {}),
   Model(3, 0, {1}, 6, {}),
   Model(2, 2, {0}, 8, {}),
   Model(2, 1, {0, 1}, 8, {}),
   Model(3, 1, {0, 1}, 8, {}),
   Model(2, 0, {0}, 8, {1})}

MCShapes ==
  [before : 0 .. 3, visual : 0 .. 3, after : {0, 1, 3}, width_matches : {TRUE}]
    \cup {[before |-> 1, visual |-> 1, after |-> 1, width_matches |-> FALSE]}
==============================================================================

------------------------------ MODULE MCCommandLine ------------------------------
(***************************************************************************)
(* Models of two blocks, the second of which shares keys and values or     *)
(* does not, with tensors out of order and gaps between them, of sizes     *)
(* below, at and above one and two chunks of 2; and the same models with   *)
(* one thing wrong.  Up to three lines of input.                           *)
(***************************************************************************)
EXTENDS CommandLine

Tensor(name, offset, bytes) == [name |-> name, offset |-> offset, bytes |-> bytes]

One(type, value) == [type |-> type, array |-> FALSE, values |-> <<value>>]
Array(type, values) == [type |-> type, array |-> TRUE, values |-> values]

TextKeys ==
  [architecture |-> One("string", "gemma4"), blocks |-> One("uint32", 2),
   shared |-> One("uint32", 1), width |-> One("uint32", 7), softcap |-> One("float32", 30),
   feed_forward |-> One("int64", 5), pattern |-> Array("bool", <<1, 0>>)]
TextFile ==
  [readable |-> TRUE, keys |-> TextKeys, data |-> 3, length |-> 30,
   tensors |-> <<Tensor(<<"blk", 1>>, 12, 4), Tensor(<<"global">>, 0, 1),
                 Tensor(<<"blk", 0>>, 2, 5), Tensor(<<"blk.attn_k", 0>>, 8, 3)>>]
VisionKeys ==
  [projector |-> One("string", "gemma4v"), blocks |-> One("uint32", 1),
   patch |-> One("uint32", 2), projection |-> One("uint32", 7),
   std |-> Array("float32", <<1, 1, 1>>)]
VisionFile ==
  [readable |-> TRUE, keys |-> VisionKeys, data |-> 1, length |-> 12,
   tensors |-> <<Tensor(<<"v">>, 0, 2), Tensor(<<"a.audio">>, 2, 2),
                 Tensor(<<"v.blk", 0>>, 5, 3), Tensor(<<"mm.input_projection">>, 8, 1)>>]

Model(text, vision) == [text |-> text, vision |-> vision]
WithKey(gguf, key, stored) ==
  [gguf EXCEPT !.keys = [k \in DOMAIN @ \cup {key} |-> IF k = key THEN stored ELSE @[k]]]
WithoutKey(gguf, key) == [gguf EXCEPT !.keys = Restrict(@, DOMAIN @ \ {key})]

BadText ==
  {[TextFile EXCEPT !.readable = FALSE], [TextFile EXCEPT !.length = 18],
   [TextFile EXCEPT !.tensors = <<>>], [TextFile EXCEPT !.tensors = SubSeq(@, 1, 3)],
   [TextFile EXCEPT !.tensors = SubSeq(@, 2, 4)],
   WithoutKey(TextFile, "softcap"), WithKey(TextFile, "width", One("int32", 7)),
   WithKey(TextFile, "architecture", One("string", "gemma3")),
   WithKey(TextFile, "blocks", One("uint32", 3)),
   WithKey(TextFile, "pattern", Array("bool", <<1>>)),
   WithKey(TextFile, "pattern", Array("int64", <<1, 0>>)),
   WithKey(TextFile, "feed_forward", One("int64", -1)),
   WithKey(TextFile, "feed_forward", Array("uint64", <<5, 5, 5>>)),
   WithKey(TextFile, "shared", One("uint32", 0)), WithKey(TextFile, "shared", One("uint32", 3))}
BadVision ==
  {[VisionFile EXCEPT !.tensors = <<@[2]>>], [VisionFile EXCEPT !.tensors = SubSeq(@, 1, 3)],
   [VisionFile EXCEPT !.tensors = <<@[1], @[4]>>],
   WithKey(VisionFile, "projector", One("string", "clip")),
   WithKey(VisionFile, "merge", One("uint32", 0)), WithKey(VisionFile, "merge", One("int32", 2)),
   WithKey(VisionFile, "patch", One("uint32", 3)),
   WithKey(VisionFile, "std", Array("float32", <<1, 0, 1>>)),
   WithKey(VisionFile, "std", Array("float32", <<1, 1>>)),
   WithKey(VisionFile, "projection", One("uint32", 8))}
OtherGood ==
  {Model(WithKey(WithKey(TextFile, "shared", One("uint32", 2)),
                 "feed_forward", Array("uint32", <<5, 5>>)),
         WithKey(VisionFile, "merge", One("uint32", 2)))}

ModelSet ==
  {Model(TextFile, VisionFile)} \cup OtherGood
    \cup {Model(t, VisionFile) : t \in BadText} \cup {Model(TextFile, v) : v \in BadVision}

DeviceSeq == <<[name |-> "cpu0", family |-> "cpu", type |-> "cpu"],
               [name |-> "gpu0", family |-> "vulkan", type |-> "integrated-gpu"],
               [name |-> "gpu1", family |-> "vulkan", type |-> "gpu"]>>

Full ==
  [mode |-> "run", model |-> TRUE, mmproj |-> TRUE, files |-> TRUE, warmup |-> 1, dump |-> FALSE]
ArgumentSet ==
  {Full, [Full EXCEPT !.dump = TRUE], [Full EXCEPT !.warmup = 0], [Full EXCEPT !.mode = "help"],
   [Full EXCEPT !.mode = "wrong"], [Full EXCEPT !.mmproj = FALSE],
   [Full EXCEPT !.model = FALSE, !.mmproj = FALSE],
   [Full EXCEPT !.model = FALSE, !.mmproj = FALSE, !.files = FALSE]}

InputSet ==
  {<<>>, <<"blank">>, <<"r1">>, <<"r1", "bad">>, <<"blank", "r1", "r2">>, <<"r1", "blank", "r2">>}
==================================================================================

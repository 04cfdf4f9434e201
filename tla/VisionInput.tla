------------------------------ MODULE VisionInput ------------------------------
(***************************************************************************)
(* An image on its way to visual tokens: src/src/image_preprocessor.cpp    *)
(* chooses a size and resamples the pixels, src/src/vision_encoder.cpp     *)
(* builds a graph over the patches and pools them to tokens.  Sizes are    *)
(* <<width, height>>.  The code computes factors and window bounds with    *)
(* doubles: they are the exact ones here, except that a quotient which is  *)
(* a whole number may come out just below or above it ("drift", Cut).      *)
(* Decoder and backend are external.                                       *)
(***************************************************************************)
EXTENDS Integers, FiniteSets

CONSTANTS
  Images,      \* [header, decoded: sizes or Unreadable]: what the decoder says of them
  PatchSize,
  MergeSize,
  MinPixels,
  MaxPixels,
  TableSize    \* rows of the position table, per coordinate

Align == PatchSize * MergeSize
Unreadable == <<0, 0>>
Directions == {"width", "height"}
Index == [width |-> 1, height |-> 2]

\* read_vision_config sets the limits to the pixels of 70 and of 1120 tokens.
ASSUME VisionAssumption ==
  /\ {PatchSize, MergeSize, MinPixels, MaxPixels, TableSize} \subseteq Nat \ {0}
  /\ 4 * MinPixels <= MaxPixels

\* Nothing in the code compares the table with an image: the model file must hold a
\* row for every patch of the longest strip the limits let through.
ASSUME TableAssumption == MaxPixels <= TableSize * PatchSize * Align

Sizes == (Nat \ {0}) \X (Nat \ {0})

ASSUME ImagesAssumption ==
  \A i \in Images : {i.header, i.decoded} \subseteq Sizes \cup {Unreadable}

VARIABLES
  image,
  from_file,  \* load of a path, which looks at no header first
  drift,      \* the directions in which an exact quotient comes out wrong
  flash,      \* the backend runs every flash attention node of the graph
  pc,         \* stage of the call, or its end: "returned", "failed"
  estimate,   \* estimate_visual_token_count of the header, 0 before
  size,       \* size of the prepared image, Unreadable before
  path,       \* attention path of the graph in hand
  tokens      \* the token_count of the result, 0 before

vars == <<image, from_file, drift, flash, pc, estimate, size, path, tokens>>
input == <<image, from_file, drift, flash>>

Init ==
  /\ image \in Images
  /\ from_file \in BOOLEAN
  /\ drift \in SUBSET Directions
  /\ flash \in BOOLEAN
  /\ pc = "inspect"
  /\ estimate = 0
  /\ size = Unreadable
  /\ path = "none"
  /\ tokens = 0
------------------------------------------------------------------------------
(* target_size.                                                            *)

AtLeastOne(k) == IF k < 1 THEN 1 ELSE k

\* round_factor, in units of the alignment.
RoundFactor(value) == AtLeastOne((2 * value + Align) \div (2 * Align))

Other(s, d) == IF d = "width" THEN s[2] ELSE s[1]

\* Scaled to an area of pixels, a side is sqrt(side * pixels / other) long; squares
\* are compared with k units.
SideBelow(k, s, d, pixels) ==
  k * Align * k * Align * Other(s, d) <= s[Index[d]] * pixels
SideExactly(k, s, d, pixels) ==
  k * Align * k * Align * Other(s, d) = s[Index[d]] * pixels

WholeFactor(s, d, pixels) ==
  CHOOSE k \in 0 .. s[Index[d]] * pixels :
    SideBelow(k, s, d, pixels) /\ ~SideBelow(k + 1, s, d, pixels)

FloorFactor(s, d, pixels) ==
  LET k == WholeFactor(s, d, pixels)
  IN AtLeastOne(IF SideExactly(k, s, d, pixels) /\ d \in drift THEN k - 1 ELSE k)
CeilFactor(s, d, pixels) ==
  LET k == WholeFactor(s, d, pixels)
  IN IF SideExactly(k, s, d, pixels) /\ d \notin drift THEN k ELSE k + 1

Rounded(s) == [d \in Directions |-> RoundFactor(s[Index[d]])]
Area(units) == units.width * Align * units.height * Align

UnitsRoundedUp(s) ==
  IF Area(Rounded(s)) > MaxPixels
    THEN [d \in Directions |-> CeilFactor(s, d, MaxPixels)]
  ELSE IF Area(Rounded(s)) < MinPixels
    THEN [d \in Directions |-> CeilFactor(s, d, MinPixels)]
  ELSE Rounded(s)
Units(s) ==
  IF Area(Rounded(s)) > MaxPixels
    THEN [d \in Directions |-> FloorFactor(s, d, MaxPixels)]
  ELSE IF Area(Rounded(s)) < MinPixels
    THEN [d \in Directions |-> CeilFactor(s, d, MinPixels)]
  ELSE Rounded(s)

TargetSize(s) == <<Units(s).width * Align, Units(s).height * Align>>
------------------------------------------------------------------------------
(* bicubic_axis: the source pixels that an output pixel looks at.          *)

Bigger(a, b) == IF a > b THEN a ELSE b

\* Twice the support (2 pixels of the coarser side), over the output size.
SupportUnscaled(in, out) == 4 * out
Support(in, out) == 4 * Bigger(in, out)

KernelSize(in, out) == 2 * ((Support(in, out) + 2 * out - 1) \div (2 * out)) + 1

\* n / (2 out) cut to an integer: as a double, a whole number may be just below itself.
Cut(n, out) == {k \in {n \div (2 * out), n \div (2 * out) - 1} : n <= (k + 1) * (2 * out)}

\* The windows that the bounds of output pixel o may come out as.
Windows(in, out, o) ==
  LET center == (2 * o + 1) * in
  IN {(IF low < 0 THEN 0 ELSE low) .. (IF high > in THEN in ELSE high) - 1 :
        low \in Cut(center - Support(in, out) + out, out),
        high \in Cut(center + Support(in, out) + out, out)}

\* resize_bicubic: an image that has its size already is copied.
Looked(s, target, d, o) ==
  IF s = target THEN {{o}} ELSE Windows(s[Index[d]], target[Index[d]], o)
------------------------------------------------------------------------------
(* patch_count, visual_token_count, and the order of the graph's rows.     *)

PatchesX(s) == s[1] \div PatchSize
PatchesY(s) == s[2] \div PatchSize

Misaligned(s) ==
  \/ s[1] % PatchSize # 0 \/ s[2] % PatchSize # 0
  \/ PatchesX(s) % MergeSize # 0 \/ PatchesY(s) % MergeSize # 0

TokenCount(s) == (PatchesX(s) \div MergeSize) * (PatchesY(s) \div MergeSize)

\* The position rows that are added to patch i.
PositionByColumns(s, i) == <<i % PatchesX(s), i \div PatchesY(s)>>
Position(s, i) == <<i % PatchesX(s), i \div PatchesX(s)>>

\* The convolution puts out patches row by row; pooling takes squares of them,
\* and its output is again read row by row.
PatchAt(s, x, y) == y * PatchesX(s) + x
PooledPatches(s, token) ==
  LET columns == PatchesX(s) \div MergeSize
      x == (token % columns) * MergeSize
      y == (token \div columns) * MergeSize
  IN {PatchAt(s, x + i, y + j) : i, j \in 0 .. MergeSize - 1}
------------------------------------------------------------------------------

Fail == pc' = "failed"

\* inspect_encoded and the estimate made from it before anything runs.
Inspect ==
  /\ pc = "inspect"
  /\ IF from_file
       THEN pc' = "decode" /\ UNCHANGED estimate
     ELSE IF image.header = Unreadable
       THEN Fail /\ UNCHANGED estimate
     ELSE /\ estimate' = TokenCount(TargetSize(image.header))
          /\ pc' = "decode"
  /\ UNCHANGED <<input, size, path, tokens>>

\* preprocess_rgb.
Preprocess ==
  /\ size' = TargetSize(image.decoded)
  /\ pc' = "build"

\* load: the size is whatever the decoder finds.
DecodeFile ==
  /\ pc = "decode"
  /\ from_file
  /\ IF image.decoded = Unreadable THEN Fail /\ UNCHANGED size ELSE Preprocess
  /\ UNCHANGED <<input, estimate, path, tokens>>

ChangedNever == FALSE
\* The header promised another size.
Changed == image.decoded # image.header

\* load_encoded.
DecodeEncoded ==
  /\ pc = "decode"
  /\ ~from_file
  /\ IF image.decoded = Unreadable \/ Changed THEN Fail /\ UNCHANGED size ELSE Preprocess
  /\ UNCHANGED <<input, estimate, path, tokens>>

\* encode: counts that do not fit end it, as does a tensor the model lacks.
BuildFlash ==
  /\ pc = "build"
  /\ \/ /\ ~Misaligned(size)
        /\ path' = "flash"
        /\ pc' = "probe"
     \/ Fail /\ UNCHANGED path
  /\ UNCHANGED <<input, estimate, size, tokens>>

\* supports_flash_attention, and a second graph when it does not.
ProbeFlash ==
  /\ pc = "probe"
  /\ \/ /\ path' = IF flash THEN "flash" ELSE "standard"
        /\ pc' = "allocate"
     \/ ~flash /\ Fail /\ UNCHANGED path
  /\ UNCHANGED <<input, estimate, size, tokens>>

Allocate ==
  /\ pc = "allocate"
  /\ pc' = "compute" \/ Fail
  /\ UNCHANGED <<input, estimate, size, path, tokens>>

Compute ==
  /\ pc = "compute"
  /\ pc' = "keep" \/ Fail
  /\ UNCHANGED <<input, estimate, size, path, tokens>>

\* The embeddings are copied to a tensor that outlives the graph.
Keep ==
  /\ pc = "keep"
  /\ \/ tokens' = TokenCount(size) /\ pc' = "returned"
     \/ Fail /\ UNCHANGED tokens
  /\ UNCHANGED <<input, estimate, size, path>>

Finished == pc \in {"returned", "failed"} /\ UNCHANGED vars

Next ==
  \/ Inspect \/ DecodeFile \/ DecodeEncoded
  \/ BuildFlash \/ ProbeFlash \/ Allocate \/ Compute \/ Keep
  \/ Finished

Spec == Init /\ [][Next]_vars
------------------------------------------------------------------------------

Prepared == size # Unreadable

\* Neither side is more than MaxPixels / Align^2 times the other.
Ordinary(s) ==
  \A d \in Directions : Other(s, d) * Align * Align <= s[Index[d]] * MaxPixels

\* A prepared image has patches and merged patches without remainder; its pixels
\* stay within the model's limits, and its positions within the table, unless the
\* image is so narrow that one side is held up to the alignment.
SizeWithinLimits ==
  Prepared =>
    /\ ~Misaligned(size)
    /\ size[1] * size[2] >= MinPixels
    /\ Ordinary(image.decoded) =>
         /\ size[1] * size[2] <= MaxPixels
         /\ \A i \in 0 .. PatchesX(size) * PatchesY(size) - 1 :
              Position(size, i)[1] < TableSize /\ Position(size, i)[2] < TableSize

InEach(windows) == {pixel \in UNION windows : \A window \in windows : pixel \in window}

\* Resampling looks at existing pixels, at each of them for some output pixel, and
\* never at more of them than there are weights, however the doubles of the bounds
\* were rounded.
ResamplingCoversImage ==
  Prepared =>
    \A d \in Directions :
      LET in == image.decoded[Index[d]]
          out == size[Index[d]]
          looked(o) == Looked(image.decoded, size, d, o)
      IN /\ \A o \in 0 .. out - 1 : \A window \in looked(o) :
              /\ window \subseteq 0 .. in - 1
              /\ Cardinality(window) \in 1 .. KernelSize(in, out)
         /\ UNION {InEach(looked(o)) : o \in 0 .. out - 1} = 0 .. in - 1

\* Token k pools the patches of the k-th square of the image, counted row by row,
\* and they carry the positions of that square.
TokensPoolOwnSquare ==
  Prepared =>
    \A token \in 0 .. TokenCount(size) - 1 :
      LET columns == size[1] \div Align
          x == MergeSize * (token % columns)
          y == MergeSize * (token \div columns)
      IN {Position(size, i) : i \in PooledPatches(size, token)}
           = (x .. x + MergeSize - 1) \X (y .. y + MergeSize - 1)

\* What the budgets were checked with is what the model then gets: a result has the
\* number of tokens estimated from the header, computed on a path the backend runs.
EstimateHolds ==
  pc = "returned" =>
    /\ ~from_file => tokens = estimate
    /\ path = "flash" => flash
==============================================================================

----------------------------- MODULE PrefillProofs -----------------------------
(***************************************************************************)
(* Proofs about PrefillEngine for every configuration, prompt, microbatch  *)
(* and padding unit, and that it implements CausalPass.                    *)
(***************************************************************************)
EXTENDS PrefillEngine, TLAPS

\* ---- the inductive invariant ----------------------------------------------

InGraph == pc \in {"store", "attend", "logits"}
Active == pc \in {"build", "store", "attend", "logits", "done"}

NotFailed == pc # "failed"

Covered == Lesser(chunk_start, TokenCount)

\* How far each layer of the cache, the attention history and the inputs have got.
StoredUpTo(l) ==
  IF InGraph /\ (pc = "logits" \/ l < layer \/ (pc = "attend" /\ l = layer))
    THEN ChunkEnd ELSE Covered
AttendedUpTo(l) ==
  IF InGraph /\ (pc = "logits" \/ l < layer) THEN ChunkEnd ELSE Covered
FedUpTo == IF InGraph THEN ChunkEnd ELSE Covered

FedRow(p) ==
  <<PromptRow(p), IF PromptRow(p)[1] = "visual" THEN PadId ELSE PromptRow(p)>>

\* The control state: what the checks that let the call go on have established.
ControlInv ==
  /\ pc = "start" => chunk_start = 0 /\ layer = 0
  /\ Active => /\ TokenCount > 0
               /\ capacity = Capacity
               /\ SharingAllowed
  /\ InGraph => chunk_start < TokenCount
  /\ InGraph \/ (pc # "failed" /\ chunk_start > 0) =>
       \A l \in Layers : SourceDefined(l)
  /\ pc \in {"start", "build", "store", "attend", "logits"} => prefix_length = 0
  /\ pc = "done" => chunk_start >= TokenCount /\ prefix_length = TokenCount
  /\ pc = "logits" => layer + 1 = config.block_count

\* Every stored slot below the progress of its layer is in place, the rest untouched.
CacheInv ==
  Active => \A l \in StoredLayers, s \in Slots :
    cache[l][s] = IF s < StoredUpTo(l) THEN <<l, s>> ELSE InitialSlot

\* Attention has read what a causal pass reads, as far as it has got.
AttendedInv ==
  pc # "failed" => \A l \in Layers, p \in Positions :
    attended[<<l, p>>] = IF p < AttendedUpTo(l)
                       THEN CausalKeys(SourceLayer(l), l, p)
                       ELSE {}

\* The inputs are the prompt in order, as far as they have been fed.
FedInv ==
  pc # "failed" => \A p \in Positions :
    fed[p] = IF p < FedUpTo THEN FedRow(p) ELSE None

\* There are logits exactly once the last chunk is through.
LogitsInv ==
  pc # "failed" =>
    logits = IF pc \in {"build", "done"} /\ chunk_start >= TokenCount
               THEN TokenCount - 1 ELSE None

\* The inductive invariant.  The properties say what has been read or returned; to
\* carry them over a step it takes what every slot of the cache holds meanwhile.
IInv ==
  /\ TypeOK
  /\ ControlInv
  /\ CacheInv
  /\ AttendedInv
  /\ FedInv
  /\ LogitsInv
  /\ FedInOrder
  /\ AttendsCausally
  /\ OnlyExpectedErrors

\* ---- lemmas about the operators --------------------------------------------

\* Rounding up to a multiple of the padding unit never loses a position.
LEMMA PaddedCountBounds ==
  ASSUME NEW count \in Nat
  PROVE  PaddedCount(count) \in Nat /\ count <= PaddedCount(count)
<1> DEFINE n == count + PadUnit - 1
<1>1. n \in Nat
  BY ChunkAssumption
<1>2. /\ n = PadUnit * (n \div PadUnit) + (n % PadUnit)
      /\ n % PadUnit \in 0 .. (PadUnit - 1)
      /\ n \div PadUnit \in Nat
  BY <1>1, ChunkAssumption
<1>3. (n \div PadUnit) * PadUnit = PadUnit * (n \div PadUnit)
  BY <1>2, ChunkAssumption
<1> QED
  BY <1>2, <1>3, ChunkAssumption DEF PaddedCount

\* A longer prefix is never padded to fewer positions.
LEMMA PaddedCountMonotone ==
  ASSUME NEW a \in Nat, NEW b \in Nat, a <= b
  PROVE  PaddedCount(a) <= PaddedCount(b)
<1>1. /\ a + PadUnit - 1 \in Nat
      /\ b + PadUnit - 1 \in Nat
      /\ a + PadUnit - 1 <= b + PadUnit - 1
  BY ChunkAssumption
<1>2. /\ (a + PadUnit - 1) \div PadUnit \in Nat
      /\ (b + PadUnit - 1) \div PadUnit \in Nat
      /\ (a + PadUnit - 1) \div PadUnit <= (b + PadUnit - 1) \div PadUnit
  BY <1>1, ChunkAssumption
<1> QED
  BY <1>2, ChunkAssumption DEF PaddedCount

\* Padding stays inside a bound that is itself a multiple of the unit.
LEMMA PaddedCountWithin ==
  ASSUME NEW count \in Nat, NEW bound \in Nat, count <= bound, bound % PadUnit = 0
  PROVE  PaddedCount(count) <= bound
<1> DEFINE q == bound \div PadUnit
<1>1. q \in Nat /\ bound = q * PadUnit
  BY ChunkAssumption
<1>2. PaddedCount(bound) = ((q * PadUnit + (PadUnit - 1)) \div PadUnit) * PadUnit
  BY <1>1, ChunkAssumption DEF PaddedCount
<1>3. (q * PadUnit + (PadUnit - 1)) \div PadUnit = q
  BY <1>1, ChunkAssumption
<1>4. PaddedCount(bound) = bound
  BY <1>1, <1>2, <1>3
<1> QED
  BY <1>4, PaddedCountMonotone

\* The shape of the prompt and of the model.
LEMMA ShapeFacts ==
  ASSUME TypeOK
  PROVE  /\ shape.before \in Nat /\ shape.visual \in Nat /\ shape.after \in Nat
         /\ VisualBegin \in Nat /\ VisualEnd \in Nat
         /\ VisualBegin <= VisualEnd /\ VisualEnd <= TokenCount
         /\ VisualBegin = shape.before
         /\ VisualEnd = VisualBegin + shape.visual
         /\ TokenCount = VisualEnd + shape.after
         /\ TokenCount \in Nat
         /\ Positions = 0 .. (TokenCount - 1)
         /\ config.block_count \in Nat \ {0}
         /\ config.shared_kv_layers \in Nat
         /\ config.context_length \in Nat
         /\ config.sliding_window \in Nat
         /\ StoredCount \in Int
  BY ShapesAssumption, ConfigsAssumption
     DEF TypeOK, ConfigType, VisualBegin, VisualEnd, TokenCount, Positions, StoredCount

\* A chunk of the loop is not empty, ends inside the prompt, and the next one
\* starts where it ends unless it was the last.
LEMMA ChunkFacts ==
  ASSUME TypeOK, chunk_start < TokenCount
  PROVE  /\ QueryCount \in Nat \ {0}
         /\ ChunkEnd \in Nat
         /\ chunk_start < ChunkEnd
         /\ ChunkEnd <= TokenCount
         /\ ChunkEnd = chunk_start + QueryCount
         /\ NextChunkStart \in Nat
         /\ ChunkEnd = Lesser(NextChunkStart, TokenCount)
         /\ ChunkEnd = TokenCount <=> NextChunkStart >= TokenCount
         /\ LastRow = ChunkEnd - 1
         /\ Covered = chunk_start
<1>1. chunk_start \in Nat /\ TokenCount \in Nat
  BY ShapeFacts DEF TypeOK
<1> QED
  BY <1>1, ChunkAssumption
     DEF QueryCount, ChunkEnd, Lesser, NextChunkStart, LastRow, Covered

\* The part of a segment that falls into the chunk: how many rows, and which.
LEMMA OverlapRows ==
  ASSUME TypeOK, chunk_start < TokenCount,
         NEW segment \in Segments, NEW first \in Nat, NEW length \in Nat
  PROVE  /\ OverlapStart(first) = Greater(chunk_start, first)
         /\ OverlapEnd(first + length) = Lesser(ChunkEnd, first + length)
         /\ Overlap(segment, first, length) \in Seq(Segments \X Nat)
         /\ Len(Overlap(segment, first, length)) =
              IF OverlapStart(first) < OverlapEnd(first + length)
                THEN OverlapEnd(first + length) - OverlapStart(first) ELSE 0
         /\ \A i \in 1 .. Len(Overlap(segment, first, length)) :
              Overlap(segment, first, length)[i] =
                <<segment, OverlapStart(first) - first + (i - 1)>>
<1> DEFINE from == OverlapStart(first)
           to == OverlapEnd(first + length)
<1>1. /\ from = Greater(chunk_start, first) /\ to = Lesser(ChunkEnd, first + length)
      /\ from \in Nat /\ to \in Nat /\ from >= first
  BY ChunkFacts DEF TypeOK, Greater, Lesser, OverlapStart, OverlapEnd
<1> HIDE DEF from, to
<1>2. CASE from < to
  <2>1. to - from \in Nat
    BY <1>1, <1>2
  <2>2. Overlap(segment, first, length) =
          [i \in 1 .. (to - from) |-> <<segment, from - first + (i - 1)>>]
    BY <1>2 DEF Overlap, SegmentRows, OverlapCount, from, to
  <2>3. \A i \in 1 .. (to - from) : from - first + (i - 1) \in Nat
    BY <1>1
  <2>4. /\ Overlap(segment, first, length) \in Seq(Segments \X Nat)
        /\ Len(Overlap(segment, first, length)) = to - from
        /\ \A i \in 1 .. (to - from) :
             Overlap(segment, first, length)[i] = <<segment, from - first + (i - 1)>>
    BY <2>1, <2>2, <2>3
  <2> QED
    BY <1>1, <1>2, <2>4 DEF from, to
<1>3. CASE ~(from < to)
  <2>1. Overlap(segment, first, length) = <<>>
    BY <1>3 DEF Overlap, from, to
  <2> QED
    BY <1>1, <1>3, <2>1 DEF from, to
<1> QED
  BY <1>2, <1>3

\* The rows of a concatenation of three sequences.
LEMMA ConcatThree ==
  ASSUME NEW S, NEW x \in Seq(S), NEW y \in Seq(S), NEW z \in Seq(S)
  PROVE  /\ Len((x \o y) \o z) = Len(x) + Len(y) + Len(z)
         /\ \A i \in 1 .. Len(x) : ((x \o y) \o z)[i] = x[i]
         /\ \A i \in 1 .. Len(y) : ((x \o y) \o z)[Len(x) + i] = y[i]
         /\ \A i \in 1 .. Len(z) : ((x \o y) \o z)[Len(x) + Len(y) + i] = z[i]
<1>1. /\ x \o y \in Seq(S)
      /\ Len(x \o y) = Len(x) + Len(y)
      /\ \A i \in 1 .. (Len(x) + Len(y)) :
           (x \o y)[i] = IF i <= Len(x) THEN x[i] ELSE y[i - Len(x)]
  OBVIOUS
<1> DEFINE w == x \o y
<1>2. /\ Len(w \o z) = Len(w) + Len(z)
      /\ \A i \in 1 .. (Len(w) + Len(z)) :
           (w \o z)[i] = IF i <= Len(w) THEN w[i] ELSE z[i - Len(w)]
  BY <1>1
<1>3. Len(x) \in Nat /\ Len(y) \in Nat /\ Len(z) \in Nat
  OBVIOUS
<1> HIDE DEF w
<1>4. \A i \in 1 .. Len(x) : (w \o z)[i] = x[i]
  BY <1>1, <1>2, <1>3 DEF w
<1>5. \A i \in 1 .. Len(y) : (w \o z)[Len(x) + i] = y[i]
  BY <1>1, <1>2, <1>3 DEF w
<1>6. \A i \in 1 .. Len(z) : (w \o z)[Len(x) + Len(y) + i] = z[i]
  BY <1>1, <1>2, <1>3 DEF w
<1> QED
  BY <1>1, <1>2, <1>4, <1>5, <1>6 DEF w

\* Concatenated, the three parts give every position of the chunk its own row.
LEMMA ChunkInputRows ==
  ASSUME TypeOK, chunk_start < TokenCount
  PROVE  /\ Len(ChunkInput) = QueryCount
         /\ \A i \in 1 .. QueryCount :
              ChunkInput[i] = PromptRow(chunk_start + (i - 1))
<1> DEFINE b == Overlap("before", 0, shape.before)
           v == Overlap("visual", VisualBegin, shape.visual)
           a == Overlap("after", VisualEnd, shape.after)
<1>1. /\ "before" \in Segments /\ "visual" \in Segments /\ "after" \in Segments
      /\ 0 \in Nat
  BY DEF Segments
<1>2. /\ chunk_start \in Nat /\ ChunkEnd \in Nat /\ chunk_start < ChunkEnd
      /\ ChunkEnd <= TokenCount /\ QueryCount = ChunkEnd - chunk_start
      /\ VisualBegin \in Nat /\ VisualEnd \in Nat /\ TokenCount \in Nat
      /\ VisualBegin <= VisualEnd /\ VisualEnd <= TokenCount
      /\ 0 + shape.before = VisualBegin
      /\ VisualBegin + shape.visual = VisualEnd
      /\ VisualEnd + shape.after = TokenCount
      /\ shape.before \in Nat /\ shape.visual \in Nat /\ shape.after \in Nat
  <2>1. chunk_start \in Nat
    BY DEF TypeOK
  <2>2. /\ ChunkEnd \in Nat /\ chunk_start < ChunkEnd /\ ChunkEnd <= TokenCount
        /\ QueryCount \in Nat /\ ChunkEnd = chunk_start + QueryCount
    BY ChunkFacts
  <2>3. /\ VisualBegin \in Nat /\ VisualEnd \in Nat /\ TokenCount \in Nat
        /\ VisualBegin <= VisualEnd /\ VisualEnd <= TokenCount
        /\ shape.before \in Nat /\ shape.visual \in Nat /\ shape.after \in Nat
    BY ShapeFacts
  <2>4. /\ shape.before = VisualBegin
        /\ VisualEnd = VisualBegin + shape.visual
        /\ TokenCount = VisualEnd + shape.after
    BY ShapeFacts
  <2> QED
    BY <2>1, <2>2, <2>3, <2>4
<1> DEFINE S == Segments \X Nat
           from == chunk_start
           m == VisualBegin
           n == VisualEnd
           Size(f, t) == IF f < t THEN t - f ELSE 0
<1>21. /\ m \in Nat /\ n \in Nat
      /\ shape.before \in Nat /\ shape.visual \in Nat /\ shape.after \in Nat
  BY <1>2
<1>3. /\ b \in Seq(S)
      /\ Len(b) = Size(Greater(from, 0), Lesser(ChunkEnd, 0 + shape.before))
      /\ \A i \in 1 .. Len(b) : b[i] = <<"before", Greater(from, 0) - 0 + (i - 1)>>
  <2>1. OverlapStart(0) = Greater(from, 0)
    BY <1>1, <1>21, OverlapRows
  <2>2. OverlapEnd(0 + shape.before) = Lesser(ChunkEnd, 0 + shape.before)
    BY <1>1, <1>21, OverlapRows
  <2>3. b \in Seq(S)
    BY <1>1, <1>21, OverlapRows
  <2>4. Len(b) = Size(OverlapStart(0), OverlapEnd(0 + shape.before))
    BY <1>1, <1>21, OverlapRows
  <2>5. \A i \in 1 .. Len(b) : b[i] = <<"before", OverlapStart(0) - 0 + (i - 1)>>
    BY <1>1, <1>21, OverlapRows
  <2> QED
    BY <2>1, <2>2, <2>3, <2>4, <2>5
<1>4. /\ v \in Seq(S)
      /\ Len(v) = Size(Greater(from, m), Lesser(ChunkEnd, m + shape.visual))
      /\ \A i \in 1 .. Len(v) : v[i] = <<"visual", Greater(from, m) - m + (i - 1)>>
  <2>1. OverlapStart(m) = Greater(from, m)
    BY <1>1, <1>21, OverlapRows
  <2>2. OverlapEnd(m + shape.visual) = Lesser(ChunkEnd, m + shape.visual)
    BY <1>1, <1>21, OverlapRows
  <2>3. v \in Seq(S)
    BY <1>1, <1>21, OverlapRows
  <2>4. Len(v) = Size(OverlapStart(m), OverlapEnd(m + shape.visual))
    BY <1>1, <1>21, OverlapRows
  <2>5. \A i \in 1 .. Len(v) : v[i] = <<"visual", OverlapStart(m) - m + (i - 1)>>
    BY <1>1, <1>21, OverlapRows
  <2> QED
    BY <2>1, <2>2, <2>3, <2>4, <2>5
<1>5. /\ a \in Seq(S)
      /\ Len(a) = Size(Greater(from, n), Lesser(ChunkEnd, n + shape.after))
      /\ \A i \in 1 .. Len(a) : a[i] = <<"after", Greater(from, n) - n + (i - 1)>>
  <2>1. OverlapStart(n) = Greater(from, n)
    BY <1>1, <1>21, OverlapRows
  <2>2. OverlapEnd(n + shape.after) = Lesser(ChunkEnd, n + shape.after)
    BY <1>1, <1>21, OverlapRows
  <2>3. a \in Seq(S)
    BY <1>1, <1>21, OverlapRows
  <2>4. Len(a) = Size(OverlapStart(n), OverlapEnd(n + shape.after))
    BY <1>1, <1>21, OverlapRows
  <2>5. \A i \in 1 .. Len(a) : a[i] = <<"after", OverlapStart(n) - n + (i - 1)>>
    BY <1>1, <1>21, OverlapRows
  <2> QED
    BY <2>1, <2>2, <2>3, <2>4, <2>5
<1> HIDE DEF b, v, a
<1>6. /\ Len(b) \in Nat /\ Len(v) \in Nat /\ Len(a) \in Nat
      /\ Len(b) + Len(v) + Len(a) = ChunkEnd - from
      /\ Len(b) > 0 => Greater(from, 0) = from /\ from + Len(b) <= m
      /\ Len(v) > 0 => /\ Greater(from, m) = from + Len(b)
                       /\ from + Len(b) >= m /\ from + Len(b) + Len(v) <= n
      /\ Len(a) > 0 => /\ Greater(from, n) = from + Len(b) + Len(v)
                       /\ from + Len(b) + Len(v) >= n
  <2>1. /\ Len(b) = Size(Greater(from, 0), Lesser(ChunkEnd, m))
        /\ Len(v) = Size(Greater(from, m), Lesser(ChunkEnd, n))
        /\ Len(a) = Size(Greater(from, n), Lesser(ChunkEnd, TokenCount))
    BY <1>2, <1>3, <1>4, <1>5
  <2> QED
    BY <2>1, <1>2 DEF Greater, Lesser
<1>7. ChunkInput = (b \o v) \o a
  BY DEF ChunkInput, b, v, a
<1>8. /\ Len(ChunkInput) = Len(b) + Len(v) + Len(a)
      /\ \A i \in 1 .. Len(b) : ChunkInput[i] = b[i]
      /\ \A i \in 1 .. Len(v) : ChunkInput[Len(b) + i] = v[i]
      /\ \A i \in 1 .. Len(a) : ChunkInput[Len(b) + Len(v) + i] = a[i]
  <2> HIDE DEF S
  <2>1. b \in Seq(S) /\ v \in Seq(S) /\ a \in Seq(S)
    BY <1>3, <1>4, <1>5
  <2> HIDE DEF b, v, a
  <2>2. /\ Len((b \o v) \o a) = Len(b) + Len(v) + Len(a)
        /\ \A i \in 1 .. Len(b) : ((b \o v) \o a)[i] = b[i]
        /\ \A i \in 1 .. Len(v) : ((b \o v) \o a)[Len(b) + i] = v[i]
        /\ \A i \in 1 .. Len(a) : ((b \o v) \o a)[Len(b) + Len(v) + i] = a[i]
    BY <2>1, ConcatThree, SMTT(60)
  <2> QED
    BY <2>2, <1>7, Zenon
<1>9. ASSUME NEW i \in 1 .. QueryCount
      PROVE  ChunkInput[i] = PromptRow(from + (i - 1))
  <2>1. CASE i <= Len(b)
    <3>1. b[i] = <<"before", from + (i - 1)>>
      <4>1. i \in 1 .. Len(b) /\ Greater(from, 0) - 0 + (i - 1) = from + (i - 1)
        BY <2>1, <1>2, <1>6
      <4>2. b[i] = <<"before", Greater(from, 0) - 0 + (i - 1)>>
        BY <4>1, <1>3
      <4> QED
        BY <4>1, <4>2
    <3>2. from + (i - 1) < m
      BY <2>1, <1>2, <1>6
    <3>3. ChunkInput[i] = b[i]
      BY <2>1, <1>2, <1>6, <1>8
    <3> QED
      BY <3>1, <3>2, <3>3 DEF PromptRow
  <2>2. CASE Len(b) < i /\ i <= Len(b) + Len(v)
    <3> DEFINE j == i - Len(b)
    <3>1. j \in 1 .. Len(v) /\ i = Len(b) + j /\ Len(v) > 0
      BY <2>2, <1>2, <1>6
    <3>2. /\ Greater(from, m) - m + (j - 1) = from + (i - 1) - m
          /\ ~(from + (i - 1) < m)
          /\ from + (i - 1) < n
      BY <3>1, <1>2, <1>6, SMTT(60)
    <3>3. v[j] = <<"visual", from + (i - 1) - m>>
      <4>1. v[j] = <<"visual", Greater(from, m) - m + (j - 1)>>
        BY <3>1, <1>4
      <4>2. Greater(from, m) - m + (j - 1) = from + (i - 1) - m
        BY <3>2
      <4> QED
        BY <4>1, <4>2, Zenon
    <3>4. ChunkInput[i] = v[j]
      BY <3>1, <1>8
    <3>5. PromptRow(from + (i - 1)) = <<"visual", from + (i - 1) - m>>
      BY <3>2, <1>2 DEF PromptRow
    <3> QED
      BY <3>3, <3>4, <3>5
  <2>3. CASE Len(b) + Len(v) < i
    <3> DEFINE j == i - (Len(b) + Len(v))
    <3>1. j \in 1 .. Len(a) /\ i = Len(b) + Len(v) + j /\ Len(a) > 0
      BY <2>3, <1>2, <1>6
    <3>2. /\ Greater(from, n) - n + (j - 1) = from + (i - 1) - n
          /\ ~(from + (i - 1) < m)
          /\ ~(from + (i - 1) < n)
      BY <3>1, <1>2, <1>6, SMTT(60)
    <3>3. a[j] = <<"after", from + (i - 1) - n>>
      <4>1. a[j] = <<"after", Greater(from, n) - n + (j - 1)>>
        BY <3>1, <1>5
      <4>2. Greater(from, n) - n + (j - 1) = from + (i - 1) - n
        BY <3>2
      <4> QED
        BY <4>1, <4>2, Zenon
    <3>4. ChunkInput[i] = a[j]
      BY <3>1, <1>8
    <3>5. PromptRow(from + (i - 1)) = <<"after", from + (i - 1) - n>>
      BY <3>2, <1>2 DEF PromptRow
    <3> QED
      BY <3>3, <3>4, <3>5
  <2> QED
    BY <2>1, <2>2, <2>3, <1>2, <1>6
<1> QED
  BY <1>2, <1>6, <1>8, <1>9

\* A layer whose source is defined reads a stored layer that is not above it and
\* has the same kind of attention.
LEMMA SourceFacts ==
  ASSUME TypeOK, SharingAllowed, NEW l \in Layers, SourceDefined(l)
  PROVE  /\ SourceLayer(l) \in StoredLayers
         /\ SourceLayer(l) \in Layers
         /\ SourceLayer(l) <= l
         /\ l < StoredCount => SourceLayer(l) = l
         /\ IsSlidingWindow(SourceLayer(l)) = IsSlidingWindow(l)
<1>1. /\ config.block_count \in Nat /\ config.shared_kv_layers \in Nat
      /\ config.shared_kv_layers < config.block_count
      /\ StoredCount = config.block_count - config.shared_kv_layers
      /\ l \in Nat /\ l < config.block_count
  BY ShapeFacts DEF SharingAllowed, StoredCount, Layers
<1>2. CASE l < StoredCount
  BY <1>1, <1>2 DEF SourceLayer, StoredLayers, Layers
<1>3. CASE ~(l < StoredCount)
  <2>1. /\ SourceLayer(l) = SharedSource(l)
        /\ SharedSource(l) >= 0
        /\ IsSlidingWindow(SharedSource(l)) = IsSlidingWindow(l)
    BY <1>1, <1>3 DEF SourceLayer, SourceDefined
  <2>2. SharedSource(l) \in Int /\ SharedSource(l) < StoredCount
    BY <1>1 DEF SharedSource
  <2> QED
    BY <1>1, <1>3, <2>1, <2>2 DEF StoredLayers, Layers
<1> QED
  BY <1>2, <1>3

\* The part of the cache an attention views reaches its chunk's end and stays
\* inside the tensor.
LEMMA ViewFits ==
  ASSUME TypeOK, ControlInv, InGraph
  PROVE  /\ CacheCount \in Nat
         /\ ChunkEnd <= CacheCount
         /\ CacheCount <= capacity
         /\ TokenCount <= capacity
<1>1. /\ chunk_start < TokenCount /\ capacity = Capacity /\ TokenCount \in Nat
  BY ShapeFacts DEF ControlInv, InGraph, Active
<1>2. ChunkEnd \in Nat /\ ChunkEnd <= TokenCount
  BY <1>1, ChunkFacts
<1>3. CASE flash
  <2>1. CacheCount = PaddedCount(ChunkEnd) /\ capacity = PaddedCount(TokenCount)
    BY <1>1, <1>3 DEF CacheCount, Capacity
  <2>2. /\ PaddedCount(ChunkEnd) \in Nat /\ ChunkEnd <= PaddedCount(ChunkEnd)
        /\ PaddedCount(TokenCount) \in Nat /\ TokenCount <= PaddedCount(TokenCount)
    BY <1>1, <1>2, PaddedCountBounds
  <2>3. PaddedCount(ChunkEnd) <= PaddedCount(TokenCount)
    BY <1>1, <1>2, PaddedCountMonotone
  <2> QED
    BY <2>1, <2>2, <2>3
<1>4. CASE ~flash
  BY <1>1, <1>2, <1>4 DEF CacheCount, Capacity
<1> QED
  BY <1>3, <1>4

\* What a query of the running chunk reads is its causal scope in the source layer.
LEMMA ReadRowsCausal ==
  ASSUME TypeOK, ControlInv, CacheInv, pc = "attend",
         NEW p \in chunk_start .. (ChunkEnd - 1)
  PROVE  ReadRows(layer, p) = CausalKeys(SourceLayer(layer), layer, p)
<1> DEFINE src == SourceLayer(layer)
<1>1. /\ InGraph /\ Active /\ SharingAllowed /\ chunk_start < TokenCount
      /\ layer \in Layers /\ SourceDefined(layer)
  BY DEF InGraph, Active, ControlInv, TypeOK
<1>2. src \in StoredLayers /\ src <= layer /\ layer \in Nat /\ src \in Nat
  BY <1>1, SourceFacts DEF Layers, StoredLayers
<1>3. /\ chunk_start \in Nat /\ ChunkEnd \in Nat /\ ChunkEnd <= CacheCount
      /\ CacheCount <= capacity /\ CacheCount \in Nat /\ capacity \in Nat
      /\ p \in Nat /\ p < ChunkEnd
  BY <1>1, ViewFits, ChunkFacts DEF TypeOK
<1>4. StoredUpTo(src) = ChunkEnd
  BY <1>1, <1>2 DEF StoredUpTo
<1>5. \A s \in Slots : s < ChunkEnd => cache[src][s] = <<src, s>>
  BY <1>1, <1>2, <1>4 DEF CacheInv
<1>6. Window(layer) \in Nat
  BY ShapeFacts DEF Window
<1>7. {k \in 0 .. (CacheCount - 1) : ~Blocked(p, k, Window(layer))} = CausalScope(layer, p)
  BY <1>3, <1>6 DEF Blocked, CausalScope
<1>8. \A k \in CausalScope(layer, p) : cache[src][k] = <<src, k>>
  BY <1>3, <1>5 DEF CausalScope, Slots
<1> QED
  BY <1>7, <1>8 DEF ReadRows, CausalKeys

\* ---- what the invariant implies ---------------------------------------------

\* The model and the prompt do not change during a call, nor does anything made
\* of them alone.
LEMMA FrameFacts ==
  ASSUME config' = config, flash' = flash, shape' = shape
  PROVE  /\ TokenCount' = TokenCount
         /\ Positions' = Positions
         /\ Layers' = Layers
         /\ StoredCount' = StoredCount
         /\ StoredLayers' = StoredLayers
         /\ Capacity' = Capacity
         /\ InitialSlot' = InitialSlot
         /\ SharingAllowed' = SharingAllowed
         /\ \A l : SourceDefined(l)' = SourceDefined(l)
         /\ \A l : SourceLayer(l)' = SourceLayer(l)
         /\ \A l : IsSlidingWindow(l)' = IsSlidingWindow(l)
         /\ \A source, l, p : CausalKeys(source, l, p)' = CausalKeys(source, l, p)
         /\ \A p : PromptRow(p)' = PromptRow(p)
         /\ \A p : FedRow(p)' = FedRow(p)
<1>1. TokenCount' = TokenCount /\ Positions' = Positions /\ Capacity' = Capacity
  BY DEF TokenCount, Positions, Capacity, PaddedCount
<1>2. Layers' = Layers /\ StoredCount' = StoredCount /\ StoredLayers' = StoredLayers
  BY DEF Layers, StoredCount, StoredLayers
<1>3. InitialSlot' = InitialSlot /\ SharingAllowed' = SharingAllowed
  BY DEF InitialSlot, SharingAllowed
<1>4. \A l : IsSlidingWindow(l)' = IsSlidingWindow(l)
  BY DEF IsSlidingWindow
<1>5. \A l : SharedSource(l)' = SharedSource(l)
  BY <1>2, <1>4 DEF SharedSource
<1>6. \A l : SourceDefined(l)' = SourceDefined(l) /\ SourceLayer(l)' = SourceLayer(l)
  BY <1>2, <1>5 DEF SourceDefined, SourceLayer, IsSlidingWindow
<1>7. \A l, p : CausalScope(l, p)' = CausalScope(l, p)
  BY DEF CausalScope, Window, IsSlidingWindow
<1>71. \A source, l, p : CausalKeys(source, l, p)' = CausalKeys(source, l, p)
  BY <1>7 DEF CausalKeys
<1>8. \A p : PromptRow(p)' = PromptRow(p)
  BY DEF PromptRow, VisualBegin, VisualEnd
<1>9. \A p : FedRow(p)' = FedRow(p)
  BY <1>8 DEF FedRow
<1> QED
  BY <1>1, <1>2, <1>3, <1>4, <1>6, <1>71, <1>8, <1>9

\* What the loop has fed so far is the prompt in its own order.
LEMMA FedInvInOrder ==
  ASSUME FedInv, pc # "failed"
  PROVE  FedInOrder
<1> SUFFICES ASSUME NEW p \in Positions, fed[p] # None
             PROVE  fed[p] = FedRow(p)
  BY DEF FedInOrder, FedRow
<1> QED
  BY DEF FedInv

\* The reads recorded so far are causal: a layer's source stores K/V and has its
\* kind of attention.
LEMMA AttendedInvCausal ==
  ASSUME TypeOK, ControlInv, AttendedInv, pc # "failed"
  PROVE  AttendsCausally
<1> SUFFICES ASSUME NEW l \in Layers, NEW p \in Positions, attended[<<l, p>>] # {}
             PROVE  \E source \in StoredLayers :
                      /\ IsSlidingWindow(source) = IsSlidingWindow(l)
                      /\ attended[<<l, p>>] = CausalKeys(source, l, p)
  BY DEF AttendsCausally
<1>1. p < AttendedUpTo(l) /\ attended[<<l, p>>] = CausalKeys(SourceLayer(l), l, p)
  BY DEF AttendedInv
<1>2. p \in Nat /\ TokenCount \in Nat /\ chunk_start \in Nat
  <2>1. TokenCount \in Nat /\ Positions = 0 .. (TokenCount - 1)
    BY ShapeFacts
  <2> QED
    BY <2>1 DEF TypeOK
<1>21. p < AttendedUpTo(l)
  BY <1>1
<1>3. InGraph \/ chunk_start > 0
  BY <1>2, <1>21 DEF AttendedUpTo, Covered, Lesser
<1>4. pc # "start"
  BY <1>3 DEF ControlInv, InGraph
<1>5. Active /\ SharingAllowed /\ SourceDefined(l)
  BY <1>3, <1>4 DEF ControlInv, Active, TypeOK
<1> QED
  BY <1>1, <1>5, SourceFacts

\* Only cleared slots are read beyond the positions stored so far.
LEMMA ViewIsInitialised ==
  ASSUME TypeOK, ControlInv, CacheInv
  PROVE  ViewInitialised
<1> SUFFICES ASSUME pc = "attend"
             PROVE  /\ CacheCount <= capacity
                    /\ \A key \in 0 .. (CacheCount - 1) :
                         cache[SourceLayer(layer)][key] # Unset
  BY DEF ViewInitialised
<1> DEFINE src == SourceLayer(layer)
<1>1. /\ InGraph /\ Active /\ SharingAllowed /\ chunk_start < TokenCount
      /\ layer \in Layers /\ SourceDefined(layer)
  BY DEF InGraph, Active, ControlInv, TypeOK
<1>2. /\ src \in StoredLayers /\ src <= layer /\ layer \in Nat /\ src \in Nat
  BY <1>1, SourceFacts DEF Layers, StoredLayers
<1>3. /\ CacheCount \in Nat /\ CacheCount <= capacity /\ capacity \in Nat
      /\ ChunkEnd \in Nat
  BY <1>1, ViewFits, ChunkFacts DEF TypeOK
<1>4. StoredUpTo(src) = ChunkEnd
  BY <1>1, <1>2 DEF StoredUpTo
<1>5. ASSUME NEW key \in 0 .. (CacheCount - 1)
      PROVE  cache[src][key] # Unset
  <2>1. key \in Slots /\ key \in Nat
    BY <1>3 DEF Slots
  <2>2. cache[src][key] = IF key < ChunkEnd THEN <<src, key>> ELSE InitialSlot
    BY <1>1, <1>2, <1>4, <2>1 DEF CacheInv
  <2>3. <<src, key>> # Unset
    BY <1>2, <2>1, SlotAssumption
  <2>4. flash => InitialSlot # Unset
    BY SlotAssumption DEF InitialSlot
  <2>5. ~flash => key < ChunkEnd
    BY <1>3 DEF CacheCount
  <2> QED
    BY <2>2, <2>3, <2>4, <2>5
<1> QED
  BY <1>3, <1>5

\* A call that returned has stored, and read the logits of, the whole prompt.
LEMMA DoneIsWhole ==
  ASSUME TypeOK, ControlInv, CacheInv, LogitsInv
  PROVE  ReturnsWholePrompt
<1> SUFFICES ASSUME pc = "done"
             PROVE  /\ prefix_length = TokenCount
                    /\ logits = TokenCount - 1
                    /\ \A l \in StoredLayers, p \in Positions : cache[l][p] = <<l, p>>
  BY DEF ReturnsWholePrompt
<1>1. /\ chunk_start >= TokenCount /\ prefix_length = TokenCount /\ capacity = Capacity
      /\ chunk_start \in Nat /\ TokenCount \in Nat /\ capacity \in Nat
  BY ShapeFacts DEF ControlInv, Active, TypeOK
<1>2. logits = TokenCount - 1
  BY <1>1 DEF LogitsInv
<1>3. TokenCount <= capacity
  BY <1>1, PaddedCountBounds DEF Capacity
<1>4. ASSUME NEW l \in StoredLayers, NEW p \in Positions
      PROVE  cache[l][p] = <<l, p>>
  <2>1. p \in Slots /\ p < TokenCount
    BY <1>1, <1>3 DEF Positions, Slots
  <2>2. StoredUpTo(l) = TokenCount
    BY <1>1 DEF StoredUpTo, InGraph, Covered, Lesser
  <2> QED
    BY <2>1, <2>2 DEF CacheInv, Active
<1> QED
  BY <1>1, <1>2, <1>4

\* While the call has not failed, the two history properties follow from how far
\* the inputs and the attention have got; in the next state as well.
LEMMA HistoryFollows ==
  TypeOK /\ ControlInv /\ AttendedInv /\ FedInv /\ NotFailed
    => FedInOrder /\ AttendsCausally
BY FedInvInOrder, AttendedInvCausal DEF NotFailed

\* The same of the next state.
LEMMA HistoryFollowsNext ==
  TypeOK' /\ ControlInv' /\ AttendedInv' /\ FedInv' /\ NotFailed'
    => FedInOrder' /\ AttendsCausally'
BY HistoryFollows, PTL

\* ---- the initial states ------------------------------------------------------

\* The invariant holds before the call has done anything.
LEMMA InitInv ==
  ASSUME Init
  PROVE  IInv
<1>1. TypeOK
  <2>1. config.block_count \in Nat \ {0}
    BY ConfigsAssumption DEF Init, CacheInit, ConfigType
  <2>2. layer \in Layers
    BY <2>1 DEF Init, Layers
  <2>3. cache \in [StoredLayers -> [Slots -> SlotContents]]
    BY DEF Init, CacheInit, SlotContents
  <2>4. fed \in [Positions -> Rows \cup {None}]
    BY DEF Init
  <2>5. attended \in [Layers \X Positions -> SUBSET SlotContents]
    BY DEF Init
  <2> QED
    BY <2>2, <2>3, <2>4, <2>5 DEF Init, CacheInit, TypeOK, Errors
<1>2. /\ pc = "start" /\ error = "none" /\ chunk_start = 0 /\ layer = 0
      /\ prefix_length = 0 /\ logits = None /\ ~InGraph /\ ~Active
  BY DEF Init, CacheInit, InGraph, Active
<1>3. TokenCount \in Nat /\ Positions = 0 .. (TokenCount - 1)
  BY <1>1, ShapeFacts
<1>4. Covered = 0 /\ FedUpTo = 0 /\ \A l : AttendedUpTo(l) = 0
  BY <1>2, <1>3 DEF Covered, Lesser, FedUpTo, AttendedUpTo
<1>5. ControlInv
  BY <1>2 DEF ControlInv
<1>6. CacheInv
  BY <1>2 DEF CacheInv
<1>7. AttendedInv
  <2> SUFFICES ASSUME NEW l \in Layers, NEW p \in Positions
               PROVE  attended[<<l, p>>] = {} /\ ~(p < AttendedUpTo(l))
    BY DEF AttendedInv
  <2> QED
    BY <1>3, <1>4 DEF Init
<1>8. FedInv
  <2> SUFFICES ASSUME NEW p \in Positions
               PROVE  fed[p] = None /\ ~(p < FedUpTo)
    BY DEF FedInv
  <2> QED
    BY <1>3, <1>4 DEF Init
<1>9. LogitsInv
  BY <1>2 DEF LogitsInv
<1>10. OnlyExpectedErrors
  BY <1>2 DEF OnlyExpectedErrors
<1> QED
  BY <1>1, <1>2, <1>5, <1>6, <1>7, <1>8, <1>9, <1>10, HistoryFollows DEF IInv, NotFailed

\* ---- every step preserves the invariant ---------------------------------------

\* A step that neither feeds nor attends keeps the two history properties.
LEMMA HistoryUnchanged ==
  ASSUME FedInOrder, AttendsCausally, config' = config, flash' = flash,
         shape' = shape, fed' = fed, attended' = attended
  PROVE  FedInOrder' /\ AttendsCausally'
<1>1. FedInOrder'
  BY FrameFacts DEF FedInOrder, PadId
<1>2. AttendsCausally'
  <2>1. Layers' = Layers /\ Positions' = Positions /\ StoredLayers' = StoredLayers
    BY FrameFacts
  <2>2. /\ \A l : IsSlidingWindow(l)' = IsSlidingWindow(l)
        /\ \A source, l, p : CausalKeys(source, l, p)' = CausalKeys(source, l, p)
    BY FrameFacts
  <2> SUFFICES ASSUME NEW l \in Layers, NEW p \in Positions,
                      attended[<<l, p>>] # {}
               PROVE  \E source \in StoredLayers :
                        /\ IsSlidingWindow(source)' = IsSlidingWindow(l)'
                        /\ attended[<<l, p>>] = CausalKeys(source, l, p)'
    BY <2>1 DEF AttendsCausally
  <2> QED
    BY <2>2 DEF AttendsCausally
<1> QED
  BY <1>1, <1>2

\* A step that throws one of the expected errors preserves the invariant.
LEMMA ThrowInv ==
  ASSUME IInv, NEW reason \in Errors, Throw(reason),
         reason \notin {"shape", "freeze"},
         reason = "capacity" => flash /\ config.context_length % PadUnit # 0
  PROVE  IInv'
<1>1. /\ config' = config /\ flash' = flash /\ shape' = shape
      /\ capacity' = capacity /\ cache' = cache /\ prefix_length' = prefix_length
      /\ pc' = "failed" /\ error' = reason /\ chunk_start' = chunk_start
      /\ layer' = layer /\ fed' = fed /\ attended' = attended /\ logits' = logits
  BY DEF Throw, cacheVars
<1>2. TypeOK /\ FedInOrder /\ AttendsCausally
  BY DEF IInv
<1>3. TypeOK'
  <2>1. Slots' = Slots
    BY <1>1 DEF Slots
  <2> QED
    BY <1>1, <1>2, <2>1, FrameFacts DEF TypeOK
<1>4. ~Active' /\ ~InGraph'
  BY <1>1 DEF Active, InGraph
<1>5. ControlInv' /\ CacheInv' /\ AttendedInv' /\ FedInv' /\ LogitsInv'
  BY <1>1, <1>4 DEF ControlInv, CacheInv, AttendedInv, FedInv, LogitsInv
<1>6. FedInOrder' /\ AttendsCausally'
  BY <1>1, <1>2, HistoryUnchanged
<1>8. OnlyExpectedErrors'
  BY <1>1 DEF OnlyExpectedErrors
<1> QED
  BY <1>3, <1>5, <1>6, <1>8 DEF IInv

\* A step that throws nothing keeps the invariant if it keeps these parts of it.
LEMMA PartsSuffice ==
  ASSUME IInv, TypeOK', ControlInv', CacheInv', AttendedInv', FedInv', LogitsInv',
         pc' # "failed", error' = error, config' = config, flash' = flash
  PROVE  IInv'
<1>1. OnlyExpectedErrors'
  BY DEF IInv, OnlyExpectedErrors
<1>2. NotFailed'
  BY DEF NotFailed
<1> QED
  BY <1>1, <1>2, HistoryFollowsNext DEF IInv

\* Passing the context check and creating the cache preserves the invariant.
LEMMA StartInv ==
  ASSUME IInv, Start
  PROVE  IInv'
<1>1. /\ config' = config /\ flash' = flash /\ shape' = shape
      /\ prefix_length' = prefix_length /\ error' = error
      /\ chunk_start' = chunk_start /\ layer' = layer
      /\ fed' = fed /\ attended' = attended /\ logits' = logits
      /\ pc = "start" /\ pc' = "build" /\ capacity' = Capacity
      /\ cache' = [l \in StoredLayers |-> [s \in 0 .. (Capacity - 1) |-> InitialSlot]]
  BY DEF Start, CreateCache
<1>2. TypeOK /\ ControlInv /\ AttendedInv /\ FedInv /\ LogitsInv
  BY DEF IInv
<1>3. TokenCount \in Nat /\ Positions = 0 .. (TokenCount - 1)
  BY <1>2, ShapeFacts
<1>4. TokenCount > 0 /\ SharingAllowed
  BY <1>3 DEF Start, StartError
<1>5. chunk_start = 0 /\ layer = 0 /\ prefix_length = 0
  BY <1>1, <1>2 DEF ControlInv
<1>6. Capacity \in Nat
  BY <1>3, PaddedCountBounds DEF Capacity
<1>7. /\ TokenCount' = TokenCount /\ Positions' = Positions /\ Layers' = Layers
      /\ StoredLayers' = StoredLayers /\ Capacity' = Capacity
      /\ InitialSlot' = InitialSlot /\ SharingAllowed' = SharingAllowed
      /\ Slots' = 0 .. (Capacity - 1)
  BY <1>1, FrameFacts DEF Slots
<1>8. TypeOK'
  <2>1. cache' \in [StoredLayers' -> [Slots' -> SlotContents]]
    BY <1>1, <1>7 DEF SlotContents, InitialSlot
  <2> QED
    BY <1>1, <1>2, <1>6, <1>7, <2>1 DEF TypeOK
<1>9. ~InGraph /\ ~InGraph' /\ Active' /\ Covered' = 0 /\ Covered = 0
  BY <1>1, <1>3, <1>4, <1>5, <1>7 DEF InGraph, Active, Covered, Lesser
<1>10. /\ FedUpTo' = 0 /\ FedUpTo = 0
       /\ \A l : StoredUpTo(l)' = 0 /\ AttendedUpTo(l)' = 0 /\ AttendedUpTo(l) = 0
  BY <1>9 DEF FedUpTo, StoredUpTo, AttendedUpTo
<1>11. ControlInv'
  BY <1>1, <1>4, <1>5, <1>7, <1>9 DEF ControlInv
<1>12. CacheInv'
  <2> SUFFICES ASSUME NEW l \in StoredLayers, NEW s \in 0 .. (Capacity - 1)
               PROVE  cache'[l][s] = InitialSlot /\ ~(s < 0)
    BY <1>7, <1>10 DEF CacheInv
  <2> QED
    BY <1>1, <1>6
<1>13. AttendedInv'
  <2> SUFFICES ASSUME NEW l \in Layers, NEW p \in Positions
               PROVE  attended[<<l, p>>] = {} /\ ~(p < 0)
    BY <1>1, <1>7, <1>10 DEF AttendedInv
  <2> QED
    BY <1>1, <1>2, <1>3, <1>10 DEF AttendedInv
<1>14. FedInv'
  <2> SUFFICES ASSUME NEW p \in Positions
               PROVE  fed[p] = None /\ ~(p < 0)
    BY <1>1, <1>7, <1>10 DEF FedInv
  <2> QED
    BY <1>1, <1>2, <1>3, <1>10 DEF FedInv
<1>15. LogitsInv'
  BY <1>1, <1>2, <1>3, <1>4, <1>5, <1>7 DEF LogitsInv
<1> QED
  BY <1>1, <1>8, <1>11, <1>12, <1>13, <1>14, <1>15, PartsSuffice

\* Feeding a chunk preserves the invariant: its rows continue the prompt where the
\* last chunk ended.
LEMMA BuildChunkInv ==
  ASSUME IInv, BuildChunk
  PROVE  IInv'
<1>1. /\ config' = config /\ flash' = flash /\ shape' = shape
      /\ capacity' = capacity /\ cache' = cache /\ prefix_length' = prefix_length
      /\ error' = error /\ chunk_start' = chunk_start
      /\ attended' = attended /\ logits' = logits
      /\ pc = "build" /\ pc' = "store" /\ layer' = 0
      /\ chunk_start < TokenCount /\ BuildError = "none"
  BY DEF BuildChunk, cacheVars
<1>2. TypeOK /\ ControlInv /\ CacheInv /\ AttendedInv /\ FedInv /\ LogitsInv
  BY DEF IInv
<1>3. /\ TokenCount \in Nat /\ Positions = 0 .. (TokenCount - 1)
      /\ chunk_start \in Nat /\ config.block_count \in Nat \ {0}
  BY <1>2, ShapeFacts DEF TypeOK
<1>4. /\ ChunkEnd \in Nat /\ chunk_start < ChunkEnd /\ ChunkEnd <= TokenCount
      /\ ChunkEnd = chunk_start + QueryCount /\ QueryCount \in Nat
      /\ Covered = chunk_start
  BY <1>1, <1>2, ChunkFacts
<1>5. /\ TokenCount' = TokenCount /\ Positions' = Positions /\ Layers' = Layers
      /\ StoredLayers' = StoredLayers /\ Capacity' = Capacity /\ Slots' = Slots
      /\ InitialSlot' = InitialSlot /\ SharingAllowed' = SharingAllowed
      /\ \A l : SourceDefined(l)' = SourceDefined(l)
      /\ \A l : SourceLayer(l)' = SourceLayer(l)
      /\ \A source, l, p : CausalKeys(source, l, p)' = CausalKeys(source, l, p)
      /\ \A p : FedRow(p)' = FedRow(p)
  BY <1>1, FrameFacts DEF Slots
<1>6. ChunkEnd' = ChunkEnd /\ Covered' = Covered
  BY <1>1, <1>5 DEF ChunkEnd, QueryCount, Covered
<1>7. InGraph' /\ ~InGraph /\ Active /\ Active'
  BY <1>1 DEF InGraph, Active
<1>8. ASSUME NEW p \in Positions
      PROVE  fed'[p] = IF p < ChunkEnd THEN FedRow(p) ELSE None
  <2>1. p \in Nat /\ p < TokenCount
    BY <1>3
  <2>2. FedUpTo = chunk_start
    BY <1>4, <1>7 DEF FedUpTo
  <2>3. fed[p] = IF p < chunk_start THEN FedRow(p) ELSE None
    BY <1>1, <1>2, <2>2 DEF FedInv
  <2>4. fed'[p] = IF p \in chunk_start .. (ChunkEnd - 1)
                    THEN <<ChunkInput[p - chunk_start + 1], PerLayerId(p)>>
                    ELSE fed[p]
    BY DEF BuildChunk
  <2>5. CASE p \in chunk_start .. (ChunkEnd - 1)
    <3> DEFINE i == p - chunk_start + 1
    <3>1. i \in 1 .. QueryCount /\ chunk_start + (i - 1) = p
      BY <1>3, <1>4, <2>1, <2>5
    <3>2. ChunkInput[i] = PromptRow(chunk_start + (i - 1))
      BY <1>1, <1>2, <3>1, ChunkInputRows
    <3>3. ChunkInput[i] = PromptRow(p)
      BY <3>1, <3>2
    <3>4. PerLayerId(p) = IF PromptRow(p)[1] = "visual" THEN PadId ELSE PromptRow(p)
      BY <1>2, <2>1, ShapeFacts, SMTT(60) DEF PerLayerId, PromptRow
    <3>5. fed'[p] = FedRow(p)
      BY <2>4, <2>5, <3>3, <3>4 DEF FedRow
    <3> QED
      BY <1>3, <1>4, <2>1, <2>5, <3>5
  <2>6. CASE ~(p \in chunk_start .. (ChunkEnd - 1))
    <3>1. p < ChunkEnd <=> p < chunk_start
      BY <1>3, <1>4, <2>1, <2>6
    <3> QED
      BY <2>3, <2>4, <2>6, <3>1
  <2> QED
    BY <2>5, <2>6
<1>9. TypeOK'
  <2>1. \A p \in Positions : FedRow(p) \in Rows
    <3> SUFFICES ASSUME NEW p \in Positions
                 PROVE  FedRow(p) \in Rows
      OBVIOUS
    <3>1. p \in Nat /\ VisualBegin \in Nat /\ VisualEnd \in Nat /\ VisualBegin <= VisualEnd
      BY <1>2, <1>3, ShapeFacts
    <3>2. PromptRow(p) \in Segments \X Nat
      BY <3>1 DEF PromptRow, Segments
    <3>3. PadId \in Segments \X Nat
      BY DEF PadId, Segments
    <3> QED
      BY <3>2, <3>3 DEF FedRow, Rows
  <2>2. fed' \in [Positions -> Rows \cup {None}]
    <3>1. \A p \in Positions : fed'[p] \in Rows \cup {None}
      BY <1>8, <2>1
    <3>2. fed' = [p \in Positions |-> fed'[p]]
      BY DEF BuildChunk
    <3> QED
      BY <3>1, <3>2
  <2>3. 0 \in Layers
    BY <1>3 DEF Layers
  <2> QED
    BY <1>1, <1>2, <1>5, <2>2, <2>3 DEF TypeOK
<1>10. /\ FedUpTo' = ChunkEnd
       /\ \A l \in Nat : /\ StoredUpTo(l)' = Covered /\ StoredUpTo(l) = Covered
                         /\ AttendedUpTo(l)' = Covered /\ AttendedUpTo(l) = Covered
  BY <1>1, <1>6, <1>7 DEF FedUpTo, StoredUpTo, AttendedUpTo
<1>11. ControlInv'
  <2>1. \A l \in Layers : SourceDefined(l)
    BY <1>1 DEF BuildError
  <2> QED
    BY <1>1, <1>2, <1>5, <1>7, <2>1 DEF ControlInv
<1>12. CacheInv'
  <2> SUFFICES ASSUME NEW l \in StoredLayers, NEW s \in Slots
               PROVE  cache[l][s] = IF s < StoredUpTo(l)' THEN <<l, s>> ELSE InitialSlot
    BY <1>1, <1>5 DEF CacheInv
  <2>1. l \in Nat
    BY DEF StoredLayers
  <2> QED
    BY <1>2, <1>7, <1>10, <2>1 DEF CacheInv
<1>13. AttendedInv'
  <2> SUFFICES ASSUME NEW l \in Layers, NEW p \in Positions
               PROVE  attended[<<l, p>>] = IF p < AttendedUpTo(l)'
                                             THEN CausalKeys(SourceLayer(l), l, p) ELSE {}
    BY <1>1, <1>5 DEF AttendedInv
  <2>1. l \in Nat
    BY DEF Layers
  <2> QED
    BY <1>1, <1>2, <1>10, <2>1 DEF AttendedInv
<1>14. FedInv'
  BY <1>5, <1>8, <1>10 DEF FedInv
<1>15. LogitsInv'
  BY <1>1, <1>2, <1>3 DEF LogitsInv
<1> QED
  BY <1>1, <1>9, <1>11, <1>12, <1>13, <1>14, <1>15, PartsSuffice

\* Copying a layer's K/V into the cache preserves the invariant: only the chunk's
\* slots change.
LEMMA StoreKVInv ==
  ASSUME IInv, StoreKV
  PROVE  IInv'
<1>1. /\ config' = config /\ flash' = flash /\ shape' = shape
      /\ capacity' = capacity /\ prefix_length' = prefix_length
      /\ error' = error /\ chunk_start' = chunk_start /\ layer' = layer
      /\ fed' = fed /\ attended' = attended /\ logits' = logits
      /\ pc = "store" /\ pc' = "attend"
  BY DEF StoreKV
<1>2. TypeOK /\ ControlInv /\ CacheInv /\ AttendedInv /\ FedInv /\ LogitsInv
  BY DEF IInv
<1>3. InGraph /\ InGraph' /\ Active /\ Active'
  BY <1>1 DEF InGraph, Active
<1>4. /\ chunk_start < TokenCount /\ layer \in Layers /\ layer \in Nat
      /\ chunk_start \in Nat /\ TokenCount \in Nat
  BY <1>2, <1>3, ShapeFacts, SMTT(60) DEF ControlInv, TypeOK, Layers
<1>5. ChunkEnd \in Nat /\ chunk_start < ChunkEnd /\ Covered = chunk_start
  BY <1>2, <1>4, ChunkFacts
<1>6. /\ TokenCount' = TokenCount /\ Positions' = Positions /\ Layers' = Layers
      /\ StoredLayers' = StoredLayers /\ Capacity' = Capacity /\ Slots' = Slots
      /\ InitialSlot' = InitialSlot /\ SharingAllowed' = SharingAllowed
      /\ \A l : SourceDefined(l)' = SourceDefined(l)
      /\ \A l : SourceLayer(l)' = SourceLayer(l)
      /\ \A source, l, p : CausalKeys(source, l, p)' = CausalKeys(source, l, p)
      /\ \A p : FedRow(p)' = FedRow(p)
  BY <1>1, FrameFacts DEF Slots
<1>7. ChunkEnd' = ChunkEnd /\ Covered' = Covered
  BY <1>1, <1>6 DEF ChunkEnd, QueryCount, Covered
<1>8. ASSUME NEW l \in StoredLayers, NEW s \in Slots
      PROVE  cache'[l][s] = IF l = layer /\ s \in chunk_start .. (ChunkEnd - 1)
                              THEN <<l, s>> ELSE cache[l][s]
  <2>1. cache \in [StoredLayers -> [Slots -> SlotContents]]
    BY <1>2 DEF TypeOK
  <2>2. layer < StoredCount <=> layer \in StoredLayers
    BY <1>2, <1>4, ShapeFacts DEF StoredLayers
  <2>3. CASE layer \in StoredLayers
    <3>1. cache' = [cache EXCEPT ![layer] =
                      [x \in Slots |->
                         IF x \in chunk_start .. (ChunkEnd - 1)
                           THEN <<layer, x>> ELSE cache[layer][x]]]
      BY <2>2, <2>3 DEF StoreKV, StorePositions
    <3> QED
      BY <2>1, <2>3, <3>1
  <2>4. CASE layer \notin StoredLayers
    BY <2>2, <2>4 DEF StoreKV
  <2> QED
    BY <2>3, <2>4
<1>9. TypeOK'
  <2>1. cache \in [StoredLayers -> [Slots -> SlotContents]]
    BY <1>2 DEF TypeOK
  <2>2. layer < StoredCount <=> layer \in StoredLayers
    BY <1>2, <1>4, ShapeFacts DEF StoredLayers
  <2>3. cache' \in [StoredLayers -> [Slots -> SlotContents]]
    <3>1. CASE layer \in StoredLayers
      <4> DEFINE row == [x \in Slots |->
                           IF x \in chunk_start .. (ChunkEnd - 1)
                             THEN <<layer, x>> ELSE cache[layer][x]]
      <4>1. cache' = [cache EXCEPT ![layer] = row]
        BY <2>2, <3>1 DEF StoreKV, StorePositions
      <4>2. row \in [Slots -> SlotContents]
        <5>1. \A x \in Slots : <<layer, x>> \in SlotContents
          BY <1>4 DEF Slots, SlotContents
        <5> QED
          BY <2>1, <3>1, <5>1
      <4> HIDE DEF row
      <4> QED
        BY <2>1, <4>1, <4>2
    <3>2. CASE layer \notin StoredLayers
      BY <2>1, <2>2, <3>2 DEF StoreKV
    <3> QED
      BY <3>1, <3>2
  <2> QED
    BY <1>1, <1>2, <1>6, <2>3 DEF TypeOK
<1>10. /\ FedUpTo' = FedUpTo
       /\ \A l : AttendedUpTo(l)' = AttendedUpTo(l)
       /\ \A l \in Nat : /\ StoredUpTo(l) = IF l < layer THEN ChunkEnd ELSE Covered
                         /\ StoredUpTo(l)' = IF l <= layer THEN ChunkEnd ELSE Covered
  BY <1>1, <1>3, <1>4, <1>7 DEF FedUpTo, StoredUpTo, AttendedUpTo
<1>11. ControlInv'
  BY <1>1, <1>2, <1>3, <1>6 DEF ControlInv
<1>12. CacheInv'
  <2> SUFFICES ASSUME NEW l \in StoredLayers, NEW s \in Slots
               PROVE  cache'[l][s] = IF s < StoredUpTo(l)' THEN <<l, s>> ELSE InitialSlot
    BY <1>6 DEF CacheInv
  <2>1. l \in Nat /\ s \in Nat
    BY DEF StoredLayers, Slots
  <2>2. cache[l][s] = IF s < StoredUpTo(l) THEN <<l, s>> ELSE InitialSlot
    BY <1>2, <1>3 DEF CacheInv
  <2> QED
    BY <1>4, <1>5, <1>8, <1>10, <2>1, <2>2
<1>13. AttendedInv'
  BY <1>1, <1>2, <1>6, <1>10 DEF AttendedInv
<1>14. FedInv'
  BY <1>1, <1>2, <1>6, <1>10 DEF FedInv
<1>15. LogitsInv'
  BY <1>1, <1>2, <1>6 DEF LogitsInv
<1> QED
  BY <1>1, <1>9, <1>11, <1>12, <1>13, <1>14, <1>15, PartsSuffice

\* A layer's attention preserves the invariant: the cache holds all it may see.
LEMMA AttendLayerInv ==
  ASSUME IInv, AttendLayer
  PROVE  IInv'
<1>1. /\ config' = config /\ flash' = flash /\ shape' = shape
      /\ capacity' = capacity /\ cache' = cache /\ prefix_length' = prefix_length
      /\ error' = error /\ chunk_start' = chunk_start
      /\ fed' = fed /\ logits' = logits /\ pc = "attend"
      /\ \/ pc' = "logits" /\ layer' = layer /\ layer + 1 = config.block_count
         \/ pc' = "store" /\ layer' = layer + 1 /\ layer + 1 # config.block_count
  BY DEF AttendLayer, AfterLastLayer, cacheVars
<1>2. TypeOK /\ ControlInv /\ CacheInv /\ AttendedInv /\ FedInv /\ LogitsInv
  BY DEF IInv
<1>3. InGraph /\ InGraph' /\ Active /\ Active'
  BY <1>1 DEF InGraph, Active
<1>4. /\ chunk_start < TokenCount /\ layer \in Layers /\ layer \in Nat
      /\ chunk_start \in Nat /\ TokenCount \in Nat
      /\ config.block_count \in Nat /\ layer < config.block_count
      /\ Positions = 0 .. (TokenCount - 1)
  BY <1>2, <1>3, ShapeFacts, SMTT(60) DEF ControlInv, TypeOK, Layers
<1>5. /\ ChunkEnd \in Nat /\ chunk_start < ChunkEnd /\ ChunkEnd <= TokenCount
      /\ Covered = chunk_start
  BY <1>2, <1>4, ChunkFacts
<1>6. /\ TokenCount' = TokenCount /\ Positions' = Positions /\ Layers' = Layers
      /\ StoredLayers' = StoredLayers /\ Capacity' = Capacity /\ Slots' = Slots
      /\ InitialSlot' = InitialSlot /\ SharingAllowed' = SharingAllowed
      /\ \A l : SourceDefined(l)' = SourceDefined(l)
      /\ \A l : SourceLayer(l)' = SourceLayer(l)
      /\ \A source, l, p : CausalKeys(source, l, p)' = CausalKeys(source, l, p)
      /\ \A p : FedRow(p)' = FedRow(p)
  BY <1>1, FrameFacts DEF Slots
<1>7. ChunkEnd' = ChunkEnd /\ Covered' = Covered
  BY <1>1, <1>6 DEF ChunkEnd, QueryCount, Covered
<1>8. layer' \in Layers
  BY <1>1, <1>4 DEF Layers
<1>9. ASSUME NEW l \in Layers
      PROVE  /\ l \in Nat
             /\ StoredUpTo(l) = IF l <= layer THEN ChunkEnd ELSE Covered
             /\ StoredUpTo(l)' = IF l <= layer THEN ChunkEnd ELSE Covered
             /\ AttendedUpTo(l) = IF l < layer THEN ChunkEnd ELSE Covered
             /\ AttendedUpTo(l)' = IF l <= layer THEN ChunkEnd ELSE Covered
  <2>1. l \in Nat /\ l < config.block_count
    BY <1>4 DEF Layers
  <2>2. StoredUpTo(l) = IF l <= layer THEN ChunkEnd ELSE Covered
    BY <1>1, <1>3, <1>4, <2>1 DEF StoredUpTo
  <2>3. StoredUpTo(l)' = IF l <= layer THEN ChunkEnd ELSE Covered
    BY <1>1, <1>3, <1>4, <1>7, <2>1 DEF StoredUpTo
  <2>4. AttendedUpTo(l) = IF l < layer THEN ChunkEnd ELSE Covered
    BY <1>1, <1>3, <1>4, <2>1 DEF AttendedUpTo
  <2>5. AttendedUpTo(l)' = IF l <= layer THEN ChunkEnd ELSE Covered
    BY <1>1, <1>3, <1>4, <1>7, <2>1 DEF AttendedUpTo
  <2> QED
    BY <2>1, <2>2, <2>3, <2>4, <2>5
<1>10. ASSUME NEW l \in Layers, NEW p \in Positions
       PROVE  attended'[<<l, p>>] = IF p < AttendedUpTo(l)'
                                      THEN CausalKeys(SourceLayer(l), l, p) ELSE {}
  <2>1. p \in Nat /\ l \in Nat
    BY <1>4 DEF Layers
  <2>2. attended'[<<l, p>>] = IF l = layer /\ p \in chunk_start .. (ChunkEnd - 1)
                                THEN ReadRows(layer, p) ELSE attended[<<l, p>>]
    BY DEF AttendLayer
  <2>3. attended[<<l, p>>] = IF p < AttendedUpTo(l)
                               THEN CausalKeys(SourceLayer(l), l, p) ELSE {}
    BY <1>1, <1>2 DEF AttendedInv
  <2>4. CASE l = layer /\ p \in chunk_start .. (ChunkEnd - 1)
    <3>1. ReadRows(layer, p) = CausalKeys(SourceLayer(layer), layer, p)
      BY <1>1, <1>2, <2>4, ReadRowsCausal
    <3>2. p < AttendedUpTo(l)'
      BY <1>4, <1>5, <1>9, <2>1, <2>4
    <3> QED
      BY <2>2, <2>4, <3>1, <3>2
  <2>5. CASE ~(l = layer /\ p \in chunk_start .. (ChunkEnd - 1))
    <3>1. p < AttendedUpTo(l)' <=> p < AttendedUpTo(l)
      BY <1>4, <1>5, <1>9, <2>1, <2>5
    <3> QED
      BY <2>2, <2>3, <2>5, <3>1
  <2> QED
    BY <2>4, <2>5
<1>11. TypeOK'
  <2>1. ASSUME NEW lp \in Layers \X Positions
        PROVE  /\ lp[2] \in chunk_start .. (ChunkEnd - 1) /\ lp[1] = layer
                    => ReadRows(layer, lp[2]) \in SUBSET SlotContents
               /\ attended[lp] \in SUBSET SlotContents
    <3>1. attended[lp] \in SUBSET SlotContents
      BY <1>2 DEF TypeOK
    <3>2. ASSUME lp[2] \in chunk_start .. (ChunkEnd - 1)
          PROVE  ReadRows(layer, lp[2]) \in SUBSET SlotContents
      <4>1. ReadRows(layer, lp[2]) = CausalKeys(SourceLayer(layer), layer, lp[2])
        BY <1>1, <1>2, <3>2, ReadRowsCausal
      <4>2. SharingAllowed /\ SourceDefined(layer)
        BY <1>2, <1>3, <1>4 DEF ControlInv
      <4>3. SourceLayer(layer) \in Nat
        BY <1>2, <1>4, <4>2, SourceFacts DEF Layers
      <4> QED
        BY <4>1, <4>3 DEF CausalKeys, CausalScope, SlotContents
    <3> QED
      BY <3>1, <3>2
  <2>2. attended' \in [Layers \X Positions -> SUBSET SlotContents]
    BY <2>1 DEF AttendLayer
  <2> QED
    BY <1>1, <1>2, <1>6, <1>8, <2>2 DEF TypeOK
<1>12. ControlInv'
  <2>1. pc' = "logits" => layer' + 1 = config'.block_count
    BY <1>1
  <2> QED
    BY <1>1, <1>2, <1>3, <1>6, <2>1 DEF ControlInv
<1>13. CacheInv'
  <2> SUFFICES ASSUME NEW l \in StoredLayers, NEW s \in Slots
               PROVE  cache[l][s] = IF s < StoredUpTo(l)' THEN <<l, s>> ELSE InitialSlot
    BY <1>1, <1>6 DEF CacheInv
  <2>1. l \in Layers
    BY <1>2, ShapeFacts DEF StoredLayers, Layers, StoredCount
  <2> QED
    BY <1>2, <1>3, <1>9, <2>1 DEF CacheInv
<1>14. AttendedInv'
  <2> SUFFICES ASSUME NEW l \in Layers, NEW p \in Positions
               PROVE  attended'[<<l, p>>] = IF p < AttendedUpTo(l)'
                                              THEN CausalKeys(SourceLayer(l), l, p) ELSE {}
    BY <1>1, <1>6 DEF AttendedInv
  <2> QED
    BY <1>10
<1>15. FedInv'
  <2>1. FedUpTo' = FedUpTo
    BY <1>3, <1>7 DEF FedUpTo
  <2> QED
    BY <1>1, <1>2, <1>6, <2>1 DEF FedInv
<1>16. LogitsInv'
  BY <1>1, <1>2, <1>6 DEF LogitsInv
<1> QED
  BY <1>1, <1>11, <1>12, <1>13, <1>14, <1>15, <1>16, PartsSuffice

\* Moving on to the next chunk preserves the invariant.
LEMMA FinishChunkInv ==
  ASSUME IInv, FinishChunk
  PROVE  IInv'
<1>1. /\ config' = config /\ flash' = flash /\ shape' = shape
      /\ capacity' = capacity /\ cache' = cache /\ prefix_length' = prefix_length
      /\ error' = error /\ layer' = layer /\ fed' = fed /\ attended' = attended
      /\ pc = "logits" /\ pc' = "build" /\ chunk_start' = NextChunkStart
      /\ logits' = IF ChunkEnd = TokenCount THEN LastRow ELSE logits
  BY DEF FinishChunk, cacheVars
<1>2. TypeOK /\ ControlInv /\ CacheInv /\ AttendedInv /\ FedInv /\ LogitsInv
  BY DEF IInv
<1>3. InGraph /\ ~InGraph' /\ Active /\ Active'
  BY <1>1 DEF InGraph, Active
<1>4. /\ chunk_start < TokenCount /\ TokenCount \in Nat
      /\ Positions = 0 .. (TokenCount - 1)
  BY <1>2, <1>3, ShapeFacts DEF ControlInv
<1>5. /\ ChunkEnd \in Nat /\ NextChunkStart \in Nat
      /\ ChunkEnd = Lesser(NextChunkStart, TokenCount)
      /\ ChunkEnd = TokenCount <=> NextChunkStart >= TokenCount
      /\ LastRow = ChunkEnd - 1
  BY <1>2, <1>4, ChunkFacts
<1>6. /\ TokenCount' = TokenCount /\ Positions' = Positions /\ Layers' = Layers
      /\ StoredLayers' = StoredLayers /\ Capacity' = Capacity /\ Slots' = Slots
      /\ InitialSlot' = InitialSlot /\ SharingAllowed' = SharingAllowed
      /\ \A l : SourceDefined(l)' = SourceDefined(l)
      /\ \A l : SourceLayer(l)' = SourceLayer(l)
      /\ \A source, l, p : CausalKeys(source, l, p)' = CausalKeys(source, l, p)
      /\ \A p : FedRow(p)' = FedRow(p)
  BY <1>1, FrameFacts DEF Slots
<1>7. Covered' = ChunkEnd
  BY <1>1, <1>5, <1>6 DEF Covered
<1>8. /\ FedUpTo' = ChunkEnd /\ FedUpTo = ChunkEnd
      /\ \A l : /\ StoredUpTo(l)' = ChunkEnd /\ StoredUpTo(l) = ChunkEnd
                /\ AttendedUpTo(l)' = ChunkEnd /\ AttendedUpTo(l) = ChunkEnd
  BY <1>1, <1>3, <1>7 DEF FedUpTo, StoredUpTo, AttendedUpTo
<1>9. TypeOK'
  <2>1. logits' \in Positions \cup {None}
    BY <1>1, <1>2, <1>4, <1>5 DEF TypeOK
  <2> QED
    BY <1>1, <1>2, <1>5, <1>6, <2>1 DEF TypeOK
<1>10. ControlInv'
  BY <1>1, <1>2, <1>3, <1>6 DEF ControlInv
<1>11. CacheInv'
  <2>1. ASSUME NEW l \in StoredLayers', NEW s \in Slots'
        PROVE  cache'[l][s] = (IF s < StoredUpTo(l)' THEN <<l, s>> ELSE InitialSlot')
    <3>1. l \in StoredLayers /\ s \in Slots
      BY <1>6, <2>1
    <3>2. cache[l][s] = IF s < StoredUpTo(l) THEN <<l, s>> ELSE InitialSlot
      BY <1>2, <1>3, <3>1, Zenon DEF CacheInv
    <3>3. StoredUpTo(l)' = StoredUpTo(l)
      BY <1>8, Zenon
    <3> QED
      BY <1>1, <1>6, <3>2, <3>3, Zenon
  <2> QED
    BY <2>1, Zenon DEF CacheInv
<1>12. AttendedInv'
  <2>1. ASSUME NEW l \in Layers', NEW p \in Positions'
        PROVE  attended'[<<l, p>>] = (IF p < AttendedUpTo(l)'
                                        THEN CausalKeys(SourceLayer(l), l, p)' ELSE {})
    <3>1. l \in Layers /\ p \in Positions /\ pc # "failed"
      BY <1>1, <1>6, <2>1
    <3>2. attended[<<l, p>>] = IF p < AttendedUpTo(l)
                                 THEN CausalKeys(SourceLayer(l), l, p) ELSE {}
      BY <1>2, <3>1, Zenon DEF AttendedInv
    <3>3. AttendedUpTo(l)' = AttendedUpTo(l)
      BY <1>8, Zenon
    <3>4. CausalKeys(SourceLayer(l), l, p)' = CausalKeys(SourceLayer(l), l, p)
      BY <1>1, FrameFacts
    <3> QED
      BY <1>1, <3>2, <3>3, <3>4, Zenon
  <2> QED
    BY <2>1, Zenon DEF AttendedInv
<1>13. FedInv'
  BY <1>1, <1>2, <1>6, <1>8 DEF FedInv
<1>14. LogitsInv'
  BY <1>1, <1>2, <1>5, <1>6 DEF LogitsInv
<1> QED
  BY <1>1, <1>9, <1>10, <1>11, <1>12, <1>13, <1>14, PartsSuffice

\* The prefix can always be frozen: it is not empty, it fits and nobody froze it.
LEMMA FreezeInv ==
  ASSUME IInv, Freeze
  PROVE  IInv'
<1>1. pc = "build" /\ chunk_start >= TokenCount
  BY DEF Freeze
<1>2. TypeOK /\ ControlInv /\ CacheInv /\ AttendedInv /\ FedInv /\ LogitsInv
  BY DEF IInv
<1>3. ~InGraph /\ Active
  BY <1>1 DEF InGraph, Active
<1>4. /\ TokenCount \in Nat /\ TokenCount > 0 /\ capacity = Capacity
      /\ capacity \in Nat /\ prefix_length = 0
  BY <1>1, <1>2, <1>3, ShapeFacts DEF ControlInv, TypeOK
<1>5. FreezeAllowed(TokenCount)
  BY <1>4, PaddedCountBounds DEF FreezeAllowed, Capacity
<1>6. /\ config' = config /\ flash' = flash /\ shape' = shape
      /\ capacity' = capacity /\ cache' = cache /\ prefix_length' = TokenCount
      /\ error' = error /\ layer' = layer /\ fed' = fed /\ attended' = attended
      /\ chunk_start' = chunk_start /\ logits' = logits /\ pc' = "done"
  BY <1>5 DEF Freeze
<1>7. /\ TokenCount' = TokenCount /\ Positions' = Positions /\ Layers' = Layers
      /\ StoredLayers' = StoredLayers /\ Capacity' = Capacity /\ Slots' = Slots
      /\ InitialSlot' = InitialSlot /\ SharingAllowed' = SharingAllowed
      /\ \A l : SourceDefined(l)' = SourceDefined(l)
      /\ \A l : SourceLayer(l)' = SourceLayer(l)
      /\ \A source, l, p : CausalKeys(source, l, p)' = CausalKeys(source, l, p)
      /\ \A p : FedRow(p)' = FedRow(p)
  BY <1>6, FrameFacts DEF Slots
<1>8. ~InGraph' /\ Active' /\ Covered' = Covered
  BY <1>6, <1>7 DEF InGraph, Active, Covered
<1>9. /\ FedUpTo' = FedUpTo
      /\ \A l : StoredUpTo(l)' = StoredUpTo(l) /\ AttendedUpTo(l)' = AttendedUpTo(l)
  BY <1>3, <1>8 DEF FedUpTo, StoredUpTo, AttendedUpTo
<1>10. TypeOK'
  BY <1>2, <1>4, <1>6, <1>7 DEF TypeOK
<1>11. ControlInv'
  BY <1>1, <1>2, <1>3, <1>6, <1>7, <1>8 DEF ControlInv
<1>12. CacheInv'
  BY <1>2, <1>3, <1>6, <1>7, <1>9 DEF CacheInv
<1>13. AttendedInv'
  BY <1>1, <1>2, <1>6, <1>7, <1>9 DEF AttendedInv
<1>14. FedInv'
  BY <1>1, <1>2, <1>6, <1>7, <1>9 DEF FedInv
<1>15. LogitsInv'
  BY <1>1, <1>2, <1>6, <1>7 DEF LogitsInv
<1> QED
  BY <1>6, <1>10, <1>11, <1>12, <1>13, <1>14, <1>15, PartsSuffice

\* A step that changes nothing preserves the invariant.
LEMMA StutterInv ==
  ASSUME IInv, UNCHANGED vars
  PROVE  IInv'
<1>1. /\ config' = config /\ flash' = flash /\ shape' = shape
      /\ capacity' = capacity /\ cache' = cache /\ prefix_length' = prefix_length
      /\ pc' = pc /\ error' = error /\ chunk_start' = chunk_start
      /\ layer' = layer /\ fed' = fed /\ attended' = attended /\ logits' = logits
  BY DEF vars, cacheVars
<1>2. /\ TokenCount' = TokenCount /\ Positions' = Positions /\ Layers' = Layers
      /\ StoredLayers' = StoredLayers /\ Capacity' = Capacity /\ Slots' = Slots
      /\ InitialSlot' = InitialSlot /\ SharingAllowed' = SharingAllowed
      /\ \A l : SourceDefined(l)' = SourceDefined(l)
      /\ \A l : SourceLayer(l)' = SourceLayer(l)
      /\ \A source, l, p : CausalKeys(source, l, p)' = CausalKeys(source, l, p)
      /\ \A p : FedRow(p)' = FedRow(p)
  BY <1>1, FrameFacts DEF Slots
<1>3. InGraph' = InGraph /\ Active' = Active /\ Covered' = Covered /\ ChunkEnd' = ChunkEnd
  BY <1>1, <1>2 DEF InGraph, Active, Covered, ChunkEnd, QueryCount
<1>4. /\ FedUpTo' = FedUpTo
      /\ \A l : StoredUpTo(l)' = StoredUpTo(l) /\ AttendedUpTo(l)' = AttendedUpTo(l)
  BY <1>1, <1>3 DEF FedUpTo, StoredUpTo, AttendedUpTo
<1>5. TypeOK'
  BY <1>1, <1>2 DEF IInv, TypeOK
<1>6. ControlInv'
  BY <1>1, <1>2, <1>3 DEF IInv, ControlInv
<1>7. CacheInv'
  BY <1>1, <1>2, <1>3, <1>4 DEF IInv, CacheInv
<1>8. AttendedInv' /\ FedInv' /\ LogitsInv'
  BY <1>1, <1>2, <1>4 DEF IInv, AttendedInv, FedInv, LogitsInv
<1>9. FedInOrder' /\ AttendsCausally' /\ OnlyExpectedErrors'
  BY <1>1, HistoryUnchanged DEF IInv, OnlyExpectedErrors
<1> QED
  BY <1>5, <1>6, <1>7, <1>8, <1>9 DEF IInv

\* A check that throws is one of the expected ones: a chunk's input has its width,
\* and the cache is too large only after padding.
LEMMA RejectInv ==
  ASSUME IInv, Reject
  PROVE  IInv'
<1>1. pc = "start" /\ StartError # "none" /\ Throw(StartError) /\ TypeOK
  BY DEF Reject, IInv
<1>2. StartError \in {"width", "context", "capacity", "sharing"}
  BY <1>1 DEF StartError
<1>3. StartError \in Errors /\ StartError \notin {"shape", "freeze"}
  BY <1>2 DEF Errors
<1>4. ASSUME StartError = "capacity"
      PROVE  flash /\ config.context_length % PadUnit # 0
  <2>1. /\ TokenCount # 0 /\ TokenCount <= config.context_length
        /\ ~(Capacity # 0 /\ Capacity <= config.context_length)
        /\ TokenCount \in Nat /\ config.context_length \in Nat
    <3>1. TokenCount \in Nat /\ config.context_length \in Nat
      BY <1>1, ShapeFacts
    <3> QED
      BY <1>4, <3>1 DEF StartError, CapacityAllowed
  <2>2. flash
    BY <2>1 DEF Capacity
  <2>3. Capacity = PaddedCount(TokenCount)
    BY <2>2 DEF Capacity
  <2>4. PaddedCount(TokenCount) \in Nat /\ TokenCount <= PaddedCount(TokenCount)
    BY <2>1, PaddedCountBounds
  <2>5. ~(PaddedCount(TokenCount) <= config.context_length)
    BY <2>1, <2>3, <2>4
  <2> QED
    BY <2>1, <2>2, <2>5, PaddedCountWithin
<1> QED
  BY <1>1, <1>3, <1>4, ThrowInv

\* A chunk is only refused for its layers, never for its shape.
LEMMA RejectChunkInv ==
  ASSUME IInv, RejectChunk
  PROVE  IInv'
<1>1. chunk_start < TokenCount /\ BuildError # "none" /\ Throw(BuildError) /\ TypeOK
  BY DEF RejectChunk, IInv
<1>2. Len(ChunkInput) = QueryCount
  BY <1>1, ChunkInputRows
<1>3. BuildError = "layer"
  BY <1>1, <1>2 DEF BuildError
<1>4. "layer" \in Errors /\ Throw("layer")
  BY <1>1, <1>3 DEF Errors
<1> QED
  BY <1>4, ThrowInv

\* A failure of the backend preserves the invariant.
LEMMA BackendFailureInv ==
  ASSUME IInv, BackendFailure
  PROVE  IInv'
<1>1. "backend" \in Errors /\ Throw("backend")
  BY DEF BackendFailure, Errors
<1> QED
  BY <1>1, ThrowInv

\* ---- the theorems ---------------------------------------------------------------

\* The invariant holds in every state of every call.
THEOREM Invariance == Spec => []IInv
<1>1. Init => IInv
  BY InitInv
<1>2. IInv /\ [Next]_vars => IInv'
  <2> SUFFICES ASSUME IInv, [Next]_vars
               PROVE  IInv'
    OBVIOUS
  <2>1. CASE Start
    BY <2>1, StartInv
  <2>2. CASE Reject
    BY <2>2, RejectInv
  <2>3. CASE BuildChunk
    BY <2>3, BuildChunkInv
  <2>4. CASE RejectChunk
    BY <2>4, RejectChunkInv
  <2>5. CASE StoreKV
    BY <2>5, StoreKVInv
  <2>6. CASE AttendLayer
    BY <2>6, AttendLayerInv
  <2>7. CASE FinishChunk
    BY <2>7, FinishChunkInv
  <2>8. CASE Freeze
    BY <2>8, FreezeInv
  <2>9. CASE BackendFailure
    BY <2>9, BackendFailureInv
  <2>10. CASE UNCHANGED vars
    BY <2>10, StutterInv
  <2> QED
    BY <2>1, <2>2, <2>3, <2>4, <2>5, <2>6, <2>7, <2>8, <2>9, <2>10
       DEF Next, Step, Halted
<1> QED
  BY <1>1, <1>2, PTL DEF Spec

\* Every variable keeps its type: the cache tensors exist exactly for the stored
\* layers, at the capacity the cache was made with.
THEOREM TypeCorrect == Spec => []TypeOK
<1>1. IInv => TypeOK
  BY DEF IInv
<1> QED
  BY <1>1, Invariance, PTL

\* No attention reads a cache row beyond the tensor or one nobody has written.
THEOREM ViewsAreInitialised == Spec => []ViewInitialised
<1>1. IInv => ViewInitialised
  BY ViewIsInitialised DEF IInv
<1> QED
  BY <1>1, Invariance, PTL

\* Every position is given the embedding of its own token, whatever the chunk
\* size and wherever the segments begin and end.
THEOREM InputsInOrder == Spec => []FedInOrder
<1>1. IInv => FedInOrder
  BY DEF IInv
<1> QED
  BY <1>1, Invariance, PTL

\* Chunked attention reads exactly what one causal pass over the prompt reads.
THEOREM AttentionIsCausal == Spec => []AttendsCausally
<1>1. IInv => AttendsCausally
  BY DEF IInv
<1> QED
  BY <1>1, Invariance, PTL

\* A state that prefill returns covers the whole prompt, with the logits of its
\* last position.
THEOREM ReturnedStateIsWhole == Spec => []ReturnsWholePrompt
<1>1. IInv => ReturnsWholePrompt
  BY DoneIsWhole DEF IInv
<1> QED
  BY <1>1, Invariance, PTL

\* The checks inside and after the chunk loop never throw, and the cache is too
\* large only when padding exceeds a context that is no multiple of the unit.
THEOREM ErrorsAreExpected == Spec => []OnlyExpectedErrors
<1>1. IInv => OnlyExpectedErrors
  BY DEF IInv
<1> QED
  BY <1>1, Invariance, PTL
------------------------------------------------------------------------------
(* The chunked prefill implements one causal pass over the prompt: every   *)
(* step of PrefillEngine is a step of CausalPass or leaves it unchanged.   *)


ChunkPositions == chunk_start .. (ChunkEnd - 1)

\* What the abstract pass reads at a position is CausalScope.
LEMMA ScopeFacts ==
  ASSUME TypeOK
  PROVE  /\ Pass!Positions = Positions
         /\ Pass!PassLayers = Layers
         /\ \A l, p : p \in Positions => Pass!Scope(l, p) = CausalScope(l, p)
         /\ \A l, p : p \in Positions => p \in CausalScope(l, p)
<1>1. /\ TokenCount \in Nat /\ Positions = 0 .. (TokenCount - 1)
      /\ config.sliding_window \in Nat
  BY ShapeFacts
<1>2. Pass!Positions = Positions
  BY DEF Pass!Positions
<1>3. Pass!PassLayers = Layers
  BY DEF Pass!PassLayers, Layers
<1>4. ASSUME NEW l, NEW p \in Positions
      PROVE  Pass!Scope(l, p) = CausalScope(l, p) /\ p \in CausalScope(l, p)
  <2>1. p \in Nat /\ p < TokenCount
    BY <1>1
  <2>2. Window(l) = (IF Pass!Sliding(l) THEN config.sliding_window ELSE 0)
    BY DEF Window, Pass!Sliding, IsSlidingWindow
  <2>3. Pass!Scope(l, p) =
          {k \in Positions : k <= p /\ (Pass!Sliding(l) /\ config.sliding_window # 0
                                          => p < k + config.sliding_window)}
    BY <1>2 DEF Pass!Scope
  <2>4. Pass!Scope(l, p) = {k \in 0 .. p : Window(l) = 0 \/ p < k + Window(l)}
    BY <1>1, <2>1, <2>2, <2>3
  <2>5. p \in CausalScope(l, p)
    BY <1>1, <2>1, <2>2 DEF CausalScope
  <2> QED
    BY <2>4, <2>5 DEF CausalScope
<1> QED
  BY <1>2, <1>3, <1>4

\* The inputs and attentions a running or finished call has behind it.
LEMMA FedBelow ==
  ASSUME IInv, NotFailed, NEW p \in Positions, p < FedUpTo
  PROVE  fed[p] = FedRow(p) /\ fed[p] # None
<1>1. fed[p] = FedRow(p)
  BY DEF IInv, FedInv, NotFailed
<1>2. FedRow(p) \in Rows
  <2>1. p \in Nat /\ VisualBegin \in Nat /\ VisualEnd \in Nat /\ VisualBegin <= VisualEnd
    BY ShapeFacts DEF IInv
  <2>2. PromptRow(p) \in Segments \X Nat
    BY <2>1 DEF PromptRow, Segments
  <2>3. PadId \in Segments \X Nat
    BY DEF PadId, Segments
  <2> QED
    BY <2>2, <2>3 DEF FedRow, Rows
<1> QED
  BY <1>1, <1>2, NoneAssumption

\* What a layer has been through counts as computed in the abstract pass.
LEMMA ComputedBelow ==
  ASSUME IInv, NotFailed, NEW l \in Layers, NEW p \in Positions, p < AttendedUpTo(l)
  PROVE  Pass!Computed(l, p)
<1>1. attended[<<l, p>>] = CausalKeys(SourceLayer(l), l, p)
  BY DEF IInv, AttendedInv, NotFailed
<1>2. p \in CausalScope(l, p)
  BY ScopeFacts DEF IInv
<1> QED
  BY <1>1, <1>2 DEF CausalKeys, Pass!Computed

\* A position of the prompt up to the end of the running chunk is known at every
\* layer up to the running one.
LEMMA KnownBelow ==
  ASSUME IInv, pc = "attend", NEW l \in Layers, l <= layer,
         NEW p \in Positions, p < ChunkEnd
  PROVE  Pass!Known(l, p)
<1>1. NotFailed /\ InGraph /\ FedUpTo = ChunkEnd
  BY DEF NotFailed, InGraph, FedUpTo
<1>2. l \in Nat /\ config.block_count \in Nat /\ layer \in Nat
  BY ShapeFacts DEF IInv, Layers, TypeOK
<1>3. CASE l = 0
  BY <1>1, <1>3, FedBelow DEF Pass!Known
<1>4. CASE l # 0
  <2>1. l - 1 \in Layers /\ l - 1 < layer
    BY <1>2, <1>4 DEF Layers
  <2>2. AttendedUpTo(l - 1) = ChunkEnd
    BY <1>1, <2>1 DEF AttendedUpTo
  <2>3. Pass!Computed(l - 1, p)
    BY <1>1, <2>1, <2>2, ComputedBelow
  <2> QED
    BY <1>4, <2>3 DEF Pass!Known
<1> QED
  BY <1>3, <1>4

\* A step that changes neither the histories, the logits nor the phase.
LEMMA HiddenStep ==
  ASSUME config' = config, shape' = shape, flash' = flash, fed' = fed,
         attended' = attended, logits' = logits,
         pc \notin {"done", "failed"}, pc' \notin {"done", "failed"}
  PROVE  UNCHANGED Pass!passVars
<1>1. Positions' = Positions /\ \A p : PromptRow(p)' = PromptRow(p)
  BY FrameFacts
<1> QED
  BY <1>1 DEF Pass!passVars, PadId

\* Building a chunk feeds its positions.
LEMMA FeedStep ==
  ASSUME IInv, BuildChunk
  PROVE  Pass!PassNext
<1>1. /\ config' = config /\ flash' = flash /\ shape' = shape
      /\ attended' = attended /\ logits' = logits
      /\ pc = "build" /\ pc' = "store" /\ chunk_start < TokenCount
      /\ chunk_start' = chunk_start
  BY DEF BuildChunk, cacheVars
<1>2. TypeOK /\ NotFailed
  BY <1>1 DEF IInv, NotFailed
<1>3. /\ TokenCount \in Nat /\ Positions = 0 .. (TokenCount - 1)
      /\ chunk_start \in Nat /\ ChunkEnd \in Nat /\ ChunkEnd <= TokenCount
  BY <1>1, <1>2, ShapeFacts, ChunkFacts DEF TypeOK
<1>4. ChunkPositions \in SUBSET Positions
  BY <1>3 DEF ChunkPositions
<1>5. /\ Positions' = Positions /\ ChunkEnd' = ChunkEnd
      /\ \A p : PromptRow(p)' = PromptRow(p) /\ FedRow(p)' = FedRow(p)
  BY <1>1, FrameFacts DEF ChunkEnd, QueryCount
<1>6. FedInv'
  BY BuildChunkInv DEF IInv
<1>7. FedUpTo' = ChunkEnd /\ FedUpTo = chunk_start
  BY <1>1, <1>2, <1>5, ChunkFacts DEF FedUpTo, InGraph
<1>8. ASSUME NEW p \in Positions
      PROVE  fed'[p] = IF p \in ChunkPositions THEN FedRow(p) ELSE fed[p]
  <2>1. p \in Nat
    BY <1>3
  <2>2. fed'[p] = IF p < ChunkEnd THEN FedRow(p) ELSE None
    BY <1>1, <1>5, <1>6, <1>7 DEF FedInv
  <2>3. fed[p] = IF p < chunk_start THEN FedRow(p) ELSE None
    BY <1>1, <1>7 DEF IInv, FedInv
  <2>4. chunk_start < ChunkEnd
    BY <1>1, <1>2, ChunkFacts
  <2> QED
    BY <1>3, <2>1, <2>2, <2>3, <2>4 DEF ChunkPositions
<1>9. fed' = [p \in Positions |-> IF p \in ChunkPositions THEN FedRow(p) ELSE fed[p]]
  <2>1. fed' = [p \in Positions |-> fed'[p]]
    BY DEF BuildChunk
  <2> QED
    BY <1>8, <2>1
<1>10. Pass!Feed(ChunkPositions)
  BY <1>1, <1>5, <1>9 DEF Pass!Feed, Pass!Positions, FedRow, PadId
<1>11. Pass!Positions = Positions
  BY DEF Pass!Positions
<1> QED
  BY <1>4, <1>10, <1>11 DEF Pass!PassNext

\* A layer's attention over the chunk is an attention of the abstract pass.
LEMMA AttendStep ==
  ASSUME IInv, AttendLayer
  PROVE  Pass!PassNext
<1> DEFINE src == SourceLayer(layer)
<1>1. /\ config' = config /\ flash' = flash /\ shape' = shape
      /\ fed' = fed /\ logits' = logits /\ pc = "attend" /\ pc' \in {"logits", "store"}
  BY DEF AttendLayer, cacheVars
<1>2. TypeOK /\ ControlInv /\ CacheInv /\ NotFailed /\ InGraph /\ Active
  BY <1>1 DEF IInv, NotFailed, InGraph, Active
<1>3. layer \in Layers /\ layer \in Nat /\ SharingAllowed /\ SourceDefined(layer)
  BY <1>2 DEF TypeOK, ControlInv, Layers
<1>4. /\ src \in StoredLayers /\ src \in Layers /\ src <= layer /\ src \in Nat
      /\ layer < StoredCount => src = layer
      /\ IsSlidingWindow(src) = IsSlidingWindow(layer)
  BY <1>2, <1>3, SourceFacts DEF Layers
<1>5. /\ TokenCount \in Nat /\ Positions = 0 .. (TokenCount - 1)
      /\ chunk_start \in Nat /\ ChunkEnd \in Nat /\ ChunkEnd <= TokenCount
  BY <1>2, ShapeFacts, ChunkFacts DEF TypeOK, ControlInv
<1>6. ChunkPositions \in SUBSET Positions
  BY <1>5 DEF ChunkPositions
<1>7. Pass!KeySource(layer, src)
  BY <1>4 DEF Pass!KeySource, Pass!PassStored, Pass!Sliding, StoredLayers, StoredCount,
              IsSlidingWindow
<1>8. ASSUME NEW q \in ChunkPositions
      PROVE  /\ Pass!Known(layer, q)
             /\ \A k \in Pass!Scope(layer, q) : Pass!Known(src, k)
             /\ ReadRows(layer, q) = {<<src, k>> : k \in Pass!Scope(layer, q)}
  <2>1. q \in Positions /\ q \in Nat /\ q < ChunkEnd /\ q \in chunk_start .. (ChunkEnd - 1)
    BY <1>5, <1>6 DEF ChunkPositions
  <2>2. Pass!Known(layer, q)
    BY <1>1, <1>3, <2>1, KnownBelow
  <2>3. Pass!Scope(layer, q) = CausalScope(layer, q)
    BY <1>2, <2>1, ScopeFacts
  <2>4. ASSUME NEW k \in Pass!Scope(layer, q)
        PROVE  Pass!Known(src, k)
    <3>1. k \in Positions /\ k < ChunkEnd
      BY <1>5, <2>1, <2>3 DEF CausalScope
    <3> QED
      BY <1>1, <1>4, <3>1, KnownBelow
  <2>5. ReadRows(layer, q) = CausalKeys(src, layer, q)
    BY <1>1, <1>2, <2>1, ReadRowsCausal
  <2> QED
    BY <2>2, <2>3, <2>4, <2>5 DEF CausalKeys
<1>9. attended' = [lp \in Layers \X Positions |->
                     IF lp[1] = layer /\ lp[2] \in ChunkPositions
                       THEN {<<src, k>> : k \in Pass!Scope(layer, lp[2])}
                       ELSE attended[lp]]
  BY <1>8 DEF AttendLayer, ChunkPositions
<1>10. Layers' = Layers /\ Positions' = Positions /\ \A p : PromptRow(p)' = PromptRow(p)
  BY <1>1, FrameFacts
<1>11. Pass!PassLayers = Layers /\ Pass!Positions = Positions
  BY <1>2, ScopeFacts
<1>12. Pass!Attend(layer, src, ChunkPositions)
  <2> HIDE DEF src
  <2>1. attended' = [lp \in Pass!PassLayers \X Pass!Positions |->
                       IF lp[1] = layer /\ lp[2] \in ChunkPositions
                         THEN {<<src, k>> : k \in Pass!Scope(layer, lp[2])}
                         ELSE attended[lp]]
    BY <1>9, <1>11
  <2>2. pc \notin {"done", "failed"} /\ pc' \notin {"done", "failed"}
    BY <1>1
  <2>3. \A q \in ChunkPositions : /\ Pass!Known(layer, q)
                                 /\ \A k \in Pass!Scope(layer, q) : Pass!Known(src, k)
    BY <1>8 DEF src
  <2> QED
    BY <1>1, <1>7, <1>10, <2>1, <2>2, <2>3 DEF Pass!Attend, PadId
<1> QED
  BY <1>3, <1>4, <1>6, <1>11, <1>12 DEF Pass!PassNext

\* Finishing the last chunk reads the answer, finishing another changes nothing.
LEMMA ReadLastStep ==
  ASSUME IInv, FinishChunk
  PROVE  Pass!PassNext \/ UNCHANGED Pass!passVars
<1>1. /\ config' = config /\ flash' = flash /\ shape' = shape
      /\ fed' = fed /\ attended' = attended
      /\ pc = "logits" /\ pc' = "build"
      /\ logits' = IF ChunkEnd = TokenCount THEN LastRow ELSE logits
  BY DEF FinishChunk, cacheVars
<1>2. TypeOK /\ ControlInv /\ NotFailed /\ InGraph
  BY <1>1 DEF IInv, NotFailed, InGraph
<1>3. /\ TokenCount \in Nat /\ Positions = 0 .. (TokenCount - 1)
      /\ chunk_start < TokenCount /\ chunk_start \in Nat
  BY <1>2, ShapeFacts DEF ControlInv, TypeOK
<1>4. LastRow = ChunkEnd - 1 /\ ChunkEnd \in Nat
  BY <1>2, <1>3, ChunkFacts
<1>5. Positions' = Positions /\ \A p : PromptRow(p)' = PromptRow(p)
  BY <1>1, FrameFacts
<1>6. CASE ChunkEnd = TokenCount
  <2> DEFINE last == TokenCount - 1
  <2>1. last \in Positions /\ logits' = last /\ \A k \in Positions : k <= last
    BY <1>1, <1>3, <1>4, <1>6
  <2>2. ASSUME NEW l \in Layers
        PROVE  Pass!Computed(l, last)
    <3>1. AttendedUpTo(l) = ChunkEnd
      BY <1>1, <1>2 DEF AttendedUpTo
    <3>2. last < AttendedUpTo(l)
      BY <1>3, <1>6, <3>1
    <3> QED
      BY <1>2, <2>1, <3>2, ComputedBelow
  <2>3. Pass!PassLayers = Layers /\ Pass!Positions = Positions
    BY <1>2, ScopeFacts
  <2>4. Pass!ReadLast(last)
    <3> HIDE DEF last
    <3> QED
      BY <1>1, <1>5, <2>1, <2>2, <2>3 DEF Pass!ReadLast, PadId
  <2> QED
    BY <2>1, <2>3, <2>4 DEF Pass!PassNext
<1>7. CASE ChunkEnd # TokenCount
  BY <1>1, <1>7, HiddenStep
<1> QED
  BY <1>6, <1>7

\* Freezing the prefix finishes the pass.
LEMMA FinishStep ==
  ASSUME IInv, Freeze
  PROVE  Pass!PassNext
<1>1. pc = "build" /\ chunk_start >= TokenCount
  BY DEF Freeze
<1>2. TypeOK /\ ControlInv /\ LogitsInv /\ NotFailed /\ ~InGraph /\ Active
  BY <1>1 DEF IInv, NotFailed, InGraph, Active
<1>3. /\ TokenCount \in Nat /\ TokenCount > 0 /\ Positions = 0 .. (TokenCount - 1)
      /\ capacity = Capacity /\ capacity \in Nat /\ prefix_length = 0
      /\ chunk_start \in Nat
  BY <1>1, <1>2, ShapeFacts DEF ControlInv, TypeOK
<1>4. FreezeAllowed(TokenCount)
  BY <1>3, PaddedCountBounds DEF FreezeAllowed, Capacity
<1>5. /\ config' = config /\ flash' = flash /\ shape' = shape
      /\ fed' = fed /\ attended' = attended /\ logits' = logits /\ pc' = "done"
  BY <1>4 DEF Freeze
<1>6. logits = TokenCount - 1 /\ logits # None
  <2>1. logits = TokenCount - 1
    BY <1>1, <1>2 DEF LogitsInv
  <2>2. logits \in Nat
    BY <1>3, <2>1
  <2> QED
    BY <2>1, <2>2, NoneAssumption
<1>7. ASSUME NEW l \in Layers, NEW p \in Positions
      PROVE  Pass!Computed(l, p)
  <2>1. AttendedUpTo(l) = TokenCount
    BY <1>1, <1>2, <1>3 DEF AttendedUpTo, Covered, Lesser
  <2>2. p < AttendedUpTo(l)
    BY <1>3, <2>1
  <2> QED
    BY <1>2, <2>2, ComputedBelow
<1>8. Pass!PassLayers = Layers /\ Pass!Positions = Positions
  BY <1>2, ScopeFacts
<1>9. Positions' = Positions /\ \A p : PromptRow(p)' = PromptRow(p)
  BY <1>5, FrameFacts
<1>10. Pass!Finish
  BY <1>1, <1>5, <1>6, <1>7, <1>8, <1>9 DEF Pass!Finish, PadId
<1> QED
  BY <1>10 DEF Pass!PassNext

\* Throwing is the failure of the pass.
LEMMA FailStep ==
  ASSUME IInv, NEW reason, Throw(reason), pc \notin {"done", "failed"}
  PROVE  Pass!PassNext
<1>1. /\ config' = config /\ flash' = flash /\ shape' = shape
      /\ fed' = fed /\ attended' = attended /\ logits' = logits /\ pc' = "failed"
  BY DEF Throw, cacheVars
<1>2. Positions' = Positions /\ \A p : PromptRow(p)' = PromptRow(p)
  BY <1>1, FrameFacts
<1>3. Pass!Fail
  BY <1>1, <1>2 DEF Pass!Fail, PadId
<1> QED
  BY <1>3 DEF Pass!PassNext

\* Whatever the model, the prompt, the chunk size and the padding, the chunked
\* prefill computes what one causal pass over the prompt computes.
THEOREM PrefillRefinesPass == Spec => RefinesCausalPass
<1>1. Init => Pass!PassInit
  BY DEF Init, Pass!PassInit, Pass!Positions, Pass!PassLayers, Layers
<1>2. IInv /\ [Next]_vars => [Pass!PassNext]_Pass!passVars
  <2> SUFFICES ASSUME IInv, [Next]_vars
               PROVE  Pass!PassNext \/ UNCHANGED Pass!passVars
    OBVIOUS
  <2>1. CASE Start
    <3>1. /\ config' = config /\ shape' = shape /\ flash' = flash /\ fed' = fed
          /\ attended' = attended /\ logits' = logits /\ pc = "start" /\ pc' = "build"
      BY <2>1 DEF Start
    <3> QED
      BY <3>1, HiddenStep
  <2>2. CASE Reject
    BY <2>2, FailStep DEF Reject
  <2>3. CASE BuildChunk
    BY <2>3, FeedStep
  <2>4. CASE RejectChunk
    BY <2>4, FailStep DEF RejectChunk
  <2>5. CASE StoreKV
    <3>1. /\ config' = config /\ shape' = shape /\ flash' = flash /\ fed' = fed
          /\ attended' = attended /\ logits' = logits /\ pc = "store" /\ pc' = "attend"
      BY <2>5 DEF StoreKV
    <3> QED
      BY <3>1, HiddenStep
  <2>6. CASE AttendLayer
    BY <2>6, AttendStep
  <2>7. CASE FinishChunk
    BY <2>7, ReadLastStep
  <2>8. CASE Freeze
    BY <2>8, FinishStep
  <2>9. CASE BackendFailure
    BY <2>9, FailStep DEF BackendFailure
  <2>10. CASE UNCHANGED vars
    <3>1. /\ config' = config /\ shape' = shape /\ flash' = flash /\ fed' = fed
          /\ attended' = attended /\ logits' = logits /\ pc' = pc
      BY <2>10 DEF vars, cacheVars
    <3>2. Positions' = Positions /\ \A p : PromptRow(p)' = PromptRow(p)
      BY <3>1, FrameFacts
    <3> QED
      BY <3>1, <3>2 DEF Pass!passVars, PadId
  <2> QED
    BY <2>1, <2>2, <2>3, <2>4, <2>5, <2>6, <2>7, <2>8, <2>9, <2>10
       DEF Next, Step, Halted
<1> QED
  BY <1>1, <1>2, Invariance, PTL DEF Spec, RefinesCausalPass, Pass!PassSpec

==============================================================================

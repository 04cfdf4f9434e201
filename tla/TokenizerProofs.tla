----------------------------- MODULE TokenizerProofs -----------------------------
(***************************************************************************)
(* For every file, text and segment: the linked list and the queue of      *)
(* tokenize_segment merge what the rule of GreedyMerge merges.  The        *)
(* invariant says that the live symbols tile the segment, that the links   *)
(* lead from each to the next, and that the queue has a candidate for      *)
(* every ranked pair of neighbours, of which the ones not stale are all.   *)
(***************************************************************************)
EXTENDS GemmaTokenizer, FiniteSetTheorems, SequenceTheorems, WellFoundedInduction, TLAPS

\* Every inhabited set of numbers has a least one.
LEMMA LeastNumber ==
  ASSUME NEW T \in SUBSET Nat, T # {}
  PROVE  \E m \in T : \A n \in T : m <= n
<1> DEFINE Below(n) == 1 .. n
           intervals == {Below(n) : n \in T}
<1>1. intervals \subseteq FiniteSubsetsOf(Nat) /\ intervals # {}
  <2>1. ASSUME NEW n \in T PROVE IsFiniteSet(Below(n)) /\ Below(n) \in SUBSET Nat
    BY FS_Interval
  <2> QED
    BY <2>1 DEF FiniteSubsetsOf
<1>2. PICK B \in intervals : \A C \in intervals : <<C, B>> \notin StrictSubsetOrdering(Nat)
  <2> HIDE DEF intervals
  <2> QED
    BY <1>1, FS_StrictSubsetOrderingWellFounded, WFMin
<1>3. PICK m \in T : B = Below(m)
  OBVIOUS
<1>4. ASSUME NEW n \in T, n < m PROVE FALSE
  <2>1. <<Below(n), Below(m)>> \in (SUBSET Nat) \X (SUBSET Nat)
    OBVIOUS
  <2>2. Below(n) \subseteq Below(m) /\ m \in Below(m) /\ m \notin Below(n)
    BY <1>4
  <2>3. <<Below(n), Below(m)>> \in StrictSubsetOrdering(Nat)
    BY <2>1, <2>2 DEF StrictSubsetOrdering
  <2> QED
    BY <1>2, <1>3, <2>3
<1> QED
  BY <1>4

\* Of a first and a second number, the least pair in lexicographic order.
LEMMA LeastPair ==
  ASSUME NEW S, S # {}, NEW f \in [S -> Nat], NEW g \in [S -> Nat]
  PROVE  \E x \in S : \A y \in S : f[x] < f[y] \/ (f[x] = f[y] /\ g[x] <= g[y])
<1>1. PICK m \in {f[x] : x \in S} : \A n \in {f[x] : x \in S} : m <= n
  <2> DEFINE firsts == {f[x] : x \in S}
  <2>1. firsts \in SUBSET Nat /\ firsts # {}
    OBVIOUS
  <2> HIDE DEF firsts
  <2>2. \E m \in firsts : \A n \in firsts : m <= n
    BY <2>1, LeastNumber
  <2> QED
    BY <2>2 DEF firsts
<1> DEFINE T == {x \in S : f[x] = m}
<1>2. PICK k \in {g[x] : x \in T} : \A n \in {g[x] : x \in T} : k <= n
  <2> DEFINE seconds == {g[x] : x \in T}
  <2>1. seconds \in SUBSET Nat /\ seconds # {}
    BY <1>1
  <2> HIDE DEF seconds
  <2>2. \E k \in seconds : \A n \in seconds : k <= n
    BY <2>1, LeastNumber
  <2> QED
    BY <2>2 DEF seconds
<1>3. PICK x \in T : g[x] = k
  BY <1>2
<1>4. ASSUME NEW y \in S PROVE f[x] < f[y] \/ (f[x] = f[y] /\ g[x] <= g[y])
  <2>1. f[x] = m /\ f[x] <= f[y] /\ f[x] \in Nat /\ f[y] \in Nat
    BY <1>1, <1>3
  <2>2. CASE f[x] = f[y]
    <3>1. g[x] <= g[y]
      BY <1>2, <1>3, <2>1, <2>2
    <3> QED
      BY <2>2, <3>1
  <2>3. CASE f[x] # f[y]
    BY <2>1, <2>3
  <2> QED
    BY <2>2, <2>3
<1> QED
  BY <1>3, <1>4

\* ---- constants and operators -----------------------------------------------------

LEMMA FindBounds ==
  ASSUME NEW text \in Seq(Bytes), NEW from \in Nat, NEW piece
  PROVE  Find(text, piece, from) \in 1 .. Len(text) + 1
<1> DEFINE at == {i \in from + 1 .. Len(text) : OccursAt(text, piece, i)}
<1>1. Len(text) \in Nat
  BY LenProperties
<1>2. CASE at = {}
  BY <1>1, <1>2 DEF Find
<1>3. CASE at # {}
  <2>1. at \in SUBSET Nat /\ at \subseteq 1 .. Len(text)
    BY <1>1
  <2>2. Find(text, piece, from) = CHOOSE i \in at : \A j \in at : i <= j
    BY <1>3 DEF Find
  <2> HIDE DEF at
  <2>3. \E i \in at : \A j \in at : i <= j
    BY <1>3, <2>1, LeastNumber
  <2>4. Find(text, piece, from) \in at
    BY <2>2, <2>3
  <2>5. Find(text, piece, from) \in 1 .. Len(text)
    BY <2>1, <2>4
  <2> HIDE DEF Find
  <2> QED
    BY <1>1, <2>5
<1> QED
  BY <1>2, <1>3

\* What is read of a vocabulary, the empty one of a file that does not load included.
LEMMA SpecialType ==
  ASSUME NEW f \in DOMAIN Gguf, NEW i \in DOMAIN Vocabularies[f].specials
  PROVE  LET s == Vocabularies[f].specials[i]
         IN /\ s.text \in Seq(Bytes \cup {"0x"}) /\ s.place \in Nat
            /\ s.id \in DOMAIN Vocabularies[f].pieces
<1>1. CASE LoadError(Gguf[f])
  <2>1. Vocabularies[f].specials = <<>>
    BY <1>1 DEF Vocabularies, NoVocabulary
  <2> QED
    BY <2>1
<1>2. CASE ~LoadError(Gguf[f])
  <2> DEFINE g == Gguf[f]
  <2>1. Vocabularies[f].specials = Specials(g) /\ Vocabularies[f].pieces = g.pieces
    BY <1>2 DEF Vocabularies
  <2>2. g.pieces \in Seq(Seq(Bytes \cup {"0x"}))
    BY TokenizerAssumption
  <2> HIDE DEF g
  <2>3. i \in DOMAIN g.pieces /\ i \in SpecialIds(g)
    BY <2>1 DEF Specials, SpecialIds
  <2>4. Specials(g)[i].text = g.pieces[i] /\ Specials(g)[i].id = i
        /\ Specials(g)[i].place = Cardinality(Before(g, i))
    BY <2>3 DEF Specials
  <2>5. Cardinality(Before(g, i)) \in Nat
    <3>1. Before(g, i) \subseteq DOMAIN g.pieces
      BY DEF Before, SpecialIds
    <3>2. DOMAIN g.pieces = 1 .. Len(g.pieces) /\ Len(g.pieces) \in Nat
      BY <2>2
    <3>3. IsFiniteSet(1 .. Len(g.pieces))
      BY <3>2, FS_Interval
    <3> QED
      BY <3>1, <3>2, <3>3, FS_Subset, FS_CardinalityType
  <2> QED
    BY <2>1, <2>2, <2>3, <2>4, <2>5
<1> QED
  BY <1>1, <1>2

LEMMA RankType ==
  ASSUME NEW f \in DOMAIN Gguf, NEW p \in DOMAIN Vocabularies[f].ranks
  PROVE  Vocabularies[f].ranks[p] \in Nat
<1>1. CASE LoadError(Gguf[f])
  <2>1. Vocabularies[f].ranks = <<>>
    BY <1>1 DEF Vocabularies, NoVocabulary
  <2> QED
    BY <2>1
<1>2. CASE ~LoadError(Gguf[f])
  <2> DEFINE merges == Gguf[f].merges
             pairs == [i \in DOMAIN merges |-> MergePair(merges[i])]
             at == {i \in DOMAIN pairs : pairs[i] = p}
  <2>1. Vocabularies[f].ranks = Ranks(merges)
    BY <1>2 DEF Vocabularies
  <2>2. merges \in Seq(Seq(Bytes))
    BY TokenizerAssumption
  <2>3. p \in ToSet(pairs)
    BY <2>1 DEF Ranks
  <2>4. Ranks(merges)[p] = CHOOSE i \in DOMAIN pairs :
          pairs[i] = p /\ \A j \in DOMAIN pairs : pairs[j] = p => i <= j
    BY <2>3 DEF Ranks
  <2>5. DOMAIN pairs = 1 .. Len(merges)
    BY <2>2
  <2>6. Len(merges) \in Nat
    BY <2>2, LenProperties
  <2> HIDE DEF merges
  <2>7. at \in SUBSET Nat /\ at # {}
    BY <2>3, <2>5, <2>6 DEF ToSet
  <2>8. \E i \in at : \A j \in at : i <= j
    <3> HIDE DEF at
    <3> QED
      BY <2>7, LeastNumber
  <2>9. \E i \in DOMAIN pairs : pairs[i] = p /\ \A j \in DOMAIN pairs : pairs[j] = p => i <= j
    BY <2>8
  <2> HIDE DEF pairs
  <2>10. Ranks(merges)[p] \in DOMAIN pairs
    BY <2>4, <2>9
  <2> QED
    BY <2>1, <2>5, <2>6, <2>10
<1> QED
  BY <1>1, <1>2

LEMMA SubSeqOf ==
  ASSUME NEW s \in Seq(Bytes), NEW a \in Nat, NEW n \in Nat, a + n <= Len(s)
  PROVE  SubSeq(s, a + 1, a + n) \in Seq(Bytes) /\ Len(SubSeq(s, a + 1, a + n)) = n
<1>1. a + 1 \in Int /\ a + n \in Int /\ Len(s) \in Nat
  BY LenProperties
<1>2. \A i \in a + 1 .. a + n : s[i] \in Bytes
  BY <1>1
<1>3. (IF a + 1 <= a + n THEN (a + n) - (a + 1) + 1 ELSE 0) = n
  OBVIOUS
<1> QED
  BY <1>1, <1>2, <1>3, SubSeqProperties

LEMMA EscapedType ==
  ASSUME NEW byte \in Bytes
  PROVE  Escaped(byte) \in Seq(Bytes)
<1>1. <<byte>> \in Seq(Bytes)
  OBVIOUS
<1>2. Marker \in Seq(Bytes)
  BY TokenizerAssumption
<1> QED
  BY <1>1, <1>2 DEF Escaped

LEMMA SizeBounds ==
  ASSUME NEW bytes \in Seq(Bytes), NEW n \in Nat, n < Len(bytes)
  PROVE  SizeAfter(bytes, n) \in Nat \ {0} /\ n + SizeAfter(bytes, n) <= Len(bytes)
<1>1. Len(bytes) \in Nat
  BY LenProperties
<1>2. \A b : CharacterSize(b) \in 1 .. 4
  BY DEF CharacterSize
<1>3. PICK size \in 1 .. 4 : size = CharacterSize(bytes[n + 1])
  BY <1>2
<1>4. SizeAfter(bytes, n) = IF size < Len(bytes) - n THEN size ELSE Len(bytes) - n
  BY <1>3 DEF SizeAfter
<1> QED
  BY <1>1, <1>4

LEMMA FirstRunType ==
  ASSUME NEW bytes \in Seq(Bytes), bytes # <<>>
  PROVE  /\ FirstRun(bytes) \in Seq(Bytes) /\ FirstRun(bytes) # <<>>
         /\ Len(FirstRun(bytes)) \in Nat
<1> DEFINE ends == {i \in 2 .. Len(bytes) : (bytes[i] = Newline) # (bytes[1] = Newline)}
<1>1. Len(bytes) \in Nat
  BY LenProperties
<1>2. CASE ends = {}
  <2>1. FirstRun(bytes) = bytes
    BY <1>2 DEF FirstRun
  <2> QED
    BY <1>1, <2>1
<1>3. CASE ends # {}
  <2> DEFINE first == CHOOSE i \in ends : \A j \in ends : i <= j
  <2>1. ends \in SUBSET Nat /\ ends \subseteq 2 .. Len(bytes)
    BY <1>1
  <2>2. FirstRun(bytes) = SubSeq(bytes, 1, first - 1)
    BY <1>3 DEF FirstRun
  <2>3. first \in 2 .. Len(bytes)
    <3> HIDE DEF ends
    <3>1. \E i \in ends : \A j \in ends : i <= j
      BY <1>3, <2>1, LeastNumber
    <3> QED
      BY <2>1, <3>1
  <2> HIDE DEF first, ends
  <2>4. \A i \in 1 .. first - 1 : bytes[i] \in Bytes
    BY <1>1, <2>3
  <2>5. /\ SubSeq(bytes, 1, first - 1) \in Seq(Bytes)
        /\ Len(SubSeq(bytes, 1, first - 1)) = first - 1
    <3>1. first - 1 \in Int /\ 1 <= first - 1 /\ (first - 1) - 1 + 1 = first - 1
      BY <1>1, <2>3
    <3> QED
      BY <2>4, <3>1, SubSeqProperties
  <2>6. first - 1 \in Nat /\ first - 1 # 0
    BY <1>1, <2>3
  <2>7. SubSeq(bytes, 1, first - 1) # <<>>
    BY <2>5, <2>6
  <2>8. /\ SubSeq(bytes, 1, first - 1) \in Seq(Bytes)
        /\ Len(SubSeq(bytes, 1, first - 1)) \in Nat
    BY <2>5, <2>6
  <2> QED
    BY ONLY <2>2, <2>7, <2>8
<1> QED
  BY <1>2, <1>3

\* ---- the invariant ---------------------------------------------------------------

\* What the loops outside tokenize_segment keep.
OuterType ==
  /\ file \in DOMAIN Gguf
  /\ call \in Calls
  /\ position \in Nat
  /\ raw \in Seq(Bytes)
  /\ rest \in Seq(Bytes)
  /\ special = NoSpecial \/ \E i \in DOMAIN vocab.specials : special = vocab.specials[i]
  /\ segment \in Seq(Bytes)
  /\ pc = "load" => output = <<>>
  /\ pc \in {"cut", "merge", "emit"} => segment # <<>>

Symbols == [previous : Int, next : Int, offset : Nat, size : Nat]

\* The i-th of the symbols that are cut off so far.
IsCharacter(seg, s, i) ==
  /\ s[i] \in Symbols
  /\ s[i].size > 0
  /\ s[i].size = SizeAfter(seg, s[i].offset)
  /\ EndOf(s, i) <= Len(seg)
  /\ s[i].previous = i - 1
  /\ s[i].next = IF EndOf(s, i) = Len(seg) THEN End ELSE i + 1
  /\ s[i].offset = IF i = 0 THEN 0 ELSE EndOf(s, i - 1)

\* Symbols that are alive lie in the order of their numbers.
Ordered(s, n) ==
  \A i, j \in 0 .. n - 1 :
    s[i].size > 0 /\ s[j].size > 0 /\ i < j => EndOf(s, i) <= s[j].offset

Cutting(seg, s, n) ==
  /\ DOMAIN s = 0 .. n - 1
  /\ \A i \in 0 .. n - 1 : IsCharacter(seg, s, i)
  /\ Ordered(s, n)

\* A symbol that is alive and its neighbours in the list.
NextLinked(seg, s, i) ==
  \/ s[i].next = End /\ EndOf(s, i) = Len(seg)
  \/ /\ s[i].next \in DOMAIN s
     /\ s[s[i].next].size > 0
     /\ s[i].next > i
     /\ s[s[i].next].offset = EndOf(s, i)
     /\ s[s[i].next].previous = i

PreviousLinked(s, i) ==
  s[i].previous >= 0 =>
    /\ s[i].previous \in DOMAIN s
    /\ s[s[i].previous].size > 0
    /\ s[s[i].previous].next = i

Linked(seg, s, i) ==
  EndOf(s, i) <= Len(seg) /\ NextLinked(seg, s, i) /\ PreviousLinked(s, i)

\* The symbols that are alive tile the segment.
Listed(seg, s, n) ==
  /\ DOMAIN s = 0 .. n - 1
  /\ \A i \in 0 .. n - 1 : s[i] \in Symbols
  /\ n > 0 /\ s[0].size > 0 /\ s[0].offset = 0
  /\ \A i \in 0 .. n - 1 : s[i].size > 0 => Linked(seg, s, i)
  /\ Ordered(s, n)

\* A candidate of which both symbols are alive links neighbours; its left symbol
\* is as it was, its right one may have grown.
Second(s, b, k) == SubSeq(segment, s[b.right].offset + 1, s[b.right].offset + k)
Pair(s, b, k) == <<TextOf(s, b.left), Second(s, b, k)>>

Fresh(s, b) ==
  s[b.left].size > 0 /\ s[b.right].size > 0 =>
    /\ s[b.left].next = b.right
    /\ \E k \in 1 .. s[b.right].size :
         /\ Pair(s, b, k) \in DOMAIN vocab.ranks
         /\ b.rank = vocab.ranks[Pair(s, b, k)]
         /\ b.text = TextOf(s, b.left) \o Second(s, b, k)

Candidate(s, b) ==
  b.left \in DOMAIN s /\ b.right \in DOMAIN s /\ b.rank \in Nat /\ Fresh(s, b)

\* No pair that could be merged is missing from the queue.
Complete(s, q) ==
  \A i \in DOMAIN s :
    s[i].size > 0 /\ s[i].next # End => Bigrams(s, i, s[i].next) \subseteq q

SegmentInv ==
  /\ pc = "cut" => \E n \in Nat : Cutting(segment, symbols, n)
  /\ pc \in {"merge", "emit"} => \E n \in Nat : Listed(segment, symbols, n)
  /\ pc = "merge" => (\A b \in queue : Candidate(symbols, b)) /\ Complete(symbols, queue)
  /\ pc = "emit" => index = End \/ (index \in DOMAIN symbols /\ symbols[index].size > 0)

Inv == OuterType /\ SegmentInv

\* ---- the list of symbols ---------------------------------------------------------

LEMMA FieldTypes ==
  ASSUME NEW s, NEW i, s[i] \in Symbols
  PROVE  /\ s[i].offset \in Nat /\ s[i].size \in Nat /\ EndOf(s, i) \in Nat
         /\ s[i].previous \in Int /\ s[i].next \in Int
         /\ EndOf(s, i) = s[i].offset + s[i].size
<1>1. s[i].offset \in Nat /\ s[i].size \in Nat /\ s[i].previous \in Int /\ s[i].next \in Int
  BY DEF Symbols
<1> QED
  BY <1>1 DEF EndOf

\* One character more.
LEMMA CutOne ==
  ASSUME NEW seg \in Seq(Bytes), NEW n \in Nat, NEW s, Cutting(seg, s, n),
         NEW cut \in Nat, cut = IF n = 0 THEN 0 ELSE EndOf(s, n - 1), cut < Len(seg),
         NEW new \in Symbols,
         new.previous = n - 1, new.offset = cut, new.size = SizeAfter(seg, cut),
         new.next = IF cut + new.size = Len(seg) THEN End ELSE n + 1,
         NEW t, t = [i \in 0 .. n |-> IF i = n THEN new ELSE s[i]]
  PROVE  Cutting(seg, t, n + 1)
<1>1. Len(seg) \in Nat /\ new.size > 0 /\ cut + new.size <= Len(seg)
  BY SizeBounds, LenProperties
<1>2. DOMAIN t = 0 .. (n + 1) - 1
  OBVIOUS
<1>3. t[n] = new /\ \A i \in 0 .. n - 1 : t[i] = s[i] /\ s[i] \in Symbols
  BY DEF Cutting, IsCharacter
<1>4. EndOf(t, n) = cut + new.size /\ \A i \in 0 .. n - 1 : EndOf(t, i) = EndOf(s, i)
  BY <1>3 DEF EndOf, Symbols
<1> DEFINE Was(i) == IsCharacter(seg, s, i)
<1>5. \A i \in 0 .. n - 1 : IsCharacter(seg, t, i)
  <2> TAKE i \in 0 .. n - 1
  <2>1. IsCharacter(seg, s, i)
    BY DEF Cutting
  <2>2. t[i] = s[i] /\ EndOf(t, i) = EndOf(s, i)
    BY <1>3, <1>4
  <2>3. i # 0 => EndOf(t, i - 1) = EndOf(s, i - 1)
    BY <1>4
  <2> QED
    BY <2>1, <2>2, <2>3 DEF IsCharacter
<1>6. IsCharacter(seg, t, n)
  <2>1. t[n].offset = IF n = 0 THEN 0 ELSE EndOf(t, n - 1)
    BY <1>3, <1>4
  <2>2. t[n].next = IF EndOf(t, n) = Len(seg) THEN End ELSE n + 1
    BY <1>3, <1>4
  <2> QED
    BY <1>1, <1>3, <1>4, <2>1, <2>2 DEF IsCharacter
<1>7. ASSUME NEW i \in 0 .. n, NEW j \in 0 .. n, i < j PROVE EndOf(t, i) <= t[j].offset
  <2>1. CASE j < n
    <3>1. EndOf(s, i) <= s[j].offset
      <4>1. i \in 0 .. n - 1 /\ j \in 0 .. n - 1
        BY <1>7, <2>1
      <4>2. s[i].size > 0 /\ s[j].size > 0
        BY <4>1 DEF Cutting, IsCharacter
      <4> QED
        BY <1>7, <4>1, <4>2 DEF Cutting, Ordered
    <3> QED
      BY <1>3, <1>4, <1>7, <2>1, <3>1
  <2>2. CASE j = n
    <3>1. n # 0 /\ n - 1 \in 0 .. n - 1 /\ i \in 0 .. n - 1 /\ t[j].offset = EndOf(s, n - 1)
      BY <1>3, <1>7, <2>2
    <3>2. CASE i = n - 1
      BY <1>4, <3>1, <3>2, <1>1, <2>2
    <3>3. CASE i < n - 1
      <4>1. IsCharacter(seg, s, i) /\ IsCharacter(seg, s, n - 1)
        BY <3>1 DEF Cutting
      <4>2. EndOf(s, i) <= s[n - 1].offset
        <5>1. s[i].size > 0 /\ s[n - 1].size > 0
          BY <4>1 DEF IsCharacter
        <5> QED
          BY <3>1, <3>3, <5>1 DEF Cutting, Ordered
      <4>3. s[i] \in Symbols /\ s[n - 1] \in Symbols
        BY <4>1 DEF IsCharacter
      <4>4. /\ EndOf(s, i) \in Nat /\ s[n - 1].offset \in Nat /\ s[n - 1].size \in Nat
            /\ EndOf(s, n - 1) = s[n - 1].offset + s[n - 1].size
        BY <4>3, FieldTypes
      <4>5. EndOf(s, i) <= EndOf(s, n - 1)
        BY <4>2, <4>4
      <4>6. EndOf(t, i) = EndOf(s, i)
        BY <1>4, <3>1
      <4> QED
        BY <3>1, <4>5, <4>6
    <3> QED
      BY <3>1, <3>2, <3>3
  <2> QED
    BY <1>7, <2>1, <2>2
<1>8. Ordered(t, n + 1)
  <2>1. \A i \in 0 .. (n + 1) - 1 : i \in 0 .. n
    OBVIOUS
  <2> QED
    BY <1>7, <2>1 DEF Ordered
<1>9. \A i \in 0 .. (n + 1) - 1 : IsCharacter(seg, t, i)
  BY <1>5, <1>6
<1> QED
  BY <1>2, <1>8, <1>9 DEF Cutting

\* When the segment is cut up, the symbols are a list.
LEMMA CutAll ==
  ASSUME NEW seg \in Seq(Bytes), seg # <<>>, NEW n \in Nat, NEW s, Cutting(seg, s, n),
         Len(seg) = IF n = 0 THEN 0 ELSE EndOf(s, n - 1)
  PROVE  Listed(seg, s, n) /\ \A i \in 0 .. n - 1 : s[i].next # End => s[i].next = i + 1
<1>1. Len(seg) \in Nat \ {0}
  BY LenProperties, EmptySeq
<1>2. n > 0 /\ n - 1 \in 0 .. n - 1 /\ EndOf(s, n - 1) = Len(seg)
  BY <1>1
<1>3. \A i \in 0 .. n - 1 : IsCharacter(seg, s, i)
  BY DEF Cutting
<1>4. \A i \in 0 .. n - 1 : s[i] \in Symbols /\ s[i].size > 0
  BY <1>3 DEF IsCharacter
<1>5. s[0].size > 0 /\ s[0].offset = 0
  BY <1>2, <1>3 DEF IsCharacter
<1>6. ASSUME NEW i \in 0 .. n - 1
      PROVE  Linked(seg, s, i) /\ (s[i].next # End => s[i].next = i + 1)
  <2>1. IsCharacter(seg, s, i)
    BY <1>3
  <2>2. i # n - 1 => IsCharacter(seg, s, i + 1) /\ i + 1 \in 0 .. n - 1
    BY <1>3
  <2>3. i # 0 => IsCharacter(seg, s, i - 1) /\ i - 1 \in 0 .. n - 1
    BY <1>3
  <2>4. EndOf(s, i) <= Len(seg) /\ (s[i].next # End => s[i].next = i + 1)
    BY <2>1 DEF IsCharacter
  <2>5. NextLinked(seg, s, i)
    <3>1. CASE EndOf(s, i) = Len(seg)
      BY <2>1, <3>1 DEF IsCharacter, NextLinked
    <3>2. CASE EndOf(s, i) # Len(seg)
      <4>1. i # n - 1 /\ s[i].next = i + 1
        BY <1>2, <2>1, <3>2 DEF IsCharacter
      <4>2. s[i + 1].size > 0 /\ s[i + 1].offset = EndOf(s, (i + 1) - 1)
            /\ s[i + 1].previous = (i + 1) - 1
        BY <2>2, <4>1 DEF IsCharacter
      <4>3. (i + 1) - 1 = i /\ i + 1 > i /\ i + 1 \in DOMAIN s
        BY <2>2, <4>1 DEF Cutting
      <4> QED
        BY <4>1, <4>2, <4>3 DEF NextLinked
    <3> QED
      BY <3>1, <3>2
  <2>6. PreviousLinked(s, i)
    <3>1. CASE i = 0
      BY <2>1, <3>1 DEF IsCharacter, PreviousLinked
    <3>2. CASE i # 0
      <4>1. s[i].previous = i - 1 /\ i - 1 \in DOMAIN s /\ s[i - 1].size > 0
        BY <2>1, <2>3, <3>2 DEF IsCharacter, Cutting
      <4>2. s[i].offset = EndOf(s, i - 1) /\ s[i].offset < Len(seg)
        <5>1. s[i].offset = EndOf(s, i - 1)
          BY <2>1, <3>2 DEF IsCharacter
        <5>2. s[i].offset < EndOf(s, i) /\ s[i].offset \in Nat /\ EndOf(s, i) \in Nat
          BY <2>1 DEF IsCharacter, EndOf, Symbols
        <5> QED
          BY <1>1, <2>4, <5>1, <5>2
      <4>3. s[i - 1].next = (i - 1) + 1
        <5>1. EndOf(s, i - 1) # Len(seg)
          BY <1>1, <4>2
        <5> QED
          BY <2>3, <3>2, <5>1 DEF IsCharacter
      <4>4. (i - 1) + 1 = i
        OBVIOUS
      <4> QED
        BY <4>1, <4>3, <4>4 DEF PreviousLinked
    <3> QED
      BY <3>1, <3>2
  <2> QED
    BY <2>4, <2>5, <2>6 DEF Linked
<1> QED
  BY <1>2, <1>4, <1>5, <1>6 DEF Listed, Cutting

\* t is s after the symbol r has joined the symbol l.
Joins(s, t, l, r) ==
  /\ DOMAIN t = DOMAIN s
  /\ \A i \in DOMAIN s :
       /\ t[i] \in Symbols
       /\ t[i].offset = s[i].offset
       /\ t[i].size = IF i = l THEN s[l].size + s[r].size
                      ELSE IF i = r THEN 0 ELSE s[i].size
       /\ t[i].next = IF i = l THEN s[r].next ELSE s[i].next
       /\ t[i].previous = IF i = s[r].next THEN l ELSE s[i].previous

LEMMA JoinedJoins ==
  ASSUME NEW b, \A i \in DOMAIN symbols : symbols[i] \in Symbols,
         b.left \in DOMAIN symbols, b.right \in DOMAIN symbols, b.left # b.right,
         symbols[b.right].next # b.left, symbols[b.right].next # b.right,
         DOMAIN symbols \subseteq Int
  PROVE  Joins(symbols, Joined(b), b.left, b.right)
<1> DEFINE l == b.left
           r == b.right
           t == Joined(b)
<1>1. DOMAIN t = DOMAIN symbols
  BY DEF Joined
<1>2. t[l] = [symbols[l] EXCEPT !.size = @ + symbols[r].size, !.next = symbols[r].next]
  BY DEF Joined
<1>3. t[r] = [symbols[r] EXCEPT !.size = 0]
  BY DEF Joined
<1>4. ASSUME NEW i \in DOMAIN symbols, i # l, i # r
      PROVE  t[i] = IF i = symbols[r].next THEN [symbols[i] EXCEPT !.previous = l]
                    ELSE symbols[i]
  BY <1>4 DEF Joined
<1> HIDE DEF t
<1>5. ASSUME NEW i \in DOMAIN symbols
      PROVE  /\ t[i] \in Symbols
             /\ t[i].offset = symbols[i].offset
             /\ t[i].size = IF i = l THEN symbols[l].size + symbols[r].size
                            ELSE IF i = r THEN 0 ELSE symbols[i].size
             /\ t[i].next = IF i = l THEN symbols[r].next ELSE symbols[i].next
             /\ t[i].previous = IF i = symbols[r].next THEN l
                                ELSE symbols[i].previous
  <2>1. symbols[i] \in Symbols /\ symbols[r] \in Symbols /\ l \in Int
    OBVIOUS
  <2>2. CASE i = l
    <3> DEFINE size == symbols[l].size + symbols[r].size
               next == symbols[r].next
    <3>1. size \in Nat /\ next \in Int
      BY <2>1, <2>2 DEF Symbols
    <3>2. t[i] = [symbols[i] EXCEPT !.size = size, !.next = next]
      BY <1>2, <2>2
    <3>3. i # next
      BY <2>2
    <3> HIDE DEF size, next
    <3>4. t[i] \in Symbols /\ t[i].offset = symbols[i].offset /\ t[i].size = size
          /\ t[i].next = next /\ t[i].previous = symbols[i].previous
      BY <2>1, <3>1, <3>2 DEF Symbols
    <3> QED
      BY <2>2, <3>3, <3>4 DEF size, next
  <2>3. CASE i = r
    BY <1>3, <2>1, <2>3 DEF Symbols
  <2>4. CASE i # l /\ i # r
    BY <1>4, <2>1, <2>4 DEF Symbols
  <2> QED
    BY <2>2, <2>3, <2>4
<1> QED
  BY <1>1, <1>5 DEF Joins, t

\* What two neighbours are to each other and to the rest of the list.
LEMMA Neighbours ==
  ASSUME NEW seg, NEW s, NEW n \in Nat, Listed(seg, s, n),
         NEW l \in 0 .. n - 1, s[l].size > 0, s[l].next # End
  PROVE  /\ s[l].next \in 0 .. n - 1 /\ s[s[l].next].size > 0 /\ s[l].next > l
         /\ s[s[l].next].offset = EndOf(s, l)
         /\ s[s[l].next].previous = l
BY DEF Listed, Linked, NextLinked

LEMMA Joining ==
  ASSUME NEW seg \in Seq(Bytes), NEW s, NEW n \in Nat, Listed(seg, s, n),
         NEW l \in 0 .. n - 1, NEW r \in 0 .. n - 1,
         s[l].size > 0, s[r].size > 0, s[l].next = r,
         NEW t, Joins(s, t, l, r)
  PROVE  /\ l < r /\ s[r].offset = EndOf(s, l) /\ s[r].previous = l
         /\ EndOf(t, l) = EndOf(s, r)
         /\ t[l].size > 0 /\ t[r].size = 0
         /\ \A i \in 0 .. n - 1 : i # l /\ i # r =>
              EndOf(t, i) = EndOf(s, i) /\ t[i].size = s[i].size
<1>1. DOMAIN s = 0 .. n - 1 /\ \A i \in 0 .. n - 1 : s[i] \in Symbols
  BY DEF Listed
<1>2. l < r /\ s[r].offset = EndOf(s, l) /\ s[r].previous = l
  <2>1. s[l].next # End
    BY DEF End
  <2> QED
    BY <2>1, Neighbours
<1>3. /\ t[l].size = s[l].size + s[r].size /\ t[l].offset = s[l].offset
      /\ t[r].size = 0
  BY <1>1, <1>2 DEF Joins
<1>4. /\ EndOf(s, l) = s[l].offset + s[l].size /\ EndOf(s, r) = s[r].offset + s[r].size
      /\ EndOf(t, l) = t[l].offset + t[l].size
      /\ s[l].offset \in Nat /\ s[l].size \in Nat /\ s[r].offset \in Nat /\ s[r].size \in Nat
  BY <1>1, FieldTypes DEF EndOf
<1>5. EndOf(t, l) = EndOf(s, r) /\ t[l].size > 0
  <2>1. t[l].size > 0
    BY <1>3, <1>4
  <2>2. EndOf(t, l) = s[l].offset + (s[l].size + s[r].size)
    BY <1>3, <1>4
  <2>3. EndOf(s, r) = (s[l].offset + s[l].size) + s[r].size
    BY <1>2, <1>4
  <2> QED
    BY <1>4, <2>1, <2>2, <2>3
<1>6. ASSUME NEW i \in 0 .. n - 1, i # l, i # r
      PROVE  EndOf(t, i) = EndOf(s, i) /\ t[i].size = s[i].size
  <2>1. t[i].size = s[i].size /\ t[i].offset = s[i].offset
    BY <1>1, <1>6 DEF Joins
  <2> QED
    BY <2>1 DEF EndOf
<1> QED
  BY <1>2, <1>3, <1>5, <1>6

\* The list stays a list when two neighbours join.
LEMMA ListStays ==
  ASSUME NEW seg \in Seq(Bytes), NEW s, NEW n \in Nat, Listed(seg, s, n),
         NEW l \in 0 .. n - 1, NEW r \in 0 .. n - 1,
         s[l].size > 0, s[r].size > 0, s[l].next = r,
         NEW t, Joins(s, t, l, r)
  PROVE  Listed(seg, t, n)
<1>1. DOMAIN s = 0 .. n - 1 /\ DOMAIN t = 0 .. n - 1
  BY DEF Listed, Joins
<1>2. \A i \in 0 .. n - 1 : s[i] \in Symbols /\ t[i] \in Symbols
  BY <1>1 DEF Listed, Joins
<1>3. /\ l < r /\ s[r].offset = EndOf(s, l) /\ s[r].previous = l
      /\ EndOf(t, l) = EndOf(s, r)
      /\ t[l].size > 0 /\ t[r].size = 0
  BY Joining
<1>4. \A i \in 0 .. n - 1 : i # l /\ i # r =>
        EndOf(t, i) = EndOf(s, i) /\ t[i].size = s[i].size
  BY Joining
<1>5. ASSUME NEW i \in 0 .. n - 1
      PROVE  /\ t[i].offset = s[i].offset
             /\ t[i].next = IF i = l THEN s[r].next ELSE s[i].next
             /\ t[i].previous = IF i = s[r].next THEN l ELSE s[i].previous
  BY <1>1 DEF Joins
<1>6. \A i \in 0 .. n - 1 : t[i].size > 0 => s[i].size > 0 /\ i # r
  <2> TAKE i \in 0 .. n - 1
  <2> HAVE t[i].size > 0
  <2>1. i # r
    BY <1>3
  <2>2. CASE i = l
    BY <2>1, <2>2
  <2>3. CASE i # l
    BY <1>4, <2>1, <2>3
  <2> QED
    BY <2>1, <2>2, <2>3
<1>7. \A i \in 0 .. n - 1 : s[i].size > 0 /\ i # r => t[i].size > 0
  <2> TAKE i \in 0 .. n - 1
  <2> HAVE s[i].size > 0 /\ i # r
  <2>1. CASE i = l
    BY <1>3, <2>1
  <2>2. CASE i # l
    BY <1>4, <2>2
  <2> QED
    BY <2>1, <2>2
<1>8. \A i \in 0 .. n - 1 : s[i].size > 0 => Linked(seg, s, i)
  BY DEF Listed
<1>9. n > 0 /\ t[0].size > 0 /\ t[0].offset = 0
  <2>1. n > 0 /\ s[0].size > 0 /\ s[0].offset = 0 /\ 0 \in 0 .. n - 1
    BY DEF Listed
  <2>2. 0 # r
    BY <1>3
  <2> QED
    BY <1>5, <1>7, <2>1, <2>2
<1>10. ASSUME NEW i \in 0 .. n - 1, t[i].size > 0
       PROVE  EndOf(t, i) <= Len(seg)
  <2>1. s[i].size > 0 /\ i # r
    BY <1>6, <1>10
  <2>2. EndOf(s, i) <= Len(seg) /\ EndOf(s, r) <= Len(seg)
    BY <1>8, <2>1 DEF Linked
  <2> QED
    BY <1>3, <1>4, <2>1, <2>2
<1>11. ASSUME NEW i \in 0 .. n - 1, t[i].size > 0
       PROVE  NextLinked(seg, t, i)
  <2>1. s[i].size > 0 /\ i # r
    BY <1>6, <1>11
  <2>2. CASE i = l
    <3>1. t[i].next = s[r].next /\ EndOf(t, i) = EndOf(s, r)
      BY <1>3, <1>5, <2>2
    <3>2. CASE s[r].next = End
      <4>1. EndOf(s, r) = Len(seg)
        <5>1. NextLinked(seg, s, r)
          BY <1>8 DEF Linked
        <5>2. End \notin DOMAIN s
          BY <1>1 DEF End
        <5> QED
          BY <3>2, <5>1, <5>2 DEF NextLinked
      <4> QED
        BY <3>1, <3>2, <4>1 DEF NextLinked
    <3>3. CASE s[r].next # End
      <4> DEFINE a == s[r].next
      <4>1. a \in 0 .. n - 1 /\ s[a].size > 0 /\ a > r /\ s[a].offset = EndOf(s, r)
        BY <3>3, Neighbours
      <4> HIDE DEF a
      <4>2. a # l /\ a # r /\ a > l
        BY <1>3, <4>1
      <4>3. t[a].size > 0 /\ t[a].offset = EndOf(s, r)
        BY <1>5, <1>7, <4>1, <4>2
      <4>4. t[a].previous = l
        BY <1>5, <4>1 DEF a
      <4>5. t[i].next = a
        BY <3>1 DEF a
      <4> QED
        BY <1>1, <2>2, <3>1, <4>1, <4>2, <4>3, <4>4, <4>5 DEF NextLinked
    <3> QED
      BY <3>2, <3>3
  <2>3. CASE i # l
    <3>1. t[i].next = s[i].next /\ EndOf(t, i) = EndOf(s, i)
      BY <1>4, <1>5, <2>1, <2>3
    <3>2. CASE s[i].next = End
      <4>1. EndOf(s, i) = Len(seg)
        <5>1. NextLinked(seg, s, i)
          BY <1>8, <2>1 DEF Linked
        <5>2. End \notin DOMAIN s
          BY <1>1 DEF End
        <5> QED
          BY <3>2, <5>1, <5>2 DEF NextLinked
      <4> QED
        BY <3>1, <3>2, <4>1 DEF NextLinked
    <3>3. CASE s[i].next # End
      <4> DEFINE j == s[i].next
      <4>1. /\ j \in 0 .. n - 1 /\ s[j].size > 0 /\ j > i
            /\ s[j].offset = EndOf(s, i) /\ s[j].previous = i
        BY <2>1, <3>3, Neighbours
      <4> HIDE DEF j
      <4>2. j # r
        BY <1>3, <2>3, <4>1
      <4>3. t[j].size > 0 /\ t[j].offset = EndOf(s, i)
        BY <1>5, <1>7, <4>1, <4>2
      <4>4. j # s[r].next
        <5> SUFFICES ASSUME j = s[r].next PROVE FALSE
          OBVIOUS
        <5>1. s[r].next # End
          BY <1>1, <4>1 DEF End
        <5>2. s[s[r].next].previous = r
          BY <5>1, Neighbours
        <5> QED
          BY <2>1, <4>1, <5>2
      <4>5. t[j].previous = i
        BY <1>5, <4>1, <4>4
      <4>6. t[i].next = j
        BY <3>1 DEF j
      <4> QED
        BY <1>1, <3>1, <4>1, <4>3, <4>5, <4>6 DEF NextLinked
    <3> QED
      BY <3>2, <3>3
  <2> QED
    BY <2>2, <2>3
<1>12. ASSUME NEW i \in 0 .. n - 1, t[i].size > 0, t[i].previous >= 0
       PROVE  /\ t[i].previous \in DOMAIN t /\ t[t[i].previous].size > 0
              /\ t[t[i].previous].next = i
  <2>1. s[i].size > 0 /\ i # r
    BY <1>6, <1>12
  <2>2. CASE i = s[r].next
    <3>1. t[i].previous = l
      BY <1>5, <2>1, <2>2
    <3>2. t[l].next = i
      BY <1>5, <2>2
    <3> QED
      BY <1>1, <1>3, <3>1, <3>2
  <2>3. CASE i # s[r].next
    <3> DEFINE p == s[i].previous
    <3>1. t[i].previous = p
      BY <1>5, <2>3
    <3>2. p \in 0 .. n - 1 /\ s[p].size > 0 /\ s[p].next = i
      <4>1. PreviousLinked(s, i)
        BY <1>8, <2>1 DEF Linked
      <4>2. p >= 0
        BY <1>12, <3>1
      <4> QED
        BY <1>1, <4>1, <4>2 DEF PreviousLinked
    <3> HIDE DEF p
    <3>3. p # l
      BY <2>1, <3>2
    <3>4. p # r
      BY <2>3, <3>2
    <3>5. t[p].size > 0 /\ t[p].next = i
      BY <1>5, <1>7, <3>2, <3>3, <3>4
    <3> QED
      BY <1>1, <3>1, <3>2, <3>5
  <2> QED
    BY <2>2, <2>3
<1>13. ASSUME NEW i \in 0 .. n - 1, NEW j \in 0 .. n - 1,
              t[i].size > 0, t[j].size > 0, i < j
       PROVE  EndOf(t, i) <= t[j].offset
  <2>1. s[i].size > 0 /\ s[j].size > 0 /\ i # r /\ j # r /\ t[j].offset = s[j].offset
    BY <1>5, <1>6, <1>13
  <2>2. EndOf(s, i) <= s[j].offset
    BY <1>13, <2>1 DEF Listed, Ordered
  <2>3. CASE i # l
    BY <1>4, <2>1, <2>2, <2>3
  <2>4. CASE i = l /\ r < j
    <3>1. EndOf(s, r) <= s[j].offset
      BY <2>1, <2>4 DEF Listed, Ordered
    <3> QED
      BY <1>3, <2>1, <2>4, <3>1
  <2>5. CASE i = l /\ j < r
    <3>1. EndOf(s, j) <= s[r].offset
      BY <2>1, <2>5 DEF Listed, Ordered
    <3>2. /\ EndOf(s, j) = s[j].offset + s[j].size /\ s[j].offset \in Nat
          /\ s[j].size \in Nat /\ EndOf(s, i) \in Nat
      BY <1>2, FieldTypes
    <3>3. s[r].offset = EndOf(s, i)
      BY <1>3, <2>5
    <3> QED
      BY <2>1, <2>2, <3>1, <3>2, <3>3
  <2> QED
    BY <2>1, <2>3, <2>4, <2>5
<1>14. \A i \in 0 .. n - 1 : t[i].size > 0 => Linked(seg, t, i)
  BY <1>10, <1>11, <1>12 DEF Linked, PreviousLinked
<1>15. Ordered(t, n)
  BY <1>13 DEF Ordered
<1> QED
  BY <1>1, <1>2, <1>9, <1>14, <1>15 DEF Listed

\* ---- the queue -------------------------------------------------------------------

LEMMA BigramIs ==
  ASSUME NEW s, NEW i, NEW j, NEW b \in Bigrams(s, i, j)
  PROVE  /\ b.left = i /\ b.right = j
         /\ <<TextOf(s, i), TextOf(s, j)>> \in DOMAIN vocab.ranks
         /\ b.rank = vocab.ranks[<<TextOf(s, i), TextOf(s, j)>>]
         /\ b.text = TextOf(s, i) \o TextOf(s, j)
BY DEF Bigrams

\* The texts of an unchanged pair give an unchanged candidate.
LEMMA SameBigrams ==
  ASSUME NEW s, NEW t, NEW i, NEW j,
         t[i].offset = s[i].offset, t[i].size = s[i].size,
         t[j].offset = s[j].offset, t[j].size = s[j].size
  PROVE  Bigrams(t, i, j) = Bigrams(s, i, j)
<1>1. TextOf(t, i) = TextOf(s, i) /\ TextOf(t, j) = TextOf(s, j)
  BY DEF TextOf
<1> QED
  BY <1>1 DEF Bigrams

\* A new candidate links neighbours.
LEMMA NewCandidate ==
  ASSUME file \in DOMAIN Gguf, NEW s, NEW i \in DOMAIN s, NEW j \in DOMAIN s,
         s[j] \in Symbols, s[i].size > 0 => s[i].next = j, NEW b \in Bigrams(s, i, j)
  PROVE  Candidate(s, b)
<1>1. /\ b.left = i /\ b.right = j
      /\ <<TextOf(s, i), TextOf(s, j)>> \in DOMAIN vocab.ranks
      /\ b.rank = vocab.ranks[<<TextOf(s, i), TextOf(s, j)>>]
      /\ b.text = TextOf(s, i) \o TextOf(s, j)
  BY BigramIs
<1>2. b.rank \in Nat
  BY <1>1, RankType DEF vocab
<1>3. Fresh(s, b)
  <2> SUFFICES ASSUME s[i].size > 0, s[j].size > 0
               PROVE  /\ s[i].next = j
                      /\ \E k \in 1 .. s[j].size :
                           /\ Pair(s, b, k) \in DOMAIN vocab.ranks
                           /\ b.rank = vocab.ranks[Pair(s, b, k)]
                           /\ b.text = TextOf(s, i) \o Second(s, b, k)
    BY <1>1 DEF Fresh
  <2>1. s[j].size \in 1 .. s[j].size
    BY FieldTypes
  <2>2. Second(s, b, s[j].size) = TextOf(s, j)
    BY <1>1 DEF Second, TextOf
  <2>3. Pair(s, b, s[j].size) = <<TextOf(s, i), TextOf(s, j)>>
    BY <1>1, <2>2 DEF Pair
  <2> QED
    BY <1>1, <2>1, <2>2, <2>3
<1> QED
  BY <1>1, <1>2, <1>3 DEF Candidate

\* An old candidate is as good after two symbols have joined.
LEMMA CandidateStays ==
  ASSUME NEW seg \in Seq(Bytes), NEW s, NEW n \in Nat, Listed(seg, s, n),
         NEW l \in 0 .. n - 1, NEW r \in 0 .. n - 1,
         s[l].size > 0, s[r].size > 0, s[l].next = r,
         NEW t, Joins(s, t, l, r), NEW b, Candidate(s, b)
  PROVE  Candidate(t, b)
<1>1. DOMAIN s = 0 .. n - 1 /\ DOMAIN t = 0 .. n - 1
  BY DEF Listed, Joins
<1>2. b.left \in 0 .. n - 1 /\ b.right \in 0 .. n - 1 /\ b.rank \in Nat
  BY <1>1 DEF Candidate
<1>3. /\ l < r /\ t[l].size > 0 /\ t[r].size = 0
      /\ \A i \in 0 .. n - 1 : i # l /\ i # r => t[i].size = s[i].size
  BY Joining
<1>4. \A i \in 0 .. n - 1 : t[i].size > 0 => s[i].size > 0 /\ i # r
  <2> TAKE i \in 0 .. n - 1
  <2> HAVE t[i].size > 0
  <2>1. i # r
    BY <1>3
  <2>2. CASE i = l
    BY <2>1, <2>2
  <2>3. CASE i # l
    BY <1>3, <2>1, <2>3
  <2> QED
    BY <2>1, <2>2, <2>3
<1>5. ASSUME t[b.left].size > 0, t[b.right].size > 0
      PROVE  /\ t[b.left].next = b.right
             /\ \E k \in 1 .. t[b.right].size :
                  /\ Pair(t, b, k) \in DOMAIN vocab.ranks
                  /\ b.rank = vocab.ranks[Pair(t, b, k)]
                  /\ b.text = TextOf(t, b.left) \o Second(t, b, k)
  <2>1. /\ s[b.left].size > 0 /\ s[b.right].size > 0
        /\ b.left # r /\ b.right # r
    BY <1>2, <1>4, <1>5
  <2>2. s[b.left].next = b.right
    BY <2>1 DEF Candidate, Fresh
  <2>3. PICK k \in 1 .. s[b.right].size :
          /\ Pair(s, b, k) \in DOMAIN vocab.ranks
          /\ b.rank = vocab.ranks[Pair(s, b, k)]
          /\ b.text = TextOf(s, b.left) \o Second(s, b, k)
    BY <2>1 DEF Candidate, Fresh
  <2>4. b.left # l
    BY <2>1, <2>2
  <2>5. /\ t[b.left].next = s[b.left].next /\ t[b.left].offset = s[b.left].offset
        /\ t[b.left].size = s[b.left].size /\ t[b.right].offset = s[b.right].offset
    BY <1>1, <1>2, <2>1, <2>4 DEF Joins
  <2>6. TextOf(t, b.left) = TextOf(s, b.left) /\ Second(t, b, k) = Second(s, b, k)
    BY <2>5 DEF TextOf, Second
  <2>7. Pair(t, b, k) = Pair(s, b, k)
    BY <2>6 DEF Pair
  <2>8. k \in 1 .. t[b.right].size
    <3>1. s[b.right] \in Symbols /\ s[l] \in Symbols /\ s[r] \in Symbols
      BY <1>2 DEF Listed
    <3>2. s[b.right].size \in Nat /\ s[l].size \in Nat /\ s[r].size \in Nat
      BY <3>1, FieldTypes
    <3>3. t[b.right].size = IF b.right = l THEN s[l].size + s[r].size ELSE s[b.right].size
      <4>1. b.right \in DOMAIN s /\ b.right # r
        BY <1>1, <1>2, <2>1
      <4>2. \A i \in DOMAIN s : t[i].size = IF i = l THEN s[l].size + s[r].size
                                          ELSE IF i = r THEN 0 ELSE s[i].size
        BY DEF Joins
      <4> QED
        BY ONLY <4>1, <4>2
    <3>4. \A p, q \in Nat : \A h \in 1 .. p : h \in 1 .. p + q
      OBVIOUS
    <3>5. CASE b.right = l
      <4>1. t[b.right].size = s[l].size + s[r].size /\ k \in 1 .. s[l].size
        BY <3>3, <3>5
      <4> QED
        BY ONLY <3>2, <3>4, <4>1
    <3>6. CASE b.right # l
      BY <3>3, <3>6
    <3> QED
      BY <3>5, <3>6
  <2> QED
    BY <2>2, <2>3, <2>5, <2>6, <2>7, <2>8
<1>6. Fresh(t, b)
  BY <1>5 DEF Fresh
<1> QED
  BY <1>1, <1>2, <1>6 DEF Candidate

\* A candidate that is not stale is its two symbols as they are.
LEMMA NotStale ==
  ASSUME segment \in Seq(Bytes), NEW n \in Nat, Listed(segment, symbols, n),
         NEW b, Candidate(symbols, b), ~Stale(b)
  PROVE  LET l == b.left
             r == b.right
         IN /\ l \in 0 .. n - 1 /\ r \in 0 .. n - 1
            /\ symbols[l].size > 0 /\ symbols[r].size > 0 /\ symbols[l].next = r
            /\ <<TextOf(symbols, l), TextOf(symbols, r)>> \in DOMAIN vocab.ranks
            /\ b.rank = vocab.ranks[<<TextOf(symbols, l), TextOf(symbols, r)>>]
<1> DEFINE l == b.left
           r == b.right
           L == symbols[l]
           R == symbols[r]
<1>1. l \in 0 .. n - 1 /\ r \in 0 .. n - 1 /\ L \in Symbols /\ R \in Symbols
  BY DEF Candidate, Listed
<1>2. L.offset \in Nat /\ L.size \in Nat /\ R.offset \in Nat /\ R.size \in Nat
  BY <1>1 DEF Symbols
<1>3. L.size > 0 /\ R.size > 0
  BY <1>2 DEF Stale
<1>4. b.text = SubSeq(segment, L.offset + 1, L.offset + L.size + R.size)
  BY DEF Stale
<1>5. symbols[l].next = r
  BY <1>3 DEF Candidate, Fresh
<1>6. PICK k \in 1 .. R.size :
        /\ Pair(symbols, b, k) \in DOMAIN vocab.ranks
        /\ b.rank = vocab.ranks[Pair(symbols, b, k)]
        /\ b.text = TextOf(symbols, b.left) \o Second(symbols, b, k)
  BY <1>3 DEF Candidate, Fresh
<1>7. Len(segment) \in Nat /\ L.offset + L.size = R.offset
      /\ R.offset + R.size <= Len(segment)
  <2>1. l < r /\ R.offset = EndOf(symbols, l)
    <3>1. symbols[l].next # End
      BY <1>1, <1>5 DEF End
    <3> QED
      BY <1>1, <1>3, <1>5, <3>1, Neighbours
  <2>2. EndOf(symbols, r) <= Len(segment)
    BY <1>1, <1>3 DEF Listed, Linked
  <2> QED
    BY <2>1, <2>2, LenProperties DEF EndOf
<1>8. TextOf(symbols, l) = SubSeq(segment, L.offset + 1, L.offset + L.size)
      /\ Second(symbols, b, k) = SubSeq(segment, R.offset + 1, R.offset + k)
      /\ TextOf(symbols, r) = SubSeq(segment, R.offset + 1, R.offset + R.size)
  BY DEF TextOf, Second
<1> HIDE DEF l, r, L, R
<1>9. k = R.size
  <2>1. /\ SubSeq(segment, L.offset + 1, L.offset + L.size) \in Seq(Bytes)
        /\ Len(SubSeq(segment, L.offset + 1, L.offset + L.size)) = L.size
    BY <1>2, <1>3, <1>7, SubSeqOf
  <2>2. /\ SubSeq(segment, R.offset + 1, R.offset + k) \in Seq(Bytes)
        /\ Len(SubSeq(segment, R.offset + 1, R.offset + k)) = k
    <3>1. k \in Nat /\ R.offset + k <= Len(segment)
      BY <1>2, <1>6, <1>7
    <3> QED
      BY <1>2, <3>1, SubSeqOf
  <2>3. Len(b.text) = L.size + R.size
    <3>1. L.size + R.size \in Nat /\ L.offset + (L.size + R.size) <= Len(segment)
          /\ L.offset + L.size + R.size = L.offset + (L.size + R.size)
      BY <1>2, <1>7
    <3> DEFINE m == L.size + R.size
    <3>2. m \in Nat /\ L.offset + m <= Len(segment)
          /\ b.text = SubSeq(segment, L.offset + 1, L.offset + m)
      BY <1>4, <3>1
    <3> HIDE DEF m
    <3>3. Len(SubSeq(segment, L.offset + 1, L.offset + m)) = m
      BY <1>2, <3>2, SubSeqOf
    <3>4. Len(b.text) = m
      BY <3>2, <3>3
    <3> QED
      BY <3>4 DEF m
  <2>4. Len(b.text) = L.size + k
    BY <1>6, <1>8, <2>1, <2>2, ConcatProperties DEF l
  <2> QED
    BY <1>2, <1>6, <2>3, <2>4
<1>10. Pair(symbols, b, k) = <<TextOf(symbols, l), TextOf(symbols, r)>>
  BY <1>8, <1>9 DEF Pair, l
<1> QED
  BY <1>1, <1>3, <1>5, <1>6, <1>10 DEF l, r, L, R

\* The candidate of two neighbours is not stale.
LEMMA NeighboursNotStale ==
  ASSUME segment \in Seq(Bytes), NEW n \in Nat, Listed(segment, symbols, n),
         NEW i \in 0 .. n - 1, symbols[i].size > 0, symbols[i].next # End,
         NEW b \in Bigrams(symbols, i, symbols[i].next)
  PROVE  ~Stale(b)
<1> DEFINE j == symbols[i].next
<1>1. /\ j \in 0 .. n - 1 /\ symbols[j].size > 0
      /\ symbols[j].offset = EndOf(symbols, i)
  BY Neighbours
<1>2. /\ b.left = i /\ b.right = j
      /\ b.text = TextOf(symbols, i) \o TextOf(symbols, j)
  <2>1. b \in Bigrams(symbols, i, j)
    OBVIOUS
  <2> HIDE DEF j
  <2> QED
    BY <2>1 DEF Bigrams
<1> HIDE DEF j
<1> DEFINE a == symbols[i].offset
           p == symbols[i].size
           q == symbols[j].size
<1>3. a \in Nat /\ p \in Nat /\ q \in Nat /\ symbols[j].offset = a + p
      /\ a + p + q <= Len(segment) /\ Len(segment) \in Nat
  <2>1. symbols[i] \in Symbols /\ symbols[j] \in Symbols
    BY <1>1 DEF Listed
  <2>2. /\ a \in Nat /\ p \in Nat /\ q \in Nat /\ EndOf(symbols, i) = a + p
        /\ EndOf(symbols, j) = symbols[j].offset + q
    BY <2>1, FieldTypes
  <2>3. EndOf(symbols, j) <= Len(segment)
    BY <1>1 DEF Listed, Linked
  <2> QED
    BY <1>1, <2>2, <2>3, LenProperties
<1>4. b.text = SubSeq(segment, a + 1, a + p) \o SubSeq(segment, a + p + 1, a + p + q)
  BY <1>2, <1>3 DEF TextOf
<1>5. b.text = SubSeq(segment, a + 1, a + p + q)
  <2> HIDE DEF a, p, q
  <2>1. /\ a + 1 \in 1 .. Len(segment) + 1 /\ a + p \in (a + 1) - 1 .. Len(segment)
        /\ a + p + q \in a + p .. Len(segment)
    BY <1>3
  <2> QED
    BY <1>4, <2>1, ConcatAdjacentSubSeq
<1> QED
  BY <1>1, <1>2, <1>3, <1>5 DEF Stale

\* After a merge the queue holds the candidates of the joined symbol with its
\* neighbours, and those it held of the others.
LEMMA CompleteAfter ==
  ASSUME NEW seg \in Seq(Bytes), NEW s, NEW n \in Nat, Listed(seg, s, n),
         NEW l \in 0 .. n - 1, NEW r \in 0 .. n - 1,
         s[l].size > 0, s[r].size > 0, s[l].next = r,
         NEW t, Joins(s, t, l, r),
         NEW q, Complete(s, q), NEW b, b.left = l,
         NEW z, z = (q \ {b}) \cup Bigrams(t, t[l].previous, l) \cup Bigrams(t, l, t[l].next)
  PROVE  Complete(t, z)
<1>1. DOMAIN s = 0 .. n - 1 /\ DOMAIN t = 0 .. n - 1
  BY DEF Listed, Joins
<1>2. Listed(seg, t, n)
  BY ListStays
<1>3. /\ l < r /\ t[l].size > 0 /\ t[r].size = 0
      /\ \A i \in 0 .. n - 1 : i # l /\ i # r => t[i].size = s[i].size
  BY Joining
<1>4. ASSUME NEW i \in 0 .. n - 1, t[i].size > 0, t[i].next # End
      PROVE  Bigrams(t, i, t[i].next) \subseteq z
  <2> DEFINE j == t[i].next
  <2>1. j \in 0 .. n - 1 /\ t[j].size > 0 /\ t[j].previous = i
    BY <1>2, <1>4, Neighbours
  <2>2. CASE i = l
    BY <2>2
  <2>3. CASE j = l
    BY <2>1, <2>3
  <2>4. CASE i # l /\ j # l
    <3>1. i # r /\ j # r
      BY <1>3, <1>4, <2>1
    <3> HIDE DEF j
    <3>2. t[i].size = s[i].size /\ t[j].size = s[j].size
      BY <1>3, <2>1, <2>4, <3>1
    <3>3. t[i].offset = s[i].offset /\ t[j].offset = s[j].offset /\ s[i].next = j
      BY <1>1, <2>1, <2>4 DEF Joins, j
    <3>4. Bigrams(t, i, j) = Bigrams(s, i, j)
      BY <3>2, <3>3, SameBigrams
    <3>5. Bigrams(s, i, j) \subseteq q
      <4>1. s[i].size > 0 /\ s[i].next # End
        BY <1>4, <3>2, <3>3 DEF j
      <4> QED
        BY <1>1, <3>3, <4>1 DEF Complete
    <3>6. b \notin Bigrams(s, i, j)
      <4>1. \A c \in Bigrams(s, i, j) : c.left = i
        BY DEF Bigrams
      <4> QED
        BY <2>4, <4>1
    <3> QED
      BY <3>4, <3>5, <3>6 DEF j
  <2> QED
    BY <2>2, <2>3, <2>4
<1> QED
  BY <1>1, <1>4 DEF Complete

\* ---- what is popped --------------------------------------------------------------

LEMMA TopIsLeast ==
  ASSUME queue # {}, \A b \in queue : b.rank \in Nat /\ b.left \in Nat
  PROVE  Top \in queue /\ \A c \in queue :
           Top.rank < c.rank \/ (Top.rank = c.rank /\ Top.left <= c.left)
<1> DEFINE f == [b \in queue |-> b.rank]
           g == [b \in queue |-> b.left]
<1>1. f \in [queue -> Nat] /\ g \in [queue -> Nat]
  OBVIOUS
<1>2. \A b \in queue : f[b] = b.rank /\ g[b] = b.left
  OBVIOUS
<1> HIDE DEF f, g
<1>3. \E b \in queue : \A c \in queue : f[b] < f[c] \/ (f[b] = f[c] /\ g[b] <= g[c])
  BY <1>1, LeastPair
<1>4. \E b \in queue : \A c \in queue :
        b.rank < c.rank \/ (b.rank = c.rank /\ b.left <= c.left)
  BY <1>2, <1>3
<1> QED
  BY <1>4 DEF Top

LEMMA TopIsCandidate ==
  ASSUME queue # {}, NEW n \in Nat, Listed(segment, symbols, n),
         \A b \in queue : Candidate(symbols, b)
  PROVE  Top \in queue /\ Candidate(symbols, Top) /\ \A c \in queue :
           Top.rank < c.rank \/ (Top.rank = c.rank /\ Top.left <= c.left)
<1>1. \A b \in queue : b.rank \in Nat /\ b.left \in Nat
  BY DEF Candidate, Listed
<1> QED
  BY <1>1, TopIsLeast

\* A merge of neighbours keeps the list, the candidates and their completeness.
LEMMA MergeStep ==
  ASSUME file \in DOMAIN Gguf, segment \in Seq(Bytes),
         NEW n \in Nat, Listed(segment, symbols, n),
         \A b \in queue : Candidate(symbols, b), Complete(symbols, queue),
         queue # {}, ~Stale(Top),
         NEW t, t = Joined(Top),
         NEW z, z = (queue \ {Top}) \cup Bigrams(t, t[Top.left].previous, Top.left)
                      \cup Bigrams(t, Top.left, t[Top.left].next)
  PROVE  /\ Joins(symbols, t, Top.left, Top.right)
         /\ Listed(segment, t, n)
         /\ \A b \in z : Candidate(t, b)
         /\ Complete(t, z)
<1> DEFINE l == Top.left
           r == Top.right
<1>1. Top \in queue /\ Candidate(symbols, Top)
  BY TopIsCandidate
<1>2. /\ l \in 0 .. n - 1 /\ r \in 0 .. n - 1
      /\ symbols[l].size > 0 /\ symbols[r].size > 0 /\ symbols[l].next = r
  BY <1>1, NotStale
<1>3. l < r
  <2>1. symbols[l].next # End
    BY <1>2 DEF End
  <2> QED
    BY <1>2, <2>1, Neighbours
<1>4. symbols[r].next # l /\ symbols[r].next # r
  <2>1. CASE symbols[r].next = End
    BY <1>2, <2>1 DEF End
  <2>2. CASE symbols[r].next # End
    <3>1. symbols[r].next > r
      BY <1>2, <2>2, Neighbours
    <3>2. symbols[r].next \in Int
      BY <1>2, <2>2, Neighbours
    <3> QED
      BY <1>2, <1>3, <3>1, <3>2
  <2> QED
    BY <2>1, <2>2
<1>5. DOMAIN symbols = 0 .. n - 1 /\ \A i \in DOMAIN symbols : symbols[i] \in Symbols
  BY DEF Listed
<1>6. Joins(symbols, t, l, r)
  <2>1. DOMAIN symbols \subseteq Int /\ l # r
    BY <1>2, <1>3, <1>5
  <2> QED
    BY <1>2, <1>4, <1>5, <2>1, JoinedJoins
<1>7. Listed(segment, t, n)
  BY <1>2, <1>6, ListStays
<1>8. Complete(t, z)
  BY <1>2, <1>6, CompleteAfter
<1>9. ASSUME NEW b \in z PROVE Candidate(t, b)
  <2>1. DOMAIN t = 0 .. n - 1 /\ \A i \in 0 .. n - 1 : t[i] \in Symbols
    BY <1>7 DEF Listed
  <2>2. t[l].size > 0
    BY <1>2, <1>6, Joining
  <2>3. CASE b \in queue
    <3>1. Candidate(symbols, b)
      BY <2>3
    <3> QED
      BY <1>2, <1>6, <3>1, CandidateStays
  <2>4. CASE b \in Bigrams(t, t[l].previous, l)
    <3> DEFINE p == t[l].previous
    <3>1. p >= 0
      <4>1. p \in Int
        BY <1>2, <2>1, FieldTypes
      <4>2. ~(p < 0)
        BY <2>4 DEF Bigrams
      <4> QED
        BY <4>1, <4>2
    <3>2. p \in DOMAIN t /\ t[p].next = l
      BY <1>2, <1>7, <2>2, <3>1 DEF Listed, Linked, PreviousLinked
    <3>3. b \in Bigrams(t, p, l)
      BY <2>4
    <3> HIDE DEF p
    <3> QED
      BY <1>2, <2>1, <3>2, <3>3, NewCandidate
  <2>5. CASE b \in Bigrams(t, l, t[l].next)
    <3> DEFINE a == t[l].next
    <3>1. a # End
      <4>1. ~(a < 0)
        BY <2>5 DEF Bigrams
      <4> QED
        BY <4>1 DEF End
    <3>2. a \in 0 .. n - 1
      BY <1>2, <1>7, <2>2, <3>1, Neighbours
    <3>3. b \in Bigrams(t, l, a)
      BY <2>5
    <3>4. t[l].next = a
      OBVIOUS
    <3> HIDE DEF a
    <3> QED
      BY <1>2, <2>1, <3>2, <3>3, <3>4, NewCandidate
  <2> QED
    BY <2>3, <2>4, <2>5
<1> QED
  BY <1>6, <1>7, <1>8, <1>9

\* A stale candidate that is dropped was none of two neighbours.
LEMMA CompleteWithout ==
  ASSUME segment \in Seq(Bytes), NEW n \in Nat, Listed(segment, symbols, n),
         Complete(symbols, queue), NEW b, Stale(b)
  PROVE  Complete(symbols, queue \ {b})
<1>1. DOMAIN symbols = 0 .. n - 1
  BY DEF Listed
<1>2. ASSUME NEW i \in 0 .. n - 1, symbols[i].size > 0, symbols[i].next # End
      PROVE  Bigrams(symbols, i, symbols[i].next) \subseteq queue \ {b}
  <2>1. Bigrams(symbols, i, symbols[i].next) \subseteq queue
    BY <1>1, <1>2 DEF Complete
  <2>2. \A c \in Bigrams(symbols, i, symbols[i].next) : ~Stale(c)
    BY <1>2, NeighboursNotStale
  <2> QED
    BY <2>1, <2>2
<1> QED
  BY <1>1, <1>2 DEF Complete

\* The first queue holds the ranked pairs of neighbouring characters.
LEMMA FilledQueue ==
  ASSUME file \in DOMAIN Gguf, segment \in Seq(Bytes), segment # <<>>,
         NEW n \in Nat, Cutting(segment, symbols, n), Listed(segment, symbols, n),
         \A i \in 0 .. n - 1 : symbols[i].next # End => symbols[i].next = i + 1,
         NEW q, q = UNION {Bigrams(symbols, i - 1, i) : i \in DOMAIN symbols \ {0}}
  PROVE  (\A b \in q : Candidate(symbols, b)) /\ Complete(symbols, q)
<1>1. DOMAIN symbols = 0 .. n - 1 /\ \A i \in 0 .. n - 1 : symbols[i] \in Symbols
  BY DEF Listed
<1>2. ASSUME NEW b \in q PROVE Candidate(symbols, b)
  <2>1. PICK j \in DOMAIN symbols \ {0} : b \in Bigrams(symbols, j - 1, j)
    OBVIOUS
  <2>2. j \in 0 .. n - 1 /\ j - 1 \in 0 .. n - 1 /\ (j - 1) + 1 = j
    BY <1>1, <2>1
  <2>3. symbols[j - 1].next = j
    <3>1. symbols[j - 1].next # End
      <4>1. IsCharacter(segment, symbols, j - 1) /\ IsCharacter(segment, symbols, j)
        BY <2>2 DEF Cutting
      <4>2. symbols[j].offset = EndOf(symbols, j - 1) /\ symbols[j].size > 0
            /\ EndOf(symbols, j) <= Len(segment)
        BY <2>1, <4>1 DEF IsCharacter
      <4>3. /\ EndOf(symbols, j) = symbols[j].offset + symbols[j].size
            /\ symbols[j].offset \in Nat /\ symbols[j].size \in Nat /\ Len(segment) \in Nat
        BY <1>1, <2>2, FieldTypes, LenProperties
      <4>4. EndOf(symbols, j - 1) # Len(segment)
        BY <4>2, <4>3
      <4>5. symbols[j - 1].next = (j - 1) + 1
        BY <4>1, <4>4 DEF IsCharacter
      <4> QED
        BY <2>2, <4>5 DEF End
    <3> QED
      BY <2>2, <3>1
  <2> DEFINE i == j - 1
  <2>4. i \in DOMAIN symbols /\ symbols[i].next = j /\ b \in Bigrams(symbols, i, j)
    BY <1>1, <2>1, <2>2, <2>3
  <2> HIDE DEF i
  <2> QED
    BY <1>1, <2>2, <2>4, NewCandidate
<1>3. ASSUME NEW i \in 0 .. n - 1, symbols[i].size > 0, symbols[i].next # End
      PROVE  Bigrams(symbols, i, symbols[i].next) \subseteq q
  <2>1. symbols[i].next = i + 1 /\ i + 1 \in 0 .. n - 1 /\ i + 1 # 0 /\ (i + 1) - 1 = i
    BY <1>3, Neighbours
  <2>2. Bigrams(symbols, (i + 1) - 1, i + 1) \subseteq q
    BY <1>1, <2>1
  <2> QED
    BY <2>1, <2>2
<1> QED
  BY <1>1, <1>2, <1>3 DEF Complete

\* ---- the invariant is kept -------------------------------------------------------

LEMMA NextSpecialType ==
  ASSUME file \in DOMAIN Gguf, call \in Calls, position \in Nat
  PROVE  /\ NextSpecial = NoSpecial
            \/ \E i \in DOMAIN vocab.specials : NextSpecial = vocab.specials[i]
         /\ StretchEnd \in 0 .. Len(call.text)
<1> DEFINE found == {i \in Usable(vocab, call.parse_special) :
                       At(vocab.specials[i]) <= Len(call.text)}
           s(i) == vocab.specials[i]
           f == [i \in found |-> At(s(i))]
           g == [i \in found |-> s(i).place]
<1>1. call.text \in Seq(Bytes) /\ Len(call.text) \in Nat
  BY TokenizerAssumption, LenProperties
<1>2. \A x : At(x) \in 1 .. Len(call.text) + 1
  BY <1>1, FindBounds DEF At
<1>3. StretchEnd \in 0 .. Len(call.text)
  <2>1. CASE NextSpecial = NoSpecial
    BY <1>1, <2>1 DEF StretchEnd
  <2>2. CASE NextSpecial # NoSpecial
    <3>1. StretchEnd = At(NextSpecial) - 1
      BY <2>2 DEF StretchEnd
    <3>2. PICK x \in 1 .. Len(call.text) + 1 : x = At(NextSpecial)
      BY <1>2
    <3> QED
      BY <1>1, <3>1, <3>2
  <2> QED
    BY <2>1, <2>2
<1>4. found \subseteq DOMAIN vocab.specials
  BY DEF Usable
<1>5. f \in [found -> Nat] /\ g \in [found -> Nat]
  <2>1. ASSUME NEW i \in found PROVE At(s(i)) \in Nat /\ s(i).place \in Nat
    <3>1. i \in DOMAIN Vocabularies[file].specials
      BY <1>4 DEF vocab
    <3>2. s(i).place \in Nat
      BY <3>1, SpecialType DEF vocab
    <3> QED
      BY <1>1, <1>2, <3>2
  <2> HIDE DEF found
  <2> QED
    BY <2>1
<1>6. CASE found = {}
  BY <1>3, <1>6 DEF NextSpecial
<1>7. CASE found # {}
  <2> DEFINE nearest == CHOOSE i \in found : \A j \in found :
                          At(s(i)) < At(s(j)) \/ (At(s(i)) = At(s(j)) /\ s(i).place <= s(j).place)
  <2>1. NextSpecial = s(nearest)
    BY <1>7 DEF NextSpecial
  <2>2. \A i \in found : f[i] = At(s(i)) /\ g[i] = s(i).place
    OBVIOUS
  <2>3. nearest \in found
    <3> HIDE DEF found, f, g, s
    <3>1. \E i \in found : \A j \in found : f[i] < f[j] \/ (f[i] = f[j] /\ g[i] <= g[j])
      BY <1>5, <1>7, LeastPair
    <3>2. \E i \in found : \A j \in found :
            At(s(i)) < At(s(j)) \/ (At(s(i)) = At(s(j)) /\ s(i).place <= s(j).place)
      BY <2>2, <3>1
    <3> QED
      BY <3>2
  <2> HIDE DEF nearest, found
  <2> QED
    BY <1>3, <1>4, <2>1, <2>3
<1> QED
  BY <1>6, <1>7

LEMMA SpecialLength ==
  ASSUME OuterType
  PROVE  Len(special.text) \in Nat
<1>1. CASE special = NoSpecial
  <2>1. special.text = <<>>
    BY <1>1 DEF NoSpecial
  <2> QED
    BY <2>1
<1>2. CASE special # NoSpecial
  <2>1. PICK i \in DOMAIN vocab.specials : special = vocab.specials[i]
    BY <1>2 DEF OuterType
  <2>2. special.text \in Seq(Bytes \cup {"0x"})
    <3>1. file \in DOMAIN Gguf /\ i \in DOMAIN Vocabularies[file].specials
      BY DEF OuterType, vocab
    <3> QED
      BY <2>1, <3>1, SpecialType DEF vocab
  <2> QED
    BY <2>2, LenProperties
<1> QED
  BY <1>1, <1>2

LEMMA InitOuter ==
  ASSUME Init PROVE OuterType
<1>1. <<>> \in Seq(Bytes) /\ 0 \in Nat
  OBVIOUS
<1> QED
  BY <1>1 DEF Init, OuterType

LEMMA NextOuter ==
  ASSUME OuterType, [Next]_vars
  PROVE  OuterType'
<1>1. file' = file /\ call' = call /\ vocab' = vocab
  BY DEF Next, vars, vocab, Load, Split, TextEnds, Escape, RawEnds, NextSegment, CutCharacter,
         FillQueue, PopStale, PopMerge, MergeEnds, EmitSymbol, SegmentEnds, CheckLabel, Finished
<1> DEFINE Special == special = NoSpecial
                      \/ \E i \in DOMAIN vocab.specials : special = vocab.specials[i]
<1>2. Special' <=> (special' = NoSpecial
                    \/ \E i \in DOMAIN vocab.specials : special' = vocab.specials[i])
  BY <1>1
<1>3. file \in DOMAIN Gguf /\ call \in Calls /\ Special
  BY DEF OuterType
<1> HIDE DEF Special
<1>4. /\ position \in Nat /\ raw \in Seq(Bytes) /\ rest \in Seq(Bytes)
      /\ segment \in Seq(Bytes)
      /\ pc = "load" => output = <<>>
      /\ pc \in {"cut", "merge", "emit"} => segment # <<>>
  BY DEF OuterType
<1> SUFFICES /\ position' \in Nat /\ raw' \in Seq(Bytes) /\ rest' \in Seq(Bytes) /\ Special'
             /\ segment' \in Seq(Bytes)
             /\ pc' = "load" => output' = <<>>
             /\ pc' \in {"cut", "merge", "emit"} => segment' # <<>>
  BY <1>1, <1>3 DEF OuterType, Special
<1>5. special' = special => Special'
  BY <1>2, <1>3 DEF Special
<1>6. CASE Split
  <2>1. /\ NextSpecial = NoSpecial
           \/ \E i \in DOMAIN vocab.specials : NextSpecial = vocab.specials[i]
        /\ StretchEnd \in 0 .. Len(call.text)
    BY <1>3, <1>4, NextSpecialType
  <2>2. position' = StretchEnd /\ special' = NextSpecial /\ rest' = <<>>
        /\ raw' = SubSeq(call.text, position + 1, StretchEnd)
        /\ pc' = "escape" /\ segment' = segment
    BY <1>6 DEF Split, merging
  <2>3. call.text \in Seq(Bytes) /\ Len(call.text) \in Nat
    BY <1>3, TokenizerAssumption, LenProperties
  <2>4. raw' \in Seq(Bytes)
    <3> DEFINE e == StretchEnd
    <3>1. e \in 0 .. Len(call.text)
      BY <2>1
    <3> HIDE DEF e
    <3>2. position + 1 \in Int /\ e \in Int
      BY <1>4, <2>3, <3>1
    <3>3. \A i \in position + 1 .. e : call.text[i] \in Bytes
      BY <1>4, <2>3, <3>1
    <3>4. SubSeq(call.text, position + 1, e) \in Seq(Bytes)
      BY <3>2, <3>3, SubSeqProperties
    <3> QED
      BY <2>2, <3>4 DEF e
  <2>5. position' \in Nat
    BY <2>1, <2>2, <2>3
  <2>6. Special'
    BY <1>2, <2>1, <2>2
  <2> QED
    BY <1>4, <2>2, <2>4, <2>5, <2>6
<1>7. CASE Escape
  <2>1. /\ position' = position /\ special' = special /\ segment' = segment
        /\ pc' \in {"raw", "escape"}
    BY <1>7 DEF Escape, merging
  <2>2. raw' \in Seq(Bytes) /\ rest' \in Seq(Bytes)
    <3>1. CASE raw = <<>>
      BY <1>4, <1>7, <3>1 DEF Escape
    <3>2. CASE raw # <<>>
      <4>1. rest' = rest \o Escaped(Head(raw)) /\ raw' = Tail(raw)
        BY <1>7, <3>2 DEF Escape
      <4>2. Head(raw) \in Bytes /\ Tail(raw) \in Seq(Bytes)
        BY <1>4, <3>2, HeadTailProperties
      <4>3. Escaped(Head(raw)) \in Seq(Bytes)
        BY <4>2, EscapedType
      <4> QED
        BY <1>4, <4>1, <4>2, <4>3, ConcatProperties
    <3> QED
      BY <3>1, <3>2
  <2> QED
    BY <1>4, <1>5, <2>1, <2>2
<1>8. CASE RawEnds
  <2>1. Len(special.text) \in Nat
    BY SpecialLength
  <2> QED
    BY <1>4, <1>5, <1>8, <2>1 DEF RawEnds, merging
<1>9. CASE NextSegment
  <2>1. /\ position' = position /\ raw' = raw /\ special' = special
        /\ segment' = FirstRun(rest) /\ rest # <<>>
        /\ rest' = SubSeq(rest, Len(segment') + 1, Len(rest))
        /\ pc' = "cut" \/ (pc' = pc /\ pc = "raw")
    BY <1>9 DEF NextSegment
  <2>2. FirstRun(rest) \in Seq(Bytes) /\ FirstRun(rest) # <<>> /\ Len(FirstRun(rest)) \in Nat
    BY <1>4, <2>1, FirstRunType
  <2>3. rest' \in Seq(Bytes)
    <3> DEFINE m == Len(FirstRun(rest))
    <3>1. m \in Nat /\ rest' = SubSeq(rest, m + 1, Len(rest)) /\ Len(rest) \in Nat
      BY <1>4, <2>1, <2>2, LenProperties
    <3> HIDE DEF m
    <3>2. \A i \in m + 1 .. Len(rest) : rest[i] \in Bytes
      BY <1>4, <3>1
    <3>3. m + 1 \in Int /\ Len(rest) \in Int
      BY <3>1
    <3>4. SubSeq(rest, m + 1, Len(rest)) \in Seq(Bytes)
      BY <3>2, <3>3, SubSeqProperties
    <3> QED
      BY <3>1, <3>4
  <2> QED
    BY <1>4, <1>5, <2>1, <2>2, <2>3
<1>10. CASE Load
  BY <1>4, <1>5, <1>10 DEF Load, merging
<1>11. CASE TextEnds \/ SegmentEnds \/ CheckLabel
  BY <1>4, <1>5, <1>11 DEF TextEnds, SegmentEnds, CheckLabel, tokenizing, merging
<1>12. CASE CutCharacter \/ FillQueue \/ PopStale \/ PopMerge \/ MergeEnds \/ EmitSymbol
  BY <1>4, <1>5, <1>12 DEF CutCharacter, FillQueue, PopStale, PopMerge, MergeEnds, EmitSymbol
<1>13. CASE Finished \/ UNCHANGED vars
  BY <1>4, <1>5, <1>13 DEF Finished, vars, tokenizing, merging
<1> QED
  BY <1>6, <1>7, <1>8, <1>9, <1>10, <1>11, <1>12, <1>13 DEF Next

LEMMA InitSegment ==
  ASSUME Init PROVE SegmentInv
BY DEF Init, SegmentInv

\* What the candidates and their completeness say of the next state, in the same segment.
LEMMA SameSegment ==
  ASSUME segment' = segment, vocab' = vocab
  PROVE  /\ (\A b \in queue : Candidate(symbols, b))'
              <=> \A b \in queue' : Candidate(symbols', b)
         /\ Complete(symbols, queue)' <=> Complete(symbols', queue')
<1>1. Complete(symbols, queue)' <=> Complete(symbols', queue')
  BY DEF Complete, Bigrams, TextOf
<1>2. (\A b \in queue : Candidate(symbols, b))' <=> \A b \in queue' : Candidate(symbols', b)
  BY DEF Candidate, Fresh, Pair, Second, TextOf
<1> QED
  BY <1>1, <1>2

LEMMA CutStep ==
  ASSUME OuterType, NEW n \in Nat, Cutting(segment, symbols, n), CutCharacter
  PROVE  Cutting(segment, symbols', n + 1)
<1> DEFINE size == SizeAfter(segment, Cut)
           new == [previous |-> Count - 1,
                   next |-> IF Cut + size = Len(segment) THEN End ELSE Count + 1,
                   offset |-> Cut, size |-> size]
<1>1. segment \in Seq(Bytes) /\ Len(segment) \in Nat
  BY LenProperties DEF OuterType
<1>2. DOMAIN symbols = 0 .. n - 1
  BY DEF Cutting
<1>3. Count = n
  <2>1. Cardinality(0 .. n - 1) = IF 0 > n - 1 THEN 0 ELSE (n - 1) - 0 + 1
    <3>1. 0 \in Int /\ n - 1 \in Int
      OBVIOUS
    <3> QED
      BY <3>1, FS_Interval
  <2>2. Cardinality(0 .. n - 1) = n
    BY <2>1
  <2> QED
    BY <1>2, <2>2 DEF Count
<1>4. Cut = IF n = 0 THEN 0 ELSE EndOf(symbols, n - 1)
  BY <1>3 DEF Cut
<1>5. Cut \in Nat
  <2>1. CASE n = 0
    BY <1>4, <2>1
  <2>2. CASE n # 0
    <3>1. n - 1 \in 0 .. n - 1
      BY <2>2
    <3>2. symbols[n - 1] \in Symbols
      BY <3>1 DEF Cutting, IsCharacter
    <3>3. EndOf(symbols, n - 1) \in Nat
      BY <3>2, FieldTypes
    <3> QED
      BY <1>4, <2>2, <3>3
  <2> QED
    BY <2>1, <2>2
<1>6. Cut < Len(segment)
      /\ symbols' = [i \in 0 .. Count |-> IF i = Count THEN new ELSE symbols[i]]
  BY DEF CutCharacter
<1>7. size \in Nat
  BY <1>1, <1>5, <1>6, SizeBounds
<1> HIDE DEF size
<1>8. /\ new \in Symbols /\ new.previous = n - 1 /\ new.offset = Cut /\ new.size = size
      /\ new.next = IF Cut + size = Len(segment) THEN End ELSE n + 1
  BY <1>3, <1>5, <1>7 DEF Symbols, End
<1>9. symbols' = [i \in 0 .. n |-> IF i = n THEN new ELSE symbols[i]]
  BY <1>3, <1>6
<1> HIDE DEF new
<1> QED
  BY <1>1, <1>4, <1>5, <1>6, <1>8, <1>9, CutOne DEF size

\* When no byte is left the symbols that are cut off are all of the segment.
LEMMA CutWhole ==
  ASSUME OuterType, pc = "cut", NEW n \in Nat, Cutting(segment, symbols, n),
         Cut = Len(segment)
  PROVE  /\ Listed(segment, symbols, n)
         /\ \A i \in 0 .. n - 1 : symbols[i].next # End => symbols[i].next = i + 1
<1>1. segment \in Seq(Bytes) /\ segment # <<>>
  BY DEF OuterType
<1>2. DOMAIN symbols = 0 .. n - 1
  BY DEF Cutting
<1>3. Count = n
  <2>1. Cardinality(0 .. n - 1) = IF 0 > n - 1 THEN 0 ELSE (n - 1) - 0 + 1
    <3>1. 0 \in Int /\ n - 1 \in Int
      OBVIOUS
    <3> QED
      BY <3>1, FS_Interval
  <2>2. Cardinality(0 .. n - 1) = n
    BY <2>1
  <2> QED
    BY <1>2, <2>2 DEF Count
<1>4. Len(segment) = IF n = 0 THEN 0 ELSE EndOf(symbols, n - 1)
  BY <1>3 DEF Cut
<1> QED
  BY <1>1, <1>4, CutAll

LEMMA NextInSegment ==
  ASSUME OuterType, SegmentInv, [Next]_vars
  PROVE  SegmentInv'
<1>1. file \in DOMAIN Gguf /\ segment \in Seq(Bytes)
  BY DEF OuterType
<1>2. CASE Load \/ Split \/ TextEnds \/ Escape \/ RawEnds \/ SegmentEnds \/ CheckLabel
  <2>1. pc' \notin {"cut", "merge", "emit"}
    BY <1>2 DEF Load, Split, TextEnds, Escape, RawEnds, SegmentEnds, CheckLabel
  <2> QED
    BY <2>1 DEF SegmentInv
<1>3. CASE NextSegment
  <2>1. pc' \notin {"merge", "emit"} /\ symbols' = <<>>
    BY <1>3 DEF NextSegment
  <2>2. Cutting(segment', symbols', 0)
    BY <2>1 DEF Cutting, Ordered
  <2>3. Cutting(segment, symbols, 0)'
    BY <2>2
  <2> QED
    BY <2>1, <2>3 DEF SegmentInv
<1>4. CASE CutCharacter
  <2>1. pc' = "cut" /\ pc = "cut" /\ segment' = segment
    BY <1>4 DEF CutCharacter
  <2>2. PICK n \in Nat : Cutting(segment, symbols, n)
    BY <2>1 DEF SegmentInv
  <2>3. Cutting(segment, symbols', n + 1)
    BY <1>4, <2>2, CutStep
  <2>4. n + 1 \in Nat /\ Cutting(segment', symbols', n + 1)
    BY <2>1, <2>3
  <2> QED
    BY <2>1, <2>4 DEF SegmentInv
<1>5. CASE FillQueue
  <2>1. /\ pc = "cut" /\ pc' = "merge" /\ segment' = segment /\ symbols' = symbols
        /\ file' = file /\ Cut = Len(segment)
        /\ queue' = UNION {Bigrams(symbols, i - 1, i) : i \in DOMAIN symbols \ {0}}
    BY <1>5 DEF FillQueue
  <2>2. PICK n \in Nat : Cutting(segment, symbols, n)
    BY <2>1 DEF SegmentInv
  <2>3. /\ Listed(segment, symbols, n)
        /\ \A i \in 0 .. n - 1 : symbols[i].next # End => symbols[i].next = i + 1
    BY <2>1, <2>2, CutWhole
  <2>4. (\A b \in queue' : Candidate(symbols, b)) /\ Complete(symbols, queue')
    <3>1. segment # <<>>
      BY <2>1 DEF OuterType
    <3> QED
      BY <1>1, <2>1, <2>2, <2>3, <3>1, FilledQueue
  <2>5. (\A b \in queue : Candidate(symbols, b))' /\ Complete(symbols, queue)'
    <3>1. vocab' = vocab
      BY <2>1 DEF vocab
    <3> QED
      BY <2>1, <2>4, <3>1, SameSegment
  <2>6. Listed(segment', symbols', n)
    BY <2>1, <2>3
  <2> QED
    BY <2>1, <2>5, <2>6 DEF SegmentInv
<1>6. CASE PopStale
  <2>1. /\ pc = "merge" /\ pc' = "merge" /\ segment' = segment /\ symbols' = symbols
        /\ file' = file /\ queue' = queue \ {Top} /\ Stale(Top)
    BY <1>6 DEF PopStale
  <2>2. PICK n \in Nat : Listed(segment, symbols, n)
    BY <2>1 DEF SegmentInv
  <2>3. (\A b \in queue : Candidate(symbols, b)) /\ Complete(symbols, queue)
    BY <2>1 DEF SegmentInv
  <2>4. (\A b \in queue' : Candidate(symbols, b)) /\ Complete(symbols, queue')
    BY <1>1, <2>1, <2>2, <2>3, CompleteWithout
  <2>5. (\A b \in queue : Candidate(symbols, b))' /\ Complete(symbols, queue)'
    <3>1. vocab' = vocab
      BY <2>1 DEF vocab
    <3> QED
      BY <2>1, <2>4, <3>1, SameSegment
  <2>6. Listed(segment', symbols', n)
    BY <2>1, <2>2
  <2> QED
    BY <2>1, <2>5, <2>6 DEF SegmentInv
<1>7. CASE PopMerge
  <2>1. /\ pc = "merge" /\ pc' = "merge" /\ segment' = segment /\ file' = file
        /\ queue # {} /\ ~Stale(Top) /\ symbols' = Joined(Top)
    BY <1>7 DEF PopMerge
  <2>2. queue' = (queue \ {Top}) \cup Bigrams(symbols', symbols'[Top.left].previous, Top.left)
                   \cup Bigrams(symbols', Top.left, symbols'[Top.left].next)
    BY <1>7 DEF PopMerge
  <2>3. PICK n \in Nat : Listed(segment, symbols, n)
    BY <2>1 DEF SegmentInv
  <2>4. (\A b \in queue : Candidate(symbols, b)) /\ Complete(symbols, queue)
    BY <2>1 DEF SegmentInv
  <2>5. /\ Listed(segment, symbols', n)
        /\ \A b \in queue' : Candidate(symbols', b)
        /\ Complete(symbols', queue')
    BY <1>1, <2>1, <2>2, <2>3, <2>4, MergeStep
  <2>6. (\A b \in queue : Candidate(symbols, b))' /\ Complete(symbols, queue)'
    <3>1. vocab' = vocab
      BY <2>1 DEF vocab
    <3> QED
      BY <2>1, <2>5, <3>1, SameSegment
  <2>7. Listed(segment', symbols', n)
    BY <2>1, <2>5
  <2> QED
    BY <2>1, <2>6, <2>7 DEF SegmentInv
<1>8. CASE MergeEnds
  <2>1. /\ pc = "merge" /\ pc' = "emit" /\ segment' = segment /\ symbols' = symbols
        /\ index' = 0
    BY <1>8 DEF MergeEnds
  <2>2. PICK n \in Nat : Listed(segment, symbols, n)
    BY <2>1 DEF SegmentInv
  <2>3. 0 \in DOMAIN symbols /\ symbols[0].size > 0
    BY <2>2 DEF Listed
  <2>4. Listed(segment', symbols', n)
    BY <2>1, <2>2
  <2> QED
    BY <2>1, <2>3, <2>4 DEF SegmentInv
<1>9. CASE EmitSymbol
  <2>1. /\ pc = "emit" /\ segment' = segment /\ symbols' = symbols /\ index # End
        /\ pc' = "failed" \/ (pc' = "emit" /\ index' = symbols[index].next)
    BY <1>9 DEF EmitSymbol
  <2>2. PICK n \in Nat : Listed(segment, symbols, n)
    BY <2>1 DEF SegmentInv
  <2>3. index \in 0 .. n - 1 /\ symbols[index].size > 0
    BY <2>1, <2>2 DEF SegmentInv, Listed
  <2>4. symbols[index].next = End
        \/ (symbols[index].next \in DOMAIN symbols /\ symbols[symbols[index].next].size > 0)
    BY <2>2, <2>3, Neighbours DEF Listed
  <2>5. Listed(segment', symbols', n)
    BY <2>1, <2>2
  <2> QED
    BY <2>1, <2>4, <2>5 DEF SegmentInv
<1>10. CASE Finished \/ UNCHANGED vars
  <2>1. /\ pc' = pc /\ segment' = segment /\ symbols' = symbols /\ queue' = queue
        /\ index' = index /\ file' = file
    BY <1>10 DEF Finished, vars, tokenizing, merging
  <2>2. vocab' = vocab
    BY <2>1 DEF vocab
  <2>3. (\A b \in queue : Candidate(symbols, b)) /\ Complete(symbols, queue)
        => (\A b \in queue : Candidate(symbols, b))' /\ Complete(symbols, queue)'
    BY <2>1, <2>2, SameSegment
  <2> QED
    BY <2>1, <2>3 DEF SegmentInv
<1> QED
  BY <1>2, <1>3, <1>4, <1>5, <1>6, <1>7, <1>8, <1>9, <1>10 DEF Next

\* Between the steps of the merge loop the symbols that are alive tile the segment, and
\* the queue holds every pair of neighbours that has a rank.
THEOREM MergeInvariant == Spec => []Inv
<1>1. Init => Inv
  BY InitOuter, InitSegment DEF Inv
<1>2. Inv /\ [Next]_vars => Inv'
  BY NextOuter, NextInSegment DEF Inv
<1> QED
  BY <1>1, <1>2, PTL DEF Spec

\* ---- the greedy rule -------------------------------------------------------------

\* Both modules read the same of a vocabulary.
LEMMA SameOperators ==
  /\ \A v, piece : Greedy!PieceIds(v, piece) = PieceIds(v, piece)
  /\ \A bytes, n : Greedy!SizeAfter(bytes, n) = SizeAfter(bytes, n)
  /\ \A s : Greedy!ToSet(s) = ToSet(s)
  /\ Greedy!NoId = NoId
<1>1. \A bytes, n : Greedy!SizeAfter(bytes, n) = SizeAfter(bytes, n)
  BY DEF Greedy!SizeAfter, SizeAfter, Greedy!CharacterSize, CharacterSize
<1>2. \A s : Greedy!ToSet(s) = ToSet(s)
  BY DEF Greedy!ToSet, ToSet
<1>3. Greedy!NoId = NoId
  BY DEF Greedy!NoId, NoId
<1>4. \A v, piece : Greedy!PieceIds(v, piece) = PieceIds(v, piece)
  <2>1. \A v, piece : Greedy!Known(v, piece) = Known(v, piece)
    BY DEF Greedy!Known, Known, Greedy!ToSet, ToSet
  <2>2. \A v, piece : Greedy!Id(v, piece) = Id(v, piece)
    BY DEF Greedy!Id, Id
  <2>3. \A byte : Greedy!BytePiece(byte) = BytePiece(byte)
    BY DEF Greedy!BytePiece, BytePiece
  <2> QED
    BY <1>3, <2>1, <2>2, <2>3 DEF Greedy!PieceIds, PieceIds
<1> QED
  BY <1>1, <1>2, <1>3, <1>4

\* What a segment that is being merged or written is to the rule.
LEMMA CutFacts ==
  ASSUME segment \in Seq(Bytes), NEW n \in Nat, Listed(segment, symbols, n),
         NEW i \in 0 .. n - 1, symbols[i].size > 0
  PROVE  /\ symbols[i].offset \in Cuts /\ EndOf(symbols, i) \in Cuts
         /\ symbols[i].offset \in Nat /\ EndOf(symbols, i) \in Nat
         /\ symbols[i].offset < EndOf(symbols, i)
         /\ EndOf(symbols, i) <= Len(segment) /\ Len(segment) \in Nat
         /\ \A c \in Cuts : c \in Nat
              /\ (c > symbols[i].offset => EndOf(symbols, i) <= c)
<1>1. DOMAIN symbols = 0 .. n - 1 /\ \A j \in 0 .. n - 1 : symbols[j] \in Symbols
  BY DEF Listed
<1>2. \A j \in 0 .. n - 1 :
        /\ EndOf(symbols, j) = symbols[j].offset + symbols[j].size
        /\ symbols[j].offset \in Nat /\ symbols[j].size \in Nat /\ EndOf(symbols, j) \in Nat
  BY <1>1, FieldTypes
<1>3. EndOf(symbols, i) <= Len(segment) /\ Len(segment) \in Nat /\ NextLinked(segment, symbols, i)
  BY LenProperties DEF Listed, Linked
<1>4. symbols[i].offset < EndOf(symbols, i)
  BY <1>2
<1>5. symbols[i].offset \in Cuts
  BY <1>1 DEF Cuts, Alive
<1>6. EndOf(symbols, i) \in Cuts
  BY <1>1, <1>3 DEF NextLinked, Cuts, Alive
<1>7. ASSUME NEW c \in Cuts
      PROVE  c \in Nat /\ (c > symbols[i].offset => EndOf(symbols, i) <= c)
  <2>1. CASE c = Len(segment)
    BY <1>3, <2>1
  <2>2. CASE \E k \in 0 .. n - 1 : symbols[k].size > 0 /\ c = symbols[k].offset
    <3>1. PICK k \in 0 .. n - 1 : symbols[k].size > 0 /\ c = symbols[k].offset
      BY <2>2
    <3>2. CASE i < k
      <4>1. EndOf(symbols, i) <= symbols[k].offset
        BY <3>1, <3>2 DEF Listed, Ordered
      <4> QED
        BY <1>2, <3>1, <4>1
    <3>3. CASE i = k
      BY <1>2, <3>1, <3>3
    <3>4. CASE k < i
      <4>1. EndOf(symbols, k) <= symbols[i].offset
        BY <3>1, <3>4 DEF Listed, Ordered
      <4>2. c < EndOf(symbols, k)
        BY <1>2, <3>1
      <4>3. c \in Nat /\ symbols[i].offset \in Nat /\ EndOf(symbols, k) \in Nat
        BY <1>2, <3>1
      <4> QED
        BY <4>1, <4>2, <4>3
    <3> QED
      BY <3>2, <3>3, <3>4
  <2> QED
    BY <1>1, <2>1, <2>2 DEF Cuts, Alive
<1> QED
  BY <1>2, <1>3, <1>4, <1>5, <1>6, <1>7

LEMMA NextCutOf ==
  ASSUME InSegment, segment \in Seq(Bytes), NEW n \in Nat, Listed(segment, symbols, n),
         NEW i \in 0 .. n - 1, symbols[i].size > 0
  PROVE  /\ Greedy!NextCut(symbols[i].offset) = EndOf(symbols, i)
         /\ Greedy!Part(symbols[i].offset) = TextOf(symbols, i)
<1> DEFINE c == symbols[i].offset
           e == EndOf(symbols, i)
           Is(d) == d > c /\ \A x \in Cuts : x > c => d <= x
<1>1. /\ c \in Nat /\ e \in Cuts /\ e \in Nat /\ c < e
      /\ \A x \in Cuts : x \in Nat /\ (x > c => e <= x)
  BY CutFacts
<1>2. Greedy!NextCut(c) = CHOOSE d \in Cuts : Is(d)
  BY DEF Greedy!NextCut
<1>3. e = symbols[i].offset + symbols[i].size
  BY DEF EndOf
<1> HIDE DEF c, e
<1>4. Is(e)
  BY <1>1
<1>5. \A d \in Cuts : Is(d) => d = e
  BY <1>1
<1> HIDE DEF Is
<1>6. (CHOOSE d \in Cuts : Is(d)) = e
  BY <1>1, <1>4, <1>5
<1>7. Greedy!NextCut(c) = e
  BY <1>2, <1>6
<1>8. Greedy!Part(c) = SubSeq(segment, c + 1, e)
  BY <1>7 DEF Greedy!Part
<1>9. Greedy!Part(c) = TextOf(symbols, i)
  BY <1>3, <1>8 DEF TextOf, c
<1> QED
  BY <1>7, <1>9 DEF c, e

\* A cut is ranked where the symbol that begins there and the next one have a rank.
LEMMA RankedOf ==
  ASSUME InSegment, segment \in Seq(Bytes), NEW n \in Nat, Listed(segment, symbols, n),
         NEW i \in 0 .. n - 1, symbols[i].size > 0
  PROVE  LET j == symbols[i].next
             pair == <<TextOf(symbols, i), TextOf(symbols, j)>>
         IN /\ Greedy!Ranked(symbols[i].offset) <=> (j # End /\ pair \in DOMAIN vocab.ranks)
            /\ j # End => Greedy!Rank(symbols[i].offset) = vocab.ranks[pair]
<1> DEFINE c == symbols[i].offset
           j == symbols[i].next
           pair == <<TextOf(symbols, i), TextOf(symbols, j)>>
<1>1. Greedy!NextCut(c) = EndOf(symbols, i) /\ Greedy!Part(c) = TextOf(symbols, i)
  BY NextCutOf
<1>2. c \in Nat /\ EndOf(symbols, i) \in Nat /\ c < EndOf(symbols, i)
      /\ EndOf(symbols, i) <= Len(segment) /\ Len(segment) \in Nat
  BY CutFacts
<1>3. Greedy!Ranked(c) <=> /\ c < Len(segment)
                           /\ EndOf(symbols, i) < Len(segment)
                           /\ <<Greedy!Part(c), Greedy!Part(EndOf(symbols, i))>>
                                \in DOMAIN vocab.ranks
  BY <1>1 DEF Greedy!Ranked
<1>4. Greedy!Rank(c) = vocab.ranks[<<Greedy!Part(c), Greedy!Part(EndOf(symbols, i))>>]
  BY <1>1 DEF Greedy!Rank
<1>5. CASE j = End
  <2>1. EndOf(symbols, i) = Len(segment)
    <3>1. NextLinked(segment, symbols, i) /\ End \notin DOMAIN symbols
      BY DEF Listed, Linked, End
    <3> QED
      BY <1>5, <3>1 DEF NextLinked
  <2>2. ~(EndOf(symbols, i) < Len(segment))
    BY <1>2, <2>1
  <2> QED
    BY <1>3, <1>5, <2>2
<1>6. CASE j # End
  <2>1. j \in 0 .. n - 1 /\ symbols[j].size > 0 /\ symbols[j].offset = EndOf(symbols, i)
    BY <1>6, Neighbours
  <2> HIDE DEF j
  <2>2. Greedy!Part(EndOf(symbols, i)) = TextOf(symbols, j)
    BY <2>1, NextCutOf
  <2>3. EndOf(symbols, i) < Len(segment)
    <3>1. symbols[j].offset < EndOf(symbols, j) /\ EndOf(symbols, j) <= Len(segment)
          /\ EndOf(symbols, j) \in Nat
      BY <2>1, CutFacts
    <3> QED
      BY <1>2, <2>1, <3>1
  <2>4. c < Len(segment)
    BY <1>2
  <2> QED
    BY <1>1, <1>3, <1>4, <1>6, <2>2, <2>3, <2>4 DEF j
<1> QED
  BY <1>5, <1>6

LEMMA RefinesInit ==
  ASSUME Init PROVE Greedy!MergeInit
BY DEF Init, Greedy!MergeInit, InSegment

\* Outside of tokenize_segment at most one id is written at a time.
LEMMA RefinesBetween ==
  ASSUME OuterType, file' = file,
         pc \notin {"merge", "emit", "failed"}, pc' \notin {"merge", "emit"},
         output' = output \/ \E id \in DOMAIN vocab.pieces : output' = Append(output, id)
  PROVE  Greedy!WriteBetween
BY DEF Greedy!WriteBetween, InSegment, vocab

LEMMA RefinesOuter ==
  ASSUME OuterType,
         Load \/ Split \/ TextEnds \/ Escape \/ RawEnds \/ NextSegment \/ CutCharacter \/ CheckLabel
  PROVE  Greedy!WriteBetween
<1>1. file' = file /\ file \in DOMAIN Gguf
  BY DEF OuterType, Load, Split, TextEnds, Escape, RawEnds, NextSegment, CutCharacter, CheckLabel
<1>2. pc \notin {"merge", "emit", "failed"} /\ pc' \notin {"merge", "emit"}
  BY DEF Load, Split, TextEnds, Escape, RawEnds, NextSegment, CutCharacter, CheckLabel
<1>3. output' = output \/ \E id \in DOMAIN vocab.pieces : output' = Append(output, id)
  <2>1. CASE Load
    <3>1. output = <<>>
      BY <2>1 DEF Load, OuterType
    <3>2. CASE LoadError(Gguf[file]) \/ ~call.add_bos
      BY <2>1, <3>1, <3>2 DEF Load
    <3>3. CASE ~LoadError(Gguf[file]) /\ call.add_bos
      <4>1. output' = <<vocab.bos>>
        BY <2>1, <3>3 DEF Load
      <4>2. vocab.bos = Gguf[file].bos /\ vocab.pieces = Gguf[file].pieces
        BY <1>1, <3>3 DEF vocab, Vocabularies
      <4>3. Gguf[file].bos \in DOMAIN Gguf[file].pieces
        BY <3>3 DEF LoadError
      <4>4. output' = Append(output, vocab.bos)
        BY <3>1, <4>1
      <4> QED
        BY <4>2, <4>3, <4>4
    <3> QED
      BY <3>2, <3>3
  <2>2. CASE RawEnds
    <3>1. CASE special = NoSpecial
      BY <2>2, <3>1 DEF RawEnds
    <3>2. CASE special # NoSpecial
      <4>1. output' = Append(output, special.id)
        BY <2>2, <3>2 DEF RawEnds
      <4>2. PICK i \in DOMAIN vocab.specials : special = vocab.specials[i]
        BY <3>2 DEF OuterType
      <4>3. special.id \in DOMAIN vocab.pieces
        BY <1>1, <4>2, SpecialType DEF vocab
      <4> QED
        BY <4>1, <4>3
    <3> QED
      BY <3>1, <3>2
  <2>3. CASE NextSegment
    <3>1. CASE output' = output
      BY <3>1
    <3>2. CASE output' # output
      <4>1. Known(vocab, segment') /\ output' = Append(output, Id(vocab, segment'))
        BY <2>3, <3>2 DEF NextSegment
      <4>2. Id(vocab, segment') \in DOMAIN vocab.pieces
        BY <4>1 DEF Known, Id, ToSet
      <4> QED
        BY <4>1, <4>2
    <3> QED
      BY <3>1, <3>2
  <2>4. CASE Split \/ TextEnds \/ Escape \/ CutCharacter \/ CheckLabel
    BY <2>4 DEF Split, TextEnds, Escape, CutCharacter, CheckLabel, tokenizing
  <2> QED
    BY <2>1, <2>2, <2>3, <2>4
<1> QED
  BY <1>1, <1>2, <1>3, RefinesBetween

\* The rule begins with a segment when it is cut up.
LEMMA RefinesFill ==
  ASSUME Inv, FillQueue
  PROVE  Greedy!BeginSegment
<1>1. /\ pc = "cut" /\ pc' = "merge" /\ segment' = segment /\ symbols' = symbols
      /\ file' = file /\ output' = output /\ Cut = Len(segment)
  BY DEF FillQueue
<1>2. segment \in Seq(Bytes) /\ segment # <<>> /\ OuterType
  BY <1>1 DEF Inv, OuterType
<1>3. PICK n \in Nat : Cutting(segment, symbols, n)
  BY <1>1 DEF Inv, SegmentInv
<1>4. Listed(segment, symbols, n)
  BY <1>1, <1>2, <1>3, CutWhole
<1>5. DOMAIN symbols = 0 .. n - 1 /\ Len(segment) \in Nat /\ n > 0 /\ symbols[0].offset = 0
  BY <1>2, <1>4, LenProperties DEF Listed
<1>6. \A i \in 0 .. n - 1 : symbols[i].size > 0
        /\ EndOf(symbols, i) = symbols[i].offset + SizeAfter(segment, symbols[i].offset)
  BY <1>3 DEF Cutting, IsCharacter, EndOf
<1>7. {0, Len(segment)} \subseteq Cuts
  BY <1>5, <1>6 DEF Cuts, Alive
<1>8. Cuts \subseteq 0 .. Len(segment)
  <2> SUFFICES ASSUME NEW c \in Cuts PROVE c \in 0 .. Len(segment)
    OBVIOUS
  <2>1. CASE c = Len(segment)
    BY <1>5, <2>1
  <2>2. CASE c # Len(segment)
    <3>1. PICK i \in 0 .. n - 1 : c = symbols[i].offset /\ symbols[i].size > 0
      BY <1>5, <2>2 DEF Cuts, Alive
    <3>2. c \in Nat /\ EndOf(symbols, i) \in Nat /\ c < EndOf(symbols, i)
          /\ EndOf(symbols, i) <= Len(segment)
      BY <1>2, <1>4, <3>1, CutFacts
    <3> QED
      BY <1>5, <3>2
  <2> QED
    BY <2>1, <2>2
<1>9. ASSUME NEW c \in Cuts, c < Len(segment)
      PROVE  /\ c + SizeAfter(segment, c) \in Cuts
             /\ \A d \in Cuts : d > c => d >= c + SizeAfter(segment, c)
  <2>1. c # Len(segment)
    BY <1>5, <1>9
  <2>2. PICK i \in 0 .. n - 1 : c = symbols[i].offset /\ symbols[i].size > 0
    BY <1>5, <2>1 DEF Cuts, Alive
  <2>3. EndOf(symbols, i) = c + SizeAfter(segment, c)
    BY <1>6, <2>2
  <2>4. /\ EndOf(symbols, i) \in Cuts /\ EndOf(symbols, i) \in Nat
        /\ \A d \in Cuts : d \in Nat /\ (d > c => EndOf(symbols, i) <= d)
    BY <1>2, <1>4, <2>2, CutFacts
  <2> QED
    BY <2>3, <2>4
<1>10. Greedy!CutsOfCharacters(segment, Cuts)
  BY <1>7, <1>8, <1>9, SameOperators DEF Greedy!CutsOfCharacters
<1>11. Cuts' = Cuts
  BY <1>1 DEF Cuts, Alive
<1>12. Greedy!CutsOfCharacters(segment', Cuts')
  BY <1>1, <1>10, <1>11
<1> QED
  BY <1>1, <1>2, <1>12 DEF Greedy!BeginSegment, InSegment, vocab

\* The merged pair is the one that the rule chooses.
LEMMA TopIsBest ==
  ASSUME Inv, pc = "merge", queue # {}, ~Stale(Top)
  PROVE  LET c == symbols[Top.left].offset
         IN /\ c \in Greedy!RankedCuts
            /\ \A d \in Greedy!RankedCuts :
                 Greedy!Rank(c) < Greedy!Rank(d) \/ (Greedy!Rank(c) = Greedy!Rank(d) /\ c <= d)
            /\ Greedy!NextCut(c) = symbols[Top.right].offset
<1> DEFINE l == Top.left
           c == symbols[l].offset
<1>1. segment \in Seq(Bytes) /\ InSegment
  BY DEF Inv, OuterType, InSegment
<1>2. PICK n \in Nat : Listed(segment, symbols, n)
  BY DEF Inv, SegmentInv
<1>3. (\A b \in queue : Candidate(symbols, b)) /\ Complete(symbols, queue)
  BY DEF Inv, SegmentInv
<1>4. /\ Top \in queue /\ Candidate(symbols, Top)
      /\ \A b \in queue : Top.rank < b.rank \/ (Top.rank = b.rank /\ Top.left <= b.left)
  BY <1>2, <1>3, TopIsCandidate
<1>5. /\ l \in 0 .. n - 1 /\ Top.right \in 0 .. n - 1
      /\ symbols[l].size > 0 /\ symbols[l].next = Top.right
      /\ <<TextOf(symbols, l), TextOf(symbols, Top.right)>> \in DOMAIN vocab.ranks
      /\ Top.rank = vocab.ranks[<<TextOf(symbols, l), TextOf(symbols, Top.right)>>]
  BY <1>1, <1>2, <1>4, NotStale
<1>6. symbols[l].next # End
  BY <1>5 DEF End
<1>7. Greedy!Ranked(c) /\ Greedy!Rank(c) = Top.rank
  BY <1>1, <1>2, <1>5, <1>6, RankedOf
<1>8. c \in Greedy!RankedCuts
  <2>1. c \in Cuts
    BY <1>1, <1>2, <1>5, CutFacts
  <2> QED
    BY <1>1, <1>7, <2>1 DEF Greedy!RankedCuts
<1>9. Greedy!NextCut(c) = symbols[Top.right].offset
  <2>1. Greedy!NextCut(c) = EndOf(symbols, l)
    BY <1>1, <1>2, <1>5, NextCutOf
  <2>2. symbols[Top.right].offset = EndOf(symbols, l)
    BY <1>2, <1>5, <1>6, Neighbours
  <2> QED
    BY <2>1, <2>2
<1>10. ASSUME NEW d \in Greedy!RankedCuts
       PROVE  Greedy!Rank(c) < Greedy!Rank(d) \/ (Greedy!Rank(c) = Greedy!Rank(d) /\ c <= d)
  <2>1. d \in Cuts /\ Greedy!Ranked(d)
    BY <1>1, <1>10 DEF Greedy!RankedCuts
  <2>2. PICK i \in 0 .. n - 1 : d = symbols[i].offset /\ symbols[i].size > 0
    <3>1. d < Len(segment)
      BY <1>1, <2>1 DEF Greedy!Ranked
    <3>2. d # Len(segment)
      BY <1>1, <3>1, LenProperties
    <3> QED
      BY <1>2, <2>1, <3>2 DEF Cuts, Alive, Listed
  <2> DEFINE j == symbols[i].next
             pair == <<TextOf(symbols, i), TextOf(symbols, j)>>
  <2>3. j # End /\ pair \in DOMAIN vocab.ranks /\ Greedy!Rank(d) = vocab.ranks[pair]
    BY <1>1, <1>2, <2>1, <2>2, RankedOf
  <2>4. j \in 0 .. n - 1
    BY <1>2, <2>2, <2>3, Neighbours
  <2>5. PICK b \in Bigrams(symbols, i, j) : b.left = i /\ b.rank = vocab.ranks[pair]
    <3> HIDE DEF j
    <3>1. ~(i < 0 \/ j < 0)
      BY <2>4
    <3> QED
      BY <2>3, <3>1 DEF Bigrams
  <2>6. b \in queue
    BY <1>2, <1>3, <2>2, <2>3 DEF Complete, Listed
  <2>7. Top.rank < b.rank \/ (Top.rank = b.rank /\ l <= i)
    BY <1>4, <2>5, <2>6
  <2>8. l <= i => c <= d
    <3>1. CASE l = i
      <4>1. c \in Nat
        BY <1>1, <1>2, <1>5, CutFacts
      <4> QED
        BY <2>2, <3>1, <4>1
    <3>2. CASE l < i
      <4>1. EndOf(symbols, l) <= d
        BY <1>2, <1>5, <2>2, <3>2 DEF Listed, Ordered
      <4>2. c \in Nat /\ EndOf(symbols, l) \in Nat /\ c < EndOf(symbols, l)
        BY <1>1, <1>2, <1>5, CutFacts
      <4>3. d \in Nat
        BY <1>1, <1>2, <2>2, CutFacts
      <4> QED
        BY <4>1, <4>2, <4>3
    <3> QED
      BY <1>5, <3>1, <3>2
  <2> QED
    BY <1>7, <2>3, <2>5, <2>7, <2>8
<1> QED
  BY <1>8, <1>9, <1>10

LEMMA RefinesMerge ==
  ASSUME Inv, PopMerge
  PROVE  Greedy!MergeBest
<1> DEFINE l == Top.left
           r == Top.right
           c == symbols[l].offset
<1>1. /\ pc = "merge" /\ pc' = "merge" /\ segment' = segment /\ file' = file
      /\ output' = output /\ index' = index /\ queue # {} /\ ~Stale(Top)
      /\ symbols' = Joined(Top)
  BY DEF PopMerge
<1>2. queue' = (queue \ {Top}) \cup Bigrams(symbols', symbols'[Top.left].previous, Top.left)
                 \cup Bigrams(symbols', Top.left, symbols'[Top.left].next)
  BY DEF PopMerge
<1>3. segment \in Seq(Bytes) /\ file \in DOMAIN Gguf
  BY DEF Inv, OuterType
<1>4. PICK n \in Nat : Listed(segment, symbols, n)
  BY <1>1 DEF Inv, SegmentInv
<1>5. (\A b \in queue : Candidate(symbols, b)) /\ Complete(symbols, queue)
  BY <1>1 DEF Inv, SegmentInv
<1>6. Joins(symbols, symbols', l, r)
  BY <1>1, <1>2, <1>3, <1>4, <1>5, MergeStep
<1>7. /\ l \in 0 .. n - 1 /\ r \in 0 .. n - 1
      /\ symbols[l].size > 0 /\ symbols[r].size > 0 /\ symbols[l].next = r
  <2>1. Candidate(symbols, Top)
    BY <1>1, <1>4, <1>5, TopIsCandidate
  <2> QED
    BY <1>1, <1>3, <1>4, <2>1, NotStale
<1>8. /\ symbols'[l].size > 0 /\ symbols'[r].size = 0
      /\ \A i \in 0 .. n - 1 : i # l /\ i # r => symbols'[i].size = symbols[i].size
  BY <1>3, <1>4, <1>6, <1>7, Joining
<1>9. DOMAIN symbols = 0 .. n - 1 /\ DOMAIN symbols' = 0 .. n - 1
      /\ \A i \in 0 .. n - 1 : symbols'[i].offset = symbols[i].offset
  BY <1>4, <1>6 DEF Listed, Joins
<1> HIDE DEF l, r
<1>10. \A i \in 0 .. n - 1 : symbols'[i].size > 0 <=> symbols[i].size > 0 /\ i # r
  <2> TAKE i \in 0 .. n - 1
  <2>1. CASE i = r
    <3>1. ~(symbols'[i].size > 0)
      BY <1>8, <2>1
    <3> QED
      BY <2>1, <3>1
  <2>2. CASE i = l /\ i # r
    BY <1>7, <1>8, <2>2
  <2>3. CASE i # l /\ i # r
    BY <1>8, <2>3
  <2> QED
    BY <2>1, <2>2, <2>3
<1>11. \A i \in 0 .. n - 1 : symbols[i].size > 0 /\ i # r =>
         symbols[i].offset # symbols[r].offset
  <2> TAKE i \in 0 .. n - 1
  <2> HAVE symbols[i].size > 0 /\ i # r
  <2>1. /\ symbols[i].offset \in Nat /\ symbols[r].offset \in Nat
        /\ EndOf(symbols, i) \in Nat /\ EndOf(symbols, r) \in Nat
        /\ symbols[i].offset < EndOf(symbols, i) /\ symbols[r].offset < EndOf(symbols, r)
    BY <1>3, <1>4, <1>7, CutFacts
  <2>2. CASE i < r
    <3>1. EndOf(symbols, i) <= symbols[r].offset
      BY <1>4, <1>7, <2>2 DEF Listed, Ordered
    <3> QED
      BY <2>1, <3>1
  <2>3. CASE r < i
    <3>1. EndOf(symbols, r) <= symbols[i].offset
      BY <1>4, <1>7, <2>3 DEF Listed, Ordered
    <3> QED
      BY <2>1, <3>1
  <2> QED
    BY <1>7, <2>2, <2>3
<1>12. Len(segment) # symbols[r].offset
  <2>1. /\ symbols[r].offset \in Nat /\ symbols[r].offset < EndOf(symbols, r)
        /\ EndOf(symbols, r) \in Nat /\ EndOf(symbols, r) <= Len(segment)
        /\ Len(segment) \in Nat
    BY <1>3, <1>4, <1>7, CutFacts
  <2> QED
    BY <2>1
<1>13. Cuts' = Cuts \ {symbols[r].offset}
  <2>1. Cuts' = {symbols'[i].offset : i \in {i \in 0 .. n - 1 : symbols'[i].size > 0}}
                  \cup {Len(segment)}
    BY <1>1, <1>9 DEF Cuts, Alive
  <2>2. Cuts = {symbols[i].offset : i \in {i \in 0 .. n - 1 : symbols[i].size > 0}}
                 \cup {Len(segment)}
    BY <1>9 DEF Cuts, Alive
  <2>3. \A x \in Cuts' : x \in Cuts \ {symbols[r].offset}
    BY <1>9, <1>10, <1>11, <1>12, <2>1, <2>2
  <2>4. \A x \in Cuts \ {symbols[r].offset} : x \in Cuts'
    BY <1>9, <1>10, <2>1, <2>2
  <2> QED
    BY <2>3, <2>4
<1>14. /\ c \in Greedy!RankedCuts
       /\ \A d \in Greedy!RankedCuts :
            Greedy!Rank(c) < Greedy!Rank(d) \/ (Greedy!Rank(c) = Greedy!Rank(d) /\ c <= d)
       /\ Greedy!NextCut(c) = symbols[r].offset
  BY <1>1, TopIsBest DEF l, r
<1>15. Cuts' = Cuts \ {Greedy!NextCut(c)}
  BY <1>13, <1>14
<1> HIDE DEF c
<1> QED
  BY <1>1, <1>14, <1>15 DEF Greedy!MergeBest, InSegment, vocab

\* When the queue is empty no pair has a rank.
LEMMA RefinesMergeEnds ==
  ASSUME Inv, MergeEnds
  PROVE  Greedy!MergeNoMore
<1>1. /\ pc = "merge" /\ pc' = "emit" /\ segment' = segment /\ symbols' = symbols
      /\ file' = file /\ output' = output /\ index' = 0 /\ queue = {}
  BY DEF MergeEnds
<1>2. segment \in Seq(Bytes) /\ InSegment
  BY <1>1 DEF Inv, OuterType, InSegment
<1>3. PICK n \in Nat : Listed(segment, symbols, n)
  BY <1>1 DEF Inv, SegmentInv
<1>4. Complete(symbols, {})
  BY <1>1 DEF Inv, SegmentInv
<1>5. Greedy!RankedCuts = {}
  <2> SUFFICES ASSUME NEW d \in Greedy!RankedCuts PROVE FALSE
    OBVIOUS
  <2>1. d \in Cuts /\ Greedy!Ranked(d)
    BY <1>2 DEF Greedy!RankedCuts
  <2>2. PICK i \in 0 .. n - 1 : d = symbols[i].offset /\ symbols[i].size > 0
    <3>1. d < Len(segment)
      BY <1>2, <2>1 DEF Greedy!Ranked
    <3>2. d # Len(segment)
      BY <1>2, <3>1, LenProperties
    <3> QED
      BY <1>3, <2>1, <3>2 DEF Cuts, Alive, Listed
  <2> DEFINE j == symbols[i].next
  <2>3. j # End /\ <<TextOf(symbols, i), TextOf(symbols, j)>> \in DOMAIN vocab.ranks
    BY <1>2, <1>3, <2>1, <2>2, RankedOf
  <2>4. j \in 0 .. n - 1
    BY <1>3, <2>2, <2>3, Neighbours
  <2>5. Bigrams(symbols, i, j) # {}
    <3> HIDE DEF j
    <3>1. ~(i < 0 \/ j < 0)
      BY <2>4
    <3> QED
      BY <2>3, <3>1 DEF Bigrams
  <2> QED
    BY <1>3, <1>4, <2>2, <2>3, <2>5 DEF Complete, Listed
<1>6. Cuts' = Cuts /\ symbols[0].offset = 0
  BY <1>1, <1>3 DEF Cuts, Alive, Listed
<1> QED
  BY <1>1, <1>5, <1>6 DEF Greedy!MergeNoMore, InSegment, vocab, End

\* A symbol that is written out is the part that begins where the parts before it end.
LEMMA RefinesEmit ==
  ASSUME Inv, EmitSymbol
  PROVE  Greedy!WritePart \/ Greedy!NoFallback
<1> DEFINE c == symbols[index].offset
           ids == PieceIds(vocab, TextOf(symbols, index))
<1>1. /\ pc = "emit" /\ segment' = segment /\ symbols' = symbols /\ index # End
      /\ file' = file
  BY DEF EmitSymbol
<1>2. segment \in Seq(Bytes) /\ InSegment
  BY <1>1 DEF Inv, OuterType, InSegment
<1>3. PICK n \in Nat : Listed(segment, symbols, n)
  BY <1>1 DEF Inv, SegmentInv
<1>4. index \in 0 .. n - 1 /\ symbols[index].size > 0
  BY <1>1, <1>3 DEF Inv, SegmentInv, Listed
<1>5. /\ c \in Nat /\ c < EndOf(symbols, index) /\ EndOf(symbols, index) \in Nat
      /\ EndOf(symbols, index) <= Len(segment) /\ Len(segment) \in Nat
  BY <1>2, <1>3, <1>4, CutFacts
<1>6. Greedy!NextCut(c) = EndOf(symbols, index)
  BY <1>2, <1>3, <1>4, NextCutOf
<1>7. Greedy!Part(c) = TextOf(symbols, index)
  BY <1>2, <1>3, <1>4, NextCutOf
<1>8. Greedy!PieceIds(vocab, Greedy!Part(c)) = ids
  BY <1>7, SameOperators
<1>9. Greedy!NoId = NoId /\ Greedy!ToSet(ids) = ToSet(ids)
  BY SameOperators
<1>10. c < Len(segment)
  BY <1>5
<1>11. EndOf(symbols, index) = IF symbols[index].next = End THEN Len(segment)
                               ELSE symbols[symbols[index].next].offset
  <2>1. NextLinked(segment, symbols, index)
    BY <1>3, <1>4 DEF Listed, Linked
  <2>2. End \notin DOMAIN symbols
    BY <1>3 DEF Listed, End
  <2> QED
    BY <2>1, <2>2 DEF NextLinked
<1>12. IF NoId \in ToSet(ids) THEN pc' = "failed" /\ output' = output
       ELSE output' = output \o ids /\ index' = symbols[index].next /\ pc' = pc
  BY DEF EmitSymbol, IdsOf
<1>13. Cuts' = Cuts /\ vocab' = vocab
  BY <1>1 DEF Cuts, Alive, vocab
<1> HIDE DEF c, ids
<1>14. CASE NoId \in ToSet(ids)
  <2>1. Greedy!NoFallback
    BY <1>1, <1>8, <1>9, <1>10, <1>12, <1>13, <1>14 DEF Greedy!NoFallback, InSegment, c
  <2> QED
    BY <2>1
<1>15. CASE NoId \notin ToSet(ids)
  <2>1. /\ output' = output \o ids /\ pc' = "emit"
        /\ (IF index' = End THEN Len(segment) ELSE symbols[index'].offset)
             = EndOf(symbols, index)
    BY <1>1, <1>11, <1>12, <1>15
  <2>2. Greedy!WritePart
    BY <1>1, <1>6, <1>8, <1>9, <1>10, <1>13, <1>15, <2>1
       DEF Greedy!WritePart, InSegment, c
  <2> QED
    BY <2>2
<1> QED
  BY <1>14, <1>15

LEMMA RefinesSegmentEnds ==
  ASSUME SegmentEnds PROVE Greedy!EndSegment
BY DEF SegmentEnds, tokenizing, Greedy!EndSegment, InSegment, vocab

\* The linked list and the queue with its stale candidates merge what the greedy rule
\* merges, in its order, and stop when it stops; what is left is written from left to
\* right: for every vocabulary and every text.
THEOREM GreedyMerging == Spec => MergesGreedily
<1>1. Init => Greedy!MergeInit
  BY RefinesInit
<1>2. Inv /\ [Next]_vars => [Greedy!MergeNext]_Greedy!mergeVars
  <2> SUFFICES ASSUME Inv, [Next]_vars PROVE [Greedy!MergeNext]_Greedy!mergeVars
    OBVIOUS
  <2>1. OuterType
    BY DEF Inv
  <2>2. CASE Load \/ Split \/ TextEnds \/ Escape \/ RawEnds \/ NextSegment \/ CutCharacter
             \/ CheckLabel
    BY <2>1, <2>2, RefinesOuter DEF Greedy!MergeNext
  <2>3. CASE FillQueue
    BY <2>3, RefinesFill DEF Greedy!MergeNext
  <2>4. CASE PopStale
    BY <2>4 DEF PopStale, Greedy!mergeVars, InSegment, Cuts, Alive, vocab
  <2>5. CASE PopMerge
    BY <2>5, RefinesMerge DEF Greedy!MergeNext
  <2>6. CASE MergeEnds
    BY <2>6, RefinesMergeEnds DEF Greedy!MergeNext
  <2>7. CASE EmitSymbol
    BY <2>7, RefinesEmit DEF Greedy!MergeNext
  <2>8. CASE SegmentEnds
    BY <2>8, RefinesSegmentEnds DEF Greedy!MergeNext
  <2>9. CASE Finished \/ UNCHANGED vars
    BY <2>9 DEF Finished, vars, tokenizing, merging, Greedy!mergeVars, InSegment, Cuts, Alive,
               vocab
  <2> QED
    BY <2>2, <2>3, <2>4, <2>5, <2>6, <2>7, <2>8, <2>9 DEF Next
<1> QED
  BY <1>1, <1>2, MergeInvariant, PTL DEF Spec, MergesGreedily, Greedy!MergeSpec
==================================================================================

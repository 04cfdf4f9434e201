------------------------------- MODULE GreedyMerge -------------------------------
(***************************************************************************)
(* What tokenize_segment of src/src/tokenizer.cpp promises of one segment  *)
(* after another, without a list and without a queue: the segment is cut   *)
(* into its characters; the best ranked pair of neighbouring parts, the    *)
(* leftmost of several, becomes one part for as long as a pair has a rank; *)
(* the ids of the parts that are left are written from left to right.      *)
(* A cut is the number of bytes before it.                                 *)
(***************************************************************************)
EXTENDS Tokenization

VARIABLES
  vocabulary,
  stage,     \* "between" segments, "merging", "writing", "failed"
  segment,
  cuts,
  written,   \* bytes of the segment whose ids are written
  output

mergeVars == <<vocabulary, stage, segment, cuts, written, output>>

MergeInit ==
  /\ stage = "between"
  /\ segment = <<>>
  /\ cuts = {}
  /\ written = 0
  /\ output = <<>>

NextCut(c) == CHOOSE d \in cuts : d > c /\ \A e \in cuts : e > c => d <= e
Part(c) == SubSeq(segment, c + 1, NextCut(c))

\* The part at c has a neighbour on its right, and the pair a rank.
Ranked(c) ==
  /\ c < Len(segment)
  /\ NextCut(c) < Len(segment)
  /\ <<Part(c), Part(NextCut(c))>> \in DOMAIN vocabulary.ranks
Rank(c) == vocabulary.ranks[<<Part(c), Part(NextCut(c))>>]
RankedCuts == {c \in cuts : Ranked(c)}

\* Each character ends where the next one begins, the last one with the segment.
CutsOfCharacters(bytes, marks) ==
  /\ {0, Len(bytes)} \subseteq marks
  /\ marks \subseteq 0 .. Len(bytes)
  /\ \A c \in marks : c < Len(bytes) =>
       /\ c + SizeAfter(bytes, c) \in marks
       /\ \A d \in marks : d > c => d >= c + SizeAfter(bytes, c)

\* Ids of special tokens, of newline runs and of <bos> are written between segments.
WriteBetween ==
  /\ stage = "between"
  /\ stage' \in {"between", "failed"}
  /\ output' \in {output} \cup {Append(output, id) : id \in DOMAIN vocabulary.pieces}
  /\ UNCHANGED <<vocabulary, segment, cuts, written>>

BeginSegment ==
  /\ stage = "between"
  /\ stage' = "merging"
  /\ segment' # <<>>
  /\ CutsOfCharacters(segment', cuts')
  /\ UNCHANGED <<vocabulary, written, output>>

MergeBest ==
  /\ stage = "merging"
  /\ \E c \in RankedCuts :
       /\ \A d \in RankedCuts : Rank(c) < Rank(d) \/ (Rank(c) = Rank(d) /\ c <= d)
       /\ cuts' = cuts \ {NextCut(c)}
  /\ UNCHANGED <<vocabulary, stage, segment, written, output>>

MergeNoMore ==
  /\ stage = "merging"
  /\ RankedCuts = {}
  /\ stage' = "writing"
  /\ UNCHANGED <<vocabulary, segment, cuts, written, output>>

WritePart ==
  /\ stage = "writing"
  /\ written < Len(segment)
  /\ NoId \notin ToSet(PieceIds(vocabulary, Part(written)))
  /\ output' = output \o PieceIds(vocabulary, Part(written))
  /\ written' = NextCut(written)
  /\ UNCHANGED <<vocabulary, stage, segment, cuts>>

NoFallback ==
  /\ stage = "writing"
  /\ written < Len(segment)
  /\ NoId \in ToSet(PieceIds(vocabulary, Part(written)))
  /\ stage' = "failed"
  /\ segment' = <<>> /\ cuts' = {} /\ written' = 0
  /\ UNCHANGED <<vocabulary, output>>

EndSegment ==
  /\ stage = "writing"
  /\ written = Len(segment)
  /\ stage' = "between"
  /\ segment' = <<>> /\ cuts' = {} /\ written' = 0
  /\ UNCHANGED <<vocabulary, output>>

MergeNext ==
  WriteBetween \/ BeginSegment \/ MergeBest \/ MergeNoMore \/ WritePart \/ NoFallback
  \/ EndSegment

MergeSpec == MergeInit /\ [][MergeNext]_mergeVars
==================================================================================

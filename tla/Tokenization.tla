------------------------------ MODULE Tokenization ------------------------------
(***************************************************************************)
(* What src/src/tokenizer.cpp promises, without its lists and queue: a     *)
(* text is cut at special tokens, what lies between at newline runs, each  *)
(* segment is merged pair by pair, always the best ranked pair and the     *)
(* leftmost of those, and a part the vocabulary lacks falls back to its    *)
(* bytes.  Texts and pieces are sequences of bytes; ids start at 1.  What  *)
(* repeats is a function of the position it has reached, or of the number  *)
(* of merges.                                                              *)
(***************************************************************************)
EXTENDS Integers, SequencesExt

Newline == "nl"
Space == "sp"
Marker == <<"E2", "96", "81">>             \* the bytes of U+2581
BytePiece(byte) == <<"0x", byte>>          \* <0x00> to <0xFF>
NoId == 0                                  \* no byte fallback: the call throws

\* Sizes of the characters that a lead byte announces.
CharacterSize(byte) ==
  CASE byte = "F0" -> 4 [] byte = "E2" -> 3 [] byte = "C3" -> 2 [] OTHER -> 1

\* The character after the first n bytes; a truncated one at the end of the bytes is
\* as long as what is left of them.
SizeAfter(bytes, n) ==
  LET size == CharacterSize(bytes[n + 1])
  IN IF size < Len(bytes) - n THEN size ELSE Len(bytes) - n

Escaped(byte) == IF byte = Space THEN Marker ELSE <<byte>>
EscapeSpaces(text) == FlattenSeq([i \in DOMAIN text |-> Escaped(text[i])])

Known(v, piece) == piece \in ToSet(v.pieces)
Id(v, piece) == CHOOSE i \in DOMAIN v.pieces : v.pieces[i] = piece

PieceIds(v, piece) ==
  IF Known(v, piece) THEN <<Id(v, piece)>>
  ELSE [i \in DOMAIN piece |-> IF Known(v, BytePiece(piece[i]))
                                 THEN Id(v, BytePiece(piece[i])) ELSE NoId]

AllNewlines(segment) == ToSet(segment) = {Newline}

\* The longest prefix of newlines only or without any.
FirstRun(bytes) ==
  LET ends == {i \in 2 .. Len(bytes) : (bytes[i] = Newline) # (bytes[1] = Newline)}
  IN IF ends = {} THEN bytes
     ELSE SubSeq(bytes, 1, (CHOOSE i \in ends : \A j \in ends : i <= j) - 1)

OccursAt(text, piece, i) ==
  i + Len(piece) - 1 <= Len(text) /\ SubSeq(text, i, i + Len(piece) - 1) = piece
------------------------------------------------------------------------------

Characters(bytes) ==
  LET After[n \in 0 .. Len(bytes)] ==
        IF n = Len(bytes) THEN <<>>
        ELSE LET size == SizeAfter(bytes, n)
             IN <<SubSeq(bytes, n + 1, n + size)>> \o After[n + size]
  IN After[0]

\* Reference for the merge loop: each merge leaves one part less.
MergeAll(v, parts) ==
  LET Merge(ps) ==
        LET pairs == {i \in 1 .. Len(ps) - 1 : <<ps[i], ps[i + 1]>> \in DOMAIN v.ranks}
            Rank(i) == v.ranks[<<ps[i], ps[i + 1]>>]
            best == CHOOSE i \in pairs : \A j \in pairs :
                      Rank(i) < Rank(j) \/ (Rank(i) = Rank(j) /\ i <= j)
        IN IF pairs = {} THEN ps
           ELSE SubSeq(ps, 1, best - 1) \o <<ps[best] \o ps[best + 1]>>
                  \o SubSeq(ps, best + 2, Len(ps))
      Merged[n \in 0 .. Len(parts)] == IF n = 0 THEN parts ELSE Merge(Merged[n - 1])
  IN Merged[Len(parts)]

PartIds(v, parts) == FlattenSeq([i \in DOMAIN parts |-> PieceIds(v, parts[i])])

SegmentIds(v, segment) ==
  IF AllNewlines(segment) /\ Known(v, segment) THEN <<Id(v, segment)>>
  ELSE PartIds(v, MergeAll(v, Characters(segment)))

RawIds(v, bytes) ==
  LET After[n \in 0 .. Len(bytes)] ==
        IF n = Len(bytes) THEN <<>>
        ELSE LET run == FirstRun(SubSeq(bytes, n + 1, Len(bytes)))
             IN SegmentIds(v, run) \o After[n + Len(run)]
  IN After[0]

\* The first special token of a text: the earliest, of those the longest, of those
\* the one with the lowest id.
FirstSpecial(specials, text) ==
  LET found == {f \in specials \X DOMAIN text : OccursAt(text, f[1].text, f[2])}
      Before(f, g) == \/ f[2] < g[2]
                      \/ f[2] = g[2] /\ Len(f[1].text) > Len(g[1].text)
                      \/ f[2] = g[2] /\ Len(f[1].text) = Len(g[1].text) /\ f[1].id <= g[1].id
  IN IF found = {} THEN <<>> ELSE CHOOSE f \in found : \A g \in found : Before(f, g)

TextIds(v, specials, text) ==
  LET After[n \in 0 .. Len(text)] ==
        LET left == SubSeq(text, n + 1, Len(text))
            first == FirstSpecial(specials, left)
        IN IF first = <<>> THEN RawIds(v, EscapeSpaces(left))
           ELSE RawIds(v, EscapeSpaces(SubSeq(left, 1, first[2] - 1))) \o <<first[1].id>>
                  \o After[n + first[2] - 1 + Len(first[1].text)]
  IN After[0]

\* The ids of a text; NoId among them means the call throws.
Tokenize(v, text, add_bos, specials) ==
  (IF add_bos THEN <<v.bos>> ELSE <<>>) \o TextIds(v, specials, text)
================================================================================
